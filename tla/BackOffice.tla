------------------------------ MODULE BackOffice ------------------------------
(***************************************************************************)
(* Settlement and reconciliation (apps.settlement.services,                *)
(* apps.reconciliation.services) at work on the payments that callbacks,   *)
(* queries and refunds go on moving.                                       *)
(*                                                                         *)
(* A request is one READ COMMITTED transaction, as in PaymentOrchestrator: *)
(* a batch locks the rows it claims before it reads on, while a            *)
(* reconciliation run keeps the instances its query returned and writes    *)
(* from them.  Payments are numbered in the order of Payment.Meta.ordering,*)
(* the order in which both of them go through their rows.                  *)
(***************************************************************************)
EXTENDS PaymentStates, Integers, FiniteSets, FiniteSetsExt

CONSTANTS
  Requests,   \* requests; each runs once, and names the batch or run it makes
  Payments,   \* Payment rows, newest first
  Bills,
  BillOf,     \* the bill a payment is allocated to, or NoBill
  Amount,     \* amount of each payment
  Fee,        \* revenue.services.PAYMENT_SUCCESS_FEE
  Started,    \* statuses the payments may have when the behaviour begins
  Jobs,       \* what each of them may ask for
  Callbacks,  \* outcomes that callbacks report
  Answers,    \* what the adapter may answer at first
  NoBatch, Nobody, NoBill, NoWrite

ASSUME BackOfficeAssumption ==
  /\ Payments \subseteq Nat /\ IsFiniteSet(Payments)
  /\ BillOf \in [Payments -> Bills \cup {NoBill}] /\ NoBill \notin Bills
  /\ Payments \cap Bills = {}
  /\ Amount \in [Payments -> Nat \ {0}]
  /\ Fee \in Nat \ {0}
  /\ Started \subseteq {"PENDING", "UNKNOWN", "SUCCESSFUL", "FAILED"}
  /\ Callbacks \subseteq ProviderOutcome /\ Answers \subseteq ProviderOutcome
  /\ NoBatch \notin Requests /\ Nobody \notin Requests
  /\ NoWrite \notin Status

VARIABLES
  payment,     \* committed rows: status, provider_reference set, settlement_batch
  fees,        \* committed PAYMENT_SUCCESSFUL revenue events of each payment
  atProvider,  \* what the adapter answers about each payment
  batch,       \* SettlementBatch rows, by the request that made them
  run,         \* ReconciliationRun rows
  exceptions,  \* ReconciliationException rows
  lock,        \* row locks
  pc, job,     \* where each request is, and what it has read and decided
  work,        \* its uncommitted writes
  calm         \* environment: no two open requests have read the same payment

data == <<payment, fees, batch, run, exceptions>>
vars == <<payment, fees, atProvider, batch, run, exceptions, lock, pc, job, work, calm>>

-----------------------------------------------------------------------------
BatchStatus     == {"none", "pending", "completed"}
ExceptionTypes  == {"stuck_unknown", "status_mismatch", "missing_at_provider"}

NoSettlement == [status |-> "none", gross |-> 0, fee |-> 0]
NoRun        == [done |-> FALSE, checked |-> 0, matched |-> 0, resolved |-> 0,
                 unknown |-> {}, listed |-> {}]

\* todo: rows still to go through; inst: status field of the instances read
NoJob  == [op |-> "none", todo |-> {}, inst |-> [p \in Payments |-> NoWrite],
           outcome |-> "unknown", row |-> Nobody]
NoWork == [status |-> [p \in Payments |-> NoWrite], ref |-> {}, claimed |-> {}, paid |-> {},
           batch |-> NoSettlement, run |-> NoRun, exceptions |-> {}]

Open(t) == pc[t] \notin {"idle", "done"}

\* a SELECT of request t sees committed rows and its own
Seen(t, p)    == IF work[t].status[p] # NoWrite THEN work[t].status[p] ELSE payment[p].status
SeenRef(t, p) == payment[p].ref \/ p \in work[t].ref

\* the row at hand: both services go through their query's result in its order
NextRow(t) == Min(job[t].todo)

\* t may UPDATE or lock row x now
FreeOfAll(t, x) == lock[x] = Nobody
Free(t, x) == lock[x] \in {Nobody, t}

\* payments an open request has read and still works from
InUse(t, p) == Open(t) /\ (job[t].inst[p] # NoWrite \/ p \in job[t].todo)

MayRead(t, S) == calm => \A u \in Requests \ {t}, p \in S : ~InUse(u, p)

Snapshot(S) == [p \in Payments |-> IF p \in S THEN payment[p].status ELSE NoWrite]

Begin(t, op, where, todo, outcome, row) ==
  /\ pc[t] = "idle"
  /\ op \in Jobs[t]
  /\ MayRead(t, todo)
  /\ pc' = [pc EXCEPT ![t] = where]
  /\ job' = [job EXCEPT ![t] = [op |-> op, todo |-> todo, inst |-> Snapshot(todo),
                                outcome |-> outcome, row |-> row]]
  /\ UNCHANGED <<data, atProvider, lock, work, calm>>

-----------------------------------------------------------------------------
Init ==
  /\ payment \in [Payments -> [status : Started, ref : BOOLEAN, batch : {NoBatch}]]
  \* only a payment whose initiation timed out has no provider_reference
  /\ \A p \in Payments : payment[p].status # "UNKNOWN" => payment[p].ref
  /\ fees = [p \in Payments |-> IF payment[p].status = "SUCCESSFUL" THEN 1 ELSE 0]
  /\ atProvider \in [Payments -> Answers]
  /\ batch = [t \in Requests |-> NoSettlement]
  /\ run = [t \in Requests |-> NoRun]
  /\ exceptions = {}
  /\ lock = [x \in Payments \cup Bills |-> Nobody]
  /\ pc = [t \in Requests |-> "idle"]
  /\ job = [t \in Requests |-> NoJob]
  /\ work = [t \in Requests |-> NoWork]
  /\ calm \in BOOLEAN

-----------------------------------------------------------------------------
(* End of a request. *)

End(t) ==
  /\ pc' = [pc EXCEPT ![t] = "done"]
  /\ job' = [job EXCEPT ![t] = NoJob]
  /\ work' = [work EXCEPT ![t] = NoWork]
  /\ lock' = [x \in Payments \cup Bills |-> IF lock[x] = t THEN Nobody ELSE lock[x]]

\* the view returns: nothing is left to write, and a run is saved as COMPLETED
Returns(t) ==
  \/ pc[t] = "commit"
  \/ pc[t] \in {"apply", "settled"} /\ job[t].todo = {} /\ job[t].row = Nobody

Commit(t) ==
  /\ Returns(t)
  /\ payment' = [p \in Payments |->
       [status |-> Seen(t, p), ref |-> SeenRef(t, p),
        batch  |-> IF p \in work[t].claimed THEN t ELSE payment[p].batch]]
  /\ fees' = [p \in Payments |-> fees[p] + (IF p \in work[t].paid THEN 1 ELSE 0)]
  /\ batch' = [batch EXCEPT ![t] = work[t].batch]
  /\ run' = [run EXCEPT ![t] = [work[t].run EXCEPT !.done = (job[t].op = "reconcile")]]
  /\ exceptions' = exceptions \cup work[t].exceptions
  /\ End(t)
  /\ UNCHANGED <<atProvider, calm>>

Rollback(t) == End(t) /\ UNCHANGED <<data, atProvider, calm>>

\* a crash, a lost connection or an exception
Abort(t) == Open(t) /\ Rollback(t)

-----------------------------------------------------------------------------
(* generate_settlement_batch *)

Claimable(p) == payment[p].status = "SUCCESSFUL" /\ payment[p].batch = NoBatch

\* SELECT ... FOR UPDATE: the snapshot of the statement
BeginBatch(t) ==
  Begin(t, "batch", "lock", {p \in Payments : Claimable(p)}, "unknown", Nobody)

\* the query without select_for_update
TakeRow(t) ==
  /\ pc[t] = "lock" /\ job[t].todo # {}
  /\ job' = [job EXCEPT ![t].todo = {}]
  /\ work' = [work EXCEPT ![t].claimed = job[t].todo]
  /\ UNCHANGED <<data, atProvider, pc, calm, lock>>

\* the lock without the second look at the row
LockUnchecked(t) ==
  /\ pc[t] = "lock" /\ job[t].todo # {}
  /\ LET p == NextRow(t) IN
     /\ Free(t, p)
     /\ job' = [job EXCEPT ![t].todo = @ \ {p}]
     /\ lock' = [lock EXCEPT ![p] = t]
     /\ work' = [work EXCEPT ![t].claimed = @ \cup {p}]
  /\ UNCHANGED <<data, atProvider, pc, calm>>

\* it locks row by row, and drops a row that no longer matches once it has the lock
LockRow(t) ==
  /\ pc[t] = "lock" /\ job[t].todo # {}
  /\ LET p == NextRow(t) IN
     /\ Free(t, p)
     /\ job' = [job EXCEPT ![t].todo = @ \ {p}]
     /\ IF Claimable(p)
        THEN /\ lock' = [lock EXCEPT ![p] = t]
             /\ work' = [work EXCEPT ![t].claimed = @ \cup {p}]
        ELSE UNCHANGED <<lock, work>>
  /\ UNCHANGED <<data, atProvider, pc, calm>>

\* the claimed rows' amounts, and the PAYMENT_SUCCESSFUL events a second query finds
Gross(S)       == MapThenSumSet(LAMBDA p : Amount[p], S)
PlatformFee(S) == MapThenSumSet(LAMBDA p : Fee * fees[p], S)

CreateBatch(t) ==
  /\ pc[t] = "lock" /\ job[t].todo = {}
  /\ work' = [work EXCEPT ![t].batch =
       [status |-> "pending", gross |-> Gross(work[t].claimed), fee |-> PlatformFee(work[t].claimed)]]
  /\ pc' = [pc EXCEPT ![t] = "commit"]
  /\ UNCHANGED <<data, atProvider, lock, job, calm>>

\* mark_settlement_completed: one UPDATE, whatever the batch's status
MarkCompleted(t) ==
  /\ pc[t] = "idle" /\ "complete" \in Jobs[t]
  /\ \E b \in Requests :
       /\ batch[b].status # "none"
       /\ batch' = [batch EXCEPT ![b].status = "completed"]
  /\ pc' = [pc EXCEPT ![t] = "done"]
  /\ UNCHANGED <<payment, fees, atProvider, run, exceptions, lock, job, work, calm>>

-----------------------------------------------------------------------------
(* The payment orchestrator's requests about one payment: process_callback  *)
(* with any outcome, query_payment, refund_payment and reverse_payment.     *)

BeginCallback(t, p) ==
  /\ payment[p].ref
  /\ \E o \in Callbacks : Begin(t, "callback", "apply", {p}, o, Nobody)

BeginQuery(t, p) == Begin(t, "query", "apply", {p}, atProvider[p], Nobody)

BeginCompensation(t, p) ==
  /\ payment[p].status = "SUCCESSFUL"
  /\ \E op \in {"refund", "reverse"} : Begin(t, op, "compensate", {p}, "successful", Nobody)

OpAsStatus(op) == op
CompensatedStatus(op) == IF op = "refund" THEN "REFUNDED" ELSE "REVERSED"

Compensate(t) ==
  /\ pc[t] = "compensate"
  /\ LET p == NextRow(t) IN
     /\ Free(t, p)
     /\ lock' = [lock EXCEPT ![p] = t]
     /\ work' = [work EXCEPT ![t].status[p] = CompensatedStatus(job[t].op)]
  /\ pc' = [pc EXCEPT ![t] = "commit"]
  /\ UNCHANGED <<data, atProvider, job, calm>>

-----------------------------------------------------------------------------
(* run_reconciliation: first every UNKNOWN payment is queried ... *)

Unknown == {p \in Payments : payment[p].status = "UNKNOWN"}

BeginRun(t) ==
  /\ pc[t] = "idle"
  /\ "reconcile" \in Jobs[t]
  /\ MayRead(t, Unknown)
  /\ pc' = [pc EXCEPT ![t] = "unknown"]
  /\ job' = [job EXCEPT ![t] = [op |-> "reconcile", todo |-> Unknown, inst |-> Snapshot(Unknown),
                                outcome |-> "unknown", row |-> Nobody]]
  /\ work' = [work EXCEPT ![t].run.unknown = Unknown]
  /\ UNCHANGED <<data, atProvider, lock, calm>>

\* the outcome a request applies to the row at hand
OutcomeFor(t, p) == IF pc[t] = "unknown" THEN atProvider[p] ELSE job[t].outcome

Applying(t) == pc[t] \in {"unknown", "apply"} /\ job[t].row = Nobody /\ job[t].todo # {}

\* the counters of a run
OneResolved(r)    == [r EXCEPT !.checked = @ + 1, !.resolved = @ + 1]
OneCompared(r, v) == [r EXCEPT !.checked = @ + 1, !.matched = IF v = "matched" THEN @ + 1 ELSE @]

Exception(t, p, type) == [run |-> t, payment |-> p, type |-> type, status |-> "open"]

NoopUnseen(t) ==
  /\ Applying(t)
  /\ LET p == NextRow(t) IN
     /\ OutcomeIsNoop(job[t].inst[p], OutcomeFor(t, p))
     /\ job' = [job EXCEPT ![t].todo = @ \ {p}]
     /\ work' = IF pc[t] = "unknown" THEN [work EXCEPT ![t].run.checked = @ + 1] ELSE work
  /\ UNCHANGED <<data, atProvider, lock, pc, calm>>

\* query_payment left the payment as it was; a run opens STUCK_UNKNOWN for it
ApplyNoop(t) ==
  /\ Applying(t)
  /\ LET p == NextRow(t) IN
     /\ OutcomeIsNoop(job[t].inst[p], OutcomeFor(t, p))
     /\ job' = [job EXCEPT ![t].todo = @ \ {p}]
     /\ work' = IF pc[t] = "unknown"
                THEN [work EXCEPT ![t].exceptions = @ \cup {Exception(t, p, "stuck_unknown")},
                                  ![t].run.checked = @ + 1]
                ELSE work
  /\ UNCHANGED <<data, atProvider, lock, pc, calm>>

\* transition_to raises: the request, and a run with all it has done, is rolled back
ApplyRaises(t) ==
  /\ Applying(t)
  /\ OutcomeRaises(job[t].inst[NextRow(t)], OutcomeFor(t, NextRow(t)))
  /\ Rollback(t)

\* the UPDATE of the payment and the rows of its settlement, but for the bill
ApplyWrites(t) ==
  /\ Applying(t)
  /\ LET p == NextRow(t)
         o == OutcomeFor(t, p)
         s == NewStatus(o)
     IN
     /\ OutcomeWrites(job[t].inst[p], o)
     /\ Free(t, p)
     /\ lock' = [lock EXCEPT ![p] = t]
     /\ job' = [job EXCEPT ![t].todo = @ \ {p},
                           ![t].row = IF s = "SUCCESSFUL" /\ BillOf[p] # NoBill THEN p ELSE Nobody]
     /\ work' = [work EXCEPT ![t].status[p] = s,
                             ![t].ref = @ \cup {p},
                             ![t].paid = IF s = "SUCCESSFUL" THEN @ \cup {p} ELSE @,
                             ![t].run = IF pc[t] = "unknown" THEN OneResolved(@) ELSE @]
  /\ UNCHANGED <<data, atProvider, pc, calm>>

\* _allocate_to_bill: its UPDATE of the bill waits for the bill's row
AllocateToBill(t) ==
  /\ job[t].row # Nobody
  /\ Free(t, BillOf[job[t].row])
  /\ lock' = [lock EXCEPT ![BillOf[job[t].row]] = t]
  /\ job' = [job EXCEPT ![t].row = Nobody]
  /\ UNCHANGED <<data, atProvider, pc, work, calm>>

(* ... then every settled payment with a reference is compared with the     *)
(* provider's record, and only exceptions are written.                      *)

ListSettled(t) ==
  /\ pc[t] = "unknown" /\ job[t].row = Nobody /\ job[t].todo = {}
  /\ LET S == {p \in Payments : Seen(t, p) \in {"SUCCESSFUL", "FAILED"} /\ SeenRef(t, p)} IN
     /\ MayRead(t, S)
     /\ job' = [job EXCEPT ![t].todo = S,
                           ![t].inst = [p \in Payments |-> IF p \in S THEN Seen(t, p) ELSE NoWrite]]
     /\ work' = [work EXCEPT ![t].run.listed = S]
  /\ pc' = [pc EXCEPT ![t] = "settled"]
  /\ UNCHANGED <<data, atProvider, lock, calm>>

Verdict(s, o) ==
  IF o = "unknown" THEN "missing_at_provider"
  ELSE IF OutcomeToStatus[o] # s THEN "status_mismatch" ELSE "matched"

CheckSettled(t) ==
  /\ pc[t] = "settled" /\ job[t].todo # {}
  /\ LET p == NextRow(t)
         v == Verdict(job[t].inst[p], atProvider[p])
     IN
     /\ job' = [job EXCEPT ![t].todo = @ \ {p}]
     /\ work' = [work EXCEPT
          ![t].exceptions = IF v = "matched" THEN @ ELSE @ \cup {Exception(t, p, v)},
          ![t].run = OneCompared(@, v)]
  /\ UNCHANGED <<data, atProvider, lock, pc, calm>>

\* resolve_exception: one UPDATE by a human
ResolveException(t) ==
  /\ pc[t] = "idle" /\ "resolve" \in Jobs[t]
  /\ \E e \in exceptions : exceptions' = (exceptions \ {e}) \cup {[e EXCEPT !.status = "resolved"]}
  /\ pc' = [pc EXCEPT ![t] = "done"]
  /\ UNCHANGED <<payment, fees, atProvider, batch, run, lock, job, work, calm>>

-----------------------------------------------------------------------------
(* The provider, and PostgreSQL's deadlock detector. *)

ProviderDecides(p) ==
  /\ atProvider[p] = "pending"
  /\ \E o \in {"successful", "failed"} : atProvider' = [atProvider EXCEPT ![p] = o]
  /\ UNCHANGED <<data, lock, pc, job, work, calm>>

\* the row whose holder t must wait for, if any
Wanted(t) ==
  IF job[t].row # Nobody THEN {BillOf[job[t].row]}
  ELSE IF job[t].todo # {} /\ (pc[t] \in {"lock", "compensate"}
            \/ (Applying(t) /\ OutcomeWrites(job[t].inst[NextRow(t)], OutcomeFor(t, NextRow(t)))))
       THEN {NextRow(t)} ELSE {}

\* the request that holds it
Blocker(t) ==
  LET holders == {lock[x] : x \in Wanted(t)} \ {Nobody, t} IN
  IF holders = {} THEN Nobody ELSE CHOOSE u \in holders : TRUE

\* t waits in a cycle: it is chosen as the victim and rolled back
DeadlockVictim(t) ==
  /\ \E C \in SUBSET Requests : t \in C /\ {Blocker(r) : r \in C} = C
  /\ Rollback(t)

-----------------------------------------------------------------------------
Step(t) ==
  \/ LockRow(t) \/ CreateBatch(t)
  \/ Compensate(t)
  \/ ApplyNoop(t) \/ ApplyRaises(t) \/ ApplyWrites(t) \/ AllocateToBill(t)
  \/ ListSettled(t) \/ CheckSettled(t)
  \/ Commit(t)
  \/ DeadlockVictim(t)

Arrive(t) ==
  \/ BeginBatch(t) \/ MarkCompleted(t)
  \/ \E p \in Payments : BeginCallback(t, p) \/ BeginQuery(t, p) \/ BeginCompensation(t, p)
  \/ BeginRun(t) \/ ResolveException(t)

Done == \A t \in Requests : pc[t] = "done"

Next ==
  \/ \E t \in Requests : Arrive(t) \/ Step(t) \/ Abort(t)
  \/ \E p \in Payments : ProviderDecides(p)
  \/ Done /\ UNCHANGED vars

Spec == Init /\ [][Next]_vars

\* while a request can go on, one does; the deadlock detector does look
FairSpec == Spec /\ WF_vars(\E t \in Requests : Step(t))

-----------------------------------------------------------------------------
(***************************************************************************)
(* Types.  A request stages only statuses of PaymentStatus, an exception   *)
(* is of a declared type, and a payment's batch is the row of a request.   *)
(***************************************************************************)
TypeOK ==
  /\ payment \in [Payments -> [status : Status, ref : BOOLEAN, batch : Requests \cup {NoBatch}]]
  /\ fees \in [Payments -> Nat]
  /\ atProvider \in [Payments -> ProviderOutcome]
  /\ batch \in [Requests -> [status : BatchStatus, gross : Nat, fee : Nat]]
  /\ exceptions \subseteq [run : Requests, payment : Payments, type : ExceptionTypes,
                           status : {"open", "resolved"}]
  /\ lock \in [Payments \cup Bills -> Requests \cup {Nobody}]
  /\ \A t \in Requests :
       /\ work[t].status \in [Payments -> Status \cup {NoWrite}]
       /\ work[t].claimed \subseteq Payments
       /\ job[t].todo \subseteq Payments

ClaimedBy(t) == {p \in Payments : payment[p].batch = t}

(***************************************************************************)
(* generate_settlement_batch: "a payment is settled at most once".  A row  *)
(* is claimed when it is SUCCESSFUL and unclaimed, and no later batch,     *)
(* callback, refund or reconciliation run moves it to another batch, also  *)
(* when two batches over one period or a refund run at the same time.      *)
(***************************************************************************)
ClaimsAreFinal ==
  [][\A p \in Payments :
       payment'[p].batch # payment[p].batch =>
         payment[p].batch = NoBatch /\ payment'[p].status = "SUCCESSFUL"]_vars

(***************************************************************************)
(* A batch's gross_amount is the sum of the payments that point to it for  *)
(* as long as it exists, and its platform fee is one fee for each of them  *)
(* when no two requests about one payment overlapped.                      *)
(***************************************************************************)
BatchTotals ==
  \A t \in Requests :
    /\ batch[t].gross = Gross(ClaimedBy(t))
    /\ calm => batch[t].fee = Fee * Cardinality(ClaimedBy(t))

Reported(t, p, types) == \E e \in exceptions : e.run = t /\ e.payment = p /\ e.type \in types

(***************************************************************************)
(* A completed run overlooks nothing: a payment it met UNKNOWN has been    *)
(* settled or is reported as stuck, and one it met settled agrees with the *)
(* provider's record, or the disagreement is reported.  The exception      *)
(* outlives its resolution.  It is a property of payments that are past    *)
(* PENDING when the behaviour begins: a request still working from an      *)
(* instance it read PENDING can write UNKNOWN over what a run has settled. *)
(***************************************************************************)
NothingOverlooked ==
  \A t \in Requests : run[t].done =>
    /\ \A p \in run[t].unknown :
         payment[p].status # "UNKNOWN" \/ Reported(t, p, {"stuck_unknown"})
    /\ calm => \A p \in run[t].listed :
         payment[p].status \in {"SUCCESSFUL", "FAILED"} /\ Verdict(payment[p].status, atProvider[p]) # "matched"
         => Reported(t, p, {"status_mismatch", "missing_at_provider"})

(***************************************************************************)
(* "never silently modify a settled financial event": when requests about  *)
(* one payment do not overlap, a settled payment changes only by a refund  *)
(* or a reversal, whatever the provider, a callback or a run says.         *)
(***************************************************************************)
SettledStays ==
  [][\A p \in Payments :
       /\ calm
       /\ payment[p].status \in {"SUCCESSFUL", "FAILED", "REFUNDED", "REVERSED"}
       /\ payment'[p].status # payment[p].status
       => /\ payment[p].status = "SUCCESSFUL"
          /\ \E t \in Requests : job[t].op \in {"refund", "reverse"} /\ pc'[t] = "done"]_vars

(***************************************************************************)
(* Every request ends, though a run holds the rows of many payments and    *)
(* bills while callbacks take the same rows in the other order: each cycle *)
(* of waits has a victim, and no request waits for itself.                 *)
(***************************************************************************)
EveryRequestEnds == []<>(\A t \in Requests : ~Open(t))

=============================================================================
