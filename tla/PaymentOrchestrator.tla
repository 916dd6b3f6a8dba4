------------------------- MODULE PaymentOrchestrator -------------------------
(***************************************************************************)
(* The Payment Orchestrator (apps.payments.services) with the bill, the    *)
(* ledger, the revenue engine, the receipts and the webhook outbox that it *)
(* writes, under the concurrency the deployment gives it.                  *)
(*                                                                         *)
(* ATOMIC_REQUESTS makes every HTTP request one READ COMMITTED transaction.*)
(* A request t reads rows into Python instances (inst[t]), decides from    *)
(* those instances, stages its writes (work[t]) and publishes all of them  *)
(* in Commit, or none in Abort.  An UPDATE takes the row's lock until the  *)
(* transaction ends and waits while another request holds it; a plain read *)
(* never waits and sees committed rows and the request's own.  No code on  *)
(* these paths re-reads a row after it has waited for its lock.            *)
(***************************************************************************)
EXTENDS PaymentStates, Integers, FiniteSets, FiniteSetsExt

CONSTANTS
  Txns,       \* requests; each runs once
  Payments,   \* identities of Payment rows (merchant_reference)
  Bills,
  Events,     \* provider callbacks, [id, payment, outcome]; one external_event_id each
  BillOf,     \* bill of the payment's control number, NoBill if account-bound
  KeyOf,      \* Idempotency-Key the payment is requested with, or NoKey
  Amount,     \* amount of each payment
  Total,      \* total_amount of each bill
  Fee,        \* revenue.services.PAYMENT_SUCCESS_FEE
  Clawback,   \* Tenant.fee_refund_policy = CLAWBACK
  InitiateResults, \* what adapter.initiate_payment may do
  Overlaps,   \* rows on which concurrent requests overlap: "payment", "bill"
  NoTxn, NoBill, NoKey, NoWrite, Absent

ASSUME ConstantsAssumption ==
  /\ Events \subseteq [id : Nat, payment : Payments, outcome : ProviderOutcome]
  /\ BillOf \in [Payments -> Bills \cup {NoBill}] /\ NoBill \notin Bills
  /\ DOMAIN KeyOf = Payments
  /\ Amount \in [Payments -> Nat \ {0}]
  /\ Total \in [Bills -> Nat]
  /\ Fee \in Nat \ {0}
  /\ Clawback \in BOOLEAN
  /\ InitiateResults \subseteq ProviderOutcome \cup {"timeout", "error"}
  /\ Overlaps \subseteq {"payment", "bill"}
  /\ NoTxn \notin Txns
  /\ NoWrite \notin Status \cup BillStatus
  /\ Absent \notin Status
  /\ Payments \cap Bills = {}

VARIABLES
  payment,   \* committed Payment rows: status, and whether provider_reference is set
  bill,      \* committed status of each bill
  rows,      \* committed rows of the insert-only tables
  lock,      \* row locks on payments and bills
  pc,        \* where each request is
  req,       \* what each request asks for
  inst,      \* the instances each request has read: payment status, reference, bill status
  work,      \* the uncommitted writes of each request: to its payment, to its bill, rows
  calls      \* adapter calls made; the provider does not roll back

vars == <<payment, bill, rows, lock, pc, req, inst, work, calls>>
db   == <<payment, bill, rows>>

-----------------------------------------------------------------------------
(* Rows of the insert-only tables.  by is the request that inserted the row. *)

LedgerTypes  == {"PAYMENT_RECEIVED", "INSTITUTION_ENTITLEMENT",
                 "PLATFORM_PAYMENT_FEE", "REVERSAL", "REFUND"}
RevenueTypes == {"PAYMENT_SUCCESSFUL", "PAYMENT_FAILED", "PAYMENT_DUPLICATE",
                 "PAYMENT_REVERSED", "PAYMENT_REFUNDED"}
EventOutcome == {"PROCESSED", "DUPLICATE", "UNMATCHED", "INVALID_SIGNATURE"}
WebhookTypes == {"payment.successful", "payment.failed", "payment.pending",
                 "payment.refunded", "payment.reversed", "bill.cancelled"}
NotificationTypes == {"payment_successful", "payment_partial", "bill_fully_paid",
                      "payment_failed", "payment_pending", "payment_refunded",
                      "payment_reversed"}

TableRow(table, types, subjects) ==
  [table : {table}, type : types, of : subjects, by : Txns, amt : Int]

Row ==
  TableRow("ledger",     LedgerTypes,     Payments) \cup
  TableRow("revenue",    RevenueTypes,    Payments) \cup
  TableRow("allocation", {"ALLOCATION"},  Payments) \cup
  TableRow("receipt",    {"RECEIPT"},     Payments) \cup
  TableRow("mock",       ProviderOutcome, Payments) \cup
  TableRow("callback",   EventOutcome,    Events) \cup
  TableRow("webhook",    WebhookTypes,    Payments \cup Bills) \cup
  TableRow("notification", NotificationTypes, Payments)

NewRow(table, type, of, t, amt) ==
  [table |-> table, type |-> type, of |-> of, by |-> t, amt |-> amt]

\* ledger.services.post_entry, revenue.services._record_event, _dispatch, _notify
LedgerEntry(t, p, type, amt)  == NewRow("ledger", type, p, t, amt)
RevenueEvent(t, p, type, amt) == NewRow("revenue", type, p, t, amt)
Dispatch(t, x, type)          == NewRow("webhook", type, x, t, 0)
Notify(t, p, type)            == NewRow("notification", type, p, t, 0)

Rows(table, type, x) == {r \in rows : r.table = table /\ r.type = type /\ r.of = x}

\* PaymentCallbackEvent rows that carry event e's external_event_id
EventRows(S, e) ==
  {r \in S : r.table = "callback" /\ r.of = e /\ r.type \in {"PROCESSED", "UNMATCHED"}}

-----------------------------------------------------------------------------
(* Requests. *)

InitiateRequest == [op : {"initiate"}, payment : Payments, portal : BOOLEAN]
QueryRequest    == [op : {"query"}, payment : Payments]
CallbackRequest == [op : {"callback"}, payment : Payments, event : Events]
UndoRequest     == [op : {"refund", "reverse"}, payment : Payments]
CancelRequest   == [op : {"cancel"}, bill : Bills]

NoRequest == [op |-> "none"]

Request == InitiateRequest \cup QueryRequest \cup CallbackRequest
           \cup UndoRequest \cup CancelRequest \cup {NoRequest}

Open(t) == pc[t] \notin {"idle", "committed", "aborted"}

\* the payment and the bill request t reads and writes
IsFor(t, p) == req[t].op \notin {"cancel", "none"} /\ req[t].payment = p

BillIn(t) == IF req[t].op = "cancel" THEN req[t].bill ELSE BillOf[req[t].payment]

\* s: payment status, r: provider_reference set, b: bill status
Read(s, r, b) == [status |-> s, ref |-> r, bill |-> b]
NoInstance    == Read(Absent, FALSE, NoWrite)

\* the same columns as written, NoWrite (or FALSE) where they are not, and rows inserted
Writes(s, r, b, R) == [status |-> s, ref |-> r, bill |-> b, rows |-> R]
Inserts(R)         == Writes(NoWrite, FALSE, NoWrite, R)
NoWork             == Inserts({})

(***************************************************************************)
(* The environment assumption Overlaps restricts: without "payment" no     *)
(* request reads a payment that another open request has read, without     *)
(* "bill" likewise for bills.  With both, requests overlap freely.         *)
(***************************************************************************)
HasReadPayment(u, p) ==
  /\ Open(u)
  /\ req[u].op # "initiate"
  /\ IsFor(u, p)
  /\ inst[u].status # Absent

HasReadBill(u, b) == Open(u) /\ inst[u].bill # NoWrite /\ BillIn(u) = b

MayReadPayment(t, p) ==
  "payment" \notin Overlaps => \A u \in Txns \ {t} : ~HasReadPayment(u, p)

MayReadBill(t, b) ==
  "bill" \notin Overlaps => \A u \in Txns \ {t} : ~HasReadBill(u, b)

\* an UPDATE of x by t proceeds: nobody else holds the row
Lockable(t, x) == lock[x] \in {t, NoTxn}

-----------------------------------------------------------------------------
Init ==
  /\ payment = [p \in Payments |-> [status |-> Absent, ref |-> FALSE]]
  /\ bill = [b \in Bills |-> "ACTIVE"]
  /\ rows = {}
  /\ lock = [x \in Payments \cup Bills |-> NoTxn]
  /\ pc = [t \in Txns |-> "idle"]
  /\ req = [t \in Txns |-> NoRequest]
  /\ inst = [t \in Txns |-> NoInstance]
  /\ work = [t \in Txns |-> NoWork]
  /\ calls = {}

-----------------------------------------------------------------------------
(* End of a request. *)

LocksKept(t) == lock

LocksReleased(t) == [x \in Payments \cup Bills |-> IF lock[x] = t THEN NoTxn ELSE lock[x]]

End(t, how) ==
  /\ pc' = [pc EXCEPT ![t] = how]
  /\ lock' = LocksReleased(t)
  /\ req' = [req EXCEPT ![t] = NoRequest]
  /\ inst' = [inst EXCEPT ![t] = NoInstance]
  /\ work' = [work EXCEPT ![t] = NoWork]

Commit(t) ==
  /\ pc[t] = "commit"
  /\ payment' = [p \in Payments |->
                   [status |-> IF IsFor(t, p) /\ work[t].status # NoWrite
                               THEN work[t].status ELSE payment[p].status,
                    ref    |-> payment[p].ref \/ (IsFor(t, p) /\ work[t].ref)]]
  /\ bill' = [b \in Bills |-> IF work[t].bill # NoWrite /\ BillIn(t) = b
                              THEN work[t].bill ELSE bill[b]]
  /\ rows' = rows \cup work[t].rows
  /\ End(t, "committed")
  /\ UNCHANGED calls

Rollback(t) == End(t, "aborted") /\ UNCHANGED <<payment, bill, rows>>

\* a crash of the worker, a lost connection, or an exception from any later step
Abort(t) == Open(t) /\ Rollback(t) /\ UNCHANGED calls

-----------------------------------------------------------------------------
(* What _apply_outcome inserts when it moves payment p; the allocation and  *)
(* the customer's notification are left to AllocateToBill.                  *)

\* receipts.services.generate_receipt: an existing receipt is returned unchanged
Receipt(t, p) ==
  IF Rows("receipt", "RECEIPT", p) # {} THEN {}
  ELSE {NewRow("receipt", "RECEIPT", p, t, Amount[p])}

GrossEntryOnly(t, p) == {LedgerEntry(t, p, "PAYMENT_RECEIVED", Amount[p])}

\* _post_settlement_ledger_entries
SettlementEntries(t, p) ==
  {LedgerEntry(t, p, "PAYMENT_RECEIVED", Amount[p]),
   LedgerEntry(t, p, "INSTITUTION_ENTITLEMENT", Amount[p])}

\* revenue.services.record_payment_successful
FeeRows(t, p) ==
  {LedgerEntry(t, p, "PLATFORM_PAYMENT_FEE", Fee), RevenueEvent(t, p, "PAYMENT_SUCCESSFUL", Fee)}

FailureRows(t, p) ==
  {RevenueEvent(t, p, "PAYMENT_FAILED", 0), Notify(t, p, "payment_failed")}

OutcomeRows(t, p, o) ==
  CASE o = "successful" ->
         SettlementEntries(t, p) \cup FeeRows(t, p) \cup Receipt(t, p)
         \cup {Dispatch(t, p, "payment.successful")}
    [] o = "failed"  -> FailureRows(t, p) \cup {Dispatch(t, p, "payment.failed")}
    [] o = "pending" -> {Notify(t, p, "payment_pending"), Dispatch(t, p, "payment.pending")}
    [] OTHER         -> {}

NeverAllocate(o) == "commit"

\* only a success goes on to _allocate_to_bill
AfterOutcome(o) == IF o = "successful" THEN "allocate" ELSE "commit"

-----------------------------------------------------------------------------
(* initiate_payment: the lookup by idempotency key ... *)

SameKey(p) == {q \in Payments \ {p} : KeyOf[q] = KeyOf[p] /\ KeyOf[p] # NoKey}

\* a committed Payment already has p's key
KeyTaken(p) == \E q \in SameKey(p) : payment[q].status # Absent

KeyNeverPending(p) == FALSE

\* an open request has written a Payment with p's key: the unique index makes others wait
KeyPending(p) ==
  \E u \in Txns, q \in SameKey(p) :
    req[u].op = "initiate" /\ IsFor(u, q) /\ work[u].status # NoWrite

BeginInitiate(t, p, portal) ==
  /\ pc[t] = "idle"
  /\ payment[p].status = Absent
  /\ \A u \in Txns : req[u].op = "initiate" => req[u].payment # p
  /\ portal => KeyOf[p] = NoKey /\ BillOf[p] # NoBill /\ MayReadBill(t, BillOf[p])
  /\ UNCHANGED <<db, lock, work, calls>>
  /\ IF KeyTaken(p)
     THEN /\ pc' = [pc EXCEPT ![t] = "committed"]
          /\ UNCHANGED <<req, inst>>
     ELSE /\ pc' = [pc EXCEPT ![t] = "insert"]
          /\ req' = [req EXCEPT ![t] = [op |-> "initiate", payment |-> p, portal |-> portal]]
          /\ inst' = [inst EXCEPT ![t] =
                        Read("INITIATED", FALSE, IF portal THEN bill[BillOf[p]] ELSE NoWrite)]

(* ... the INSERT, which waits for an uncommitted row with the same key and *)
(* fails on a committed one, ...                                            *)
InsertConflicts(t) ==
  /\ pc[t] = "insert"
  /\ ~KeyPending(req[t].payment)
  /\ KeyTaken(req[t].payment)
  /\ Rollback(t)
  /\ UNCHANGED calls

(* ... the adapter call, and the three ways it can end.                     *)
CallProvider(t) ==
  /\ pc[t] = "insert"
  /\ ~KeyPending(req[t].payment)
  /\ ~KeyTaken(req[t].payment)
  /\ calls' = calls \cup {[kind |-> "initiate", payment |-> req[t].payment, by |-> t]}
  /\ UNCHANGED <<db, lock, req, inst>>

\* ProviderTimeoutError, although the provider has recorded a success
InitiateTimesOut(t) ==
  /\ "timeout" \in InitiateResults
  /\ CallProvider(t)
  /\ work' = [work EXCEPT ![t] =
                 Writes("UNKNOWN", FALSE, NoWrite,
                        {NewRow("mock", "successful", req[t].payment, t, 0)})]
  /\ pc' = [pc EXCEPT ![t] = "commit"]

\* any other ProviderError
InitiateFails(t) ==
  /\ "error" \in InitiateResults
  /\ CallProvider(t)
  /\ work' = [work EXCEPT ![t] =
                 Writes("FAILED", FALSE, NoWrite, FailureRows(t, req[t].payment))]
  /\ pc' = [pc EXCEPT ![t] = "commit"]

InitiateAnswered(t) ==
  \E o \in InitiateResults \cap ProviderOutcome :
    /\ CallProvider(t)
    /\ work' = [work EXCEPT ![t] =
                   Writes(NewStatus(o), TRUE, NoWrite,
                          {NewRow("mock", o, req[t].payment, t, 0)}
                          \cup OutcomeRows(t, req[t].payment, o))]
    /\ pc' = [pc EXCEPT ![t] = AfterOutcome(o)]

-----------------------------------------------------------------------------
(* Requests about a payment that exists: query_payment, refund, reverse.    *)

ReadPayment(t, p) ==
  /\ MayReadPayment(t, p)
  /\ inst' = [inst EXCEPT ![t] = Read(payment[p].status, payment[p].ref, NoWrite)]

BeginQuery(t, p) ==
  /\ pc[t] = "idle" /\ payment[p].status # Absent
  /\ ReadPayment(t, p)
  /\ req' = [req EXCEPT ![t] = [op |-> "query", payment |-> p]]
  /\ pc' = [pc EXCEPT ![t] = "apply"]
  /\ UNCHANGED <<db, lock, work, calls>>

\* the guard on status, then the adapter call, which nothing undoes
BeginCompensation(t, p, op) ==
  /\ pc[t] = "idle" /\ payment[p].status # Absent
  /\ \/ /\ payment[p].status # "SUCCESSFUL"
        /\ MayReadPayment(t, p)
        /\ pc' = [pc EXCEPT ![t] = "committed"]
        /\ UNCHANGED <<inst, req, calls>>
     \/ /\ payment[p].status = "SUCCESSFUL"
        /\ ReadPayment(t, p)
        /\ req' = [req EXCEPT ![t] = [op |-> op, payment |-> p]]
        /\ calls' = calls \cup {[kind |-> op, payment |-> p, by |-> t]}
        /\ pc' = [pc EXCEPT ![t] = "compensate"]
  /\ UNCHANGED <<db, lock, work>>

CompensationRowsCharged(t, p, op) ==
  {RevenueEvent(t, p, IF op = "refund" THEN "PAYMENT_REFUNDED" ELSE "PAYMENT_REVERSED", Fee)}

\* revenue.services._compensate
CompensationRows(t, p, op) ==
  LET original == Rows("revenue", "PAYMENT_SUCCESSFUL", p)
      clawed   == Clawback /\ original # {}
      entry    == IF op = "refund" THEN "REFUND" ELSE "REVERSAL"
      event    == IF op = "refund" THEN "PAYMENT_REFUNDED" ELSE "PAYMENT_REVERSED"
      hook     == IF op = "refund" THEN "payment.refunded" ELSE "payment.reversed"
      notice   == IF op = "refund" THEN "payment_refunded" ELSE "payment_reversed"
  IN {RevenueEvent(t, p, event, IF clawed THEN -Fee ELSE 0),
      Notify(t, p, notice), Dispatch(t, p, hook)}
     \cup IF clawed THEN {LedgerEntry(t, p, entry, -Fee)} ELSE {}

Compensate(t) ==
  LET p == req[t].payment IN
  /\ pc[t] = "compensate"
  /\ Lockable(t, p)
  /\ lock' = [lock EXCEPT ![p] = t]
  /\ work' = [work EXCEPT ![t] =
                 Writes(IF req[t].op = "refund" THEN "REFUNDED" ELSE "REVERSED",
                        FALSE, NoWrite, CompensationRows(t, p, req[t].op))]
  /\ pc' = [pc EXCEPT ![t] = "commit"]
  /\ UNCHANGED <<db, req, inst, calls>>

-----------------------------------------------------------------------------
(* process_callback: the signature, the INSERT of the event under its       *)
(* unique constraint, the lookup of the payment by provider_reference.  The *)
(* provider sends callbacks only for payments it has been asked to make.    *)

BeginCallback(t, e, verified) ==
  /\ pc[t] = "idle"
  /\ \E c \in calls : c.kind = "initiate" /\ c.payment = e.payment
  /\ req' = [req EXCEPT ![t] = [op |-> "callback", payment |-> e.payment, event |-> e]]
  /\ IF verified
     THEN /\ pc' = [pc EXCEPT ![t] = "event"]
          /\ UNCHANGED work
     ELSE /\ pc' = [pc EXCEPT ![t] = "commit"]
          /\ work' = [work EXCEPT ![t] =
                        Inserts({NewRow("callback", "INVALID_SIGNATURE", e, t, 0)})]
  /\ UNCHANGED <<db, lock, inst, calls>>

EventNeverPending(e) == FALSE

\* an open request has inserted the same event id: the unique index makes others wait
EventPending(e) == \E u \in Txns : EventRows(work[u].rows, e) # {}

RecordEvent(t) ==
  LET e == req[t].event IN
  /\ pc[t] = "event"
  /\ ~EventPending(e)
  /\ \/ /\ EventRows(rows, e) = {}
        /\ work' = [work EXCEPT ![t] = Inserts({NewRow("callback", "PROCESSED", e, t, 0)})]
        /\ pc' = [pc EXCEPT ![t] = "lookup"]
     \/ /\ EventRows(rows, e) # {}
        /\ work' = [work EXCEPT ![t] =
                      Inserts({NewRow("callback", "DUPLICATE", e, t, 0)}
                              \cup IF Rows("callback", "PROCESSED", e) = {} THEN {}
                                   ELSE {RevenueEvent(t, e.payment, "PAYMENT_DUPLICATE", 0)})]
        /\ pc' = [pc EXCEPT ![t] = "commit"]
  /\ UNCHANGED <<db, lock, req, inst, calls>>

MatchPayment(t) ==
  LET e == req[t].event
      p == req[t].payment
  IN
  /\ pc[t] = "lookup"
  /\ \/ /\ payment[p].ref
        /\ ReadPayment(t, p)
        /\ pc' = [pc EXCEPT ![t] = "apply"]
        /\ UNCHANGED work
     \/ /\ ~payment[p].ref
        /\ work' = [work EXCEPT ![t] = Inserts({NewRow("callback", "UNMATCHED", e, t, 0)})]
        /\ pc' = [pc EXCEPT ![t] = "commit"]
        /\ UNCHANGED inst
  /\ UNCHANGED <<db, lock, req, calls>>

-----------------------------------------------------------------------------
(* _apply_outcome for a query or a callback, on the instance read earlier.  *)

MockRows(p) == {r \in rows : r.table = "mock" /\ r.of = p}

\* MockPaymentProviderAdapter.query_payment
QueryOutcome(p) ==
  IF MockRows(p) = {} THEN "unknown"
  ELSE CHOOSE o \in ProviderOutcome : \E r \in MockRows(p) : r.type = o

ReportedOutcome(t) ==
  IF req[t].op = "callback" THEN req[t].event.outcome ELSE QueryOutcome(req[t].payment)

\* query_payment fills in a provider_reference the instance lacks
FillsReference(t) ==
  req[t].op = "query" /\ ~inst[t].ref /\ MockRows(req[t].payment) # {}

ApplyNoop(t) ==
  LET p == req[t].payment IN
  /\ pc[t] = "apply"
  /\ OutcomeIsNoop(inst[t].status, ReportedOutcome(t))
  /\ \/ ~FillsReference(t) /\ UNCHANGED lock
     \/ FillsReference(t) /\ Lockable(t, p) /\ lock' = [lock EXCEPT ![p] = t]
  /\ work' = [work EXCEPT ![t] = Writes(NoWrite, FillsReference(t), NoWrite, work[t].rows)]
  /\ pc' = [pc EXCEPT ![t] = "commit"]
  /\ UNCHANGED <<db, req, inst, calls>>

ApplyRaises(t) ==
  /\ pc[t] = "apply"
  /\ OutcomeRaises(inst[t].status, ReportedOutcome(t))
  /\ Rollback(t)
  /\ UNCHANGED calls

ApplyWrites(t) ==
  LET p == req[t].payment
      o == ReportedOutcome(t)
  IN
  /\ pc[t] = "apply"
  /\ OutcomeWrites(inst[t].status, o)
  /\ Lockable(t, p)
  /\ lock' = [lock EXCEPT ![p] = t]
  /\ work' = [work EXCEPT ![t] = Writes(NewStatus(o), FillsReference(t), NoWrite,
                                        work[t].rows \cup OutcomeRows(t, p, o))]
  /\ pc' = [pc EXCEPT ![t] = AfterOutcome(o)]
  /\ UNCHANGED <<db, req, inst, calls>>

-----------------------------------------------------------------------------
(* _allocate_to_bill.  The portal's pay_bill view read the bill when the    *)
(* request began; everywhere else it is read here.  amount_paid is computed *)
(* from the committed allocations and the request's own.                    *)

Allocations(S, b) == {r \in S : r.table = "allocation" /\ BillOf[r.of] = b}

AmountPaid(S, b) == MapThenSumSet(LAMBDA r : r.amt, Allocations(S, b))

BillPaidTooLate(seen, b, S) ==
  IF seen \notin {"ACTIVE", "PARTIALLY_PAID"} THEN NoWrite
  ELSE IF Total[b] - AmountPaid(S, b) < 0 THEN "PAID"
  ELSE IF seen = "ACTIVE" THEN "PARTIALLY_PAID" ELSE NoWrite

BillPaidByAnyPayment(seen, b, S) ==
  IF seen \in {"ACTIVE", "PARTIALLY_PAID"} THEN "PAID" ELSE NoWrite

BillAfterAllocation(seen, b, S) ==
  IF seen \notin {"ACTIVE", "PARTIALLY_PAID"} THEN NoWrite
  ELSE IF Total[b] - AmountPaid(S, b) <= 0 THEN "PAID"
  ELSE IF seen = "ACTIVE" THEN "PARTIALLY_PAID" ELSE NoWrite

\* _notify_payment_successful: one notice, chosen by the status of the bill instance
SuccessNotice(t, p, status) ==
  Notify(t, p, CASE status = "PAID"           -> "bill_fully_paid"
                 [] status = "PARTIALLY_PAID" -> "payment_partial"
                 [] OTHER                     -> "payment_successful")

AllocateToBill(t) ==
  LET p    == req[t].payment
      b    == BillOf[p]
      mine == work[t].rows \cup {NewRow("allocation", "ALLOCATION", p, t, Amount[p])}
  IN
  /\ pc[t] = "allocate"
  /\ \/ /\ b = NoBill
        /\ work' = [work EXCEPT ![t] = Writes(work[t].status, work[t].ref, NoWrite,
                                   work[t].rows \cup {SuccessNotice(t, p, NoWrite)})]
        /\ pc' = [pc EXCEPT ![t] = "commit"]
        /\ UNCHANGED inst
     \/ /\ b # NoBill
        /\ MayReadBill(t, b)
        /\ LET seen == IF inst[t].bill = NoWrite THEN bill[b] ELSE inst[t].bill
               to   == BillAfterAllocation(seen, b, rows \cup mine)
               now  == IF to = NoWrite THEN seen ELSE to
           IN /\ inst' = [inst EXCEPT ![t] = Read(inst[t].status, inst[t].ref, seen)]
              /\ work' = [work EXCEPT ![t] = Writes(work[t].status, work[t].ref, to,
                                                    mine \cup {SuccessNotice(t, p, now)})]
              /\ pc' = [pc EXCEPT ![t] = IF to = NoWrite THEN "commit" ELSE "billwrite"]
  /\ UNCHANGED <<db, lock, req, calls>>

\* Bill.transition_to saves: the UPDATE that _allocate_to_bill or cancel_bill decided on
WriteBill(t) ==
  /\ pc[t] = "billwrite"
  /\ Lockable(t, BillIn(t))
  /\ lock' = [lock EXCEPT ![BillIn(t)] = t]
  /\ pc' = [pc EXCEPT ![t] = "commit"]
  /\ UNCHANGED <<db, req, inst, work, calls>>

\* bill_cancel: an illegal transition is caught by the view and writes nothing
BeginCancelBill(t, b) ==
  /\ pc[t] = "idle"
  /\ MayReadBill(t, b)
  /\ IF "CANCELLED" \notin BillTransitions[bill[b]]
     THEN /\ pc' = [pc EXCEPT ![t] = "committed"]
          /\ UNCHANGED <<req, inst, work>>
     ELSE /\ pc' = [pc EXCEPT ![t] = "billwrite"]
          /\ req' = [req EXCEPT ![t] = [op |-> "cancel", bill |-> b]]
          /\ inst' = [inst EXCEPT ![t] = Read(Absent, FALSE, bill[b])]
          /\ work' = [work EXCEPT ![t] = Writes(NoWrite, FALSE, "CANCELLED",
                                                {Dispatch(t, b, "bill.cancelled")})]
  /\ UNCHANGED <<db, lock, calls>>

-----------------------------------------------------------------------------
Begin(t) ==
  \/ \E p \in Payments, portal \in BOOLEAN : BeginInitiate(t, p, portal)
  \/ \E p \in Payments : BeginQuery(t, p)
  \/ \E p \in Payments, op \in {"refund", "reverse"} : BeginCompensation(t, p, op)
  \/ \E e \in Events, verified \in BOOLEAN : BeginCallback(t, e, verified)
  \/ \E b \in Bills : BeginCancelBill(t, b)

\* the steps a request that has begun takes by itself
Step(t) ==
  \/ InsertConflicts(t)
  \/ InitiateTimesOut(t)
  \/ InitiateFails(t)
  \/ InitiateAnswered(t)
  \/ RecordEvent(t)
  \/ MatchPayment(t)
  \/ ApplyNoop(t)
  \/ ApplyRaises(t)
  \/ ApplyWrites(t)
  \/ Compensate(t)
  \/ AllocateToBill(t)
  \/ WriteBill(t)
  \/ Commit(t)

\* every request has been answered; nothing is left to do
AllEnded == (\A t \in Txns : pc[t] \in {"committed", "aborted"}) /\ UNCHANGED vars

Next ==
  \/ \E t \in Txns : Begin(t) \/ Step(t) \/ Abort(t)
  \/ AllEnded

Spec == Init /\ [][Next]_vars

\* a worker that has begun a request keeps executing it
FairSpec == Spec /\ \A t \in Txns : WF_vars(Step(t))
=============================================================================
