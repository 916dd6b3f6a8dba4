--------------------------- MODULE SettlementProofs ---------------------------
(***************************************************************************)
(* Theorems about settlement and reconciliation, for any payments, bills   *)
(* and requests.  Inv says what each request holds and has read; BooksInv, *)
(* which rests on it, what the rows of batches, fees and runs add up to.   *)
(***************************************************************************)
EXTENDS BackOffice, SumLemmas

Place == {"idle", "lock", "unknown", "settled", "apply", "compensate", "commit", "done"}
Job   == [op : {"none", "batch", "callback", "query", "refund", "reverse", "reconcile"},
          todo : SUBSET Payments, inst : [Payments -> Status \cup {NoWrite}],
          outcome : ProviderOutcome, row : Payments \cup {Nobody}]

\* work[t], but for the sums of a batch and the counts of a run
Writes(w) ==
  w \in [status : [Payments -> Status \cup {NoWrite}], ref : SUBSET Payments, claimed : SUBSET Payments,
         paid : {w.paid}, batch : {w.batch}, run : {w.run}, exceptions : {w.exceptions}]

RowTypes ==
  /\ payment \in [Payments -> [status : Status, ref : BOOLEAN, batch : Requests \cup {NoBatch}]]
  /\ atProvider \in [Payments -> ProviderOutcome]
  /\ lock \in [Payments \cup Bills -> Requests \cup {Nobody}]

RequestTypes ==
  /\ pc \in [Requests -> Place] /\ job \in [Requests -> Job]
  /\ work = [t \in Requests |-> work[t]] /\ \A t \in Requests : Writes(work[t])

\* a request that is not open has read and written nothing
Cleared(t) == ~Open(t) => job[t] = NoJob /\ work[t] = NoWork

Staged(t, p) == work[t].status[p] # NoWrite

\* what request t has claimed or written is under its lock until it ends
Held(t) == \A p \in Payments :
  /\ p \in work[t].claimed => lock[p] = t /\ Claimable(p) /\ ~Staged(t, p)
  /\ Staged(t, p) => lock[p] = t /\ job[t].inst[p] # NoWrite

\* what follows from where request t is
Placed(t) ==
  /\ pc[t] = "lock" => \A p \in Payments : ~Staged(t, p)
  /\ pc[t] \in {"unknown", "apply", "compensate"} =>
       /\ work[t].claimed = {}
       /\ \A p \in job[t].todo : job[t].inst[p] # NoWrite /\ ~Staged(t, p)
  /\ pc[t] = "unknown" => \A p \in Payments :
       /\ job[t].inst[p] \in {"UNKNOWN", NoWrite}
       /\ Staged(t, p) => work[t].status[p] \in {"SUCCESSFUL", "FAILED"} /\ p \in work[t].ref
  /\ pc[t] = "settled" => work[t].claimed = {}
  /\ pc[t] = "compensate" =>
       /\ job[t].op \in {"refund", "reverse"} /\ job[t].todo # {}
       /\ \A p \in job[t].todo : job[t].inst[p] = "SUCCESSFUL"
  /\ job[t].row # Nobody => pc[t] \in {"unknown", "apply"}

\* an instance agrees with its row until t writes it, and t writes a row that is
\* not settled yet, or compensates one that is SUCCESSFUL
Unsettled == {"INITIATED", "PENDING", "UNKNOWN"}

Fresh(t) == \A p \in Payments :
  /\ job[t].inst[p] # NoWrite /\ ~Staged(t, p) => job[t].inst[p] = payment[p].status
  /\ Staged(t, p) => \/ payment[p].status \in Unsettled
                     \/ job[t].op \in {"refund", "reverse"} /\ payment[p].status = "SUCCESSFUL"

Alone == \A p \in Payments : \A t, u \in Requests : InUse(t, p) /\ InUse(u, p) => t = u

Good(t) == Cleared(t) /\ Held(t) /\ Placed(t) /\ (calm => Fresh(t))

Inv ==
  /\ RowTypes /\ RequestTypes /\ calm \in BOOLEAN
  /\ \A t \in Requests : Good(t)
  /\ calm => Alone

-----------------------------------------------------------------------------
\* The next row of a request is one of its rows.
LEMMA NextRowIsARow ==
  ASSUME NEW S \in SUBSET Payments, S # {}
  PROVE  Min(S) \in S
<1> DEFINE Less == {s \in Nat \X Nat : s[1] < s[2]}
<1>1. S \subseteq Nat
  BY BackOfficeAssumption
<1>2. IsWellFoundedOn(Less, Nat)
  <2>1. OpToRel(<, Nat) = Less
    BY Zenon DEF OpToRel
  <2>2. QED
    BY <2>1, NatLessThanWellFounded, Zenon
<1>3. \A a, b \in Nat : a < b => <<a, b>> \in Less
  OBVIOUS
<1> HIDE DEF Less
<1>4. PICK x \in S : \A y \in S : <<y, x>> \notin Less
  BY <1>1, <1>2, WFMin, Zenon
<1>5. \A y \in S : x =< y
  <2>1. ASSUME NEW y \in S PROVE ~(y < x)
    BY <1>1, <1>3, <1>4, <2>1, Zenon
  <2>2. QED
    BY <1>1, <2>1
<1>6. QED
  BY <1>5 DEF Min

LEMMA Nulls ==
  /\ NoJob \in Job /\ Writes(NoWork)
  /\ \A p \in Payments : NoJob.inst[p] = NoWrite /\ NoWork.status[p] = NoWrite
  /\ NoJob.todo = {} /\ NoJob.row = Nobody /\ NoWork.claimed = {} /\ NoWork.ref = {}
  /\ NoWrite \notin Status
BY BackOfficeAssumption DEF NoJob, Job, NoWork, Writes, ProviderOutcome

LEMMA InvInit == Init => Inv
<1> SUFFICES ASSUME Init PROVE Inv
  OBVIOUS
<1> USE BackOfficeAssumption DEF Init
<1>1. RowTypes
  BY DEF RowTypes, Status
<1>2. RequestTypes
  BY Nulls DEF RequestTypes, Place
<1>3. ASSUME NEW t \in Requests PROVE Good(t)
  BY <1>3, Nulls DEF Good, Cleared, Held, Placed, Fresh, Open, Staged
<1>4. Alone
  BY DEF Alone, InUse, Open
<1>5. QED
  BY <1>1, <1>2, <1>3, <1>4 DEF Inv

(* A step of one request leaves the others as they were. *)
Others(t) ==
  /\ \A u \in Requests \ {t} : pc'[u] = pc[u] /\ job'[u] = job[u] /\ work'[u] = work[u]
  /\ \A u \in Requests \ {t}, x \in Payments : lock[x] = u => lock'[x] = u
  /\ calm' = calm

LEMMA OthersStayGood ==
  ASSUME Inv, NEW t \in Requests, Others(t), payment' = payment, NEW u \in Requests \ {t}
  PROVE  Good(u)'
<1>1. Good(u) /\ job[u].todo \subseteq Payments
  BY DEF Inv, RequestTypes, Job
<1>2. \A p \in Payments : Staged(u, p)' <=> Staged(u, p)
  BY DEF Others, Staged
<1>3. Cleared(u)'
  BY <1>1 DEF Good, Cleared, Open, Others
<1>4. Held(u)'
  BY <1>1, <1>2 DEF Good, Held, Others, Claimable
<1>5. Placed(u)'
  BY <1>1, <1>2 DEF Good, Placed, Others
<1>6. calm' => Fresh(u)'
  BY <1>1, <1>2 DEF Good, Fresh, Others
<1>7. QED
  BY <1>3, <1>4, <1>5, <1>6 DEF Good

\* who reads no further row stays alone
LEMMA AloneStays ==
  ASSUME Inv, NEW t \in Requests, Others(t), calm,
         \A p \in Payments : InUse(t, p)' => \/ InUse(t, p)
                                             \/ \A u \in Requests \ {t} : ~InUse(u, p)
  PROVE  Alone'
<1>1. Alone
  BY DEF Inv
<1>2. \A u \in Requests \ {t}, p \in Payments : InUse(u, p)' <=> InUse(u, p)
  BY DEF Others, InUse, Open
<1>3. QED
  BY <1>1, <1>2 DEF Alone

-----------------------------------------------------------------------------
(* Steps of a request that commit nothing. *)

LEMMA Moves ==
  ASSUME Inv, NEW t \in Requests, NEW place \in Place, NEW j \in Job, NEW w, Writes(w),
         pc' = [pc EXCEPT ![t] = place], job' = [job EXCEPT ![t] = j],
         work' = [work EXCEPT ![t] = w],
         lock' \in [Payments \cup Bills -> Requests \cup {Nobody}],
         \A u \in Requests \ {t}, x \in Payments : lock[x] = u => lock'[x] = u,
         UNCHANGED <<payment, atProvider, calm>>,
         Good(t)',
         calm => \A p \in Payments : InUse(t, p)' => \/ InUse(t, p)
                                                     \/ \A u \in Requests \ {t} : ~InUse(u, p)
  PROVE  Inv'
<1>1. RowTypes' /\ RequestTypes'
  BY DEF Inv, RowTypes, RequestTypes
<1>2. Others(t)
  BY DEF Inv, RequestTypes, Others
<1>3. \A u \in Requests : Good(u)'
  BY <1>2, OthersStayGood
<1>4. calm' => Alone'
  BY <1>2, AloneStays
<1>5. QED
  BY <1>1, <1>3, <1>4 DEF Inv

\* a lock that is free for t may become t's, and t's may be released
LEMMA LockMoves ==
  ASSUME Inv, NEW t \in Requests, NEW x, Free(t, x), lock' = [lock EXCEPT ![x] = t]
  PROVE  /\ lock' \in [Payments \cup Bills -> Requests \cup {Nobody}]
         /\ \A u \in Requests \ {t}, y \in Payments : lock[y] = u => lock'[y] = u
         /\ \A y \in Payments : lock[y] = t => lock'[y] = t
         /\ x \in Payments => lock'[x] = t
BY BackOfficeAssumption DEF Inv, RowTypes, Free

LEMMA Unmoved ==
  ASSUME Inv, NEW t \in Requests
  PROVE  /\ pc[t] \in Place /\ job[t] \in Job /\ Writes(work[t]) /\ Good(t)
         /\ pc = [pc EXCEPT ![t] = pc[t]] /\ job = [job EXCEPT ![t] = job[t]]
         /\ work = [work EXCEPT ![t] = work[t]]
         /\ lock \in [Payments \cup Bills -> Requests \cup {Nobody}]
<1>1. pc[t] \in Place /\ job[t] \in Job /\ Writes(work[t]) /\ Good(t)
  BY DEF Inv, RequestTypes
<1>2. pc = [pc EXCEPT ![t] = pc[t]] /\ job = [job EXCEPT ![t] = job[t]]
  BY DEF Inv, RequestTypes
<1>3. work = [work EXCEPT ![t] = work[t]]
  BY DEF Inv, RequestTypes
<1>4. QED
  BY <1>1, <1>2, <1>3 DEF Inv, RowTypes

LEMMA BeginStep ==
  ASSUME Inv, NEW t \in Requests, NEW op, NEW where, NEW S \in SUBSET Payments,
         NEW o \in ProviderOutcome, Begin(t, op, where, S, o, Nobody),
         \/ op = "batch" /\ where = "lock"
         \/ op \in {"callback", "query"} /\ where = "apply"
         \/ /\ op \in {"refund", "reverse"} /\ where = "compensate" /\ S # {}
            /\ \A p \in S : payment[p].status = "SUCCESSFUL"
  PROVE  Inv'
<1> DEFINE j == [op |-> op, todo |-> S, inst |-> Snapshot(S), outcome |-> o, row |-> Nobody]
<1>1. \A p \in Payments : payment[p].status \in Status /\ NoWrite # payment[p].status
  BY BackOfficeAssumption DEF Inv, RowTypes
<1>2. j \in Job
  BY <1>1 DEF Job, Snapshot
<1>3. where \in Place
  BY DEF Place
<1>4. /\ pc' = [pc EXCEPT ![t] = where] /\ job' = [job EXCEPT ![t] = j]
      /\ work' = [work EXCEPT ![t] = work[t]] /\ UNCHANGED <<payment, atProvider, calm, lock>>
  BY Unmoved DEF Begin, data
<1>5. pc[t] = "idle" /\ work[t] = NoWork /\ ~Open(t)
  BY Unmoved DEF Begin, Good, Cleared, Open
<1>6. pc'[t] = where /\ job'[t] = j /\ work'[t] = NoWork
  BY <1>4, <1>5 DEF Inv, RequestTypes
<1>7. /\ j.todo = S /\ j.op = op /\ j.row = Nobody
      /\ \A p \in Payments : (p \in S => j.inst[p] = payment[p].status) /\ (p \notin S => j.inst[p] = NoWrite)
  BY DEF Snapshot
<1> HIDE DEF j
<1>8. Good(t)'
  <2>1. \A p \in Payments : ~Staged(t, p)'
    BY <1>6, Nulls DEF Staged
  <2>2. Cleared(t)' /\ Held(t)'
    BY <1>6, <2>1, Nulls DEF Cleared, Open, Held
  <2>3. Placed(t)'
    BY <1>1, <1>6, <1>7, <2>1, Nulls DEF Placed
  <2>4. Fresh(t)'
    BY <1>4, <1>6, <1>7, <2>1 DEF Fresh
  <2>5. QED
    BY <2>2, <2>3, <2>4 DEF Good
<1>9. calm => \A p \in Payments : InUse(t, p)' => \A u \in Requests \ {t} : ~InUse(u, p)
  BY <1>6, <1>7 DEF InUse, Begin, MayRead
<1>10. QED
  BY <1>2, <1>3, <1>4, <1>8, <1>9, Unmoved, Moves

LEMMA BeginRunStep ==
  ASSUME Inv, NEW t \in Requests, BeginRun(t)
  PROVE  Inv'
<1> DEFINE j == [op |-> "reconcile", todo |-> Unknown, inst |-> Snapshot(Unknown),
                 outcome |-> "unknown", row |-> Nobody]
           w == [work[t] EXCEPT !.run.unknown = Unknown]
<1>1. \A p \in Payments : payment[p].status \in Status /\ NoWrite # payment[p].status
  BY BackOfficeAssumption DEF Inv, RowTypes
<1>2. j \in Job /\ "unknown" \in Place
  BY <1>1 DEF Job, Snapshot, ProviderOutcome, Unknown, Place
<1>3. Writes(w) /\ w.status = work[t].status /\ w.claimed = work[t].claimed /\ w.ref = work[t].ref
  BY Unmoved DEF Writes
<1>4. /\ pc' = [pc EXCEPT ![t] = "unknown"] /\ job' = [job EXCEPT ![t] = j]
      /\ work' = [work EXCEPT ![t] = w] /\ UNCHANGED <<payment, atProvider, calm, lock>>
  BY Unmoved DEF BeginRun, data
<1>5. pc[t] = "idle" /\ work[t] = NoWork /\ ~Open(t)
  BY Unmoved DEF BeginRun, Good, Cleared, Open
<1>6. /\ pc'[t] = "unknown" /\ job'[t] = j /\ work'[t] = w
      /\ w.claimed = {} /\ \A p \in Payments : w.status[p] = NoWrite
  BY <1>3, <1>4, <1>5, Nulls DEF Inv, RequestTypes
<1>7. /\ j.todo = Unknown /\ j.row = Nobody
      /\ \A p \in Payments : (p \in Unknown => j.inst[p] = "UNKNOWN" /\ payment[p].status = "UNKNOWN")
                           /\ (p \notin Unknown => j.inst[p] = NoWrite)
  BY DEF Snapshot, Unknown
<1> HIDE DEF j, w
<1>8. Good(t)'
  <2>1. \A p \in Payments : ~Staged(t, p)'
    BY <1>6 DEF Staged
  <2>2. Cleared(t)' /\ Held(t)'
    BY <1>6, <2>1 DEF Cleared, Open, Held
  <2>3. Placed(t)'
    BY <1>1, <1>6, <1>7, <2>1 DEF Placed, Unknown
  <2>4. Fresh(t)'
    BY <1>4, <1>6, <1>7, <2>1 DEF Fresh
  <2>5. QED
    BY <2>2, <2>3, <2>4 DEF Good
<1>9. calm => \A p \in Payments : InUse(t, p)' => \A u \in Requests \ {t} : ~InUse(u, p)
  BY <1>6, <1>7 DEF InUse, BeginRun, MayRead
<1>10. QED
  BY <1>2, <1>3, <1>4, <1>8, <1>9, Unmoved, Moves

\* The row lock of SELECT FOR UPDATE makes the second look at the row final.
LEMMA LockRowStep ==
  ASSUME Inv, NEW t \in Requests, LockRow(t)
  PROVE  Inv'
<1> DEFINE p == NextRow(t)
           j == [job[t] EXCEPT !.todo = job[t].todo \ {p}]
           w == [work[t] EXCEPT !.claimed = work[t].claimed \cup {p}]
<1>1. p \in job[t].todo /\ p \in Payments
  BY Unmoved, NextRowIsARow DEF LockRow, NextRow, Job
<1>2. j \in Job /\ j.inst = job[t].inst /\ j.op = job[t].op /\ j.todo \subseteq job[t].todo
      /\ j.row = job[t].row
  BY Unmoved DEF Job
<1>3. Writes(w) /\ w.status = work[t].status /\ w.claimed = work[t].claimed \cup {p}
  BY <1>1, Unmoved DEF Writes
<1>4. /\ pc[t] = "lock" /\ pc' = [pc EXCEPT ![t] = "lock"] /\ job' = [job EXCEPT ![t] = j]
      /\ UNCHANGED <<payment, atProvider, calm>> /\ Free(t, p)
  BY Unmoved DEF LockRow, data
<1>5. IF Claimable(p) THEN lock' = [lock EXCEPT ![p] = t] /\ work' = [work EXCEPT ![t] = w]
                      ELSE UNCHANGED <<lock, work>>
  BY DEF LockRow
<1>6. pc'[t] = "lock" /\ job'[t] = j /\ "lock" \in Place
  BY <1>4, Unmoved DEF Inv, RequestTypes, Place
<1> HIDE DEF j, w, p
<1>7. \A q \in Payments : ~Staged(t, q)
  BY <1>4, Unmoved DEF Good, Placed
<1>8. ASSUME calm PROVE \A q \in Payments : InUse(t, q)' => InUse(t, q)
  BY <1>2, <1>4, <1>6 DEF InUse, Open
<1>9. CASE Claimable(p)
  <2>1. work'[t] = w
    BY <1>5, <1>9 DEF Inv, RequestTypes
  <2>2. \A q \in Payments : ~Staged(t, q)' /\ (lock[q] = t => lock'[q] = t) /\ lock'[p] = t
    BY <1>1, <1>3, <1>4, <1>5, <1>7, <1>9, <2>1, LockMoves DEF Staged
  <2>3. Cleared(t)' /\ Placed(t)'
    BY <1>2, <1>4, <1>6, <2>2, Unmoved DEF Good, Cleared, Open, Placed
  <2>4. Held(t)'
    BY <1>3, <1>4, <1>9, <2>1, <2>2, Unmoved DEF Good, Held, Claimable
  <2>5. calm' => Fresh(t)'
    BY <1>2, <1>4, <1>6, <1>7, <2>2, Unmoved DEF Good, Fresh
  <2>6. QED
    BY <1>1, <1>2, <1>3, <1>4, <1>5, <1>6, <1>8, <1>9, <2>3, <2>4, <2>5, LockMoves, Moves DEF Good
<1>10. CASE ~Claimable(p)
  <2>1. UNCHANGED <<lock, work>>
    BY <1>5, <1>10
  <2>2. \A q \in Payments : ~Staged(t, q)'
    BY <1>7, <2>1 DEF Staged
  <2>3. Cleared(t)' /\ Placed(t)'
    BY <1>2, <1>4, <1>6, <2>2, Unmoved DEF Good, Cleared, Open, Placed
  <2>4. Held(t)' /\ (calm' => Fresh(t)')
    BY <1>2, <1>4, <1>6, <1>7, <2>1, <2>2, Unmoved DEF Good, Held, Fresh, Claimable
  <2>5. work' = [work EXCEPT ![t] = work[t]]
    BY <2>1, Unmoved
  <2>6. QED
    BY <1>2, <1>4, <1>6, <1>8, <2>1, <2>3, <2>4, <2>5, Unmoved, Moves DEF Good
<1>11. QED
  BY <1>9, <1>10

LEMMA RollbackStep ==
  ASSUME Inv, NEW t \in Requests, Rollback(t)
  PROVE  Inv'
<1>1. /\ pc' = [pc EXCEPT ![t] = "done"] /\ job' = [job EXCEPT ![t] = NoJob]
      /\ work' = [work EXCEPT ![t] = NoWork] /\ UNCHANGED <<payment, atProvider, calm>>
  BY DEF Rollback, End, data
<1>2. /\ lock' \in [Payments \cup Bills -> Requests \cup {Nobody}]
      /\ \A u \in Requests \ {t}, x \in Payments : lock[x] = u => lock'[x] = u
  BY DEF Rollback, End, Inv, RowTypes
<1>3. pc'[t] = "done" /\ job'[t] = NoJob /\ work'[t] = NoWork /\ "done" \in Place
  BY <1>1 DEF Inv, RequestTypes, Place
<1>4. Good(t)' /\ ~Open(t)'
  BY <1>3, Nulls DEF Good, Cleared, Held, Placed, Fresh, Open, Staged
<1>5. QED
  BY <1>1, <1>2, <1>3, <1>4, Nulls, Moves DEF InUse

LEMMA CreateBatchStep ==
  ASSUME Inv, NEW t \in Requests, CreateBatch(t)
  PROVE  Inv'
<1> DEFINE w == [work[t] EXCEPT !.batch =
       [status |-> "pending", gross |-> Gross(work[t].claimed), fee |-> PlatformFee(work[t].claimed)]]
<1>1. Writes(w) /\ w.status = work[t].status /\ w.claimed = work[t].claimed
  BY Unmoved DEF Writes
<1>2. /\ pc[t] = "lock" /\ pc' = [pc EXCEPT ![t] = "commit"] /\ job' = [job EXCEPT ![t] = job[t]]
      /\ work' = [work EXCEPT ![t] = w] /\ UNCHANGED <<payment, atProvider, calm, lock>>
  BY Unmoved DEF CreateBatch, data
<1>3. pc'[t] = "commit" /\ job'[t] = job[t] /\ work'[t] = w /\ "commit" \in Place
  BY <1>2 DEF Inv, RequestTypes, Place
<1> HIDE DEF w
<1>4. \A p \in Payments : Staged(t, p)' <=> Staged(t, p)
  BY <1>1, <1>3 DEF Staged
<1>5. Good(t)'
  BY <1>1, <1>2, <1>3, <1>4, Unmoved DEF Good, Cleared, Held, Placed, Fresh, Open, Claimable
<1>6. \A p \in Payments : InUse(t, p)' => InUse(t, p)
  BY <1>2, <1>3 DEF InUse, Open
<1>7. QED
  BY <1>1, <1>2, <1>3, <1>5, <1>6, Unmoved, Moves

LEMMA CompensateStep ==
  ASSUME Inv, NEW t \in Requests, Compensate(t)
  PROVE  Inv'
<1> DEFINE p == NextRow(t)
           s == CompensatedStatus(job[t].op)
           w == [work[t] EXCEPT !.status = [work[t].status EXCEPT ![p] = s]]
<1>1. p \in job[t].todo /\ p \in Payments
  <2>1. job[t].todo # {} /\ job[t].todo \subseteq Payments
    BY Unmoved DEF Compensate, Good, Placed, Job
  <2>2. QED
    BY <2>1, NextRowIsARow DEF NextRow
<1>2. s \in Status /\ s # NoWrite
  BY Nulls DEF CompensatedStatus, Status
<1>3. Writes(w) /\ w.claimed = work[t].claimed /\ w.status = [work[t].status EXCEPT ![p] = s]
  BY <1>1, <1>2, Unmoved DEF Writes
<1>4. /\ pc[t] = "compensate" /\ pc' = [pc EXCEPT ![t] = "commit"] /\ job' = [job EXCEPT ![t] = job[t]]
      /\ work' = [work EXCEPT ![t] = w] /\ UNCHANGED <<payment, atProvider, calm>>
      /\ Free(t, p) /\ lock' = [lock EXCEPT ![p] = t]
  BY Unmoved DEF Compensate, data
<1>5. pc'[t] = "commit" /\ job'[t] = job[t] /\ work'[t] = w /\ "commit" \in Place
  BY <1>4 DEF Inv, RequestTypes, Place
<1>6. /\ job[t].op \in {"refund", "reverse"} /\ job[t].inst[p] = "SUCCESSFUL" /\ ~Staged(t, p)
      /\ work[t].claimed = {} /\ job[t].inst[p] # NoWrite
  BY <1>1, <1>4, Unmoved DEF Good, Placed
<1> HIDE DEF p, s, w
<1>7. \A q \in Payments : Staged(t, q)' <=> Staged(t, q) \/ q = p
  BY <1>1, <1>2, <1>3, <1>5, Unmoved DEF Staged, Writes
<1>8. \A q \in Payments : (lock[q] = t => lock'[q] = t) /\ lock'[p] = t
  BY <1>1, <1>4, LockMoves
<1>9. Cleared(t)' /\ Placed(t)'
  BY <1>4, <1>5, Unmoved DEF Good, Cleared, Open, Placed
<1>10. Held(t)'
  BY <1>3, <1>5, <1>6, <1>7, <1>8, Unmoved DEF Good, Held
<1>11. calm' => Fresh(t)'
  BY <1>4, <1>5, <1>6, <1>7, <1>1, Unmoved DEF Good, Fresh
<1>12. \A q \in Payments : InUse(t, q)' => InUse(t, q)
  BY <1>4, <1>5 DEF InUse, Open
<1>13. QED
  BY <1>3, <1>4, <1>5, <1>9, <1>10, <1>11, <1>12, LockMoves, Unmoved, Moves DEF Good

\* what a request does next, when it writes no status: it takes a row off its list
LEMMA TakesARow ==
  ASSUME Inv, NEW t \in Requests, NEW j \in Job, NEW w, Writes(w),
         pc[t] \in {"apply", "unknown", "settled"}, pc' = pc, job' = [job EXCEPT ![t] = j], work' = [work EXCEPT ![t] = w],
         lock' \in [Payments \cup Bills -> Requests \cup {Nobody}],
         \A u \in Requests \ {t}, x \in Payments : lock[x] = u => lock'[x] = u,
         \A x \in Payments : lock[x] = t => lock'[x] = t,
         UNCHANGED <<payment, atProvider, calm>>,
         j.op = job[t].op, j.inst = job[t].inst, j.todo \subseteq job[t].todo,
         j.row \in {job[t].row, Nobody},
         w.status = work[t].status, w.claimed = work[t].claimed, w.ref = work[t].ref
  PROVE  Inv'
<1>1. pc' = [pc EXCEPT ![t] = pc[t]]
  BY Unmoved
<1>2. job'[t] = j /\ work'[t] = w
  BY DEF Inv, RequestTypes
<1>3. \A p \in Payments : Staged(t, p)' <=> Staged(t, p)
  BY <1>2 DEF Staged
<1>4. j.todo \subseteq Payments /\ job[t].todo \subseteq Payments
  BY Unmoved DEF Job
<1>5. Cleared(t)' /\ Held(t)'
  BY <1>2, <1>3, Unmoved DEF Good, Cleared, Open, Held, Claimable
<1>6. Placed(t)'
  BY <1>2, <1>3, <1>4, Unmoved DEF Good, Placed
<1>7. calm' => Fresh(t)'
  BY <1>2, <1>3, Unmoved DEF Good, Fresh
<1>8. \A p \in Payments : InUse(t, p)' => InUse(t, p)
  BY <1>2 DEF InUse, Open
<1>9. QED
  BY <1>1, <1>5, <1>6, <1>7, <1>8, Unmoved, Moves DEF Good

LEMMA NoopStep ==
  ASSUME Inv, NEW t \in Requests, ApplyNoop(t) \/ CheckSettled(t)
  PROVE  Inv'
<1> DEFINE p == NextRow(t)
           j == [job[t] EXCEPT !.todo = job[t].todo \ {p}]
<1>1. j \in Job /\ j.inst = job[t].inst /\ j.op = job[t].op /\ j.todo \subseteq job[t].todo
      /\ j.row = job[t].row
  BY Unmoved DEF Job
<1>2. /\ pc[t] \in {"unknown", "apply", "settled"} /\ pc' = pc /\ job' = [job EXCEPT ![t] = j]
      /\ UNCHANGED <<payment, atProvider, calm, lock>>
  BY DEF ApplyNoop, CheckSettled, Applying, data
<1>3. PICK w : /\ work' = [work EXCEPT ![t] = w] /\ Writes(w)
               /\ w.status = work[t].status /\ w.claimed = work[t].claimed /\ w.ref = work[t].ref
  <2> DEFINE v == Verdict(job[t].inst[p], atProvider[p])
             e == work[t].exceptions \cup {Exception(t, p, "stuck_unknown")}
             found == IF v = "matched" THEN work[t].exceptions
                                       ELSE work[t].exceptions \cup {Exception(t, p, v)}
             run1 == [work[t].run EXCEPT !.checked = @ + 1]
             run2 == OneCompared(work[t].run, v)
             w1 == [work[t] EXCEPT !.exceptions = e, !.run = run1]
             w2 == [work[t] EXCEPT !.exceptions = found, !.run = run2]
  <2>1. work' = [work EXCEPT ![t] = w1] \/ work' = [work EXCEPT ![t] = work[t]] \/ work' = [work EXCEPT ![t] = w2]
    <3>1. ASSUME ApplyNoop(t) PROVE work' = IF pc[t] = "unknown" THEN [work EXCEPT ![t] = w1] ELSE work
      BY <3>1 DEF ApplyNoop
    <3>2. ASSUME CheckSettled(t) PROVE work' = [work EXCEPT ![t] = w2]
      BY <3>2 DEF CheckSettled
    <3> HIDE DEF w1, w2
    <3>3. QED
      BY <3>1, <3>2, Unmoved
  <2>2. /\ Writes(w1) /\ w1.status = work[t].status /\ w1.claimed = work[t].claimed /\ w1.ref = work[t].ref
        /\ Writes(w2) /\ w2.status = work[t].status /\ w2.claimed = work[t].claimed /\ w2.ref = work[t].ref
    BY Unmoved DEF Writes
  <2> HIDE DEF w1, w2
  <2>3. QED
    BY <2>1, <2>2, Unmoved
<1> HIDE DEF j
<1>4. QED
  BY <1>1, <1>2, <1>3, Unmoved, TakesARow

LEMMA AllocateStep ==
  ASSUME Inv, NEW t \in Requests, AllocateToBill(t)
  PROVE  Inv'
<1> DEFINE x == BillOf[job[t].row]
           j == [job[t] EXCEPT !.row = Nobody]
<1>1. j \in Job /\ j.inst = job[t].inst /\ j.op = job[t].op /\ j.todo = job[t].todo
      /\ j.row = Nobody
  BY Unmoved DEF Job
<1>2. /\ Free(t, x) /\ lock' = [lock EXCEPT ![x] = t] /\ pc' = pc /\ job' = [job EXCEPT ![t] = j]
      /\ UNCHANGED <<payment, atProvider, calm, work>>
  BY DEF AllocateToBill, data
<1> HIDE DEF j, x
<1>3. pc[t] \in {"apply", "unknown", "settled"}
  BY Unmoved DEF AllocateToBill, Good, Placed
<1>4. QED
  BY <1>1, <1>2, <1>3, Unmoved, LockMoves, TakesARow

\* No outcome of a provider is written over a settled payment.
LEMMA OutcomesWriteUnsettled ==
  ASSUME NEW s \in Status, NEW o \in ProviderOutcome, OutcomeWrites(s, o)
  PROVE  /\ s \in Unsettled /\ NewStatus(o) \in Status
         /\ s = "UNKNOWN" => NewStatus(o) \in {"SUCCESSFUL", "FAILED"}
<1>1. NewStatus(o) \in {"UNKNOWN", "SUCCESSFUL", "FAILED", "PENDING"}
  BY DEF NewStatus, OutcomeToStatus, ProviderOutcome
<1>2. NewStatus(o) \in AllowedTransitions[s]
  BY DEF OutcomeWrites
<1>3. QED
  BY <1>1, <1>2 DEF AllowedTransitions, Status, Unsettled

LEMMA ApplyWritesStep ==
  ASSUME Inv, NEW t \in Requests, ApplyWrites(t)
  PROVE  Inv'
<1> DEFINE p == NextRow(t)
           o == OutcomeFor(t, p)
           s == NewStatus(o)
           r == IF s = "SUCCESSFUL" /\ BillOf[p] # NoBill THEN p ELSE Nobody
           j == [job[t] EXCEPT !.todo = job[t].todo \ {p}, !.row = r]
           run1 == IF pc[t] = "unknown" THEN OneResolved(work[t].run) ELSE work[t].run
           w == [work[t] EXCEPT !.status = [work[t].status EXCEPT ![p] = s],
                                !.ref = work[t].ref \cup {p},
                                !.paid = IF s = "SUCCESSFUL" THEN @ \cup {p} ELSE @, !.run = run1]
<1>1. p \in job[t].todo /\ p \in Payments
  BY Unmoved, NextRowIsARow DEF ApplyWrites, Applying, NextRow, Job
<1>2. pc[t] \in {"unknown", "apply"} /\ OutcomeWrites(job[t].inst[p], o) /\ Free(t, p)
  BY DEF ApplyWrites, Applying
<1>3. /\ job[t].inst[p] # NoWrite /\ ~Staged(t, p) /\ job[t].inst[p] \in Status /\ work[t].claimed = {}
      /\ pc[t] = "unknown" => job[t].inst[p] = "UNKNOWN"
  BY <1>1, <1>2, Unmoved DEF Good, Placed, Job
<1>4. o \in ProviderOutcome
  BY <1>1, Unmoved DEF OutcomeFor, Job, Inv, RowTypes
<1>5. /\ s \in Status /\ s # NoWrite /\ job[t].inst[p] \in Unsettled
      /\ pc[t] = "unknown" => s \in {"SUCCESSFUL", "FAILED"}
  BY <1>2, <1>3, <1>4, Nulls, OutcomesWriteUnsettled
<1>6. /\ j \in Job /\ j.inst = job[t].inst /\ j.op = job[t].op /\ j.todo = job[t].todo \ {p}
  BY <1>1, Unmoved DEF Job
<1>7. /\ Writes(w) /\ w.claimed = work[t].claimed /\ w.ref = work[t].ref \cup {p}
      /\ w.status = [work[t].status EXCEPT ![p] = s]
  BY <1>1, <1>5, Unmoved DEF Writes
<1>8. /\ pc' = [pc EXCEPT ![t] = pc[t]] /\ job' = [job EXCEPT ![t] = j]
      /\ work' = [work EXCEPT ![t] = w] /\ UNCHANGED <<payment, atProvider, calm>>
      /\ lock' = [lock EXCEPT ![p] = t]
  BY Unmoved DEF ApplyWrites, data
<1> HIDE DEF j, w, r, s, o, p
<1>9. pc'[t] = pc[t] /\ job'[t] = j /\ work'[t] = w
  BY <1>8 DEF Inv, RequestTypes
<1>10. \A q \in Payments : /\ Staged(t, q)' <=> Staged(t, q) \/ q = p
                           /\ q # p => work'[t].status[q] = work[t].status[q]
  BY <1>1, <1>5, <1>7, <1>9, Unmoved DEF Staged, Writes
<1>11. work'[t].status[p] = s
  BY <1>1, <1>7, <1>9, Unmoved DEF Writes
<1>12. \A q \in Payments : (lock[q] = t => lock'[q] = t) /\ lock'[p] = t
  BY <1>1, <1>2, <1>8, LockMoves
<1>13. Cleared(t)'
  BY <1>2, <1>9 DEF Cleared, Open
<1>14. Held(t)'
  BY <1>3, <1>6, <1>7, <1>9, <1>10, <1>12, Unmoved DEF Good, Held
<1>15. Placed(t)'
  <2>1. /\ job[t].todo \subseteq Payments
        /\ \A q \in job[t].todo : job[t].inst[q] # NoWrite /\ ~Staged(t, q)
    BY <1>2, Unmoved DEF Good, Placed, Job
  <2>2. \A q \in j.todo : j.inst[q] # NoWrite /\ ~Staged(t, q)'
    BY <1>6, <1>10, <2>1
  <2>3. ASSUME pc[t] = "unknown", NEW q \in Payments
        PROVE  /\ j.inst[q] \in {"UNKNOWN", NoWrite}
               /\ Staged(t, q)' => work'[t].status[q] \in {"SUCCESSFUL", "FAILED"} /\ q \in w.ref
    <3>1. /\ j.inst[q] \in {"UNKNOWN", NoWrite}
          /\ Staged(t, q) => work[t].status[q] \in {"SUCCESSFUL", "FAILED"} /\ q \in work[t].ref
      BY <1>6, <2>3, Unmoved DEF Good, Placed
    <3>2. QED
      BY <1>5, <1>7, <1>10, <1>11, <2>3, <3>1
  <2>4. QED
    BY <1>2, <1>3, <1>7, <1>9, <2>2, <2>3 DEF Placed
<1>16. calm' => Fresh(t)'
  BY <1>1, <1>3, <1>5, <1>6, <1>8, <1>9, <1>10, Unmoved DEF Good, Fresh
<1>17. \A q \in Payments : InUse(t, q)' => InUse(t, q)
  BY <1>6, <1>9 DEF InUse, Open
<1>18. QED
  BY <1>1, <1>2, <1>6, <1>7, <1>8, <1>13, <1>14, <1>15, <1>16, <1>17, LockMoves, Unmoved, Moves DEF Good

LEMMA ListSettledStep ==
  ASSUME Inv, NEW t \in Requests, ListSettled(t)
  PROVE  Inv'
<1> DEFINE S == {p \in Payments : Seen(t, p) \in {"SUCCESSFUL", "FAILED"} /\ SeenRef(t, p)}
           i == [p \in Payments |-> IF p \in S THEN Seen(t, p) ELSE NoWrite]
           j == [job[t] EXCEPT !.todo = S, !.inst = i]
           w == [work[t] EXCEPT !.run.listed = S]
<1>1. pc[t] = "unknown" /\ job[t].row = Nobody /\ work[t].claimed = {}
  BY Unmoved DEF ListSettled, Good, Placed
<1>2. S \subseteq Payments /\ \A p \in S : Seen(t, p) \in Status /\ Seen(t, p) # NoWrite
  BY Nulls DEF Status
<1>3. j \in Job /\ j.todo = S /\ j.inst = i /\ j.op = job[t].op /\ j.row = Nobody
  BY <1>1, <1>2, Unmoved DEF Job
<1>4. Writes(w) /\ w.claimed = work[t].claimed /\ w.status = work[t].status /\ w.ref = work[t].ref
  BY Unmoved DEF Writes
<1>5. /\ pc' = [pc EXCEPT ![t] = "settled"] /\ job' = [job EXCEPT ![t] = j]
      /\ work' = [work EXCEPT ![t] = w] /\ UNCHANGED <<payment, atProvider, calm, lock>>
      /\ MayRead(t, S)
  BY Unmoved DEF ListSettled, data
<1>6. pc'[t] = "settled" /\ job'[t] = j /\ work'[t] = w /\ "settled" \in Place
  BY <1>5 DEF Inv, RequestTypes, Place
<1>7. \A p \in Payments : Staged(t, p) => p \in S
  BY <1>1, Unmoved DEF Good, Placed, Seen, SeenRef, Staged
<1>8. \A p \in Payments : i[p] = IF p \in S THEN Seen(t, p) ELSE NoWrite
  OBVIOUS
<1> HIDE DEF S, i, j, w
<1>9. \A p \in Payments : Staged(t, p)' <=> Staged(t, p)
  BY <1>4, <1>6 DEF Staged
<1>10. Cleared(t)' /\ Placed(t)'
  BY <1>1, <1>3, <1>4, <1>6 DEF Cleared, Open, Placed
<1>11. Held(t)'
  BY <1>1, <1>2, <1>3, <1>4, <1>5, <1>6, <1>7, <1>8, <1>9, Unmoved DEF Good, Held
<1>12. calm' => Fresh(t)'
  BY <1>3, <1>5, <1>6, <1>8, <1>9, Unmoved DEF Good, Fresh, Seen, Staged
<1>13. calm => \A p \in Payments : InUse(t, p)' => \A u \in Requests \ {t} : ~InUse(u, p)
  BY <1>3, <1>5, <1>6, <1>8 DEF InUse, MayRead
<1>14. QED
  BY <1>3, <1>4, <1>5, <1>6, <1>10, <1>11, <1>12, <1>13, Unmoved, Moves DEF Good

-----------------------------------------------------------------------------
(* COMMIT *)

\* A commit changes the rows the request has claimed or written, and no others.
LEMMA CommitMoves ==
  ASSUME Inv, NEW t \in Requests, Commit(t), NEW p \in Payments
  PROVE  /\ payment'[p] \in [status : Status, ref : BOOLEAN, batch : Requests \cup {NoBatch}]
         /\ Staged(t, p) => payment'[p].status = work[t].status[p]
         /\ ~Staged(t, p) => payment'[p].status = payment[p].status
         /\ payment'[p].batch = IF p \in work[t].claimed THEN t ELSE payment[p].batch
<1>1. payment'[p] = [status |-> Seen(t, p), ref |-> SeenRef(t, p),
                     batch |-> IF p \in work[t].claimed THEN t ELSE payment[p].batch]
  BY DEF Commit
<1>2. /\ Staged(t, p) => Seen(t, p) = work[t].status[p]
      /\ ~Staged(t, p) => Seen(t, p) = payment[p].status
  BY DEF Seen, Staged
<1>3. Seen(t, p) \in Status /\ SeenRef(t, p) \in BOOLEAN /\ payment[p].batch \in Requests \cup {NoBatch}
  BY <1>2, Unmoved DEF Staged, Writes, SeenRef, Inv, RowTypes
<1>4. QED
  BY <1>1, <1>2, <1>3

LEMMA CommitStep ==
  ASSUME Inv, NEW t \in Requests, Commit(t)
  PROVE  Inv'
<1>1. /\ pc' = [pc EXCEPT ![t] = "done"] /\ job' = [job EXCEPT ![t] = NoJob]
      /\ work' = [work EXCEPT ![t] = NoWork] /\ UNCHANGED <<atProvider, calm>>
  BY DEF Commit, End
<1>2. /\ lock' \in [Payments \cup Bills -> Requests \cup {Nobody}]
      /\ \A u \in Requests \ {t}, x \in Payments : lock[x] = u => lock'[x] = u
  BY DEF Commit, End, Inv, RowTypes
<1>3. pc'[t] = "done" /\ job'[t] = NoJob /\ work'[t] = NoWork /\ "done" \in Place
  BY <1>1 DEF Inv, RequestTypes, Place
<1>4. payment' \in [Payments -> [status : Status, ref : BOOLEAN, batch : Requests \cup {NoBatch}]]
  <2>1. payment' = [p \in Payments |-> payment'[p]]
    BY DEF Commit
  <2>2. QED
    BY <2>1, CommitMoves
<1>5. RowTypes' /\ RequestTypes'
  BY <1>1, <1>2, <1>3, <1>4, Nulls DEF Inv, RowTypes, RequestTypes
<1>6. Others(t)
  BY <1>1, <1>2 DEF Inv, RequestTypes, Others
<1>7. Good(t)' /\ ~Open(t)'
  BY <1>3, Nulls DEF Good, Cleared, Held, Placed, Fresh, Open, Staged
<1>8. Open(t)
  BY DEF Commit, Returns, Open
<1>9. ASSUME NEW u \in Requests \ {t} PROVE Good(u)'
  <2>1. /\ Good(u) /\ Good(t) /\ job[u].todo \subseteq Payments
    BY Unmoved DEF Job
  <2>2. \A p \in Payments : Staged(u, p)' <=> Staged(u, p)
    BY <1>6, <1>9 DEF Others, Staged
  <2>3. Cleared(u)'
    BY <1>6, <2>1 DEF Good, Cleared, Open, Others
  <2>4. Placed(u)'
    BY <1>6, <2>1, <2>2 DEF Good, Placed, Others
  <2>5. Held(u)'
    <3>1. ASSUME NEW p \in Payments, lock[p] = u
          PROVE  payment'[p].status = payment[p].status /\ payment'[p].batch = payment[p].batch
      BY <2>1, <3>1, CommitMoves DEF Good, Held
    <3>2. QED
      BY <1>6, <2>1, <2>2, <3>1 DEF Good, Held, Others, Claimable
  <2>6. ASSUME calm PROVE Fresh(u)'
    <3>1. ASSUME NEW p \in Payments, job[u].inst[p] # NoWrite
          PROVE  payment'[p].status = payment[p].status
      <4>1. Open(u)
        BY <2>1, <3>1, Nulls DEF Good, Cleared
      <4>2. InUse(u, p)
        BY <3>1, <4>1 DEF InUse
      <4>3. ~InUse(t, p)
        BY <2>6, <4>2 DEF Inv, Alone
      <4>4. ~Staged(t, p)
        BY <1>8, <2>1, <4>3 DEF Good, Held, InUse
      <4>5. QED
        BY <4>4, CommitMoves
    <3>2. \A p \in Payments : Staged(u, p) => job[u].inst[p] # NoWrite
      BY <2>1 DEF Good, Held
    <3>3. job'[u] = job[u] /\ work'[u] = work[u]
      BY <1>6 DEF Others
    <3>4. QED
      BY <2>1, <2>2, <2>6, <3>1, <3>2, <3>3 DEF Good, Fresh
  <2>7. QED
    BY <1>1, <2>3, <2>4, <2>5, <2>6 DEF Good
<1>10. calm' => Alone'
  BY <1>1, <1>6, <1>7, AloneStays DEF InUse
<1>11. QED
  BY <1>1, <1>5, <1>7, <1>9, <1>10 DEF Inv

-----------------------------------------------------------------------------
\* mark_settlement_completed and resolve_exception are one UPDATE of other rows.
LEMMA OneUpdateStep ==
  ASSUME Inv, NEW t \in Requests, MarkCompleted(t) \/ ResolveException(t)
  PROVE  Inv'
<1>1. /\ pc[t] = "idle" /\ pc' = [pc EXCEPT ![t] = "done"] /\ job' = [job EXCEPT ![t] = job[t]]
      /\ work' = [work EXCEPT ![t] = work[t]] /\ UNCHANGED <<payment, atProvider, calm, lock>>
  BY Unmoved DEF MarkCompleted, ResolveException
<1>2. pc'[t] = "done" /\ job'[t] = job[t] /\ work'[t] = work[t] /\ "done" \in Place
  BY <1>1 DEF Inv, RequestTypes, Place
<1>3. job[t] = NoJob /\ work[t] = NoWork
  BY <1>1, Unmoved DEF Good, Cleared, Open
<1>4. Good(t)' /\ ~Open(t)'
  BY <1>2, <1>3, Nulls DEF Good, Cleared, Held, Placed, Fresh, Open, Staged
<1>5. QED
  BY <1>1, <1>2, <1>4, Unmoved, Moves DEF InUse

LEMMA ArriveStep ==
  ASSUME Inv, NEW t \in Requests, Arrive(t)
  PROVE  Inv'
<1>1. "unknown" \in ProviderOutcome /\ "successful" \in ProviderOutcome
  BY DEF ProviderOutcome
<1>2. CASE BeginBatch(t)
  <2> DEFINE S == {p \in Payments : Claimable(p)}
  <2>1. S \subseteq Payments
    OBVIOUS
  <2>2. Begin(t, "batch", "lock", S, "unknown", Nobody)
    BY <1>2 DEF BeginBatch
  <2> HIDE DEF S
  <2>3. QED
    BY <1>1, <2>1, <2>2, BeginStep
<1>3. ASSUME NEW p \in Payments, BeginCallback(t, p) PROVE Inv'
  <2>1. PICK o \in Callbacks : Begin(t, "callback", "apply", {p}, o, Nobody)
    BY <1>3 DEF BeginCallback
  <2>2. o \in ProviderOutcome
    BY BackOfficeAssumption
  <2>3. QED
    BY <2>1, <2>2, BeginStep
<1>4. ASSUME NEW p \in Payments, BeginQuery(t, p) PROVE Inv'
  <2>1. atProvider[p] \in ProviderOutcome
    BY DEF Inv, RowTypes
  <2>2. Begin(t, "query", "apply", {p}, atProvider[p], Nobody)
    BY <1>4 DEF BeginQuery
  <2>3. QED
    BY <2>1, <2>2, BeginStep
<1>5. ASSUME NEW p \in Payments, BeginCompensation(t, p) PROVE Inv'
  <2>1. PICK op \in {"refund", "reverse"} : Begin(t, op, "compensate", {p}, "successful", Nobody)
    BY <1>5 DEF BeginCompensation
  <2>2. \A q \in {p} : payment[q].status = "SUCCESSFUL"
    BY <1>5 DEF BeginCompensation
  <2>3. QED
    BY <1>1, <2>1, <2>2, BeginStep
<1>6. QED
  BY <1>2, <1>3, <1>4, <1>5, BeginRunStep, OneUpdateStep DEF Arrive

LEMMA InvStep == Inv /\ [Next]_vars => Inv'
<1> SUFFICES ASSUME Inv, [Next]_vars PROVE Inv'
  OBVIOUS
<1>1. ASSUME NEW t \in Requests, Step(t) PROVE Inv'
  <2>1. ApplyRaises(t) \/ DeadlockVictim(t) => Rollback(t)
    BY DEF ApplyRaises, DeadlockVictim
  <2>2. QED
    BY <1>1, <2>1, LockRowStep, CreateBatchStep, CompensateStep, NoopStep, RollbackStep, ApplyWritesStep,
       AllocateStep, ListSettledStep, CommitStep DEF Step
<1>2. ASSUME NEW t \in Requests, Abort(t) PROVE Inv'
  BY <1>2, RollbackStep DEF Abort
<1>3. ASSUME NEW p \in Payments, ProviderDecides(p) PROVE Inv'
  <2>1. /\ UNCHANGED <<payment, lock, pc, job, work, calm>>
        /\ \E o \in {"successful", "failed"} : atProvider' = [atProvider EXCEPT ![p] = o]
    BY <1>3 DEF ProviderDecides, data
  <2>2. RowTypes' /\ RequestTypes'
    BY <2>1 DEF Inv, RowTypes, RequestTypes, ProviderOutcome
  <2>3. QED
    BY <2>1, <2>2 DEF Inv, Good, Cleared, Held, Placed, Fresh, Alone, InUse, Open, Staged, Claimable
<1>4. CASE UNCHANGED vars
  BY <1>4 DEF vars, Inv, RowTypes, RequestTypes, Good, Cleared, Held, Placed, Fresh, Alone, InUse, Open,
     Staged, Claimable
<1>5. QED
  BY <1>1, <1>2, <1>3, <1>4, ArriveStep DEF Next

LEMMA Invariance == Spec => []Inv
BY InvInit, InvStep, PTL DEF Spec

\* Only a commit touches a payment's row.
LEMMA OnlyCommits ==
  ASSUME [Next]_vars
  PROVE  payment' = payment \/ \E t \in Requests : Commit(t)
<1>1. ASSUME NEW t \in Requests, Arrive(t) PROVE payment' = payment
  BY <1>1 DEF Arrive, BeginBatch, BeginCallback, BeginQuery, BeginCompensation, Begin, BeginRun,
     MarkCompleted, ResolveException, data
<1>2. ASSUME NEW t \in Requests, Step(t), ~Commit(t) PROVE payment' = payment
  BY <1>2 DEF Step, LockRow, CreateBatch, Compensate, ApplyNoop, ApplyRaises, ApplyWrites,
     AllocateToBill, ListSettled, CheckSettled, DeadlockVictim, Rollback, data
<1>3. QED
  BY <1>1, <1>2 DEF Next, Abort, Rollback, ProviderDecides, vars, data

\* A payment is settled at most once: its batch is set by the batch that holds it
\* SUCCESSFUL and unclaimed, and never again, however requests overlap.
THEOREM SettledAtMostOnce == Spec => ClaimsAreFinal
<1>1. Inv /\ [Next]_vars => [\A p \in Payments : payment'[p].batch # payment[p].batch =>
         payment[p].batch = NoBatch /\ payment'[p].status = "SUCCESSFUL"]_vars
  <2> SUFFICES ASSUME Inv, [Next]_vars, NEW p \in Payments, payment'[p].batch # payment[p].batch
               PROVE  payment[p].batch = NoBatch /\ payment'[p].status = "SUCCESSFUL"
    OBVIOUS
  <2>1. PICK t \in Requests : Commit(t)
    BY OnlyCommits
  <2>2. QED
    BY <2>1, CommitMoves, Unmoved DEF Good, Held, Claimable
<1>2. QED
  BY <1>1, Invariance, PTL DEF Spec, ClaimsAreFinal

\* "Never silently modify a settled financial event": as long as no two requests
\* work on one payment at a time, only a refund or a reversal moves a settled one.
THEOREM SettledMovesByCompensation == Spec => SettledStays
<1> DEFINE A == \A p \in Payments :
       /\ calm
       /\ payment[p].status \in {"SUCCESSFUL", "FAILED", "REFUNDED", "REVERSED"}
       /\ payment'[p].status # payment[p].status
       => /\ payment[p].status = "SUCCESSFUL"
          /\ \E t \in Requests : job[t].op \in {"refund", "reverse"} /\ pc'[t] = "done"
<1>1. Inv /\ [Next]_vars => [A]_vars
  <2> SUFFICES ASSUME Inv, [Next]_vars, NEW p \in Payments, calm,
                      payment[p].status \in {"SUCCESSFUL", "FAILED", "REFUNDED", "REVERSED"},
                      payment'[p].status # payment[p].status
               PROVE  /\ payment[p].status = "SUCCESSFUL"
                      /\ \E t \in Requests : job[t].op \in {"refund", "reverse"} /\ pc'[t] = "done"
    OBVIOUS
  <2>1. PICK t \in Requests : Commit(t)
    BY OnlyCommits
  <2>2. Staged(t, p)
    BY <2>1, CommitMoves
  <2>3. job[t].op \in {"refund", "reverse"} /\ payment[p].status = "SUCCESSFUL"
    BY <2>2, Unmoved DEF Good, Fresh, Unsettled
  <2>4. pc'[t] = "done"
    BY <2>1 DEF Commit, End, Inv, RequestTypes
  <2>5. QED
    BY <2>3, <2>4
<1>2. QED
  BY <1>1, Invariance, PTL DEF Spec, SettledStays

-----------------------------------------------------------------------------
(***************************************************************************)
(* What the rows of the back office say: a batch's totals, the fees booked *)
(* and what a run has looked at.  Books(t) is what request t keeps for     *)
(* them until it commits, Rows what is committed.                          *)
(***************************************************************************)
BatchRow     == [status : BatchStatus, gross : Nat, fee : Nat]
RunRow       == [done : BOOLEAN, checked : Nat, matched : Nat, resolved : Nat,
                 unknown : SUBSET Payments, listed : SUBSET Payments]
ExceptionRow == [run : Requests, payment : Payments, type : ExceptionTypes,
                 status : {"open", "resolved"}]
Work         == [status : [Payments -> Status \cup {NoWrite}], ref : SUBSET Payments,
                 claimed : SUBSET Payments, paid : SUBSET Payments, batch : BatchRow,
                 run : RunRow, exceptions : SUBSET ExceptionRow]

\* a batch b of the payments S: gross whoever overlaps, fee when nobody does
Totals(b, S) == b.gross = Gross(S) /\ (calm => b.fee = Fee * Cardinality(S))

\* what a request may ask for at each place
Asked(t) ==
  /\ pc[t] \in {"unknown", "apply", "settled"} => job[t].op \in {"callback", "query", "reconcile"}
  /\ job[t].op = "reconcile" => pc[t] \in {"unknown", "settled"}

\* a fee goes with each SUCCESSFUL written, and a compensation writes none
Charged(t) == \A p \in Payments :
  /\ p \in work[t].paid <=> work[t].status[p] = "SUCCESSFUL"
  /\ job[t].op \in {"refund", "reverse"} => work[t].status[p] \in {NoWrite, "REFUNDED", "REVERSED"}

Reports(E, t, p, types) == \E e \in E : e.run = t /\ e.payment = p /\ e.type \in types

\* a run has looked at a row, or still has to
Looked(t) ==
  /\ pc[t] = "settled" => \A p \in Payments : Staged(t, p) => job[t].inst[p] = work[t].status[p]
  /\ job[t].op = "reconcile" =>
     /\ \A p \in Payments : work[t].status[p] \in {NoWrite, "SUCCESSFUL", "FAILED"}
     /\ \A p \in work[t].run.unknown :
          \/ pc[t] = "unknown" /\ p \in job[t].todo
          \/ Staged(t, p)
          \/ Reports(work[t].exceptions, t, p, {"stuck_unknown"})
     /\ \A p \in work[t].run.listed :
          /\ pc[t] = "settled" /\ job[t].inst[p] \in {"SUCCESSFUL", "FAILED"}
          /\ \/ p \in job[t].todo
             \/ Reports(work[t].exceptions, t, p, {"status_mismatch", "missing_at_provider"})
             \/ Verdict(job[t].inst[p], atProvider[p]) = "matched"

\* once no payment is PENDING, none becomes UNKNOWN
Decided(t) == "PENDING" \notin Started => \A p \in Payments :
  job[t].inst[p] \notin {"INITIATED", "PENDING"} /\ work[t].status[p] \notin Unsettled

Books(t) ==
  /\ work[t] \in Work
  /\ pc[t] # "lock" => Totals(work[t].batch, work[t].claimed)
  /\ Asked(t) /\ Charged(t) /\ Looked(t) /\ Decided(t)

FilesOK ==
  /\ fees \in [Payments -> Nat] /\ batch \in [Requests -> BatchRow]
  /\ run \in [Requests -> RunRow] /\ exceptions \subseteq ExceptionRow

BatchesOK == \A t \in Requests :
  Totals(batch[t], ClaimedBy(t)) /\ (pc[t] # "done" => ClaimedBy(t) = {})

FeesOK == calm => \A p \in Payments :
  /\ payment[p].status = "SUCCESSFUL" => fees[p] = 1
  /\ payment[p].status \in Unsettled => fees[p] = 0

RunsOK == calm => \A t \in Requests : run[t].done =>
  /\ \A p \in run[t].unknown : payment[p].status \notin Unsettled \/ Reported(t, p, {"stuck_unknown"})
  /\ \A p \in run[t].listed :
       /\ payment[p].status \notin Unsettled
       /\ \/ payment[p].status \notin {"SUCCESSFUL", "FAILED"}
          \/ Verdict(payment[p].status, atProvider[p]) = "matched"
          \/ Reported(t, p, {"status_mismatch", "missing_at_provider"})

StuckOK == "PENDING" \notin Started =>
  /\ \A p \in Payments : payment[p].status \notin {"INITIATED", "PENDING"}
  /\ \A t \in Requests : run[t].done =>
       \A p \in run[t].unknown : payment[p].status # "UNKNOWN" \/ Reported(t, p, {"stuck_unknown"})

Rows == FilesOK /\ BatchesOK /\ FeesOK /\ RunsOK /\ StuckOK

BooksInv == Rows /\ \A t \in Requests : Books(t)

-----------------------------------------------------------------------------
LEMMA GrossIs ==
  /\ Gross({}) = 0
  /\ \A S \in SUBSET Payments : Gross(S) \in Nat /\ IsFiniteSet(S) /\ Cardinality(S) \in Nat
<1>1. ASSUME NEW S \in SUBSET Payments
      PROVE  Gross(S) = SumOf(Amount, S) /\ IsFiniteSet(S) /\ Cardinality(S) \in Nat
  <2>1. IsFiniteSet(S)
    BY FS_Subset, BackOfficeAssumption
  <2>2. MapThenSumSet(LAMBDA p : Amount[p], S) = SumOf(Amount, S)
    BY <2>1, SumOfValues
  <2>3. QED
    BY <2>1, <2>2, FS_CardinalityType DEF Gross
<1>2. ASSUME NEW S \in SUBSET Payments PROVE Gross(S) \in Nat
  <2>1. \A p \in S : Amount[p] \in Nat
    BY BackOfficeAssumption
  <2>2. QED
    BY <1>1, <2>1, SumNat
<1>3. Gross({}) = 0
  BY <1>1, SumEmpty
<1>4. QED
  BY <1>1, <1>2, <1>3

\* The fees of payments that are each charged one.
LEMMA PlatformFeeIs ==
  ASSUME fees \in [Payments -> Nat], NEW S \in SUBSET Payments
  PROVE  /\ PlatformFee(S) \in Nat
         /\ (\A p \in S : fees[p] = 1) => PlatformFee(S) = Fee * Cardinality(S)
<1>1. PICK f : f = fees
  OBVIOUS
<1>2. PICK h : h = [p \in S |-> Fee * f[p]]
  OBVIOUS
<1>3. IsFiniteSet(S)
  BY GrossIs
<1>4. PlatformFee(S) = SumOf(h, S)
  <2>1. MapThenSumSet(LAMBDA p : Fee * fees[p], S) = SumOf([p \in S |-> Fee * fees[p]], S)
    BY <1>3, SumOfMultiples
  <2>2. PlatformFee(S) = SumOf([p \in S |-> Fee * fees[p]], S)
    BY <2>1 DEF PlatformFee
  <2>3. QED
    BY <1>1, <1>2, <2>2
<1>5. Fee \in Nat
  BY BackOfficeAssumption
<1>6. \A p \in S : h[p] \in Nat /\ (f[p] = 1 => h[p] = Fee)
  <2>1. \A n \in Nat : Fee * n \in Nat /\ (n = 1 => Fee * n = Fee)
    BY <1>5
  <2>2. QED
    BY <1>1, <1>2, <2>1
<1>7. SumOf(h, S) \in Nat
  BY <1>3, <1>6, SumNat
<1>8. ASSUME \A p \in S : f[p] = 1 PROVE SumOf(h, S) = Fee * Cardinality(S)
  <2>1. \A p \in S : h[p] = Fee
    BY <1>6, <1>8
  <2>2. QED
    BY <1>3, <1>5, <2>1, SumOfEquals
<1>9. QED
  BY <1>1, <1>4, <1>7, <1>8

LEMMA NothingDone ==
  /\ NoWork \in Work /\ NoSettlement \in BatchRow /\ NoRun \in RunRow
  /\ NoRun.done = FALSE /\ NoRun.unknown = {} /\ NoRun.listed = {}
  /\ NoWork.paid = {} /\ NoWork.run = NoRun /\ NoWork.batch = NoSettlement
  /\ NoWork.exceptions = {} /\ NoJob.op = "none" /\ NoSettlement.gross = 0
<1>1. NoSettlement \in BatchRow /\ NoRun \in RunRow
  BY DEF NoSettlement, BatchRow, BatchStatus, NoRun, RunRow
<1>2. NoWork \in Work
  BY <1>1 DEF NoWork, Work
<1>3. QED
  BY <1>1, <1>2 DEF NoWork, NoJob, NoRun, NoSettlement

LEMMA NoTotals == Totals(NoSettlement, {})
<1>1. NoSettlement.gross = 0 /\ NoSettlement.fee = 0
  BY DEF NoSettlement
<1>2. Fee * Cardinality({}) = 0
  BY BackOfficeAssumption, FS_EmptySet
<1>3. QED
  BY <1>1, <1>2, GrossIs DEF Totals

\* A request with nothing in hand.
LEMMA EmptyBooks ==
  ASSUME NEW t \in Requests, work[t] = NoWork, job[t] = NoJob, pc[t] \in {"idle", "done"}
  PROVE  Books(t)
<1>1. Totals(work[t].batch, work[t].claimed)
  BY NoTotals, NothingDone, Nulls
<1>2. \A p \in Payments : work[t].status[p] = NoWrite /\ job[t].inst[p] = NoWrite
  BY Nulls
<1>3. NoWrite \notin Status
  BY Nulls
<1>4. Asked(t) /\ Charged(t) /\ Looked(t)
  BY <1>2, <1>3, NothingDone DEF Asked, Charged, Looked, Status
<1>5. Decided(t)
  BY <1>2, <1>3 DEF Decided, Unsettled, Status
<1>6. QED
  BY <1>1, <1>4, <1>5, NothingDone DEF Books

LEMMA BooksInit == Init => BooksInv
<1> SUFFICES ASSUME Init PROVE BooksInv
  OBVIOUS
<1>1. \A t \in Requests : Books(t)
  BY EmptyBooks DEF Init
<1>2. FilesOK
  BY NothingDone DEF Init, FilesOK
<1>3. \A p \in Payments : payment[p].status \in Started /\ payment[p].batch = NoBatch
  BY DEF Init
<1>4. \A t \in Requests : ClaimedBy(t) = {}
  BY <1>3, BackOfficeAssumption DEF ClaimedBy
<1>5. BatchesOK
  BY <1>4, NoTotals DEF Init, BatchesOK
<1>6. FeesOK
  BY DEF Init, FeesOK, Unsettled
<1>7. \A t \in Requests : ~run[t].done
  BY NothingDone DEF Init
<1>8. RunsOK /\ StuckOK
  BY <1>3, <1>7, BackOfficeAssumption DEF RunsOK, StuckOK
<1>9. QED
  BY <1>1, <1>2, <1>5, <1>6, <1>8 DEF BooksInv, Rows

-----------------------------------------------------------------------------
(* Steps that commit nothing. *)

\* what request t does to its own state, and no more
Only(t) ==
  /\ pc' = [pc EXCEPT ![t] = pc'[t]] /\ job' = [job EXCEPT ![t] = job'[t]]
  /\ work' = [work EXCEPT ![t] = work'[t]]
  /\ UNCHANGED <<atProvider, calm>>

LEMMA OnlyOthers ==
  ASSUME Inv, NEW t \in Requests, Only(t), NEW u \in Requests \ {t}
  PROVE  pc'[u] = pc[u] /\ job'[u] = job[u] /\ work'[u] = work[u]
BY DEF Only, Inv, RequestTypes

LEMMA BooksOfOthers ==
  ASSUME Inv, BooksInv, NEW t \in Requests, Only(t), NEW u \in Requests \ {t}
  PROVE  Books(u)'
<1>1. pc'[u] = pc[u] /\ job'[u] = job[u] /\ work'[u] = work[u] /\ calm' = calm /\ atProvider' = atProvider
  BY OnlyOthers DEF Only
<1>2. Books(u)
  BY DEF BooksInv
<1>3. Asked(u)' /\ Charged(u)' /\ Decided(u)'
  BY <1>1, <1>2 DEF Books, Asked, Charged, Decided
<1>4. Looked(u)'
  BY <1>1, <1>2 DEF Books, Looked, Staged
<1>5. work'[u] \in Work /\ (pc'[u] # "lock" => Totals(work[u].batch, work[u].claimed)')
  BY <1>1, <1>2 DEF Books, Totals
<1>6. QED
  BY <1>1, <1>3, <1>4, <1>5 DEF Books, Totals

LEMMA QuietStep ==
  ASSUME Inv, BooksInv, NEW t \in Requests, Only(t), UNCHANGED data, pc[t] # "done", Books(t)'
  PROVE  BooksInv'
<1>1. \A u \in Requests : Books(u)'
  BY BooksOfOthers
<1>2. UNCHANGED <<payment, fees, atProvider, batch, run, exceptions, calm>>
  BY DEF Only, data
<1>3. \A u \in Requests : pc'[u] # "done" => pc[u] # "done"
  BY OnlyOthers
<1>4. FilesOK' /\ FeesOK' /\ RunsOK' /\ StuckOK'
  BY <1>2 DEF BooksInv, Rows, FilesOK, FeesOK, RunsOK, StuckOK, Reported
<1>5. BatchesOK'
  <2>1. ASSUME NEW u \in Requests PROVE ClaimedBy(u)' = ClaimedBy(u)
    BY <1>2 DEF ClaimedBy
  <2>2. ASSUME NEW u \in Requests PROVE Totals(batch[u], ClaimedBy(u))'
    BY <1>2, <2>1 DEF BooksInv, Rows, BatchesOK, Totals
  <2>3. QED
    BY <1>3, <2>1, <2>2 DEF BooksInv, Rows, BatchesOK
<1>6. QED
  BY <1>1, <1>4, <1>5 DEF BooksInv, Rows

LEMMA BooksRollback ==
  ASSUME Inv, BooksInv, NEW t \in Requests, Rollback(t), pc[t] # "done"
  PROVE  BooksInv'
<1>1. /\ pc'[t] = "done" /\ job'[t] = NoJob /\ work'[t] = NoWork /\ UNCHANGED data
      /\ pc' = [pc EXCEPT ![t] = "done"] /\ job' = [job EXCEPT ![t] = NoJob]
      /\ work' = [work EXCEPT ![t] = NoWork] /\ UNCHANGED <<atProvider, calm>>
  BY DEF Rollback, End, Inv, RequestTypes
<1>2. Only(t)
  BY <1>1 DEF Only
<1>3. Books(t)'
  <2>1. Totals(work[t].batch, work[t].claimed)'
    BY <1>1, NoTotals, NothingDone, Nulls DEF Totals
  <2>2. \A p \in Payments : work'[t].status[p] = NoWrite /\ job'[t].inst[p] = NoWrite
    BY <1>1, Nulls
  <2>3. NoWrite \notin Status
    BY Nulls
  <2>4. Asked(t)' /\ Charged(t)' /\ Looked(t)'
    BY <1>1, <2>2, <2>3, NothingDone DEF Asked, Charged, Looked, Staged, Status
  <2>5. Decided(t)'
    BY <2>2, <2>3 DEF Decided, Unsettled, Status
  <2>6. QED
    BY <1>1, <2>1, <2>4, <2>5, NothingDone DEF Books
<1>4. QED
  BY <1>1, <1>2, <1>3, QuietStep

\* a request that begins has written nothing
LEMMA BooksBegin ==
  ASSUME Inv, BooksInv, NEW t \in Requests, NEW op \in {"batch", "callback", "query", "refund", "reverse"},
         NEW where \in {"lock", "apply", "compensate"}, NEW S \in SUBSET Payments, NEW o \in ProviderOutcome,
         Begin(t, op, where, S, o, Nobody),
         where = "apply" => op \in {"callback", "query"}
  PROVE  BooksInv'
<1>1. /\ pc[t] = "idle" /\ pc'[t] = where /\ work'[t] = work[t] /\ UNCHANGED data
      /\ job'[t].op = op /\ job'[t].inst = Snapshot(S)
      /\ Only(t)
  BY DEF Begin, Inv, RequestTypes, Only
<1>2. work[t] = NoWork
  BY <1>1 DEF Inv, Good, Cleared, Open
<1>3. \A p \in Payments : job'[t].inst[p] \in {payment[p].status, NoWrite} /\ work'[t].status[p] = NoWrite
  BY <1>1, <1>2, Nulls DEF Snapshot
<1>4. NoWrite \notin Status
  BY Nulls
<1>5. Asked(t)' /\ Charged(t)' /\ Looked(t)'
  BY <1>1, <1>2, <1>3, <1>4, NothingDone DEF Asked, Charged, Looked, Staged, Status
<1>6. Decided(t)'
  BY <1>3, <1>4 DEF Decided, Unsettled, BooksInv, Rows, StuckOK, Status
<1>7. Totals(work[t].batch, work[t].claimed)'
  BY <1>1, <1>2, NoTotals, NothingDone, Nulls DEF Totals, Only
<1>8. Books(t)'
  BY <1>1, <1>2, <1>5, <1>6, <1>7, NothingDone DEF Books
<1>9. QED
  BY <1>1, <1>8, QuietStep

LEMMA BooksBeginRun ==
  ASSUME Inv, BooksInv, NEW t \in Requests, BeginRun(t)
  PROVE  BooksInv'
<1>1. /\ pc[t] = "idle" /\ pc'[t] = "unknown" /\ UNCHANGED data
      /\ job'[t].op = "reconcile" /\ job'[t].inst = Snapshot(Unknown) /\ job'[t].todo = Unknown
      /\ work'[t] = [work[t] EXCEPT !.run = [work[t].run EXCEPT !.unknown = Unknown]]
      /\ Only(t)
  BY DEF BeginRun, Inv, RequestTypes, Only
<1>2. work[t] = NoWork
  BY <1>1 DEF Inv, Good, Cleared, Open
<1>3. work'[t] \in Work /\ work'[t].run.unknown = Unknown /\ work'[t].run.listed = {}
      /\ work'[t].status = NoWork.status /\ work'[t].paid = {} /\ work'[t].batch = NoSettlement
      /\ work'[t].claimed = {}
  <2>1. Unknown \in SUBSET Payments
    BY DEF Unknown
  <2>2. NoWork \in Work /\ NoWork.run \in RunRow /\ NoWork.run.listed = {} /\ NoWork.paid = {}
        /\ NoWork.batch = NoSettlement /\ NoWork.claimed = {}
    BY NothingDone, Nulls
  <2>3. PICK r : r = [NoWork.run EXCEPT !.unknown = Unknown]
    OBVIOUS
  <2>4. r \in RunRow /\ r.unknown = Unknown /\ r.listed = {}
    BY <2>1, <2>2, <2>3 DEF RunRow
  <2>5. work'[t] = [NoWork EXCEPT !.run = r]
    BY <1>1, <1>2, <2>3
  <2>6. QED
    BY <2>2, <2>4, <2>5 DEF Work
<1>4. \A p \in Payments : job'[t].inst[p] \in {payment[p].status, NoWrite} /\ work'[t].status[p] = NoWrite
  BY <1>1, <1>3, Nulls DEF Snapshot
<1>5. NoWrite \notin Status
  BY Nulls
<1>6. Asked(t)' /\ Charged(t)' /\ Looked(t)'
  BY <1>1, <1>3, <1>4, <1>5 DEF Asked, Charged, Looked, Staged, Status
<1>7. Decided(t)'
  BY <1>4, <1>5 DEF Decided, Unsettled, BooksInv, Rows, StuckOK, Status
<1>8. Totals(work[t].batch, work[t].claimed)'
  BY <1>1, <1>3, NoTotals DEF Totals, Only
<1>9. Books(t)'
  BY <1>1, <1>3, <1>6, <1>7, <1>8 DEF Books
<1>10. QED
  BY <1>1, <1>9, QuietStep

LEMMA BooksLockRow ==
  ASSUME Inv, BooksInv, NEW t \in Requests, LockRow(t)
  PROVE  BooksInv'
<1> DEFINE p == NextRow(t)
<1>1. p \in job[t].todo /\ p \in Payments
  BY Unmoved, NextRowIsARow DEF LockRow, NextRow, Job
<1>2. /\ pc[t] = "lock" /\ pc' = pc /\ UNCHANGED <<data, atProvider, calm>>
      /\ job' = [job EXCEPT ![t].todo = @ \ {p}]
      /\ work' = [work EXCEPT ![t].claimed = @ \cup {p}] \/ work' = work
  BY DEF LockRow
<1> HIDE DEF p
<1>3. job'[t].op = job[t].op /\ job'[t].inst = job[t].inst /\ pc'[t] = pc[t]
  BY <1>2, Unmoved DEF Job
<1>4. Books(t) /\ work[t] \in Work
  BY DEF BooksInv, Books
<1>5. /\ work'[t] \in Work /\ work'[t].status = work[t].status /\ work'[t].paid = work[t].paid
      /\ work'[t].run = work[t].run /\ work'[t].exceptions = work[t].exceptions
  BY <1>1, <1>2, <1>4 DEF Work, Inv, RequestTypes
<1>6. Only(t)
  BY <1>2, <1>3 DEF Only, Inv, RequestTypes
<1>7. Books(t)'
  BY <1>2, <1>3, <1>4, <1>5 DEF Books, Asked, Charged, Looked, Decided, Staged
<1>8. QED
  BY <1>2, <1>6, <1>7, QuietStep

LEMMA BooksCreateBatch ==
  ASSUME Inv, BooksInv, NEW t \in Requests, CreateBatch(t)
  PROVE  BooksInv'
<1> DEFINE S == work[t].claimed
           b == [status |-> "pending", gross |-> Gross(S), fee |-> PlatformFee(S)]
<1>1. /\ pc[t] = "lock" /\ pc' = [pc EXCEPT ![t] = "commit"] /\ job' = job
      /\ UNCHANGED <<data, atProvider, calm>> /\ work' = [work EXCEPT ![t].batch = b]
  BY DEF CreateBatch
<1>2. Books(t) /\ work[t] \in Work /\ Good(t) /\ fees \in [Payments -> Nat] /\ S \in SUBSET Payments
  BY DEF BooksInv, Books, Inv, Rows, FilesOK, Work
<1>3. PlatformFee(S) \in Nat /\ ((\A p \in S : fees[p] = 1) => PlatformFee(S) = Fee * Cardinality(S))
  BY <1>2, PlatformFeeIs
<1>4. calm => \A p \in S : fees[p] = 1
  BY <1>2 DEF Good, Held, Claimable, BooksInv, Rows, FeesOK
<1>5. b \in BatchRow
  BY <1>2, <1>3, GrossIs DEF BatchRow, BatchStatus
<1>6. Totals(b, S)
  BY <1>3, <1>4 DEF Totals
<1>7. b.gross = Gross(S)
  OBVIOUS
<1> HIDE DEF b, S
<1>8. /\ work'[t] \in Work /\ work'[t].status = work[t].status /\ work'[t].paid = work[t].paid
      /\ work'[t].run = work[t].run /\ work'[t].exceptions = work[t].exceptions
      /\ work'[t].batch = b /\ work'[t].claimed = S
      /\ pc'[t] = "commit" /\ job'[t] = job[t]
  BY <1>1, <1>2, <1>5 DEF Work, Inv, RequestTypes, S
<1>9. job[t].op # "reconcile"
  BY <1>1, <1>2 DEF Books, Asked
<1>10. Only(t)
  BY <1>1, <1>8 DEF Only, Inv, RequestTypes
<1>11. Totals(work[t].batch, work[t].claimed)'
  BY <1>1, <1>6, <1>8 DEF Totals
<1>12. Books(t)'
  BY <1>1, <1>2, <1>8, <1>9, <1>11 DEF Books, Asked, Charged, Looked, Decided, Staged
<1>13. QED
  BY <1>1, <1>10, <1>12, QuietStep

LEMMA BooksCompensate ==
  ASSUME Inv, BooksInv, NEW t \in Requests, Compensate(t)
  PROVE  BooksInv'
<1> DEFINE p == NextRow(t)
           s == CompensatedStatus(job[t].op)
<1>1. p \in job[t].todo /\ p \in Payments
  <2>1. job[t].todo # {} /\ job[t].todo \subseteq Payments
    BY Unmoved DEF Compensate, Good, Placed, Job
  <2>2. QED
    BY <2>1, NextRowIsARow DEF NextRow
<1>2. s \in {"REFUNDED", "REVERSED"} /\ s \in Status /\ s # NoWrite
  BY Nulls DEF CompensatedStatus, Status
<1>3. /\ pc[t] = "compensate" /\ pc' = [pc EXCEPT ![t] = "commit"] /\ job' = job
      /\ UNCHANGED <<data, atProvider, calm>> /\ work' = [work EXCEPT ![t].status[p] = s]
  BY DEF Compensate
<1>4. Books(t) /\ work[t] \in Work /\ job[t].op \in {"refund", "reverse"} /\ ~Staged(t, p)
  BY <1>1, <1>3, Unmoved DEF BooksInv, Books, Good, Placed
<1> HIDE DEF p, s
<1>5. work'[t] = [work[t] EXCEPT !.status = [work[t].status EXCEPT ![p] = s]] /\ job'[t] = job[t]
      /\ pc'[t] = "commit"
  BY <1>3, <1>4 DEF Inv, RequestTypes
<1>6. PICK f : f = [work[t].status EXCEPT ![p] = s]
  OBVIOUS
<1>7. f \in [Payments -> Status \cup {NoWrite}] /\ f[p] = s /\ \A q \in Payments \ {p} : f[q] = work[t].status[q]
  BY <1>1, <1>2, <1>4, <1>6 DEF Work
<1>8. work'[t] = [work[t] EXCEPT !.status = f]
  BY <1>5, <1>6
<1>9. /\ work'[t] \in Work /\ work'[t].status = f /\ work'[t].paid = work[t].paid
      /\ work'[t].run = work[t].run /\ work'[t].exceptions = work[t].exceptions
      /\ work'[t].batch = work[t].batch /\ work'[t].claimed = work[t].claimed
  BY <1>4, <1>7, <1>8 DEF Work
<1>10. Only(t)
  BY <1>3, <1>5, <1>8 DEF Only, Inv, RequestTypes
<1>11. Asked(t)' /\ Looked(t)'
  BY <1>4, <1>5 DEF Asked, Looked
<1>12. Charged(t)'
  <2>1. ASSUME NEW q \in Payments
        PROVE  /\ q \in work[t].paid <=> f[q] = "SUCCESSFUL"
               /\ f[q] \in {NoWrite, "REFUNDED", "REVERSED"}
    <3>1. /\ q \in work[t].paid <=> work[t].status[q] = "SUCCESSFUL"
          /\ work[t].status[q] \in {NoWrite, "REFUNDED", "REVERSED"}
      BY <1>4 DEF Books, Charged
    <3>2. NoWrite # "SUCCESSFUL"
      BY Nulls DEF Status
    <3>3. QED
      BY <1>2, <1>7, <3>1, <3>2
  <2>2. QED
    BY <1>9, <2>1 DEF Charged
<1>13. Decided(t)'
  BY <1>1, <1>2, <1>4, <1>5, <1>7, <1>9 DEF Books, Decided, Unsettled
<1>14. Totals(work[t].batch, work[t].claimed)'
  BY <1>3, <1>4, <1>9 DEF Books, Totals
<1>15. Books(t)'
  BY <1>9, <1>11, <1>12, <1>13, <1>14 DEF Books
<1>16. QED
  BY <1>3, <1>10, <1>15, QuietStep

LEMMA BooksAllocate ==
  ASSUME Inv, BooksInv, NEW t \in Requests, AllocateToBill(t)
  PROVE  BooksInv'
<1>1. /\ pc' = pc /\ work' = work /\ UNCHANGED <<data, atProvider, calm>>
      /\ job' = [job EXCEPT ![t].row = Nobody]
  BY DEF AllocateToBill
<1>2. /\ job'[t].op = job[t].op /\ job'[t].inst = job[t].inst /\ job'[t].todo = job[t].todo
      /\ pc'[t] = pc[t] /\ work'[t] = work[t]
  BY <1>1, Unmoved DEF Job
<1>3. Only(t)
  BY <1>1, <1>2 DEF Only, Inv, RequestTypes
<1>4. pc[t] # "done"
  BY Unmoved DEF AllocateToBill, Good, Placed
<1>5. Books(t)
  BY DEF BooksInv
<1>6. Totals(work[t].batch, work[t].claimed)' <=> Totals(work[t].batch, work[t].claimed)
  BY <1>1 DEF Totals
<1>7. Books(t)'
  BY <1>1, <1>2, <1>5, <1>6 DEF Books, Asked, Charged, Looked, Decided, Staged
<1>8. QED
  BY <1>1, <1>3, <1>4, <1>7, QuietStep

\* query_payment left the payment as it was
LEMMA BooksNoop ==
  ASSUME Inv, BooksInv, NEW t \in Requests, ApplyNoop(t)
  PROVE  BooksInv'
<1> DEFINE p == NextRow(t)
           e == Exception(t, p, "stuck_unknown")
<1>1. p \in job[t].todo /\ p \in Payments
  BY Unmoved, NextRowIsARow DEF ApplyNoop, Applying, NextRow, Job
<1>2. /\ pc[t] \in {"unknown", "apply"} /\ pc' = pc /\ UNCHANGED <<data, atProvider, calm>>
      /\ job' = [job EXCEPT ![t].todo = @ \ {p}]
      /\ work' = IF pc[t] = "unknown"
                 THEN [work EXCEPT ![t].exceptions = @ \cup {e}, ![t].run.checked = @ + 1] ELSE work
  BY DEF ApplyNoop, Applying
<1>3. e \in ExceptionRow /\ e.run = t /\ e.payment = p /\ e.type = "stuck_unknown"
  BY <1>1 DEF Exception, ExceptionRow, ExceptionTypes
<1> HIDE DEF p, e
<1>4. /\ job'[t].op = job[t].op /\ job'[t].inst = job[t].inst /\ pc'[t] = pc[t]
      /\ job'[t].todo = job[t].todo \ {p}
  BY <1>2, Unmoved DEF Job, Inv, RequestTypes
<1>5. Books(t) /\ work[t] \in Work
  BY DEF BooksInv, Books
<1>6. PICK r : r = [work[t].run EXCEPT !.checked = @ + 1]
  OBVIOUS
<1>7. r \in RunRow /\ r.unknown = work[t].run.unknown /\ r.listed = work[t].run.listed
  BY <1>5, <1>6 DEF Work, RunRow
<1>8. \/ pc[t] = "unknown" /\ work'[t] = [work[t] EXCEPT !.exceptions = work[t].exceptions \cup {e}, !.run = r]
      \/ pc[t] = "apply" /\ work'[t] = work[t]
  BY <1>2, <1>6 DEF Inv, RequestTypes
<1>9. /\ work'[t] \in Work /\ work'[t].status = work[t].status /\ work'[t].paid = work[t].paid
      /\ work'[t].run.unknown = work[t].run.unknown /\ work'[t].run.listed = work[t].run.listed
      /\ work[t].exceptions \subseteq work'[t].exceptions /\ (pc[t] = "unknown" => e \in work'[t].exceptions)
      /\ work'[t].batch = work[t].batch /\ work'[t].claimed = work[t].claimed
  <2>1. CASE pc[t] = "unknown" /\ work'[t] = [work[t] EXCEPT !.exceptions = work[t].exceptions \cup {e}, !.run = r]
    <3>1. PICK E : E = work[t].exceptions \cup {e}
      OBVIOUS
    <3>2. E \in SUBSET ExceptionRow
      BY <1>3, <1>5, <3>1 DEF Work
    <3>3. work'[t] = [work[t] EXCEPT !.exceptions = E, !.run = r]
      BY <2>1, <3>1
    <3>4. QED
      BY <1>5, <1>7, <3>1, <3>2, <3>3 DEF Work
  <2>2. CASE pc[t] = "apply" /\ work'[t] = work[t]
    BY <1>5, <2>2
  <2>3. QED
    BY <1>8, <2>1, <2>2
<1>10. Only(t)
  BY <1>2, <1>4, <1>8 DEF Only, Inv, RequestTypes
<1>11. Asked(t)' /\ Charged(t)' /\ Decided(t)'
  BY <1>4, <1>5, <1>9 DEF Books, Asked, Charged, Decided
<1>12. Looked(t)'
  <2>1. Looked(t) /\ Asked(t)
    BY <1>5 DEF Books
  <2>2. \A q \in Payments : Staged(t, q)' <=> Staged(t, q)
    BY <1>9 DEF Staged
  <2>3. \A q : Reports(work[t].exceptions, t, q, {"stuck_unknown"})
               => Reports(work'[t].exceptions, t, q, {"stuck_unknown"})
    BY <1>9 DEF Reports
  <2>4. pc[t] = "unknown" => Reports(work'[t].exceptions, t, p, {"stuck_unknown"})
    BY <1>3, <1>9 DEF Reports
  <2>5. work[t].run.unknown \subseteq Payments
    BY <1>5 DEF Work, RunRow
  <2>6. QED
    BY <1>2, <1>4, <1>9, <2>1, <2>2, <2>3, <2>4, <2>5 DEF Looked, Asked
<1>13. Totals(work[t].batch, work[t].claimed)'
  BY <1>2, <1>5, <1>9 DEF Books, Totals
<1>14. Books(t)'
  BY <1>9, <1>11, <1>12, <1>13 DEF Books
<1>15. QED
  BY <1>2, <1>10, <1>14, QuietStep

\* a settled payment is compared with the provider's record
LEMMA BooksCheck ==
  ASSUME Inv, BooksInv, NEW t \in Requests, CheckSettled(t)
  PROVE  BooksInv'
<1> DEFINE p == NextRow(t)
           v == Verdict(job[t].inst[p], atProvider[p])
<1>1. p \in job[t].todo /\ p \in Payments
  BY Unmoved, NextRowIsARow DEF CheckSettled, NextRow, Job
<1>2. /\ pc[t] = "settled" /\ pc' = pc /\ UNCHANGED <<data, atProvider, calm>>
      /\ job' = [job EXCEPT ![t].todo = @ \ {p}]
      /\ work' = [work EXCEPT ![t].exceptions = IF v = "matched" THEN @ ELSE @ \cup {Exception(t, p, v)},
                              ![t].run = OneCompared(@, v)]
  BY DEF CheckSettled
<1>3. v = Verdict(job[t].inst[p], atProvider[p]) /\ v \in {"matched", "status_mismatch", "missing_at_provider"}
  BY DEF Verdict
<1> HIDE DEF p, v
<1>4. PICK e : e = Exception(t, p, v)
  OBVIOUS
<1>5. e.run = t /\ e.payment = p /\ e.type = v /\ (v # "matched" => e \in ExceptionRow)
  BY <1>1, <1>3, <1>4 DEF Exception, ExceptionRow, ExceptionTypes
<1>6. /\ job'[t].op = job[t].op /\ job'[t].inst = job[t].inst /\ pc'[t] = pc[t]
      /\ job'[t].todo = job[t].todo \ {p}
  BY <1>2, Unmoved DEF Job, Inv, RequestTypes
<1>7. Books(t) /\ work[t] \in Work
  BY DEF BooksInv, Books
<1>8. PICK r : r = OneCompared(work[t].run, v)
  OBVIOUS
<1>9. r \in RunRow /\ r.unknown = work[t].run.unknown /\ r.listed = work[t].run.listed
  <2>1. PICK n : n = IF v = "matched" THEN work[t].run.matched + 1 ELSE work[t].run.matched
    OBVIOUS
  <2>2. work[t].run \in RunRow
    BY <1>7 DEF Work
  <2>3. n \in Nat /\ work[t].run.checked + 1 \in Nat
    BY <2>1, <2>2 DEF RunRow
  <2>4. r = [work[t].run EXCEPT !.checked = work[t].run.checked + 1, !.matched = n]
    BY <1>8, <2>1 DEF OneCompared
  <2>5. QED
    BY <2>2, <2>3, <2>4 DEF RunRow
<1>10. PICK E : E = IF v = "matched" THEN work[t].exceptions ELSE work[t].exceptions \cup {e}
  OBVIOUS
<1>11. work'[t] = [work[t] EXCEPT !.exceptions = E, !.run = r]
  BY <1>2, <1>4, <1>8, <1>10 DEF Inv, RequestTypes
<1>12. E \in SUBSET ExceptionRow
  BY <1>5, <1>7, <1>10 DEF Work
<1>13. /\ work'[t] \in Work /\ work'[t].status = work[t].status /\ work'[t].paid = work[t].paid
      /\ work'[t].run.unknown = work[t].run.unknown /\ work'[t].run.listed = work[t].run.listed
      /\ work[t].exceptions \subseteq work'[t].exceptions /\ (v # "matched" => e \in work'[t].exceptions)
      /\ work'[t].batch = work[t].batch /\ work'[t].claimed = work[t].claimed
  BY <1>7, <1>9, <1>10, <1>11, <1>12 DEF Work
<1>14. Only(t)
  BY <1>2, <1>6, <1>11 DEF Only, Inv, RequestTypes
<1>15. Asked(t)' /\ Charged(t)' /\ Decided(t)'
  BY <1>6, <1>7, <1>13 DEF Books, Asked, Charged, Decided
<1>16. Looked(t)'
  <2>1. Looked(t)
    BY <1>7 DEF Books
  <2>2. \A q \in Payments : Staged(t, q)' <=> Staged(t, q)
    BY <1>13 DEF Staged
  <2>3. \A q, types : Reports(work[t].exceptions, t, q, types) => Reports(work'[t].exceptions, t, q, types)
    BY <1>13 DEF Reports
  <2>4. v # "matched" => Reports(work'[t].exceptions, t, p, {"status_mismatch", "missing_at_provider"})
    BY <1>3, <1>5, <1>13 DEF Reports
  <2>5. work[t].run.unknown \subseteq Payments /\ work[t].run.listed \subseteq Payments
    BY <1>7 DEF Work, RunRow
  <2>6. atProvider' = atProvider
    BY <1>2
  <2>7. QED
    BY <1>2, <1>3, <1>6, <1>13, <2>1, <2>2, <2>3, <2>4, <2>5, <2>6 DEF Looked
<1>17. Totals(work[t].batch, work[t].claimed)'
  BY <1>2, <1>7, <1>13 DEF Books, Totals
<1>18. Books(t)'
  BY <1>13, <1>15, <1>16, <1>17 DEF Books
<1>19. QED
  BY <1>2, <1>14, <1>18, QuietStep

LEMMA BooksApply ==
  ASSUME Inv, BooksInv, NEW t \in Requests, ApplyWrites(t)
  PROVE  BooksInv'
<1> DEFINE p == NextRow(t)
           o == OutcomeFor(t, p)
           s == NewStatus(o)
           N == IF s = "SUCCESSFUL" THEN work[t].paid \cup {p} ELSE work[t].paid
           r == IF pc[t] = "unknown" THEN OneResolved(work[t].run) ELSE work[t].run
<1>1. p \in job[t].todo /\ p \in Payments
  BY Unmoved, NextRowIsARow DEF ApplyWrites, Applying, NextRow, Job
<1>2. /\ pc[t] \in {"unknown", "apply"} /\ OutcomeWrites(job[t].inst[p], o) /\ pc' = pc
      /\ UNCHANGED <<data, atProvider, calm>>
      /\ \E x : job' = [job EXCEPT ![t].todo = @ \ {p}, ![t].row = x]
      /\ work' = [work EXCEPT ![t].status[p] = s, ![t].ref = @ \cup {p}, ![t].paid = N, ![t].run = r]
  BY DEF ApplyWrites, Applying
<1>3. /\ job[t].inst[p] \in Status /\ ~Staged(t, p)
      /\ pc[t] = "unknown" => job[t].inst[p] = "UNKNOWN"
  BY <1>1, <1>2, Unmoved DEF Good, Placed, Job
<1>4. o \in ProviderOutcome
  BY <1>1, Unmoved DEF OutcomeFor, Job, Inv, RowTypes
<1>5. /\ s \in Status /\ s # NoWrite /\ job[t].inst[p] \in Unsettled
      /\ pc[t] = "unknown" => s \in {"SUCCESSFUL", "FAILED"}
  BY <1>2, <1>3, <1>4, Nulls, OutcomesWriteUnsettled
<1>6. Books(t) /\ work[t] \in Work /\ s \notin {"REFUNDED", "REVERSED"}
  BY <1>4 DEF BooksInv, Books, NewStatus, OutcomeToStatus, ProviderOutcome
<1>7. job[t].inst[p] = "UNKNOWN" => s \in {"SUCCESSFUL", "FAILED"}
  BY <1>2, <1>3, <1>4, OutcomesWriteUnsettled
<1>8. (p \in N <=> s = "SUCCESSFUL") /\ N \in SUBSET Payments /\ \A q \in Payments \ {p} : q \in N <=> q \in work[t].paid
  <2>1. p \notin work[t].paid
    BY <1>1, <1>3, <1>6, Nulls DEF Books, Charged, Staged, Status
  <2>2. QED
    BY <1>1, <1>6, <2>1 DEF Work
<1>9. r \in RunRow /\ r.unknown = work[t].run.unknown /\ r.listed = work[t].run.listed
  <2>1. PICK old : old = work[t].run
    OBVIOUS
  <2>2. old \in RunRow
    BY <1>6, <2>1 DEF Work
  <2>3. /\ OneResolved(old) \in RunRow /\ OneResolved(old).unknown = old.unknown
        /\ OneResolved(old).listed = old.listed
    <3>1. PICK n, m : n = old.checked + 1 /\ m = old.resolved + 1
      OBVIOUS
    <3>2. n \in Nat /\ m \in Nat
      BY <2>2, <3>1 DEF RunRow
    <3>3. OneResolved(old) = [old EXCEPT !.checked = n, !.resolved = m]
      BY <3>1 DEF OneResolved
    <3>4. QED
      BY <2>2, <3>2, <3>3 DEF RunRow
  <2>4. QED
    BY <2>1, <2>2, <2>3
<1> HIDE DEF p, o, s, N, r
<1>10. /\ job'[t].op = job[t].op /\ job'[t].inst = job[t].inst /\ pc'[t] = pc[t]
       /\ job'[t].todo = job[t].todo \ {p}
  BY <1>2, Unmoved DEF Job, Inv, RequestTypes
<1>11. PICK f, R : f = [work[t].status EXCEPT ![p] = s] /\ R = work[t].ref \cup {p}
  OBVIOUS
<1>12. f \in [Payments -> Status \cup {NoWrite}] /\ f[p] = s /\ \A q \in Payments \ {p} : f[q] = work[t].status[q]
  BY <1>1, <1>5, <1>6, <1>11 DEF Work
<1>13. work'[t] = [work[t] EXCEPT !.status = f, !.ref = R, !.paid = N, !.run = r]
  BY <1>2, <1>11 DEF Inv, RequestTypes
<1>14. R \in SUBSET Payments
  BY <1>1, <1>6, <1>11 DEF Work
<1>15. /\ work'[t] \in Work /\ work'[t].status = f /\ work'[t].paid = N /\ work'[t].run = r
       /\ work'[t].exceptions = work[t].exceptions
       /\ work'[t].batch = work[t].batch /\ work'[t].claimed = work[t].claimed
  BY <1>6, <1>8, <1>9, <1>12, <1>13, <1>14 DEF Work
<1>16. Only(t)
  BY <1>2, <1>10, <1>13 DEF Only, Inv, RequestTypes
<1>17. Asked(t)' /\ job[t].op \notin {"refund", "reverse"}
  BY <1>2, <1>6, <1>10 DEF Books, Asked
<1>18. Charged(t)'
  <2>1. ASSUME NEW q \in Payments PROVE q \in N <=> f[q] = "SUCCESSFUL"
    <3>1. q \in work[t].paid <=> work[t].status[q] = "SUCCESSFUL"
      BY <1>6 DEF Books, Charged
    <3>2. QED
      BY <1>8, <1>12, <3>1
  <2>2. QED
    BY <1>10, <1>15, <1>17, <2>1 DEF Charged
<1>19. Decided(t)'
  <2>1. ASSUME "PENDING" \notin Started
        PROVE  s \notin Unsettled
    <3>1. job[t].inst[p] = "UNKNOWN"
      BY <1>1, <1>5, <1>6, <2>1 DEF Books, Decided, Unsettled
    <3>2. QED
      BY <1>7, <3>1 DEF Unsettled
  <2>2. ASSUME "PENDING" \notin Started, NEW q \in Payments
        PROVE  job'[t].inst[q] \notin {"INITIATED", "PENDING"} /\ work'[t].status[q] \notin Unsettled
    <3>1. job[t].inst[q] \notin {"INITIATED", "PENDING"} /\ work[t].status[q] \notin Unsettled
      BY <1>6, <2>2 DEF Books, Decided
    <3>2. QED
      BY <1>10, <1>12, <1>15, <2>1, <2>2, <3>1
  <2>3. QED
    BY <2>2 DEF Decided
<1>20. Looked(t)'
  <2>1. ASSUME job[t].op = "reconcile"
        PROVE  /\ pc[t] = "unknown" /\ r.listed = {}
               /\ \A q \in Payments : f[q] \in {NoWrite, "SUCCESSFUL", "FAILED"}
               /\ \A q \in r.unknown : \/ q \in job'[t].todo
                                       \/ f[q] # NoWrite
                                       \/ Reports(work[t].exceptions, t, q, {"stuck_unknown"})
    <3>1. pc[t] = "unknown" /\ Looked(t)
      BY <1>2, <1>6, <2>1 DEF Books, Asked
    <3>2. s \in {"SUCCESSFUL", "FAILED"}
      BY <1>5, <3>1
    <3>3. \A q \in Payments : f[q] \in {NoWrite, "SUCCESSFUL", "FAILED"}
      BY <1>12, <2>1, <3>1, <3>2 DEF Looked
    <3>4. r.listed = {}
      BY <1>9, <2>1, <3>1 DEF Looked
    <3>5. ASSUME NEW q \in r.unknown
          PROVE  \/ q \in job'[t].todo
                 \/ f[q] # NoWrite
                 \/ Reports(work[t].exceptions, t, q, {"stuck_unknown"})
      <4>1. q \in Payments /\ \/ q \in job[t].todo
                              \/ work[t].status[q] # NoWrite
                              \/ Reports(work[t].exceptions, t, q, {"stuck_unknown"})
        BY <1>9, <2>1, <3>1 DEF Looked, Staged, RunRow
      <4>2. QED
        BY <1>5, <1>10, <1>12, <4>1
    <3>6. QED
      BY <3>1, <3>3, <3>4, <3>5
  <2>2. QED
    BY <1>2, <1>10, <1>15, <2>1 DEF Looked, Staged
<1>21. Totals(work[t].batch, work[t].claimed)'
  BY <1>2, <1>6, <1>15 DEF Books, Totals
<1>22. Books(t)'
  BY <1>15, <1>17, <1>18, <1>19, <1>20, <1>21 DEF Books
<1>23. QED
  BY <1>2, <1>16, <1>22, QuietStep

\* every settled payment with a reference is still to be looked at
LEMMA BooksList ==
  ASSUME Inv, BooksInv, NEW t \in Requests, ListSettled(t)
  PROVE  BooksInv'
<1> DEFINE S == {p \in Payments : Seen(t, p) \in {"SUCCESSFUL", "FAILED"} /\ SeenRef(t, p)}
           i == [p \in Payments |-> IF p \in S THEN Seen(t, p) ELSE NoWrite]
<1>1. /\ pc[t] = "unknown" /\ job[t].todo = {} /\ UNCHANGED <<data, atProvider, calm>>
      /\ pc' = [pc EXCEPT ![t] = "settled"] /\ job' = [job EXCEPT ![t].todo = S, ![t].inst = i]
      /\ work' = [work EXCEPT ![t].run.listed = S]
  BY DEF ListSettled
<1>2. /\ S \in SUBSET Payments /\ \A p \in Payments : i[p] = IF p \in S THEN Seen(t, p) ELSE NoWrite
      /\ \A p \in S : Seen(t, p) \in {"SUCCESSFUL", "FAILED"}
  OBVIOUS
<1>3. \A p \in Payments : Staged(t, p) => p \in S /\ Seen(t, p) = work[t].status[p]
  BY <1>1, Unmoved DEF Good, Placed, Seen, SeenRef, Staged
<1> HIDE DEF S, i
<1>4. Books(t) /\ work[t] \in Work
  BY DEF BooksInv, Books
<1>5. /\ job'[t].op = job[t].op /\ job'[t].inst = i /\ pc'[t] = "settled" /\ job'[t].todo = S
  BY <1>1, Unmoved DEF Job, Inv, RequestTypes
<1>6. PICK r : r = [work[t].run EXCEPT !.listed = S]
  OBVIOUS
<1>7. r \in RunRow /\ r.unknown = work[t].run.unknown /\ r.listed = S
  BY <1>2, <1>4, <1>6 DEF Work, RunRow
<1>8. work'[t] = [work[t] EXCEPT !.run = r]
  BY <1>1, <1>6 DEF Inv, RequestTypes
<1>9. /\ work'[t] \in Work /\ work'[t].status = work[t].status /\ work'[t].paid = work[t].paid
      /\ work'[t].run = r /\ work'[t].exceptions = work[t].exceptions
      /\ work'[t].batch = work[t].batch /\ work'[t].claimed = work[t].claimed
  BY <1>4, <1>7, <1>8 DEF Work
<1>10. Only(t)
  BY <1>1, <1>5, <1>8 DEF Only, Inv, RequestTypes
<1>11. Asked(t)' /\ Charged(t)'
  BY <1>1, <1>4, <1>5, <1>9 DEF Books, Asked, Charged
<1>12. Decided(t)'
  <2>1. \A p \in Payments : i[p] \notin {"INITIATED", "PENDING"}
    BY <1>2, Nulls DEF Status
  <2>2. QED
    BY <1>4, <1>5, <1>9, <2>1 DEF Books, Decided
<1>13. Looked(t)'
  <2>1. Looked(t)
    BY <1>4 DEF Books
  <2>2. \A p \in Payments : Staged(t, p)' <=> Staged(t, p)
    BY <1>9 DEF Staged
  <2>3. work[t].run.unknown \subseteq Payments
    BY <1>4 DEF Work, RunRow
  <2>4. \A p \in Payments : Staged(t, p)' => job'[t].inst[p] = work'[t].status[p]
    BY <1>2, <1>3, <1>5, <1>9, <2>2
  <2>5. \A p \in work'[t].run.listed : job'[t].inst[p] \in {"SUCCESSFUL", "FAILED"} /\ p \in job'[t].todo
    BY <1>2, <1>5, <1>7, <1>9
  <2>6. QED
    BY <1>1, <1>5, <1>7, <1>9, <2>1, <2>2, <2>3, <2>4, <2>5 DEF Looked
<1>14. Totals(work[t].batch, work[t].claimed)'
  BY <1>1, <1>4, <1>9 DEF Books, Totals
<1>15. Books(t)'
  BY <1>9, <1>11, <1>12, <1>13, <1>14 DEF Books
<1>16. QED
  BY <1>1, <1>10, <1>15, QuietStep

-----------------------------------------------------------------------------
(* The provider's decision, and the one-statement updates of a person. *)

\* what agreed with the provider's record was decided, and stays so
LEMMA MatchedIsDecided ==
  ASSUME NEW s \in {"SUCCESSFUL", "FAILED"}, NEW o \in ProviderOutcome, Verdict(s, o) = "matched"
  PROVE  o # "pending"
BY DEF Verdict, OutcomeToStatus, ProviderOutcome

LEMMA BooksProvider ==
  ASSUME Inv, BooksInv, NEW x \in Payments, ProviderDecides(x)
  PROVE  BooksInv'
<1>1. UNCHANGED <<payment, fees, batch, run, exceptions, lock, pc, job, work, calm>>
  BY DEF ProviderDecides, data
<1>2. \A p \in Payments : atProvider[p] \in ProviderOutcome /\ (atProvider[p] # "pending" => atProvider'[p] = atProvider[p])
  BY DEF ProviderDecides, Inv, RowTypes
<1>3. \A p \in Payments, s \in {"SUCCESSFUL", "FAILED"} :
        Verdict(s, atProvider[p]) = "matched" => Verdict(s, atProvider'[p]) = "matched"
  BY <1>2, MatchedIsDecided
<1>4. ASSUME NEW t \in Requests PROVE Books(t)'
  <2>1. Books(t) /\ work[t].run.listed \subseteq Payments
    BY DEF BooksInv, Books, Work, RunRow
  <2>2. Looked(t)'
    BY <1>1, <1>3, <2>1 DEF Books, Looked, Staged
  <2>3. Totals(work[t].batch, work[t].claimed)' <=> Totals(work[t].batch, work[t].claimed)
    BY <1>1 DEF Totals
  <2>4. QED
    BY <1>1, <2>1, <2>2, <2>3 DEF Books, Asked, Charged, Decided
<1>5. FilesOK' /\ FeesOK' /\ StuckOK'
  BY <1>1 DEF BooksInv, Rows, FilesOK, FeesOK, StuckOK, Reported
<1>6. RunsOK'
  <2>1. \A t \in Requests : run[t].listed \subseteq Payments
    BY DEF BooksInv, Rows, FilesOK, RunRow
  <2>2. RunsOK
    BY DEF BooksInv, Rows
  <2>3. QED
    BY <1>1, <1>3, <2>1, <2>2 DEF RunsOK, Reported
<1>7. BatchesOK'
  <2>1. ASSUME NEW u \in Requests PROVE ClaimedBy(u)' = ClaimedBy(u)
    BY <1>1 DEF ClaimedBy
  <2>2. ASSUME NEW u \in Requests PROVE Totals(batch[u], ClaimedBy(u))'
    BY <1>1, <2>1 DEF BooksInv, Rows, BatchesOK, Totals
  <2>3. QED
    BY <1>1, <2>1, <2>2 DEF BooksInv, Rows, BatchesOK
<1>8. QED
  BY <1>4, <1>5, <1>6, <1>7 DEF BooksInv, Rows

\* an UPDATE of batches or exceptions that keeps what the theorems speak of
LEMMA BooksUpdate ==
  ASSUME Inv, BooksInv, NEW t \in Requests, pc[t] = "idle", pc' = [pc EXCEPT ![t] = "done"],
         UNCHANGED <<payment, fees, atProvider, run, job, work, calm>>,
         batch' \in [Requests -> BatchRow], exceptions' \subseteq ExceptionRow,
         \A u \in Requests : batch'[u].gross = batch[u].gross /\ batch'[u].fee = batch[u].fee,
         \A u, p, types : Reported(u, p, types) => Reported(u, p, types)'
  PROVE  BooksInv'
<1>1. Only(t)
  <2>1. pc'[t] = "done" /\ job'[t] = job[t] /\ work'[t] = work[t]
    BY DEF Inv, RequestTypes
  <2>2. QED
    BY <2>1 DEF Only, Inv, RequestTypes
<1>2. Books(t)'
  <2>1. Books(t) /\ Totals(work[t].batch, work[t].claimed) /\ job[t] = NoJob /\ pc'[t] = "done"
    BY DEF BooksInv, Books, Inv, Good, Cleared, Open, RequestTypes
  <2>2. Totals(work[t].batch, work[t].claimed)'
    BY <2>1 DEF Totals
  <2>3. QED
    BY <2>1, <2>2, NothingDone DEF Books, Asked, Charged, Looked, Decided
<1>3. \A u \in Requests : Books(u)'
  BY <1>1, <1>2, BooksOfOthers
<1>4. FilesOK' /\ FeesOK'
  BY DEF BooksInv, Rows, FilesOK, FeesOK
<1>5. RunsOK'
  BY DEF BooksInv, Rows, RunsOK
<1>6. StuckOK'
  BY DEF BooksInv, Rows, StuckOK
<1>7. BatchesOK'
  <2>1. ASSUME NEW u \in Requests PROVE ClaimedBy(u)' = ClaimedBy(u)
    BY DEF ClaimedBy
  <2>2. ASSUME NEW u \in Requests PROVE Totals(batch[u], ClaimedBy(u))'
    BY <2>1 DEF BooksInv, Rows, BatchesOK, Totals
  <2>3. \A u \in Requests : pc'[u] # "done" => pc[u] # "done"
    BY <1>1, OnlyOthers
  <2>4. QED
    BY <2>1, <2>2, <2>3 DEF BooksInv, Rows, BatchesOK
<1>8. QED
  BY <1>3, <1>4, <1>5, <1>6, <1>7 DEF BooksInv, Rows

LEMMA BooksMarkCompleted ==
  ASSUME Inv, BooksInv, NEW t \in Requests, MarkCompleted(t)
  PROVE  BooksInv'
<1>1. PICK b \in Requests : batch' = [batch EXCEPT ![b].status = "completed"]
  BY DEF MarkCompleted
<1>2. batch \in [Requests -> BatchRow]
  BY DEF BooksInv, Rows, FilesOK
<1>3. batch' \in [Requests -> BatchRow]
      /\ \A u \in Requests : batch'[u].gross = batch[u].gross /\ batch'[u].fee = batch[u].fee
  BY <1>1, <1>2 DEF BatchRow, BatchStatus
<1>4. exceptions' = exceptions /\ exceptions \subseteq ExceptionRow
  BY DEF MarkCompleted, BooksInv, Rows, FilesOK
<1>5. \A u, p, types : Reported(u, p, types) => Reported(u, p, types)'
  BY <1>4 DEF Reported
<1>6. /\ pc[t] = "idle" /\ pc' = [pc EXCEPT ![t] = "done"]
      /\ UNCHANGED <<payment, fees, atProvider, run, job, work, calm>>
  BY DEF MarkCompleted
<1>7. QED
  BY <1>3, <1>4, <1>5, <1>6, BooksUpdate

LEMMA BooksResolve ==
  ASSUME Inv, BooksInv, NEW t \in Requests, ResolveException(t)
  PROVE  BooksInv'
<1>1. PICK e \in exceptions : exceptions' = (exceptions \ {e}) \cup {[e EXCEPT !.status = "resolved"]}
  BY DEF ResolveException
<1>2. exceptions \subseteq ExceptionRow
  BY DEF BooksInv, Rows, FilesOK
<1>3. PICK d : d = [e EXCEPT !.status = "resolved"]
  OBVIOUS
<1>4. d \in ExceptionRow /\ d.run = e.run /\ d.payment = e.payment /\ d.type = e.type
  BY <1>2, <1>3 DEF ExceptionRow
<1>5. exceptions' \subseteq ExceptionRow
  BY <1>1, <1>2, <1>3, <1>4
<1>6. \A u, p, types : Reported(u, p, types) => Reported(u, p, types)'
  BY <1>1, <1>3, <1>4 DEF Reported
<1>7. /\ pc[t] = "idle" /\ pc' = [pc EXCEPT ![t] = "done"] /\ batch' = batch
      /\ UNCHANGED <<payment, fees, atProvider, run, job, work, calm>>
  BY DEF ResolveException
<1>8. batch' \in [Requests -> BatchRow]
      /\ \A u \in Requests : batch'[u].gross = batch[u].gross /\ batch'[u].fee = batch[u].fee
  BY <1>7 DEF BooksInv, Rows, FilesOK
<1>9. QED
  BY <1>5, <1>6, <1>7, <1>8, BooksUpdate

-----------------------------------------------------------------------------
(* COMMIT *)

\* what a commit makes of the payments, by what the request has staged
LEMMA CommitPays ==
  ASSUME Inv, BooksInv, NEW t \in Requests, Commit(t), NEW p \in Payments
  PROVE  /\ payment'[p].status # payment[p].status =>
              Staged(t, p) /\ payment'[p].status = work[t].status[p]
         /\ fees'[p] = fees[p] + (IF p \in work[t].paid THEN 1 ELSE 0)
         /\ calm /\ Staged(t, p) =>
              \/ payment[p].status \in Unsettled /\ job[t].op \notin {"refund", "reverse"}
              \/ payment[p].status \in Unsettled /\ payment'[p].status \in {"REFUNDED", "REVERSED"}
              \/ payment[p].status = "SUCCESSFUL" /\ payment'[p].status \in {"REFUNDED", "REVERSED"}
<1>1. /\ Staged(t, p) => payment'[p].status = work[t].status[p]
      /\ ~Staged(t, p) => payment'[p].status = payment[p].status
  BY CommitMoves
<1>2. fees'[p] = fees[p] + (IF p \in work[t].paid THEN 1 ELSE 0)
  BY DEF Commit
<1>3. Charged(t) /\ Good(t)
  BY DEF BooksInv, Books, Inv
<1>4. ASSUME calm, Staged(t, p)
      PROVE  \/ payment[p].status \in Unsettled
             \/ job[t].op \in {"refund", "reverse"} /\ payment[p].status = "SUCCESSFUL"
  BY <1>3, <1>4 DEF Good, Fresh
<1>5. Staged(t, p) /\ job[t].op \in {"refund", "reverse"} => work[t].status[p] \in {"REFUNDED", "REVERSED"}
  BY <1>3 DEF Charged, Staged
<1>6. QED
  BY <1>1, <1>2, <1>4, <1>5

\* the rows a completed run has looked at, at its COMMIT
LEMMA RunCommits ==
  ASSUME Inv, BooksInv, NEW t \in Requests, Commit(t), run'[t].done
  PROVE  /\ \A p \in run'[t].unknown :
              payment'[p].status \in {"SUCCESSFUL", "FAILED"} \/ Reported(t, p, {"stuck_unknown"})'
         /\ calm => \A p \in run'[t].listed :
              /\ payment'[p].status \in {"SUCCESSFUL", "FAILED"}
              /\ \/ Verdict(payment'[p].status, atProvider'[p]) = "matched"
                 \/ Reported(t, p, {"status_mismatch", "missing_at_provider"})'
<1>1. Books(t) /\ work[t] \in Work /\ Good(t)
  BY DEF BooksInv, Books, Inv
<1>2. PICK r : r = work[t].run
  OBVIOUS
<1>3. r \in RunRow
  BY <1>1, <1>2 DEF Work
<1>4. run'[t] = [r EXCEPT !.done = (job[t].op = "reconcile")]
  BY <1>2 DEF Commit, BooksInv, Rows, FilesOK
<1>5. job[t].op = "reconcile" /\ run'[t].unknown = r.unknown /\ run'[t].listed = r.listed
      /\ r.unknown \subseteq Payments /\ r.listed \subseteq Payments
  BY <1>3, <1>4 DEF RunRow
<1>6. Asked(t) /\ Looked(t)
  BY <1>1 DEF Books
<1>7. pc[t] = "settled" /\ job[t].todo = {}
  BY <1>5, <1>6 DEF Asked, Commit, Returns
<1>8. atProvider' = atProvider /\ work[t].exceptions \subseteq exceptions'
  BY DEF Commit
<1>9. \A p, types : Reports(work[t].exceptions, t, p, types) => Reported(t, p, types)'
  BY <1>8 DEF Reports, Reported
<1>10. ASSUME NEW p \in r.unknown
       PROVE  payment'[p].status \in {"SUCCESSFUL", "FAILED"} \/ Reported(t, p, {"stuck_unknown"})'
  <2>1. p \in Payments
    BY <1>5
  <2>2. Staged(t, p) \/ Reports(work[t].exceptions, t, p, {"stuck_unknown"})
    BY <1>2, <1>5, <1>6, <1>7 DEF Looked
  <2>3. Staged(t, p) => payment'[p].status \in {"SUCCESSFUL", "FAILED"}
    BY <1>5, <1>6, <2>1, CommitMoves DEF Looked, Staged
  <2>4. QED
    BY <1>9, <2>2, <2>3
<1>11. ASSUME calm, NEW p \in r.listed
       PROVE  /\ payment'[p].status \in {"SUCCESSFUL", "FAILED"}
              /\ \/ Verdict(payment'[p].status, atProvider'[p]) = "matched"
                 \/ Reported(t, p, {"status_mismatch", "missing_at_provider"})'
  <2>1. p \in Payments
    BY <1>5
  <2>2. /\ job[t].inst[p] \in {"SUCCESSFUL", "FAILED"}
        /\ \/ Reports(work[t].exceptions, t, p, {"status_mismatch", "missing_at_provider"})
           \/ Verdict(job[t].inst[p], atProvider[p]) = "matched"
    BY <1>2, <1>5, <1>6, <1>7 DEF Looked
  <2>3. payment'[p].status = job[t].inst[p]
    <3>1. CASE Staged(t, p)
      BY <1>6, <1>7, <2>1, <3>1, CommitMoves DEF Looked
    <3>2. CASE ~Staged(t, p)
      <4>1. job[t].inst[p] # NoWrite
        BY <2>2, Nulls DEF Status
      <4>2. QED
        BY <1>1, <1>11, <2>1, <3>2, <4>1, CommitMoves DEF Good, Fresh
    <3>3. QED
      BY <3>1, <3>2
  <2>4. QED
    BY <1>8, <1>9, <2>2, <2>3
<1>12. QED
  BY <1>5, <1>10, <1>11

LEMMA BooksCommit ==
  ASSUME Inv, BooksInv, NEW t \in Requests, Commit(t)
  PROVE  BooksInv'
<1>1. /\ pc' = [pc EXCEPT ![t] = "done"] /\ job' = [job EXCEPT ![t] = NoJob]
      /\ work' = [work EXCEPT ![t] = NoWork] /\ UNCHANGED <<atProvider, calm>>
      /\ batch' = [batch EXCEPT ![t] = work[t].batch] /\ exceptions' = exceptions \cup work[t].exceptions
      /\ run' = [run EXCEPT ![t] = [work[t].run EXCEPT !.done = (job[t].op = "reconcile")]]
      /\ fees' = [p \in Payments |-> fees[p] + (IF p \in work[t].paid THEN 1 ELSE 0)]
      /\ pc[t] \notin {"lock", "done"}
  BY DEF Commit, End, Returns
<1>2. pc'[t] = "done" /\ job'[t] = NoJob /\ work'[t] = NoWork /\ Only(t)
  BY <1>1 DEF Only, Inv, RequestTypes
<1>3. Books(t) /\ work[t] \in Work /\ Good(t) /\ FilesOK
  BY DEF BooksInv, Books, Inv, Rows
<1>4. Books(t)'
  <2>1. Totals(work[t].batch, work[t].claimed)'
    BY <1>2, NoTotals, NothingDone, Nulls, <1>1 DEF Totals
  <2>2. \A p \in Payments : work'[t].status[p] = NoWrite /\ job'[t].inst[p] = NoWrite
    BY <1>2, Nulls
  <2>3. NoWrite \notin Status
    BY Nulls
  <2>4. Asked(t)' /\ Charged(t)' /\ Looked(t)'
    BY <1>2, <2>2, <2>3, NothingDone DEF Asked, Charged, Looked, Staged, Status
  <2>5. Decided(t)'
    BY <2>2, <2>3 DEF Decided, Unsettled, Status
  <2>6. QED
    BY <1>2, <2>1, <2>4, <2>5, NothingDone DEF Books
<1>5. \A u \in Requests : Books(u)'
  BY <1>2, <1>4, BooksOfOthers
<1>6. FilesOK'
  <2>1. \A p \in Payments : fees[p] + (IF p \in work[t].paid THEN 1 ELSE 0) \in Nat
    BY <1>3 DEF FilesOK
  <2>2. fees' \in [Payments -> Nat]
    BY <1>1, <2>1
  <2>3. work[t].batch \in BatchRow /\ work[t].run \in RunRow /\ work[t].exceptions \subseteq ExceptionRow
    BY <1>3 DEF Work
  <2>4. PICK r : r = [work[t].run EXCEPT !.done = (job[t].op = "reconcile")]
    OBVIOUS
  <2>5. r \in RunRow
    <3>1. PICK b \in BOOLEAN : b = (job[t].op = "reconcile")
      OBVIOUS
    <3>2. r = [work[t].run EXCEPT !.done = b]
      BY <2>4, <3>1
    <3>3. QED
      BY <2>3, <3>2 DEF RunRow
  <2>6. run' = [run EXCEPT ![t] = r]
    BY <1>1, <2>4
  <2>7. QED
    BY <1>1, <1>3, <2>2, <2>3, <2>5, <2>6 DEF FilesOK
<1>7. BatchesOK'
  <2>1. \A p \in Payments : payment'[p].batch = IF p \in work[t].claimed THEN t ELSE payment[p].batch
    BY CommitMoves
  <2>2. \A p \in work[t].claimed : p \in Payments /\ payment[p].batch = NoBatch
    BY <1>3 DEF Good, Held, Claimable, Work
  <2>3. ClaimedBy(t)' = work[t].claimed
    <3>1. ClaimedBy(t) = {}
      BY <1>1 DEF BooksInv, Rows, BatchesOK
    <3>2. \A p \in Payments : payment'[p].batch = t <=> p \in work[t].claimed
      BY <2>1, <3>1 DEF ClaimedBy
    <3>3. QED
      BY <2>2, <3>2 DEF ClaimedBy
  <2>4. ASSUME NEW u \in Requests \ {t} PROVE ClaimedBy(u)' = ClaimedBy(u)
    <3>1. \A p \in Payments : payment'[p].batch = u <=> payment[p].batch = u
      BY <2>1, <2>2, BackOfficeAssumption
    <3>2. QED
      BY <3>1 DEF ClaimedBy
  <2>5. batch'[t] = work[t].batch /\ \A u \in Requests \ {t} : batch'[u] = batch[u]
    BY <1>1, <1>3 DEF FilesOK
  <2>6. Totals(batch[t], ClaimedBy(t))'
    <3>1. Totals(work[t].batch, work[t].claimed)
      BY <1>1, <1>3 DEF Books
    <3>2. QED
      BY <1>1, <2>3, <2>5, <3>1 DEF Totals
  <2>7. ASSUME NEW u \in Requests \ {t} PROVE Totals(batch[u], ClaimedBy(u))'
    BY <1>1, <2>4, <2>5, <2>7 DEF BooksInv, Rows, BatchesOK, Totals
  <2>8. \A u \in Requests : pc'[u] # "done" => u # t /\ pc[u] # "done"
    BY <1>2, OnlyOthers
  <2>9. QED
    BY <2>4, <2>6, <2>7, <2>8 DEF BooksInv, Rows, BatchesOK
<1>8. FeesOK'
  <2>1. SUFFICES ASSUME calm, NEW p \in Payments
                 PROVE  /\ payment'[p].status = "SUCCESSFUL" => fees'[p] = 1
                        /\ payment'[p].status \in Unsettled => fees'[p] = 0
    BY <1>1 DEF FeesOK
  <2>2. /\ payment[p].status = "SUCCESSFUL" => fees[p] = 1
        /\ payment[p].status \in Unsettled => fees[p] = 0
    BY <2>1 DEF BooksInv, Rows, FeesOK
  <2>3. p \in work[t].paid <=> work[t].status[p] = "SUCCESSFUL"
    BY <1>3 DEF Books, Charged
  <2>4. CASE Staged(t, p)
    <3>1. payment'[p].status = work[t].status[p]
      BY <2>4, CommitMoves
    <3>2. \/ payment[p].status \in Unsettled /\ fees[p] = 0
          \/ payment'[p].status \in {"REFUNDED", "REVERSED"}
      BY <2>1, <2>2, <2>4, CommitPays
    <3>3. fees'[p] = fees[p] + (IF p \in work[t].paid THEN 1 ELSE 0)
      BY CommitPays
    <3>4. QED
      BY <2>3, <3>1, <3>2, <3>3 DEF Unsettled
  <2>5. CASE ~Staged(t, p)
    <3>1. payment'[p].status = payment[p].status
      BY <2>5, CommitMoves
    <3>2. p \notin work[t].paid
      BY <2>3, <2>5, Nulls DEF Staged, Status
    <3>3. fees'[p] = fees[p]
      BY <1>3, <3>2, CommitPays DEF FilesOK
    <3>4. QED
      BY <2>2, <3>1, <3>3
  <2>6. QED
    BY <2>4, <2>5
<1>9. /\ \A u \in Requests \ {t} : run'[u] = run[u]
      /\ \A u, p, types : Reported(u, p, types) => Reported(u, p, types)'
      /\ atProvider' = atProvider /\ calm' = calm
      /\ \A u \in Requests : run[u].unknown \subseteq Payments /\ run[u].listed \subseteq Payments
  BY <1>1, <1>3 DEF Reported, FilesOK, RunRow
<1>10. RunsOK'
  <2>1. SUFFICES ASSUME calm, NEW u \in Requests, run'[u].done
                 PROVE  /\ \A p \in run'[u].unknown : payment'[p].status \notin Unsettled
                                                      \/ Reported(u, p, {"stuck_unknown"})'
                        /\ \A p \in run'[u].listed :
                             /\ payment'[p].status \notin Unsettled
                             /\ \/ payment'[p].status \notin {"SUCCESSFUL", "FAILED"}
                                \/ Verdict(payment'[p].status, atProvider'[p]) = "matched"
                                \/ Reported(u, p, {"status_mismatch", "missing_at_provider"})'
    BY <1>9 DEF RunsOK
  <2>2. CASE u = t
    BY <2>1, <2>2, RunCommits DEF Unsettled
  <2>3. CASE u # t
    <3>1. run[u].done /\ run'[u] = run[u]
      BY <1>9, <2>1, <2>3
    <3>2. RunsOK
      BY DEF BooksInv, Rows
    <3>3. ASSUME NEW p \in Payments, payment[p].status \notin Unsettled
          PROVE  payment'[p].status = payment[p].status \/ payment'[p].status \in {"REFUNDED", "REVERSED"}
      BY <2>1, <3>3, CommitPays
    <3>4. \A p \in run[u].unknown : payment'[p].status \notin Unsettled \/ Reported(u, p, {"stuck_unknown"})'
      BY <1>9, <2>1, <3>1, <3>2, <3>3 DEF RunsOK, Unsettled
    <3>5. ASSUME NEW p \in run[u].listed
          PROVE  /\ payment'[p].status \notin Unsettled
                 /\ \/ payment'[p].status \notin {"SUCCESSFUL", "FAILED"}
                    \/ Verdict(payment'[p].status, atProvider'[p]) = "matched"
                    \/ Reported(u, p, {"status_mismatch", "missing_at_provider"})'
      <4>1. p \in Payments /\ payment[p].status \notin Unsettled
            /\ \/ payment[p].status \notin {"SUCCESSFUL", "FAILED"}
               \/ Verdict(payment[p].status, atProvider[p]) = "matched"
               \/ Reported(u, p, {"status_mismatch", "missing_at_provider"})
        BY <1>9, <2>1, <3>1, <3>2, <3>5 DEF RunsOK
      <4>2. payment'[p].status = payment[p].status \/ payment'[p].status \in {"REFUNDED", "REVERSED"}
        BY <3>3, <4>1
      <4>3. CASE payment'[p].status = payment[p].status
        BY <1>9, <4>1, <4>3
      <4>4. CASE payment'[p].status \in {"REFUNDED", "REVERSED"}
        BY <4>4 DEF Unsettled
      <4>5. QED
        BY <4>2, <4>3, <4>4
    <3>6. QED
      BY <3>1, <3>4, <3>5
  <2>4. QED
    BY <2>2, <2>3
<1>11. StuckOK'
  <2>1. SUFFICES ASSUME "PENDING" \notin Started
                 PROVE  /\ \A p \in Payments : payment'[p].status \notin {"INITIATED", "PENDING"}
                        /\ \A u \in Requests : run'[u].done =>
                             \A p \in run'[u].unknown : payment'[p].status # "UNKNOWN"
                                                        \/ Reported(u, p, {"stuck_unknown"})'
    BY DEF StuckOK
  <2>2. ASSUME NEW p \in Payments
        PROVE  payment'[p].status = payment[p].status \/ payment'[p].status \notin Unsettled
    BY <1>3, <2>1, CommitPays DEF Books, Decided
  <2>3. /\ \A p \in Payments : payment[p].status \notin {"INITIATED", "PENDING"}
        /\ \A u \in Requests : run[u].done =>
             \A p \in run[u].unknown : payment[p].status # "UNKNOWN" \/ Reported(u, p, {"stuck_unknown"})
    BY <2>1 DEF BooksInv, Rows, StuckOK
  <2>4. ASSUME NEW u \in Requests, run'[u].done, NEW p \in run'[u].unknown
        PROVE  payment'[p].status # "UNKNOWN" \/ Reported(u, p, {"stuck_unknown"})'
    <3>1. CASE u = t
      BY <2>4, <3>1, RunCommits
    <3>2. CASE u # t
      BY <1>9, <2>2, <2>3, <2>4, <3>2 DEF Unsettled
    <3>3. QED
      BY <3>1, <3>2
  <2>5. QED
    BY <2>2, <2>3, <2>4 DEF Unsettled
<1>12. QED
  BY <1>5, <1>6, <1>7, <1>8, <1>10, <1>11 DEF BooksInv, Rows

-----------------------------------------------------------------------------
LEMMA BooksArrive ==
  ASSUME Inv, BooksInv, NEW t \in Requests, Arrive(t)
  PROVE  BooksInv'
<1>1. "unknown" \in ProviderOutcome /\ "successful" \in ProviderOutcome
  BY DEF ProviderOutcome
<1>2. CASE BeginBatch(t)
  <2> DEFINE S == {p \in Payments : Claimable(p)}
  <2>1. S \in SUBSET Payments
    OBVIOUS
  <2>2. Begin(t, "batch", "lock", S, "unknown", Nobody)
    BY <1>2 DEF BeginBatch
  <2> HIDE DEF S
  <2>3. QED
    BY <1>1, <2>1, <2>2, BooksBegin
<1>3. ASSUME NEW p \in Payments, BeginCallback(t, p) PROVE BooksInv'
  <2>1. PICK o \in Callbacks : Begin(t, "callback", "apply", {p}, o, Nobody)
    BY <1>3 DEF BeginCallback
  <2>2. o \in ProviderOutcome /\ {p} \in SUBSET Payments
    BY BackOfficeAssumption
  <2>3. QED
    BY <2>1, <2>2, BooksBegin
<1>4. ASSUME NEW p \in Payments, BeginQuery(t, p) PROVE BooksInv'
  <2>1. atProvider[p] \in ProviderOutcome /\ {p} \in SUBSET Payments
    BY DEF Inv, RowTypes
  <2>2. Begin(t, "query", "apply", {p}, atProvider[p], Nobody)
    BY <1>4 DEF BeginQuery
  <2>3. PICK o \in ProviderOutcome : o = atProvider[p]
    BY <2>1
  <2>4. Begin(t, "query", "apply", {p}, o, Nobody)
    BY <2>2, <2>3 DEF Begin
  <2>5. QED
    BY <2>1, <2>4, BooksBegin
<1>5. ASSUME NEW p \in Payments, BeginCompensation(t, p) PROVE BooksInv'
  <2>1. PICK op \in {"refund", "reverse"} : Begin(t, op, "compensate", {p}, "successful", Nobody)
    BY <1>5 DEF BeginCompensation
  <2>2. {p} \in SUBSET Payments
    OBVIOUS
  <2>3. QED
    BY <1>1, <2>1, <2>2, BooksBegin
<1>6. QED
  BY <1>2, <1>3, <1>4, <1>5, BooksBeginRun, BooksMarkCompleted, BooksResolve DEF Arrive

\* a request that waits for a row has not ended
LEMMA WhoWaitsIsOpen ==
  ASSUME Inv, NEW t \in Requests, Wanted(t) # {}
  PROVE  pc[t] # "done"
BY Unmoved, Nulls DEF Wanted, Good, Cleared, Open

LEMMA BooksUnmoved ==
  ASSUME BooksInv, UNCHANGED vars
  PROVE  BooksInv'
<1>1. ASSUME NEW t \in Requests PROVE Books(t)'
  <2>1. Books(t) /\ (Totals(work[t].batch, work[t].claimed)' <=> Totals(work[t].batch, work[t].claimed))
    BY DEF BooksInv, vars, Totals
  <2>2. QED
    BY <2>1 DEF Books, Asked, Charged, Looked, Decided, Staged, vars
<1>2. FilesOK' /\ FeesOK' /\ RunsOK' /\ StuckOK'
  BY DEF BooksInv, Rows, FilesOK, FeesOK, RunsOK, StuckOK, Reported, vars
<1>3. BatchesOK'
  <2>1. ASSUME NEW u \in Requests PROVE ClaimedBy(u)' = ClaimedBy(u)
    BY DEF ClaimedBy, vars
  <2>2. ASSUME NEW u \in Requests PROVE Totals(batch[u], ClaimedBy(u))'
    BY <2>1 DEF BooksInv, Rows, BatchesOK, Totals, vars
  <2>3. QED
    BY <2>1, <2>2 DEF BooksInv, Rows, BatchesOK, vars
<1>4. QED
  BY <1>1, <1>2, <1>3 DEF BooksInv, Rows

LEMMA BooksStep == Inv /\ BooksInv /\ [Next]_vars => BooksInv'
<1> SUFFICES ASSUME Inv, BooksInv, [Next]_vars PROVE BooksInv'
  OBVIOUS
<1>1. ASSUME NEW t \in Requests, Rollback(t), Open(t) PROVE BooksInv'
  BY <1>1, BooksRollback DEF Open
<1>2. ASSUME NEW t \in Requests, Step(t) PROVE BooksInv'
  <2>1. ApplyRaises(t) => Rollback(t) /\ pc[t] # "done"
    BY DEF ApplyRaises, Applying
  <2>2. DeadlockVictim(t) => Rollback(t) /\ pc[t] # "done"
    <3>1. SUFFICES ASSUME DeadlockVictim(t) PROVE Rollback(t) /\ pc[t] # "done"
      OBVIOUS
    <3>2. PICK C \in SUBSET Requests : t \in C /\ {Blocker(r) : r \in C} = C
      BY <3>1 DEF DeadlockVictim
    <3>3. Blocker(t) \in Requests
      BY <3>2
    <3>4. Blocker(t) # Nobody
      BY <3>3, BackOfficeAssumption
    <3>5. Wanted(t) # {}
      BY <3>4 DEF Blocker
    <3>6. QED
      BY <3>1, <3>5, WhoWaitsIsOpen DEF DeadlockVictim
  <2>3. QED
    BY <1>2, <2>1, <2>2, BooksLockRow, BooksCreateBatch, BooksCompensate, BooksNoop, BooksRollback, BooksApply,
       BooksAllocate, BooksList, BooksCheck, BooksCommit DEF Step
<1>3. ASSUME NEW t \in Requests, Abort(t) PROVE BooksInv'
  BY <1>1, <1>3 DEF Abort
<1>4. CASE UNCHANGED vars
  BY <1>4, BooksUnmoved
<1>5. QED
  BY <1>2, <1>3, <1>4, BooksArrive, BooksProvider DEF Next

LEMMA BooksInvariance == Spec => []BooksInv
BY BooksInit, BooksStep, Invariance, PTL DEF Spec

\* A request stages only statuses of PaymentStatus, an exception is of a declared
\* type, a payment's batch is the row of a request, and the sums are amounts.
THEOREM TypeCorrect == Spec => []TypeOK
<1>1. Inv /\ BooksInv => TypeOK
  <2> SUFFICES ASSUME Inv, BooksInv PROVE TypeOK
    OBVIOUS
  <2>1. FilesOK /\ RowTypes
    BY DEF Inv, BooksInv, Rows
  <2>2. \A t \in Requests : work[t] \in Work /\ job[t] \in Job
    BY DEF Inv, BooksInv, Books, RequestTypes
  <2>3. QED
    BY <2>1, <2>2 DEF TypeOK, FilesOK, RowTypes, Work, Job, BatchRow, ExceptionRow
<1>2. QED
  BY <1>1, Invariance, BooksInvariance, PTL

\* A batch's gross_amount is the sum of the payments that point to it for as long
\* as it exists, however requests overlap; its platform fee is one fee for each of
\* them when no two requests about one payment overlapped.
THEOREM TotalsAreOfItsPayments == Spec => []BatchTotals
<1>1. BooksInv => BatchTotals
  BY DEF BooksInv, Rows, BatchesOK, Totals, BatchTotals
<1>2. QED
  BY <1>1, BooksInvariance, PTL

\* A completed run has settled or reported each payment it met UNKNOWN, and
\* reported each settled one that disagrees with the provider's record, if no
\* payment is PENDING when the behaviour begins.
THEOREM RunsOverlookNothing ==
  ASSUME "PENDING" \notin Started
  PROVE  Spec => []NothingOverlooked
<1>1. BooksInv => NothingOverlooked
  BY DEF BooksInv, Rows, FilesOK, RunRow, RunsOK, StuckOK, Unsettled, NothingOverlooked
<1>2. QED
  BY <1>1, BooksInvariance, PTL

\* The same for any payments, when no two requests about one payment overlap: a
\* request that still works from a PENDING instance may otherwise write UNKNOWN
\* over what a completed run has settled.
THEOREM CalmRunsOverlookNothing == Spec => [](calm => NothingOverlooked)
<1>1. BooksInv => (calm => NothingOverlooked)
  BY DEF BooksInv, Rows, FilesOK, RunRow, RunsOK, Unsettled, NothingOverlooked
<1>2. QED
  BY <1>1, BooksInvariance, PTL
=============================================================================
