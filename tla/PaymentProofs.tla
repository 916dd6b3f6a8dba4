---------------------------- MODULE PaymentProofs ----------------------------
(***************************************************************************)
(* Theorems about the orchestrator, for any numbers of requests, payments, *)
(* bills and callbacks, and any amounts.  TypeInv and BookedInv come first,*)
(* action by action.  Then each action is put into one form: a step of one *)
(* request that publishes nothing (Guarded) or a COMMIT (CommitIs).  The   *)
(* properties that follow need one lemma for each of the two.              *)
(***************************************************************************)
EXTENDS PaymentSafety, SumLemmas

LEMMA RowTypes ==
  ASSUME NEW t \in Txns, NEW p \in Payments
  PROVE  /\ \A type \in LedgerTypes, a \in Int : LedgerEntry(t, p, type, a) \in Row
         /\ \A type \in RevenueTypes, a \in Int : RevenueEvent(t, p, type, a) \in Row
         /\ \A type \in WebhookTypes, x \in Payments \cup Bills : Dispatch(t, x, type) \in Row
         /\ \A type \in NotificationTypes : Notify(t, p, type) \in Row
         /\ \A a \in Int : NewRow("allocation", "ALLOCATION", p, t, a) \in Row
         /\ \A a \in Int : NewRow("receipt", "RECEIPT", p, t, a) \in Row
         /\ \A o \in ProviderOutcome : NewRow("mock", o, p, t, 0) \in Row
         /\ \A e \in Events, o \in EventOutcome : NewRow("callback", o, e, t, 0) \in Row
  BY DEF Row, TableRow, NewRow, LedgerEntry, RevenueEvent, Dispatch, Notify

LEMMA OutcomeRowTypes ==
  ASSUME NEW t \in Txns, NEW p \in Payments, NEW o \in ProviderOutcome
  PROVE  OutcomeRows(t, p, o) \subseteq Row
  <1>1. Amount[p] \in Int /\ Fee \in Int
    BY ConstantsAssumption
  <1>2. o \in {"successful", "failed", "pending", "unknown"}
    BY DEF ProviderOutcome
  <1>. QED BY <1>1, <1>2, RowTypes DEF OutcomeRows, SettlementEntries, FeeRows, FailureRows, Receipt,
                LedgerTypes, RevenueTypes, WebhookTypes, NotificationTypes
LEMMA CompensationRowTypes ==
  ASSUME NEW t \in Txns, NEW p \in Payments, NEW op
  PROVE  CompensationRows(t, p, op) \subseteq Row
  <1>1. Fee \in Int /\ -Fee \in Int
    BY ConstantsAssumption
  <1>. QED BY <1>1, RowTypes DEF CompensationRows, LedgerTypes, RevenueTypes, WebhookTypes, NotificationTypes

LEMMA OutcomeTypes ==
  ASSUME NEW o \in ProviderOutcome
  PROVE  NewStatus(o) \in Status /\ AfterOutcome(o) \in {"allocate", "commit"}
  <1>1. NewStatus(o) \in Status
    BY DEF NewStatus, OutcomeToStatus, ProviderOutcome, Status
  <1>2. AfterOutcome(o) \in {"allocate", "commit"}
    BY DEF AfterOutcome
  <1>. QED BY <1>1, <1>2

LEMMA QueryOutcomeType ==
  ASSUME rows \subseteq Row, NEW p
  PROVE  QueryOutcome(p) \in ProviderOutcome
  <1>1. \A r \in MockRows(p) : r.type \in ProviderOutcome
    BY DEF MockRows, Row, TableRow
  <1>2. CASE MockRows(p) = {}
    BY <1>2 DEF QueryOutcome, ProviderOutcome
  <1>3. CASE MockRows(p) # {}
    <2>1. \E o \in ProviderOutcome : \E r \in MockRows(p) : r.type = o
      BY <1>1, <1>3
    <2>. QED BY <1>3, <2>1 DEF QueryOutcome
  <1>. QED BY <1>2, <1>3

LEMMA BillAfterAllocationType ==
  ASSUME NEW seen \in BillStatus \cup {NoWrite}, NEW b, NEW S
  PROVE  BillAfterAllocation(seen, b, S) \in BillStatus \cup {NoWrite}
  BY DEF BillAfterAllocation, BillStatus

-----------------------------------------------------------------------------
(***************************************************************************)
(* What a request's place in the code says of what it asks for.            *)
(***************************************************************************)
ReqOK ==
  \A t \in Txns :
    /\ pc[t] = "insert" => req[t] \in InitiateRequest
    /\ pc[t] \in {"event", "lookup"} => req[t] \in CallbackRequest
    /\ pc[t] = "apply" => req[t] \in QueryRequest \cup CallbackRequest
    /\ pc[t] = "compensate" => req[t] \in UndoRequest
    /\ pc[t] = "allocate" => req[t] \in InitiateRequest \cup QueryRequest \cup CallbackRequest

TypeInv == TypeOK /\ ReqOK

LEMMA InsertsTypes ==
  ASSUME NEW R \in SUBSET Row
  PROVE  Inserts(R) \in Work
  BY DEF Inserts, Writes, Work

\* the part of a step that only moves request t from one place to another
LEMMA Moves ==
  ASSUME TypeInv, NEW t \in Txns, NEW place \in PC, pc' = [pc EXCEPT ![t] = place],
         \A u \in Txns \ {t} : req'[u] = req[u],
         place = "insert" => req'[t] \in InitiateRequest,
         place \in {"event", "lookup"} => req'[t] \in CallbackRequest,
         place = "apply" => req'[t] \in QueryRequest \cup CallbackRequest,
         place = "compensate" => req'[t] \in UndoRequest,
         place = "allocate" => req'[t] \in InitiateRequest \cup QueryRequest \cup CallbackRequest
  PROVE  pc' \in [Txns -> PC] /\ ReqOK'
  BY DEF TypeInv, TypeOK, ReqOK

LEMMA EndTypes ==
  ASSUME TypeInv, NEW t \in Txns, NEW how \in {"committed", "aborted"}, End(t, how)
  PROVE  /\ pc' \in [Txns -> PC] /\ ReqOK'
         /\ lock' \in [Payments \cup Bills -> Txns \cup {NoTxn}]
         /\ req' \in [Txns -> Request] /\ inst' \in [Txns -> Instance]
         /\ work' \in [Txns -> Work]
  <1>1. pc' \in [Txns -> PC] /\ ReqOK'
    BY Moves DEF End, PC, TypeInv, TypeOK
  <1>2. lock' \in [Payments \cup Bills -> Txns \cup {NoTxn}]
    BY DEF End, LocksReleased, TypeInv, TypeOK
  <1>3. NoRequest \in Request /\ NoInstance \in Instance /\ NoWork \in Work
    BY DEF Request, NoRequest, NoInstance, Read, Instance, NoWork, Inserts, Writes, Work
  <1>4. req' \in [Txns -> Request] /\ inst' \in [Txns -> Instance] /\ work' \in [Txns -> Work]
    BY <1>3 DEF End, TypeInv, TypeOK
  <1>. QED BY <1>1, <1>2, <1>4

LEMMA RollbackTypes ==
  ASSUME TypeInv, NEW t \in Txns, Rollback(t), UNCHANGED calls
  PROVE  TypeInv'
  BY EndTypes DEF Rollback, TypeInv, TypeOK

LEMMA BeginTypes ==
  ASSUME TypeInv, NEW t \in Txns, Begin(t)
  PROVE  TypeInv'
  <1>1. ASSUME NEW p \in Payments, NEW portal \in BOOLEAN, BeginInitiate(t, p, portal)
        PROVE  TypeInv'
    <2>1. CASE KeyTaken(p)
      <3>1. UNCHANGED <<payment, bill, rows, lock, req, inst, work, calls>>
        BY <1>1, <2>1 DEF BeginInitiate, db
      <3>2. pc' \in [Txns -> PC] /\ ReqOK'
        BY <1>1, <2>1, <3>1, Moves DEF BeginInitiate, PC
      <3>. QED BY <3>1, <3>2 DEF TypeInv, TypeOK
    <2>2. CASE ~KeyTaken(p)
      <3>. DEFINE r == [op |-> "initiate", payment |-> p, portal |-> portal]
      <3>1. /\ UNCHANGED <<payment, bill, rows, lock, work, calls>>
            /\ pc' = [pc EXCEPT ![t] = "insert"]
            /\ req' = [req EXCEPT ![t] = r]
            /\ inst' = [inst EXCEPT ![t] =
                          Read("INITIATED", FALSE, IF portal THEN bill[BillOf[p]] ELSE NoWrite)]
            /\ portal => BillOf[p] # NoBill
        BY <1>1, <2>2 DEF BeginInitiate, db
      <3>2. r \in InitiateRequest
        BY DEF InitiateRequest
      <3>3. req' \in [Txns -> Request]
        BY <3>1, <3>2 DEF TypeInv, TypeOK, Request
      <3>4. pc' \in [Txns -> PC] /\ ReqOK'
        BY <3>1, <3>2, Moves DEF PC, TypeInv, TypeOK
      <3>5. portal => bill[BillOf[p]] \in BillStatus
        BY <3>1, ConstantsAssumption DEF TypeInv, TypeOK
      <3>6. inst' \in [Txns -> Instance]
        BY <3>1, <3>5 DEF TypeInv, TypeOK, Read, Instance, Status
      <3>. QED BY <3>1, <3>3, <3>4, <3>6 DEF TypeInv, TypeOK
    <2>. QED BY <2>1, <2>2
  <1>2. ASSUME NEW p \in Payments, BeginQuery(t, p)
        PROVE  TypeInv'
    <2>. DEFINE r == [op |-> "query", payment |-> p]
    <2>1. /\ UNCHANGED <<payment, bill, rows, lock, work, calls>>
          /\ pc' = [pc EXCEPT ![t] = "apply"]
          /\ req' = [req EXCEPT ![t] = r]
          /\ ReadPayment(t, p)
      BY <1>2 DEF BeginQuery, db
    <2>2. r \in QueryRequest
      BY DEF QueryRequest
    <2>3. req' \in [Txns -> Request]
      BY <2>1, <2>2 DEF TypeInv, TypeOK, Request
    <2>4. pc' \in [Txns -> PC] /\ ReqOK'
      BY <2>1, <2>2, Moves DEF PC, TypeInv, TypeOK
    <2>5. inst' \in [Txns -> Instance]
      BY <2>1 DEF ReadPayment, Read, TypeInv, TypeOK, Instance, PaymentRow
    <2>. QED BY <2>1, <2>3, <2>4, <2>5 DEF TypeInv, TypeOK
  <1>3. ASSUME NEW p \in Payments, NEW op \in {"refund", "reverse"}, BeginCompensation(t, p, op)
        PROVE  TypeInv'
    <2>1. CASE payment[p].status # "SUCCESSFUL"
      <3>1. UNCHANGED <<payment, bill, rows, lock, work, inst, req, calls>>
        BY <1>3, <2>1 DEF BeginCompensation, db
      <3>2. pc' = [pc EXCEPT ![t] = "committed"]
        BY <1>3, <2>1 DEF BeginCompensation
      <3>3. pc' \in [Txns -> PC] /\ ReqOK'
        BY <3>1, <3>2, Moves DEF PC
      <3>. QED BY <3>1, <3>3 DEF TypeInv, TypeOK
    <2>. DEFINE r == [op |-> op, payment |-> p]
    <2>2. CASE payment[p].status = "SUCCESSFUL"
      <3>1. /\ UNCHANGED <<payment, bill, rows, lock, work>>
            /\ ReadPayment(t, p)
            /\ req' = [req EXCEPT ![t] = r]
            /\ calls' = calls \cup {[kind |-> op, payment |-> p, by |-> t]}
            /\ pc' = [pc EXCEPT ![t] = "compensate"]
        BY <1>3, <2>2 DEF BeginCompensation, db
      <3>2. r \in UndoRequest
        BY DEF UndoRequest
      <3>3. req' \in [Txns -> Request]
        BY <3>1, <3>2 DEF TypeInv, TypeOK, Request
      <3>4. pc' \in [Txns -> PC] /\ ReqOK'
        BY <3>1, <3>2, Moves DEF PC, TypeInv, TypeOK
      <3>5. inst' \in [Txns -> Instance]
        BY <3>1 DEF ReadPayment, Read, TypeInv, TypeOK, Instance, PaymentRow
      <3>6. calls' \subseteq Call
        BY <3>1 DEF Call, TypeInv, TypeOK
      <3>. QED BY <3>1, <3>3, <3>4, <3>5, <3>6 DEF TypeInv, TypeOK
    <2>. QED BY <2>1, <2>2
  <1>4. ASSUME NEW e \in Events, NEW verified \in BOOLEAN, BeginCallback(t, e, verified)
        PROVE  TypeInv'
    <2>. DEFINE r == [op |-> "callback", payment |-> e.payment, event |-> e]
    <2>1. /\ UNCHANGED <<payment, bill, rows, lock, inst, calls>>
          /\ req' = [req EXCEPT ![t] = r]
      BY <1>4 DEF BeginCallback, db
    <2>2. r \in CallbackRequest
      BY ConstantsAssumption DEF CallbackRequest
    <2>3. req' \in [Txns -> Request]
      BY <2>1, <2>2 DEF TypeInv, TypeOK, Request
    <2>4. PICK place \in {"event", "commit"} : pc' = [pc EXCEPT ![t] = place]
      BY <1>4 DEF BeginCallback
    <2>5. pc' \in [Txns -> PC] /\ ReqOK'
      BY <2>1, <2>2, <2>4, Moves DEF PC, TypeInv, TypeOK
    <2>6. work' \in [Txns -> Work]
      <3>1. NewRow("callback", "INVALID_SIGNATURE", e, t, 0) \in Row
        BY DEF NewRow, Row, TableRow, EventOutcome
      <3>2. \/ UNCHANGED work
            \/ work' = [work EXCEPT ![t] =
                          Inserts({NewRow("callback", "INVALID_SIGNATURE", e, t, 0)})]
        BY <1>4 DEF BeginCallback
      <3>3. Inserts({NewRow("callback", "INVALID_SIGNATURE", e, t, 0)}) \in Work
        BY <3>1, InsertsTypes
      <3>. QED BY <3>2, <3>3 DEF TypeInv, TypeOK
    <2>. QED BY <2>1, <2>3, <2>5, <2>6 DEF TypeInv, TypeOK
  <1>5. ASSUME NEW b \in Bills, BeginCancelBill(t, b)
        PROVE  TypeInv'
    <2>1. UNCHANGED <<payment, bill, rows, lock, calls>>
      BY <1>5 DEF BeginCancelBill, db
    <2>2. CASE "CANCELLED" \notin BillTransitions[bill[b]]
      <3>1. pc' = [pc EXCEPT ![t] = "committed"] /\ UNCHANGED <<req, inst, work>>
        BY <1>5, <2>2 DEF BeginCancelBill
      <3>2. pc' \in [Txns -> PC] /\ ReqOK'
        BY <3>1, Moves DEF PC
      <3>. QED BY <2>1, <3>1, <3>2 DEF TypeInv, TypeOK
    <2>3. CASE "CANCELLED" \in BillTransitions[bill[b]]
      <3>. DEFINE r == [op |-> "cancel", bill |-> b]
      <3>1. /\ pc' = [pc EXCEPT ![t] = "billwrite"]
            /\ req' = [req EXCEPT ![t] = r]
            /\ inst' = [inst EXCEPT ![t] = Read(Absent, FALSE, bill[b])]
            /\ work' = [work EXCEPT ![t] = Writes(NoWrite, FALSE, "CANCELLED",
                                                  {Dispatch(t, b, "bill.cancelled")})]
        BY <1>5, <2>3 DEF BeginCancelBill
      <3>2. r \in CancelRequest
        BY DEF CancelRequest
      <3>3. req' \in [Txns -> Request]
        BY <3>1, <3>2 DEF TypeInv, TypeOK, Request
      <3>4. pc' \in [Txns -> PC] /\ ReqOK'
        <4>1. \A u \in Txns \ {t} : req'[u] = req[u]
          BY <3>1 DEF TypeInv, TypeOK
        <4>. QED BY <3>1, <4>1, Moves DEF PC
      <3>5. inst' \in [Txns -> Instance]
        BY <3>1 DEF TypeInv, TypeOK, Read, Instance
      <3>6. Dispatch(t, b, "bill.cancelled") \in Row
        BY DEF Dispatch, NewRow, Row, TableRow, WebhookTypes
      <3>7. work' \in [Txns -> Work]
        BY <3>1, <3>6 DEF TypeInv, TypeOK, Writes, Work, BillStatus
      <3>. QED BY <2>1, <3>3, <3>4, <3>5, <3>7 DEF TypeInv, TypeOK
    <2>. QED BY <2>2, <2>3
  <1>. QED BY <1>1, <1>2, <1>3, <1>4, <1>5 DEF Begin

LEMMA RequestTypes ==
  ASSUME TypeInv, NEW t \in Txns
  PROVE  /\ pc[t] \in {"insert", "event", "lookup", "apply", "compensate", "allocate"}
              => req[t].payment \in Payments
         /\ pc[t] \in {"event", "lookup"} => req[t].event \in Events
         /\ pc[t] = "apply" => ReportedOutcome(t) \in ProviderOutcome
  <1>1. /\ pc[t] \in {"insert", "event", "lookup", "apply", "compensate", "allocate"}
             => req[t].payment \in Payments
        /\ pc[t] \in {"event", "lookup"} => req[t].event \in Events
    BY DEF TypeInv, ReqOK, InitiateRequest, QueryRequest, CallbackRequest, UndoRequest
  <1>2. ASSUME pc[t] = "apply"
        PROVE  ReportedOutcome(t) \in ProviderOutcome
    <2>1. req[t] \in QueryRequest \cup CallbackRequest
      BY <1>2 DEF TypeInv, ReqOK
    <2>2. CASE req[t] \in QueryRequest
      <3>1. req[t].op # "callback"
        BY <2>2 DEF QueryRequest
      <3>2. QueryOutcome(req[t].payment) \in ProviderOutcome
        BY QueryOutcomeType DEF TypeInv, TypeOK
      <3>. QED BY <3>1, <3>2 DEF ReportedOutcome
    <2>3. CASE req[t] \in CallbackRequest
      <3>1. req[t].op = "callback" /\ req[t].event \in Events
        BY <2>3 DEF CallbackRequest
      <3>2. req[t].event.outcome \in ProviderOutcome
        BY <3>1, ConstantsAssumption
      <3>. QED BY <3>1, <3>2 DEF ReportedOutcome
    <2>. QED BY <2>1, <2>2, <2>3
  <1>. QED BY <1>1, <1>2

LEMMA WritesTypes ==
  ASSUME NEW s \in Status \cup {NoWrite}, NEW r \in BOOLEAN,
         NEW b \in BillStatus \cup {NoWrite}, NEW R \in SUBSET Row
  PROVE  Writes(s, r, b, R) \in Work
  BY DEF Writes, Work

LEMMA StepTypes ==
  ASSUME TypeInv, NEW t \in Txns, Step(t)
  PROVE  TypeInv'
  <1>. DEFINE p == req[t].payment
  <1>1. CASE InsertConflicts(t)
    BY <1>1, RollbackTypes DEF InsertConflicts
  <1>2. ASSUME CallProvider(t), NEW place \in {"commit", "allocate"},
               NEW w \in Work, work' = [work EXCEPT ![t] = w],
               pc' = [pc EXCEPT ![t] = place]
        PROVE  TypeInv'
    <2>1. /\ UNCHANGED <<payment, bill, rows, lock, req, inst>>
          /\ pc[t] = "insert"
          /\ calls' = calls \cup {[kind |-> "initiate", payment |-> p, by |-> t]}
      BY <1>2 DEF CallProvider, db
    <2>2. p \in Payments /\ req[t] \in InitiateRequest
      BY <2>1, RequestTypes DEF TypeInv, ReqOK
    <2>3. calls' \subseteq Call
      BY <2>1, <2>2 DEF Call, TypeInv, TypeOK
    <2>4. pc' \in [Txns -> PC] /\ ReqOK'
      BY <1>2, <2>1, <2>2, Moves DEF PC
    <2>5. work' \in [Txns -> Work]
      BY <1>2 DEF TypeInv, TypeOK
    <2>. QED BY <2>1, <2>3, <2>4, <2>5 DEF TypeInv, TypeOK
  <1>3. CASE InitiateTimesOut(t)
    <2>. DEFINE w == Writes("UNKNOWN", FALSE, NoWrite, {NewRow("mock", "successful", p, t, 0)})
    <2>1. CallProvider(t) /\ work' = [work EXCEPT ![t] = w] /\ pc' = [pc EXCEPT ![t] = "commit"]
      BY <1>3 DEF InitiateTimesOut
    <2>2. p \in Payments
      BY <2>1, RequestTypes DEF CallProvider
    <2>3. NewRow("mock", "successful", p, t, 0) \in Row
      BY <2>2, RowTypes DEF ProviderOutcome
    <2>4. w \in Work
      BY <2>3, WritesTypes DEF Status
    <2>. QED BY <2>1, <2>4, <1>2
  <1>4. CASE InitiateFails(t)
    <2>. DEFINE w == Writes("FAILED", FALSE, NoWrite, FailureRows(t, p))
    <2>1. CallProvider(t) /\ work' = [work EXCEPT ![t] = w] /\ pc' = [pc EXCEPT ![t] = "commit"]
      BY <1>4 DEF InitiateFails
    <2>2. p \in Payments
      BY <2>1, RequestTypes DEF CallProvider
    <2>3. FailureRows(t, p) \subseteq Row
      BY <2>2, RowTypes DEF FailureRows, RevenueTypes, NotificationTypes
    <2>4. w \in Work
      BY <2>3, WritesTypes DEF Status
    <2>. QED BY <2>1, <2>4, <1>2
  <1>5. CASE InitiateAnswered(t)
    <2>1. PICK o \in ProviderOutcome :
            /\ CallProvider(t)
            /\ work' = [work EXCEPT ![t] = Writes(NewStatus(o), TRUE, NoWrite,
                           {NewRow("mock", o, p, t, 0)} \cup OutcomeRows(t, p, o))]
            /\ pc' = [pc EXCEPT ![t] = AfterOutcome(o)]
      BY <1>5 DEF InitiateAnswered
    <2>. DEFINE w == Writes(NewStatus(o), TRUE, NoWrite,
                            {NewRow("mock", o, p, t, 0)} \cup OutcomeRows(t, p, o))
    <2>2. p \in Payments
      BY <2>1, RequestTypes DEF CallProvider
    <2>3. {NewRow("mock", o, p, t, 0)} \cup OutcomeRows(t, p, o) \in SUBSET Row
      BY <2>2, RowTypes, OutcomeRowTypes
    <2>4. w \in Work
      BY <2>3, WritesTypes, OutcomeTypes
    <2>5. AfterOutcome(o) \in {"commit", "allocate"}
      BY OutcomeTypes
    <2>. QED BY <2>1, <2>4, <2>5, <1>2
  <1>6. CASE RecordEvent(t)
    <2>. DEFINE e == req[t].event
                duplicate == {NewRow("callback", "DUPLICATE", e, t, 0)}
                             \cup IF Rows("callback", "PROCESSED", e) = {} THEN {}
                                  ELSE {RevenueEvent(t, e.payment, "PAYMENT_DUPLICATE", 0)}
    <2>1. UNCHANGED <<payment, bill, rows, lock, req, inst, calls>> /\ pc[t] = "event"
      BY <1>6 DEF RecordEvent, db
    <2>2. e \in Events /\ e.payment \in Payments /\ req[t] \in CallbackRequest
      BY <2>1, RequestTypes, ConstantsAssumption DEF TypeInv, ReqOK
    <2>3. \A o \in EventOutcome : NewRow("callback", o, e, t, 0) \in Row
      BY <2>2 DEF NewRow, Row, TableRow
    <2>4. CASE EventRows(rows, e) = {}
      <3>. DEFINE R == {NewRow("callback", "PROCESSED", e, t, 0)}
      <3>1. work' = [work EXCEPT ![t] = Inserts(R)] /\ pc' = [pc EXCEPT ![t] = "lookup"]
        BY <1>6, <2>4 DEF RecordEvent
      <3>2. R \subseteq Row
        BY <2>3 DEF EventOutcome
      <3>3. Inserts(R) \in Work
        BY <3>2, InsertsTypes
      <3>4. pc' \in [Txns -> PC] /\ ReqOK'
        BY <2>1, <2>2, <3>1, Moves DEF PC
      <3>. QED BY <2>1, <3>1, <3>3, <3>4 DEF TypeInv, TypeOK
    <2>5. CASE EventRows(rows, e) # {}
      <3>1. work' = [work EXCEPT ![t] = Inserts(duplicate)] /\ pc' = [pc EXCEPT ![t] = "commit"]
        BY <1>6, <2>5 DEF RecordEvent
      <3>2. RevenueEvent(t, e.payment, "PAYMENT_DUPLICATE", 0) \in Row
        BY <2>2, RowTypes DEF RevenueTypes
      <3>3. duplicate \subseteq Row
        BY <2>3, <3>2 DEF EventOutcome
      <3>4. Inserts(duplicate) \in Work
        BY <3>3, InsertsTypes
      <3>5. pc' \in [Txns -> PC] /\ ReqOK'
        BY <2>1, <3>1, Moves DEF PC
      <3>. QED BY <2>1, <3>1, <3>4, <3>5 DEF TypeInv, TypeOK
    <2>. QED BY <2>4, <2>5
  <1>7. CASE MatchPayment(t)
    <2>. DEFINE e == req[t].event
    <2>1. UNCHANGED <<payment, bill, rows, lock, req, calls>> /\ pc[t] = "lookup"
      BY <1>7 DEF MatchPayment, db
    <2>2. e \in Events /\ p \in Payments /\ req[t] \in CallbackRequest
      BY <2>1, RequestTypes DEF TypeInv, ReqOK
    <2>3. CASE payment[p].ref
      <3>1. ReadPayment(t, p) /\ pc' = [pc EXCEPT ![t] = "apply"] /\ UNCHANGED work
        BY <1>7, <2>3 DEF MatchPayment
      <3>2. pc' \in [Txns -> PC] /\ ReqOK'
        BY <2>1, <2>2, <3>1, Moves DEF PC
      <3>3. inst' \in [Txns -> Instance]
        BY <2>2, <3>1 DEF ReadPayment, Read, TypeInv, TypeOK, Instance, PaymentRow
      <3>. QED BY <2>1, <3>1, <3>2, <3>3 DEF TypeInv, TypeOK
    <2>4. CASE ~payment[p].ref
      <3>. DEFINE R == {NewRow("callback", "UNMATCHED", e, t, 0)}
      <3>1. /\ work' = [work EXCEPT ![t] = Inserts(R)]
            /\ pc' = [pc EXCEPT ![t] = "commit"] /\ UNCHANGED inst
        BY <1>7, <2>4 DEF MatchPayment
      <3>2. R \subseteq Row
        BY <2>2 DEF NewRow, Row, TableRow, EventOutcome
      <3>3. Inserts(R) \in Work
        BY <3>2, InsertsTypes
      <3>4. pc' \in [Txns -> PC] /\ ReqOK'
        BY <2>1, <3>1, Moves DEF PC
      <3>. QED BY <2>1, <3>1, <3>3, <3>4 DEF TypeInv, TypeOK
    <2>. QED BY <2>3, <2>4
  <1>8. CASE ApplyNoop(t)
    <2>. DEFINE w == Writes(NoWrite, FillsReference(t), NoWrite, work[t].rows)
    <2>1. /\ UNCHANGED <<payment, bill, rows, req, inst, calls>>
          /\ work' = [work EXCEPT ![t] = w] /\ pc' = [pc EXCEPT ![t] = "commit"]
          /\ lock' = lock \/ lock' = [lock EXCEPT ![p] = t]
      BY <1>8 DEF ApplyNoop, db
    <2>2. work[t].rows \subseteq Row
      BY DEF TypeInv, TypeOK, Work
    <2>3. w \in Work
      BY <2>2, WritesTypes DEF FillsReference
    <2>4. pc' \in [Txns -> PC] /\ ReqOK'
      BY <2>1, Moves DEF PC
    <2>5. lock' \in [Payments \cup Bills -> Txns \cup {NoTxn}]
      BY <2>1 DEF TypeInv, TypeOK
    <2>. QED BY <2>1, <2>3, <2>4, <2>5 DEF TypeInv, TypeOK
  <1>9. CASE ApplyRaises(t)
    BY <1>9, RollbackTypes DEF ApplyRaises
  <1>10. CASE ApplyWrites(t)
    <2>. DEFINE o == ReportedOutcome(t)
                w == Writes(NewStatus(o), FillsReference(t), NoWrite,
                            work[t].rows \cup OutcomeRows(t, p, o))
    <2>1. /\ UNCHANGED <<payment, bill, rows, req, inst, calls>> /\ pc[t] = "apply"
          /\ work' = [work EXCEPT ![t] = w] /\ pc' = [pc EXCEPT ![t] = AfterOutcome(o)]
          /\ lock' = [lock EXCEPT ![p] = t]
      BY <1>10 DEF ApplyWrites, db
    <2>2. p \in Payments /\ o \in ProviderOutcome /\ req[t] \in QueryRequest \cup CallbackRequest
      BY <2>1, RequestTypes DEF TypeInv, ReqOK
    <2>3. work[t].rows \cup OutcomeRows(t, p, o) \in SUBSET Row
      BY <2>2, OutcomeRowTypes DEF TypeInv, TypeOK, Work
    <2>4. w \in Work
      BY <2>2, <2>3, WritesTypes, OutcomeTypes DEF FillsReference
    <2>5. AfterOutcome(o) \in {"commit", "allocate"}
      BY <2>2, OutcomeTypes
    <2>6. pc' \in [Txns -> PC] /\ ReqOK'
      BY <2>1, <2>2, <2>5, Moves DEF PC
    <2>7. lock' \in [Payments \cup Bills -> Txns \cup {NoTxn}]
      BY <2>1 DEF TypeInv, TypeOK
    <2>. QED BY <2>1, <2>4, <2>6, <2>7 DEF TypeInv, TypeOK
  <1>11. CASE Compensate(t)
    <2>. DEFINE s == IF req[t].op = "refund" THEN "REFUNDED" ELSE "REVERSED"
                w == Writes(s, FALSE, NoWrite, CompensationRows(t, p, req[t].op))
    <2>1. /\ UNCHANGED <<payment, bill, rows, req, inst, calls>> /\ pc[t] = "compensate"
          /\ work' = [work EXCEPT ![t] = w] /\ pc' = [pc EXCEPT ![t] = "commit"]
          /\ lock' = [lock EXCEPT ![p] = t]
      BY <1>11 DEF Compensate, db
    <2>2. p \in Payments
      BY <2>1, RequestTypes
    <2>3. CompensationRows(t, p, req[t].op) \subseteq Row
      BY <2>2, CompensationRowTypes
    <2>4. s \in Status
      BY DEF Status
    <2>5. w \in Work
      BY <2>3, <2>4, WritesTypes
    <2>6. pc' \in [Txns -> PC] /\ ReqOK'
      BY <2>1, Moves DEF PC
    <2>7. lock' \in [Payments \cup Bills -> Txns \cup {NoTxn}]
      BY <2>1 DEF TypeInv, TypeOK
    <2>. QED BY <2>1, <2>5, <2>6, <2>7 DEF TypeInv, TypeOK
  <1>12. CASE AllocateToBill(t)
    <2>. DEFINE b    == BillOf[p]
                mine == work[t].rows \cup {NewRow("allocation", "ALLOCATION", p, t, Amount[p])}
                seen == IF inst[t].bill = NoWrite THEN bill[b] ELSE inst[t].bill
                to   == BillAfterAllocation(seen, b, rows \cup mine)
                now  == IF to = NoWrite THEN seen ELSE to
    <2>1. UNCHANGED <<payment, bill, rows, lock, req, calls>> /\ pc[t] = "allocate"
      BY <1>12 DEF AllocateToBill, db
    <2>2. p \in Payments /\ work[t] \in Work /\ inst[t] \in Instance
      BY <2>1, RequestTypes DEF TypeInv, TypeOK
    <2>3. \A x : SuccessNotice(t, p, x) \in Row
      <3>. TAKE x
      <3>1. CASE x = "PAID"
        BY <2>2, <3>1, RowTypes DEF SuccessNotice, NotificationTypes
      <3>2. CASE x = "PARTIALLY_PAID"
        BY <2>2, <3>2, RowTypes DEF SuccessNotice, NotificationTypes
      <3>3. CASE x \notin {"PAID", "PARTIALLY_PAID"}
        BY <2>2, <3>3, RowTypes DEF SuccessNotice, NotificationTypes
      <3>. QED BY <3>1, <3>2, <3>3
    <2>4. work[t].status \in Status \cup {NoWrite} /\ work[t].ref \in BOOLEAN
          /\ work[t].rows \subseteq Row
      BY <2>2 DEF Work
    <2>5. CASE b = NoBill
      <3>. DEFINE w == Writes(work[t].status, work[t].ref, NoWrite,
                              work[t].rows \cup {SuccessNotice(t, p, NoWrite)})
      <3>1. /\ work' = [work EXCEPT ![t] = w]
            /\ pc' = [pc EXCEPT ![t] = "commit"] /\ UNCHANGED inst
        BY <1>12, <2>5 DEF AllocateToBill
      <3>2. w \in Work
        BY <2>3, <2>4, WritesTypes
      <3>3. pc' \in [Txns -> PC] /\ ReqOK'
        BY <2>1, <3>1, Moves DEF PC
      <3>. QED BY <2>1, <3>1, <3>2, <3>3 DEF TypeInv, TypeOK
    <2>6. CASE b # NoBill
      <3>. DEFINE w == Writes(work[t].status, work[t].ref, to, mine \cup {SuccessNotice(t, p, now)})
                  r == Read(inst[t].status, inst[t].ref, seen)
                  place == IF to = NoWrite THEN "commit" ELSE "billwrite"
      <3>1. /\ work' = [work EXCEPT ![t] = w]
            /\ inst' = [inst EXCEPT ![t] = r]
            /\ pc' = [pc EXCEPT ![t] = place]
        BY <1>12, <2>6 DEF AllocateToBill
      <3>2. b \in Bills /\ Amount[p] \in Int
        BY <2>2, <2>6, ConstantsAssumption
      <3>3. seen \in BillStatus \cup {NoWrite}
        BY <2>2, <3>2 DEF Instance, TypeInv, TypeOK
      <3>4. to \in BillStatus \cup {NoWrite}
        BY <3>3, BillAfterAllocationType
      <3>5. mine \subseteq Row
        BY <2>2, <2>4, <3>2, RowTypes
      <3>6. w \in Work
        BY <2>3, <2>4, <3>4, <3>5, WritesTypes
      <3>7. r \in Instance
        BY <2>2, <3>3 DEF Read, Instance
      <3>8. pc' \in [Txns -> PC] /\ ReqOK'
        <4>1. place \in {"commit", "billwrite"}
          OBVIOUS
        <4>. QED BY <2>1, <3>1, <4>1, Moves DEF PC
      <3>. HIDE DEF w, r
      <3>. QED BY <2>1, <3>1, <3>6, <3>7, <3>8 DEF TypeInv, TypeOK
    <2>. QED BY <2>5, <2>6
  <1>13. CASE WriteBill(t)
    <2>1. /\ UNCHANGED <<payment, bill, rows, req, inst, work, calls>>
          /\ pc' = [pc EXCEPT ![t] = "commit"]
          /\ lock' = [lock EXCEPT ![BillIn(t)] = t]
      BY <1>13 DEF WriteBill, db
    <2>2. pc' \in [Txns -> PC] /\ ReqOK'
      BY <2>1, Moves DEF PC
    <2>3. lock' \in [Payments \cup Bills -> Txns \cup {NoTxn}]
      BY <2>1 DEF TypeInv, TypeOK
    <2>. QED BY <2>1, <2>2, <2>3 DEF TypeInv, TypeOK
  <1>14. CASE Commit(t)
    <2>1. End(t, "committed") /\ UNCHANGED calls
      BY <1>14 DEF Commit
    <2>2. payment' \in [Payments -> PaymentRow]
      <3>1. \A q \in Payments :
              payment'[q] \in [status : Status \cup {Absent}, ref : BOOLEAN]
        BY <1>14 DEF Commit, TypeInv, TypeOK, Work, PaymentRow
      <3>. QED BY <1>14, <3>1 DEF Commit, PaymentRow
    <2>3. bill' \in [Bills -> BillStatus]
      BY <1>14 DEF Commit, TypeInv, TypeOK, Work
    <2>4. rows' \subseteq Row
      BY <1>14 DEF Commit, TypeInv, TypeOK, Work
    <2>. QED BY <2>1, <2>2, <2>3, <2>4, EndTypes DEF TypeInv, TypeOK
  <1>. QED BY <1>1, <1>3, <1>4, <1>5, <1>6, <1>7, <1>8, <1>9, <1>10, <1>11, <1>12, <1>13, <1>14
           DEF Step

(***************************************************************************)
(* The inductive invariant: types, and what a request's place in the code  *)
(* says of what it was asked to do.                                        *)
(***************************************************************************)
THEOREM TypeInvariant == Spec => []TypeInv
  <1>1. Init => TypeInv
    <2>. SUFFICES ASSUME Init PROVE TypeInv
      OBVIOUS
    <2>1. NoRequest \in Request /\ NoInstance \in Instance /\ NoWork \in Work
      BY DEF Request, NoRequest, NoInstance, Read, Instance, NoWork, Inserts, Writes, Work
    <2>2. TypeOK
      BY <2>1 DEF Init, TypeOK, PaymentRow, BillStatus, PC
    <2>3. ReqOK
      BY DEF Init, ReqOK
    <2>. QED BY <2>2, <2>3 DEF TypeInv
  <1>2. TypeInv /\ [Next]_vars => TypeInv'
    <2>. SUFFICES ASSUME TypeInv, [Next]_vars PROVE TypeInv'
      OBVIOUS
    <2>1. CASE UNCHANGED vars
      BY <2>1 DEF vars, TypeInv, TypeOK, ReqOK
    <2>2. ASSUME NEW t \in Txns, Abort(t) PROVE TypeInv'
      BY <2>2, RollbackTypes DEF Abort
    <2>. QED BY <2>1, <2>2, BeginTypes, StepTypes DEF Next, AllEnded
  <1>. QED BY <1>1, <1>2, PTL DEF Spec

(***************************************************************************)
(* Every reachable state is well typed: whatever requests interleave, the  *)
(* statuses, rows and locks that _apply_outcome, _compensate, cancel_bill  *)
(* and process_callback write are those the models declare.                *)
(***************************************************************************)
THEOREM TypeCorrect == Spec => []TypeOK
  <1>1. TypeInv => TypeOK
    BY DEF TypeInv
  <1>. QED BY <1>1, TypeInvariant, PTL

-----------------------------------------------------------------------------
(***************************************************************************)
(* SettledIsBooked, for every number of requests, payments, bills and      *)
(* callbacks, however they overlap.                                        *)
(*                                                                         *)
(* By itself the property is not inductive: a commit publishes what was    *)
(* staged many steps before, on rows that others have changed since.  The  *)
(* strengthening says that what a request has staged is already booked by  *)
(* the rows it staged with it and those committed so far; committed rows   *)
(* are only ever added to, so no other request can undo that.              *)
(***************************************************************************)

SettledStatus == {"SUCCESSFUL", "REFUNDED", "REVERSED"}

StagedBooked(t) ==
  /\ pc[t] = "compensate" => Booked(rows, req[t].payment)
  /\ pc[t] = "allocate" => Charged(rows \cup work[t].rows, req[t].payment)
  /\ pc[t] \in {"commit", "billwrite"} =>
       \A p \in Payments : IsFor(t, p) /\ work[t].status \in SettledStatus
                           => Booked(rows \cup work[t].rows, p)

StagedIsBooked == \A t \in Txns : StagedBooked(t)

BookedInv == SettledIsBooked /\ StagedIsBooked

\* the insert-only tables: what is booked stays booked
LEMMA StaysBooked ==
  ASSUME NEW S, NEW T, S \subseteq T, NEW p
  PROVE  /\ Charged(S, p) => Charged(T, p)
         /\ Booked(S, p) => Booked(T, p)
  BY DEF Charged, Booked, Holds

\* a success charges the fee and finds or makes the receipt
LEMMA SuccessIsCharged ==
  ASSUME NEW t, NEW p
  PROVE  Charged(rows \cup OutcomeRows(t, p, "successful"), p)
  <1>. DEFINE S == rows \cup OutcomeRows(t, p, "successful")
  <1>1. OutcomeRows(t, p, "successful") = SettlementEntries(t, p) \cup FeeRows(t, p)
          \cup Receipt(t, p) \cup {Dispatch(t, p, "payment.successful")}
    BY Zenon DEF OutcomeRows
  <1>2. Holds(S, "revenue", "PAYMENT_SUCCESSFUL", p)
    <2>1. RevenueEvent(t, p, "PAYMENT_SUCCESSFUL", Fee) \in S
      BY <1>1 DEF FeeRows
    <2>. QED BY <2>1 DEF Holds, RevenueEvent, NewRow
  <1>3. Holds(S, "receipt", "RECEIPT", p)
    <2>1. CASE Rows("receipt", "RECEIPT", p) # {}
      BY <2>1 DEF Rows, Holds
    <2>2. CASE Rows("receipt", "RECEIPT", p) = {}
      <3>1. NewRow("receipt", "RECEIPT", p, t, Amount[p]) \in S
        BY <1>1, <2>2 DEF Receipt
      <3>. QED BY <3>1 DEF Holds, NewRow
    <2>. QED BY <2>1, <2>2
  <1>. QED BY <1>2, <1>3 DEF Charged

LEMMA NoWriteNotSettled == NoWrite \notin SettledStatus
  BY ConstantsAssumption DEF SettledStatus, Status

\* only a success stages a settled status before the allocation
LEMMA OutcomeIsSettled ==
  ASSUME NEW o \in ProviderOutcome
  PROVE  o # "successful" => NewStatus(o) \notin SettledStatus
  BY DEF NewStatus, OutcomeToStatus, ProviderOutcome, SettledStatus

LEMMA OtherRequests ==
  ASSUME BookedInv, NEW t \in Txns, rows \subseteq rows',
         \A u \in Txns \ {t} : pc'[u] = pc[u] /\ req'[u] = req[u] /\ work'[u] = work[u],
         StagedBooked(t)'
  PROVE  StagedIsBooked'
  <1>. SUFFICES ASSUME NEW u \in Txns \ {t} PROVE StagedBooked(u)'
    BY DEF StagedIsBooked
  <1>1. StagedBooked(u)
    BY DEF BookedInv, StagedIsBooked
  <1>2. rows \cup work[u].rows \subseteq rows' \cup work'[u].rows
    OBVIOUS
  <1>3. \A p : IsFor(u, p)' <=> IsFor(u, p)
    BY DEF IsFor
  <1>. QED BY <1>1, <1>2, <1>3, StaysBooked DEF StagedBooked

\* a step that publishes nothing
LEMMA Unpublished ==
  ASSUME TypeInv, BookedInv, NEW t \in Txns, UNCHANGED <<payment, rows>>,
         \A u \in Txns \ {t} : pc'[u] = pc[u] /\ req'[u] = req[u] /\ work'[u] = work[u],
         StagedBooked(t)'
  PROVE  BookedInv'
  <1>1. SettledIsBooked'
    BY DEF BookedInv, SettledIsBooked, Settled
  <1>. QED BY <1>1, OtherRequests DEF BookedInv

LEMMA RollbackBooked ==
  ASSUME TypeInv, BookedInv, NEW t \in Txns, Rollback(t)
  PROVE  BookedInv'
  <1>1. /\ UNCHANGED <<payment, rows>>
        /\ \A u \in Txns \ {t} : pc'[u] = pc[u] /\ req'[u] = req[u] /\ work'[u] = work[u]
        /\ pc'[t] = "aborted"
    BY DEF Rollback, End, TypeInv, TypeOK
  <1>2. StagedBooked(t)'
    BY <1>1 DEF StagedBooked
  <1>. QED BY <1>1, <1>2, Unpublished

LEMMA BeginBooked ==
  ASSUME TypeInv, BookedInv, NEW t \in Txns, Begin(t)
  PROVE  BookedInv'
  <1>1. ASSUME NEW p \in Payments, NEW portal \in BOOLEAN, BeginInitiate(t, p, portal)
        PROVE  BookedInv'
    <2>1. /\ UNCHANGED <<payment, rows, work>>
          /\ \A u \in Txns \ {t} : pc'[u] = pc[u] /\ req'[u] = req[u]
          /\ pc'[t] \in {"committed", "insert"}
      <3>1. CASE KeyTaken(p)
        BY <1>1, <3>1 DEF BeginInitiate, db, TypeInv, TypeOK
      <3>2. CASE ~KeyTaken(p)
        BY <1>1, <3>2 DEF BeginInitiate, db, TypeInv, TypeOK
      <3>. QED BY <3>1, <3>2
    <2>2. StagedBooked(t)'
      BY <2>1 DEF StagedBooked
    <2>. QED BY <2>1, <2>2, Unpublished
  <1>2. ASSUME NEW p \in Payments, BeginQuery(t, p)
        PROVE  BookedInv'
    <2>1. /\ UNCHANGED <<payment, rows, work>>
          /\ \A u \in Txns \ {t} : pc'[u] = pc[u] /\ req'[u] = req[u]
          /\ pc'[t] = "apply"
      BY <1>2 DEF BeginQuery, db, TypeInv, TypeOK
    <2>2. StagedBooked(t)'
      BY <2>1 DEF StagedBooked
    <2>. QED BY <2>1, <2>2, Unpublished
  <1>3. ASSUME NEW p \in Payments, NEW op \in {"refund", "reverse"}, BeginCompensation(t, p, op)
        PROVE  BookedInv'
    <2>1. UNCHANGED <<payment, rows, work>>
      BY <1>3 DEF BeginCompensation, db
    <2>2. CASE payment[p].status # "SUCCESSFUL"
      <3>1. /\ \A u \in Txns \ {t} : pc'[u] = pc[u] /\ req'[u] = req[u]
            /\ pc'[t] = "committed"
        BY <1>3, <2>2 DEF BeginCompensation, TypeInv, TypeOK
      <3>2. StagedBooked(t)'
        BY <3>1 DEF StagedBooked
      <3>. QED BY <2>1, <3>1, <3>2, Unpublished
    <2>3. CASE payment[p].status = "SUCCESSFUL"
      <3>1. /\ \A u \in Txns \ {t} : pc'[u] = pc[u] /\ req'[u] = req[u]
            /\ pc'[t] = "compensate" /\ req'[t].payment = p
        BY <1>3, <2>3 DEF BeginCompensation, TypeInv, TypeOK
      <3>2. Booked(rows, p)
        BY <2>3 DEF BookedInv, SettledIsBooked, Settled
      <3>3. StagedBooked(t)'
        BY <2>1, <3>1, <3>2 DEF StagedBooked
      <3>. QED BY <2>1, <3>1, <3>3, Unpublished
    <2>. QED BY <2>2, <2>3
  <1>4. ASSUME NEW e \in Events, NEW verified \in BOOLEAN, BeginCallback(t, e, verified)
        PROVE  BookedInv'
    <2>. DEFINE R == {NewRow("callback", "INVALID_SIGNATURE", e, t, 0)}
    <2>1. /\ UNCHANGED <<payment, rows>>
          /\ \A u \in Txns \ {t} : req'[u] = req[u]
      BY <1>4 DEF BeginCallback, db, TypeInv, TypeOK
    <2>2. \/ UNCHANGED work /\ pc' = [pc EXCEPT ![t] = "event"]
          \/ work' = [work EXCEPT ![t] = Inserts(R)] /\ pc' = [pc EXCEPT ![t] = "commit"]
      BY <1>4 DEF BeginCallback
    <2>3. CASE UNCHANGED work /\ pc' = [pc EXCEPT ![t] = "event"]
      <3>1. \A u \in Txns \ {t} : pc'[u] = pc[u]
        BY <2>3 DEF TypeInv, TypeOK
      <3>2. pc'[t] = "event"
        BY <2>3 DEF TypeInv, TypeOK
      <3>3. StagedBooked(t)'
        BY <3>2 DEF StagedBooked
      <3>. QED BY <2>1, <2>3, <3>1, <3>3, Unpublished
    <2>4. CASE work' = [work EXCEPT ![t] = Inserts(R)] /\ pc' = [pc EXCEPT ![t] = "commit"]
      <3>1. /\ \A u \in Txns \ {t} : pc'[u] = pc[u] /\ work'[u] = work[u]
            /\ pc'[t] = "commit" /\ work'[t] = Inserts(R)
        BY <2>4 DEF TypeInv, TypeOK
      <3>2. work'[t].status = NoWrite
        BY <3>1 DEF Inserts, Writes
      <3>3. StagedBooked(t)'
        BY <3>1, <3>2, NoWriteNotSettled DEF StagedBooked
      <3>. QED BY <2>1, <3>1, <3>3, Unpublished
    <2>. QED BY <2>2, <2>3, <2>4
  <1>5. ASSUME NEW b \in Bills, BeginCancelBill(t, b)
        PROVE  BookedInv'
    <2>1. UNCHANGED <<payment, rows>>
      BY <1>5 DEF BeginCancelBill, db
    <2>2. CASE "CANCELLED" \notin BillTransitions[bill[b]]
      <3>1. /\ \A u \in Txns \ {t} : pc'[u] = pc[u] /\ req'[u] = req[u] /\ work'[u] = work[u]
            /\ pc'[t] = "committed"
        BY <1>5, <2>2 DEF BeginCancelBill, TypeInv, TypeOK
      <3>2. StagedBooked(t)'
        BY <3>1 DEF StagedBooked
      <3>. QED BY <2>1, <3>1, <3>2, Unpublished
    <2>3. CASE "CANCELLED" \in BillTransitions[bill[b]]
      <3>1. /\ \A u \in Txns \ {t} : pc'[u] = pc[u] /\ req'[u] = req[u] /\ work'[u] = work[u]
            /\ pc'[t] = "billwrite" /\ req'[t].op = "cancel"
        <4>1. /\ pc' = [pc EXCEPT ![t] = "billwrite"]
              /\ req' = [req EXCEPT ![t] = [op |-> "cancel", bill |-> b]]
              /\ work' = [work EXCEPT ![t] = Writes(NoWrite, FALSE, "CANCELLED",
                                                    {Dispatch(t, b, "bill.cancelled")})]
          BY <1>5, <2>3 DEF BeginCancelBill
        <4>. QED BY <4>1 DEF TypeInv, TypeOK
      <3>2. StagedBooked(t)'
        BY <3>1 DEF StagedBooked, IsFor
      <3>. QED BY <2>1, <3>1, <3>2, Unpublished
    <2>. QED BY <2>2, <2>3
  <1>. QED BY <1>1, <1>2, <1>3, <1>4, <1>5 DEF Begin

\* a step that leaves request t at place with w staged
LEMMA Stages ==
  ASSUME TypeInv, BookedInv, NEW t \in Txns, UNCHANGED <<payment, rows, req>>,
         NEW place, pc' = [pc EXCEPT ![t] = place],
         NEW w, work' = [work EXCEPT ![t] = w],
         place # "compensate",
         place = "allocate" => Charged(rows \cup w.rows, req[t].payment),
         place \in {"commit", "billwrite"} =>
           \A p \in Payments : IsFor(t, p) /\ w.status \in SettledStatus
                               => Booked(rows \cup w.rows, p)
  PROVE  BookedInv'
  <1>1. /\ \A u \in Txns \ {t} : pc'[u] = pc[u] /\ req'[u] = req[u] /\ work'[u] = work[u]
        /\ pc'[t] = place /\ work'[t] = w
    BY DEF TypeInv, TypeOK
  <1>2. \A p : IsFor(t, p)' <=> IsFor(t, p)
    BY DEF IsFor
  <1>3. StagedBooked(t)'
    BY <1>1, <1>2 DEF StagedBooked
  <1>. QED BY <1>1, <1>3, Unpublished

LEMMA StagesLast ==
  ASSUME TypeInv, BookedInv, NEW t \in Txns, UNCHANGED <<payment, rows, req>>,
         pc' = [pc EXCEPT ![t] = "commit"],
         NEW w, work' = [work EXCEPT ![t] = w],
         \A p \in Payments : IsFor(t, p) /\ w.status \in SettledStatus
                             => Booked(rows \cup w.rows, p)
  PROVE  BookedInv'
  <1>. DEFINE place == "commit"
  <1>1. /\ pc' = [pc EXCEPT ![t] = place]
        /\ place # "compensate" /\ place # "allocate"
    OBVIOUS
  <1>. HIDE DEF place
  <1>. QED BY <1>1, Stages

LEMMA CommitBooked ==
  ASSUME TypeInv, BookedInv, NEW t \in Txns, Commit(t)
  PROVE  BookedInv'
  <1>1. /\ rows' = rows \cup work[t].rows /\ pc[t] = "commit"
        /\ \A p \in Payments :
             payment'[p].status = IF IsFor(t, p) /\ work[t].status # NoWrite
                                  THEN work[t].status ELSE payment[p].status
    BY DEF Commit
  <1>2. ASSUME NEW p \in Payments, Settled(p)'
        PROVE  Booked(rows', p)
    <2>1. payment'[p].status \in SettledStatus
      BY <1>2 DEF Settled, SettledStatus
    <2>2. CASE IsFor(t, p) /\ work[t].status # NoWrite
      <3>1. work[t].status \in SettledStatus
        BY <1>1, <2>1, <2>2
      <3>. QED BY <1>1, <2>2, <3>1 DEF BookedInv, StagedIsBooked, StagedBooked
    <2>3. CASE ~(IsFor(t, p) /\ work[t].status # NoWrite)
      <3>1. Settled(p)
        BY <1>1, <2>1, <2>3 DEF Settled, SettledStatus
      <3>2. Booked(rows, p)
        BY <3>1 DEF BookedInv, SettledIsBooked
      <3>. QED BY <1>1, <3>2, StaysBooked
    <2>. QED BY <2>2, <2>3
  <1>3. SettledIsBooked'
    <2>. SUFFICES ASSUME NEW p \in Payments, Settled(p)' PROVE Booked(rows, p)'
      BY DEF SettledIsBooked
    <2>1. Booked(rows', p)
      BY <1>2
    <2>. QED BY <2>1 DEF Booked, Charged, Holds
  <1>4. /\ \A u \in Txns \ {t} : pc'[u] = pc[u] /\ req'[u] = req[u] /\ work'[u] = work[u]
        /\ pc'[t] = "committed"
    BY DEF Commit, End, TypeInv, TypeOK
  <1>5. StagedBooked(t)'
    BY <1>4 DEF StagedBooked
  <1>. QED BY <1>1, <1>3, <1>4, <1>5, OtherRequests DEF BookedInv

LEMMA StepBooked ==
  ASSUME TypeInv, BookedInv, NEW t \in Txns, Step(t)
  PROVE  BookedInv'
  <1>. DEFINE p == req[t].payment
  <1>1. CASE InsertConflicts(t)
    BY <1>1, RollbackBooked DEF InsertConflicts
  <1>2. CASE InitiateTimesOut(t)
    <2>. DEFINE w == Writes("UNKNOWN", FALSE, NoWrite, {NewRow("mock", "successful", p, t, 0)})
    <2>1. /\ UNCHANGED <<payment, rows, req>>
          /\ work' = [work EXCEPT ![t] = w] /\ pc' = [pc EXCEPT ![t] = "commit"]
      BY <1>2 DEF InitiateTimesOut, CallProvider, db
    <2>2. w.status \notin SettledStatus
      BY DEF Writes, SettledStatus
    <2>. HIDE DEF w
    <2>. QED BY <2>1, <2>2, StagesLast
  <1>3. CASE InitiateFails(t)
    <2>. DEFINE w == Writes("FAILED", FALSE, NoWrite, FailureRows(t, p))
    <2>1. /\ UNCHANGED <<payment, rows, req>>
          /\ work' = [work EXCEPT ![t] = w] /\ pc' = [pc EXCEPT ![t] = "commit"]
      BY <1>3 DEF InitiateFails, CallProvider, db
    <2>2. w.status \notin SettledStatus
      BY DEF Writes, SettledStatus
    <2>. HIDE DEF w
    <2>. QED BY <2>1, <2>2, StagesLast
  <1>4. ASSUME UNCHANGED <<payment, rows, req>>, NEW o \in ProviderOutcome, NEW r,
               NEW before, pc' = [pc EXCEPT ![t] = AfterOutcome(o)],
               work' = [work EXCEPT ![t] = Writes(NewStatus(o), r, NoWrite,
                                                  before \cup OutcomeRows(t, p, o))]
        PROVE  BookedInv'
    <2>. DEFINE w == Writes(NewStatus(o), r, NoWrite, before \cup OutcomeRows(t, p, o))
    <2>1. w.status = NewStatus(o) /\ w.rows = before \cup OutcomeRows(t, p, o)
      BY DEF Writes
    <2>2. CASE o = "successful"
      <3>1. AfterOutcome(o) = "allocate"
        BY <2>2 DEF AfterOutcome
      <3>2. rows \cup OutcomeRows(t, p, o) \subseteq rows \cup w.rows
        BY <2>1
      <3>3. Charged(rows \cup OutcomeRows(t, p, o), p)
        BY <2>2, SuccessIsCharged
      <3>4. Charged(rows \cup w.rows, p)
        BY <3>2, <3>3, StaysBooked
      <3>. QED BY <1>4, <3>1, <3>4, Stages
    <2>3. CASE o # "successful"
      <3>1. AfterOutcome(o) = "commit" /\ w.status \notin SettledStatus
        BY <2>1, <2>3, OutcomeIsSettled DEF AfterOutcome
      <3>. QED BY <1>4, <3>1, Stages
    <2>. QED BY <2>2, <2>3
  <1>5. CASE InitiateAnswered(t)
    <2>1. PICK o \in ProviderOutcome :
            /\ CallProvider(t)
            /\ work' = [work EXCEPT ![t] = Writes(NewStatus(o), TRUE, NoWrite,
                           {NewRow("mock", o, p, t, 0)} \cup OutcomeRows(t, p, o))]
            /\ pc' = [pc EXCEPT ![t] = AfterOutcome(o)]
      BY <1>5 DEF InitiateAnswered
    <2>2. UNCHANGED <<payment, rows, req>>
      BY <2>1 DEF CallProvider, db
    <2>. QED BY <2>1, <2>2, <1>4
  <1>6. ASSUME UNCHANGED <<payment, rows, req>>, NEW r, NEW R,
               NEW place \in {"lookup", "commit"}, pc' = [pc EXCEPT ![t] = place],
               work' = [work EXCEPT ![t] = Writes(NoWrite, r, NoWrite, R)]
        PROVE  BookedInv'
    <2>. DEFINE w == Writes(NoWrite, r, NoWrite, R)
    <2>1. w.status \notin SettledStatus
      BY NoWriteNotSettled DEF Writes
    <2>. QED BY <1>6, <2>1, Stages
  <1>7. CASE RecordEvent(t)
    <2>1. UNCHANGED <<payment, rows, req>>
      BY <1>7 DEF RecordEvent, db
    <2>2. CASE EventRows(rows, req[t].event) = {}
      <3>1. PICK R : work' = [work EXCEPT ![t] = Inserts(R)] /\ pc' = [pc EXCEPT ![t] = "lookup"]
        BY <1>7, <2>2 DEF RecordEvent
      <3>. QED BY <2>1, <3>1, <1>6 DEF Inserts
    <2>3. CASE EventRows(rows, req[t].event) # {}
      <3>1. PICK R : work' = [work EXCEPT ![t] = Inserts(R)] /\ pc' = [pc EXCEPT ![t] = "commit"]
        BY <1>7, <2>3 DEF RecordEvent
      <3>. QED BY <2>1, <3>1, <1>6 DEF Inserts
    <2>. QED BY <2>2, <2>3
  <1>8. CASE MatchPayment(t)
    <2>1. UNCHANGED <<payment, rows, req>>
      BY <1>8 DEF MatchPayment, db
    <2>2. CASE payment[p].ref
      <3>1. UNCHANGED work /\ pc' = [pc EXCEPT ![t] = "apply"]
        BY <1>8, <2>2 DEF MatchPayment
      <3>2. /\ \A u \in Txns \ {t} : pc'[u] = pc[u]
            /\ pc'[t] = "apply"
        BY <3>1 DEF TypeInv, TypeOK
      <3>3. StagedBooked(t)'
        BY <3>2 DEF StagedBooked
      <3>. QED BY <2>1, <3>1, <3>2, <3>3, Unpublished
    <2>3. CASE ~payment[p].ref
      <3>1. PICK R : work' = [work EXCEPT ![t] = Inserts(R)] /\ pc' = [pc EXCEPT ![t] = "commit"]
        BY <1>8, <2>3 DEF MatchPayment
      <3>. QED BY <2>1, <3>1, <1>6 DEF Inserts
    <2>. QED BY <2>2, <2>3
  <1>9. CASE ApplyNoop(t)
    <2>1. /\ UNCHANGED <<payment, rows, req>>
          /\ work' = [work EXCEPT ![t] = Writes(NoWrite, FillsReference(t), NoWrite, work[t].rows)]
          /\ pc' = [pc EXCEPT ![t] = "commit"]
      BY <1>9 DEF ApplyNoop, db
    <2>. QED BY <2>1, <1>6
  <1>10. CASE ApplyRaises(t)
    BY <1>10, RollbackBooked DEF ApplyRaises
  <1>11. CASE ApplyWrites(t)
    <2>. DEFINE o == ReportedOutcome(t)
    <2>1. /\ UNCHANGED <<payment, rows, req>> /\ pc[t] = "apply"
          /\ work' = [work EXCEPT ![t] = Writes(NewStatus(o), FillsReference(t), NoWrite,
                                                work[t].rows \cup OutcomeRows(t, p, o))]
          /\ pc' = [pc EXCEPT ![t] = AfterOutcome(o)]
      BY <1>11 DEF ApplyWrites, db
    <2>2. o \in ProviderOutcome
      BY <2>1, RequestTypes
    <2>. HIDE DEF o
    <2>. QED BY <2>1, <2>2, <1>4
  <1>12. CASE Compensate(t)
    <2>1. UNCHANGED <<payment, rows, req>> /\ pc[t] = "compensate"
      BY <1>12 DEF Compensate, db
    <2>2. PICK w : work' = [work EXCEPT ![t] = w] /\ pc' = [pc EXCEPT ![t] = "commit"]
      BY <1>12 DEF Compensate
    <2>3. Booked(rows, p)
      BY <2>1 DEF BookedInv, StagedIsBooked, StagedBooked
    <2>4. \A q \in Payments : IsFor(t, q) => Booked(rows \cup w.rows, q)
      BY <2>3, StaysBooked DEF IsFor
    <2>. QED BY <2>1, <2>2, <2>4, StagesLast
  <1>13. CASE AllocateToBill(t)
    <2>. DEFINE alloc == NewRow("allocation", "ALLOCATION", p, t, Amount[p])
    <2>1. UNCHANGED <<payment, rows, req>> /\ pc[t] = "allocate"
      BY <1>13 DEF AllocateToBill, db
    <2>2. Charged(rows \cup work[t].rows, p)
      BY <2>1 DEF BookedInv, StagedIsBooked, StagedBooked
    <2>3. CASE BillOf[p] = NoBill
      <3>. DEFINE w == Writes(work[t].status, work[t].ref, NoWrite,
                              work[t].rows \cup {SuccessNotice(t, p, NoWrite)})
      <3>1. work' = [work EXCEPT ![t] = w] /\ pc' = [pc EXCEPT ![t] = "commit"]
        BY <1>13, <2>3 DEF AllocateToBill
      <3>2. rows \cup work[t].rows \subseteq rows \cup w.rows
        BY DEF Writes
      <3>3. Booked(rows \cup w.rows, p)
        BY <2>2, <2>3, <3>2, StaysBooked DEF Booked
      <3>4. \A q \in Payments : IsFor(t, q) => Booked(rows \cup w.rows, q)
        BY <3>3 DEF IsFor
      <3>. HIDE DEF w
      <3>. QED BY <2>1, <3>1, <3>4, StagesLast
    <2>4. CASE BillOf[p] # NoBill
      <3>. DEFINE mine == work[t].rows \cup {alloc}
                  seen == IF inst[t].bill = NoWrite THEN bill[BillOf[p]] ELSE inst[t].bill
                  to   == BillAfterAllocation(seen, BillOf[p], rows \cup mine)
                  now  == IF to = NoWrite THEN seen ELSE to
                  w    == Writes(work[t].status, work[t].ref, to, mine \cup {SuccessNotice(t, p, now)})
                  place == IF to = NoWrite THEN "commit" ELSE "billwrite"
      <3>1. /\ work' = [work EXCEPT ![t] = w]
            /\ pc' = [pc EXCEPT ![t] = place]
        BY <1>13, <2>4 DEF AllocateToBill
      <3>2. rows \cup work[t].rows \subseteq rows \cup w.rows /\ alloc \in rows \cup w.rows
        BY DEF Writes
      <3>3. Holds(rows \cup w.rows, "allocation", "ALLOCATION", p)
        BY <3>2 DEF Holds, NewRow
      <3>4. Booked(rows \cup w.rows, p)
        <4>. HIDE DEF w
        <4>1. Charged(rows \cup w.rows, p)
          BY <2>2, <3>2, StaysBooked
        <4>. QED BY <3>3, <4>1 DEF Booked
      <3>5. \A q \in Payments : IsFor(t, q) => Booked(rows \cup w.rows, q)
        BY <3>4 DEF IsFor
      <3>6. place \in {"commit", "billwrite"}
        OBVIOUS
      <3>. HIDE DEF w, place
      <3>. QED BY <2>1, <3>1, <3>5, <3>6, Stages
    <2>. QED BY <2>3, <2>4
  <1>14. CASE WriteBill(t)
    <2>1. /\ UNCHANGED <<payment, rows, req, work>> /\ pc[t] = "billwrite"
          /\ pc' = [pc EXCEPT ![t] = "commit"]
      BY <1>14 DEF WriteBill, db
    <2>2. work' = [work EXCEPT ![t] = work[t]]
      BY <2>1 DEF TypeInv, TypeOK
    <2>3. \A q \in Payments : IsFor(t, q) /\ work[t].status \in SettledStatus
                              => Booked(rows \cup work[t].rows, q)
      BY <2>1 DEF BookedInv, StagedIsBooked, StagedBooked
    <2>. QED BY <2>1, <2>2, <2>3, StagesLast
  <1>15. CASE Commit(t)
    BY <1>15, CommitBooked
  <1>. QED BY <1>1, <1>2, <1>3, <1>5, <1>7, <1>8, <1>9, <1>10, <1>11, <1>12, <1>13, <1>14, <1>15
           DEF Step

LEMMA BookedInvariant == Spec => []BookedInv
  <1>1. Init => BookedInv
    <2>. SUFFICES ASSUME Init PROVE BookedInv
      OBVIOUS
    <2>1. SettledIsBooked
      BY ConstantsAssumption DEF Init, SettledIsBooked, Settled, Status
    <2>2. StagedIsBooked
      BY DEF Init, StagedIsBooked, StagedBooked
    <2>. QED BY <2>1, <2>2 DEF BookedInv
  <1>2. TypeInv /\ BookedInv /\ [Next]_vars => BookedInv'
    <2>. SUFFICES ASSUME TypeInv, BookedInv, [Next]_vars PROVE BookedInv'
      OBVIOUS
    <2>1. CASE UNCHANGED vars
      <3>1. SettledIsBooked'
        BY <2>1 DEF vars, BookedInv, SettledIsBooked, Settled
      <3>2. StagedIsBooked'
        BY <2>1 DEF vars, BookedInv, StagedIsBooked, StagedBooked, IsFor
      <3>. QED BY <3>1, <3>2 DEF BookedInv
    <2>2. ASSUME NEW t \in Txns, Abort(t) PROVE BookedInv'
      BY <2>2, RollbackBooked DEF Abort
    <2>. QED BY <2>1, <2>2, BeginBooked, StepBooked DEF Next, AllEnded
  <1>. QED BY <1>1, <1>2, TypeInvariant, PTL DEF Spec

(***************************************************************************)
(* A payment whose committed status is SUCCESSFUL, or was before a refund  *)
(* or a reversal, has its fee, its receipt and its allocation committed:   *)
(* _apply_outcome's writes are never seen in part, for any number of       *)
(* overlapping callbacks, queries, refunds, crashes and retries.           *)
(***************************************************************************)
THEOREM SettledPaymentsAreBooked == Spec => []SettledIsBooked
  <1>1. BookedInv => SettledIsBooked
    BY DEF BookedInv
  <1>. QED BY <1>1, BookedInvariant, PTL

-----------------------------------------------------------------------------
(***************************************************************************)
(* What a request has read and staged, by its place in the code.  These    *)
(* are operators on the values of one request, so that a step of another   *)
(* request cannot touch them.                                              *)
(***************************************************************************)
Ended == {"idle", "committed", "aborted"}

BookTables == {"ledger", "revenue", "allocation", "receipt"}

\* q asks for payment p
ForPayment(q, p) == q.op \notin {"cancel", "none"} /\ q.payment = p

\* the bill that request q reads and writes
BillFor(q) == IF q.op = "cancel" THEN q.bill ELSE BillOf[q.payment]

\* nothing is staged before the first decision
Early(t, place, q, i, w) ==
  /\ place \in Ended => q = NoRequest /\ i = NoInstance /\ w = NoWork
  /\ place \in {"insert", "event", "compensate"} => w = NoWork
  /\ place = "lookup" => w = Inserts({NewRow("callback", "PROCESSED", q.event, t, 0)})
  /\ place = "apply" => /\ w.status = NoWrite /\ w.bill = NoWrite /\ ~w.ref
                        /\ \A r \in w.rows : r.table = "callback"

\* a request stages rows of its own payment and of its own event, one for the event
OwnRows(t, q, S) ==
  /\ IsFiniteSet(S)
  /\ \A r \in S : /\ r.by = t
                  /\ r.table \in BookTables => ForPayment(q, r.of)
                  /\ r.table = "callback" => q.op = "callback" /\ r.of = q.event
                  /\ r.table = "allocation" => r.amt = Amount[r.of]
  /\ \A r, s \in S : r.table = s.table /\ r.table \in {"callback", "receipt"} => r = s

\* the books of p that S holds: all of them if done, none otherwise
WholeBooks(S, p, done) ==
  /\ Holds(S, "ledger", "PAYMENT_RECEIVED", p) <=> done
  /\ Holds(S, "ledger", "INSTITUTION_ENTITLEMENT", p) <=> done
  /\ Holds(S, "ledger", "PLATFORM_PAYMENT_FEE", p) <=> done
  /\ Holds(S, "revenue", "PAYMENT_SUCCESSFUL", p) <=> done
  /\ Holds(S, "receipt", "RECEIPT", p) => done

\* a success, and nothing else, stages the books; the allocation comes last
StagedBooks(place, q, w) ==
  \A p \in Payments : ForPayment(q, p) =>
    /\ WholeBooks(w.rows, p, w.status = "SUCCESSFUL")
    /\ Holds(w.rows, "allocation", "ALLOCATION", p)
         <=> (w.status = "SUCCESSFUL" /\ place # "allocate" /\ BillOf[p] # NoBill)

Revenue(S) == {r \in S : r.table = "revenue"}

\* the revenue staged is what the new status is charged
StagedRevenue(w) ==
  \/ Revenue(w.rows) = {} /\ Lifecycle!Charge(w.status) = 0
  \/ \E x \in w.rows : Revenue(w.rows) = {x} /\ x.amt = Lifecycle!Charge(w.status)

\* the status staged is a legal move from the status read
LegalMove(place, q, i, w) ==
  /\ place \in {"apply", "compensate"} => i.status \in Status
  /\ place = "compensate" => i.status = "SUCCESSFUL"
  /\ place = "allocate" => w.status = "SUCCESSFUL"
  /\ q.op = "initiate" => i.status = "INITIATED"
  /\ q.op = "cancel" => w.status = NoWrite
  /\ w.status # NoWrite => i.status \in Status /\ w.status \in AllowedTransitions[i.status]
  /\ w.ref => i.status \in Status /\ (q.op = "initiate" => w.status # NoWrite)

\* a bill is written, and allocated to, only by a request that has read it
StagedBill(place, q, i, w) ==
  /\ w.bill # NoWrite \/ place = "billwrite" => i.bill # NoWrite
  /\ (\E r \in w.rows : r.table = "allocation") => i.bill # NoWrite
  /\ i.bill # NoWrite => BillFor(q) \in Bills

Prepared(t, place, q, i, w) ==
  /\ Early(t, place, q, i, w)
  /\ OwnRows(t, q, w.rows)
  /\ StagedBooks(place, q, w)
  /\ StagedRevenue(w)
  /\ LegalMove(place, q, i, w)
  /\ StagedBill(place, q, i, w)

PreparedInv == \A t \in Txns : Prepared(t, pc[t], req[t], inst[t], work[t])

Others(t) ==
  \A u \in Txns \ {t} : pc'[u] = pc[u] /\ req'[u] = req[u] /\ inst'[u] = inst[u] /\ work'[u] = work[u]

LEMMA Becomes ==
  ASSUME PreparedInv, NEW t \in Txns, Others(t),
         NEW place, NEW q, NEW i, NEW w,
         pc'[t] = place, req'[t] = q, inst'[t] = i, work'[t] = w,
         Prepared(t, place, q, i, w)
  PROVE  PreparedInv'
  <1>. SUFFICES ASSUME NEW u \in Txns
                PROVE  Prepared(u, pc'[u], req'[u], inst'[u], work'[u])
    BY DEF PreparedInv
  <1>1. CASE u = t
    BY <1>1
  <1>2. CASE u # t
    BY <1>2 DEF PreparedInv, Others
  <1>. QED BY <1>1, <1>2

LEMMA Charges ==
  /\ Lifecycle!Charge("SUCCESSFUL") = Fee
  /\ \A s : s \notin {"SUCCESSFUL", "REFUNDED", "REVERSED"} => Lifecycle!Charge(s) = 0
  /\ \A s \in {"REFUNDED", "REVERSED"} : Lifecycle!Charge(s) = IF Clawback THEN -Fee ELSE 0
  /\ Lifecycle!Charge(NoWrite) = 0
  <1>1. /\ Lifecycle!Charge("SUCCESSFUL") = Fee
        /\ \A s : s \notin {"SUCCESSFUL", "REFUNDED", "REVERSED"} => Lifecycle!Charge(s) = 0
        /\ \A s \in {"REFUNDED", "REVERSED"} : Lifecycle!Charge(s) = IF Clawback THEN -Fee ELSE 0
    BY DEF Lifecycle!Charge
  <1>2. NoWrite \notin {"SUCCESSFUL", "REFUNDED", "REVERSED"}
    BY ConstantsAssumption DEF Status
  <1>. QED BY <1>1, <1>2

\* a request that has begun and staged nothing
LEMMA FreshPrepared ==
  ASSUME NEW t \in Txns, NEW place \in PC \ {"lookup", "billwrite", "allocate"}, NEW q, NEW i,
         place \in Ended => q = NoRequest /\ i = NoInstance,
         place \in {"apply", "compensate"} => i.status \in Status,
         place = "compensate" => i.status = "SUCCESSFUL",
         q.op = "initiate" => i.status = "INITIATED",
         i.bill # NoWrite => BillFor(q) \in Bills
  PROVE  Prepared(t, place, q, i, NoWork)
  <1>1. /\ NoWork.status = NoWrite /\ NoWork.bill = NoWrite /\ ~NoWork.ref /\ NoWork.rows = {}
    BY DEF NoWork, Inserts, Writes
  <1>. DEFINE w == NoWork
  <1>. HIDE DEF w
  <1>2. Early(t, place, q, i, NoWork)
    BY <1>1 DEF Early
  <1>3. OwnRows(t, q, NoWork.rows)
    BY <1>1, FS_EmptySet DEF OwnRows
  <1>4. StagedBooks(place, q, NoWork)
    <2>1. NoWrite # "SUCCESSFUL"
      BY ConstantsAssumption DEF Status
    <2>. QED BY <1>1, <2>1 DEF StagedBooks, WholeBooks, Holds
  <1>5. StagedRevenue(NoWork)
    BY <1>1, Charges DEF StagedRevenue, Revenue
  <1>6. LegalMove(place, q, i, NoWork)
    BY <1>1 DEF LegalMove
  <1>7. StagedBill(place, q, i, NoWork)
    BY <1>1 DEF StagedBill
  <1>. QED BY <1>2, <1>3, <1>4, <1>5, <1>6, <1>7 DEF Prepared

LEMMA EndedPrepared ==
  ASSUME NEW t \in Txns, NEW place \in Ended
  PROVE  Prepared(t, place, NoRequest, NoInstance, NoWork)
  <1>1. NoRequest.op = "none" /\ NoInstance.bill = NoWrite
    BY DEF NoRequest, NoInstance, Read
  <1>. QED BY <1>1, FreshPrepared DEF Ended, PC

\* nothing but, at most, a revenue event of no amount
NoBooks(R) ==
  /\ \A r \in R : r.table \notin {"ledger", "allocation", "receipt"}
  /\ \A r \in R : r.table = "revenue" => r.type # "PAYMENT_SUCCESSFUL" /\ r.amt = 0
  /\ \A r, x \in R : r.table = "revenue" /\ x.table = "revenue" => r = x

\* a request that stages no success: no books, no revenue
LEMMA QuietPrepared ==
  ASSUME NEW t \in Txns, NEW q, NEW i, NEW s, NEW f \in BOOLEAN, NEW R, OwnRows(t, q, R),
         NoBooks(R),
         s \notin {"SUCCESSFUL", "REFUNDED", "REVERSED"},
         s # NoWrite => i.status \in Status /\ s \in AllowedTransitions[i.status],
         f => i.status \in Status /\ (q.op = "initiate" => s # NoWrite),
         q.op = "initiate" => i.status = "INITIATED",
         q.op = "cancel" => s = NoWrite,
         i.bill # NoWrite => BillFor(q) \in Bills
  PROVE  Prepared(t, "commit", q, i, Writes(s, f, NoWrite, R))
  <1>. DEFINE w == Writes(s, f, NoWrite, R)
  <1>1. w.status = s /\ w.ref = f /\ w.bill = NoWrite /\ w.rows = R
    BY DEF Writes
  <1>. HIDE DEF w
  <1>2. Early(t, "commit", q, i, w)
    BY DEF Early, Ended
  <1>3. OwnRows(t, q, w.rows)
    BY <1>1
  <1>4. StagedBooks("commit", q, w)
    BY <1>1 DEF StagedBooks, WholeBooks, Holds, NoBooks
  <1>5. StagedRevenue(w)
    <2>1. Lifecycle!Charge(s) = 0
      BY Charges
    <2>2. CASE Revenue(R) = {}
      BY <1>1, <2>1, <2>2 DEF StagedRevenue
    <2>3. CASE Revenue(R) # {}
      <3>1. PICK x \in R : x.table = "revenue"
        BY <2>3 DEF Revenue
      <3>2. Revenue(R) = {x} /\ x.amt = 0
        BY <3>1 DEF Revenue, NoBooks
      <3>. QED BY <1>1, <2>1, <3>2 DEF StagedRevenue
    <2>. QED BY <2>2, <2>3
  <1>6. LegalMove("commit", q, i, w)
    BY <1>1 DEF LegalMove
  <1>7. StagedBill("commit", q, i, w)
    BY <1>1 DEF StagedBill, NoBooks
  <1>8. Prepared(t, "commit", q, i, w)
    BY <1>2, <1>3, <1>4, <1>5, <1>6, <1>7 DEF Prepared
  <1>. QED BY <1>8 DEF w

LEMMA SmallSets ==
  /\ \A a : IsFiniteSet({a})
  /\ \A a, b : IsFiniteSet({a, b})
  /\ \A a, b, c : IsFiniteSet({a, b, c})
  <1>1. \A a : IsFiniteSet({a})
    BY FS_Singleton
  <1>2. \A a, b : IsFiniteSet({a, b})
    <2>. TAKE a, b
    <2>1. {a, b} = {a} \cup {b}
      OBVIOUS
    <2>2. IsFiniteSet({a} \cup {b})
      BY <1>1, FS_Union
    <2>. QED BY <2>1, <2>2, Zenon
  <1>3. \A a, b, c : IsFiniteSet({a, b, c})
    <2>. TAKE a, b, c
    <2>1. {a, b, c} = {a, b} \cup {c}
      OBVIOUS
    <2>2. IsFiniteSet({a, b} \cup {c})
      BY <1>1, <1>2, FS_Union
    <2>. QED BY <2>1, <2>2, Zenon
  <1>. QED BY <1>1, <1>2, <1>3

\* what FailureRows and OutcomeRows insert
LEMMA FailureRowsAre ==
  ASSUME NEW t, NEW p
  PROVE  /\ IsFiniteSet(FailureRows(t, p))
         /\ \A r \in FailureRows(t, p) :
              /\ r.by = t /\ r.of = p /\ r.table \in {"revenue", "notification"}
              /\ r.table = "revenue" => r = RevenueEvent(t, p, "PAYMENT_FAILED", 0)
  <1>1. IsFiniteSet(FailureRows(t, p))
    BY SmallSets, Zenon DEF FailureRows
  <1>. QED BY <1>1 DEF FailureRows, RevenueEvent, Notify, NewRow

LEMMA OutcomeRowsAre ==
  ASSUME NEW t, NEW p, NEW o \in ProviderOutcome \ {"successful"}
  PROVE  /\ IsFiniteSet(OutcomeRows(t, p, o))
         /\ \A r \in OutcomeRows(t, p, o) :
              /\ r.by = t /\ r.of = p /\ r.table \in {"revenue", "notification", "webhook"}
              /\ r.table = "revenue" => r = RevenueEvent(t, p, "PAYMENT_FAILED", 0)
  <1>1. CASE o = "failed"
    <2>. DEFINE d == Dispatch(t, p, "payment.failed")
    <2>1. OutcomeRows(t, p, o) = FailureRows(t, p) \cup {d}
      BY <1>1, Zenon DEF OutcomeRows
    <2>2. d.by = t /\ d.of = p /\ d.table = "webhook"
      BY DEF Dispatch, NewRow
    <2>. HIDE DEF d
    <2>3. IsFiniteSet(FailureRows(t, p) \cup {d})
      BY FailureRowsAre, FS_AddElement
    <2>. QED BY <2>1, <2>2, <2>3, FailureRowsAre
  <1>2. CASE o = "pending"
    <2>1. OutcomeRows(t, p, o) = {Notify(t, p, "payment_pending"), Dispatch(t, p, "payment.pending")}
      BY <1>2, Zenon DEF OutcomeRows
    <2>2. IsFiniteSet(OutcomeRows(t, p, o))
      BY <2>1, SmallSets, Zenon
    <2>. QED BY <2>1, <2>2 DEF Notify, Dispatch, NewRow
  <1>3. CASE o = "unknown"
    <2>1. OutcomeRows(t, p, o) = {}
      BY <1>3, Zenon DEF OutcomeRows
    <2>. QED BY <2>1, FS_EmptySet
  <1>. QED BY <1>1, <1>2, <1>3 DEF ProviderOutcome

LEMMA SuccessRowsAre ==
  ASSUME NEW t, NEW p
  PROVE  LET R == OutcomeRows(t, p, "successful") IN
         /\ IsFiniteSet(R)
         /\ LedgerEntry(t, p, "PAYMENT_RECEIVED", Amount[p]) \in R
         /\ LedgerEntry(t, p, "INSTITUTION_ENTITLEMENT", Amount[p]) \in R
         /\ LedgerEntry(t, p, "PLATFORM_PAYMENT_FEE", Fee) \in R
         /\ RevenueEvent(t, p, "PAYMENT_SUCCESSFUL", Fee) \in R
         /\ \A r \in R :
              /\ r.by = t /\ r.of = p /\ r.table \in {"ledger", "revenue", "receipt", "webhook"}
              /\ r.table = "revenue" => r = RevenueEvent(t, p, "PAYMENT_SUCCESSFUL", Fee)
              /\ r.table = "receipt" => /\ r = NewRow("receipt", "RECEIPT", p, t, Amount[p])
                                        /\ Rows("receipt", "RECEIPT", p) = {}
  <1>. DEFINE d == Dispatch(t, p, "payment.successful")
              F == FeeRows(t, p)
              S == SettlementEntries(t, p)
              R == OutcomeRows(t, p, "successful")
  <1>1. R = S \cup F \cup Receipt(t, p) \cup {d}
    BY Zenon DEF OutcomeRows
  <1>2. /\ IsFiniteSet(S) /\ IsFiniteSet(F)
        /\ LedgerEntry(t, p, "PAYMENT_RECEIVED", Amount[p]) \in S
        /\ LedgerEntry(t, p, "INSTITUTION_ENTITLEMENT", Amount[p]) \in S
        /\ LedgerEntry(t, p, "PLATFORM_PAYMENT_FEE", Fee) \in F
        /\ RevenueEvent(t, p, "PAYMENT_SUCCESSFUL", Fee) \in F
    BY SmallSets DEF SettlementEntries, FeeRows
  <1>3. /\ \A r \in S : r.by = t /\ r.of = p /\ r.table = "ledger"
        /\ \A r \in F : /\ r.by = t /\ r.of = p /\ r.table \in {"ledger", "revenue"}
                        /\ r.table = "revenue" => r = RevenueEvent(t, p, "PAYMENT_SUCCESSFUL", Fee)
    BY DEF SettlementEntries, FeeRows, LedgerEntry, RevenueEvent, NewRow
  <1>4. /\ IsFiniteSet(Receipt(t, p))
        /\ \A r \in Receipt(t, p) : /\ r = NewRow("receipt", "RECEIPT", p, t, Amount[p])
                                    /\ r.by = t /\ r.of = p /\ r.table = "receipt"
                                    /\ Rows("receipt", "RECEIPT", p) = {}
    <2>1. CASE Rows("receipt", "RECEIPT", p) = {}
      <3>1. Receipt(t, p) = {NewRow("receipt", "RECEIPT", p, t, Amount[p])}
        BY <2>1 DEF Receipt
      <3>2. IsFiniteSet(Receipt(t, p))
        BY <3>1, SmallSets, Zenon
      <3>. QED BY <2>1, <3>1, <3>2 DEF NewRow
    <2>2. CASE Rows("receipt", "RECEIPT", p) # {}
      BY <2>2, FS_EmptySet DEF Receipt
    <2>. QED BY <2>1, <2>2
  <1>5. d.by = t /\ d.of = p /\ d.table = "webhook" /\ IsFiniteSet({d})
    BY SmallSets DEF Dispatch, NewRow
  <1>. HIDE DEF d, S, F, R
  <1>6. IsFiniteSet(R)
    BY <1>1, <1>2, <1>4, <1>5, FS_Union
  <1>7. \A r \in R :
              /\ r.by = t /\ r.of = p /\ r.table \in {"ledger", "revenue", "receipt", "webhook"}
              /\ r.table = "revenue" => r = RevenueEvent(t, p, "PAYMENT_SUCCESSFUL", Fee)
              /\ r.table = "receipt" => /\ r = NewRow("receipt", "RECEIPT", p, t, Amount[p])
                                        /\ Rows("receipt", "RECEIPT", p) = {}
    BY <1>1, <1>3, <1>4, <1>5
  <1>. QED BY <1>1, <1>2, <1>6, <1>7 DEF R

\* _apply_outcome books a success; the allocation is still to come
LEMMA SuccessPrepared ==
  ASSUME NEW t \in Txns, NEW p \in Payments, NEW q, NEW i, NEW f \in BOOLEAN, NEW X,
         ForPayment(q, p), OwnRows(t, q, X),
         \A r \in X : r.table \in {"callback", "mock"},
         i.status \in Status, "SUCCESSFUL" \in AllowedTransitions[i.status],
         q.op = "initiate" => i.status = "INITIATED",
         i.bill # NoWrite => BillFor(q) \in Bills
  PROVE  Prepared(t, "allocate", q, i,
                  Writes("SUCCESSFUL", f, NoWrite, X \cup OutcomeRows(t, p, "successful")))
  <1>. DEFINE R == OutcomeRows(t, p, "successful")
              w == Writes("SUCCESSFUL", f, NoWrite, X \cup R)
  <1>1. /\ IsFiniteSet(R)
        /\ LedgerEntry(t, p, "PAYMENT_RECEIVED", Amount[p]) \in R
        /\ LedgerEntry(t, p, "INSTITUTION_ENTITLEMENT", Amount[p]) \in R
        /\ LedgerEntry(t, p, "PLATFORM_PAYMENT_FEE", Fee) \in R
        /\ RevenueEvent(t, p, "PAYMENT_SUCCESSFUL", Fee) \in R
        /\ \A r \in R :
              /\ r.by = t /\ r.of = p /\ r.table \in {"ledger", "revenue", "receipt", "webhook"}
              /\ r.table = "revenue" => r = RevenueEvent(t, p, "PAYMENT_SUCCESSFUL", Fee)
              /\ r.table = "receipt" => /\ r = NewRow("receipt", "RECEIPT", p, t, Amount[p])
                                        /\ Rows("receipt", "RECEIPT", p) = {}
    BY SuccessRowsAre
  <1>. HIDE DEF R
  <1>2. w.status = "SUCCESSFUL" /\ w.ref = f /\ w.bill = NoWrite /\ w.rows = X \cup R
    BY DEF Writes
  <1>. HIDE DEF w
  <1>3. Early(t, "allocate", q, i, w)
    BY DEF Early, Ended
  <1>4. OwnRows(t, q, X \cup R)
    <2>1. IsFiniteSet(X \cup R)
      BY <1>1, FS_Union DEF OwnRows
    <2>. QED BY <1>1, <2>1 DEF OwnRows
  <1>5. StagedBooks("allocate", q, w)
    <2>. SUFFICES ASSUME NEW x \in Payments, ForPayment(q, x)
                  PROVE  /\ WholeBooks(X \cup R, x, TRUE)
                         /\ ~Holds(X \cup R, "allocation", "ALLOCATION", x)
      BY <1>2 DEF StagedBooks, WholeBooks
    <2>1. x = p
      BY DEF ForPayment
    <2>2. WholeBooks(X \cup R, x, TRUE)
      BY <1>1, <2>1 DEF WholeBooks, Holds, LedgerEntry, RevenueEvent, NewRow
    <2>3. ~Holds(X \cup R, "allocation", "ALLOCATION", x)
      BY <1>1 DEF Holds
    <2>. QED BY <2>2, <2>3
  <1>6. StagedRevenue(w)
    <2>. DEFINE x == RevenueEvent(t, p, "PAYMENT_SUCCESSFUL", Fee)
    <2>1. x.table = "revenue" /\ x.amt = Fee
      BY DEF RevenueEvent, NewRow
    <2>2. x \in R /\ \A r \in R : r.table = "revenue" => r = x
      BY <1>1
    <2>. HIDE DEF x
    <2>3. Revenue(X \cup R) = {x}
      BY <2>1, <2>2 DEF Revenue
    <2>. QED BY <1>2, <2>1, <2>2, <2>3, Charges DEF StagedRevenue
  <1>7. LegalMove("allocate", q, i, w)
    <2>1. "SUCCESSFUL" # NoWrite
      BY ConstantsAssumption DEF Status
    <2>. QED BY <1>2, <2>1 DEF LegalMove, ForPayment
  <1>8. StagedBill("allocate", q, i, w)
    <2>1. w.bill = NoWrite /\ ~\E r \in w.rows : r.table = "allocation"
      BY <1>1, <1>2
    <2>. QED BY <2>1 DEF StagedBill
  <1>9. Prepared(t, "allocate", q, i, w)
    BY <1>2, <1>3, <1>4, <1>5, <1>6, <1>7, <1>8 DEF Prepared
  <1>. QED BY <1>9 DEF w, R

\* _apply_outcome with any other outcome
LEMMA OtherOutcomePrepared ==
  ASSUME NEW t \in Txns, NEW p \in Payments, NEW q, NEW i, NEW f \in BOOLEAN, NEW X,
         NEW o \in ProviderOutcome \ {"successful"},
         ForPayment(q, p), OwnRows(t, q, X),
         \A r \in X : r.table \in {"callback", "mock"},
         i.status \in Status, NewStatus(o) \in AllowedTransitions[i.status],
         q.op = "initiate" => i.status = "INITIATED",
         i.bill # NoWrite => BillFor(q) \in Bills
  PROVE  Prepared(t, "commit", q, i,
                  Writes(NewStatus(o), f, NoWrite, X \cup OutcomeRows(t, p, o)))
  <1>. DEFINE R == OutcomeRows(t, p, o)
              x == RevenueEvent(t, p, "PAYMENT_FAILED", 0)
              s == NewStatus(o)
  <1>1. /\ IsFiniteSet(R)
        /\ \A r \in R : /\ r.by = t /\ r.of = p /\ r.table \in {"revenue", "notification", "webhook"}
                        /\ r.table = "revenue" => r = x
    BY OutcomeRowsAre
  <1>2. x.type = "PAYMENT_FAILED" /\ x.amt = 0
    BY DEF RevenueEvent, NewRow
  <1>3. s \notin SettledStatus /\ s \in Status
    BY OutcomeIsSettled, OutcomeTypes
  <1>4. s # NoWrite /\ q.op # "cancel"
    BY <1>3, ConstantsAssumption DEF ForPayment
  <1>. HIDE DEF R, x, s
  <1>5. OwnRows(t, q, X \cup R)
    <2>1. IsFiniteSet(X \cup R)
      BY <1>1, FS_Union DEF OwnRows
    <2>. QED BY <1>1, <2>1 DEF OwnRows
  <1>6. NoBooks(X \cup R)
    BY <1>1, <1>2 DEF NoBooks
  <1>7. i.status \in Status /\ s \in AllowedTransitions[i.status]
    BY DEF s
  <1>8. Prepared(t, "commit", q, i, Writes(s, f, NoWrite, X \cup R))
    BY <1>3, <1>4, <1>5, <1>6, <1>7, QuietPrepared DEF SettledStatus
  <1>. QED BY <1>8 DEF R, s

LEMMA AppliedPrepared ==
  ASSUME NEW t \in Txns, NEW p \in Payments, NEW q, NEW i, NEW f \in BOOLEAN, NEW X,
         NEW o \in ProviderOutcome,
         ForPayment(q, p), OwnRows(t, q, X),
         \A r \in X : r.table \in {"callback", "mock"},
         i.status \in Status, NewStatus(o) \in AllowedTransitions[i.status],
         q.op = "initiate" => i.status = "INITIATED",
         i.bill # NoWrite => BillFor(q) \in Bills
  PROVE  Prepared(t, AfterOutcome(o), q, i,
                  Writes(NewStatus(o), f, NoWrite, X \cup OutcomeRows(t, p, o)))
  <1>1. CASE o = "successful"
    <2>1. NewStatus("successful") = "SUCCESSFUL" /\ AfterOutcome("successful") = "allocate"
      BY DEF NewStatus, OutcomeToStatus, ProviderOutcome, AfterOutcome
    <2>2. "SUCCESSFUL" \in AllowedTransitions[i.status]
      BY <1>1, <2>1
    <2>3. Prepared(t, "allocate", q, i,
                   Writes("SUCCESSFUL", f, NoWrite, X \cup OutcomeRows(t, p, "successful")))
      BY <2>2, SuccessPrepared
    <2>. QED BY <1>1, <2>1, <2>3
  <1>2. CASE o # "successful"
    <2>1. AfterOutcome(o) = "commit"
      BY <1>2 DEF AfterOutcome
    <2>2. o \in ProviderOutcome \ {"successful"}
      BY <1>2
    <2>3. Prepared(t, "commit", q, i,
                   Writes(NewStatus(o), f, NoWrite, X \cup OutcomeRows(t, p, o)))
      BY <2>2, OtherOutcomePrepared
    <2>. QED BY <2>1, <2>3
  <1>. QED BY <1>1, <1>2

\* a refund or a reversal of a payment that has been booked
LEMMA CompensationPrepared ==
  ASSUME NEW t \in Txns, NEW p \in Payments, NEW op \in {"refund", "reverse"}, NEW q, NEW i,
         q.op = op, q.payment = p, Booked(rows, p),
         i.status = "SUCCESSFUL", i.bill # NoWrite => BillFor(q) \in Bills
  PROVE  Prepared(t, "commit", q, i,
                  Writes(IF op = "refund" THEN "REFUNDED" ELSE "REVERSED", FALSE, NoWrite,
                         CompensationRows(t, p, op)))
  <1>. DEFINE R == CompensationRows(t, p, op)
              s == IF op = "refund" THEN "REFUNDED" ELSE "REVERSED"
              event == IF op = "refund" THEN "PAYMENT_REFUNDED" ELSE "PAYMENT_REVERSED"
              entry == IF op = "refund" THEN "REFUND" ELSE "REVERSAL"
              hook  == IF op = "refund" THEN "payment.refunded" ELSE "payment.reversed"
              notice == IF op = "refund" THEN "payment_refunded" ELSE "payment_reversed"
              x == RevenueEvent(t, p, event, IF Clawback THEN -Fee ELSE 0)
              n == Notify(t, p, notice)
              d == Dispatch(t, p, hook)
              e == LedgerEntry(t, p, entry, -Fee)
              w == Writes(s, FALSE, NoWrite, R)
  <1>1. Rows("revenue", "PAYMENT_SUCCESSFUL", p) # {}
    BY DEF Booked, Charged, Holds, Rows
  <1>2. R = {x, n, d} \cup (IF Clawback THEN {e} ELSE {})
    BY <1>1 DEF CompensationRows
  <1>3. /\ x.by = t /\ x.of = p /\ x.table = "revenue" /\ x.type # "PAYMENT_SUCCESSFUL"
        /\ x.amt = IF Clawback THEN -Fee ELSE 0
        /\ n.by = t /\ n.of = p /\ n.table = "notification"
        /\ d.by = t /\ d.of = p /\ d.table = "webhook"
        /\ e.by = t /\ e.of = p /\ e.table = "ledger" /\ e.type \in {"REFUND", "REVERSAL"}
    BY DEF RevenueEvent, Notify, Dispatch, LedgerEntry, NewRow
  <1>4. s \in {"REFUNDED", "REVERSED"}
    OBVIOUS
  <1>5. w.status = s /\ w.ref = FALSE /\ w.bill = NoWrite /\ w.rows = R
    BY DEF Writes
  <1>. HIDE DEF R, s, x, n, d, e, w
  <1>6. /\ x \in R
        /\ \A r \in R : /\ r.by = t /\ r.of = p
                        /\ r.table \in {"ledger", "revenue", "notification", "webhook"}
                        /\ r.table = "revenue" => r = x
                        /\ r.table = "ledger" => r.type \in {"REFUND", "REVERSAL"}
    BY <1>2, <1>3
  <1>7. IsFiniteSet(R)
    <2>1. IsFiniteSet({x, n, d})
      BY SmallSets, Zenon
    <2>2. IsFiniteSet(IF Clawback THEN {e} ELSE {})
      BY SmallSets, FS_EmptySet, Zenon
    <2>3. IsFiniteSet({x, n, d} \cup (IF Clawback THEN {e} ELSE {}))
      BY <2>1, <2>2, FS_Union
    <2>. QED BY <1>2, <2>3, Zenon
  <1>8. ForPayment(q, p)
    BY DEF ForPayment
  <1>9. Early(t, "commit", q, i, w)
    BY DEF Early, Ended
  <1>10. OwnRows(t, q, R)
    BY <1>6, <1>7, <1>8 DEF OwnRows
  <1>11. StagedBooks("commit", q, w)
    BY <1>4, <1>5, <1>3, <1>6 DEF StagedBooks, WholeBooks, Holds
  <1>12. StagedRevenue(w)
    <2>1. Revenue(R) = {x}
      BY <1>3, <1>6 DEF Revenue
    <2>. QED BY <1>3, <1>4, <1>5, <1>6, <2>1, Charges DEF StagedRevenue
  <1>13. LegalMove("commit", q, i, w)
    <2>1. s \in AllowedTransitions[i.status] /\ i.status \in Status
      BY <1>4 DEF AllowedTransitions, Status
    <2>. QED BY <1>5, <2>1 DEF LegalMove
  <1>14. StagedBill("commit", q, i, w)
    <2>1. w.bill = NoWrite /\ ~\E r \in w.rows : r.table = "allocation"
      BY <1>5, <1>6
    <2>. QED BY <2>1 DEF StagedBill
  <1>15. Prepared(t, "commit", q, i, w)
    BY <1>5, <1>9, <1>10, <1>11, <1>12, <1>13, <1>14 DEF Prepared
  <1>. QED BY <1>15 DEF w, R, s

\* _allocate_to_bill adds the allocation, if there is a bill, and the notice
Allocated(t, p) ==
  IF BillOf[p] = NoBill THEN {} ELSE {NewRow("allocation", "ALLOCATION", p, t, Amount[p])}

Allocates(t, p, i, seen, to, n, place) ==
  /\ n.by = t /\ n.table = "notification"
  /\ BillOf[p] = NoBill => seen = i.bill
  /\ BillOf[p] # NoBill => seen # NoWrite
  /\ to # NoWrite \/ place = "billwrite" => BillOf[p] # NoBill

LEMMA AllocationPrepared ==
  ASSUME NEW t \in Txns, NEW p \in Payments, NEW q, NEW i, NEW w, NEW seen, NEW to, NEW A, NEW n,
         NEW place \in {"commit", "billwrite"},
         Prepared(t, "allocate", q, i, w), ForPayment(q, p),
         A = Allocated(t, p), Allocates(t, p, i, seen, to, n, place)
  PROVE  Prepared(t, place, q, Read(i.status, i.ref, seen),
                  Writes(w.status, w.ref, to, w.rows \cup A \cup {n}))
  <1>. USE DEF Allocated, Allocates
  <1>. DEFINE a == NewRow("allocation", "ALLOCATION", p, t, Amount[p])
              S == w.rows \cup A \cup {n}
              j == Read(i.status, i.ref, seen)
              v == Writes(w.status, w.ref, to, S)
  <1>1. /\ j.status = i.status /\ j.bill = seen
        /\ v.status = w.status /\ v.ref = w.ref /\ v.bill = to /\ v.rows = S
    BY DEF Read, Writes
  <1>2. a.by = t /\ a.of = p /\ a.table = "allocation" /\ a.type = "ALLOCATION" /\ a.amt = Amount[p]
    BY DEF NewRow
  <1>3. A = IF BillOf[p] = NoBill THEN {} ELSE {a}
    OBVIOUS
  <1>4. BillOf[p] # NoBill => BillOf[p] \in Bills
    BY ConstantsAssumption
  <1>. HIDE DEF a, j, v
  <1>5. IsFiniteSet(S)
    <2>1. IsFiniteSet(A)
      BY <1>3, SmallSets, FS_EmptySet, Zenon
    <2>2. IsFiniteSet({n})
      BY SmallSets
    <2>3. IsFiniteSet(w.rows)
      BY DEF Prepared, OwnRows
    <2>. QED BY <2>1, <2>2, <2>3, FS_Union
  <1>6. \A r \in S : r \in w.rows \/ (r = a /\ BillOf[p] # NoBill) \/ r = n
    BY <1>3
  <1>7. w.rows \subseteq S /\ (BillOf[p] # NoBill => a \in S)
    BY <1>3
  <1>. HIDE DEF S
  <1>8. Early(t, place, q, j, v)
    BY DEF Early, Ended
  <1>9. OwnRows(t, q, S)
    <2>1. OwnRows(t, q, w.rows)
      BY DEF Prepared
    <2>2. \A r \in S : /\ r.by = t
                       /\ r.table \in BookTables => ForPayment(q, r.of)
                       /\ r.table = "callback" => q.op = "callback" /\ r.of = q.event
                       /\ r.table = "allocation" => r.amt = Amount[r.of]
      BY <1>2, <1>6, <2>1 DEF OwnRows, BookTables
    <2>3. \A r, s \in S : r.table = s.table /\ r.table \in {"callback", "receipt"} => r = s
      BY <1>2, <1>6, <2>1 DEF OwnRows
    <2>. QED BY <1>5, <2>2, <2>3 DEF OwnRows
  <1>10. StagedBooks(place, q, v)
    <2>1. StagedBooks("allocate", q, w) /\ w.status = "SUCCESSFUL"
      BY DEF Prepared, LegalMove
    <2>. SUFFICES ASSUME NEW x \in Payments, ForPayment(q, x)
                  PROVE  /\ WholeBooks(S, x, v.status = "SUCCESSFUL")
                         /\ Holds(S, "allocation", "ALLOCATION", x) <=> BillOf[x] # NoBill
      BY <1>1, <2>1 DEF StagedBooks
    <2>2. x = p
      BY DEF ForPayment
    <2>3. WholeBooks(w.rows, p, TRUE) /\ ~Holds(w.rows, "allocation", "ALLOCATION", p)
      BY <2>1, <2>2 DEF StagedBooks, WholeBooks
    <2>4. \A type : \A table \in {"ledger", "revenue", "receipt"} :
            Holds(S, table, type, p) <=> Holds(w.rows, table, type, p)
      BY <1>2, <1>6, <1>7 DEF Holds
    <2>5. WholeBooks(S, p, TRUE)
      BY <2>3, <2>4 DEF WholeBooks
    <2>6. Holds(S, "allocation", "ALLOCATION", p) <=> BillOf[p] # NoBill
      BY <1>2, <1>6, <1>7, <2>3 DEF Holds
    <2>. QED BY <1>1, <2>1, <2>2, <2>5, <2>6 DEF WholeBooks
  <1>11. StagedRevenue(v)
    <2>1. StagedRevenue(w)
      BY DEF Prepared
    <2>2. Revenue(S) = Revenue(w.rows)
      BY <1>2, <1>6, <1>7 DEF Revenue
    <2>. QED BY <1>1, <1>7, <2>1, <2>2 DEF StagedRevenue
  <1>12. LegalMove(place, q, j, v)
    BY <1>1 DEF Prepared, LegalMove
  <1>13. StagedBill(place, q, j, v)
    <2>1. StagedBill("allocate", q, i, w)
      BY DEF Prepared
    <2>2. BillOf[p] # NoBill => BillFor(q) \in Bills
      BY <1>4 DEF BillFor, ForPayment
    <2>3. (\E r \in S : r.table = "allocation") => seen # NoWrite
      BY <1>6, <2>1 DEF StagedBill
    <2>4. seen # NoWrite => BillFor(q) \in Bills
      BY <2>1, <2>2 DEF StagedBill
    <2>. QED BY <1>1, <2>3, <2>4 DEF StagedBill
  <1>14. Prepared(t, place, q, j, v)
    BY <1>1, <1>8, <1>9, <1>10, <1>11, <1>12, <1>13 DEF Prepared
  <1>. QED BY <1>14 DEF j, v, S

\* the UPDATE of the bill stages nothing more
LEMMA BillWrittenPrepared ==
  ASSUME NEW t \in Txns, NEW q, NEW i, NEW w, Prepared(t, "billwrite", q, i, w)
  PROVE  Prepared(t, "commit", q, i, w)
  <1>1. Early(t, "commit", q, i, w)
    BY DEF Early, Ended
  <1>2. StagedBooks("commit", q, w)
    BY DEF Prepared, StagedBooks
  <1>3. LegalMove("commit", q, i, w)
    BY DEF Prepared, LegalMove
  <1>4. StagedBill("commit", q, i, w)
    BY DEF Prepared, StagedBill
  <1>. QED BY <1>1, <1>2, <1>3, <1>4 DEF Prepared

-----------------------------------------------------------------------------
(***************************************************************************)
(* Which payments exist, who may write them, and whose the rows are.       *)
(***************************************************************************)
Exists(p) == payment[p].status # Absent

Starts(t, p) == req[t].op = "initiate" /\ req[t].payment = p

HoldInv ==
  /\ \A t \in Txns : req[t].op = "callback" => req[t].payment = req[t].event.payment
  /\ \A p \in Payments : payment[p].ref => Exists(p)
  /\ \A p \in Payments : lock[p] # NoTxn => Exists(p)
  /\ \A t \in Txns, p \in Payments :
       /\ Starts(t, p) => ~Exists(p)
       /\ IsFor(t, p) /\ ~Starts(t, p) /\ inst[t].status # Absent => Exists(p)
       /\ IsFor(t, p) /\ ~Starts(t, p) /\ work[t].status # NoWrite => lock[p] = t
  /\ \A t, u \in Txns, p \in Payments : Starts(t, p) /\ Starts(u, p) => t = u

LEMMA RollbackPrepared ==
  ASSUME TypeInv, PreparedInv, NEW t \in Txns, NEW how \in {"committed", "aborted"}, End(t, how)
  PROVE  PreparedInv'
  <1>1. /\ pc'[t] = how /\ req'[t] = NoRequest /\ inst'[t] = NoInstance /\ work'[t] = NoWork
        /\ Others(t)
    BY DEF End, Others, TypeInv, TypeOK
  <1>2. Prepared(t, how, NoRequest, NoInstance, NoWork)
    BY EndedPrepared DEF Ended
  <1>. QED BY <1>1, <1>2, Becomes

LEMMA BeginPrepared ==
  ASSUME TypeInv, PreparedInv, NEW t \in Txns, Begin(t)
  PROVE  PreparedInv'
  <1>1. pc[t] = "idle"
    BY DEF Begin, BeginInitiate, BeginQuery, BeginCompensation, BeginCallback, BeginCancelBill
  <1>2. req[t] = NoRequest /\ inst[t] = NoInstance /\ work[t] = NoWork
    BY <1>1 DEF PreparedInv, Prepared, Early, Ended
  <1>3. /\ NoRequest.op = "none" /\ NoInstance.bill = NoWrite
        /\ NoWork.status = NoWrite /\ NoWork.rows = {}
    BY DEF NoRequest, NoInstance, Read, NoWork, Inserts, Writes
  <1>4. ASSUME pc' = [pc EXCEPT ![t] = "committed"], UNCHANGED <<req, inst, work>>
        PROVE  PreparedInv'
    <2>1. /\ pc'[t] = "committed" /\ req'[t] = NoRequest /\ inst'[t] = NoInstance
          /\ work'[t] = NoWork /\ Others(t)
      BY <1>2, <1>4 DEF Others, TypeInv, TypeOK
    <2>2. Prepared(t, "committed", NoRequest, NoInstance, NoWork)
      BY EndedPrepared DEF Ended
    <2>. QED BY <2>1, <2>2, Becomes
  <1>5. ASSUME NEW place \in {"insert", "event", "apply", "compensate"}, NEW q, NEW i,
               pc' = [pc EXCEPT ![t] = place], req' = [req EXCEPT ![t] = q],
               inst' = [inst EXCEPT ![t] = i], UNCHANGED work,
               place \in {"apply", "compensate"} => i.status \in Status,
               place = "compensate" => i.status = "SUCCESSFUL",
               q.op = "initiate" => i.status = "INITIATED",
               i.bill # NoWrite => BillFor(q) \in Bills
        PROVE  PreparedInv'
    <2>1. /\ pc'[t] = place /\ req'[t] = q /\ inst'[t] = i /\ work'[t] = NoWork
          /\ Others(t)
      BY <1>2, <1>5 DEF Others, TypeInv, TypeOK
    <2>2. place \in PC \ {"lookup", "billwrite", "allocate"} /\ place \notin Ended
      BY DEF PC, Ended
    <2>3. Prepared(t, place, q, i, NoWork)
      BY <1>5, <2>2, FreshPrepared
    <2>. QED BY <2>1, <2>3, Becomes
  <1>6. ASSUME NEW p \in Payments, NEW portal \in BOOLEAN, BeginInitiate(t, p, portal)
        PROVE  PreparedInv'
    <2>1. CASE KeyTaken(p)
      BY <1>4, <1>6, <2>1 DEF BeginInitiate
    <2>2. CASE ~KeyTaken(p)
      <3>. DEFINE q == [op |-> "initiate", payment |-> p, portal |-> portal]
      <3>1. PICK i : i = Read("INITIATED", FALSE, IF portal THEN bill[BillOf[p]] ELSE NoWrite)
        OBVIOUS
      <3>2. /\ pc' = [pc EXCEPT ![t] = "insert"] /\ req' = [req EXCEPT ![t] = q]
            /\ inst' = [inst EXCEPT ![t] = i] /\ UNCHANGED work
            /\ portal => BillOf[p] # NoBill
        BY <1>6, <2>2, <3>1 DEF BeginInitiate
      <3>3. i.status = "INITIATED" /\ (i.bill # NoWrite => BillOf[p] # NoBill)
        BY <3>1, <3>2 DEF Read
      <3>4. q.op = "initiate" /\ BillFor(q) = BillOf[p]
        BY DEF BillFor
      <3>5. i.bill # NoWrite => BillFor(q) \in Bills
        BY <3>3, <3>4, ConstantsAssumption
      <3>. HIDE DEF q
      <3>. QED BY <1>5, <3>2, <3>3, <3>4, <3>5
    <2>. QED BY <2>1, <2>2
  <1>7. ASSUME NEW p \in Payments, NEW place \in {"apply", "compensate"},
               NEW q, q.op # "initiate", payment[p].status # Absent,
               place = "compensate" => payment[p].status = "SUCCESSFUL",
               pc' = [pc EXCEPT ![t] = place], req' = [req EXCEPT ![t] = q],
               ReadPayment(t, p), UNCHANGED work
        PROVE  PreparedInv'
    <2>1. PICK i : i = Read(payment[p].status, payment[p].ref, NoWrite)
      OBVIOUS
    <2>2. inst' = [inst EXCEPT ![t] = i]
      BY <1>7, <2>1 DEF ReadPayment
    <2>3. i.status = payment[p].status /\ i.bill = NoWrite
      BY <2>1 DEF Read
    <2>4. i.status \in Status
      BY <1>7, <2>3 DEF TypeInv, TypeOK, PaymentRow
    <2>. QED BY <1>5, <1>7, <2>2, <2>3, <2>4
  <1>8. ASSUME NEW p \in Payments, BeginQuery(t, p)
        PROVE  PreparedInv'
    <2>. DEFINE q == [op |-> "query", payment |-> p]
    <2>1. /\ q.op # "initiate" /\ payment[p].status # Absent
          /\ pc' = [pc EXCEPT ![t] = "apply"] /\ req' = [req EXCEPT ![t] = q]
          /\ ReadPayment(t, p) /\ UNCHANGED work
      BY <1>8 DEF BeginQuery
    <2>. HIDE DEF q
    <2>. QED BY <1>7, <2>1
  <1>9. ASSUME NEW p \in Payments, NEW op \in {"refund", "reverse"}, BeginCompensation(t, p, op)
        PROVE  PreparedInv'
    <2>1. CASE payment[p].status # "SUCCESSFUL"
      BY <1>4, <1>9, <2>1 DEF BeginCompensation
    <2>2. CASE payment[p].status = "SUCCESSFUL"
      <3>. DEFINE q == [op |-> op, payment |-> p]
      <3>1. /\ q.op # "initiate" /\ payment[p].status # Absent
            /\ pc' = [pc EXCEPT ![t] = "compensate"] /\ req' = [req EXCEPT ![t] = q]
            /\ ReadPayment(t, p) /\ UNCHANGED work
        BY <1>9, <2>2 DEF BeginCompensation
      <3>. HIDE DEF q
      <3>. QED BY <1>7, <2>2, <3>1
    <2>. QED BY <2>1, <2>2
  <1>10. ASSUME NEW e \in Events, NEW verified \in BOOLEAN, BeginCallback(t, e, verified)
        PROVE  PreparedInv'
    <2>. DEFINE q == [op |-> "callback", payment |-> e.payment, event |-> e]
                r == NewRow("callback", "INVALID_SIGNATURE", e, t, 0)
    <2>1. req' = [req EXCEPT ![t] = q] /\ inst' = [inst EXCEPT ![t] = NoInstance]
      BY <1>2, <1>10 DEF BeginCallback, TypeInv, TypeOK
    <2>2. q.op = "callback" /\ q.event = e
      OBVIOUS
    <2>3. CASE verified
      <3>1. pc' = [pc EXCEPT ![t] = "event"] /\ UNCHANGED work
        BY <1>10, <2>3 DEF BeginCallback
      <3>. HIDE DEF q
      <3>. QED BY <1>3, <1>5, <2>1, <2>2, <3>1
    <2>4. CASE ~verified
      <3>1. pc' = [pc EXCEPT ![t] = "commit"] /\ work' = [work EXCEPT ![t] = Inserts({r})]
        BY <1>10, <2>4 DEF BeginCallback
      <3>2. r.by = t /\ r.of = e /\ r.table = "callback"
        BY DEF NewRow
      <3>. HIDE DEF q, r
      <3>3. /\ pc'[t] = "commit" /\ req'[t] = q /\ inst'[t] = NoInstance /\ work'[t] = Inserts({r})
            /\ Others(t)
        BY <2>1, <3>1 DEF Others, TypeInv, TypeOK
      <3>4. OwnRows(t, q, {r})
        <4>1. IsFiniteSet({r})
          BY SmallSets
        <4>. QED BY <2>2, <3>2, <4>1 DEF OwnRows, BookTables
      <3>5. NoBooks({r})
        BY <3>2 DEF NoBooks
      <3>6. Prepared(t, "commit", q, NoInstance, Writes(NoWrite, FALSE, NoWrite, {r}))
        <4>1. NoWrite \notin {"SUCCESSFUL", "REFUNDED", "REVERSED"}
          BY ConstantsAssumption DEF Status
        <4>. QED BY <1>3, <2>2, <3>4, <3>5, <4>1, QuietPrepared
      <3>. QED BY <3>3, <3>6, Becomes DEF Inserts
    <2>. QED BY <2>3, <2>4
  <1>11. ASSUME NEW b \in Bills, BeginCancelBill(t, b)
        PROVE  PreparedInv'
    <2>1. CASE "CANCELLED" \notin BillTransitions[bill[b]]
      BY <1>4, <1>11, <2>1 DEF BeginCancelBill
    <2>2. CASE "CANCELLED" \in BillTransitions[bill[b]]
      <3>. DEFINE q == [op |-> "cancel", bill |-> b]
                  d == Dispatch(t, b, "bill.cancelled")
                  w == Writes(NoWrite, FALSE, "CANCELLED", {d})
      <3>1. PICK i : i = Read(Absent, FALSE, bill[b])
        OBVIOUS
      <3>2. /\ pc'[t] = "billwrite" /\ req'[t] = q /\ inst'[t] = i /\ work'[t] = w
            /\ Others(t)
        <4>1. /\ pc' = [pc EXCEPT ![t] = "billwrite"] /\ req' = [req EXCEPT ![t] = q]
              /\ inst' = [inst EXCEPT ![t] = i] /\ work' = [work EXCEPT ![t] = w]
          BY <1>11, <2>2, <3>1 DEF BeginCancelBill
        <4>. HIDE DEF q, w
        <4>. QED BY <4>1 DEF Others, TypeInv, TypeOK
      <3>3. /\ q.op = "cancel" /\ BillFor(q) = b /\ i.bill = bill[b]
            /\ w.status = NoWrite /\ ~w.ref /\ w.rows = {d}
            /\ d.by = t /\ d.table = "webhook"
        BY <3>1 DEF BillFor, Read, Writes, Dispatch, NewRow
      <3>4. i.bill # NoWrite
        BY <3>3, ConstantsAssumption DEF TypeInv, TypeOK
      <3>. HIDE DEF q, w, d
      <3>5. Early(t, "billwrite", q, i, w)
        BY DEF Early, Ended
      <3>6. OwnRows(t, q, w.rows)
        <4>1. IsFiniteSet({d})
          BY SmallSets
        <4>. QED BY <3>3, <4>1 DEF OwnRows, BookTables
      <3>7. StagedBooks("billwrite", q, w)
        BY <3>3 DEF StagedBooks, ForPayment
      <3>8. StagedRevenue(w)
        BY <3>3, Charges DEF StagedRevenue, Revenue
      <3>9. LegalMove("billwrite", q, i, w)
        BY <3>3 DEF LegalMove
      <3>10. StagedBill("billwrite", q, i, w)
        BY <3>3, <3>4 DEF StagedBill
      <3>11. Prepared(t, "billwrite", q, i, w)
        BY <3>5, <3>6, <3>7, <3>8, <3>9, <3>10 DEF Prepared
      <3>. QED BY <3>2, <3>11, Becomes
    <2>. QED BY <2>1, <2>2
  <1>. QED BY <1>6, <1>8, <1>9, <1>10, <1>11 DEF Begin

LEMMA StepPrepared ==
  ASSUME TypeInv, BookedInv, PreparedInv, HoldInv, NEW t \in Txns, Step(t)
  PROVE  PreparedInv'
  <1>. DEFINE p == req[t].payment
  <1>1. Prepared(t, pc[t], req[t], inst[t], work[t])
    BY DEF PreparedInv
  <1>2. ASSUME NEW place, NEW w, Prepared(t, place, req[t], inst[t], w),
               pc' = [pc EXCEPT ![t] = place], work' = [work EXCEPT ![t] = w],
               UNCHANGED <<req, inst>>
        PROVE  PreparedInv'
    <2>1. /\ pc'[t] = place /\ req'[t] = req[t] /\ inst'[t] = inst[t] /\ work'[t] = w
          /\ Others(t)
      BY <1>2 DEF Others, TypeInv, TypeOK
    <2>. QED BY <1>2, <2>1, Becomes
  <1>3. ASSUME pc[t] = "insert"
        PROVE  /\ p \in Payments /\ req[t].op = "initiate" /\ ForPayment(req[t], p)
               /\ inst[t].status = "INITIATED"
               /\ \A s \in {"SUCCESSFUL", "PENDING", "FAILED", "UNKNOWN"} :
                     inst[t].status \in Status /\ s \in AllowedTransitions[inst[t].status]
               /\ inst[t].bill # NoWrite => BillFor(req[t]) \in Bills
    <2>1. p \in Payments /\ req[t].op = "initiate"
      BY <1>3 DEF TypeInv, ReqOK, InitiateRequest
    <2>2. inst[t].status = "INITIATED"
      BY <1>1, <2>1 DEF Prepared, LegalMove
    <2>3. AllowedTransitions["INITIATED"] = {"PENDING", "SUCCESSFUL", "FAILED", "UNKNOWN"}
      BY DEF AllowedTransitions, Status
    <2>4. "INITIATED" \in Status
      BY DEF Status
    <2>5. inst[t].bill # NoWrite => BillFor(req[t]) \in Bills
      BY <1>1 DEF Prepared, StagedBill
    <2>. QED BY <2>1, <2>2, <2>3, <2>4, <2>5 DEF ForPayment
  <1>4. CASE InsertConflicts(t)
    BY <1>4, RollbackPrepared DEF InsertConflicts, Rollback
  <1>5. CASE InitiateTimesOut(t)
    <2>. DEFINE r == NewRow("mock", "successful", p, t, 0)
    <2>1. /\ pc[t] = "insert" /\ UNCHANGED <<req, inst>>
          /\ work' = [work EXCEPT ![t] = Writes("UNKNOWN", FALSE, NoWrite, {r})]
          /\ pc' = [pc EXCEPT ![t] = "commit"]
      BY <1>5 DEF InitiateTimesOut, CallProvider
    <2>2. r.by = t /\ r.table = "mock"
      BY DEF NewRow
    <2>. HIDE DEF r
    <2>3. OwnRows(t, req[t], {r})
      <3>1. IsFiniteSet({r})
        BY SmallSets
      <3>. QED BY <2>2, <3>1 DEF OwnRows, BookTables
    <2>4. NoBooks({r})
      BY <2>2 DEF NoBooks
    <2>5. Prepared(t, "commit", req[t], inst[t], Writes("UNKNOWN", FALSE, NoWrite, {r}))
      BY <1>3, <2>1, <2>3, <2>4, QuietPrepared
    <2>. QED BY <1>2, <2>1, <2>5
  <1>6. CASE InitiateFails(t)
    <2>. DEFINE R == FailureRows(t, p)
                x == RevenueEvent(t, p, "PAYMENT_FAILED", 0)
    <2>1. /\ pc[t] = "insert" /\ UNCHANGED <<req, inst>>
          /\ work' = [work EXCEPT ![t] = Writes("FAILED", FALSE, NoWrite, R)]
          /\ pc' = [pc EXCEPT ![t] = "commit"]
      BY <1>6 DEF InitiateFails, CallProvider
    <2>2. /\ IsFiniteSet(R)
          /\ \A r \in R : /\ r.by = t /\ r.of = p /\ r.table \in {"revenue", "notification"}
                          /\ r.table = "revenue" => r = x
      BY FailureRowsAre
    <2>3. x.type = "PAYMENT_FAILED" /\ x.amt = 0
      BY DEF RevenueEvent, NewRow
    <2>. HIDE DEF R, x
    <2>4. OwnRows(t, req[t], R)
      BY <1>3, <2>1, <2>2 DEF OwnRows
    <2>5. NoBooks(R)
      BY <2>2, <2>3 DEF NoBooks
    <2>6. Prepared(t, "commit", req[t], inst[t], Writes("FAILED", FALSE, NoWrite, R))
      BY <1>3, <2>1, <2>4, <2>5, QuietPrepared
    <2>. QED BY <1>2, <2>1, <2>6
  <1>8. CASE InitiateAnswered(t)
    <2>1. PICK o \in ProviderOutcome :
            /\ CallProvider(t)
            /\ work' = [work EXCEPT ![t] = Writes(NewStatus(o), TRUE, NoWrite,
                           {NewRow("mock", o, p, t, 0)} \cup OutcomeRows(t, p, o))]
            /\ pc' = [pc EXCEPT ![t] = AfterOutcome(o)]
      BY <1>8 DEF InitiateAnswered
    <2>. DEFINE r == NewRow("mock", o, p, t, 0)
    <2>2. pc[t] = "insert" /\ UNCHANGED <<req, inst>>
      BY <2>1 DEF CallProvider
    <2>3. r.by = t /\ r.table = "mock"
      BY DEF NewRow
    <2>. HIDE DEF r
    <2>4. OwnRows(t, req[t], {r})
      <3>1. IsFiniteSet({r})
        BY SmallSets
      <3>. QED BY <2>3, <3>1 DEF OwnRows, BookTables
    <2>5. NewStatus(o) \in {"SUCCESSFUL", "PENDING", "FAILED", "UNKNOWN"}
      BY DEF NewStatus, OutcomeToStatus, ProviderOutcome
    <2>6. Prepared(t, AfterOutcome(o), req[t], inst[t],
                   Writes(NewStatus(o), TRUE, NoWrite, {r} \cup OutcomeRows(t, p, o)))
      BY <1>3, <2>2, <2>3, <2>4, <2>5, AppliedPrepared
    <2>. QED BY <1>2, <2>1, <2>2, <2>6 DEF r
  <1>9. ASSUME NEW R, pc[t] \in {"event", "lookup"}, OwnRows(t, req[t], R),
               pc'[t] = "commit", req'[t] = req[t], inst'[t] = inst[t],
               work'[t] = Inserts(R), Others(t), NoBooks(R)
        PROVE  PreparedInv'
    <2>1. NoWrite \notin {"SUCCESSFUL", "REFUNDED", "REVERSED"}
      BY ConstantsAssumption DEF Status
    <2>2. req[t].op = "callback"
      BY <1>9 DEF TypeInv, ReqOK, CallbackRequest
    <2>3. inst[t].bill # NoWrite => BillFor(req[t]) \in Bills
      BY <1>1 DEF Prepared, StagedBill
    <2>4. Prepared(t, "commit", req[t], inst[t], Writes(NoWrite, FALSE, NoWrite, R))
      BY <1>9, <2>1, <2>2, <2>3, QuietPrepared
    <2>. QED BY <1>9, <2>4, Becomes DEF Inserts
  <1>10. CASE RecordEvent(t)
    <2>. DEFINE e == req[t].event
    <2>1. pc[t] = "event" /\ UNCHANGED <<req, inst>>
      BY <1>10 DEF RecordEvent
    <2>2. /\ req[t].op = "callback" /\ e.payment = p /\ ForPayment(req[t], p)
      <3>1. req[t].op = "callback"
        BY <2>1 DEF TypeInv, ReqOK, CallbackRequest
      <3>. QED BY <3>1 DEF HoldInv, ForPayment
    <2>3. CASE EventRows(rows, e) = {}
      <3>. DEFINE r == NewRow("callback", "PROCESSED", e, t, 0)
                  w == Inserts({r})
      <3>1. work' = [work EXCEPT ![t] = w] /\ pc' = [pc EXCEPT ![t] = "lookup"]
        BY <1>10, <2>3 DEF RecordEvent
      <3>2. /\ r.by = t /\ r.of = e /\ r.table = "callback"
            /\ w.status = NoWrite /\ w.bill = NoWrite /\ ~w.ref /\ w.rows = {r}
        BY DEF NewRow, Inserts, Writes
      <3>3. Early(t, "lookup", req[t], inst[t], w)
        BY DEF Early, Ended
      <3>. HIDE DEF r, w
      <3>4. OwnRows(t, req[t], w.rows)
        <4>1. IsFiniteSet({r})
          BY SmallSets
        <4>. QED BY <2>2, <3>2, <4>1 DEF OwnRows, BookTables
      <3>5. StagedBooks("lookup", req[t], w)
        <4>1. NoWrite # "SUCCESSFUL"
          BY ConstantsAssumption DEF Status
        <4>. QED BY <3>2, <4>1 DEF StagedBooks, WholeBooks, Holds
      <3>6. StagedRevenue(w)
        <4>1. Revenue(w.rows) = {}
          BY <3>2 DEF Revenue
        <4>. QED BY <3>2, <4>1, Charges DEF StagedRevenue
      <3>7. LegalMove("lookup", req[t], inst[t], w)
        BY <1>1, <3>2 DEF Prepared, LegalMove
      <3>8. StagedBill("lookup", req[t], inst[t], w)
        BY <1>1, <3>2 DEF Prepared, StagedBill
      <3>9. Prepared(t, "lookup", req[t], inst[t], w)
        BY <3>3, <3>4, <3>5, <3>6, <3>7, <3>8 DEF Prepared
      <3>. QED BY <1>2, <2>1, <3>1, <3>9
    <2>4. CASE EventRows(rows, e) # {}
      <3>. DEFINE r == NewRow("callback", "DUPLICATE", e, t, 0)
                  x == RevenueEvent(t, e.payment, "PAYMENT_DUPLICATE", 0)
                  D == IF Rows("callback", "PROCESSED", e) = {} THEN {} ELSE {x}
      <3>1. work' = [work EXCEPT ![t] = Inserts({r} \cup D)] /\ pc' = [pc EXCEPT ![t] = "commit"]
        BY <1>10, <2>4 DEF RecordEvent
      <3>2. /\ r.by = t /\ r.of = e /\ r.table = "callback"
            /\ x.by = t /\ x.of = p /\ x.table = "revenue"
            /\ x.type = "PAYMENT_DUPLICATE" /\ x.amt = 0
        BY <2>2 DEF NewRow, RevenueEvent
      <3>3. \A y \in {r} \cup D : y = r \/ y = x
        OBVIOUS
      <3>4. IsFiniteSet({r} \cup D)
        <4>. HIDE DEF r, x
        <4>1. IsFiniteSet({r})
          BY SmallSets
        <4>2. IsFiniteSet(D)
          BY SmallSets, FS_EmptySet, Zenon
        <4>. QED BY <4>1, <4>2, FS_Union
      <3>. HIDE DEF r, x, D
      <3>5. OwnRows(t, req[t], {r} \cup D)
        BY <2>2, <3>2, <3>3, <3>4 DEF OwnRows, BookTables
      <3>6. PICK R : R = {r} \cup D
        OBVIOUS
      <3>7. NoBooks(R)
        BY <3>2, <3>3, <3>6 DEF NoBooks
      <3>8. pc[t] \in {"event", "lookup"} /\ OwnRows(t, req[t], R)
        BY <2>1, <3>5, <3>6
      <3>9. /\ pc'[t] = "commit" /\ req'[t] = req[t] /\ inst'[t] = inst[t]
            /\ work'[t] = Inserts(R) /\ Others(t)
        BY <2>1, <3>1, <3>6 DEF Others, TypeInv, TypeOK
      <3>. QED BY <1>9, <3>7, <3>8, <3>9
    <2>. QED BY <2>3, <2>4
  <1>11. CASE MatchPayment(t)
    <2>. DEFINE e == req[t].event
    <2>1. pc[t] = "lookup" /\ UNCHANGED req
      BY <1>11 DEF MatchPayment
    <2>2. req[t].op = "callback" /\ p \in Payments
      BY <2>1 DEF TypeInv, ReqOK, CallbackRequest
    <2>3. CASE payment[p].ref
      <3>1. /\ ReadPayment(t, p) /\ pc' = [pc EXCEPT ![t] = "apply"] /\ UNCHANGED work
        BY <1>11, <2>3 DEF MatchPayment
      <3>2. PICK i : i = Read(payment[p].status, payment[p].ref, NoWrite)
        OBVIOUS
      <3>3. inst' = [inst EXCEPT ![t] = i]
        BY <3>1, <3>2 DEF ReadPayment
      <3>4. i.status = payment[p].status /\ i.bill = NoWrite
        BY <3>2 DEF Read
      <3>5. payment[p].status \in Status
        BY <2>2, <2>3 DEF HoldInv, Exists, TypeInv, TypeOK, PaymentRow
      <3>6. /\ pc'[t] = "apply" /\ req'[t] = req[t] /\ inst'[t] = i /\ work'[t] = work[t]
            /\ Others(t)
        BY <2>1, <3>1, <3>3 DEF Others, TypeInv, TypeOK
      <3>7. /\ work[t].status = NoWrite /\ work[t].bill = NoWrite /\ ~work[t].ref
            /\ \A r \in work[t].rows : r.table = "callback"
        <4>1. work[t] = Inserts({NewRow("callback", "PROCESSED", e, t, 0)})
          BY <1>1, <2>1 DEF Prepared, Early
        <4>. QED BY <4>1 DEF Inserts, Writes, NewRow
      <3>8. Early(t, "apply", req[t], i, work[t])
        BY <3>7 DEF Early, Ended
      <3>9. OwnRows(t, req[t], work[t].rows) /\ StagedRevenue(work[t])
        BY <1>1 DEF Prepared
      <3>10. StagedBooks("apply", req[t], work[t])
        <4>1. StagedBooks("lookup", req[t], work[t])
          BY <1>1, <2>1 DEF Prepared
        <4>. QED BY <4>1 DEF StagedBooks
      <3>11. LegalMove("apply", req[t], i, work[t])
        BY <2>2, <3>4, <3>5, <3>7 DEF LegalMove
      <3>12. StagedBill("apply", req[t], i, work[t])
        BY <3>4, <3>7 DEF StagedBill
      <3>13. Prepared(t, "apply", req[t], i, work[t])
        BY <3>8, <3>9, <3>10, <3>11, <3>12 DEF Prepared
      <3>. QED BY <3>6, <3>13, Becomes
    <2>4. CASE ~payment[p].ref
      <3>. DEFINE r == NewRow("callback", "UNMATCHED", e, t, 0)
      <3>1. /\ work' = [work EXCEPT ![t] = Inserts({r})] /\ pc' = [pc EXCEPT ![t] = "commit"]
            /\ UNCHANGED inst
        BY <1>11, <2>4 DEF MatchPayment
      <3>2. r.by = t /\ r.of = e /\ r.table = "callback"
        BY DEF NewRow
      <3>. HIDE DEF r
      <3>3. OwnRows(t, req[t], {r})
        <4>1. IsFiniteSet({r})
          BY SmallSets
        <4>. QED BY <2>2, <3>2, <4>1 DEF OwnRows, BookTables
      <3>4. PICK R : R = {r}
        OBVIOUS
      <3>5. \A y \in R : y.table = "callback"
        BY <3>2, <3>4
      <3>6. pc[t] \in {"event", "lookup"} /\ OwnRows(t, req[t], R)
        BY <2>1, <3>3, <3>4
      <3>7. /\ pc'[t] = "commit" /\ req'[t] = req[t] /\ inst'[t] = inst[t]
            /\ work'[t] = Inserts(R) /\ Others(t)
        BY <2>1, <3>1, <3>4 DEF Others, TypeInv, TypeOK
      <3>8. NoBooks(R)
        BY <3>5 DEF NoBooks
      <3>. QED BY <1>9, <3>6, <3>7, <3>8
    <2>. QED BY <2>3, <2>4
  <1>12. ASSUME pc[t] = "apply"
         PROVE  /\ p \in Payments /\ ForPayment(req[t], p) /\ req[t].op \in {"query", "callback"}
                /\ work[t].status = NoWrite /\ work[t].bill = NoWrite
                /\ \A r \in work[t].rows : r.table = "callback"
                /\ inst[t].status \in Status
    <2>1. p \in Payments /\ req[t].op \in {"query", "callback"}
      BY <1>12 DEF TypeInv, ReqOK, CallbackRequest, QueryRequest
    <2>. QED BY <1>1, <1>12, <2>1 DEF Prepared, Early, LegalMove, ForPayment
  <1>13. CASE ApplyNoop(t)
    <2>1. pc[t] = "apply" /\ UNCHANGED <<req, inst>> /\ pc' = [pc EXCEPT ![t] = "commit"]
      BY <1>13 DEF ApplyNoop
    <2>2. PICK f \in BOOLEAN : work' = [work EXCEPT ![t] = Writes(NoWrite, f, NoWrite, work[t].rows)]
      BY <1>13 DEF ApplyNoop, FillsReference
    <2>3. NoWrite \notin {"SUCCESSFUL", "REFUNDED", "REVERSED"}
      BY ConstantsAssumption DEF Status
    <2>4. inst[t].bill # NoWrite => BillFor(req[t]) \in Bills
      BY <1>1 DEF Prepared, StagedBill
    <2>5. OwnRows(t, req[t], work[t].rows)
      BY <1>1 DEF Prepared
    <2>6. req[t].op \notin {"initiate", "cancel"}
      BY <1>12, <2>1
    <2>7. /\ inst[t].status \in Status
          /\ \A r \in work[t].rows : r.table \notin {"ledger", "allocation", "receipt", "revenue"}
      BY <1>12, <2>1
    <2>8. NoBooks(work[t].rows)
      BY <2>7 DEF NoBooks
    <2>9. Prepared(t, "commit", req[t], inst[t], Writes(NoWrite, f, NoWrite, work[t].rows))
      BY <2>3, <2>4, <2>5, <2>6, <2>7, <2>8, QuietPrepared
    <2>. QED BY <1>2, <2>1, <2>2, <2>9
  <1>14. CASE ApplyRaises(t)
    BY <1>14, RollbackPrepared DEF ApplyRaises, Rollback
  <1>15. CASE ApplyWrites(t)
    <2>1. PICK o : o = ReportedOutcome(t)
      OBVIOUS
    <2>2. PICK f \in BOOLEAN : f = FillsReference(t)
      BY DEF FillsReference
    <2>3. /\ pc[t] = "apply" /\ UNCHANGED <<req, inst>> /\ pc' = [pc EXCEPT ![t] = AfterOutcome(o)]
          /\ work' = [work EXCEPT ![t] = Writes(NewStatus(o), f, NoWrite,
                                                work[t].rows \cup OutcomeRows(t, p, o))]
          /\ NewStatus(o) \in AllowedTransitions[inst[t].status]
      BY <1>15, <2>1, <2>2 DEF ApplyWrites, OutcomeWrites
    <2>4. o \in ProviderOutcome
      BY <2>1, <2>3, RequestTypes
    <2>5. OwnRows(t, req[t], work[t].rows)
      BY <1>1 DEF Prepared
    <2>6. /\ req[t].op = "initiate" => inst[t].status = "INITIATED"
          /\ inst[t].bill # NoWrite => BillFor(req[t]) \in Bills
      BY <1>1 DEF Prepared, LegalMove, StagedBill
    <2>7. Prepared(t, AfterOutcome(o), req[t], inst[t],
                   Writes(NewStatus(o), f, NoWrite, work[t].rows \cup OutcomeRows(t, p, o)))
      BY <1>12, <2>3, <2>4, <2>5, <2>6, AppliedPrepared
    <2>. QED BY <1>2, <2>3, <2>7
  <1>16. CASE Compensate(t)
    <2>. DEFINE op == req[t].op
                w == Writes(IF op = "refund" THEN "REFUNDED" ELSE "REVERSED", FALSE, NoWrite,
                            CompensationRows(t, p, op))
    <2>1. /\ pc[t] = "compensate" /\ UNCHANGED <<req, inst>>
          /\ pc' = [pc EXCEPT ![t] = "commit"] /\ work' = [work EXCEPT ![t] = w]
      BY <1>16 DEF Compensate
    <2>2. p \in Payments /\ op \in {"refund", "reverse"}
      BY <2>1 DEF TypeInv, ReqOK, UndoRequest
    <2>3. Booked(rows, p)
      BY <2>1 DEF BookedInv, StagedIsBooked, StagedBooked
    <2>4. inst[t].status = "SUCCESSFUL" /\ (inst[t].bill # NoWrite => BillFor(req[t]) \in Bills)
      BY <1>1, <2>1 DEF Prepared, LegalMove, StagedBill
    <2>5. Prepared(t, "commit", req[t], inst[t], w)
      BY <2>2, <2>3, <2>4, CompensationPrepared
    <2>. HIDE DEF w
    <2>. QED BY <1>2, <2>1, <2>5
  <1>17. CASE AllocateToBill(t)
    <2>. DEFINE b == BillOf[p]
                A == IF b = NoBill THEN {} ELSE {NewRow("allocation", "ALLOCATION", p, t, Amount[p])}
    <2>1. pc[t] = "allocate" /\ UNCHANGED req
      BY <1>17 DEF AllocateToBill
    <2>2. p \in Payments /\ ForPayment(req[t], p) /\ Prepared(t, "allocate", req[t], inst[t], work[t])
      BY <1>1, <2>1 DEF TypeInv, ReqOK, InitiateRequest, QueryRequest, CallbackRequest, ForPayment
    <2>3. ASSUME NEW seen, NEW to, NEW n, NEW place \in {"commit", "billwrite"},
                 n.by = t, n.table = "notification",
                 (b = NoBill /\ seen = inst[t].bill) \/ (b # NoBill /\ seen # NoWrite),
                 to # NoWrite \/ place = "billwrite" => b # NoBill,
                 pc'[t] = place, Others(t),
                 inst'[t] = Read(inst[t].status, inst[t].ref, seen),
                 work'[t] = Writes(work[t].status, work[t].ref, to, work[t].rows \cup A \cup {n})
          PROVE  PreparedInv'
      <3>. DEFINE j == Read(inst[t].status, inst[t].ref, seen)
                  v == Writes(work[t].status, work[t].ref, to, work[t].rows \cup A \cup {n})
      <3>1. Prepared(t, place, req[t], j, v)
        <4>1. PICK q, i, w : q = req[t] /\ i = inst[t] /\ w = work[t]
          OBVIOUS
        <4>2. PICK x, B : x = p /\ B = Allocated(t, x)
          OBVIOUS
        <4>3. A = B
          BY <4>2 DEF Allocated
        <4>4. Prepared(t, "allocate", q, i, w) /\ ForPayment(q, x) /\ x \in Payments
          BY <2>2, <4>1, <4>2
        <4>5. Allocates(t, x, i, seen, to, n, place)
          BY <2>3, <4>1, <4>2 DEF Allocates
        <4>6. Prepared(t, place, q, Read(i.status, i.ref, seen),
                       Writes(w.status, w.ref, to, w.rows \cup B \cup {n}))
          BY ONLY t \in Txns, place \in {"commit", "billwrite"}, <4>2, <4>4, <4>5, AllocationPrepared
        <4>. QED BY <4>1, <4>3, <4>6
      <3>. HIDE DEF j, v
      <3>2. /\ pc'[t] = place /\ req'[t] = req[t] /\ inst'[t] = j /\ work'[t] = v
            /\ Others(t)
        BY <2>1, <2>3 DEF j, v
      <3>. QED BY <3>1, <3>2, Becomes
    <2>4. \A status : SuccessNotice(t, p, status).by = t
                      /\ SuccessNotice(t, p, status).table = "notification"
      BY DEF SuccessNotice, Notify, NewRow
    <2>5. CASE b = NoBill
      <3>1. PICK n : n = SuccessNotice(t, p, NoWrite)
        OBVIOUS
      <3>2. /\ pc' = [pc EXCEPT ![t] = "commit"] /\ UNCHANGED inst
            /\ work' = [work EXCEPT ![t] = Writes(work[t].status, work[t].ref, NoWrite,
                                                  work[t].rows \cup {n})]
        BY <1>17, <2>5, <3>1 DEF AllocateToBill
      <3>3. work[t].rows \cup {n} = work[t].rows \cup A \cup {n}
        BY <2>5
      <3>4. inst[t] = Read(inst[t].status, inst[t].ref, inst[t].bill)
        BY DEF TypeInv, TypeOK, Instance, Read
      <3>5. work' = [work EXCEPT ![t] = Writes(work[t].status, work[t].ref, NoWrite,
                                               work[t].rows \cup A \cup {n})]
        BY <3>2, <3>3
      <3>6. n.by = t /\ n.table = "notification"
        BY <2>4, <3>1
      <3>. HIDE DEF A
      <3>7. /\ pc'[t] = "commit" /\ Others(t)
            /\ inst'[t] = Read(inst[t].status, inst[t].ref, inst[t].bill)
            /\ work'[t] = Writes(work[t].status, work[t].ref, NoWrite, work[t].rows \cup A \cup {n})
        BY <2>1, <3>2, <3>4, <3>5 DEF Others, TypeInv, TypeOK
      <3>8. PICK seen, to, place :
              seen = inst[t].bill /\ to = NoWrite /\ place = "commit"
        OBVIOUS
      <3>9. /\ pc'[t] = place
            /\ inst'[t] = Read(inst[t].status, inst[t].ref, seen)
            /\ work'[t] = Writes(work[t].status, work[t].ref, to, work[t].rows \cup A \cup {n})
        BY <3>7, <3>8
      <3>10. /\ place \in {"commit", "billwrite"}
             /\ (b = NoBill /\ seen = inst[t].bill) \/ (b # NoBill /\ seen # NoWrite)
             /\ to # NoWrite \/ place = "billwrite" => b # NoBill
        BY <2>5, <3>8
      <3>. QED BY <2>3, <3>6, <3>7, <3>9, <3>10
    <2>6. CASE b # NoBill
      <3>. DEFINE mine == work[t].rows \cup {NewRow("allocation", "ALLOCATION", p, t, Amount[p])}
      <3>1. PICK seen : seen = IF inst[t].bill = NoWrite THEN bill[b] ELSE inst[t].bill
        OBVIOUS
      <3>2. PICK to : to = BillAfterAllocation(seen, b, rows \cup mine)
        OBVIOUS
      <3>3. PICK n : n = SuccessNotice(t, p, IF to = NoWrite THEN seen ELSE to)
        OBVIOUS
      <3>4. PICK place \in {"commit", "billwrite"} :
              place = IF to = NoWrite THEN "commit" ELSE "billwrite"
        OBVIOUS
      <3>5. /\ pc' = [pc EXCEPT ![t] = place]
            /\ inst' = [inst EXCEPT ![t] = Read(inst[t].status, inst[t].ref, seen)]
            /\ work' = [work EXCEPT ![t] = Writes(work[t].status, work[t].ref, to, mine \cup {n})]
        BY <1>17, <2>6, <3>1, <3>2, <3>3, <3>4 DEF AllocateToBill
      <3>6. seen # NoWrite
        BY <2>2, <2>6, <3>1, ConstantsAssumption DEF TypeInv, TypeOK
      <3>7. mine \cup {n} = work[t].rows \cup A \cup {n}
        BY <2>6
      <3>. HIDE DEF mine, A
      <3>8. /\ pc'[t] = place /\ Others(t)
            /\ inst'[t] = Read(inst[t].status, inst[t].ref, seen)
            /\ work'[t] = Writes(work[t].status, work[t].ref, to, work[t].rows \cup A \cup {n})
        BY <2>1, <3>5, <3>7 DEF Others, TypeInv, TypeOK
      <3>9. n.by = t /\ n.table = "notification"
        BY <2>4, <3>3
      <3>. QED BY <2>3, <2>6, <3>6, <3>8, <3>9
    <2>. QED BY <2>5, <2>6
  <1>18. CASE WriteBill(t)
    <2>1. /\ pc[t] = "billwrite" /\ UNCHANGED <<req, inst, work>>
          /\ pc' = [pc EXCEPT ![t] = "commit"]
      BY <1>18 DEF WriteBill
    <2>2. work' = [work EXCEPT ![t] = work[t]]
      BY <2>1 DEF TypeInv, TypeOK
    <2>3. Prepared(t, "commit", req[t], inst[t], work[t])
      BY <1>1, <2>1, BillWrittenPrepared
    <2>. QED BY <1>2, <2>1, <2>2, <2>3
  <1>19. CASE Commit(t)
    BY <1>19, RollbackPrepared DEF Commit
  <1>. QED BY <1>4, <1>5, <1>6, <1>8, <1>10, <1>11, <1>13, <1>14, <1>15, <1>16, <1>17, <1>18, <1>19
           DEF Step

-----------------------------------------------------------------------------
(***************************************************************************)
(* What a step of request t may do while it publishes nothing: the guards  *)
(* under which it starts, reads, locks and stages.  Commit, the one step   *)
(* that publishes, is treated by itself.                                   *)
(***************************************************************************)
StagingOnly(t) == UNCHANGED <<payment, bill, rows>> /\ Others(t)

Locks(t) ==
  \A p \in Payments :
    \/ lock'[p] = lock[p]
    \/ lock[p] \in {t, NoTxn} /\ lock'[p] = t /\ Exists(p)
    \/ lock[p] = t /\ lock'[p] = NoTxn /\ req'[t] = NoRequest

StartsAlone(t) ==
  \A p \in Payments : Starts(t, p)' => Starts(t, p) \/ (~Exists(p) /\ \A u \in Txns : ~Starts(u, p))

ReadsFresh(t) ==
  \A p \in Payments : IsFor(t, p)' /\ ~Starts(t, p)' /\ inst'[t].status # Absent =>
    \/ IsFor(t, p) /\ ~Starts(t, p) /\ inst'[t].status = inst[t].status /\ Open(t)
    \/ Exists(p) /\ inst'[t].status = payment[p].status /\ MayReadPayment(t, p)

WritesLocked(t) ==
  \A p \in Payments : IsFor(t, p)' /\ ~Starts(t, p)' /\ work'[t].status # NoWrite => lock'[p] = t

KeyGuarded(t) ==
  \A p \in Payments : Starts(t, p)' /\ work'[t].status # NoWrite =>
    \/ Starts(t, p) /\ work[t].status # NoWrite
    \/ Starts(t, p) /\ ~KeyPending(p) /\ ~KeyTaken(p)

EventGuarded(t) ==
  \A e \in Events : EventRows(work'[t].rows, e) # {} =>
    \/ EventRows(work[t].rows, e) # {}
    \/ EventRows(rows, e) = {} /\ ~EventPending(e)

ReceiptGuarded(t) ==
  \A p \in Payments : Holds(work'[t].rows, "receipt", "RECEIPT", p) =>
    \/ Holds(work[t].rows, "receipt", "RECEIPT", p)
    \/ Rows("receipt", "RECEIPT", p) = {}

BillReadFresh(t) ==
  \A b \in Bills : HasReadBill(t, b)' =>
    \/ HasReadBill(t, b) /\ inst'[t].bill = inst[t].bill
    \/ inst'[t].bill = bill[b] /\ MayReadBill(t, b)

\* the bill status staged, and the allocations it was computed from
BillStaged(t) ==
  \A b \in Bills : HasReadBill(t, b)' =>
    \/ /\ HasReadBill(t, b) /\ work'[t].bill = work[t].bill
       /\ Allocations(work'[t].rows, b) = Allocations(work[t].rows, b)
    \/ work'[t].bill \in {NoWrite, "CANCELLED"} /\ Allocations(work'[t].rows, b) = {}
    \/ \E p \in Payments :
         /\ BillOf[p] = b /\ Allocations(work[t].rows, b) = {}
         /\ Allocations(work'[t].rows, b) = {NewRow("allocation", "ALLOCATION", p, t, Amount[p])}
         /\ work'[t].bill = BillAfterAllocation(inst'[t].bill, b, rows \cup work'[t].rows)

Guarded(t) ==
  /\ StagingOnly(t) /\ Locks(t) /\ StartsAlone(t) /\ ReadsFresh(t) /\ WritesLocked(t)
  /\ KeyGuarded(t) /\ EventGuarded(t) /\ ReceiptGuarded(t) /\ BillReadFresh(t) /\ BillStaged(t)
  /\ req'[t].op = "callback" => req'[t].payment = req'[t].event.payment

LEMMA NoWorkIs ==
  /\ NoWork.status = NoWrite /\ NoWork.bill = NoWrite /\ NoWork.rows = {}
  /\ NoInstance.status = Absent /\ NoInstance.bill = NoWrite /\ NoRequest.op = "none"
  /\ \A e : EventRows({}, e) = {}
  /\ \A b : Allocations({}, b) = {}
  /\ \A table, type, p : ~Holds({}, table, type, p)
  BY DEF NoWork, Inserts, Writes, NoInstance, Read, NoRequest, EventRows, Allocations, Holds

LEMMA RollbackGuarded ==
  ASSUME TypeInv, PreparedInv, NEW t \in Txns, Rollback(t)
  PROVE  Guarded(t)
  <1>1. /\ req'[t] = NoRequest /\ inst'[t] = NoInstance /\ work'[t] = NoWork /\ StagingOnly(t)
        /\ pc'[t] = "aborted" /\ \A p \in Payments : lock'[p] = IF lock[p] = t THEN NoTxn ELSE lock[p]
    BY DEF Rollback, End, LocksReleased, StagingOnly, Others, TypeInv, TypeOK
  <1>2. Locks(t) /\ StartsAlone(t) /\ ReadsFresh(t) /\ WritesLocked(t) /\ KeyGuarded(t)
    BY <1>1, NoWorkIs DEF Locks, StartsAlone, ReadsFresh, WritesLocked, KeyGuarded, Starts, IsFor
  <1>3. EventGuarded(t) /\ ReceiptGuarded(t) /\ BillReadFresh(t) /\ BillStaged(t)
    BY <1>1, NoWorkIs DEF EventGuarded, ReceiptGuarded, BillReadFresh, BillStaged, HasReadBill
  <1>. QED BY <1>1, <1>2, <1>3, NoWorkIs DEF Guarded

\* a request that begins, with nothing staged
LEMMA FreshGuarded ==
  ASSUME TypeInv, PreparedInv, NEW t \in Txns, pc[t] = "idle", StagingOnly(t), UNCHANGED lock,
         NEW q, NEW i, NEW w, req'[t] = q, inst'[t] = i, work'[t] = w,
         w.status = NoWrite, \A r \in w.rows : r.table \in {"callback", "webhook"},
         \A e : EventRows(w.rows, e) = {},
         w.bill \in {NoWrite, "CANCELLED"},
         \A p \in Payments : q.op = "initiate" /\ q.payment = p =>
            ~Exists(p) /\ \A u \in Txns : ~Starts(u, p),
         \A p \in Payments : ForPayment(q, p) /\ q.op # "initiate" /\ i.status # Absent =>
            Exists(p) /\ i.status = payment[p].status /\ MayReadPayment(t, p),
         \A b \in Bills : i.bill # NoWrite /\ BillFor(q) = b => i.bill = bill[b] /\ MayReadBill(t, b),
         q.op = "callback" => q.payment = q.event.payment
  PROVE  Guarded(t)
  <1>1. work[t] = NoWork /\ inst[t] = NoInstance
    BY DEF PreparedInv, Prepared, Early, Ended
  <1>2. Locks(t)
    BY DEF Locks
  <1>3. StartsAlone(t)
    BY DEF StartsAlone, Starts
  <1>4. ReadsFresh(t)
    BY DEF ReadsFresh, Starts, IsFor, ForPayment
  <1>5. WritesLocked(t) /\ KeyGuarded(t)
    BY DEF WritesLocked, KeyGuarded
  <1>6. EventGuarded(t) /\ ReceiptGuarded(t)
    BY DEF EventGuarded, ReceiptGuarded, Holds
  <1>7. BillReadFresh(t)
    BY DEF BillReadFresh, HasReadBill, BillIn, BillFor
  <1>8. BillStaged(t)
    <2>1. \A b : Allocations(w.rows, b) = {} /\ Allocations(work[t].rows, b) = {}
      BY <1>1, NoWorkIs DEF Allocations
    <2>2. work[t].bill = NoWrite
      BY <1>1, NoWorkIs
    <2>. QED BY <2>1, <2>2 DEF BillStaged
  <1>. QED BY <1>2, <1>3, <1>4, <1>5, <1>6, <1>7, <1>8 DEF Guarded

LEMMA BeginGuarded ==
  ASSUME TypeInv, PreparedInv, HoldInv, NEW t \in Txns, Begin(t)
  PROVE  Guarded(t)
  <1>1. pc[t] = "idle"
    BY DEF Begin, BeginInitiate, BeginQuery, BeginCompensation, BeginCallback, BeginCancelBill
  <1>2. req[t] = NoRequest /\ inst[t] = NoInstance /\ work[t] = NoWork
    BY <1>1 DEF PreparedInv, Prepared, Early, Ended
  <1>3. ASSUME UNCHANGED <<db, lock>>, NEW q, NEW i, NEW place,
               pc' = [pc EXCEPT ![t] = place], UNCHANGED work,
               req'[t] = q, inst'[t] = i,
               \A u \in Txns \ {t} : req'[u] = req[u] /\ inst'[u] = inst[u],
               \A p \in Payments : q.op = "initiate" /\ q.payment = p =>
                  ~Exists(p) /\ \A u \in Txns : ~Starts(u, p),
               \A p \in Payments : ForPayment(q, p) /\ q.op # "initiate" /\ i.status # Absent =>
                  Exists(p) /\ i.status = payment[p].status /\ MayReadPayment(t, p),
               \A b \in Bills : i.bill # NoWrite /\ BillFor(q) = b => i.bill = bill[b] /\ MayReadBill(t, b),
               q.op = "callback" => q.payment = q.event.payment
        PROVE  Guarded(t)
    <2>1. StagingOnly(t) /\ UNCHANGED lock /\ work'[t] = NoWork
      BY <1>2, <1>3 DEF db, StagingOnly, Others, TypeInv, TypeOK
    <2>2. /\ NoWork.status = NoWrite /\ \A r \in NoWork.rows : r.table \in {"callback", "webhook"}
          /\ \A e : EventRows(NoWork.rows, e) = {}
          /\ NoWork.bill \in {NoWrite, "CANCELLED"}
      BY NoWorkIs
    <2>. QED BY <1>1, <1>3, <2>1, <2>2, FreshGuarded
  <1>4. ASSUME UNCHANGED <<db, lock, req, inst, work>>, NEW place, pc' = [pc EXCEPT ![t] = place]
        PROVE  Guarded(t)
    <2>1. /\ UNCHANGED <<db, lock>> /\ UNCHANGED work /\ req'[t] = NoRequest /\ inst'[t] = NoInstance
          /\ \A u \in Txns \ {t} : req'[u] = req[u] /\ inst'[u] = inst[u]
      BY <1>2, <1>4
    <2>2. /\ NoRequest.op \notin {"initiate", "callback"}
          /\ \A p : ~ForPayment(NoRequest, p)
          /\ NoInstance.bill = NoWrite
      BY NoWorkIs DEF ForPayment
    <2>. QED BY <1>3, <1>4, <2>1, <2>2
  <1>5. ASSUME NEW p \in Payments, NEW portal \in BOOLEAN, BeginInitiate(t, p, portal)
        PROVE  Guarded(t)
    <2>1. CASE KeyTaken(p)
      BY <1>4, <1>5, <2>1 DEF BeginInitiate
    <2>2. CASE ~KeyTaken(p)
      <3>1. PICK q : q = [op |-> "initiate", payment |-> p, portal |-> portal]
        OBVIOUS
      <3>2. PICK i : i = Read("INITIATED", FALSE, IF portal THEN bill[BillOf[p]] ELSE NoWrite)
        OBVIOUS
      <3>3. /\ pc' = [pc EXCEPT ![t] = "insert"] /\ req' = [req EXCEPT ![t] = q]
            /\ inst' = [inst EXCEPT ![t] = i] /\ UNCHANGED <<db, lock, work>>
            /\ portal => BillOf[p] # NoBill /\ MayReadBill(t, BillOf[p])
            /\ payment[p].status = Absent
            /\ \A u \in Txns : req[u].op = "initiate" => req[u].payment # p
        BY <1>5, <2>2, <3>1, <3>2 DEF BeginInitiate
      <3>4. q.op = "initiate" /\ q.payment = p /\ BillFor(q) = BillOf[p]
        BY <3>1 DEF BillFor
      <3>5. i.bill = IF portal THEN bill[BillOf[p]] ELSE NoWrite
        BY <3>2 DEF Read
      <3>6. \A x \in Payments : q.op = "initiate" /\ q.payment = x =>
                  ~Exists(x) /\ \A u \in Txns : ~Starts(u, x)
        BY <3>3, <3>4 DEF Exists, Starts
      <3>7. \A b \in Bills : i.bill # NoWrite /\ BillFor(q) = b => i.bill = bill[b] /\ MayReadBill(t, b)
        BY <3>3, <3>4, <3>5
      <3>8. /\ req'[t] = q /\ inst'[t] = i
            /\ \A u \in Txns \ {t} : req'[u] = req[u] /\ inst'[u] = inst[u]
        BY <3>3 DEF TypeInv, TypeOK
      <3>9. StagingOnly(t) /\ work'[t] = NoWork /\ UNCHANGED lock
        BY <1>2, <3>3, <3>8 DEF db, StagingOnly, Others, TypeInv, TypeOK
      <3>10. \A x \in Payments : ForPayment(q, x) /\ q.op # "initiate" /\ i.status # Absent =>
                Exists(x) /\ i.status = payment[x].status /\ MayReadPayment(t, x)
        BY <3>4
      <3>11. q.op = "callback" => q.payment = q.event.payment
        BY <3>4
      <3>12. /\ NoWork.status = NoWrite /\ \A r \in NoWork.rows : r.table \in {"callback", "webhook"}
             /\ \A e : EventRows(NoWork.rows, e) = {}
             /\ NoWork.bill \in {NoWrite, "CANCELLED"}
        BY NoWorkIs
      <3>. QED BY <1>1, <3>6, <3>7, <3>8, <3>9, <3>10, <3>11, <3>12, FreshGuarded
    <2>. QED BY <2>1, <2>2
  <1>6. ASSUME NEW p \in Payments, NEW q, NEW place, UNCHANGED <<db, lock, work>>,
               q.payment = p, q.op \in {"query", "refund", "reverse"}, payment[p].status # Absent,
               pc' = [pc EXCEPT ![t] = place], req' = [req EXCEPT ![t] = q],
               ReadPayment(t, p)
        PROVE  Guarded(t)
    <2>1. PICK i : i = Read(payment[p].status, payment[p].ref, NoWrite)
      OBVIOUS
    <2>2. inst' = [inst EXCEPT ![t] = i] /\ MayReadPayment(t, p)
      BY <1>6, <2>1 DEF ReadPayment
    <2>3. i.status = payment[p].status /\ i.bill = NoWrite
      BY <2>1 DEF Read
    <2>4. \A x \in Payments : ForPayment(q, x) /\ q.op # "initiate" /\ i.status # Absent =>
                  Exists(x) /\ i.status = payment[x].status /\ MayReadPayment(t, x)
      BY <1>6, <2>2, <2>3 DEF ForPayment, Exists
    <2>5. /\ req'[t] = q /\ inst'[t] = i
          /\ \A u \in Txns \ {t} : req'[u] = req[u] /\ inst'[u] = inst[u]
      BY <1>6, <2>2 DEF TypeInv, TypeOK
    <2>6. q.op # "initiate" /\ q.op # "callback"
      BY <1>6
    <2>. QED BY <1>3, <1>6, <2>3, <2>4, <2>5, <2>6
  <1>7. ASSUME NEW p \in Payments, BeginQuery(t, p)
        PROVE  Guarded(t)
    <2>1. PICK q : q = [op |-> "query", payment |-> p]
      OBVIOUS
    <2>2. /\ q.payment = p /\ q.op \in {"query", "refund", "reverse"} /\ payment[p].status # Absent
          /\ pc' = [pc EXCEPT ![t] = "apply"] /\ req' = [req EXCEPT ![t] = q]
          /\ ReadPayment(t, p) /\ UNCHANGED <<db, lock, work>>
      BY <1>7, <2>1 DEF BeginQuery
    <2>. QED BY <1>6, <2>2
  <1>8. ASSUME NEW p \in Payments, NEW op \in {"refund", "reverse"}, BeginCompensation(t, p, op)
        PROVE  Guarded(t)
    <2>1. CASE payment[p].status # "SUCCESSFUL"
      BY <1>4, <1>8, <2>1 DEF BeginCompensation
    <2>2. CASE payment[p].status = "SUCCESSFUL"
      <3>1. PICK q : q = [op |-> op, payment |-> p]
        OBVIOUS
      <3>2. /\ q.payment = p /\ q.op \in {"query", "refund", "reverse"} /\ payment[p].status # Absent
            /\ pc' = [pc EXCEPT ![t] = "compensate"] /\ req' = [req EXCEPT ![t] = q]
            /\ ReadPayment(t, p) /\ UNCHANGED <<db, lock, work>>
        BY <1>8, <2>2, <3>1 DEF BeginCompensation
      <3>. QED BY <1>6, <3>2
    <2>. QED BY <2>1, <2>2
  <1>9. ASSUME NEW e \in Events, NEW verified \in BOOLEAN, BeginCallback(t, e, verified)
        PROVE  Guarded(t)
    <2>1. PICK q : q = [op |-> "callback", payment |-> e.payment, event |-> e]
      OBVIOUS
    <2>2. PICK w : w = IF verified THEN NoWork ELSE Inserts({NewRow("callback", "INVALID_SIGNATURE", e, t, 0)})
      OBVIOUS
    <2>3. /\ UNCHANGED <<payment, bill, rows, lock, inst>> /\ req' = [req EXCEPT ![t] = q]
          /\ verified => UNCHANGED work
          /\ ~verified => work' = [work EXCEPT ![t] = w]
      BY <1>9, <2>1, <2>2 DEF BeginCallback, db
    <2>4. PICK place : pc' = [pc EXCEPT ![t] = place]
      BY <1>9 DEF BeginCallback
    <2>5. /\ req'[t] = q /\ inst'[t] = NoInstance /\ work'[t] = w /\ StagingOnly(t)
      BY <1>2, <2>2, <2>3, <2>4 DEF StagingOnly, Others, TypeInv, TypeOK
    <2>6. /\ w.status = NoWrite /\ w.bill = NoWrite
          /\ \A r \in w.rows : r.table \in {"callback", "webhook"} /\ r.type = "INVALID_SIGNATURE"
      BY <2>2, NoWorkIs DEF Inserts, Writes, NewRow
    <2>7. \A x : EventRows(w.rows, x) = {}
      BY <2>6 DEF EventRows
    <2>8. q.op = "callback" /\ q.payment = q.event.payment
      BY <2>1
    <2>. QED BY <1>1, <2>3, <2>5, <2>6, <2>7, <2>8, NoWorkIs, FreshGuarded
  <1>10. ASSUME NEW b \in Bills, BeginCancelBill(t, b)
         PROVE  Guarded(t)
    <2>1. CASE "CANCELLED" \notin BillTransitions[bill[b]]
      BY <1>4, <1>10, <2>1 DEF BeginCancelBill
    <2>2. CASE "CANCELLED" \in BillTransitions[bill[b]]
      <3>1. PICK q : q = [op |-> "cancel", bill |-> b]
        OBVIOUS
      <3>2. PICK i : i = Read(Absent, FALSE, bill[b])
        OBVIOUS
      <3>3. PICK w : w = Writes(NoWrite, FALSE, "CANCELLED", {Dispatch(t, b, "bill.cancelled")})
        OBVIOUS
      <3>4. /\ pc' = [pc EXCEPT ![t] = "billwrite"] /\ req' = [req EXCEPT ![t] = q]
            /\ inst' = [inst EXCEPT ![t] = i] /\ work' = [work EXCEPT ![t] = w]
            /\ UNCHANGED <<payment, bill, rows, lock>> /\ MayReadBill(t, b)
        BY <1>10, <2>2, <3>1, <3>2, <3>3 DEF BeginCancelBill, db
      <3>5. /\ req'[t] = q /\ inst'[t] = i /\ work'[t] = w /\ StagingOnly(t)
        BY <3>4 DEF StagingOnly, Others, TypeInv, TypeOK
      <3>6. /\ q.op = "cancel" /\ BillFor(q) = b /\ i.bill = bill[b]
            /\ w.status = NoWrite /\ w.bill = "CANCELLED"
            /\ \A r \in w.rows : r.table = "webhook"
        BY <3>1, <3>2, <3>3 DEF BillFor, Read, Writes, Dispatch, NewRow
      <3>7. \A x : EventRows(w.rows, x) = {}
        BY <3>6 DEF EventRows
      <3>8. \A p : ~ForPayment(q, p)
        BY <3>6 DEF ForPayment
      <3>9. /\ \A r \in w.rows : r.table \in {"callback", "webhook"}
            /\ w.bill \in {NoWrite, "CANCELLED"}
            /\ \A p \in Payments : q.op = "initiate" /\ q.payment = p =>
                  ~Exists(p) /\ \A u \in Txns : ~Starts(u, p)
            /\ \A x \in Bills : i.bill # NoWrite /\ BillFor(q) = x => i.bill = bill[x] /\ MayReadBill(t, x)
            /\ q.op = "callback" => q.payment = q.event.payment
        BY <3>4, <3>6
      <3>. QED BY <1>1, <3>4, <3>5, <3>6, <3>7, <3>8, <3>9, FreshGuarded
    <2>. QED BY <2>1, <2>2
  <1>. QED BY <1>5, <1>7, <1>8, <1>9, <1>10 DEF Begin

-----------------------------------------------------------------------------
LEMMA NoneAdded ==
  ASSUME NEW X, NEW R, \A r \in R : r.table \notin {"callback", "allocation"}
  PROVE  /\ \A e : EventRows(X \cup R, e) = EventRows(X, e)
         /\ \A b : Allocations(X \cup R, b) = Allocations(X, b)
  BY DEF EventRows, Allocations

LEMMA OutcomeRowsGuarded ==
  ASSUME NEW t, NEW p, NEW o \in ProviderOutcome
  PROVE  \A r \in OutcomeRows(t, p, o) :
           /\ r.table \notin {"callback", "allocation"} /\ r.of = p
           /\ r.table = "receipt" => Rows("receipt", "RECEIPT", p) = {}
  <1>1. CASE o = "successful"
    <2>1. \A r \in OutcomeRows(t, p, "successful") :
              /\ r.by = t /\ r.of = p /\ r.table \in {"ledger", "revenue", "receipt", "webhook"}
              /\ r.table = "receipt" => Rows("receipt", "RECEIPT", p) = {}
      BY SuccessRowsAre
    <2>. QED BY <1>1, <2>1
  <1>2. CASE o # "successful"
    <2>1. \A r \in OutcomeRows(t, p, o) :
            r.by = t /\ r.of = p /\ r.table \in {"revenue", "notification", "webhook"}
      BY <1>2, OutcomeRowsAre
    <2>. QED BY <2>1
  <1>. QED BY <1>1, <1>2

LEMMA LockGuarded ==
  ASSUME TypeInv, NEW t \in Txns, NEW p \in Payments, Exists(p), Lockable(t, p),
         lock' = [lock EXCEPT ![p] = t]
  PROVE  Locks(t) /\ lock'[p] = t
  BY DEF TypeInv, TypeOK, Locks, Lockable

\* a step of a request that has begun, on what it has read before
LEMMA WriteGuarded ==
  ASSUME TypeInv, PreparedInv, HoldInv, NEW t \in Txns, Open(t), StagingOnly(t), Locks(t),
         req'[t] = req[t], inst'[t] = inst[t], NEW w, work'[t] = w,
         \A p \in Payments : IsFor(t, p) /\ ~Starts(t, p) /\ w.status # NoWrite => lock'[p] = t,
         \A p \in Payments : Starts(t, p) /\ w.status # NoWrite /\ work[t].status = NoWrite
                                => ~KeyPending(p) /\ ~KeyTaken(p),
         \A e \in Events : EventRows(w.rows, e) # {} /\ EventRows(work[t].rows, e) = {}
                                => EventRows(rows, e) = {} /\ ~EventPending(e),
         \A p \in Payments : Holds(w.rows, "receipt", "RECEIPT", p) =>
            Holds(work[t].rows, "receipt", "RECEIPT", p) \/ Rows("receipt", "RECEIPT", p) = {},
         w.bill = work[t].bill, \A b \in Bills : Allocations(w.rows, b) = Allocations(work[t].rows, b)
  PROVE  Guarded(t)
  <1>1. StartsAlone(t)
    BY DEF StartsAlone, Starts
  <1>2. ReadsFresh(t)
    BY DEF ReadsFresh, IsFor, Starts
  <1>3. WritesLocked(t)
    BY DEF WritesLocked, IsFor, Starts
  <1>4. KeyGuarded(t)
    BY DEF KeyGuarded, Starts
  <1>5. EventGuarded(t) /\ ReceiptGuarded(t)
    BY DEF EventGuarded, ReceiptGuarded
  <1>6. BillReadFresh(t)
    <2>1. \A b : HasReadBill(t, b)' => HasReadBill(t, b)
      BY DEF HasReadBill, BillIn
    <2>. QED BY <2>1 DEF BillReadFresh
  <1>7. BillStaged(t)
    <2>1. \A b : HasReadBill(t, b)' => HasReadBill(t, b)
      BY DEF HasReadBill, BillIn
    <2>. QED BY <2>1 DEF BillStaged
  <1>8. req'[t].op = "callback" => req'[t].payment = req'[t].event.payment
    BY DEF HoldInv
  <1>. QED BY <1>1, <1>2, <1>3, <1>4, <1>5, <1>6, <1>7, <1>8 DEF Guarded

\* the request that asks the provider to start a payment
LEMMA InsertGuarded ==
  ASSUME TypeInv, PreparedInv, HoldInv, NEW t \in Txns, CallProvider(t),
         NEW s, NEW f, NEW R, NEW place,
         work' = [work EXCEPT ![t] = Writes(s, f, NoWrite, R)], pc' = [pc EXCEPT ![t] = place],
         \A r \in R : /\ r.table \notin {"callback", "allocation"} /\ r.of = req[t].payment
                      /\ r.table = "receipt" => Rows("receipt", "RECEIPT", r.of) = {}
  PROVE  Guarded(t)
  <1>. DEFINE w == Writes(s, f, NoWrite, R)
  <1>1. /\ pc[t] = "insert" /\ UNCHANGED <<payment, bill, rows, lock, req, inst>>
        /\ ~KeyPending(req[t].payment) /\ ~KeyTaken(req[t].payment)
    BY DEF CallProvider, db
  <1>2. w.status = s /\ w.bill = NoWrite /\ w.rows = R
    BY DEF Writes
  <1>3. work[t] = NoWork
    BY <1>1 DEF PreparedInv, Prepared, Early
  <1>. HIDE DEF w
  <1>4. StagingOnly(t) /\ work'[t] = w /\ req'[t] = req[t] /\ inst'[t] = inst[t]
    BY <1>1 DEF StagingOnly, Others, TypeInv, TypeOK, w
  <1>5. Locks(t) /\ Open(t)
    BY <1>1 DEF Locks, Open
  <1>6. \A p \in Payments : IsFor(t, p) /\ ~Starts(t, p) => FALSE
    BY <1>1 DEF IsFor, Starts, TypeInv, ReqOK, InitiateRequest
  <1>7. \A p \in Payments : Starts(t, p) => ~KeyPending(p) /\ ~KeyTaken(p)
    BY <1>1 DEF Starts
  <1>8. /\ \A e : EventRows(w.rows, e) = {}
        /\ \A b : Allocations(w.rows, b) = {} /\ Allocations(work[t].rows, b) = {}
        /\ w.bill = work[t].bill
    BY <1>2, <1>3, NoWorkIs DEF EventRows, Allocations
  <1>9. \A p \in Payments : Holds(w.rows, "receipt", "RECEIPT", p) => Rows("receipt", "RECEIPT", p) = {}
    BY <1>2 DEF Holds
  <1>. QED BY <1>4, <1>5, <1>6, <1>7, <1>8, <1>9, WriteGuarded

\* process_callback: the event's row, and the lookup of its payment
LEMMA CallbackGuarded ==
  ASSUME TypeInv, PreparedInv, HoldInv, NEW t \in Txns, RecordEvent(t) \/ MatchPayment(t)
  PROVE  Guarded(t)
  <1>. DEFINE e == req[t].event
              p == req[t].payment
  <1>1. /\ req[t].op = "callback" /\ e.payment = p /\ p \in Payments /\ e \in Events
        /\ UNCHANGED <<payment, bill, rows, lock, req>> /\ Open(t)
    <2>1. pc[t] \in {"event", "lookup"} /\ UNCHANGED <<payment, bill, rows, lock, req>>
      BY DEF RecordEvent, MatchPayment, db
    <2>2. req[t].op = "callback" /\ p \in Payments /\ e \in Events
      BY <2>1 DEF TypeInv, ReqOK, CallbackRequest
    <2>. QED BY <2>1, <2>2 DEF HoldInv, Open
  <1>2. \A x : ~Starts(t, x) /\ Locks(t)
    BY <1>1 DEF Starts, Locks
  <1>3. ASSUME NEW w, work' = [work EXCEPT ![t] = w], NEW place, pc' = [pc EXCEPT ![t] = place],
               UNCHANGED inst, w.status = NoWrite, w.bill = NoWrite, work[t].bill = NoWrite,
               \A r \in w.rows \cup work[t].rows : r.table \in {"callback", "revenue"},
               \A x \in Events : EventRows(w.rows, x) # {} /\ EventRows(work[t].rows, x) = {}
                                => EventRows(rows, x) = {} /\ ~EventPending(x)
        PROVE  Guarded(t)
    <2>1. StagingOnly(t) /\ work'[t] = w /\ req'[t] = req[t] /\ inst'[t] = inst[t]
      BY <1>1, <1>3 DEF StagingOnly, Others, TypeInv, TypeOK
    <2>2. /\ \A b : Allocations(w.rows, b) = {} /\ Allocations(work[t].rows, b) = {}
          /\ \A x : ~Holds(w.rows, "receipt", "RECEIPT", x)
      BY <1>3 DEF Allocations, Holds
    <2>. QED BY <1>1, <1>2, <1>3, <2>1, <2>2, WriteGuarded
  <1>4. CASE RecordEvent(t)
    <2>1. work[t] = NoWork /\ ~EventPending(e)
      BY <1>4 DEF RecordEvent, PreparedInv, Prepared, Early
    <2>2. work[t].bill = NoWrite /\ work[t].rows = {}
      BY <2>1, NoWorkIs
    <2>3. CASE EventRows(rows, e) = {}
      <3>1. PICK w : w = Inserts({NewRow("callback", "PROCESSED", e, t, 0)})
        OBVIOUS
      <3>2. work' = [work EXCEPT ![t] = w] /\ UNCHANGED inst
        BY <1>4, <2>3, <3>1 DEF RecordEvent
      <3>3. PICK place : pc' = [pc EXCEPT ![t] = place]
        BY <1>4 DEF RecordEvent
      <3>4. /\ w.status = NoWrite /\ w.bill = NoWrite
            /\ \A r \in w.rows : r.table = "callback" /\ r.of = e
        BY <3>1 DEF Inserts, Writes, NewRow
      <3>5. \A x \in Events : EventRows(w.rows, x) # {} => x = e
        BY <3>4 DEF EventRows
      <3>6. /\ \A r \in w.rows \cup work[t].rows : r.table \in {"callback", "revenue"}
            /\ \A x \in Events : EventRows(w.rows, x) # {} => EventRows(rows, x) = {} /\ ~EventPending(x)
        BY <2>1, <2>2, <2>3, <3>4, <3>5
      <3>. QED BY <1>3, <2>2, <3>2, <3>3, <3>4, <3>6
    <2>4. CASE EventRows(rows, e) # {}
      <3>1. PICK w : w = Inserts({NewRow("callback", "DUPLICATE", e, t, 0)}
                              \cup IF Rows("callback", "PROCESSED", e) = {} THEN {}
                                   ELSE {RevenueEvent(t, e.payment, "PAYMENT_DUPLICATE", 0)})
        OBVIOUS
      <3>2. work' = [work EXCEPT ![t] = w] /\ UNCHANGED inst
        BY <1>4, <2>4, <3>1 DEF RecordEvent
      <3>3. PICK place : pc' = [pc EXCEPT ![t] = place]
        BY <1>4 DEF RecordEvent
      <3>4. /\ w.status = NoWrite /\ w.bill = NoWrite
            /\ \A r \in w.rows : r.table \in {"callback", "revenue"} /\ r.type \in {"DUPLICATE", "PAYMENT_DUPLICATE"}
        BY <3>1 DEF Inserts, Writes, NewRow, RevenueEvent
      <3>5. \A x \in Events : EventRows(w.rows, x) = {}
        BY <3>4 DEF EventRows
      <3>. QED BY <1>3, <2>2, <3>2, <3>3, <3>4, <3>5
    <2>. QED BY <2>3, <2>4
  <1>5. CASE MatchPayment(t)
    <2>1. /\ work[t].bill = NoWrite /\ work[t].status = NoWrite
          /\ work[t].rows = {NewRow("callback", "PROCESSED", e, t, 0)}
      <3>1. work[t] = Inserts({NewRow("callback", "PROCESSED", e, t, 0)})
        BY <1>5 DEF MatchPayment, PreparedInv, Prepared, Early
      <3>. QED BY <3>1 DEF Inserts, Writes
    <2>2. CASE payment[p].ref
      <3>1. PICK i : i = Read(payment[p].status, payment[p].ref, NoWrite)
        OBVIOUS
      <3>2. inst' = [inst EXCEPT ![t] = i] /\ UNCHANGED work /\ MayReadPayment(t, p)
        BY <1>5, <2>2, <3>1 DEF MatchPayment, ReadPayment
      <3>3. PICK place : pc' = [pc EXCEPT ![t] = place]
        BY <1>5 DEF MatchPayment
      <3>4. StagingOnly(t) /\ work'[t] = work[t] /\ req'[t] = req[t] /\ inst'[t] = i
        BY <1>1, <3>2, <3>3 DEF StagingOnly, Others, TypeInv, TypeOK
      <3>5. i.status = payment[p].status /\ i.bill = NoWrite
        BY <3>1 DEF Read
      <3>6. Exists(p)
        BY <1>1, <2>2 DEF HoldInv
      <3>7. StartsAlone(t) /\ KeyGuarded(t) /\ EventGuarded(t) /\ ReceiptGuarded(t)
        BY <1>2, <3>4 DEF StartsAlone, Starts, KeyGuarded, EventGuarded, ReceiptGuarded
      <3>8. ReadsFresh(t)
        BY <3>2, <3>4, <3>5, <3>6 DEF ReadsFresh, IsFor
      <3>9. WritesLocked(t)
        BY <2>1, <3>4 DEF WritesLocked
      <3>10. BillReadFresh(t) /\ BillStaged(t)
        <4>1. \A b : ~HasReadBill(t, b)'
          BY <3>4, <3>5 DEF HasReadBill
        <4>. QED BY <4>1 DEF BillReadFresh, BillStaged
      <3>11. req'[t].op = "callback" => req'[t].payment = req'[t].event.payment
        BY <1>1, <3>4
      <3>. QED BY <1>2, <3>4, <3>7, <3>8, <3>9, <3>10, <3>11 DEF Guarded
    <2>3. CASE ~payment[p].ref
      <3>1. PICK w : w = Inserts({NewRow("callback", "UNMATCHED", e, t, 0)})
        OBVIOUS
      <3>2. work' = [work EXCEPT ![t] = w] /\ UNCHANGED inst
        BY <1>5, <2>3, <3>1 DEF MatchPayment
      <3>3. PICK place : pc' = [pc EXCEPT ![t] = place]
        BY <1>5 DEF MatchPayment
      <3>4. /\ w.status = NoWrite /\ w.bill = NoWrite
            /\ \A r \in w.rows : r.table = "callback" /\ r.of = e
        BY <3>1 DEF Inserts, Writes, NewRow
      <3>5. \A x \in Events : EventRows(w.rows, x) # {} => x = e
        BY <3>4 DEF EventRows
      <3>6. PICK n : n = NewRow("callback", "PROCESSED", e, t, 0)
        OBVIOUS
      <3>7. n.table = "callback" /\ n.of = e /\ n.type = "PROCESSED" /\ work[t].rows = {n}
        BY <2>1, <3>6 DEF NewRow
      <3>8. n \in EventRows(work[t].rows, e)
        BY <3>7 DEF EventRows
      <3>9. /\ \A r \in w.rows \cup work[t].rows : r.table \in {"callback", "revenue"}
            /\ \A x \in Events : EventRows(w.rows, x) # {} => EventRows(work[t].rows, x) # {}
        BY <3>4, <3>5, <3>7, <3>8
      <3>. QED BY <1>3, <2>1, <3>2, <3>3, <3>4, <3>9
    <2>. QED BY <2>2, <2>3
  <1>. QED BY <1>4, <1>5

\* _apply_outcome and _compensate: the UPDATE takes the payment's lock
LEMMA UpdateGuarded ==
  ASSUME TypeInv, PreparedInv, HoldInv, NEW t \in Txns,
         pc[t] \in {"apply", "compensate"}, UNCHANGED <<payment, bill, rows, req, inst>>,
         NEW w, work' = [work EXCEPT ![t] = w], NEW place, pc' = [pc EXCEPT ![t] = place],
         w.bill = NoWrite,
         w.status = NoWrite => UNCHANGED lock \/
            (Lockable(t, req[t].payment) /\ lock' = [lock EXCEPT ![req[t].payment] = t]),
         w.status # NoWrite =>
            Lockable(t, req[t].payment) /\ lock' = [lock EXCEPT ![req[t].payment] = t],
         NEW R, w.rows = work[t].rows \cup R,
         \A r \in R : /\ r.table \notin {"callback", "allocation"} /\ r.of = req[t].payment
                      /\ r.table = "receipt" => Rows("receipt", "RECEIPT", r.of) = {}
  PROVE  Guarded(t)
  <1>. DEFINE p == req[t].payment
  <1>1. /\ req[t].op \in {"query", "callback", "refund", "reverse"} /\ p \in Payments
        /\ \A x : IsFor(t, x) => x = p
        /\ IsFor(t, p)
    BY DEF TypeInv, ReqOK, CallbackRequest, QueryRequest, UndoRequest, IsFor
  <1>2. work[t].bill = NoWrite /\ work[t].status = NoWrite /\ inst[t].status \in Status
    <2>1. Prepared(t, pc[t], req[t], inst[t], work[t])
      BY DEF PreparedInv
    <2>2. inst[t].status \in Status
      BY <2>1 DEF Prepared, LegalMove
    <2>3. pc[t] = "compensate" => work[t] = NoWork
      BY <2>1 DEF Prepared, Early
    <2>4. pc[t] = "apply" => work[t].bill = NoWrite /\ work[t].status = NoWrite
      BY <2>1 DEF Prepared, Early
    <2>. QED BY <2>2, <2>3, <2>4, NoWorkIs
  <1>3. \A x : ~Starts(t, x)
    BY <1>1 DEF Starts
  <1>4. Exists(p)
    BY <1>1, <1>2, <1>3, ConstantsAssumption DEF HoldInv
  <1>5. StagingOnly(t) /\ work'[t] = w /\ req'[t] = req[t] /\ inst'[t] = inst[t] /\ Open(t)
    BY DEF StagingOnly, Others, Open, TypeInv, TypeOK
  <1>6. UNCHANGED lock => Locks(t)
    BY DEF Locks
  <1>7. Lockable(t, p) /\ lock' = [lock EXCEPT ![p] = t] => Locks(t) /\ lock'[p] = t
    BY <1>1, <1>4, LockGuarded
  <1>8. Locks(t) /\ (w.status # NoWrite => lock'[p] = t)
    BY <1>6, <1>7
  <1>9. /\ \A e : EventRows(w.rows, e) = EventRows(work[t].rows, e)
        /\ \A b : Allocations(w.rows, b) = Allocations(work[t].rows, b)
    <2>1. \A r \in R : r.table \notin {"callback", "allocation"}
      OBVIOUS
    <2>2. PICK X : X = work[t].rows
      OBVIOUS
    <2>3. /\ \A e : EventRows(X \cup R, e) = EventRows(X, e)
          /\ \A b : Allocations(X \cup R, b) = Allocations(X, b)
      BY <2>1, NoneAdded
    <2>. QED BY <2>2, <2>3
  <1>10. \A x \in Payments : Holds(w.rows, "receipt", "RECEIPT", x) =>
            Holds(work[t].rows, "receipt", "RECEIPT", x) \/ Rows("receipt", "RECEIPT", x) = {}
    <2>1. ASSUME NEW x \in Payments, Holds(w.rows, "receipt", "RECEIPT", x),
                 ~Holds(work[t].rows, "receipt", "RECEIPT", x)
          PROVE  Rows("receipt", "RECEIPT", x) = {}
      <3>1. PICK r \in w.rows : r.table = "receipt" /\ r.type = "RECEIPT" /\ r.of = x
        BY <2>1 DEF Holds
      <3>2. r \in R
        BY <2>1, <3>1 DEF Holds
      <3>. QED BY <3>1, <3>2
    <2>. QED BY <2>1
  <1>11. \A x \in Payments : IsFor(t, x) /\ w.status # NoWrite => lock'[x] = t
    BY <1>1, <1>8
  <1>12. /\ \A x \in Payments : IsFor(t, x) /\ ~Starts(t, x) /\ w.status # NoWrite => lock'[x] = t
         /\ \A x \in Payments : Starts(t, x) /\ w.status # NoWrite /\ work[t].status = NoWrite
                                  => ~KeyPending(x) /\ ~KeyTaken(x)
         /\ \A e \in Events : EventRows(w.rows, e) # {} /\ EventRows(work[t].rows, e) = {}
                                  => EventRows(rows, e) = {} /\ ~EventPending(e)
         /\ w.bill = work[t].bill
         /\ \A x \in Bills : Allocations(w.rows, x) = Allocations(work[t].rows, x)
    BY <1>2, <1>3, <1>9, <1>11
  <1>. QED BY ONLY TypeInv, PreparedInv, HoldInv, t \in Txns, <1>5, <1>8, <1>10, <1>12, WriteGuarded

\* _allocate_to_bill
LEMMA AllocateGuarded ==
  ASSUME TypeInv, PreparedInv, HoldInv, NEW t \in Txns, AllocateToBill(t)
  PROVE  Guarded(t)
  <1>0. PICK p, b : p = req[t].payment /\ b = BillOf[p]
    OBVIOUS
  <1>1. /\ pc[t] = "allocate" /\ UNCHANGED <<payment, bill, rows, lock, req>> /\ Open(t)
        /\ Prepared(t, "allocate", req[t], inst[t], work[t])
    BY DEF AllocateToBill, db, Open, PreparedInv
  <1>2. /\ p \in Payments /\ req[t].op \in {"initiate", "query", "callback"} /\ ForPayment(req[t], p)
        /\ BillIn(t) = b /\ IsFor(t, p) /\ \A x : IsFor(t, x) => x = p
    BY <1>0, <1>1 DEF TypeInv, ReqOK, InitiateRequest, QueryRequest, CallbackRequest, ForPayment, BillIn, IsFor
  <1>3. /\ work[t].status = "SUCCESSFUL" /\ work[t].status # NoWrite
        /\ \A r \in work[t].rows : r.table = "allocation" => FALSE
    <2>1. work[t].status = "SUCCESSFUL"
      BY <1>1 DEF Prepared, LegalMove
    <2>2. ASSUME NEW r \in work[t].rows, r.table = "allocation"
          PROVE  FALSE
      <3>1. r \in Row /\ ForPayment(req[t], r.of)
        BY <1>1, <2>2 DEF Prepared, OwnRows, BookTables, TypeInv, TypeOK, Work
      <3>2. r.of = p /\ r.type = "ALLOCATION"
        BY <1>0, <2>2, <3>1 DEF ForPayment, Row, TableRow
      <3>3. ~Holds(work[t].rows, "allocation", "ALLOCATION", p)
        BY <1>1, <1>2 DEF Prepared, StagedBooks
      <3>. QED BY <2>2, <3>2, <3>3 DEF Holds
    <2>3. "SUCCESSFUL" # NoWrite
      BY ConstantsAssumption DEF Status
    <2>. QED BY <2>1, <2>2, <2>3
  <1>4. \A x \in Payments : IsFor(t, x) /\ ~Starts(t, x) => lock[x] = t
    BY <1>3 DEF HoldInv
  <1>5. PICK A : A = {NewRow("allocation", "ALLOCATION", p, t, Amount[p])}
    OBVIOUS
  <1>6. \A x : Allocations(work[t].rows, x) = {}
    BY <1>3 DEF Allocations
  <1>7. \A r \in A : r.table = "allocation" /\ r.of = p
    BY <1>5 DEF NewRow
  <1>8. \A status : SuccessNotice(t, p, status).table = "notification"
    BY DEF SuccessNotice, Notify, NewRow
  <1>9. ASSUME NEW i, NEW w, NEW n, n.table = "notification", NEW B \in SUBSET A,
               i.status = inst[t].status, w.status = work[t].status,
               w.rows = work[t].rows \cup B \cup {n},
               pc'[t] \notin {"idle", "committed", "aborted"},
               inst'[t] = i, work'[t] = w, Others(t),
               HasReadBill(t, b)' => i.bill = inst[t].bill \/ (i.bill = bill[b] /\ MayReadBill(t, b)),
               HasReadBill(t, b)' /\ b \in Bills =>
                 B = A /\ w.bill = BillAfterAllocation(i.bill, b, rows \cup w.rows)
        PROVE  Guarded(t)
    <2>1. StagingOnly(t) /\ req'[t] = req[t] /\ Locks(t)
      BY <1>1, <1>9 DEF StagingOnly, Locks
    <2>2. StartsAlone(t)
      BY <2>1 DEF StartsAlone, Starts
    <2>3. ReadsFresh(t)
      BY <1>1, <1>9, <2>1 DEF ReadsFresh, IsFor, Starts
    <2>4. WritesLocked(t)
      BY <1>1, <1>4, <2>1 DEF WritesLocked, IsFor, Starts
    <2>5. KeyGuarded(t)
      BY <1>3, <2>1 DEF KeyGuarded, Starts
    <2>6. EventGuarded(t) /\ ReceiptGuarded(t)
      BY <1>7, <1>9 DEF EventGuarded, ReceiptGuarded, EventRows, Holds
    <2>7. \A x \in Bills : HasReadBill(t, x)' => x = b
      BY <1>2, <2>1 DEF HasReadBill, BillIn
    <2>8. BillReadFresh(t)
      <3>1. ASSUME NEW x \in Bills, HasReadBill(t, x)'
            PROVE  \/ HasReadBill(t, x) /\ inst'[t].bill = inst[t].bill
                   \/ inst'[t].bill = bill[x] /\ MayReadBill(t, x)
        <4>1. x = b /\ inst'[t].bill # NoWrite
          BY <2>7, <3>1 DEF HasReadBill
        <4>2. CASE inst'[t].bill = inst[t].bill
          BY <1>1, <1>2, <4>1, <4>2 DEF HasReadBill
        <4>3. CASE inst'[t].bill # inst[t].bill
          BY <1>9, <3>1, <4>1, <4>3
        <4>. QED BY <4>2, <4>3
      <3>. QED BY <3>1 DEF BillReadFresh
    <2>9. BillStaged(t)
      <3>1. ASSUME b \in Bills, HasReadBill(t, b)'
            PROVE
              \E x \in Payments :
                 /\ BillOf[x] = b /\ Allocations(work[t].rows, b) = {}
                 /\ Allocations(work'[t].rows, b) = {NewRow("allocation", "ALLOCATION", x, t, Amount[x])}
                 /\ work'[t].bill = BillAfterAllocation(inst'[t].bill, b, rows \cup work'[t].rows)
        <4>1. B = A /\ w.bill = BillAfterAllocation(i.bill, b, rows \cup w.rows)
          BY <1>9, <3>1
        <4>2. Allocations(w.rows, b) = A
          BY <1>0, <1>3, <1>7, <1>9, <4>1 DEF Allocations
        <4>. QED BY <1>0, <1>2, <1>5, <1>6, <1>9, <4>1, <4>2
      <3>2. ASSUME NEW x \in Bills, HasReadBill(t, x)'
            PROVE  x = b
        BY <2>7, <3>2
      <3>. QED BY <3>1, <3>2 DEF BillStaged
    <2>10. req'[t].op = "callback" => req'[t].payment = req'[t].event.payment
      BY <2>1 DEF HoldInv
    <2>. QED BY <2>1, <2>2, <2>3, <2>4, <2>5, <2>6, <2>8, <2>9, <2>10 DEF Guarded
  <1>10. CASE b = NoBill
    <2>1. PICK n : n = SuccessNotice(t, p, NoWrite)
      OBVIOUS
    <2>2. PICK w : w = Writes(work[t].status, work[t].ref, NoWrite, work[t].rows \cup {n})
      OBVIOUS
    <2>3. /\ pc' = [pc EXCEPT ![t] = "commit"] /\ UNCHANGED inst
          /\ work' = [work EXCEPT ![t] = w]
      BY <1>0, <1>10, <2>1, <2>2 DEF AllocateToBill
    <2>4. /\ pc'[t] = "commit" /\ inst'[t] = inst[t] /\ work'[t] = w /\ Others(t)
      BY <1>1, <2>3 DEF Others, TypeInv, TypeOK
    <2>5. w.status = work[t].status /\ w.rows = work[t].rows \cup {} \cup {n}
      BY <2>2 DEF Writes
    <2>6. b \notin Bills
      BY <1>0, <1>2, <1>10, ConstantsAssumption
    <2>7. n.table = "notification"
      BY <1>8, <2>1
    <2>8. PICK i : i = inst[t]
      OBVIOUS
    <2>9. /\ i.status = inst[t].status /\ inst'[t] = i
          /\ pc'[t] \notin {"idle", "committed", "aborted"}
          /\ HasReadBill(t, b)' => i.bill = inst[t].bill \/ (i.bill = bill[b] /\ MayReadBill(t, b))
      BY <2>4, <2>8
    <2>10. {} \in SUBSET A
      OBVIOUS
    <2>. QED BY <1>9, <2>4, <2>5, <2>6, <2>7, <2>9, <2>10
  <1>11. CASE b # NoBill
    <2>. DEFINE mine == work[t].rows \cup {NewRow("allocation", "ALLOCATION", p, t, Amount[p])}
    <2>1. PICK seen : seen = IF inst[t].bill = NoWrite THEN bill[b] ELSE inst[t].bill
      OBVIOUS
    <2>2. PICK to : to = BillAfterAllocation(seen, b, rows \cup mine)
      OBVIOUS
    <2>3. PICK n : n = SuccessNotice(t, p, IF to = NoWrite THEN seen ELSE to)
      OBVIOUS
    <2>4. PICK i : i = Read(inst[t].status, inst[t].ref, seen)
      OBVIOUS
    <2>5. PICK w : w = Writes(work[t].status, work[t].ref, to, mine \cup {n})
      OBVIOUS
    <2>6. PICK place \in {"commit", "billwrite"} :
            place = IF to = NoWrite THEN "commit" ELSE "billwrite"
      OBVIOUS
    <2>7. /\ pc' = [pc EXCEPT ![t] = place] /\ MayReadBill(t, b)
          /\ inst' = [inst EXCEPT ![t] = i] /\ work' = [work EXCEPT ![t] = w]
      BY <1>0, <1>11, <2>1, <2>2, <2>3, <2>4, <2>5, <2>6 DEF AllocateToBill
    <2>8. mine = work[t].rows \cup A
      BY <1>5
    <2>. HIDE DEF mine
    <2>9. /\ pc'[t] = place /\ inst'[t] = i /\ work'[t] = w /\ Others(t)
      BY <1>1, <2>7 DEF Others, TypeInv, TypeOK
    <2>10. /\ i.status = inst[t].status /\ i.bill = seen
           /\ w.status = work[t].status /\ w.rows = work[t].rows \cup A \cup {n} /\ w.bill = to
      BY <2>4, <2>5, <2>8 DEF Read, Writes
    <2>11. n.table = "notification"
      BY <1>8, <2>3
    <2>12. to = BillAfterAllocation(i.bill, b, rows \cup w.rows)
      <3>1. Allocations(rows \cup mine, b) = Allocations(rows \cup w.rows, b)
        BY <2>8, <2>10, <2>11 DEF Allocations
      <3>2. AmountPaid(rows \cup mine, b) = AmountPaid(rows \cup w.rows, b)
        BY <3>1 DEF AmountPaid
      <3>. QED BY <2>2, <2>10, <3>2 DEF BillAfterAllocation
    <2>13. /\ HasReadBill(t, b)' => i.bill = inst[t].bill \/ (i.bill = bill[b] /\ MayReadBill(t, b))
           /\ w.bill = BillAfterAllocation(i.bill, b, rows \cup w.rows)
           /\ pc'[t] \notin {"idle", "committed", "aborted"}
      BY <2>1, <2>7, <2>9, <2>10, <2>12
    <2>. QED BY <1>9, <2>9, <2>10, <2>11, <2>13
  <1>. QED BY <1>10, <1>11

LEMMA WriteBillGuarded ==
  ASSUME TypeInv, PreparedInv, HoldInv, NEW t \in Txns, WriteBill(t)
  PROVE  Guarded(t)
  <1>. DEFINE b == BillIn(t)
  <1>1. /\ pc[t] = "billwrite" /\ UNCHANGED <<payment, bill, rows, req, inst, work>>
        /\ pc' = [pc EXCEPT ![t] = "commit"] /\ lock' = [lock EXCEPT ![b] = t]
    BY DEF WriteBill, db
  <1>2. b \in Bills
    <2>1. BillFor(req[t]) \in Bills
      BY <1>1 DEF PreparedInv, Prepared, StagedBill
    <2>. QED BY <2>1 DEF BillFor, BillIn
  <1>3. \A p \in Payments : lock'[p] = lock[p]
    BY <1>1, <1>2, ConstantsAssumption DEF TypeInv, TypeOK
  <1>4. StagingOnly(t) /\ Open(t)
    BY <1>1 DEF StagingOnly, Others, Open, TypeInv, TypeOK
  <1>5. Locks(t)
    BY <1>3 DEF Locks
  <1>6. \A p \in Payments : IsFor(t, p) /\ ~Starts(t, p) /\ work[t].status # NoWrite => lock'[p] = t
    BY <1>3 DEF HoldInv
  <1>. QED BY <1>1, <1>4, <1>5, <1>6, WriteGuarded
\* every step of an open request but its COMMIT
LEMMA StepGuarded ==
  ASSUME TypeInv, BookedInv, PreparedInv, HoldInv, NEW t \in Txns, Step(t), ~Commit(t)
  PROVE  Guarded(t)
  <1>. DEFINE p == req[t].payment
  <1>1. CASE InsertConflicts(t) \/ ApplyRaises(t)
    BY <1>1, RollbackGuarded DEF InsertConflicts, ApplyRaises
  <1>2. CASE InitiateTimesOut(t)
    <2>1. PICK R : R = {NewRow("mock", "successful", p, t, 0)}
      OBVIOUS
    <2>2. /\ CallProvider(t) /\ pc' = [pc EXCEPT ![t] = "commit"]
          /\ work' = [work EXCEPT ![t] = Writes("UNKNOWN", FALSE, NoWrite, R)]
      BY <1>2, <2>1 DEF InitiateTimesOut
    <2>3. \A r \in R : r.table = "mock" /\ r.of = p
      BY <2>1 DEF NewRow
    <2>. QED BY <2>2, <2>3, InsertGuarded
  <1>3. CASE InitiateFails(t)
    <2>1. PICK R : R = FailureRows(t, p)
      OBVIOUS
    <2>2. /\ CallProvider(t) /\ pc' = [pc EXCEPT ![t] = "commit"]
          /\ work' = [work EXCEPT ![t] = Writes("FAILED", FALSE, NoWrite, R)]
      BY <1>3, <2>1 DEF InitiateFails
    <2>3. \A r \in R : r.table \in {"revenue", "notification"} /\ r.of = p
      BY <2>1, FailureRowsAre
    <2>. QED BY <2>2, <2>3, InsertGuarded
  <1>4. CASE InitiateAnswered(t)
    <2>1. PICK o \in ProviderOutcome :
            /\ CallProvider(t)
            /\ work' = [work EXCEPT ![t] = Writes(NewStatus(o), TRUE, NoWrite,
                           {NewRow("mock", o, p, t, 0)} \cup OutcomeRows(t, p, o))]
            /\ pc' = [pc EXCEPT ![t] = AfterOutcome(o)]
      BY <1>4 DEF InitiateAnswered
    <2>2. PICK R : R = {NewRow("mock", o, p, t, 0)} \cup OutcomeRows(t, p, o)
      OBVIOUS
    <2>3. \A r \in R : /\ r.table \notin {"callback", "allocation"} /\ r.of = p
                       /\ r.table = "receipt" => Rows("receipt", "RECEIPT", p) = {}
      BY <2>2, OutcomeRowsGuarded DEF NewRow
    <2>4. work' = [work EXCEPT ![t] = Writes(NewStatus(o), TRUE, NoWrite, R)]
      BY <2>1, <2>2
    <2>5. PICK s, place : s = NewStatus(o) /\ place = AfterOutcome(o)
      OBVIOUS
    <2>6. /\ CallProvider(t) /\ pc' = [pc EXCEPT ![t] = place]
          /\ work' = [work EXCEPT ![t] = Writes(s, TRUE, NoWrite, R)]
      BY <2>1, <2>4, <2>5
    <2>7. \A r \in R : /\ r.table \notin {"callback", "allocation"} /\ r.of = p
                       /\ r.table = "receipt" => Rows("receipt", "RECEIPT", r.of) = {}
      BY <2>3
    <2>. QED BY <2>6, <2>7, InsertGuarded
  <1>5. CASE RecordEvent(t) \/ MatchPayment(t)
    BY <1>5, CallbackGuarded
  <1>6. CASE ApplyNoop(t)
    <2>1. PICK w : w = Writes(NoWrite, FillsReference(t), NoWrite, work[t].rows)
      OBVIOUS
    <2>2. PICK R : R = {}
      OBVIOUS
    <2>3. /\ pc[t] = "apply" /\ UNCHANGED <<payment, bill, rows, req, inst>>
          /\ work' = [work EXCEPT ![t] = w] /\ pc' = [pc EXCEPT ![t] = "commit"]
          /\ UNCHANGED lock \/ (Lockable(t, p) /\ lock' = [lock EXCEPT ![p] = t])
      BY <1>6, <2>1 DEF ApplyNoop, db
    <2>4. w.status = NoWrite /\ w.bill = NoWrite /\ w.rows = work[t].rows \cup R
      BY <2>1, <2>2 DEF Writes
    <2>. QED BY <2>2, <2>3, <2>4, UpdateGuarded
  <1>7. CASE ApplyWrites(t)
    <2>1. PICK o : o = ReportedOutcome(t)
      OBVIOUS
    <2>2. PICK R : R = OutcomeRows(t, p, o)
      OBVIOUS
    <2>3. PICK w : w = Writes(NewStatus(o), FillsReference(t), NoWrite, work[t].rows \cup R)
      OBVIOUS
    <2>4. /\ pc[t] = "apply" /\ UNCHANGED <<payment, bill, rows, req, inst>>
          /\ work' = [work EXCEPT ![t] = w] /\ pc' = [pc EXCEPT ![t] = AfterOutcome(o)]
          /\ Lockable(t, p) /\ lock' = [lock EXCEPT ![p] = t]
      BY <1>7, <2>1, <2>2, <2>3 DEF ApplyWrites, db
    <2>5. w.bill = NoWrite /\ w.rows = work[t].rows \cup R
      BY <2>3 DEF Writes
    <2>6. o \in ProviderOutcome
      BY <2>1, <2>4, RequestTypes
    <2>7. \A r \in R : /\ r.table \notin {"callback", "allocation"} /\ r.of = p
                       /\ r.table = "receipt" => Rows("receipt", "RECEIPT", p) = {}
      BY <2>2, <2>6, OutcomeRowsGuarded
    <2>. QED BY <2>4, <2>5, <2>7, UpdateGuarded
  <1>8. CASE Compensate(t)
    <2>1. PICK R : R = CompensationRows(t, p, req[t].op)
      OBVIOUS
    <2>2. PICK w : w = Writes(IF req[t].op = "refund" THEN "REFUNDED" ELSE "REVERSED", FALSE, NoWrite, R)
      OBVIOUS
    <2>3. /\ pc[t] = "compensate" /\ UNCHANGED <<payment, bill, rows, req, inst>>
          /\ work' = [work EXCEPT ![t] = w] /\ pc' = [pc EXCEPT ![t] = "commit"]
          /\ Lockable(t, p) /\ lock' = [lock EXCEPT ![p] = t]
      BY <1>8, <2>1, <2>2 DEF Compensate, db
    <2>4. work[t] = NoWork
      BY <2>3 DEF PreparedInv, Prepared, Early
    <2>5. w.bill = NoWrite /\ w.rows = work[t].rows \cup R
      BY <2>2, <2>4, NoWorkIs DEF Writes
    <2>6. \A r \in R : r.table \in {"revenue", "notification", "webhook", "ledger"} /\ r.of = p
      BY <2>1 DEF CompensationRows, RevenueEvent, Notify, Dispatch, LedgerEntry, NewRow
    <2>. QED BY <2>3, <2>5, <2>6, UpdateGuarded
  <1>9. CASE AllocateToBill(t)
    BY <1>9, AllocateGuarded
  <1>10. CASE WriteBill(t)
    BY <1>10, WriteBillGuarded
  <1>. QED BY <1>1, <1>2, <1>3, <1>4, <1>5, <1>6, <1>7, <1>8, <1>9, <1>10 DEF Step

-----------------------------------------------------------------------------
(***************************************************************************)
(* What holds of every reachable state, whoever overlaps: the invariant    *)
(* the theorems below share.                                               *)
(***************************************************************************)
LEMMA NextGuarded ==
  ASSUME TypeInv, BookedInv, PreparedInv, HoldInv, [Next]_vars
  PROVE  \/ UNCHANGED vars
         \/ \E t \in Txns : pc[t] \notin {"committed", "aborted"} /\ (Guarded(t) \/ Commit(t))
  <1>1. CASE UNCHANGED vars
    BY <1>1
  <1>2. ASSUME NEW t \in Txns, Begin(t)
        PROVE  pc[t] \notin {"committed", "aborted"} /\ Guarded(t)
    <2>1. pc[t] = "idle"
      BY <1>2 DEF Begin, BeginInitiate, BeginQuery, BeginCompensation, BeginCallback, BeginCancelBill
    <2>. QED BY <1>2, <2>1, BeginGuarded
  <1>3. ASSUME NEW t \in Txns, Step(t)
        PROVE  pc[t] \notin {"committed", "aborted"} /\ (Guarded(t) \/ Commit(t))
    <2>1. pc[t] \notin {"committed", "aborted"}
      BY <1>3 DEF Step, InsertConflicts, InitiateTimesOut, InitiateFails, InitiateAnswered, CallProvider,
                  RecordEvent, MatchPayment, ApplyNoop, ApplyRaises, ApplyWrites, Compensate,
                  AllocateToBill, WriteBill, Commit
    <2>. QED BY <1>3, <2>1, StepGuarded
  <1>4. ASSUME NEW t \in Txns, Abort(t)
        PROVE  pc[t] \notin {"committed", "aborted"} /\ Guarded(t)
    BY <1>4, RollbackGuarded DEF Abort, Open
  <1>. QED BY <1>1, <1>2, <1>3, <1>4 DEF Next, AllEnded

\* what a COMMIT publishes and leaves
LEMMA CommitIs ==
  ASSUME TypeInv, NEW t \in Txns, Commit(t)
  PROVE  /\ pc[t] = "commit" /\ pc'[t] = "committed"
         /\ req'[t] = NoRequest /\ inst'[t] = NoInstance /\ work'[t] = NoWork /\ Others(t)
         /\ rows' = rows \cup work[t].rows
         /\ \A p \in Payments : payment'[p].status = IF IsFor(t, p) /\ work[t].status # NoWrite
                                                     THEN work[t].status ELSE payment[p].status
         /\ \A p \in Payments : payment'[p].ref => payment[p].ref \/ (IsFor(t, p) /\ work[t].ref)
         /\ \A b \in Bills : bill'[b] = IF work[t].bill # NoWrite /\ BillIn(t) = b
                                        THEN work[t].bill ELSE bill[b]
         /\ \A p \in Payments : lock'[p] = IF lock[p] = t THEN NoTxn ELSE lock[p]
  <1>1. /\ pc[t] = "commit" /\ pc'[t] = "committed"
        /\ req'[t] = NoRequest /\ inst'[t] = NoInstance /\ work'[t] = NoWork /\ Others(t)
        /\ rows' = rows \cup work[t].rows
    BY DEF Commit, End, Others, TypeInv, TypeOK
  <1>2. \A p \in Payments : payment'[p].status = IF IsFor(t, p) /\ work[t].status # NoWrite
                                                     THEN work[t].status ELSE payment[p].status
    BY DEF Commit
  <1>3. \A p \in Payments : payment'[p].ref = (payment[p].ref \/ (IsFor(t, p) /\ work[t].ref))
    BY Zenon DEF Commit
  <1>4. \A b \in Bills : bill'[b] = IF work[t].bill # NoWrite /\ BillIn(t) = b
                                        THEN work[t].bill ELSE bill[b]
    BY DEF Commit
  <1>5. \A p \in Payments : lock'[p] = IF lock[p] = t THEN NoTxn ELSE lock[p]
    BY DEF Commit, End, LocksReleased
  <1>. QED BY <1>1, <1>2, <1>3, <1>4, <1>5

\* every status a request stages is a status
LEMMA StagedStatus ==
  ASSUME TypeInv, PreparedInv, HoldInv, NEW t \in Txns, NEW p \in Payments, IsFor(t, p)
  PROVE  /\ work[t].status # NoWrite => work[t].status \in Status /\ work[t].status # Absent
         /\ work[t].ref => Exists(p) \/ (Starts(t, p) /\ work[t].status # NoWrite)
  <1>1. LegalMove(pc[t], req[t], inst[t], work[t])
    BY DEF PreparedInv, Prepared
  <1>2. work[t].status # NoWrite => work[t].status \in Status
    BY DEF TypeInv, TypeOK, Work
  <1>3. ASSUME work[t].ref PROVE Exists(p) \/ (Starts(t, p) /\ work[t].status # NoWrite)
    <2>1. inst[t].status \in Status /\ (req[t].op = "initiate" => work[t].status # NoWrite)
      BY <1>1, <1>3 DEF LegalMove
    <2>2. inst[t].status # Absent
      BY <2>1, ConstantsAssumption
    <2>. QED BY <2>1, <2>2 DEF HoldInv, Starts, IsFor
  <1>. QED BY <1>2, <1>3, ConstantsAssumption

LEMMA GuardedHolds ==
  ASSUME TypeInv, HoldInv, NEW t \in Txns, Guarded(t)
  PROVE  HoldInv'
  <1>1. /\ UNCHANGED payment /\ Others(t) /\ \A p : Exists(p)' <=> Exists(p)
    BY DEF Guarded, StagingOnly, Exists
  <1>2. \A u \in Txns : req'[u].op = "callback" => req'[u].payment = req'[u].event.payment
    BY <1>1 DEF Guarded, HoldInv, Others
  <1>3. /\ \A p \in Payments : payment'[p].ref => Exists(p)'
        /\ \A p \in Payments : lock'[p] # NoTxn => Exists(p)'
    BY <1>1 DEF Guarded, Locks, HoldInv
  <1>4. ASSUME NEW u \in Txns, NEW p \in Payments
        PROVE  /\ Starts(u, p)' => ~Exists(p)'
               /\ (IsFor(u, p) /\ ~Starts(u, p))' /\ inst'[u].status # Absent => Exists(p)'
               /\ (IsFor(u, p) /\ ~Starts(u, p))' /\ work'[u].status # NoWrite => lock'[p] = u
    <2>1. CASE u = t
      BY <1>1, <2>1 DEF Guarded, StartsAlone, ReadsFresh, WritesLocked, HoldInv
    <2>2. CASE u # t
      <3>1. req'[u] = req[u] /\ inst'[u] = inst[u] /\ work'[u] = work[u]
        BY <1>1, <2>2 DEF Others
      <3>2. (Starts(u, p)' <=> Starts(u, p)) /\ (IsFor(u, p)' <=> IsFor(u, p))
        BY <3>1 DEF Starts, IsFor
      <3>3. lock[p] = u => lock'[p] = u
        BY <2>2, ConstantsAssumption DEF Guarded, Locks
      <3>. QED BY <1>1, <3>1, <3>2, <3>3 DEF HoldInv
    <2>. QED BY <2>1, <2>2
  <1>5. ASSUME NEW u \in Txns, NEW v \in Txns, NEW p \in Payments, Starts(u, p)', Starts(v, p)'
        PROVE  u = v
    <2>1. \A x \in Txns \ {t} : Starts(x, p)' <=> Starts(x, p)
      BY <1>1 DEF Others, Starts
    <2>. QED BY <1>5, <2>1 DEF Guarded, StartsAlone, HoldInv
  <1>. QED BY <1>2, <1>3, <1>4, <1>5 DEF HoldInv

LEMMA CommitHolds ==
  ASSUME TypeInv, PreparedInv, HoldInv, NEW t \in Txns, Commit(t)
  PROVE  HoldInv'
  <1>1. /\ req'[t] = NoRequest /\ inst'[t] = NoInstance /\ work'[t] = NoWork /\ Others(t)
        /\ \A p \in Payments : payment'[p].status = IF IsFor(t, p) /\ work[t].status # NoWrite
                                                     THEN work[t].status ELSE payment[p].status
        /\ \A p \in Payments : payment'[p].ref => payment[p].ref \/ (IsFor(t, p) /\ work[t].ref)
        /\ \A p \in Payments : lock'[p] = IF lock[p] = t THEN NoTxn ELSE lock[p]
    BY CommitIs
  <1>2. \A p \in Payments :
          /\ Exists(p) => Exists(p)'
          /\ IsFor(t, p) /\ work[t].status # NoWrite => Exists(p)'
          /\ ~(IsFor(t, p) /\ work[t].status # NoWrite) => (Exists(p)' <=> Exists(p))
    BY <1>1, StagedStatus DEF Exists
  <1>3. \A u \in Txns : req'[u].op = "callback" => req'[u].payment = req'[u].event.payment
    BY <1>1, NoWorkIs DEF HoldInv, Others
  <1>4. \A p \in Payments : payment'[p].ref => Exists(p)'
    BY <1>1, <1>2, StagedStatus DEF HoldInv
  <1>5. \A p \in Payments : lock'[p] # NoTxn => Exists(p)'
    BY <1>1, <1>2 DEF HoldInv
  <1>6. \A p \in Payments : ~Starts(t, p)' /\ ~IsFor(t, p)'
    BY <1>1, NoWorkIs DEF Starts, IsFor
  <1>7. ASSUME NEW u \in Txns \ {t}, NEW p \in Payments
        PROVE  /\ Starts(u, p)' => ~Exists(p)'
               /\ (IsFor(u, p) /\ ~Starts(u, p))' /\ inst'[u].status # Absent => Exists(p)'
               /\ (IsFor(u, p) /\ ~Starts(u, p))' /\ work'[u].status # NoWrite => lock'[p] = u
               /\ Starts(u, p)' <=> Starts(u, p)
    <2>1. req'[u] = req[u] /\ inst'[u] = inst[u] /\ work'[u] = work[u]
      BY <1>1 DEF Others
    <2>2. (Starts(u, p)' <=> Starts(u, p)) /\ (IsFor(u, p)' <=> IsFor(u, p))
      BY <2>1 DEF Starts, IsFor
    <2>3. lock[p] = u => lock'[p] = u
      BY <1>1
    <2>4. Starts(u, p) => ~(IsFor(t, p) /\ work[t].status # NoWrite)
      <3>. SUFFICES ASSUME Starts(u, p), IsFor(t, p), work[t].status # NoWrite PROVE FALSE
        OBVIOUS
      <3>1. ~Starts(t, p) /\ ~Exists(p)
        BY DEF HoldInv
      <3>2. lock[p] = t
        BY <3>1 DEF HoldInv
      <3>. QED BY <3>1, <3>2, ConstantsAssumption DEF HoldInv
    <2>. QED BY <1>2, <2>1, <2>2, <2>3, <2>4 DEF HoldInv
  <1>8. \A u, v \in Txns, p \in Payments : Starts(u, p)' /\ Starts(v, p)' => u = v
    BY <1>6, <1>7 DEF HoldInv
  <1>. QED BY <1>3, <1>4, <1>5, <1>6, <1>7, <1>8 DEF HoldInv

\* what is committed was inserted by requests that have committed
RowsInv ==
  /\ IsFiniteSet(rows)
  /\ \A r \in rows : pc[r.by] = "committed"
  /\ \A r \in rows : r.table = "allocation" => r.amt = Amount[r.of]

BaseInv == TypeInv /\ BookedInv /\ PreparedInv /\ HoldInv /\ RowsInv

LEMMA BaseInvariant == Spec => []BaseInv
  <1>1. Init => PreparedInv /\ HoldInv /\ RowsInv
    <2>. SUFFICES ASSUME Init PROVE PreparedInv /\ HoldInv /\ RowsInv
      OBVIOUS
    <2>1. PreparedInv
      BY EndedPrepared DEF Init, PreparedInv, Ended
    <2>2. HoldInv
      BY NoWorkIs DEF Init, HoldInv, Exists, Starts, IsFor
    <2>3. RowsInv
      BY FS_EmptySet DEF Init, RowsInv
    <2>. QED BY <2>1, <2>2, <2>3
  <1>2. TypeInv /\ BookedInv /\ PreparedInv /\ HoldInv /\ RowsInv /\ [Next]_vars
          => (PreparedInv /\ HoldInv /\ RowsInv)'
    <2>. SUFFICES ASSUME TypeInv, BookedInv, PreparedInv, HoldInv, RowsInv, [Next]_vars
                  PROVE  PreparedInv' /\ HoldInv' /\ RowsInv'
      OBVIOUS
    <2>1. CASE UNCHANGED vars
      <3>1. PreparedInv'
        BY <2>1 DEF vars, PreparedInv
      <3>2. HoldInv'
        BY <2>1 DEF vars, HoldInv, Exists, Starts, IsFor
      <3>3. RowsInv'
        BY <2>1 DEF vars, RowsInv
      <3>. QED BY <3>1, <3>2, <3>3
    <2>2. CASE ~UNCHANGED vars
      <3>1. PreparedInv'
        <4>1. ASSUME NEW t \in Txns, Abort(t) PROVE PreparedInv'
          BY <4>1, RollbackPrepared DEF Abort, Rollback
        <4>. QED BY <2>2, <4>1, BeginPrepared, StepPrepared DEF Next, AllEnded
      <3>2. PICK t \in Txns : pc[t] \notin {"committed", "aborted"} /\ (Guarded(t) \/ Commit(t))
        BY <2>2, NextGuarded
      <3>3. HoldInv'
        BY <3>2, GuardedHolds, CommitHolds
      <3>4. RowsInv'
        <4>1. CASE Guarded(t)
          BY <3>2, <4>1 DEF Guarded, StagingOnly, Others, RowsInv, TypeInv, TypeOK, Row, TableRow
        <4>2. CASE Commit(t)
          <5>1. rows' = rows \cup work[t].rows /\ pc'[t] = "committed" /\ Others(t)
            BY <4>2, CommitIs
          <5>2. OwnRows(t, req[t], work[t].rows)
            BY DEF PreparedInv, Prepared
          <5>3. IsFiniteSet(rows')
            BY <5>1, <5>2, FS_Union DEF OwnRows, RowsInv
          <5>4. \A r \in rows' : pc'[r.by] = "committed"
            BY <3>2, <5>1, <5>2 DEF OwnRows, RowsInv, Others, TypeInv, TypeOK, Row, TableRow
          <5>5. \A r \in rows' : r.table = "allocation" => r.amt = Amount[r.of]
            BY <5>1, <5>2 DEF OwnRows, RowsInv
          <5>. QED BY <5>3, <5>4, <5>5 DEF RowsInv
        <4>. QED BY <3>2, <4>1, <4>2
      <3>. QED BY <3>1, <3>3, <3>4
    <2>. QED BY <2>1, <2>2
  <1>. QED BY <1>1, <1>2, TypeInvariant, BookedInvariant, PTL DEF Spec, BaseInv

-----------------------------------------------------------------------------
(***************************************************************************)
(* Idempotency keys.  A request that has written a Payment with a key owns *)
(* the key: no committed Payment has it and no other request has written   *)
(* one, because each looked at both, and waited, before it wrote.          *)
(***************************************************************************)
Claims(t, p) == Starts(t, p) /\ work[t].status # NoWrite

KeyInv ==
  /\ OnePaymentPerKey
  /\ \A t \in Txns, p \in Payments : Claims(t, p) =>
       \A q \in SameKey(p) : ~Exists(q) /\ \A u \in Txns : ~Claims(u, q)

LEMMA KeyGuardedStep ==
  ASSUME BaseInv, KeyInv, NEW t \in Txns, Guarded(t)
  PROVE  KeyInv'
  <1>1. Others(t) /\ UNCHANGED payment /\ \A p : Exists(p)' <=> Exists(p)
    BY DEF Guarded, StagingOnly, Exists
  <1>2. OnePaymentPerKey'
    BY <1>1 DEF KeyInv, OnePaymentPerKey
  <1>3. \A u \in Txns \ {t}, p \in Payments : Claims(u, p)' <=> Claims(u, p)
    BY <1>1 DEF Others, Claims, Starts
  <1>4. ASSUME NEW p \in Payments, Claims(t, p)'
        PROVE  \A q \in SameKey(p) : ~Exists(q) /\ \A u \in Txns : ~Claims(u, q)
    <2>1. CASE Claims(t, p)
      BY <2>1 DEF KeyInv
    <2>2. CASE ~KeyPending(p) /\ ~KeyTaken(p)
      BY <2>2 DEF KeyPending, KeyTaken, SameKey, Exists, Claims, Starts, IsFor
    <2>. QED BY <1>4, <2>1, <2>2 DEF Guarded, KeyGuarded, Claims
  <1>5. ASSUME NEW u \in Txns, NEW p \in Payments, Claims(u, p)',
               NEW q \in SameKey(p)
        PROVE  ~Exists(q)' /\ \A v \in Txns : ~Claims(v, q)'
    <2>1. q \in Payments /\ q # p /\ p \in SameKey(q)
      BY DEF SameKey
    <2>2. CASE u = t
      <3>1. ~Exists(q) /\ \A v \in Txns : ~Claims(v, q)
        BY <1>4, <1>5, <2>2
      <3>2. ~Claims(t, q)'
        BY <1>5, <2>1, <2>2 DEF Claims, Starts
      <3>. QED BY <1>1, <1>3, <2>1, <3>1, <3>2
    <2>3. CASE u # t
      <3>1. Claims(u, p)
        BY <1>3, <1>5, <2>3
      <3>2. ~Exists(q) /\ \A v \in Txns : ~Claims(v, q)
        BY <3>1 DEF KeyInv
      <3>3. ~Claims(t, q)'
        BY <1>4, <2>1, <3>1
      <3>. QED BY <1>1, <1>3, <2>1, <3>2, <3>3
    <2>. QED BY <2>2, <2>3
  <1>6. \A p : SameKey(p)' = SameKey(p)
    BY DEF SameKey
  <1>. QED BY <1>2, <1>5, <1>6 DEF KeyInv

LEMMA KeyCommitted ==
  ASSUME BaseInv, KeyInv, NEW t \in Txns, Commit(t)
  PROVE  KeyInv'
  <1>1. /\ Others(t) /\ req'[t] = NoRequest
        /\ \A p \in Payments : payment'[p].status = IF IsFor(t, p) /\ work[t].status # NoWrite
                                                     THEN work[t].status ELSE payment[p].status
    BY CommitIs DEF BaseInv
  <1>2. \A p \in Payments : Exists(p)' => Exists(p) \/ Claims(t, p)
    <2>1. \A p \in Payments : IsFor(t, p) /\ ~Starts(t, p) /\ work[t].status # NoWrite => Exists(p)
      BY ConstantsAssumption DEF BaseInv, HoldInv
    <2>. QED BY <1>1, <2>1 DEF Exists, Claims
  <1>3. /\ \A u \in Txns \ {t}, p \in Payments : Claims(u, p)' <=> Claims(u, p)
        /\ \A p \in Payments : ~Claims(t, p)'
    BY <1>1, NoWorkIs DEF Others, Claims, Starts
  <1>4. OnePaymentPerKey'
    <2>. SUFFICES ASSUME NEW p \in Payments, NEW q \in Payments, KeyOf[p] = KeyOf[q], KeyOf[p] # NoKey,
                         Exists(p)', Exists(q)', p # q
                  PROVE  FALSE
      BY DEF OnePaymentPerKey, Exists
    <2>1. p \in SameKey(q) /\ q \in SameKey(p)
      BY DEF SameKey
    <2>2. ~(Exists(p) /\ Exists(q))
      BY DEF KeyInv, OnePaymentPerKey, Exists
    <2>3. ~(Claims(t, p) /\ Claims(t, q))
      BY DEF Claims, Starts
    <2>. QED BY <1>2, <2>1, <2>2, <2>3 DEF KeyInv
  <1>5. ASSUME NEW u \in Txns, NEW p \in Payments, Claims(u, p)', NEW q \in SameKey(p)
        PROVE  ~Exists(q)' /\ \A v \in Txns : ~Claims(v, q)'
    <2>1. q \in Payments
      BY DEF SameKey
    <2>2. Claims(u, p)
      BY <1>3, <1>5
    <2>. QED BY <1>2, <1>3, <2>1, <2>2 DEF KeyInv
  <1>6. \A p : SameKey(p)' = SameKey(p)
    BY DEF SameKey
  <1>. QED BY <1>4, <1>5, <1>6 DEF KeyInv

(***************************************************************************)
(* Two requests with one Idempotency-Key leave one Payment, whether the    *)
(* second finds the first by the lookup of initiate_payment, waits for its *)
(* INSERT, or fails on the unique constraint.                              *)
(***************************************************************************)
THEOREM KeysAreUnique == Spec => []OnePaymentPerKey
  <1>1. Init => KeyInv
    BY NoWorkIs DEF Init, KeyInv, OnePaymentPerKey, Claims
  <1>2. BaseInv /\ KeyInv /\ [Next]_vars => KeyInv'
    <2>. SUFFICES ASSUME BaseInv, KeyInv, [Next]_vars PROVE KeyInv'
      OBVIOUS
    <2>1. CASE UNCHANGED vars
      BY <2>1 DEF vars, KeyInv, OnePaymentPerKey, Claims, Starts, Exists, SameKey
    <2>. QED BY <2>1, NextGuarded, KeyGuardedStep, KeyCommitted DEF BaseInv
  <1>3. KeyInv => OnePaymentPerKey
    BY DEF KeyInv
  <1>. QED BY <1>1, <1>2, <1>3, BaseInvariant, PTL DEF Spec

-----------------------------------------------------------------------------
(***************************************************************************)
(* Callbacks.  The row that carries an event id is staged by one request,  *)
(* and only while no committed row carries it.                             *)
(***************************************************************************)
EventInv ==
  \A e \in Events :
    /\ \A r, s \in EventRows(rows, e) : r = s
    /\ \A t \in Txns : EventRows(work[t].rows, e) # {} =>
         /\ EventRows(rows, e) = {}
         /\ \A u \in Txns \ {t} : EventRows(work[u].rows, e) = {}

LEMMA EventGuardedStep ==
  ASSUME BaseInv, EventInv, NEW t \in Txns, Guarded(t)
  PROVE  EventInv'
  <1>1. Others(t) /\ UNCHANGED rows
    BY DEF Guarded, StagingOnly
  <1>2. \A e \in Events : EventRows(work'[t].rows, e) # {} =>
          /\ EventRows(rows, e) = {}
          /\ \A u \in Txns \ {t} : EventRows(work[u].rows, e) = {}
    BY DEF Guarded, EventGuarded, EventPending, EventInv
  <1>. SUFFICES ASSUME NEW e \in Events
                PROVE  /\ \A r, s \in EventRows(rows, e) : r = s
                       /\ \A u \in Txns : EventRows(work'[u].rows, e) # {} =>
                            /\ EventRows(rows, e) = {}
                            /\ \A v \in Txns \ {u} : EventRows(work'[v].rows, e) = {}
    BY <1>1 DEF EventInv
  <1>. QED BY <1>1, <1>2 DEF EventInv, Others

LEMMA EventCommitted ==
  ASSUME BaseInv, EventInv, NEW t \in Txns, Commit(t)
  PROVE  EventInv'
  <1>1. Others(t) /\ rows' = rows \cup work[t].rows /\ work'[t] = NoWork
    BY CommitIs DEF BaseInv
  <1>2. \A r, s \in work[t].rows : r.table = "callback" /\ s.table = "callback" => r = s
    BY DEF BaseInv, PreparedInv, Prepared, OwnRows
  <1>. SUFFICES ASSUME NEW e \in Events
                PROVE  /\ \A r, s \in EventRows(rows', e) : r = s
                       /\ \A u \in Txns : EventRows(work'[u].rows, e) # {} =>
                            /\ EventRows(rows', e) = {}
                            /\ \A v \in Txns \ {u} : EventRows(work'[v].rows, e) = {}
    BY DEF EventInv
  <1>3. EventRows(rows', e) = EventRows(rows, e) \cup EventRows(work[t].rows, e)
    BY <1>1 DEF EventRows
  <1>4. \A r, s \in EventRows(work[t].rows, e) : r = s
    BY <1>2 DEF EventRows
  <1>5. EventRows(work'[t].rows, e) = {}
    BY <1>1, NoWorkIs
  <1>. QED BY <1>1, <1>3, <1>4, <1>5 DEF EventInv, Others

LEMMA AtMostOne ==
  ASSUME NEW S, \A x, y \in S : x = y
  PROVE  IsFiniteSet(S) /\ Cardinality(S) = IF S = {} THEN 0 ELSE 1
  <1>1. CASE S = {}
    BY <1>1, FS_EmptySet
  <1>2. CASE S # {}
    <2>1. PICK x : x \in S
      BY <1>2
    <2>2. S = {x}
      BY <2>1
    <2>. QED BY <1>2, <2>2, FS_Singleton
  <1>. QED BY <1>1, <1>2

(***************************************************************************)
(* An external_event_id is consumed by one request: process_callback's row *)
(* for it is unique, however many deliveries overlap, crash or are         *)
(* repeated after a rollback.                                              *)
(***************************************************************************)
THEOREM EventsAreConsumedOnce == Spec => []EventConsumedOnce
  <1>1. Init => EventInv
    BY NoWorkIs DEF Init, EventInv, EventRows
  <1>2. BaseInv /\ EventInv /\ [Next]_vars => EventInv'
    <2>. SUFFICES ASSUME BaseInv, EventInv, [Next]_vars PROVE EventInv'
      OBVIOUS
    <2>1. CASE UNCHANGED vars
      BY <2>1 DEF vars, EventInv, EventRows
    <2>. QED BY <2>1, NextGuarded, EventGuardedStep, EventCommitted DEF BaseInv
  <1>3. EventInv => EventConsumedOnce
    <2>. SUFFICES ASSUME EventInv, NEW e \in Events PROVE Cardinality(EventRows(rows, e)) <= 1
      BY DEF EventConsumedOnce
    <2>1. \A r, s \in EventRows(rows, e) : r = s
      BY DEF EventInv
    <2>2. Cardinality(EventRows(rows, e)) \in {0, 1}
      BY <2>1, AtMostOne
    <2>. QED BY <2>2
  <1>. QED BY <1>1, <1>2, <1>3, BaseInvariant, PTL DEF Spec

-----------------------------------------------------------------------------
(***************************************************************************)
(* The books.  Each request publishes the books of its payment all         *)
(* together, and the receipt is staged under the payment's row lock, or    *)
(* before the payment exists for anyone else.                              *)
(***************************************************************************)
BooksInv ==
  \A p \in Payments :
    /\ LET W == Writers("ledger", "PAYMENT_RECEIVED", p) IN
       /\ W = Writers("ledger", "INSTITUTION_ENTITLEMENT", p)
       /\ W = Writers("ledger", "PLATFORM_PAYMENT_FEE", p)
       /\ W = Writers("revenue", "PAYMENT_SUCCESSFUL", p)
       /\ BillOf[p] # NoBill => W = Writers("allocation", "ALLOCATION", p)
    /\ \A r, s \in Rows("receipt", "RECEIPT", p) : r = s
    /\ Rows("receipt", "RECEIPT", p) # {} <=> Writers("ledger", "PAYMENT_RECEIVED", p) # {}
    /\ \A t \in Txns : Holds(work[t].rows, "receipt", "RECEIPT", p)
                         => Rows("receipt", "RECEIPT", p) = {}

\* one request at a time has an uncommitted status of a payment
LEMMA OneWriter ==
  ASSUME BaseInv, NEW t \in Txns, NEW u \in Txns, NEW p \in Payments, IsFor(t, p), IsFor(u, p),
         work[t].status # NoWrite, work[u].status # NoWrite
  PROVE  t = u
  <1>1. \A v \in Txns : IsFor(v, p) /\ ~Starts(v, p) /\ work[v].status # NoWrite => lock[p] = v
    BY DEF BaseInv, HoldInv
  <1>2. lock[p] \in Txns => Exists(p)
    BY ConstantsAssumption DEF BaseInv, HoldInv
  <1>3. \A v \in Txns : Starts(v, p) => ~Exists(p)
    BY DEF BaseInv, HoldInv
  <1>4. Starts(t, p) /\ Starts(u, p) => t = u
    BY DEF BaseInv, HoldInv
  <1>. QED BY <1>1, <1>2, <1>3, <1>4

\* the books a request is about to publish
LEMMA PublishedBooks ==
  ASSUME BaseInv, NEW t \in Txns, pc[t] = "commit", NEW p \in Payments
  PROVE  LET done == IsFor(t, p) /\ work[t].status = "SUCCESSFUL"
             S    == work[t].rows
         IN /\ WholeBooks(S, p, done)
            /\ Holds(S, "allocation", "ALLOCATION", p) <=> (done /\ BillOf[p] # NoBill)
            /\ done => \E r \in rows \cup S : r.table = "receipt" /\ r.type = "RECEIPT" /\ r.of = p
            /\ \A r \in S : r.by = t
            /\ \A r, s \in S : r.table = "receipt" /\ s.table = "receipt" => r = s
  <1>. DEFINE done == IsFor(t, p) /\ work[t].status = "SUCCESSFUL"
              S == work[t].rows
  <1>1. /\ \A r \in S : /\ r.by = t
                        /\ r.table \in BookTables => ForPayment(req[t], r.of)
        /\ \A r, s \in S : r.table = "receipt" /\ s.table = "receipt" => r = s
    BY DEF BaseInv, PreparedInv, Prepared, OwnRows
  <1>2. IsFor(t, p) <=> ForPayment(req[t], p)
    BY DEF IsFor, ForPayment
  <1>3. CASE ForPayment(req[t], p)
    <2>1. /\ WholeBooks(S, p, work[t].status = "SUCCESSFUL")
          /\ Holds(S, "allocation", "ALLOCATION", p)
               <=> (work[t].status = "SUCCESSFUL" /\ BillOf[p] # NoBill)
      BY <1>3 DEF BaseInv, PreparedInv, Prepared, StagedBooks
    <2>2. WholeBooks(S, p, done)
      BY <1>2, <1>3, <2>1 DEF WholeBooks
    <2>3. done => \E r \in rows \cup S : r.table = "receipt" /\ r.type = "RECEIPT" /\ r.of = p
      <3>1. done => Booked(rows \cup S, p)
        BY DEF BaseInv, BookedInv, StagedIsBooked, StagedBooked, SettledStatus
      <3>. QED BY <3>1 DEF Booked, Charged, Holds
    <2>. QED BY <1>1, <1>2, <1>3, <2>1, <2>2, <2>3
  <1>4. CASE ~ForPayment(req[t], p)
    <2>1. \A r \in S : r.table \in BookTables => r.of # p
      BY <1>1, <1>4
    <2>2. ~done
      BY <1>2, <1>4
    <2>3. WholeBooks(S, p, FALSE) /\ ~Holds(S, "allocation", "ALLOCATION", p)
      BY <2>1 DEF WholeBooks, Holds, BookTables
    <2>4. WholeBooks(S, p, done)
      BY <2>2, <2>3 DEF WholeBooks
    <2>. QED BY <1>1, <2>2, <2>3, <2>4
  <1>. QED BY <1>3, <1>4

LEMMA WritersAfter ==
  ASSUME NEW t, NEW X, \A r \in X : r.by = t, rows' = rows \cup X, NEW table, NEW type, NEW p
  PROVE  Writers(table, type, p)' = Writers(table, type, p)
           \cup IF Holds(X, table, type, p) THEN {t} ELSE {}
  BY DEF Writers, Rows, Holds

LEMMA BooksGuardedStep ==
  ASSUME BaseInv, BooksInv, NEW t \in Txns, Guarded(t)
  PROVE  BooksInv'
  <1>1. Others(t) /\ rows' = rows
    BY DEF Guarded, StagingOnly
  <1>2. \A p \in Payments : Holds(work'[t].rows, "receipt", "RECEIPT", p) => Rows("receipt", "RECEIPT", p) = {}
    BY DEF Guarded, ReceiptGuarded, BooksInv
  <1>3. \A u \in Txns, p \in Payments :
          Holds(work'[u].rows, "receipt", "RECEIPT", p) => Rows("receipt", "RECEIPT", p) = {}
    BY <1>1, <1>2 DEF BooksInv, Others
  <1>4. \A table, type, p : Rows(table, type, p)' = Rows(table, type, p)
    BY <1>1 DEF Rows
  <1>5. \A table, type, p : Writers(table, type, p)' = Writers(table, type, p)
    BY <1>4 DEF Writers
  <1>. QED BY <1>3, <1>4, <1>5 DEF BooksInv

LEMMA BooksCommitted ==
  ASSUME BaseInv, BooksInv, NEW t \in Txns, Commit(t)
  PROVE  BooksInv'
  <1>1. /\ Others(t) /\ rows' = rows \cup work[t].rows /\ work'[t] = NoWork /\ pc[t] = "commit"
    BY CommitIs DEF BaseInv
  <1>2. PICK S : S = work[t].rows
    OBVIOUS
  <1>. SUFFICES ASSUME NEW p \in Payments
                PROVE  /\ LET W == Writers("ledger", "PAYMENT_RECEIVED", p)' IN
                          /\ W = Writers("ledger", "INSTITUTION_ENTITLEMENT", p)'
                          /\ W = Writers("ledger", "PLATFORM_PAYMENT_FEE", p)'
                          /\ W = Writers("revenue", "PAYMENT_SUCCESSFUL", p)'
                          /\ BillOf[p] # NoBill => W = Writers("allocation", "ALLOCATION", p)'
                       /\ \A r, s \in Rows("receipt", "RECEIPT", p)' : r = s
                       /\ Rows("receipt", "RECEIPT", p)' # {} <=> Writers("ledger", "PAYMENT_RECEIVED", p)' # {}
                       /\ \A u \in Txns : Holds(work'[u].rows, "receipt", "RECEIPT", p)
                                            => Rows("receipt", "RECEIPT", p)' = {}
    BY Zenon DEF BooksInv
  <1>3. PICK done \in BOOLEAN : done <=> (IsFor(t, p) /\ work[t].status = "SUCCESSFUL")
    OBVIOUS
  <1>4. /\ Holds(S, "ledger", "PAYMENT_RECEIVED", p) <=> done
        /\ Holds(S, "ledger", "INSTITUTION_ENTITLEMENT", p) <=> done
        /\ Holds(S, "ledger", "PLATFORM_PAYMENT_FEE", p) <=> done
        /\ Holds(S, "revenue", "PAYMENT_SUCCESSFUL", p) <=> done
        /\ Holds(S, "receipt", "RECEIPT", p) => done
        /\ Holds(S, "allocation", "ALLOCATION", p) <=> (done /\ BillOf[p] # NoBill)
        /\ done => \E r \in rows \cup S : r.table = "receipt" /\ r.type = "RECEIPT" /\ r.of = p
        /\ \A r \in S : r.by = t
        /\ \A r, s \in S : r.table = "receipt" /\ s.table = "receipt" => r = s
    BY <1>1, <1>2, <1>3, PublishedBooks DEF WholeBooks
  <1>5. rows' = rows \cup S
    BY <1>1, <1>2
  <1>6. \A table, type : Writers(table, type, p)' = Writers(table, type, p)
                           \cup IF Holds(S, table, type, p) THEN {t} ELSE {}
    BY <1>4, <1>5, WritersAfter
  <1>7. LET W == Writers("ledger", "PAYMENT_RECEIVED", p)' IN
          /\ W = Writers("ledger", "INSTITUTION_ENTITLEMENT", p)'
          /\ W = Writers("ledger", "PLATFORM_PAYMENT_FEE", p)'
          /\ W = Writers("revenue", "PAYMENT_SUCCESSFUL", p)'
          /\ BillOf[p] # NoBill => W = Writers("allocation", "ALLOCATION", p)'
    BY <1>4, <1>6 DEF BooksInv
  <1>8. Rows("receipt", "RECEIPT", p)' = Rows("receipt", "RECEIPT", p)
          \cup {r \in S : r.table = "receipt" /\ r.type = "RECEIPT" /\ r.of = p}
    BY <1>5 DEF Rows
  <1>9. \A r, s \in Rows("receipt", "RECEIPT", p)' : r = s
    <2>1. Holds(S, "receipt", "RECEIPT", p) => Rows("receipt", "RECEIPT", p) = {}
      BY <1>2 DEF BooksInv
    <2>. QED BY <1>4, <1>8, <2>1 DEF BooksInv, Holds
  <1>10. Rows("receipt", "RECEIPT", p)' # {} <=> Writers("ledger", "PAYMENT_RECEIVED", p)' # {}
    <2>1. CASE done
      <3>1. t \in Writers("ledger", "PAYMENT_RECEIVED", p)'
        BY <1>4, <1>6, <2>1
      <3>2. Rows("receipt", "RECEIPT", p)' # {}
        BY <1>4, <1>8, <2>1 DEF Rows
      <3>. QED BY <3>1, <3>2
    <2>2. CASE ~done
      <3>1. Writers("ledger", "PAYMENT_RECEIVED", p)' = Writers("ledger", "PAYMENT_RECEIVED", p)
        BY <1>4, <1>6, <2>2
      <3>2. Rows("receipt", "RECEIPT", p)' = Rows("receipt", "RECEIPT", p)
        BY <1>4, <1>8, <2>2 DEF Holds
      <3>. QED BY <3>1, <3>2 DEF BooksInv
    <2>. QED BY <2>1, <2>2
  <1>11. ASSUME NEW u \in Txns, Holds(work'[u].rows, "receipt", "RECEIPT", p)
         PROVE  Rows("receipt", "RECEIPT", p)' = {}
    <2>1. u # t /\ work'[u] = work[u]
      BY <1>1, <1>11, NoWorkIs DEF Others
    <2>2. Holds(work[u].rows, "receipt", "RECEIPT", p)
      BY <1>11, <2>1
    <2>3. Rows("receipt", "RECEIPT", p) = {}
      BY <2>2 DEF BooksInv
    <2>4. IsFor(u, p) /\ work[u].status = "SUCCESSFUL"
      <3>1. PICK r \in work[u].rows : r.table = "receipt" /\ r.of = p
        BY <2>2 DEF Holds
      <3>2. ForPayment(req[u], p)
        BY <3>1 DEF BaseInv, PreparedInv, Prepared, OwnRows, BookTables
      <3>3. WholeBooks(work[u].rows, p, work[u].status = "SUCCESSFUL")
        BY <3>2 DEF BaseInv, PreparedInv, Prepared, StagedBooks
      <3>. QED BY <2>2, <3>2, <3>3 DEF WholeBooks, IsFor, ForPayment
    <2>5. "SUCCESSFUL" # NoWrite
      BY ConstantsAssumption DEF Status
    <2>6. ~done
      BY <1>3, <2>1, <2>4, <2>5, OneWriter
    <2>. QED BY <1>4, <1>8, <2>3, <2>6 DEF Holds
  <1>. QED BY <1>7, <1>9, <1>10, <1>11

(***************************************************************************)
(* The ledger entries, the revenue, the allocation and the receipt of a    *)
(* payment are posted together or not at all, and there is one receipt     *)
(* even when a race books a payment twice (_apply_outcome,                 *)
(* _allocate_to_bill, generate_receipt).                                   *)
(***************************************************************************)
THEOREM TheBooksAgree == Spec => []BooksAgree
  <1>1. Init => BooksInv
    BY NoWorkIs DEF Init, BooksInv, Writers, Rows
  <1>2. BaseInv /\ BooksInv /\ [Next]_vars => BooksInv'
    <2>. SUFFICES ASSUME BaseInv, BooksInv, [Next]_vars PROVE BooksInv'
      OBVIOUS
    <2>1. CASE UNCHANGED vars
      BY <2>1 DEF vars, BooksInv, Writers, Rows
    <2>. QED BY <2>1, NextGuarded, BooksGuardedStep, BooksCommitted DEF BaseInv
  <1>3. BooksInv => BooksAgree
    <2>. SUFFICES ASSUME BooksInv, NEW p \in Payments
                  PROVE  Cardinality(Rows("receipt", "RECEIPT", p))
                           = IF Writers("ledger", "PAYMENT_RECEIVED", p) = {} THEN 0 ELSE 1
      BY DEF BooksAgree, BooksInv
    <2>1. /\ \A r, s \in Rows("receipt", "RECEIPT", p) : r = s
          /\ Rows("receipt", "RECEIPT", p) # {} <=> Writers("ledger", "PAYMENT_RECEIVED", p) # {}
      BY DEF BooksInv
    <2>. QED BY <2>1, AtMostOne
  <1>. QED BY <1>1, <1>2, <1>3, BaseInvariant, PTL DEF Spec

-----------------------------------------------------------------------------
(***************************************************************************)
(* When requests about one payment do not overlap, a request that has read *)
(* a payment is alone with it, and what it has read is what is committed.  *)
(***************************************************************************)
Posted(p) == Writers("ledger", "PAYMENT_RECEIVED", p)

OnceInv == "payment" \notin Overlaps =>
  /\ \A t, u \in Txns, p \in Payments :
        HasReadPayment(t, p) /\ HasReadPayment(u, p) => t = u
  /\ \A t \in Txns, p \in Payments : HasReadPayment(t, p) => inst[t].status = payment[p].status
  /\ \A p \in Payments : /\ \A x, y \in Posted(p) : x = y
                         /\ Posted(p) # {} <=> Settled(p)

LEMMA OnceGuardedStep ==
  ASSUME BaseInv, OnceInv, NEW t \in Txns, Guarded(t), "payment" \notin Overlaps
  PROVE  OnceInv'
  <1>1. Others(t) /\ UNCHANGED <<payment, rows>>
    BY DEF Guarded, StagingOnly
  <1>2. ASSUME NEW p \in Payments, HasReadPayment(t, p)'
        PROVE  /\ \A u \in Txns \ {t} : ~HasReadPayment(u, p)
               /\ inst'[t].status = payment[p].status
    <2>1. IsFor(t, p)' /\ ~Starts(t, p)' /\ inst'[t].status # Absent
      BY <1>2 DEF HasReadPayment, Starts
    <2>2. CASE IsFor(t, p) /\ ~Starts(t, p) /\ inst'[t].status = inst[t].status /\ Open(t)
      <3>1. HasReadPayment(t, p)
        BY <2>1, <2>2 DEF HasReadPayment, Starts, IsFor
      <3>. QED BY <2>2, <3>1 DEF OnceInv
    <2>3. CASE inst'[t].status = payment[p].status /\ MayReadPayment(t, p)
      BY <2>3 DEF MayReadPayment
    <2>. QED BY <2>1, <2>2, <2>3 DEF Guarded, ReadsFresh
  <1>3. \A u \in Txns \ {t}, p \in Payments : HasReadPayment(u, p)' <=> HasReadPayment(u, p)
    BY <1>1 DEF Others, HasReadPayment, Open, IsFor
  <1>4. ASSUME NEW u \in Txns, NEW v \in Txns, NEW p \in Payments,
               HasReadPayment(u, p)', HasReadPayment(v, p)'
        PROVE  u = v
    BY <1>2, <1>3, <1>4 DEF OnceInv
  <1>5. ASSUME NEW u \in Txns, NEW p \in Payments, HasReadPayment(u, p)'
        PROVE  inst'[u].status = payment'[p].status
    <2>1. CASE u = t
      BY <1>1, <1>2, <1>5, <2>1
    <2>2. CASE u # t
      BY <1>1, <1>3, <1>5, <2>2 DEF OnceInv, Others
    <2>. QED BY <2>1, <2>2
  <1>6. \A p \in Payments : /\ \A x, y \in Posted(p)' : x = y
                            /\ Posted(p)' # {} <=> Settled(p)'
    BY <1>1 DEF OnceInv, Posted, Writers, Rows, Settled
  <1>. QED BY <1>4, <1>5, <1>6 DEF OnceInv

\* what a legal move does to a settled payment
LEMMA SettledMoves ==
  ASSUME NEW s \in Status, NEW u \in AllowedTransitions[s]
  PROVE  /\ s \in SettledStatus <=> s = "SUCCESSFUL"
         /\ u = "SUCCESSFUL" => s \notin SettledStatus
         /\ u # "SUCCESSFUL" => (u \in SettledStatus <=> s \in SettledStatus)
  BY DEF AllowedTransitions, Status, SettledStatus

\* the status a request publishes is a legal move from the status committed
LEMMA PublishedMove ==
  ASSUME BaseInv, OnceInv, "payment" \notin Overlaps, NEW t \in Txns, pc[t] = "commit",
         NEW p \in Payments, IsFor(t, p), work[t].status # NoWrite
  PROVE  /\ work[t].status \in AllowedTransitions[IF Exists(p) THEN payment[p].status ELSE "INITIATED"]
         /\ Exists(p) => HasReadPayment(t, p)
  <1>1. /\ inst[t].status \in Status /\ work[t].status \in AllowedTransitions[inst[t].status]
        /\ req[t].op = "initiate" => inst[t].status = "INITIATED"
    BY DEF BaseInv, PreparedInv, Prepared, LegalMove
  <1>2. CASE Starts(t, p)
    <2>1. ~Exists(p)
      BY <1>2 DEF BaseInv, HoldInv
    <2>. QED BY <1>1, <1>2, <2>1 DEF Starts
  <1>3. CASE ~Starts(t, p)
    <2>1. inst[t].status # Absent
      BY <1>1, ConstantsAssumption
    <2>2. Exists(p)
      BY <1>3, <2>1 DEF BaseInv, HoldInv
    <2>3. HasReadPayment(t, p)
      BY <1>3, <2>1 DEF HasReadPayment, Open, Starts, IsFor
    <2>4. inst[t].status = payment[p].status
      BY <2>3 DEF OnceInv
    <2>. QED BY <1>1, <2>2, <2>3, <2>4
  <1>. QED BY <1>2, <1>3

LEMMA OnceCommitted ==
  ASSUME BaseInv, OnceInv, NEW t \in Txns, Commit(t), "payment" \notin Overlaps
  PROVE  OnceInv'
  <1>1. /\ pc[t] = "commit" /\ Others(t) /\ req'[t] = NoRequest /\ rows' = rows \cup work[t].rows
        /\ \A p \in Payments : payment'[p].status = IF IsFor(t, p) /\ work[t].status # NoWrite
                                                     THEN work[t].status ELSE payment[p].status
    BY CommitIs DEF BaseInv
  <1>2. /\ \A p \in Payments : ~HasReadPayment(t, p)'
        /\ \A u \in Txns \ {t}, p \in Payments : HasReadPayment(u, p)' <=> HasReadPayment(u, p)
    BY <1>1, NoWorkIs DEF Others, HasReadPayment, Open, IsFor
  <1>3. ASSUME NEW u \in Txns, NEW p \in Payments, HasReadPayment(u, p)'
        PROVE  inst'[u].status = payment'[p].status
    <2>1. u # t /\ HasReadPayment(u, p) /\ inst'[u] = inst[u]
      BY <1>1, <1>2, <1>3 DEF Others
    <2>2. Exists(p)
      BY <2>1 DEF HasReadPayment, BaseInv, HoldInv, Starts
    <2>3. ~(IsFor(t, p) /\ work[t].status # NoWrite)
      BY <1>1, <2>1, <2>2, PublishedMove DEF OnceInv
    <2>. QED BY <1>1, <2>1, <2>3 DEF OnceInv
  <1>4. ASSUME NEW p \in Payments
        PROVE  /\ \A x, y \in Posted(p)' : x = y
               /\ Posted(p)' # {} <=> Settled(p)'
    <2>1. PICK done \in BOOLEAN : done <=> (IsFor(t, p) /\ work[t].status = "SUCCESSFUL")
      OBVIOUS
    <2>2. PICK S : S = work[t].rows
      OBVIOUS
    <2>3. (Holds(S, "ledger", "PAYMENT_RECEIVED", p) <=> done) /\ \A r \in S : r.by = t
      BY <1>1, <2>1, <2>2, PublishedBooks DEF WholeBooks
    <2>4. rows' = rows \cup S
      BY <1>1, <2>2
    <2>5. Posted(p)' = Posted(p) \cup IF done THEN {t} ELSE {}
      <3>1. Posted(p)' = Posted(p) \cup IF Holds(S, "ledger", "PAYMENT_RECEIVED", p) THEN {t} ELSE {}
        BY <2>3, <2>4, WritersAfter DEF Posted
      <3>. QED BY <2>3, <3>1
    <2>6. /\ \A x, y \in Posted(p) : x = y
          /\ Posted(p) # {} <=> payment[p].status \in SettledStatus
      BY DEF OnceInv, Settled, SettledStatus
    <2>7. Settled(p)' <=> payment'[p].status \in SettledStatus
      BY DEF Settled, SettledStatus
    <2>8. CASE ~(IsFor(t, p) /\ work[t].status # NoWrite)
      <3>1. ~done
        BY <2>1, <2>8, ConstantsAssumption DEF Status
      <3>. QED BY <1>1, <2>5, <2>6, <2>7, <2>8, <3>1
    <2>9. CASE IsFor(t, p) /\ work[t].status # NoWrite
      <3>1. PICK s : s = IF Exists(p) THEN payment[p].status ELSE "INITIATED"
        OBVIOUS
      <3>2. PICK u : u = work[t].status
        OBVIOUS
      <3>3. s \in Status /\ u \in AllowedTransitions[s]
        BY <1>1, <2>9, <3>1, <3>2, PublishedMove DEF Exists, BaseInv, TypeInv, TypeOK, PaymentRow, Status
      <3>4. payment[p].status \in SettledStatus <=> s \in SettledStatus
        BY <3>1, ConstantsAssumption DEF Exists, SettledStatus, Status
      <3>5. /\ u = "SUCCESSFUL" => s \notin SettledStatus
            /\ u # "SUCCESSFUL" => (u \in SettledStatus <=> s \in SettledStatus)
        BY <3>3, SettledMoves
      <3>6. payment'[p].status = u /\ (done <=> u = "SUCCESSFUL")
        BY <1>1, <2>1, <2>9, <3>2
      <3>7. u = "SUCCESSFUL" => u \in SettledStatus
        BY DEF SettledStatus
      <3>. QED BY <2>5, <2>6, <2>7, <3>4, <3>5, <3>6, <3>7
    <2>. QED BY <2>8, <2>9
  <1>. QED BY <1>2, <1>3, <1>4 DEF OnceInv

LEMMA OnceInvariant == Spec => []OnceInv
  <1>1. Init => OnceInv
    <2>. SUFFICES ASSUME Init PROVE OnceInv
      OBVIOUS
    <2>1. \A t \in Txns, p \in Payments : ~HasReadPayment(t, p)
      BY DEF Init, HasReadPayment, Open
    <2>2. \A p \in Payments : Posted(p) = {} /\ ~Settled(p)
      BY ConstantsAssumption DEF Init, Posted, Writers, Rows, Settled, Status
    <2>. QED BY <2>1, <2>2 DEF OnceInv
  <1>2. BaseInv /\ OnceInv /\ [Next]_vars => OnceInv'
    <2>. SUFFICES ASSUME BaseInv, OnceInv, [Next]_vars, "payment" \notin Overlaps PROVE OnceInv'
      BY DEF OnceInv
    <2>1. CASE UNCHANGED vars
      BY <2>1 DEF vars, OnceInv, Posted, Writers, Rows, Settled, HasReadPayment, Open, IsFor
    <2>. QED BY <2>1, NextGuarded, OnceGuardedStep, OnceCommitted DEF BaseInv
  <1>. QED BY <1>1, <1>2, BaseInvariant, PTL DEF Spec

(***************************************************************************)
(* "Charged, exactly once each" (README.md): when requests about one       *)
(* payment do not overlap, a settled payment has been booked by exactly    *)
(* one request and any other payment by none, whatever callbacks, queries, *)
(* retries and crashes there have been.                                    *)
(***************************************************************************)
THEOREM ChargedExactlyOnce ==
  ASSUME "payment" \notin Overlaps
  PROVE  Spec => []BookedExactlyOnce
  <1>1. OnceInv => BookedExactlyOnce
    <2>. SUFFICES ASSUME OnceInv, NEW p \in Payments
                  PROVE  Cardinality(Posted(p)) = IF Settled(p) THEN 1 ELSE 0
      BY DEF BookedExactlyOnce, Posted
    <2>1. (\A x, y \in Posted(p) : x = y) /\ (Posted(p) # {} <=> Settled(p))
      BY DEF OnceInv
    <2>. QED BY <2>1, AtMostOne
  <1>. QED BY <1>1, OnceInvariant, PTL

-----------------------------------------------------------------------------
(***************************************************************************)
(* What has been paid towards a bill: a sum over a finite set of           *)
(* allocations, each of a positive amount.                                 *)
(***************************************************************************)
Positive(S) == IsFiniteSet(S) /\ \A r \in S : r.table = "allocation" => r.amt \in Nat \ {0}

LEMMA PaidSame ==
  ASSUME NEW S, NEW T, NEW b, Allocations(S, b) = Allocations(T, b)
  PROVE  AmountPaid(S, b) = AmountPaid(T, b)
  BY DEF AmountPaid

LEMMA PaidIsSum ==
  ASSUME NEW R, Positive(R), NEW S \in SUBSET R, NEW b
  PROVE  /\ AmountPaid(S, b) = SumOf([r \in R |-> r.amt], Allocations(S, b))
         /\ IsFiniteSet(Allocations(S, b)) /\ Allocations(S, b) \in SUBSET R
         /\ \A r \in Allocations(S, b) : [x \in R |-> x.amt][r] \in Nat \ {0}
  <1>1. Allocations(S, b) \in SUBSET R /\ \A r \in Allocations(S, b) : r.table = "allocation"
    BY DEF Allocations
  <1>2. IsFiniteSet(Allocations(S, b))
    BY <1>1, FS_Subset DEF Positive
  <1>3. \A r \in Allocations(S, b) : [x \in R |-> x.amt][r] \in Nat \ {0}
    BY <1>1 DEF Positive
  <1>4. AmountPaid(S, b) = SumOf([r \in R |-> r.amt], Allocations(S, b))
    <2>1. PICK A : A = Allocations(S, b)
      OBVIOUS
    <2>2. MapThenSumSet(LAMBDA r : r.amt, A) = SumOf([r \in R |-> r.amt], A)
      BY <1>1, <1>2, <2>1, SumOfAmounts
    <2>. QED BY <2>1, <2>2 DEF AmountPaid
  <1>. QED BY <1>1, <1>2, <1>3, <1>4

LEMMA PaidGrows ==
  ASSUME NEW T, Positive(T), NEW S \in SUBSET T, NEW b
  PROVE  /\ AmountPaid(S, b) \in Nat /\ AmountPaid(T, b) \in Nat
         /\ AmountPaid(S, b) <= AmountPaid(T, b)
  <1>1. PICK f : f = [r \in T |-> r.amt]
    OBVIOUS
  <1>2. /\ AmountPaid(S, b) = SumOf(f, Allocations(S, b))
        /\ AmountPaid(T, b) = SumOf(f, Allocations(T, b))
        /\ IsFiniteSet(Allocations(S, b)) /\ IsFiniteSet(Allocations(T, b))
        /\ \A r \in Allocations(S, b) : f[r] \in Nat
        /\ \A r \in Allocations(T, b) : f[r] \in Nat
    <2>1. T \in SUBSET T
      OBVIOUS
    <2>2. \A U \in SUBSET T :
            /\ AmountPaid(U, b) = SumOf([r \in T |-> r.amt], Allocations(U, b))
            /\ IsFiniteSet(Allocations(U, b))
            /\ \A r \in Allocations(U, b) : [x \in T |-> x.amt][r] \in Nat \ {0}
      BY PaidIsSum
    <2>. QED BY <1>1, <2>1, <2>2
  <1>3. Allocations(S, b) \in SUBSET Allocations(T, b)
    BY DEF Allocations
  <1>4. SumOf(f, Allocations(S, b)) <= SumOf(f, Allocations(T, b))
    BY <1>2, <1>3, SumGrows
  <1>5. SumOf(f, Allocations(S, b)) \in Nat /\ SumOf(f, Allocations(T, b)) \in Nat
    BY <1>2, SumNat
  <1>. QED BY <1>2, <1>4, <1>5

LEMMA NothingPaid == ASSUME NEW b PROVE AmountPaid({}, b) = 0
  <1>1. Allocations({}, b) = {} /\ Positive({})
    BY FS_EmptySet DEF Allocations, Positive
  <1>2. AmountPaid({}, b) = SumOf([r \in {} |-> r.amt], Allocations({}, b))
    <2>1. {} \in SUBSET {}
      OBVIOUS
    <2>. QED BY <1>1, <2>1, PaidIsSum
  <1>. QED BY <1>1, <1>2, SumEmpty

LEMMA SomethingPaid ==
  ASSUME NEW S, Positive(S), NEW b, Allocations(S, b) # {}
  PROVE  AmountPaid(S, b) > 0
  <1>1. PICK f : f = [r \in S |-> r.amt]
    OBVIOUS
  <1>2. PICK A : A = Allocations(S, b)
    OBVIOUS
  <1>3. /\ AmountPaid(S, b) = SumOf(f, A) /\ IsFiniteSet(A)
        /\ \A r \in A : f[r] \in Nat \ {0}
    <2>1. S \in SUBSET S
      OBVIOUS
    <2>2. /\ AmountPaid(S, b) = SumOf([r \in S |-> r.amt], Allocations(S, b))
          /\ IsFiniteSet(Allocations(S, b))
          /\ \A r \in Allocations(S, b) : [x \in S |-> x.amt][r] \in Nat \ {0}
      BY <2>1, PaidIsSum
    <2>. QED BY <1>1, <1>2, <2>2
  <1>4. PICK e \in A : TRUE
    BY <1>2
  <1>5. SumOf(f, A) = f[e] + SumOf(f, A \ {e})
    BY <1>3, SumRemove
  <1>6. SumOf(f, A \ {e}) \in Nat
    <2>1. IsFiniteSet(A \ {e}) /\ \A r \in A \ {e} : f[r] \in Nat
      BY <1>3, FS_RemoveElement
    <2>. QED BY <2>1, SumNat
  <1>. QED BY <1>3, <1>5, <1>6

\* the rows committed, with or without those a request has staged
RowsArePositive == \A t \in Txns : Positive(rows) /\ Positive(rows \cup work[t].rows)

LEMMA RowsPositive == BaseInv => RowsArePositive
  <1>. SUFFICES ASSUME BaseInv, NEW t \in Txns
                PROVE  Positive(rows) /\ Positive(rows \cup work[t].rows)
    BY DEF RowsArePositive
  <1>1. IsFiniteSet(rows) /\ IsFiniteSet(rows \cup work[t].rows)
    BY FS_Union DEF BaseInv, RowsInv, PreparedInv, Prepared, OwnRows
  <1>2. \A r \in rows \cup work[t].rows : r.table = "allocation" => r.amt = Amount[r.of]
    BY DEF BaseInv, RowsInv, PreparedInv, Prepared, OwnRows
  <1>3. \A r \in rows \cup work[t].rows : r.table = "allocation" => r.of \in Payments
    <2>1. rows \cup work[t].rows \subseteq Row
      BY DEF BaseInv, TypeInv, TypeOK, Work
    <2>2. \A r \in Row : r.table = "allocation" => r.of \in Payments
      BY DEF Row, TableRow
    <2>. QED BY <2>1, <2>2
  <1>. QED BY <1>1, <1>2, <1>3, ConstantsAssumption DEF Positive

\* a request that has staged an allocation, or a bill's status, has read the bill
LEMMA WritesWhatItRead ==
  ASSUME BaseInv, NEW t \in Txns, NEW b \in Bills
  PROVE  /\ work[t].bill # NoWrite /\ BillIn(t) = b => HasReadBill(t, b)
         /\ Allocations(work[t].rows, b) # {} => HasReadBill(t, b)
  <1>1. /\ work[t].bill # NoWrite => inst[t].bill # NoWrite
        /\ (\E r \in work[t].rows : r.table = "allocation") => inst[t].bill # NoWrite
        /\ \A r \in work[t].rows : r.table = "allocation" => ForPayment(req[t], r.of)
        /\ ~Open(t) => inst[t] = NoInstance
    BY DEF BaseInv, PreparedInv, Prepared, StagedBill, OwnRows, BookTables, Early, Ended, Open
  <1>2. inst[t].bill # NoWrite => Open(t)
    BY <1>1, NoWorkIs
  <1>. QED BY <1>1, <1>2 DEF HasReadBill, Allocations, BillIn, ForPayment

(***************************************************************************)
(* A bill's balance may be read before others commit, but committed        *)
(* allocations are never removed: PAID, once true, stays true.             *)
(***************************************************************************)
PaidInv ==
  /\ PaidIsCovered
  /\ \A t \in Txns, b \in Bills : HasReadBill(t, b) /\ work[t].bill = "PAID"
       => AmountPaid(rows \cup work[t].rows, b) >= Total[b]

LEMMA PaidGuardedStep ==
  ASSUME BaseInv, RowsArePositive', PaidInv, NEW t \in Txns, Guarded(t)
  PROVE  PaidInv'
  <1>1. Others(t) /\ UNCHANGED <<bill, rows>>
    BY DEF Guarded, StagingOnly
  <1>2. PaidIsCovered'
    BY <1>1 DEF PaidInv, PaidIsCovered
  <1>3. ASSUME NEW u \in Txns, NEW b \in Bills, HasReadBill(u, b)', work'[u].bill = "PAID"
        PROVE  AmountPaid(rows' \cup work'[u].rows, b) >= Total[b]
    <2>1. CASE u # t
      BY <1>1, <1>3, <2>1 DEF PaidInv, Others, HasReadBill, Open, BillIn
    <2>2. CASE u = t
      <3>1. PICK S : S = rows \cup work'[t].rows
        OBVIOUS
      <3>2. Positive(S)
        BY <1>1, <3>1 DEF RowsArePositive
      <3>3. AmountPaid(S, b) \in Nat
        <4>1. S \in SUBSET S
          OBVIOUS
        <4>. QED BY <3>2, <4>1, PaidGrows
      <3>4. CASE /\ HasReadBill(t, b) /\ work'[t].bill = work[t].bill
                 /\ Allocations(work'[t].rows, b) = Allocations(work[t].rows, b)
        <4>1. Allocations(rows \cup work[t].rows, b) = Allocations(S, b)
          BY <3>1, <3>4 DEF Allocations
        <4>2. AmountPaid(rows \cup work[t].rows, b) = AmountPaid(S, b)
          BY <4>1, PaidSame
        <4>. QED BY <1>1, <1>3, <2>2, <3>1, <3>4, <4>2 DEF PaidInv
      <3>5. CASE work'[t].bill \in {NoWrite, "CANCELLED"}
        BY <1>3, <2>2, <3>5, ConstantsAssumption DEF BillStatus
      <3>6. CASE work'[t].bill = BillAfterAllocation(inst'[t].bill, b, S)
        <4>1. Total[b] - AmountPaid(S, b) <= 0
          <5>1. "PAID" # NoWrite
            BY ConstantsAssumption DEF BillStatus
          <5>. QED BY <1>3, <2>2, <3>6, <5>1 DEF BillAfterAllocation
        <4>2. Total[b] \in Nat
          BY ConstantsAssumption
        <4>. QED BY <1>1, <2>2, <3>1, <3>3, <4>1, <4>2
      <3>7. HasReadBill(t, b)'
        BY <1>3, <2>2
      <3>. QED BY <3>1, <3>4, <3>5, <3>6, <3>7 DEF Guarded, BillStaged
    <2>. QED BY <2>1, <2>2
  <1>. QED BY <1>2, <1>3 DEF PaidInv

LEMMA PaidCommitted ==
  ASSUME BaseInv, RowsArePositive', PaidInv, NEW t \in Txns, Commit(t)
  PROVE  PaidInv'
  <1>1. /\ Others(t) /\ rows' = rows \cup work[t].rows /\ inst'[t] = NoInstance
        /\ \A b \in Bills : bill'[b] = IF work[t].bill # NoWrite /\ BillIn(t) = b
                                       THEN work[t].bill ELSE bill[b]
    BY CommitIs DEF BaseInv
  <1>2. \A u \in Txns : Positive(rows') /\ Positive(rows' \cup work'[u].rows)
    BY DEF RowsArePositive
  <1>3. ASSUME NEW b \in Bills, bill'[b] = "PAID"
        PROVE  AmountPaid(rows', b) >= Total[b]
    <2>1. CASE work[t].bill # NoWrite /\ BillIn(t) = b
      BY <1>1, <1>3, <2>1, WritesWhatItRead DEF PaidInv
    <2>2. CASE ~(work[t].bill # NoWrite /\ BillIn(t) = b)
      <3>1. AmountPaid(rows, b) >= Total[b]
        BY <1>1, <1>3, <2>2 DEF PaidInv, PaidIsCovered
      <3>2. rows \in SUBSET rows'
        BY <1>1
      <3>3. /\ AmountPaid(rows, b) \in Nat /\ AmountPaid(rows', b) \in Nat
            /\ AmountPaid(rows, b) <= AmountPaid(rows', b)
        BY <1>2, <3>2, PaidGrows
      <3>. QED BY <3>1, <3>3, ConstantsAssumption
    <2>. QED BY <2>1, <2>2
  <1>4. ASSUME NEW u \in Txns, NEW b \in Bills, HasReadBill(u, b)', work'[u].bill = "PAID"
        PROVE  AmountPaid(rows' \cup work'[u].rows, b) >= Total[b]
    <2>1. u # t
      BY <1>1, <1>4, NoWorkIs DEF HasReadBill
    <2>2. HasReadBill(u, b) /\ work'[u] = work[u]
      BY <1>1, <1>4, <2>1 DEF Others, HasReadBill, Open, BillIn
    <2>3. AmountPaid(rows \cup work[u].rows, b) >= Total[b]
      BY <1>4, <2>2 DEF PaidInv
    <2>4. rows \cup work[u].rows \in SUBSET (rows' \cup work'[u].rows)
      BY <1>1, <2>2
    <2>5. PICK S, T : S = rows \cup work[u].rows /\ T = rows' \cup work'[u].rows
      OBVIOUS
    <2>6. AmountPaid(S, b) \in Nat /\ AmountPaid(T, b) \in Nat /\ AmountPaid(S, b) <= AmountPaid(T, b)
      BY <1>2, <2>4, <2>5, PaidGrows
    <2>. QED BY <2>3, <2>5, <2>6, ConstantsAssumption
  <1>5. PaidIsCovered'
    BY <1>3 DEF PaidIsCovered
  <1>. QED BY <1>4, <1>5 DEF PaidInv

(***************************************************************************)
(* A bill shown as PAID is covered by its allocations, although            *)
(* _allocate_to_bill computes the balance from what was committed when it  *)
(* looked and other requests allocate to the bill meanwhile.               *)
(***************************************************************************)
THEOREM PaidBillsAreCovered == Spec => []PaidIsCovered
  <1>1. Init => PaidInv
    BY DEF Init, PaidInv, PaidIsCovered, HasReadBill, Open
  <1>2. BaseInv /\ RowsArePositive' /\ PaidInv /\ [Next]_vars => PaidInv'
    <2>. SUFFICES ASSUME BaseInv, RowsArePositive', PaidInv, [Next]_vars PROVE PaidInv'
      OBVIOUS
    <2>1. CASE UNCHANGED vars
      BY <2>1 DEF vars, PaidInv, PaidIsCovered, HasReadBill, Open, BillIn
    <2>. QED BY <2>1, NextGuarded, PaidGuardedStep, PaidCommitted DEF BaseInv
  <1>3. PaidInv => PaidIsCovered
    BY DEF PaidInv
  <1>. QED BY <1>1, <1>2, <1>3, RowsPositive, BaseInvariant, PTL DEF Spec

-----------------------------------------------------------------------------
(***************************************************************************)
(* When requests about one bill do not overlap, a request that has read a  *)
(* bill is alone with it: what it has read is what is committed, and the   *)
(* status it stages is the one its own allocation calls for.               *)
(***************************************************************************)
Reflects(s, paid, b) ==
  /\ s = "ACTIVE" => paid = 0
  /\ s = "PARTIALLY_PAID" => 0 < paid /\ paid < Total[b]
  /\ s = "PAID" => paid >= Total[b]

\* the status bill b will have once t has committed
StatusAfter(t, b) == IF work[t].bill = NoWrite THEN bill[b] ELSE work[t].bill

BillInv == "bill" \notin Overlaps =>
  /\ \A t, u \in Txns, b \in Bills : HasReadBill(t, b) /\ HasReadBill(u, b) => t = u
  /\ \A b \in Bills : Reflects(bill[b], AmountPaid(rows, b), b)
  /\ \A t \in Txns, b \in Bills : HasReadBill(t, b) =>
       /\ inst[t].bill = bill[b]
       /\ Reflects(StatusAfter(t, b), AmountPaid(rows \cup work[t].rows, b), b)

\* the status _allocate_to_bill decides on is the one the balance calls for
LEMMA AllocationReflects ==
  ASSUME NEW b \in Bills, NEW s \in BillStatus, NEW old \in Nat, Reflects(s, old, b),
         NEW S, AmountPaid(S, b) \in Nat, AmountPaid(S, b) > 0, AmountPaid(S, b) >= old
  PROVE  LET to == BillAfterAllocation(s, b, S)
         IN  Reflects(IF to = NoWrite THEN s ELSE to, AmountPaid(S, b), b)
  <1>1. Total[b] \in Nat /\ NoWrite \notin BillStatus
    BY ConstantsAssumption
  <1>2. {"ACTIVE", "PARTIALLY_PAID", "PAID"} \subseteq BillStatus
    BY DEF BillStatus
  <1>3. PICK paid \in Nat : paid = AmountPaid(S, b)
    OBVIOUS
  <1>4. PICK to : to = BillAfterAllocation(s, b, S)
    OBVIOUS
  <1>5. to = IF s \notin {"ACTIVE", "PARTIALLY_PAID"} THEN NoWrite
             ELSE IF Total[b] - paid <= 0 THEN "PAID"
             ELSE IF s = "ACTIVE" THEN "PARTIALLY_PAID" ELSE NoWrite
    BY <1>3, <1>4 DEF BillAfterAllocation
  <1>6. Reflects(IF to = NoWrite THEN s ELSE to, paid, b)
    BY <1>1, <1>2, <1>3, <1>5 DEF Reflects
  <1>. QED BY <1>3, <1>4, <1>6

LEMMA BillGuardedStep ==
  ASSUME BaseInv, RowsArePositive', BillInv, NEW t \in Txns, Guarded(t), "bill" \notin Overlaps
  PROVE  BillInv'
  <1>1. Others(t) /\ UNCHANGED <<bill, rows>>
    BY DEF Guarded, StagingOnly
  <1>2. \A u \in Txns \ {t}, b \in Bills : HasReadBill(u, b)' <=> HasReadBill(u, b)
    BY <1>1 DEF Others, HasReadBill, Open, BillIn
  <1>3. ASSUME NEW b \in Bills, HasReadBill(t, b)'
        PROVE  /\ \A u \in Txns \ {t} : ~HasReadBill(u, b)
               /\ inst'[t].bill = bill[b]
    <2>1. CASE HasReadBill(t, b) /\ inst'[t].bill = inst[t].bill
      BY <2>1 DEF BillInv
    <2>2. CASE inst'[t].bill = bill[b] /\ MayReadBill(t, b)
      BY <2>2 DEF MayReadBill
    <2>. QED BY <1>3, <2>1, <2>2 DEF Guarded, BillReadFresh
  <1>4. ASSUME NEW b \in Bills, HasReadBill(t, b)'
        PROVE  Reflects(StatusAfter(t, b)', AmountPaid(rows \cup work'[t].rows, b), b)
    <2>1. PICK S : S = rows \cup work'[t].rows
      OBVIOUS
    <2>2. PICK w : w = work'[t].bill
      OBVIOUS
    <2>3. Positive(S) /\ rows \in SUBSET S
      BY <1>1, <2>1 DEF RowsArePositive
    <2>4. /\ AmountPaid(rows, b) \in Nat /\ AmountPaid(S, b) \in Nat
          /\ AmountPaid(rows, b) <= AmountPaid(S, b)
      BY <2>3, PaidGrows
    <2>5. StatusAfter(t, b)' = IF w = NoWrite THEN bill[b] ELSE w
      BY <1>1, <2>2 DEF StatusAfter
    <2>6. Reflects(bill[b], AmountPaid(rows, b), b)
      BY DEF BillInv
    <2>7. CASE /\ HasReadBill(t, b) /\ work'[t].bill = work[t].bill
               /\ Allocations(work'[t].rows, b) = Allocations(work[t].rows, b)
      <3>1. Allocations(rows \cup work[t].rows, b) = Allocations(S, b)
        BY <2>1, <2>7 DEF Allocations
      <3>2. AmountPaid(rows \cup work[t].rows, b) = AmountPaid(S, b)
        BY <3>1, PaidSame
      <3>3. Reflects(StatusAfter(t, b), AmountPaid(rows \cup work[t].rows, b), b)
        BY <2>7 DEF BillInv
      <3>4. StatusAfter(t, b)' = StatusAfter(t, b)
        BY <1>1, <2>7 DEF StatusAfter
      <3>. QED BY <2>1, <3>2, <3>3, <3>4
    <2>8. CASE w \in {NoWrite, "CANCELLED"} /\ Allocations(work'[t].rows, b) = {}
      <3>1. Allocations(rows, b) = Allocations(S, b)
        BY <2>1, <2>8 DEF Allocations
      <3>2. AmountPaid(rows, b) = AmountPaid(S, b)
        BY <3>1, PaidSame
      <3>3. "CANCELLED" # NoWrite
        BY ConstantsAssumption DEF BillStatus
      <3>. QED BY <2>1, <2>5, <2>6, <2>8, <3>2, <3>3 DEF Reflects
    <2>9. CASE \E p \in Payments :
                 /\ BillOf[p] = b /\ Allocations(work[t].rows, b) = {}
                 /\ Allocations(work'[t].rows, b) = {NewRow("allocation", "ALLOCATION", p, t, Amount[p])}
                 /\ w = BillAfterAllocation(inst'[t].bill, b, S)
      <3>1. Allocations(S, b) # {}
        BY <2>1, <2>9 DEF Allocations
      <3>2. AmountPaid(S, b) > 0
        BY <2>3, <3>1, SomethingPaid
      <3>3. w = BillAfterAllocation(bill[b], b, S)
        BY <1>3, <1>4, <2>9
      <3>4. bill[b] \in BillStatus
        BY DEF BaseInv, TypeInv, TypeOK
      <3>5. PICK s : s = bill[b]
        OBVIOUS
      <3>6. Reflects(IF w = NoWrite THEN s ELSE w, AmountPaid(S, b), b)
        BY <2>4, <2>6, <3>2, <3>3, <3>4, <3>5, AllocationReflects
      <3>. QED BY <2>1, <2>5, <3>5, <3>6
    <2>10. HasReadBill(t, b)'
      BY <1>4
    <2>. QED BY <2>1, <2>2, <2>7, <2>8, <2>9, <2>10 DEF Guarded, BillStaged
  <1>5. ASSUME NEW u \in Txns, NEW v \in Txns, NEW b \in Bills, HasReadBill(u, b)', HasReadBill(v, b)'
        PROVE  u = v
    BY <1>2, <1>3, <1>5 DEF BillInv
  <1>6. ASSUME NEW u \in Txns, NEW b \in Bills, HasReadBill(u, b)'
        PROVE  /\ inst'[u].bill = bill'[b]
               /\ Reflects(StatusAfter(u, b)', AmountPaid(rows' \cup work'[u].rows, b), b)
    <2>1. CASE u = t
      BY <1>1, <1>3, <1>4, <1>6, <2>1
    <2>2. CASE u # t
      <3>1. HasReadBill(u, b) /\ inst'[u] = inst[u] /\ work'[u] = work[u]
        BY <1>1, <1>2, <1>6, <2>2 DEF Others
      <3>2. StatusAfter(u, b)' = StatusAfter(u, b)
        BY <1>1, <3>1 DEF StatusAfter
      <3>. QED BY <1>1, <3>1, <3>2 DEF BillInv
    <2>. QED BY <2>1, <2>2
  <1>7. \A b \in Bills : Reflects(bill'[b], AmountPaid(rows', b), b)
    BY <1>1 DEF BillInv
  <1>. QED BY <1>5, <1>6, <1>7 DEF BillInv

LEMMA BillCommitted ==
  ASSUME BaseInv, BillInv, NEW t \in Txns, Commit(t), "bill" \notin Overlaps
  PROVE  BillInv'
  <1>1. /\ Others(t) /\ rows' = rows \cup work[t].rows /\ inst'[t] = NoInstance
        /\ \A b \in Bills : bill'[b] = IF work[t].bill # NoWrite /\ BillIn(t) = b
                                       THEN work[t].bill ELSE bill[b]
    BY CommitIs DEF BaseInv
  <1>2. /\ \A b \in Bills : ~HasReadBill(t, b)'
        /\ \A u \in Txns \ {t}, b \in Bills : HasReadBill(u, b)' <=> HasReadBill(u, b)
    BY <1>1, NoWorkIs DEF Others, HasReadBill, Open, BillIn
  <1>3. ASSUME NEW b \in Bills, ~HasReadBill(t, b)
        PROVE  bill'[b] = bill[b] /\ \A S : Allocations(rows' \cup S, b) = Allocations(rows \cup S, b)
    <2>1. Allocations(work[t].rows, b) = {} /\ ~(work[t].bill # NoWrite /\ BillIn(t) = b)
      BY <1>3, WritesWhatItRead
    <2>. QED BY <1>1, <2>1 DEF Allocations
  <1>4. ASSUME NEW b \in Bills
        PROVE  Reflects(bill'[b], AmountPaid(rows', b), b)
    <2>1. CASE HasReadBill(t, b)
      <3>1. BillIn(t) = b
        BY <2>1 DEF HasReadBill
      <3>2. bill'[b] = StatusAfter(t, b)
        BY <1>1, <3>1 DEF StatusAfter
      <3>. QED BY <1>1, <2>1, <3>2 DEF BillInv
    <2>2. CASE ~HasReadBill(t, b)
      <3>1. Allocations(rows' \cup {}, b) = Allocations(rows \cup {}, b)
        BY <1>3, <2>2
      <3>2. rows' \cup {} = rows' /\ rows \cup {} = rows
        OBVIOUS
      <3>3. AmountPaid(rows', b) = AmountPaid(rows, b)
        BY <3>1, <3>2, PaidSame
      <3>. QED BY <1>3, <2>2, <3>3 DEF BillInv
    <2>. QED BY <2>1, <2>2
  <1>5. ASSUME NEW u \in Txns, NEW b \in Bills, HasReadBill(u, b)'
        PROVE  /\ inst'[u].bill = bill'[b]
               /\ Reflects(StatusAfter(u, b)', AmountPaid(rows' \cup work'[u].rows, b), b)
    <2>1. u # t /\ HasReadBill(u, b) /\ inst'[u] = inst[u] /\ work'[u] = work[u]
      BY <1>1, <1>2, <1>5 DEF Others
    <2>2. ~HasReadBill(t, b)
      BY <2>1 DEF BillInv
    <2>3. bill'[b] = bill[b] /\ Allocations(rows' \cup work[u].rows, b) = Allocations(rows \cup work[u].rows, b)
      BY <1>3, <2>2
    <2>4. AmountPaid(rows' \cup work[u].rows, b) = AmountPaid(rows \cup work[u].rows, b)
      BY <2>3, PaidSame
    <2>5. StatusAfter(u, b)' = StatusAfter(u, b)
      BY <2>1, <2>3 DEF StatusAfter
    <2>. QED BY <2>1, <2>3, <2>4, <2>5 DEF BillInv
  <1>6. \A u, v \in Txns, b \in Bills : HasReadBill(u, b)' /\ HasReadBill(v, b)' => u = v
    BY <1>2 DEF BillInv
  <1>. QED BY <1>4, <1>5, <1>6 DEF BillInv

(***************************************************************************)
(* When requests about one bill do not overlap, an open bill's status says *)
(* what its allocations add up to: nothing, a part of its total, all of it *)
(* (_allocate_to_bill).                                                    *)
(***************************************************************************)
THEOREM BillsReflectAllocations ==
  ASSUME "bill" \notin Overlaps
  PROVE  Spec => []BillReflectsAllocations
  <1>1. Init => BillInv
    <2>. SUFFICES ASSUME Init PROVE BillInv
      OBVIOUS
    <2>1. \A t \in Txns, b \in Bills : ~HasReadBill(t, b)
      BY DEF Init, HasReadBill, Open
    <2>2. \A b \in Bills : Reflects(bill[b], AmountPaid(rows, b), b)
      BY NothingPaid DEF Init, Reflects
    <2>. QED BY <2>1, <2>2 DEF BillInv
  <1>2. BaseInv /\ RowsArePositive' /\ BillInv /\ [Next]_vars => BillInv'
    <2>. SUFFICES ASSUME BaseInv, RowsArePositive', BillInv, [Next]_vars PROVE BillInv'
      OBVIOUS
    <2>1. CASE UNCHANGED vars
      BY <2>1 DEF vars, BillInv, HasReadBill, Open, BillIn, StatusAfter
    <2>. QED BY <2>1, NextGuarded, BillGuardedStep, BillCommitted DEF BaseInv
  <1>3. BillInv => BillReflectsAllocations
    BY DEF BillInv, BillReflectsAllocations, Reflects
  <1>. QED BY <1>1, <1>2, <1>3, RowsPositive, BaseInvariant, PTL DEF Spec

-----------------------------------------------------------------------------
(***************************************************************************)
(* The refinement.  The revenue booked for a payment is a sum over the     *)
(* revenue rows; a COMMIT adds at most one row to it, one that is new      *)
(* because only committed requests have rows in the table.                 *)
(***************************************************************************)
RevenueOf(S, p) == {r \in S : r.table = "revenue" /\ r.of = p}

NetOf(S, p) == MapThenSumSet(LAMBDA r : r.amt, RevenueOf(S, p))

NetIs == \A p \in Payments : NetFee(p) = NetOf(rows, p)

LEMMA NetFeeIs == NetIs
  BY DEF NetIs, NetFee, NetOf, RevenueOf

Countable(R) == IsFiniteSet(R) /\ \A r \in R : r.amt \in Int

LEMMA NetIsSum ==
  ASSUME NEW R, Countable(R), NEW S \in SUBSET R, NEW p
  PROVE  /\ NetOf(S, p) = SumOf([r \in R |-> r.amt], RevenueOf(S, p))
         /\ IsFiniteSet(RevenueOf(S, p)) /\ RevenueOf(S, p) \in SUBSET R
         /\ NetOf(S, p) \in Int
  <1>1. RevenueOf(S, p) \in SUBSET R
    BY DEF RevenueOf
  <1>2. IsFiniteSet(RevenueOf(S, p))
    BY <1>1, FS_Subset DEF Countable
  <1>3. NetOf(S, p) = SumOf([r \in R |-> r.amt], RevenueOf(S, p))
    <2>1. PICK A : A = RevenueOf(S, p)
      OBVIOUS
    <2>2. MapThenSumSet(LAMBDA r : r.amt, A) = SumOf([r \in R |-> r.amt], A)
      BY <1>1, <1>2, <2>1, SumOfAmounts
    <2>. QED BY <2>1, <2>2 DEF NetOf
  <1>4. \A r \in RevenueOf(S, p) : [x \in R |-> x.amt][r] \in Int
    BY <1>1 DEF Countable
  <1>. QED BY <1>1, <1>2, <1>3, <1>4, SumInt

LEMMA NetIsInt == ASSUME NEW S, Countable(S), NEW p PROVE NetOf(S, p) \in Int
  <1>1. S \in SUBSET S
    OBVIOUS
  <1>. QED BY <1>1, NetIsSum

LEMMA NothingBooked == ASSUME NEW p PROVE NetOf({}, p) = 0
  <1>1. Countable({}) /\ RevenueOf({}, p) = {}
    BY FS_EmptySet DEF Countable, RevenueOf
  <1>2. NetOf({}, p) = SumOf([r \in {} |-> r.amt], RevenueOf({}, p))
    <2>1. {} \in SUBSET {}
      OBVIOUS
    <2>. QED BY <1>1, <2>1, NetIsSum
  <1>. QED BY <1>1, <1>2, SumEmpty

\* what a set of rows with at most one revenue row, a new one, adds
LEMMA NetAdds ==
  ASSUME NEW S, NEW X, Countable(S \cup X), NEW p, NEW c \in Int,
         RevenueOf(X, p) \cap S = {},
         (RevenueOf(X, p) = {} /\ c = 0) \/ (\E x : RevenueOf(X, p) = {x} /\ x.amt = c)
  PROVE  NetOf(S \cup X, p) = NetOf(S, p) + c
  <1>1. PICK R : R = S \cup X
    OBVIOUS
  <1>2. PICK f : f = [r \in R |-> r.amt]
    OBVIOUS
  <1>3. PICK A : A = RevenueOf(S, p)
    OBVIOUS
  <1>4. /\ NetOf(S, p) = SumOf(f, A) /\ IsFiniteSet(A) /\ A \in SUBSET R
        /\ NetOf(S, p) \in Int
        /\ NetOf(R, p) = SumOf(f, RevenueOf(R, p))
    <2>1. \A U \in SUBSET R : /\ NetOf(U, p) = SumOf([r \in R |-> r.amt], RevenueOf(U, p))
                              /\ IsFiniteSet(RevenueOf(U, p)) /\ RevenueOf(U, p) \in SUBSET R
                              /\ NetOf(U, p) \in Int
      BY <1>1, NetIsSum
    <2>2. S \in SUBSET R /\ R \in SUBSET R
      BY <1>1
    <2>. QED BY <1>2, <1>3, <2>1, <2>2
  <1>5. RevenueOf(R, p) = A \cup RevenueOf(X, p)
    BY <1>1, <1>3 DEF RevenueOf
  <1>6. CASE RevenueOf(X, p) = {} /\ c = 0
    <2>1. RevenueOf(R, p) = A
      BY <1>5, <1>6
    <2>. QED BY <1>1, <1>4, <1>6, <2>1
  <1>7. ASSUME NEW x, RevenueOf(X, p) = {x}, x.amt = c
        PROVE  NetOf(S \cup X, p) = NetOf(S, p) + c
    <2>1. x \in R /\ x \notin A /\ f[x] = c
      <3>1. x \in X /\ x \notin S
        BY <1>7 DEF RevenueOf
      <3>. QED BY <1>1, <1>2, <1>3, <1>7, <3>1 DEF RevenueOf
    <2>2. \A r \in A \cup {x} : f[r] \in Int
      BY <1>1, <1>2, <1>4, <2>1 DEF Countable
    <2>3. SumOf(f, A \cup {x}) = f[x] + SumOf(f, A)
      BY <1>4, <2>1, <2>2, SumAdd
    <2>4. NetOf(R, p) = c + NetOf(S, p)
      BY <1>4, <1>5, <1>7, <2>1, <2>3
    <2>. QED BY <1>1, <1>4, <2>4
  <1>. QED BY <1>6, <1>7

\* a COMMIT books what the status it publishes is charged
LEMMA CommitCharges ==
  ASSUME BaseInv, NEW t \in Txns, Commit(t), NEW p \in Payments
  PROVE  NetOf(rows', p) = NetOf(rows, p) + IF IsFor(t, p) THEN Lifecycle!Charge(work[t].status) ELSE 0
  <1>1. pc[t] = "commit" /\ rows' = rows \cup work[t].rows
    BY CommitIs DEF BaseInv
  <1>2. PICK X : X = work[t].rows
    OBVIOUS
  <1>3. /\ OwnRows(t, req[t], X) /\ StagedRevenue(work[t])
    BY <1>2 DEF BaseInv, PreparedInv, Prepared
  <1>4. Countable(rows \cup X)
    <2>1. IsFiniteSet(rows \cup X)
      BY <1>3, FS_Union DEF OwnRows, BaseInv, RowsInv
    <2>2. rows \cup X \subseteq Row
      BY <1>2 DEF BaseInv, TypeInv, TypeOK, Work
    <2>3. \A r \in Row : r.amt \in Int
      BY DEF Row, TableRow
    <2>. QED BY <2>1, <2>2, <2>3 DEF Countable
  <1>5. RevenueOf(X, p) \cap rows = {}
    <2>1. \A r \in X : r.by = t
      BY <1>3 DEF OwnRows
    <2>2. \A r \in rows : r.by # t
      BY <1>1 DEF BaseInv, RowsInv
    <2>. QED BY <2>1, <2>2 DEF RevenueOf
  <1>6. PICK c : c = IF IsFor(t, p) THEN Lifecycle!Charge(work[t].status) ELSE 0
    OBVIOUS
  <1>7. c \in Int
    BY <1>6, Charges, ConstantsAssumption
  <1>8. (RevenueOf(X, p) = {} /\ c = 0) \/ (\E x : RevenueOf(X, p) = {x} /\ x.amt = c)
    <2>1. CASE ~IsFor(t, p)
      BY <1>3, <1>6, <2>1 DEF OwnRows, BookTables, ForPayment, IsFor, RevenueOf
    <2>2. CASE IsFor(t, p)
      <3>1. RevenueOf(X, p) = Revenue(X)
        BY <1>3, <2>2 DEF OwnRows, BookTables, ForPayment, IsFor, RevenueOf, Revenue
      <3>. QED BY <1>2, <1>3, <1>6, <2>2, <3>1 DEF StagedRevenue
    <2>. QED BY <2>1, <2>2
  <1>9. NetOf(rows \cup X, p) = NetOf(rows, p) + c
    BY <1>4, <1>5, <1>7, <1>8, NetAdds
  <1>. QED BY <1>1, <1>2, <1>6, <1>9

LEMMA StepImplements ==
  ASSUME BaseInv, OnceInv, NetIs, NetIs', "payment" \notin Overlaps, [Next]_vars
  PROVE  [Lifecycle!Next]_(Lifecycle!vars)
  <1>1. ASSUME UNCHANGED <<payment, rows>>
        PROVE  Lifecycle!Next
    <2>1. \A p \in Payments : NetFee(p)' = NetFee(p)
      BY <1>1 DEF NetIs
    <2>. QED BY <1>1, <2>1 DEF Lifecycle!Next, Lifecycle!Stay
  <1>2. ASSUME NEW t \in Txns, Commit(t)
        PROVE  Lifecycle!Next
    <2>. SUFFICES ASSUME NEW p \in Payments
                  PROVE  Lifecycle!Move(p) \/ Lifecycle!Stay(p)
      BY DEF Lifecycle!Next
    <2>1. /\ pc[t] = "commit"
          /\ payment'[p].status = IF IsFor(t, p) /\ work[t].status # NoWrite
                                  THEN work[t].status ELSE payment[p].status
      BY <1>2, CommitIs DEF BaseInv
    <2>2. NetFee(p)' = NetFee(p) + IF IsFor(t, p) THEN Lifecycle!Charge(work[t].status) ELSE 0
      <3>1. NetOf(rows', p) = NetOf(rows, p)
              + IF IsFor(t, p) THEN Lifecycle!Charge(work[t].status) ELSE 0
        BY <1>2, CommitCharges
      <3>. QED BY <3>1 DEF NetIs
    <2>3. CASE IsFor(t, p) /\ work[t].status # NoWrite
      <3>1. work[t].status \in AllowedTransitions[IF Exists(p) THEN payment[p].status ELSE "INITIATED"]
        BY <2>1, <2>3, PublishedMove
      <3>2. payment'[p].status \in Lifecycle!Successors(payment[p].status)
        <4>1. Lifecycle!AllowedTransitions = AllowedTransitions
          BY DEF AllowedTransitions, Lifecycle!AllowedTransitions, Status, Lifecycle!Status
        <4>2. payment'[p].status \in AllowedTransitions[IF payment[p].status = Absent THEN "INITIATED"
                                                        ELSE payment[p].status]
          BY <2>1, <2>3, <3>1 DEF Exists
        <4>. QED BY <4>1, <4>2 DEF Lifecycle!Successors
      <3>3. NetFee(p)' = NetFee(p) + Lifecycle!Charge(payment'[p].status)
        BY <2>1, <2>2, <2>3
      <3>. QED BY <3>2, <3>3 DEF Lifecycle!Move
    <2>4. CASE ~(IsFor(t, p) /\ work[t].status # NoWrite)
      <3>1. payment'[p].status = payment[p].status
        BY <2>1, <2>4
      <3>2. NetFee(p) \in Int
        <4>1. rows \subseteq Row /\ IsFiniteSet(rows)
          BY DEF BaseInv, RowsInv, TypeInv, TypeOK
        <4>2. Countable(rows)
          BY <4>1 DEF Countable, Row, TableRow
        <4>3. NetOf(rows, p) \in Int
          BY <4>2, NetIsInt
        <4>. QED BY <4>3 DEF NetIs
      <3>3. NetFee(p)' = NetFee(p)
        BY <2>2, <2>4, <3>2, Charges
      <3>. QED BY <3>1, <3>3 DEF Lifecycle!Stay
    <2>. QED BY <2>3, <2>4
  <1>3. CASE UNCHANGED vars
    BY <1>1, <1>3 DEF vars
  <1>4. ASSUME NEW t \in Txns, Guarded(t)
        PROVE  Lifecycle!Next
    BY <1>1, <1>4 DEF Guarded, StagingOnly
  <1>. QED BY <1>2, <1>3, <1>4, NextGuarded DEF BaseInv

(***************************************************************************)
(* When requests about one payment do not overlap, the orchestrator        *)
(* implements PaymentLifecycle: a committed status moves only along        *)
(* ALLOWED_TRANSITIONS and in the same COMMIT the revenue moves by what    *)
(* the new status is charged - the fee, its clawback, or nothing           *)
(* (_apply_outcome, _compensate, record_payment_successful).               *)
(***************************************************************************)
THEOREM OrchestratorImplementsLifecycle ==
  ASSUME "payment" \notin Overlaps
  PROVE  Spec => ImplementsLifecycle
  <1>1. Init => Lifecycle!Init
    <2>. SUFFICES ASSUME Init PROVE Lifecycle!Init
      OBVIOUS
    <2>1. \A p \in Payments : NetFee(p) = 0
      <3>. SUFFICES ASSUME NEW p \in Payments PROVE NetFee(p) = 0
        OBVIOUS
      <3>1. NetFee(p) = NetOf(rows, p) /\ rows = {}
        BY NetFeeIs DEF NetIs, Init
      <3>. QED BY <3>1, NothingBooked
    <2>. QED BY <2>1 DEF Init, Lifecycle!Init
  <1>2. BaseInv /\ OnceInv /\ NetIs /\ NetIs' /\ [Next]_vars => [Lifecycle!Next]_(Lifecycle!vars)
    BY StepImplements
  <1>. QED BY <1>1, <1>2, NetFeeIs, BaseInvariant, OnceInvariant, PTL
           DEF Spec, ImplementsLifecycle, Lifecycle!Spec

(***************************************************************************)
(* What follows from the refinement: the revenue of a payment is a         *)
(* function of its committed status, so that no history of callbacks,      *)
(* queries, retries and compensations can leave a fee that the status does *)
(* not explain.  PaymentLifecycle has this invariant, and every step of    *)
(* the orchestrator is one of its steps.                                   *)
(***************************************************************************)
RevenueDue(s) ==
  CASE s = "SUCCESSFUL"               -> Fee
    [] s \in {"REFUNDED", "REVERSED"} -> IF Clawback THEN 0 ELSE Fee
    [] OTHER                          -> 0

RevenueFollows == \A p \in Payments : NetFee(p) = RevenueDue(payment[p].status)

LEMMA DueAfterMove ==
  ASSUME NEW s, NEW s2 \in Lifecycle!Successors(s), s = Absent \/ s \in Status
  PROVE  RevenueDue(s2) = RevenueDue(s) + Lifecycle!Charge(s2)
  <1>1. Fee \in Nat /\ Absent \notin Status /\ Clawback \in BOOLEAN
    BY ConstantsAssumption
  <1>2. CASE s = Absent
    <2>1. s2 \in {"PENDING", "SUCCESSFUL", "FAILED", "UNKNOWN"} /\ RevenueDue(s) = 0
      BY <1>1, <1>2 DEF Lifecycle!Successors, Lifecycle!AllowedTransitions, Lifecycle!Status,
                        RevenueDue, Status
    <2>. QED BY <1>1, <2>1, Charges DEF RevenueDue
  <1>3. CASE s = "SUCCESSFUL"
    <2>1. s2 \in {"REFUNDED", "REVERSED"}
      BY <1>1, <1>3 DEF Lifecycle!Successors, Lifecycle!AllowedTransitions, Lifecycle!Status, Status
    <2>2. Lifecycle!Charge(s2) = IF Clawback THEN -Fee ELSE 0
      BY <2>1, Charges
    <2>. QED BY <1>1, <1>3, <2>1, <2>2 DEF RevenueDue
  <1>4. CASE s \in Status \ {"SUCCESSFUL"}
    <2>1. /\ s2 \in {"PENDING", "SUCCESSFUL", "FAILED", "UNKNOWN", "EXPIRED"}
          /\ s \notin {"REFUNDED", "REVERSED"}
      BY <1>1, <1>4 DEF Lifecycle!Successors, Lifecycle!AllowedTransitions, Lifecycle!Status, Status
    <2>2. RevenueDue(s) = 0
      BY <1>4, <2>1 DEF RevenueDue
    <2>. QED BY <1>1, <2>1, <2>2, Charges DEF RevenueDue
  <1>. QED BY <1>2, <1>3, <1>4

(***************************************************************************)
(* When requests about one payment do not overlap, the net revenue of a    *)
(* payment is one fee while it is SUCCESSFUL, nothing (or one fee, if the  *)
(* tenant's policy keeps it) after a refund or a reversal, and nothing in  *)
(* every other status (record_payment_successful, record_compensation).    *)
(***************************************************************************)
THEOREM RevenueFollowsStatus ==
  ASSUME "payment" \notin Overlaps
  PROVE  Spec => []RevenueFollows
  <1>1. Init => RevenueFollows
    <2>. SUFFICES ASSUME Init, NEW p \in Payments
                  PROVE  NetFee(p) = RevenueDue(payment[p].status)
      BY DEF RevenueFollows
    <2>1. NetFee(p) = NetOf(rows, p) /\ rows = {}
      BY NetFeeIs DEF NetIs, Init
    <2>2. payment[p].status = Absent /\ Absent \notin Status
      BY ConstantsAssumption DEF Init
    <2>. QED BY <2>1, <2>2, NothingBooked DEF RevenueDue, Status
  <1>2. BaseInv /\ RevenueFollows /\ [Lifecycle!Next]_(Lifecycle!vars) => RevenueFollows'
    <2>. SUFFICES ASSUME BaseInv, RevenueFollows, [Lifecycle!Next]_(Lifecycle!vars), NEW p \in Payments
                  PROVE  NetFee(p)' = RevenueDue(payment'[p].status)
      BY DEF RevenueFollows
    <2>1. Lifecycle!Move(p) \/ Lifecycle!Stay(p)
      BY DEF Lifecycle!Next, Lifecycle!vars, Lifecycle!Stay
    <2>2. CASE Lifecycle!Stay(p)
      BY <2>2 DEF Lifecycle!Stay, RevenueFollows
    <2>3. CASE Lifecycle!Move(p)
      <3>1. payment[p].status = Absent \/ payment[p].status \in Status
        BY DEF BaseInv, TypeInv, TypeOK, PaymentRow
      <3>2. payment'[p].status \in Lifecycle!Successors(payment[p].status)
            /\ NetFee(p)' = NetFee(p) + Lifecycle!Charge(payment'[p].status)
        BY <2>3 DEF Lifecycle!Move
      <3>3. NetFee(p) = RevenueDue(payment[p].status)
        BY DEF RevenueFollows
      <3>. QED BY <3>1, <3>2, <3>3, DueAfterMove
    <2>. QED BY <2>1, <2>2, <2>3
  <1>3. BaseInv /\ OnceInv /\ NetIs /\ NetIs' /\ [Next]_vars => [Lifecycle!Next]_(Lifecycle!vars)
    BY StepImplements
  <1>. QED BY <1>1, <1>2, <1>3, NetFeeIs, BaseInvariant, OnceInvariant, PTL DEF Spec
=============================================================================
