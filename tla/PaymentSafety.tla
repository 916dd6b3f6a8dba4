---------------------------- MODULE PaymentSafety ----------------------------
(***************************************************************************)
(* The properties of the Payment Orchestrator: those that survive every    *)
(* interleaving of requests, those that hold when requests about one       *)
(* payment (or one bill) do not overlap, and the statements of the         *)
(* documentation that the code does not keep.                              *)
(***************************************************************************)
EXTENDS PaymentOrchestrator

PaymentRow == [status : Status \cup {Absent}, ref : BOOLEAN]
Instance   == [status : Status \cup {Absent}, ref : BOOLEAN, bill : BillStatus \cup {NoWrite}]
Work       == [status : Status \cup {NoWrite}, ref : BOOLEAN,
               bill : BillStatus \cup {NoWrite}, rows : SUBSET Row]
Call       == [kind : {"initiate", "refund", "reverse"}, payment : Payments, by : Txns]
PC         == {"idle", "insert", "event", "lookup", "apply", "compensate",
               "allocate", "billwrite", "commit", "committed", "aborted"}

(***************************************************************************)
(* The rows, the locks and the state of every request have their types: in *)
(* particular no request ever stages a status outside PaymentStatus or     *)
(* BillStatus, or a row of a table that does not exist.                    *)
(***************************************************************************)
TypeOK ==
  /\ payment \in [Payments -> PaymentRow]
  /\ bill \in [Bills -> BillStatus]
  /\ rows \subseteq Row
  /\ lock \in [Payments \cup Bills -> Txns \cup {NoTxn}]
  /\ pc \in [Txns -> PC]
  /\ req \in [Txns -> Request]
  /\ inst \in [Txns -> Instance]
  /\ work \in [Txns -> Work]
  /\ calls \subseteq Call

-----------------------------------------------------------------------------
(* Properties that hold however requests interleave.                        *)

Settled(p) == payment[p].status \in {"SUCCESSFUL", "REFUNDED", "REVERSED"}

Holds(S, table, type, p) == \E r \in S : r.table = table /\ r.type = type /\ r.of = p

Charged(S, p) == Holds(S, "revenue", "PAYMENT_SUCCESSFUL", p) /\ Holds(S, "receipt", "RECEIPT", p)

Booked(S, p) == Charged(S, p) /\ (BillOf[p] # NoBill => Holds(S, "allocation", "ALLOCATION", p))

Writers(table, type, p) == {r.by : r \in Rows(table, type, p)}

(***************************************************************************)
(* A payment shown as SUCCESSFUL (or refunded or reversed since) has been  *)
(* booked: _apply_outcome's status UPDATE never becomes visible without    *)
(* the fee, the receipt and the allocation that belong to it, whatever     *)
(* requests raced, raised or crashed in between.                           *)
(***************************************************************************)
SettledIsBooked == \A p \in Payments : Settled(p) => Booked(rows, p)

(***************************************************************************)
(* The books of a payment agree with each other request by request: the    *)
(* requests that posted PAYMENT_RECEIVED are those that posted the         *)
(* institution's entitlement, charged the platform fee, recorded the       *)
(* revenue and allocated to the bill (docs/MONEY_FLOW.md).  A race may     *)
(* book a payment twice; it never books a part of it, and it never gives a *)
(* second receipt: generate_receipt's lookup runs under the payment's row  *)
(* lock, so it never meets the unique constraint.                          *)
(***************************************************************************)
BooksAgree ==
  \A p \in Payments :
    LET W == Writers("ledger", "PAYMENT_RECEIVED", p) IN
    /\ W = Writers("ledger", "INSTITUTION_ENTITLEMENT", p)
    /\ W = Writers("ledger", "PLATFORM_PAYMENT_FEE", p)
    /\ W = Writers("revenue", "PAYMENT_SUCCESSFUL", p)
    /\ BillOf[p] # NoBill => W = Writers("allocation", "ALLOCATION", p)
    /\ Cardinality(Rows("receipt", "RECEIPT", p)) = IF W = {} THEN 0 ELSE 1

(***************************************************************************)
(* One external_event_id is consumed by one request: two deliveries of a   *)
(* callback, overlapping or not, leave one PROCESSED or UNMATCHED row, so  *)
(* the outcome of one event reaches _apply_outcome at most once in the     *)
(* committed history (process_callback under its unique constraint).       *)
(***************************************************************************)
EventConsumedOnce == \A e \in Events : Cardinality(EventRows(rows, e)) <= 1

(***************************************************************************)
(* Two requests with one Idempotency-Key leave one Payment, also when both *)
(* pass the lookup before either has committed (initiate_payment).         *)
(***************************************************************************)
OnePaymentPerKey ==
  \A p, q \in Payments :
    /\ KeyOf[p] = KeyOf[q] /\ KeyOf[p] # NoKey
    /\ payment[p].status # Absent /\ payment[q].status # Absent
    => p = q

(***************************************************************************)
(* A bill is PAID only when its allocations reach its total: the balance   *)
(* _allocate_to_bill computes may be stale, but never too small.           *)
(***************************************************************************)
PaidIsCovered == \A b \in Bills : bill[b] = "PAID" => AmountPaid(rows, b) >= Total[b]

(***************************************************************************)
(* Every request that has begun is answered: no request waits for ever for *)
(* a row lock or for another request's uncommitted key or event id.        *)
(***************************************************************************)
EveryRequestEnds == \A t \in Txns : pc[t] # "idle" ~> pc[t] \in {"committed", "aborted"}

-----------------------------------------------------------------------------
(* Properties that hold when requests about one payment do not overlap.     *)

(***************************************************************************)
(* A payment is booked exactly once if it is settled and never otherwise:  *)
(* "charged, exactly once each" (README.md), for callbacks with the same   *)
(* or different event ids, queries, retries and crashes in any order.      *)
(***************************************************************************)
BookedExactlyOnce ==
  \A p \in Payments :
    Cardinality(Writers("ledger", "PAYMENT_RECEIVED", p)) = IF Settled(p) THEN 1 ELSE 0

\* the revenue booked for payment p
NetFee(p) == MapThenSumSet(LAMBDA r : r.amt, {r \in rows : r.table = "revenue" /\ r.of = p})

Lifecycle == INSTANCE PaymentLifecycle
               WITH state <- [p \in Payments |-> payment[p].status],
                    net   <- [p \in Payments |-> NetFee(p)]

(***************************************************************************)
(* The orchestrator implements PaymentLifecycle: no committed status jumps *)
(* outside ALLOWED_TRANSITIONS and the revenue booked for a payment moves  *)
(* in the same step as its status, by the amount the fee schedule says.    *)
(***************************************************************************)
ImplementsLifecycle == Lifecycle!Spec

(***************************************************************************)
(* When requests about one bill do not overlap either, the status of an    *)
(* open bill is what its allocations say: ACTIVE means nothing allocated,  *)
(* PARTIALLY_PAID means something but not all, PAID means all.             *)
(***************************************************************************)
BillReflectsAllocations ==
  \A b \in Bills : LET paid == AmountPaid(rows, b) IN
    /\ bill[b] = "ACTIVE" => paid = 0
    /\ bill[b] = "PARTIALLY_PAID" => 0 < paid /\ paid < Total[b]
    /\ bill[b] = "PAID" => paid >= Total[b]

-----------------------------------------------------------------------------
(* What the documentation says and the code does not keep.                  *)

(***************************************************************************)
(* process_callback's comment on the IntegrityError branch: "A second      *)
(* delivery of an event_id we've already processed."                       *)
(***************************************************************************)
DuplicateWasProcessed ==
  \A e \in Events :
    Rows("callback", "DUPLICATE", e) # {} /\ payment[e.payment].ref
    => Rows("callback", "PROCESSED", e) # {}

=============================================================================
