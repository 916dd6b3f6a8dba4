------------------------------ MODULE MCPayments ------------------------------
(* Instances of the Payment Orchestrator for TLC. *)
EXTENDS PaymentSafety, TLC

CONSTANTS t1, t2, t3, t4, p1, p2, b1, k1

Symmetry == Permutations(Txns)

OneBill    == [p \in Payments |-> b1]
\* p1 pays the bill, p2 an account-bound control number
BillAndAccount == [p \in Payments |-> IF p = p1 THEN b1 ELSE NoBill]
NoKeys     == [p \in Payments |-> NoKey]
SharedKey  == [p \in Payments |-> k1]
EvenAmounts == [p \in Payments |-> 1]
TotalTwo   == [b \in Bills |-> 2]

Event(i, p, o) == [id |-> i, payment |-> p, outcome |-> o]

\* every outcome for p1, and a second event id claiming success
EventsOfP1 == {Event(i, p1, o) : i \in {1}, o \in ProviderOutcome}
              \cup {Event(2, p1, "successful")}
SuccessTwice == {Event(1, p1, "successful"), Event(2, p1, "successful")}
SuccessEach  == {Event(1, p1, "successful"), Event(1, p2, "successful")}
=============================================================================
