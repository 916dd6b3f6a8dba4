--------------------------- MODULE PaymentLifecycle ---------------------------
(***************************************************************************)
(* What the platform promises about one payment, with requests, locks and  *)
(* instances left out: the state a reader of the database sees moves only  *)
(* along the state machine, and the revenue booked for the payment changes *)
(* exactly when that state says it does - the fee once, when the payment   *)
(* becomes SUCCESSFUL, and its clawback once, when the payment is refunded *)
(* or reversed under the CLAWBACK policy.                                  *)
(***************************************************************************)
EXTENDS PaymentStates, Integers

CONSTANTS Payments, Fee, Clawback, Absent

VARIABLES
  state,   \* the committed status of each payment, Absent before it exists
  net      \* the revenue booked for each payment so far

vars == <<state, net>>

Init ==
  /\ state = [p \in Payments |-> Absent]
  /\ net = [p \in Payments |-> 0]

\* INITIATED is never visible: a payment appears with its first outcome
Successors(s) ==
  IF s = Absent THEN AllowedTransitions["INITIATED"] ELSE AllowedTransitions[s]

Charge(s) ==
  CASE s = "SUCCESSFUL"                         -> Fee
    [] s \in {"REFUNDED", "REVERSED"} /\ Clawback -> -Fee
    [] OTHER                                    -> 0

Move(p) ==
  /\ state'[p] \in Successors(state[p])
  /\ net'[p] = net[p] + Charge(state'[p])

Stay(p) == state'[p] = state[p] /\ net'[p] = net[p]

Next == \A p \in Payments : Move(p) \/ Stay(p)

Spec == Init /\ [][Next]_vars
=============================================================================
