----------------------------- MODULE MCBackOffice -----------------------------
(* Instances of settlement and reconciliation for TLC. *)
EXTENDS BackOffice

CONSTANTS r1, r2, r3, b1

\* both payments pay one bill
SharedBill == [p \in Payments |-> b1]
OwnAmounts == [p \in Payments |-> p]

\* a batch or a run, beside another or the provider's news, beside a person
Desks == [t \in Requests |->
  CASE t = r1 -> {"batch", "reconcile"}
    [] t = r2 -> {"batch", "callback"}
    [] OTHER  -> {"refund", "query", "complete", "resolve"}]
=============================================================================
