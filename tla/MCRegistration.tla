---------------------------- MODULE MCRegistration ----------------------------
(* An instance of Registration for TLC. *)
EXTENDS Registration, TLC

CONSTANTS r1, r2, r3, r4
Symmetry == Permutations(Requests)
=============================================================================
