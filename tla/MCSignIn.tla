------------------------------- MODULE MCSignIn -------------------------------
(* An instance of SignIn for TLC. *)
EXTENDS SignIn, TLC

CONSTANTS b1, b2, c1, c2, c3
Symmetry == Permutations(Browsers) \cup Permutations(Codes)
=============================================================================
