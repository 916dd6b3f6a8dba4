--------------------------- MODULE MCControlNumbers ---------------------------
(* Instances of the control-number engine for TLC. *)
EXTENDS ControlNumbers, TLC

CONSTANTS t1, t2, t3, b1, a1, v1, v2, v3
=============================================================================
