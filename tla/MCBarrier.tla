----------------------------- MODULE MCBarrier ------------------------------
(* Small instances of Barrier for TLC. *)
EXTENDS Barrier, TLC

CONSTANTS p1, p2, p3
=============================================================================
