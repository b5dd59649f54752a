----------------------------- MODULE MCPagePool -----------------------------
(* Small instances of PagePool for TLC. *)
EXTENDS PagePool, TLC

CONSTANTS g1, g2, b1, f1, host

=============================================================================
