---------------------------- MODULE MCShmGrowth -----------------------------
(***************************************************************************)
(* Small instances of ShmGrowth for TLC.                                   *)
(***************************************************************************)
EXTENDS ShmGrowth, TLC

CONSTANTS g1, g2, h1, h2, r1, host

(* Two guests that race and a host thread between waves, which falls back  *)
(* to a paged page at the limit.                                           *)
TwoGuests == [threads |-> {g1, g2, h1}, paged |-> TRUE]

(* One guest, and two host threads that race for the lock between waves.   *)
TwoHosts == [threads |-> {g1, h1, h2}, paged |-> FALSE]

(* A receiver on its own, in a wave and between waves.                     *)
OneReceiver == [threads |-> {r1}, paged |-> FALSE]

AllScenes == {TwoGuests, TwoHosts, OneReceiver}
GuestsOnly == {TwoGuests}
=============================================================================
