---------------------------- MODULE PhaseBarrier ----------------------------
(***************************************************************************)
(* What ShmApi::barrier_wait promises: a workload passes its b-th barrier  *)
(* of a run only when every member of the group has reached that barrier   *)
(* in the same run.                                                        *)
(***************************************************************************)
EXTENDS Naturals

CONSTANTS
    Parties,    \* processes of the barrier group
    NBarriers   \* barriers the workload calls, one after the other

VARIABLES
    reached,    \* barriers each process has reached in this run
    passed      \* barriers each process has passed in this run

vars == <<reached, passed>>

Init ==
    /\ reached = [p \in Parties |-> 0]
    /\ passed = [p \in Parties |-> 0]

Reach(p) ==
    /\ reached[p] = passed[p] /\ reached[p] < NBarriers
    /\ reached' = [reached EXCEPT ![p] = @ + 1]
    /\ UNCHANGED passed

Pass(p) ==
    /\ passed[p] < reached[p]
    /\ \A q \in Parties : reached[q] > passed[p]
    /\ passed' = [passed EXCEPT ![p] = @ + 1]
    /\ UNCHANGED reached

(* All have finished; the DAG is run again with new processes.             *)
Rerun ==
    /\ \A p \in Parties : passed[p] = NBarriers
    /\ reached' = [p \in Parties |-> 0]
    /\ passed' = [p \in Parties |-> 0]

Next == (\E p \in Parties : Reach(p) \/ Pass(p)) \/ Rerun

Spec == Init /\ [][Next]_vars
=============================================================================
