------------------------------ MODULE Barrier -------------------------------
(***************************************************************************)
(* The intra-wave barrier: host_barrier_wait on a counter of the           *)
(* superblock, with the futex it sleeps on, for the processes of one       *)
(* barrier group over several runs of the DAG.                             *)
(*                                                                         *)
(* A workload calls barrier_wait(b, PartyCount) for b = 0, 1, ... in turn. *)
(* The runner stores 0 in the counters of Assigned before it spawns the    *)
(* wave.  The futex is external: FUTEX_WAIT compares and sleeps in one     *)
(* step, FUTEX_WAKE wakes every sleeper of the word, and a sleeper may     *)
(* also return for no reason (a signal).                                   *)
(***************************************************************************)
EXTENDS Naturals, FiniteSets

CONSTANTS
    Parties,     \* processes of the barrier group
    NBarriers,   \* barriers the workload calls
    Assigned,    \* barrier ids the runner assigned to groups of the wave
    PartyCount,  \* the party_count argument
    MaxRuns      \* bound: runs of the DAG

ASSUME BarrierAssumption ==
    /\ IsFiniteSet(Parties) /\ Parties # {}
    /\ NBarriers \in Nat /\ MaxRuns \in Nat
    /\ Assigned \subseteq 0 .. NBarriers - 1
    /\ PartyCount = Cardinality(Parties)

Ids == 0 .. NBarriers - 1

VARIABLES
    barriers,   \* the counters of the superblock
    run,        \* run of the DAG
    pc,         \* "work", "wake", "check", "wait", "asleep", "done"
    reached,    \* barriers a process has reached in this run
    passed,     \* barriers it has passed
    current     \* register: the counter value a waiter loaded

vars == <<barriers, run, pc, reached, passed, current>>

Init ==
    /\ barriers = [b \in Ids |-> 0]
    /\ run = 1
    /\ pc = [p \in Parties |-> IF NBarriers = 0 THEN "done" ELSE "work"]
    /\ reached = [p \in Parties |-> 0]
    /\ passed = [p \in Parties |-> 0]
    /\ current = [p \in Parties |-> 0]

Goto(p, l) == pc' = [pc EXCEPT ![p] = l]

(* The barrier a process is in, or will call next.                         *)
Id(p) == passed[p]

(* barrier_wait returns to the workload, which goes on to its next barrier *)
(* or to its end.                                                          *)
Pass(p) ==
    /\ passed' = [passed EXCEPT ![p] = @ + 1]
    /\ Goto(p, IF passed[p] + 1 = NBarriers THEN "done" ELSE "work")

(* Bug: the process before the last one already opens the barrier.         *)
ArriveEarly(p) ==
    /\ pc[p] = "work"
    /\ barriers' = [barriers EXCEPT ![Id(p)] = @ + 1]
    /\ reached' = [reached EXCEPT ![p] = @ + 1]
    /\ Goto(p, IF barriers[Id(p)] + 2 >= PartyCount THEN "wake" ELSE "check")
    /\ UNCHANGED <<run, passed, current>>

(* The fetch_add: the last to arrive wakes the others, the rest wait.      *)
Arrive(p) ==
    /\ pc[p] = "work"
    /\ barriers' = [barriers EXCEPT ![Id(p)] = @ + 1]
    /\ reached' = [reached EXCEPT ![p] = @ + 1]
    /\ Goto(p, IF barriers[Id(p)] + 1 >= PartyCount THEN "wake" ELSE "check")
    /\ UNCHANGED <<run, passed, current>>

(* Bug: one sleeper is woken instead of all of them.                       *)
WakeOne(p) ==
    /\ pc[p] = "wake"
    /\ LET asleep == {q \in Parties : pc[q] = "asleep" /\ Id(q) = Id(p)}
           woken == IF asleep = {} THEN {} ELSE {CHOOSE q \in asleep : TRUE}
       IN  pc' = [q \in Parties |->
                    IF q = p THEN (IF passed[p] + 1 = NBarriers THEN "done" ELSE "work")
                    ELSE IF q \in woken THEN "check" ELSE pc[q]]
    /\ passed' = [passed EXCEPT ![p] = @ + 1]
    /\ UNCHANGED <<barriers, run, reached, current>>

(* FUTEX_WAKE of every sleeper, and barrier_wait returns.                  *)
Wake(p) ==
    /\ pc[p] = "wake"
    /\ pc' = [q \in Parties |->
                IF q = p THEN (IF passed[p] + 1 = NBarriers THEN "done" ELSE "work")
                ELSE IF pc[q] = "asleep" /\ Id(q) = Id(p) THEN "check" ELSE pc[q]]
    /\ passed' = [passed EXCEPT ![p] = @ + 1]
    /\ UNCHANGED <<barriers, run, reached, current>>

(* A waiter loads the counter and leaves when it is high enough.           *)
Check(p) ==
    /\ pc[p] = "check"
    /\ \/ /\ barriers[Id(p)] >= PartyCount
          /\ Pass(p)
          /\ UNCHANGED current
       \/ /\ barriers[Id(p)] < PartyCount
          /\ current' = [current EXCEPT ![p] = barriers[Id(p)]]
          /\ Goto(p, "wait")
          /\ UNCHANGED passed
    /\ UNCHANGED <<barriers, run, reached>>

(* Bug: the waiter sleeps whatever the counter has become.                 *)
WaitBlind(p) ==
    /\ pc[p] = "wait"
    /\ Goto(p, "asleep")
    /\ current' = [current EXCEPT ![p] = 0]
    /\ UNCHANGED <<barriers, run, reached, passed>>

(* FUTEX_WAIT: sleep only if the counter still has the value loaded.       *)
Wait(p) ==
    /\ pc[p] = "wait"
    /\ Goto(p, IF barriers[Id(p)] = current[p] THEN "asleep" ELSE "check")
    /\ current' = [current EXCEPT ![p] = 0]
    /\ UNCHANGED <<barriers, run, reached, passed>>

(* A sleeper returns without a wake-up and looks again.                    *)
Interrupt(p) ==
    /\ pc[p] = "asleep"
    /\ Goto(p, "check")
    /\ UNCHANGED <<barriers, run, reached, passed, current>>

(* Bug: the counters keep their values from the run before.                *)
RerunUnreset ==
    /\ \A p \in Parties : pc[p] = "done"
    /\ run < MaxRuns
    /\ run' = run + 1
    /\ pc' = [p \in Parties |-> IF NBarriers = 0 THEN "done" ELSE "work"]
    /\ reached' = [p \in Parties |-> 0]
    /\ passed' = [p \in Parties |-> 0]
    /\ UNCHANGED <<barriers, current>>

(* The wave has ended and comes round again: the counters of its groups    *)
(* are reset and its processes are spawned anew.                           *)
Rerun ==
    /\ \A p \in Parties : pc[p] = "done"
    /\ run < MaxRuns
    /\ run' = run + 1
    /\ barriers' = [b \in Ids |-> IF b \in Assigned THEN 0 ELSE barriers[b]]
    /\ pc' = [p \in Parties |-> IF NBarriers = 0 THEN "done" ELSE "work"]
    /\ reached' = [p \in Parties |-> 0]
    /\ passed' = [p \in Parties |-> 0]
    /\ UNCHANGED current

Step(p) == Arrive(p) \/ Wake(p) \/ Check(p) \/ Wait(p)

Next ==
    \/ \E p \in Parties : Step(p) \/ Interrupt(p)
    \/ Rerun

Spec == Init /\ [][Next]_vars

(* Workloads reach their barriers, and the operating system runs every     *)
(* process that is awake; nothing wakes a sleeper but FUTEX_WAKE.          *)
FairSpec ==
    /\ Spec
    /\ \A p \in Parties : WF_vars(Step(p))
    /\ WF_vars(Rerun)

-----------------------------------------------------------------------------
(* Properties                                                              *)

(* A counter never exceeds the number of parties: it was reset before the  *)
(* wave, and nobody arrives twice.                                         *)
TypeOK ==
    /\ barriers \in [Ids -> 0 .. PartyCount]
    /\ run \in 1 .. MaxRuns
    /\ pc \in [Parties -> {"work", "wake", "check", "wait", "asleep", "done"}]
    /\ reached \in [Parties -> 0 .. NBarriers]
    /\ passed \in [Parties -> 0 .. NBarriers]
    /\ current \in [Parties -> 0 .. PartyCount]

(* No process is past a barrier that another process of the group has not  *)
(* reached in the same run (host_barrier_wait).                            *)
NobodyPassesEarly ==
    \A p, q \in Parties : passed[p] <= reached[q]

(* The futex barrier implements the abstract one.                          *)
Abstract == INSTANCE PhaseBarrier
ImplementsBarrier == Abstract!Spec

(* Every run ends: no wake-up of host_barrier_wait is lost.                *)
EveryRunEnds == \A r \in 1 .. MaxRuns : run = r ~> \A p \in Parties : pc[p] = "done"
=============================================================================
