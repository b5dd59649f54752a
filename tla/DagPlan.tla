------------------------------ MODULE DagPlan ------------------------------
(***************************************************************************)
(* How the runner plans a DAG (dag_runner/plan.rs, called at the start of  *)
(* run_dag): a topological order by Kahn's algorithm, the waves of nodes   *)
(* that run concurrently, and the barrier slots of the groups of nodes     *)
(* that synchronise inside a wave.  The code is sequential; a step is one  *)
(* turn of its loops.                                                      *)
(*                                                                         *)
(* A node is its index in dag.nodes, from 1; dag.deps maps it to the set   *)
(* of nodes it depends on and dag.group to its barrier group.              *)
(***************************************************************************)
EXTENDS Naturals, Sequences, FiniteSets, FiniteSetsExt, Functions, SortedSets

CONSTANTS
    Dags,           \* the DAGs explored
    BarrierCount,   \* BARRIER_COUNT
    NoGroup         \* the group of a node that names none

(* Nodes are indices; a dependency names a node of the DAG.                *)
ASSUME PlanAssumption ==
    /\ BarrierCount \in Nat
    /\ \A d \in Dags :
         /\ DOMAIN d.deps \subseteq Nat /\ IsFiniteSet(DOMAIN d.deps)
         /\ \A n \in DOMAIN d.deps : d.deps[n] \subseteq DOMAIN d.deps
         /\ DOMAIN d.group = DOMAIN d.deps

VARIABLES
    dag,            \* the DAG
    phase,          \* the function run_dag is in; "ready" or "error" after it
    order,          \* the topological order so far
    degree,         \* in_degree
    queue,          \* of topo_sort; then the nodes left in build_waves' loops
    level,          \* of every node, in build_waves
    waves,          \* the waves, from 1
    barriers        \* barrier_groups (id, count), the wave and its resets

planVars == <<dag, phase, order, degree, queue, level, waves, barriers>>

Nodes == DOMAIN dag.deps
Deps(n) == dag.deps[n]
Users(n) == {m \in Nodes : n \in Deps(m)}

PlanInit ==
    /\ dag \in Dags
    /\ phase = "sort"
    /\ order = <<>>
    /\ degree = [n \in Nodes |-> Cardinality(Deps(n))]
    /\ queue = Ascending({n \in Nodes : Deps(n) = {}})
    /\ level = [n \in Nodes |-> 0]
    /\ waves = <<>>
    /\ barriers = [id |-> <<>>, count |-> <<>>, reset |-> <<>>]

(***************************************************************************)
(* topo_sort                                                               *)
(***************************************************************************)

(* The first node of the queue goes to the order; the nodes for which it   *)
(* was the last dependency are queued in the order of their indices.       *)
Sort ==
    /\ phase = "sort" /\ queue # <<>>
    /\ LET n == Head(queue) IN
       /\ order' = Append(order, n)
       /\ degree' = [m \in Nodes |-> IF m \in Users(n) THEN degree[m] - 1 ELSE degree[m]]
       /\ queue' = Tail(queue) \o Ascending({m \in Users(n) : degree[m] = 1})
    /\ UNCHANGED <<dag, phase, level, waves, barriers>>

(* A node that never got into the queue is on a cycle or behind one.       *)
EndSort ==
    /\ phase = "sort" /\ queue = <<>>
    /\ IF Len(order) = Cardinality(Nodes) THEN phase' = "level" /\ queue' = order
       ELSE phase' = "error" /\ UNCHANGED queue
    /\ UNCHANGED <<dag, order, degree, level, waves, barriers>>

(***************************************************************************)
(* build_waves                                                             *)
(***************************************************************************)

SetLevel(l) ==
    /\ phase = "level" /\ queue # <<>>
    /\ level' = [level EXCEPT ![Head(queue)] = l]
    /\ queue' = Tail(queue)
    /\ UNCHANGED <<dag, phase, order, degree, waves, barriers>>

(* A mutant: a node comes one level after its first dependency.            *)
LevelFirstDep ==
    LET D == Deps(Head(queue))
    IN  SetLevel(IF D = {} THEN 0 ELSE level[Ascending(D)[1]] + 1)

(* A node comes one level after the last of its dependencies.              *)
Level == SetLevel(Max({0} \union {level[d] + 1 : d \in Deps(Head(queue))}))

(* A wave for every level, empty as yet.                                   *)
EndLevel ==
    /\ phase = "level" /\ queue = <<>>
    /\ waves' = [w \in 1..(Max({0} \union Range(level)) + 1) |-> <<>>]
    /\ phase' = "fill" /\ queue' = order
    /\ UNCHANGED <<dag, order, degree, level, barriers>>

(* The nodes go to the waves of their levels in topological order.         *)
Fill ==
    /\ phase = "fill" /\ queue # <<>>
    /\ waves' = [waves EXCEPT ![level[Head(queue)] + 1] = Append(@, Head(queue))]
    /\ queue' = Tail(queue)
    /\ UNCHANGED <<dag, phase, order, degree, level, barriers>>

(***************************************************************************)
(* validate_barrier_groups and build_barrier_assignments                   *)
(***************************************************************************)

Insert(f, g, v) == [x \in DOMAIN f \union {g} |-> IF x = g THEN v ELSE f[x]]

Groups == Range(dag.group) \ {NoGroup}
Members(g, w) == {n \in Range(waves[w]) : dag.group[n] = g}

Accept(valid) ==
    /\ phase = "fill" /\ queue = <<>>
    /\ phase' = (IF valid THEN "assign" ELSE "error")
    /\ UNCHANGED <<dag, order, degree, queue, level, waves, barriers>>

(* A mutant: only nodes next to each other in the file are compared.       *)
ValidateNeighbours ==
    Accept(\A n \in Nodes : n + 1 \in Nodes /\ dag.group[n] = dag.group[n + 1] =>
                                dag.group[n] = NoGroup \/ level[n] = level[n + 1])

(* All members of a group must be in one wave.                             *)
Validate ==
    Accept(\A g \in Groups : Cardinality({w \in DOMAIN waves : Members(g, w) # {}}) = 1)

(* A group of the wave that has no barrier yet, in any order (a HashMap is *)
(* iterated), gets the next one; one too many is an assertion failure.     *)
AssignBarrier(g) ==
    LET w == Len(barriers.reset)
        id == Cardinality(DOMAIN barriers.id)
    IN  /\ phase = "assign" /\ w > 0
        /\ Members(g, w) # {} /\ g \notin DOMAIN barriers.id
        /\ IF id >= BarrierCount THEN phase' = "error" /\ UNCHANGED barriers
           ELSE /\ barriers' = [id |-> Insert(barriers.id, g, id),
                                count |-> Insert(barriers.count, g, Cardinality(Members(g, w))),
                                reset |-> [barriers.reset EXCEPT ![w] = @ \union {id}]]
                /\ UNCHANGED phase
        /\ UNCHANGED <<dag, order, degree, queue, level, waves>>

(* On to the next wave, or done.                                           *)
NextWaveGroups ==
    LET w == Len(barriers.reset) IN
    /\ phase = "assign"
    /\ w > 0 => \A g \in Groups : Members(g, w) # {} => g \in DOMAIN barriers.id
    /\ IF w < Len(waves)
       THEN barriers' = [barriers EXCEPT !.reset = Append(@, {})] /\ UNCHANGED phase
       ELSE phase' = "ready" /\ UNCHANGED barriers
    /\ UNCHANGED <<dag, order, degree, queue, level, waves>>

PlanNext ==
    \/ Sort \/ EndSort \/ Level \/ EndLevel \/ Fill \/ Validate
    \/ (\E g \in Groups : AssignBarrier(g)) \/ NextWaveGroups

(* The planning by itself.                                                 *)
PlanSpec == PlanInit /\ [][PlanNext]_planVars

(***************************************************************************)
(* Properties                                                              *)
(***************************************************************************)

(* The nodes from which dependencies lead to n, in one or more steps: they *)
(* are in every set that has what n and its own members depend on.         *)
Ancestors(n) ==
    LET Has(S, m) == Deps(m) \subseteq S
    IN  {d \in Nodes : \A S \in SUBSET Nodes :
            Has(S, n) /\ (\A m \in S : Has(S, m)) => d \in S}

InWaves(n) == {w \in DOMAIN waves : n \in Range(waves[w])}

(* topo_sort refuses a DAG exactly when it has a cycle, and the waves of   *)
(* build_waves partition the nodes: each node comes after everything it    *)
(* depends on, and right after one of these, so that nothing waits longer  *)
(* than it must.                                                           *)
WavesRight ==
    /\ phase = "error" /\ waves = <<>> => \E n \in Nodes : n \in Ancestors(n)
    /\ waves # <<>> /\ queue = <<>> =>
         \A n \in Nodes : \E w \in InWaves(n) :
            /\ InWaves(n) = {w}
            /\ \A d \in Ancestors(n) : \E v \in InWaves(d) : v < w
            /\ w = 1 \/ \E d \in Deps(n) : w - 1 \in InWaves(d)

(* A DAG is accepted only if each barrier group can meet: its members are  *)
(* all in one wave, it waits for as many parties as it has members, no     *)
(* other group has its barrier, and the barrier is reset before that wave. *)
BarriersRight ==
    phase = "ready" =>
        \A g \in Groups :
            LET members == {n \in Nodes : dag.group[n] = g} IN
            /\ barriers.count[g] = Cardinality(members)
            /\ barriers.id[g] \in 0..(BarrierCount - 1)
            /\ \A h \in Groups \ {g} : barriers.id[h] # barriers.id[g]
            /\ \E w \in DOMAIN waves : members \subseteq Range(waves[w])
                                       /\ barriers.id[g] \in barriers.reset[w]

(* A plan that the runner is given has right waves and right barriers, and *)
(* a DAG that has such a plan is not refused by topo_sort.                 *)
PlanRight == WavesRight /\ BarriersRight
=============================================================================
