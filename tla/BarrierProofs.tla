--------------------------- MODULE BarrierProofs ----------------------------
(***************************************************************************)
(* The futex barrier keeps the parties together, for every finite group    *)
(* and every number of barriers and runs, when each barrier the workload   *)
(* calls is reset before the wave.  The counter of a barrier is the number *)
(* of processes that have reached it; a full count means all have.         *)
(***************************************************************************)
EXTENDS Barrier, FiniteSetTheorems, TLAPS

(* Every barrier of the workload belongs to a group of the wave.           *)
AllReset == Assigned = Ids

Arrived(b) == {p \in Parties : reached[p] > b}

Waiting == {"wake", "check", "wait", "asleep"}

Counts == \A b \in Ids : barriers[b] = Cardinality(Arrived(b))

Stages ==
    \A p \in Parties :
        /\ pc[p] \in Waiting => reached[p] = passed[p] + 1
        /\ pc[p] \notin Waiting => reached[p] = passed[p]
        /\ pc[p] = "done" <=> passed[p] = NBarriers
        /\ pc[p] = "wake" => barriers[passed[p]] >= PartyCount

Inv == TypeOK /\ Counts /\ Stages /\ NobodyPassesEarly

(* party_count is a number.                                                *)
LEMMA PartyNat == PartyCount \in Nat
  BY FS_CardinalityType, BarrierAssumption

(* A process that has not finished is at one of the barriers.              *)
LEMMA AtBarrier ==
  ASSUME Inv, NEW p \in Parties, pc[p] # "done"
  PROVE  passed[p] \in Ids /\ passed[p] \in Nat /\ barriers[passed[p]] \in Nat
  <1>1. passed[p] \in 0 .. NBarriers /\ passed[p] # NBarriers
    BY DEF Inv, TypeOK, Stages
  <1>2. passed[p] \in Ids /\ passed[p] \in Nat
    BY <1>1, BarrierAssumption DEF Ids
  <1> QED BY <1>2, PartyNat DEF Inv, TypeOK

(* Subsets of the group are finite, and only the group itself is full.     *)
LEMMA Full ==
  ASSUME NEW S \in SUBSET Parties
  PROVE  /\ IsFiniteSet(S) /\ Cardinality(S) \in 0 .. PartyCount
         /\ Cardinality(S) >= PartyCount => S = Parties
  <1>1. /\ IsFiniteSet(S) /\ Cardinality(S) <= Cardinality(Parties)
        /\ Cardinality(S) = Cardinality(Parties) => S = Parties
    BY FS_Subset, BarrierAssumption
  <1>2. Cardinality(S) \in Nat /\ Cardinality(Parties) \in Nat
    BY <1>1, FS_CardinalityType, BarrierAssumption
  <1> QED BY <1>1, <1>2, BarrierAssumption

(* A counter that has reached party_count: everybody is at the barrier.    *)
LEMMA Opened ==
  ASSUME Inv, NEW b \in Ids, barriers[b] >= PartyCount
  PROVE  \A q \in Parties : reached[q] > b
  <1>1. Arrived(b) \in SUBSET Parties /\ Cardinality(Arrived(b)) >= PartyCount
    BY DEF Inv, Counts, Arrived
  <1>2. Arrived(b) = Parties
    BY <1>1, Full
  <1> QED BY <1>2 DEF Arrived

(* Leaving an open barrier keeps everybody together.                       *)
LEMMA PassTogether ==
  ASSUME Inv, NEW p \in Parties, pc[p] \in Waiting, barriers[Id(p)] >= PartyCount,
         passed' = [passed EXCEPT ![p] = @ + 1], reached' = reached
  PROVE  /\ passed[p] \in Ids /\ passed' \in [Parties -> 0 .. NBarriers]
         /\ \A q \in Parties : reached[q] > passed[p]
         /\ NobodyPassesEarly'
  <1>1. passed[p] \in 0 .. NBarriers /\ passed[p] # NBarriers
    BY DEF Inv, TypeOK, Stages, Waiting
  <1>2. passed[p] \in Ids
    BY <1>1, BarrierAssumption DEF Ids
  <1>3. \A q \in Parties : reached[q] > passed[p]
    BY <1>2, Opened DEF Id
  <1>4. passed' \in [Parties -> 0 .. NBarriers]
    BY <1>1, BarrierAssumption DEF Inv, TypeOK
  <1>5. NobodyPassesEarly'
    <2> SUFFICES ASSUME NEW r \in Parties, NEW q \in Parties PROVE passed'[r] <= reached[q]
      BY DEF NobodyPassesEarly
    <2>1. CASE r = p
      BY <2>1, <1>1, <1>3 DEF Inv, TypeOK
    <2>2. CASE r # p
      BY <2>2 DEF Inv, TypeOK, NobodyPassesEarly
    <2> QED BY <2>1, <2>2
  <1> QED BY <1>2, <1>3, <1>4, <1>5

(* Arrivals are counted.                                                   *)
LEMMA ArriveStep == ASSUME Inv, NEW p \in Parties, Arrive(p) PROVE Inv'
  <1>1. /\ pc[p] = "work" /\ reached[p] = passed[p] /\ passed[p] \in Ids
    BY AtBarrier DEF Arrive, Inv, Stages, Waiting
  <1>2. /\ barriers' = [barriers EXCEPT ![passed[p]] = @ + 1]
        /\ reached' = [reached EXCEPT ![p] = @ + 1]
        /\ UNCHANGED <<run, passed, current>>
        /\ pc' = [pc EXCEPT ![p] = IF barriers[passed[p]] + 1 >= PartyCount
                                   THEN "wake" ELSE "check"]
    BY DEF Arrive, Id, Goto
  <1>3. /\ reached'[p] = reached[p] + 1 /\ \A q \in Parties : q # p => reached'[q] = reached[q]
        /\ reached' \in [Parties -> 0 .. NBarriers]
    BY <1>1, <1>2, BarrierAssumption DEF Inv, TypeOK, Ids
  <1>4. /\ Arrived(passed[p])' = Arrived(passed[p]) \union {p} /\ p \notin Arrived(passed[p])
        /\ \A b \in Ids : b # passed[p] => Arrived(b)' = Arrived(b)
    <2>1. \A q \in Parties, b \in Ids : reached[q] \in Nat /\ b \in Nat
      BY BarrierAssumption DEF Inv, TypeOK, Ids
    <2>2. \A b \in Ids : \A q \in Parties :
            reached'[q] > b <=> reached[q] > b \/ (q = p /\ b = passed[p])
      BY <1>1, <1>3, <2>1
    <2>3. ~(reached[p] > passed[p])
      BY <1>1, <2>1
    <2>4. passed'[p] = passed[p]
      BY <1>2
    <2>5. Arrived(passed[p])' = {q \in Parties : reached'[q] > passed[p]}
      BY <2>4 DEF Arrived
    <2> QED BY <1>1, <2>2, <2>3, <2>5 DEF Arrived
  <1>5. /\ Cardinality(Arrived(passed[p])') = Cardinality(Arrived(passed[p])) + 1
        /\ Cardinality(Arrived(passed[p])') \in 0 .. PartyCount
    <2>1. Arrived(passed[p]) \in SUBSET Parties /\ Arrived(passed[p])' \in SUBSET Parties
      BY <1>4 DEF Arrived
    <2>2. IsFiniteSet(Arrived(passed[p]))
      BY <2>1, Full
    <2>3. Cardinality(Arrived(passed[p]) \union {p}) = Cardinality(Arrived(passed[p])) + 1
      BY <2>2, <1>4, FS_AddElement, Zenon
    <2>4. Cardinality(Arrived(passed[p])') \in 0 .. PartyCount
      BY <2>1, Full
    <2> QED BY <2>3, <2>4, <1>4
  <1>6. barriers'[passed[p]] = barriers[passed[p]] + 1
        /\ \A b \in Ids : b # passed[p] => barriers'[b] = barriers[b]
    BY <1>1, <1>2 DEF Inv, TypeOK
  <1>7. Counts'
    <2> SUFFICES ASSUME NEW b \in Ids PROVE barriers'[b] = Cardinality(Arrived(b)')
      BY DEF Counts
    <2>1. barriers[b] = Cardinality(Arrived(b))
      BY DEF Inv, Counts
    <2>2. CASE b = passed[p]
      <3>1. Arrived(passed[p])' = Arrived(b)'
        BY <2>2, <1>2 DEF Arrived
      <3> QED BY <2>1, <2>2, <3>1, <1>5, <1>6
    <2>3. CASE b # passed[p]
      BY <2>1, <2>3, <1>4, <1>6
    <2> QED BY <2>2, <2>3
  <1>8. TypeOK'
    <2>1. barriers[passed[p]] + 1 \in 0 .. PartyCount
      BY <1>1, <1>5 DEF Inv, Counts
    <2>2. barriers' \in [Ids -> 0 .. PartyCount]
      BY <1>2, <2>1, Zenon DEF Inv, TypeOK
    <2> QED BY <1>2, <1>3, <2>2 DEF Inv, TypeOK
  <1>9. Stages'
    <2> SUFFICES ASSUME NEW q \in Parties
                 PROVE /\ pc'[q] \in Waiting => reached'[q] = passed[q] + 1
                       /\ pc'[q] \notin Waiting => reached'[q] = passed[q]
                       /\ pc'[q] = "done" <=> passed[q] = NBarriers
                       /\ pc'[q] = "wake" => barriers'[passed[q]] >= PartyCount
      BY <1>2 DEF Stages
    <2>1. CASE q = p
      <3>1. pc'[p] = IF barriers[passed[p]] + 1 >= PartyCount THEN "wake" ELSE "check"
        BY <1>2 DEF Inv, TypeOK
      <3>2. passed[p] # NBarriers
        BY <1>1 DEF Inv, Stages
      <3> QED BY <2>1, <3>1, <3>2, <1>1, <1>3, <1>6 DEF Waiting
    <2>2. CASE q # p
      <3>1. pc'[q] = pc[q] /\ reached'[q] = reached[q]
        BY <2>2, <1>2, <1>3 DEF Inv, TypeOK
      <3>2. pc[q] = "wake" => barriers[passed[q]] >= PartyCount /\ passed[q] \in Ids
        BY BarrierAssumption DEF Inv, Stages, TypeOK, Ids
      <3>3. \A b \in Ids : barriers[b] >= PartyCount => barriers'[b] >= PartyCount
        <4>1. \A b \in Ids : barriers[b] \in Nat
          BY PartyNat DEF Inv, TypeOK
        <4> QED BY <4>1, <1>6, PartyNat
      <3> QED BY <3>1, <3>2, <3>3 DEF Inv, Stages
    <2> QED BY <2>1, <2>2
  <1>10. NobodyPassesEarly'
    BY <1>2, <1>3 DEF Inv, TypeOK, NobodyPassesEarly
  <1> QED BY <1>7, <1>8, <1>9, <1>10 DEF Inv

(* Waking the sleepers and returning.                                      *)
LEMMA WakeStep ==
  ASSUME Inv, NEW p \in Parties, Wake(p)
  PROVE  Inv' /\ \A q \in Parties : reached[q] > passed[p]
  <1>1. /\ pc[p] = "wake" /\ pc[p] \in Waiting /\ barriers[Id(p)] >= PartyCount
        /\ passed' = [passed EXCEPT ![p] = @ + 1]
        /\ UNCHANGED <<barriers, run, reached, current>>
    BY DEF Wake, Inv, Stages, Waiting, Id
  <1>2. /\ passed[p] \in Ids /\ passed' \in [Parties -> 0 .. NBarriers]
        /\ \A q \in Parties : reached[q] > passed[p]
        /\ NobodyPassesEarly'
    BY <1>1, PassTogether, Zenon
  <1>3. /\ pc'[p] = (IF passed[p] + 1 = NBarriers THEN "done" ELSE "work")
        /\ \A q \in Parties : q # p =>
             pc'[q] = pc[q] \/ (pc[q] = "asleep" /\ pc'[q] = "check")
    BY DEF Wake
  <1>4. /\ passed'[p] = passed[p] + 1 /\ \A q \in Parties : q # p => passed'[q] = passed[q]
    BY <1>1 DEF Inv, TypeOK
  <1>5. TypeOK'
    <2>1. pc' \in [Parties -> {"work", "wake", "check", "wait", "asleep", "done"}]
      BY DEF Wake, Inv, TypeOK
    <2> QED BY <1>1, <1>2, <2>1 DEF Inv, TypeOK
  <1>6. Counts'
    BY <1>1 DEF Inv, Counts, Arrived
  <1>7. Stages'
    BY <1>1, <1>2, <1>3, <1>4 DEF Inv, Stages, Waiting
  <1> QED BY <1>2, <1>5, <1>6, <1>7 DEF Inv

(* A waiter that finds the counter high enough returns.                    *)
LEMMA CheckStep ==
  ASSUME Inv, NEW p \in Parties, Check(p)
  PROVE  /\ Inv'
         /\ \/ passed' = passed
            \/ /\ passed' = [passed EXCEPT ![p] = @ + 1]
               /\ passed[p] < reached[p]
               /\ \A q \in Parties : reached[q] > passed[p]
  <1>1. /\ pc[p] = "check" /\ pc[p] \in Waiting
        /\ UNCHANGED <<barriers, run, reached>>
    BY DEF Check, Waiting
  <1>2. Counts'
    BY <1>1 DEF Inv, Counts, Arrived
  <1>3. CASE barriers[Id(p)] >= PartyCount
    <2>1. /\ passed' = [passed EXCEPT ![p] = @ + 1] /\ current' = current
          /\ pc' = [pc EXCEPT ![p] = IF passed[p] + 1 = NBarriers THEN "done" ELSE "work"]
      <3>1. barriers[Id(p)] \in Nat
        BY <1>1, AtBarrier DEF Id
      <3>2. ~(barriers[Id(p)] < PartyCount)
        BY <1>3, <3>1, PartyNat
      <3> QED BY <3>2 DEF Check, Pass, Goto
    <2>2. /\ passed[p] \in Ids /\ passed' \in [Parties -> 0 .. NBarriers]
          /\ \A q \in Parties : reached[q] > passed[p]
          /\ NobodyPassesEarly'
      BY <1>1, <1>3, <2>1, PassTogether, Zenon
    <2>3. TypeOK'
      BY <1>1, <2>1, <2>2 DEF Inv, TypeOK
    <2>4. /\ pc'[p] = (IF passed[p] + 1 = NBarriers THEN "done" ELSE "work")
          /\ passed'[p] = passed[p] + 1
          /\ \A q \in Parties : q # p => pc'[q] = pc[q] /\ passed'[q] = passed[q]
      BY <2>1 DEF Inv, TypeOK
    <2>5. Stages'
      BY <1>1, <2>2, <2>4 DEF Inv, Stages, Waiting
    <2> QED BY <1>2, <2>1, <2>2, <2>3, <2>5 DEF Inv
  <1>4. CASE ~(barriers[Id(p)] >= PartyCount)
    <2>1. /\ passed' = passed /\ current' = [current EXCEPT ![p] = barriers[passed[p]]]
          /\ pc' = [pc EXCEPT ![p] = "wait"]
      BY <1>4 DEF Check, Goto, Id
    <2>2. passed[p] \in Ids
      BY <1>1, BarrierAssumption DEF Inv, TypeOK, Stages, Ids
    <2>3. TypeOK'
      BY <1>1, <2>1, <2>2 DEF Inv, TypeOK
    <2>4. Stages'
      BY <1>1, <2>1 DEF Inv, Stages, Waiting, TypeOK
    <2>5. NobodyPassesEarly'
      BY <1>1, <2>1 DEF Inv, NobodyPassesEarly
    <2> QED BY <1>2, <2>1, <2>3, <2>4, <2>5 DEF Inv
  <1> QED BY <1>3, <1>4

(* Falling asleep and waking up for no reason change nothing else.         *)
LEMMA SleepStep ==
  ASSUME Inv, NEW p \in Parties, Wait(p) \/ Interrupt(p)
  PROVE  Inv' /\ UNCHANGED <<reached, passed>>
  <1>1. /\ UNCHANGED <<barriers, run, reached, passed>>
        /\ pc[p] \in {"wait", "asleep"}
        /\ \E l \in {"asleep", "check"} : pc' = [pc EXCEPT ![p] = l]
        /\ current' \in [Parties -> 0 .. PartyCount]
    <2>1. 0 \in 0 .. PartyCount
      BY FS_CardinalityType, BarrierAssumption
    <2> QED BY <2>1 DEF Wait, Interrupt, Goto, Inv, TypeOK
  <1>2. TypeOK'
    BY <1>1, Zenon DEF Inv, TypeOK
  <1>3. Counts'
    BY <1>1 DEF Inv, Counts, Arrived
  <1>4. Stages'
    BY <1>1 DEF Inv, Stages, Waiting, TypeOK
  <1>5. NobodyPassesEarly'
    BY <1>1 DEF Inv, NobodyPassesEarly
  <1> QED BY <1>1, <1>2, <1>3, <1>4, <1>5 DEF Inv

(* A new run starts with every counter at zero.                            *)
LEMMA FreshRun ==
  ASSUME NEW b \in [Ids -> {0}], NEW r \in [Parties -> {0}]
  PROVE  \A i \in Ids : b[i] = Cardinality({p \in Parties : r[p] > i})
  <1> SUFFICES ASSUME NEW i \in Ids PROVE b[i] = Cardinality({p \in Parties : r[p] > i})
    OBVIOUS
  <1>1. {p \in Parties : r[p] > i} = {}
    BY DEF Ids
  <1> QED BY <1>1, FS_EmptySet

(* The reset before a wave restores the initial state of the group.        *)
LEMMA RerunStep == ASSUME AllReset, Inv, Rerun PROVE Inv'
  <1>1. /\ barriers' = [b \in Ids |-> 0] /\ run' \in 1 .. MaxRuns /\ current' = current
        /\ reached' = [p \in Parties |-> 0] /\ passed' = [p \in Parties |-> 0]
        /\ pc' = [p \in Parties |-> IF NBarriers = 0 THEN "done" ELSE "work"]
    BY BarrierAssumption DEF AllReset, Rerun, Inv, TypeOK
  <1>2. 0 \in 0 .. PartyCount /\ 0 \in 0 .. NBarriers
    BY FS_CardinalityType, BarrierAssumption
  <1>3. TypeOK'
    BY <1>1, <1>2 DEF Inv, TypeOK
  <1>4. Counts'
    BY <1>1, FreshRun DEF Counts, Arrived
  <1>5. Stages'
    BY <1>1 DEF Stages, Waiting
  <1>6. NobodyPassesEarly'
    BY <1>1 DEF NobodyPassesEarly
  <1> QED BY <1>3, <1>4, <1>5, <1>6 DEF Inv

(* The formatted superblock starts with every counter at zero.             *)
LEMMA InitInv == ASSUME Init, MaxRuns # 0 PROVE Inv
  <1>1. 0 \in 0 .. PartyCount /\ 0 \in 0 .. NBarriers /\ 1 \in 1 .. MaxRuns
    BY FS_CardinalityType, BarrierAssumption
  <1>2. TypeOK
    BY <1>1 DEF Init, TypeOK
  <1>3. Counts
    BY FreshRun DEF Init, Counts, Arrived
  <1>4. Stages
    BY DEF Init, Stages, Waiting
  <1>5. NobodyPassesEarly
    BY DEF Init, NobodyPassesEarly
  <1> QED BY <1>2, <1>3, <1>4, <1>5 DEF Inv

(* Every step keeps the invariant.                                         *)
LEMMA NextInv == ASSUME AllReset, Inv, [Next]_vars PROVE Inv'
  <1>1. ASSUME NEW p \in Parties, Step(p) \/ Interrupt(p) PROVE Inv'
    BY <1>1, ArriveStep, WakeStep, CheckStep, SleepStep DEF Step
  <1>2. CASE Rerun
    BY <1>2, RerunStep
  <1>3. CASE UNCHANGED vars
    BY <1>3 DEF vars, Inv, TypeOK, Counts, Arrived, Stages, NobodyPassesEarly
  <1> QED BY <1>1, <1>2, <1>3 DEF Next

(* No process of a barrier group passes a barrier before all have reached  *)
(* it, for every group size, number of barriers and number of runs, when   *)
(* the runner resets every barrier the workload calls.                     *)
THEOREM BarrierSafe ==
  ASSUME AllReset, MaxRuns # 0 PROVE Spec => [](TypeOK /\ NobodyPassesEarly)
  <1>1. Init => Inv
    BY InitInv
  <1>2. Inv /\ [Next]_vars => Inv'
    BY NextInv
  <1>3. Inv => TypeOK /\ NobodyPassesEarly
    BY DEF Inv
  <1> QED BY <1>1, <1>2, <1>3, PTL DEF Spec

(* Every step of the futex barrier is a step of the abstract barrier.      *)
LEMMA StepRefines ==
  ASSUME AllReset, Inv, [Next]_vars PROVE [Abstract!Next]_(Abstract!vars)
  <1> USE DEF Abstract!Next, Abstract!vars
  <1>1. ASSUME NEW p \in Parties, Arrive(p) PROVE Abstract!Reach(p)
    BY <1>1, BarrierAssumption DEF Arrive, Abstract!Reach, Inv, Stages, TypeOK, Waiting
  <1>2. ASSUME NEW p \in Parties, Wake(p) PROVE Abstract!Pass(p)
    BY <1>2, WakeStep, Zenon DEF Wake, Abstract!Pass
  <1>3. ASSUME NEW p \in Parties, Check(p) PROVE Abstract!Pass(p) \/ UNCHANGED Abstract!vars
    BY <1>3, CheckStep DEF Check, Abstract!Pass
  <1>4. ASSUME NEW p \in Parties, Wait(p) \/ Interrupt(p) PROVE UNCHANGED Abstract!vars
    BY <1>4, SleepStep
  <1>5. CASE Rerun
    BY <1>5 DEF Rerun, Abstract!Rerun, Inv, Stages
  <1>6. CASE UNCHANGED vars
    BY <1>6 DEF vars
  <1> QED BY <1>1, <1>2, <1>3, <1>4, <1>5, <1>6 DEF Next, Step

(* host_barrier_wait implements the abstract barrier.                      *)
THEOREM BarrierRefines ==
  ASSUME AllReset, MaxRuns # 0 PROVE Spec => ImplementsBarrier
  <1>1. Init => Inv /\ Abstract!Init
    BY InitInv DEF Init, Abstract!Init
  <1>2. Inv /\ [Next]_vars => Inv' /\ [Abstract!Next]_(Abstract!vars)
    BY NextInv, StepRefines
  <1> QED BY <1>1, <1>2, PTL DEF Spec, ImplementsBarrier, Abstract!Spec
=============================================================================
