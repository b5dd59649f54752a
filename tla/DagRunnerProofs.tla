--------------------------- MODULE DagRunnerProofs --------------------------
(***************************************************************************)
(* run_dag joins guests and threads in time, whatever the DAG and the      *)
(* order in which they end or fail, and its counters of readers are exact. *)
(*                                                                         *)
(* The argument about waves, threads and counters is in DagPlanProofs,     *)
(* about arguments instead of variables; here it is applied to the steps   *)
(* of run_dag.                                                             *)
(***************************************************************************)
EXTENDS DagRunner, DagPlanProofs

(* The plan, the types, where the guests and threads are at, and what the  *)
(* counters count, at every step of run_dag.                               *)
RunnerInv ==
    /\ PlanInv
    /\ Typed(step, run, todo, wave, status, prefetching, pending)
    /\ Counted(refcount, inputLeft, recvLeft)
    /\ At(step, wave, todo, status, prefetching, pending)
    /\ Counting(step, wave, todo, refcount, inputLeft, recvLeft)

-----------------------------------------------------------------------------
(* The tables of a plan do not change while it is run                      *)

(* What the guests and threads are at.                                     *)
LEMMA ThreadsStay ==
  ASSUME UNCHANGED planVars,
         At(step', wave', todo', status', prefetching', pending')
  PROVE  At(step, wave, todo, status, prefetching, pending)'
  <1>1. dag' = dag /\ level' = level /\ waves' = waves
    BY Zenon DEF planVars
  <1>2. Threads(Earlier(wave'), Earlier(wave'), status', prefetching' \union pending') =>
        Threads(Earlier(wave), Earlier(wave), status, prefetching \union pending)'
    BY <1>1 DEF Threads, Earlier, Late, Concurrent, HasConsumer, IsSerial, IsFunc, IsThread, Kind,
                Users, Deps, Nodes
  <1>3. Threads(Earlier(wave') \union Current(wave'), Earlier(wave'), status',
                prefetching' \union pending') =>
        Threads(Earlier(wave) \union Current(wave), Earlier(wave), status,
                prefetching \union pending)'
    BY <1>1 DEF Threads, Earlier, Current, Late, Concurrent, HasConsumer, IsSerial, IsFunc, IsThread,
                Kind, Users, Deps, Nodes
  <1>4. Threads(Earlier(wave') \union Current(wave'), Earlier(wave') \union Current(wave'), status',
                prefetching' \union pending') =>
        Threads(Earlier(wave) \union Current(wave), Earlier(wave) \union Current(wave), status,
                prefetching \union pending)'
    BY <1>1 DEF Threads, Earlier, Current, Late, Concurrent, HasConsumer, IsSerial, IsFunc, IsThread,
                Kind, Users, Deps, Nodes
  <1>5. Threads(Nodes, Nodes, status', prefetching') => Threads(Nodes, Nodes, status, prefetching)'
    BY <1>1 DEF Threads, Late, Concurrent, HasConsumer, IsSerial, IsFunc, IsThread, Kind,
                Users, Deps, Nodes
  <1>6. Serving(wave', todo', status', prefetching') => Serving(wave, todo, status, prefetching)'
    BY <1>1 DEF Serving, Current, IsSerial, IsFunc, IsThread, Kind, Nodes, Range
  <1>7. Joining(wave', todo', status', prefetching' \union pending') =>
        Joining(wave, todo, status, prefetching \union pending)'
    BY <1>1 DEF Joining, Current, Late, Concurrent, HasConsumer, IsSerial, IsFunc, IsThread, Kind,
                Users, Deps, Nodes, Range
  <1>8. Lists(todo', (prefetching' \union pending') \intersect Needed(wave')) =>
        Lists(todo, (prefetching \union pending) \intersect Needed(wave))'
    <2>1. Needed(wave)' = Needed(wave')
      BY <1>1 DEF Needed, Deps, Range
    <2> QED BY <2>1, Zenon DEF Lists
  <1>9. Lists(todo', prefetching') => Lists(todo, prefetching)'
    BY Zenon DEF Lists
  <1>10. Nodes' = Nodes
    BY <1>1, Zenon DEF Nodes
  <1> QED BY <1>2, <1>3, <1>4, <1>5, <1>6, <1>7, <1>8, <1>9, <1>10, Zenon DEF At

(* What the counters count.                                                *)
LEMMA CountsStay ==
  ASSUME UNCHANGED planVars,
         Counting(step', wave', todo', refcount', inputLeft', recvLeft')
  PROVE  Counting(step, wave, todo, refcount, inputLeft, recvLeft)'
  <1>1. dag' = dag /\ level' = level /\ waves' = waves
    BY Zenon DEF planVars
  <1>2. Nodes' = Nodes /\ Earlier(wave)' = Earlier(wave') /\ Current(wave)' = Current(wave')
    BY <1>1, Zenon DEF Nodes, Earlier, Current
  <1>3. Left(step, wave, todo)' = Left(step', wave', todo')
    BY <1>2, Zenon DEF Left, Range
  <1>4. \A n : OwnedSlots(n)' = OwnedSlots(n) /\ Deps(n)' = Deps(n)
    BY <1>1, Zenon DEF OwnedSlots, Deps, Kind, Stages, Ins
  <1>5. PICK L : L = Left(step', wave', todo')
    BY Zenon
  <1>6. \A x : /\ {n \in L : x \in OwnedSlots(n)'} = {n \in L : x \in OwnedSlots(n)}
               /\ {n \in L : x \in Deps(n)'} = {n \in L : x \in Deps(n)}
    BY <1>4, Zenon
  <1>7. Exact(L, refcount', inputLeft', recvLeft') => Exact(Left(step, wave, todo), refcount, inputLeft, recvLeft)'
    BY <1>3, <1>5, <1>6, Zenon DEF Exact
  <1> QED BY <1>2, <1>5, <1>7, Zenon DEF Counting, Distinct, Range

(* The types of run_dag's variables.                                       *)
LEMMA TypesStay ==
  ASSUME UNCHANGED planVars, Typed(step', run', todo', wave', status', prefetching', pending')
  PROVE  Typed(step, run, todo, wave, status, prefetching, pending)'
  <1>1. dag' = dag /\ phase' = phase /\ waves' = waves
    BY Zenon DEF planVars
  <1>2. Nodes' = Nodes
    BY <1>1, Zenon DEF Nodes
  <1>3. \A n : Kind(n)' = Kind(n) /\ HasConsumer(n)' = HasConsumer(n)
    BY <1>1, Zenon DEF HasConsumer, Kind, Users, Deps, Nodes
  <1> QED BY <1>1, <1>2, <1>3, Zenon DEF Typed, Steps, Looping

(* The types of the counters.                                              *)
LEMMA CountTypesStay ==
  ASSUME UNCHANGED planVars, Counted(refcount', inputLeft', recvLeft')
  PROVE  Counted(refcount, inputLeft, recvLeft)'
  <1>1. dag' = dag
    BY Zenon DEF planVars
  <1>2. /\ {n \in Nodes : IsInput(n)}' = {n \in Nodes : IsInput(n)}
        /\ {n \in Nodes : Kind(n) = "Recv" /\ \A s \in Outs(n) : s[1] = "io"}' =
              {n \in Nodes : Kind(n) = "Recv" /\ \A s \in Outs(n) : s[1] = "io"}
    BY <1>1 DEF Nodes, IsInput, Kind, Outs, Stages
  <1> QED BY <1>2, Zenon DEF Counted

(* So a step that leaves the plan alone is judged by the tables as they    *)
(* are.                                                                    *)
LEMMA InvStays ==
  ASSUME PlanInv, UNCHANGED planVars,
         Typed(step', run', todo', wave', status', prefetching', pending'),
         Counted(refcount', inputLeft', recvLeft'),
         At(step', wave', todo', status', prefetching', pending'),
         Counting(step', wave', todo', refcount', inputLeft', recvLeft')
  PROVE  RunnerInv'
  <1>1. PlanInv'
    BY StutterInv, Zenon
  <1> QED BY <1>1, TypesStay, CountTypesStay, ThreadsStay, CountsStay, Zenon DEF RunnerInv

-----------------------------------------------------------------------------
(* The steps of run_dag                                                    *)

(* In any step but the first the plan is ready.                            *)
LEMMA InvReady ==
  ASSUME RunnerInv, step # "begin"
  PROVE  Ready /\ phase = "ready" /\ (step \in Looping => wave \in 1..Len(waves))
  BY PlanReady, Zenon DEF RunnerInv, Typed

(* The types and the step of run_dag, spelled out.                         *)
LEMMA InvFacts ==
  ASSUME RunnerInv
  PROVE  /\ todo \in Seq(Nodes) /\ status \in [Nodes -> ThreadStates]
         /\ prefetching \in SUBSET Nodes /\ pending \in SUBSET Nodes
         /\ At(step, wave, todo, status, prefetching, pending)
         /\ Counted(refcount, inputLeft, recvLeft)
         /\ Counting(step, wave, todo, refcount, inputLeft, recvLeft)
  BY Zenon DEF RunnerInv, Typed

(* A step in a run that counts nobody off.                                 *)
LEMMA StepKeeps ==
  ASSUME RunnerInv, step # "begin", UNCHANGED <<planVars, run, refcount, inputLeft, recvLeft>>,
         step' \in Steps, wave' \in 0..Len(waves), step' \in Looping => wave' \in 1..Len(waves),
         todo' \in Seq(Nodes), status' \in [Nodes -> ThreadStates],
         prefetching' \subseteq {n \in Nodes : Kind(n) = "Prefetch"},
         pending' \subseteq {n \in Nodes : HasConsumer(n)},
         At(step', wave', todo', status', prefetching', pending'),
         Counting(step', wave', todo', refcount', inputLeft', recvLeft')
  PROVE  RunnerInv'
  <1>1. phase = "ready"
    BY InvReady, Zenon
  <1>2. Typed(step', run', todo', wave', status', prefetching', pending')
    BY <1>1, Zenon DEF RunnerInv, Typed
  <1>3. Counted(refcount', inputLeft', recvLeft')
    BY Zenon DEF RunnerInv
  <1> QED BY <1>2, <1>3, InvStays, Zenon DEF RunnerInv

(* The handles, as far as they are kept.                                   *)
LEMMA HandlesKept ==
  ASSUME RunnerInv
  PROVE  /\ prefetching \subseteq {n \in Nodes : Kind(n) = "Prefetch"}
         /\ pending \subseteq {n \in Nodes : HasConsumer(n)}
         /\ wave \in 0..Len(waves)
  BY Zenon DEF RunnerInv, Typed

(* run_dag gives up.                                                       *)
LEMMA FailStep ==
  ASSUME RunnerInv, step # "begin", UNCHANGED <<planVars, run, wave, status, counts>>,
         step' = "error", todo' = <<>>, prefetching' \subseteq prefetching, pending' \subseteq pending
  PROVE  RunnerInv'
  <1> todo' \in Seq(Nodes)
    OBVIOUS
  <1> At(step', wave', todo', status', prefetching', pending')
    BY Zenon DEF At
  <1> Counting(step', wave', todo', refcount', inputLeft', recvLeft')
    BY Zenon DEF Counting
  <1> QED BY InvFacts, HandlesKept, StepKeeps, Zenon DEF Steps, Looping, counts

(* A run begins: the tables are fresh and nothing is started.              *)
LEMMA BeginStep ==
  ASSUME RunnerInv, BeginRun
  PROVE  RunnerInv'
  <1> /\ phase = "ready" /\ step = "begin" /\ step' = "load" /\ run' = run + 1
      /\ UNCHANGED <<planVars, wave, todo, prefetching, pending>>
      /\ status' = [n \in Nodes |-> "none"]
      /\ refcount' = SlotRefcounts /\ inputLeft' = InputDepCounts /\ recvLeft' = RecvDepCounts
    BY Zenon DEF BeginRun
  <1>1. run' \in Nat
    BY DEF RunnerInv, Typed
  <1>2. status' \in [Nodes -> ThreadStates]
    BY DEF ThreadStates
  <1>3. Typed(step', run', todo', wave', status', prefetching', pending')
    BY <1>1, <1>2, Zenon DEF RunnerInv, Typed, Steps, Looping
  <1>4. At(step', wave', todo', status', prefetching', pending')
    BY Zenon DEF RunnerInv, At
  <1>5. /\ Counted(refcount', inputLeft', recvLeft')
        /\ Exact(Nodes, refcount', inputLeft', recvLeft')
    BY FreshCounts, Zenon DEF RunnerInv, PlanInv
  <1>6. Counting(step', wave', todo', refcount', inputLeft', recvLeft')
    BY <1>5, Zenon DEF Counting, Left
  <1> QED BY <1>3, <1>4, <1>5, <1>6, InvStays, Zenon DEF RunnerInv

(* The chunks are loaded and the first wave comes.                         *)
LEMMA LoadStep ==
  ASSUME RunnerInv, LoadChunks
  PROVE  RunnerInv'
  <1> /\ step = "load" /\ step' = "prejoin" /\ wave' = 1 /\ todo' = Awaited(1)
      /\ UNCHANGED <<planVars, run, status, prefetching, pending, refcount, inputLeft, recvLeft>>
    BY Zenon DEF LoadChunks, threads, counts
  <1> Ready
    BY InvReady, Zenon
  <1>1. 1 \in 1..Len(waves) /\ 1 \in 0..Len(waves)
    BY FirstWave
  <1>2. PICK W \in SUBSET Nodes : W = prefetching \union pending
    BY InvFacts, Zenon
  <1>3. Lists(todo', W \intersect Needed(1)) /\ todo' \in Seq(Nodes)
    BY <1>2, AwaitedLists, Zenon DEF Awaited
  <1>4. Earlier(1) = {}
    BY <1>1, WaveFacts, Zenon
  <1>5. W = {} /\ \A n \in Nodes : status[n] = "none"
    BY <1>2, Zenon DEF RunnerInv, At
  <1>6. Threads({}, {}, status, {})
    BY <1>5, NoThreads, Zenon
  <1>7. At(step', wave', todo', status', prefetching', pending')
    BY <1>2, <1>3, <1>4, <1>5, <1>6, Zenon DEF At
  <1>8. Nodes \ {} = Nodes
    BY Zenon
  <1>9. Counting(step', wave', todo', refcount', inputLeft', recvLeft')
    BY <1>4, <1>8, Zenon DEF RunnerInv, Counting, Left
  <1> QED BY <1>1, <1>3, <1>7, <1>9, InvFacts, HandlesKept, StepKeeps, Zenon DEF Steps

(* A late thread that the wave needs is joined; if it has failed, run_dag  *)
(* gives up.                                                               *)
LEMMA PreJoinStep ==
  ASSUME RunnerInv, PreJoin
  PROVE  RunnerInv'
  <1> /\ step = "prejoin" /\ todo # <<>>
      /\ UNCHANGED <<planVars, run, wave, status, refcount, inputLeft, recvLeft>>
      /\ prefetching' = prefetching \ {Head(todo)} /\ pending' = pending \ {Head(todo)}
    BY Zenon DEF PreJoin, Joined, counts
  <1>1. CASE todo' = <<>> /\ step' = "error"
    BY <1>1, FailStep, Zenon DEF counts
  <1>2. CASE status[Head(todo)] = "ended" /\ todo' = Tail(todo) /\ step' = step
    <2> Ready /\ wave \in 1..Len(waves)
      BY InvReady, Zenon DEF Looping
    <2>1. PICK W, h : W = prefetching \union pending /\ h = Head(todo)
      BY Zenon
    <2>2. Threads(Earlier(wave), Earlier(wave), status, W) /\ Lists(todo, W \intersect Needed(wave))
      BY <2>1, Zenon DEF RunnerInv, At
    <2>3. /\ Threads(Earlier(wave), Earlier(wave), status, W \ {h})
          /\ Lists(Tail(todo), (W \ {h}) \intersect Needed(wave))
      BY <1>2, <2>1, <2>2, PreJoinKeeps, Zenon
    <2>4. prefetching' \union pending' = W \ {h}
      BY <2>1, Zenon
    <2>5. At(step', wave', todo', status', prefetching', pending')
      BY <1>2, <2>3, <2>4, Zenon DEF At
    <2>6. todo' \in Seq(Nodes)
      BY <1>2, InvFacts, TakeHead, Zenon
    <2>7. Counting(step', wave', todo', refcount', inputLeft', recvLeft')
      BY <1>2, Zenon DEF RunnerInv, Counting, Left
    <2> QED BY <1>2, <2>5, <2>6, <2>7, InvFacts, HandlesKept, StepKeeps, Zenon DEF Steps
  <1> QED BY <1>1, <1>2, Zenon DEF PreJoin, Joined

(* The guests and RDMA threads of the wave are started: all that it needs  *)
(* has been joined.                                                        *)
LEMMA SpawnStep ==
  ASSUME RunnerInv, Spawn
  PROVE  RunnerInv'
  <1> /\ step = "prejoin" /\ todo = <<>> /\ step' = "serial"
      /\ UNCHANGED <<planVars, run, wave, prefetching, pending, refcount, inputLeft, recvLeft>>
      /\ Started(wave, status, status') /\ HostNodes(wave, todo')
    BY Zenon DEF Spawn, Start, counts, Started, HostNodes
  <1> Ready /\ wave \in 1..Len(waves)
    BY InvReady, Zenon DEF Looping
  <1>1. PICK W : W = prefetching \union pending
    BY Zenon
  <1>2. Threads(Earlier(wave), Earlier(wave), status, W) /\ Lists(todo, W \intersect Needed(wave))
    BY <1>1, Zenon DEF RunnerInv, At
  <1>3. /\ Threads(Earlier(wave) \union Current(wave), Earlier(wave), status', W)
        /\ Serving(wave, todo', status', prefetching)
        /\ todo' \in Seq(Nodes) /\ status' \in [Nodes -> ThreadStates]
    BY <1>2, InvFacts, SpawnKeeps, Zenon
  <1>4. At(step', wave', todo', status', prefetching', pending')
    BY <1>1, <1>3, Zenon DEF At
  <1>5. Counting(step', wave', todo', refcount', inputLeft', recvLeft')
    BY Zenon DEF RunnerInv, Counting, Left
  <1> QED BY <1>3, <1>4, <1>5, HandlesKept, StepKeeps, Zenon DEF Steps

(* A host node that starts no thread.                                      *)
LEMMA HostStep ==
  ASSUME RunnerInv, step = "serial", todo # <<>>, todo' = Tail(todo), Kind(Head(todo)) # "Prefetch",
         UNCHANGED <<planVars, run, wave, step, threads, counts>>
  PROVE  RunnerInv'
  <1> UNCHANGED <<status, prefetching, pending, refcount, inputLeft, recvLeft>>
    BY Zenon DEF threads, counts
  <1> wave \in 1..Len(waves)
    BY InvReady, Zenon DEF Looping
  <1>1. /\ Threads(Earlier(wave) \union Current(wave), Earlier(wave), status, prefetching \union pending)
        /\ Serving(wave, todo, status, prefetching)
    BY Zenon DEF RunnerInv, At
  <1>2. Serving(wave, todo', status, prefetching)
    BY <1>1, HostKeeps, Zenon
  <1>3. At(step', wave', todo', status', prefetching', pending')
    BY <1>1, <1>2, Zenon DEF At
  <1>4. todo' \in Seq(Nodes)
    BY InvFacts, TakeHead, Zenon
  <1>5. Counting(step', wave', todo', refcount', inputLeft', recvLeft')
    BY Zenon DEF RunnerInv, Counting, Left
  <1> QED BY <1>3, <1>4, <1>5, InvFacts, HandlesKept, StepKeeps, Zenon DEF Steps

(* A prefetch of the wave is started and its handle kept.                  *)
LEMMA PrefetchStep ==
  ASSUME RunnerInv, NEW n \in Nodes, ExecutePrefetch(n)
  PROVE  RunnerInv'
  <1> /\ step = "serial" /\ todo # <<>> /\ n = Head(todo) /\ todo' = Tail(todo)
      /\ Kind(n) = "Prefetch" /\ Sets(status, status', n, "running")
      /\ prefetching' = prefetching \union {n}
      /\ UNCHANGED <<planVars, run, wave, step, pending, refcount, inputLeft, recvLeft>>
    BY Zenon DEF ExecutePrefetch, Execute, counts, Sets
  <1> Ready /\ wave \in 1..Len(waves)
    BY InvReady, Zenon DEF Looping
  <1>1. PICK W : W = prefetching \union pending
    BY Zenon
  <1>2. /\ Threads(Earlier(wave) \union Current(wave), Earlier(wave), status, W)
        /\ Serving(wave, todo, status, prefetching)
    BY <1>1, Zenon DEF RunnerInv, At
  <1>3. /\ Threads(Earlier(wave) \union Current(wave), Earlier(wave), status', W \union {n})
        /\ Serving(wave, todo', status', prefetching')
        /\ status' \in [Nodes -> ThreadStates]
    BY <1>2, InvFacts, PrefetchKeeps, Zenon
  <1>4. prefetching' \union pending' = W \union {n}
    BY <1>1, Zenon
  <1>5. At(step', wave', todo', status', prefetching', pending')
    BY <1>3, <1>4, Zenon DEF At
  <1>6. todo' \in Seq(Nodes)
    BY InvFacts, TakeHead, Zenon
  <1>7. Counting(step', wave', todo', refcount', inputLeft', recvLeft')
    BY Zenon DEF RunnerInv, Counting, Left
  <1> QED BY <1>3, <1>5, <1>6, <1>7, HandlesKept, StepKeeps, Zenon DEF Steps

(* Receives with a consumer are put off; the rest of the wave is to be     *)
(* joined.                                                                 *)
LEMMA DeferStep ==
  ASSUME RunnerInv, DeferReceives
  PROVE  RunnerInv'
  <1>1. PICK S : S = {n \in Range(waves[wave]) : HasConsumer(n)}
    BY Zenon
  <1> /\ step = "serial" /\ todo = <<>> /\ step' = "join" /\ pending' = pending \union S
      /\ PutsOff(wave, S, todo')
      /\ UNCHANGED <<planVars, run, wave, status, prefetching, refcount, inputLeft, recvLeft>>
    BY <1>1, Zenon DEF DeferReceives, Defer, counts, PutsOff
  <1> Ready /\ wave \in 1..Len(waves)
    BY InvReady, Zenon DEF Looping
  <1>2. PICK W : W = prefetching \union pending
    BY Zenon
  <1>3. /\ Threads(Earlier(wave) \union Current(wave), Earlier(wave), status, W)
        /\ Serving(wave, todo, status, prefetching) /\ prefetching \subseteq W
    BY <1>2, Zenon DEF RunnerInv, At
  <1>4. /\ Threads(Earlier(wave) \union Current(wave), Earlier(wave), status, W \union S)
        /\ Joining(wave, todo', status, W \union S)
        /\ todo' \in Seq(Nodes) /\ S \subseteq {n \in Nodes : HasConsumer(n)}
    BY <1>3, DeferKeeps, Zenon
  <1>5. prefetching' \union pending' = W \union S
    BY <1>2, Zenon
  <1>6. At(step', wave', todo', status', prefetching', pending')
    BY <1>4, <1>5, Zenon DEF At
  <1>7. Counting(step', wave', todo', refcount', inputLeft', recvLeft')
    BY Zenon DEF RunnerInv, Counting, Left
  <1> QED BY <1>4, <1>6, <1>7, InvFacts, HandlesKept, StepKeeps, Zenon DEF Steps

(* A guest or a thread of the wave is joined.                              *)
LEMMA JoinStep ==
  ASSUME RunnerInv, Join
  PROVE  RunnerInv'
  <1> /\ step = "join" /\ todo # <<>>
      /\ UNCHANGED <<planVars, run, wave, status, prefetching, pending, refcount, inputLeft, recvLeft>>
    BY Zenon DEF Join, Joined, threads, counts
  <1>1. CASE todo' = <<>> /\ step' = "error"
    BY <1>1, FailStep, Zenon DEF counts
  <1>2. CASE status[Head(todo)] = "ended" /\ todo' = Tail(todo) /\ step' = step
    <2> wave \in 1..Len(waves)
      BY InvReady, Zenon DEF Looping
    <2>1. PICK W : W = prefetching \union pending
      BY Zenon
    <2>2. /\ Threads(Earlier(wave) \union Current(wave), Earlier(wave), status, W)
          /\ Joining(wave, todo, status, W)
      BY <2>1, Zenon DEF RunnerInv, At
    <2>3. Joining(wave, todo', status, W)
      BY <1>2, <2>2, JoinKeeps, Zenon
    <2>4. At(step', wave', todo', status', prefetching', pending')
      BY <1>2, <2>1, <2>2, <2>3, Zenon DEF At
    <2>5. todo' \in Seq(Nodes)
      BY <1>2, InvFacts, TakeHead, Zenon
    <2>6. Counting(step', wave', todo', refcount', inputLeft', recvLeft')
      BY <1>2, Zenon DEF RunnerInv, Counting, Left
    <2> QED BY <1>2, <2>4, <2>5, <2>6, InvFacts, HandlesKept, StepKeeps, Zenon DEF Steps
  <1> QED BY <1>1, <1>2, Zenon DEF Join, Joined

(* The wave has been joined, and all its nodes are to be reclaimed.        *)
LEMMA BeginReclaimStep ==
  ASSUME RunnerInv, BeginReclaim
  PROVE  RunnerInv'
  <1> /\ step = "join" /\ todo = <<>> /\ step' = "reclaim" /\ todo' = waves[wave]
      /\ UNCHANGED <<planVars, run, wave, status, prefetching, pending, refcount, inputLeft, recvLeft>>
    BY Zenon DEF BeginReclaim, threads, counts
  <1> Ready /\ wave \in 1..Len(waves)
    BY InvReady, Zenon DEF Looping
  <1>1. waves[wave] \in Seq(Nodes) /\ Distinct(waves[wave]) /\ Range(waves[wave]) = Current(wave)
    BY WaveFacts, Zenon
  <1>2. PICK W : W = prefetching \union pending
    BY Zenon
  <1>3. /\ Threads(Earlier(wave) \union Current(wave), Earlier(wave), status, W)
        /\ Joining(wave, todo, status, W)
    BY <1>2, Zenon DEF RunnerInv, At
  <1>4. Threads(Earlier(wave) \union Current(wave), Earlier(wave) \union Current(wave), status, W)
    BY <1>3, WaveOver, Zenon
  <1>5. At(step', wave', todo', status', prefetching', pending')
    BY <1>2, <1>4, Zenon DEF At
  <1>6. Left(step', wave', todo') = Left(step, wave, todo)
    <2>1. Left("reclaim", wave, waves[wave]) = Nodes \ Earlier(wave)
      BY WholeWaveLeft, Zenon
    <2>2. Left("join", wave, todo) = Nodes \ Earlier(wave)
      BY DEF Left
    <2> QED BY <2>1, <2>2, Zenon
  <1>7. Counting(step', wave', todo', refcount', inputLeft', recvLeft')
    BY <1>1, <1>6, Zenon DEF RunnerInv, Counting
  <1> QED BY <1>1, <1>5, <1>7, InvFacts, HandlesKept, StepKeeps, Zenon DEF Steps

(* A node is reclaimed and counted off what it owns and uses.              *)
LEMMA ReclaimStep ==
  ASSUME RunnerInv, NEW n \in Nodes, Reclaim(n)
  PROVE  RunnerInv'
  <1> /\ step = "reclaim" /\ todo # <<>> /\ n = Head(todo) /\ todo' = Tail(todo)
      /\ Released(refcount, refcount', n)
      /\ Lowered(inputLeft, inputLeft', n) /\ Lowered(recvLeft, recvLeft', n)
      /\ UNCHANGED <<planVars, run, wave, step, status, prefetching, pending>>
    BY Zenon DEF Reclaim, ReclaimWith, threads, Lowered, Released
  <1> dag \in Dags /\ phase = "ready" /\ wave \in 1..Len(waves)
    BY InvReady, Zenon DEF Looping, Ready
  <1>1. /\ Counting("reclaim", wave, todo', refcount', inputLeft', recvLeft')
        /\ Counted(refcount', inputLeft', recvLeft')
    BY InvFacts, ReclaimKeeps, Zenon
  <1>2. At(step', wave', todo', status', prefetching', pending')
    BY Zenon DEF RunnerInv, At
  <1>3. todo' \in Seq(Nodes)
    BY InvFacts, TakeHead, Zenon
  <1>4. Typed(step', run', todo', wave', status', prefetching', pending')
    BY <1>3, Zenon DEF RunnerInv, Typed
  <1> QED BY <1>1, <1>2, <1>4, InvStays, Zenon DEF RunnerInv

(* On to the next wave; after the last one only prefetches that nobody     *)
(* uses are left for the drain.                                            *)
LEMMA EndWaveStep ==
  ASSUME RunnerInv, EndWave
  PROVE  RunnerInv'
  <1> /\ step = "reclaim" /\ todo = <<>>
      /\ UNCHANGED <<planVars, run, status, prefetching, pending, refcount, inputLeft, recvLeft>>
    BY Zenon DEF EndWave, Advance, threads, counts
  <1> Ready /\ wave \in 1..Len(waves)
    BY InvReady, Zenon DEF Looping
  <1>1. PICK W \in SUBSET Nodes : W = prefetching \union pending
    BY InvFacts, Zenon
  <1>2. Threads(Earlier(wave) \union Current(wave), Earlier(wave) \union Current(wave), status, W)
    BY <1>1, Zenon DEF RunnerInv, At
  <1>3. /\ Earlier(wave + 1) = Earlier(wave) \union Current(wave)
        /\ wave = Len(waves) => Earlier(wave) \union Current(wave) = Nodes
        /\ Len(waves) \in Nat
    BY WaveFacts, Zenon
  <1>4. CASE wave < Len(waves)
    <2>1. wave' = wave + 1 /\ step' = "prejoin" /\ todo' = Awaited(wave + 1)
      BY <1>4, Zenon DEF EndWave, Advance
    <2>2. wave' \in 0..Len(waves) /\ wave' \in 1..Len(waves)
      BY <1>3, <1>4, <2>1
    <2>3. Lists(todo', W \intersect Needed(wave')) /\ todo' \in Seq(Nodes)
      BY <1>1, <2>1, AwaitedLists, Zenon DEF Awaited
    <2>4. At(step', wave', todo', status', prefetching', pending')
      BY <1>1, <1>2, <1>3, <2>1, <2>3, Zenon DEF At
    <2>5. Left(step', wave', todo') = Left(step, wave, todo)
      <3>1. Left("reclaim", wave, todo) = Nodes \ Earlier(wave + 1)
        BY NextWaveLeft, Zenon
      <3>2. Left("prejoin", wave', todo') = Nodes \ Earlier(wave')
        BY DEF Left
      <3> QED BY <2>1, <3>1, <3>2, Zenon
    <2>6. Counting(step', wave', todo', refcount', inputLeft', recvLeft')
      BY <2>1, <2>5, Zenon DEF RunnerInv, Counting
    <2> QED BY <2>1, <2>2, <2>3, <2>4, <2>6, InvFacts, HandlesKept, StepKeeps, Zenon DEF Steps
  <1>5. CASE ~ (wave < Len(waves))
    <2>1. step' = "drain" /\ todo' = Ascending(prefetching) \o Ascending(pending) /\ wave' = wave
      BY <1>5, Zenon DEF EndWave, Advance
    <2>2. wave = Len(waves)
      BY <1>3, <1>5
    <2>3. Threads(Nodes, Nodes, status, prefetching \union pending)
      BY <1>1, <1>2, <1>3, <2>2, Zenon
    <2>4. /\ pending = {} /\ Threads(Nodes, Nodes, status, prefetching)
          /\ Lists(todo', prefetching) /\ todo' \in Seq(Nodes)
      BY <2>1, <2>3, InvFacts, HandlesKept, LastWaveOver, Zenon
    <2>5. At(step', wave', todo', status', prefetching', pending')
      BY <2>1, <2>4, Zenon DEF At
    <2>6. Counting(step', wave', todo', refcount', inputLeft', recvLeft')
      BY <2>1, Zenon DEF Counting
    <2> QED BY <2>1, <2>4, <2>5, <2>6, InvFacts, HandlesKept, StepKeeps, Zenon DEF Steps
  <1> QED BY <1>4, <1>5, Zenon

(* The drain joins one of them.                                            *)
LEMMA DrainStep ==
  ASSUME RunnerInv, Drain
  PROVE  RunnerInv'
  <1> /\ step = "drain" /\ todo # <<>>
      /\ prefetching' = prefetching \ {Head(todo)} /\ pending' = pending \ {Head(todo)}
      /\ UNCHANGED <<planVars, run, wave, status, refcount, inputLeft, recvLeft>>
    BY Zenon DEF Drain, counts
  <1> Ready /\ wave \in 1..Len(waves)
    BY InvReady, Zenon DEF Looping
  <1>1. /\ Threads(Nodes, Nodes, status, prefetching) /\ Lists(todo, prefetching) /\ pending = {}
    BY Zenon DEF RunnerInv, At
  <1>2. status[Head(todo)] \in {"ended", "failed"} /\ todo' = Tail(todo) /\ step' = step
    BY <1>1, Zenon DEF Drain
  <1>3. Head(todo) \in prefetching /\ Lists(Tail(todo), prefetching \ {Head(todo)})
    BY <1>1, ListsTail, Zenon
  <1>4. Threads(Nodes, Nodes, status, prefetching \ {Head(todo)})
    BY <1>1, <1>2, <1>3, HandlesKept, DrainOne, Zenon DEF Ready
  <1>5. At(step', wave', todo', status', prefetching', pending')
    BY <1>1, <1>2, <1>3, <1>4, Zenon DEF At
  <1>6. todo' \in Seq(Nodes)
    BY <1>2, InvFacts, TakeHead, Zenon
  <1>7. Counting(step', wave', todo', refcount', inputLeft', recvLeft')
    BY <1>2, Zenon DEF Counting
  <1> QED BY <1>2, <1>5, <1>6, <1>7, InvFacts, HandlesKept, StepKeeps, Zenon DEF Steps

(* A run is over: nobody is at work.                                       *)
LEMMA ReturnStep ==
  ASSUME RunnerInv, step = "drain", todo = <<>>, step' \in {"begin", "done"},
         UNCHANGED <<planVars, run, wave, todo, threads, counts>>
  PROVE  RunnerInv'
  <1> UNCHANGED <<status, prefetching, pending, refcount, inputLeft, recvLeft>>
    BY Zenon DEF threads, counts
  <1>1. Threads(Nodes, Nodes, status, prefetching) /\ Lists(todo, prefetching) /\ pending = {}
    BY Zenon DEF RunnerInv, At
  <1>2. prefetching = {} /\ \A n \in Nodes : status[n] \notin {"running", "read"}
    BY <1>1, RunOver, Zenon
  <1>3. At(step', wave', todo', status', prefetching', pending')
    BY <1>1, <1>2, Zenon DEF At
  <1>4. Counting(step', wave', todo', refcount', inputLeft', recvLeft')
    BY Zenon DEF Counting
  <1> QED BY <1>3, <1>4, InvFacts, HandlesKept, StepKeeps, Zenon DEF Steps, Looping

(* A guest or a thread goes on.                                            *)
LEMMA MoveStep ==
  ASSUME RunnerInv, NEW n \in Nodes, Goes(status, status', n),
         UNCHANGED <<planVars, run, wave, step, todo, prefetching, pending, counts>>
  PROVE  RunnerInv'
  <1> UNCHANGED <<refcount, inputLeft, recvLeft>>
    BY Zenon DEF counts
  <1>1. /\ At(step, wave, todo, status', prefetching, pending) /\ step # "begin"
        /\ status' \in [Nodes -> ThreadStates]
    BY InvFacts, MoveKeeps, Zenon
  <1>2. step \in Steps /\ (step \in Looping => wave \in 1..Len(waves))
    BY Zenon DEF RunnerInv, Typed
  <1> QED BY <1>1, <1>2, InvFacts, HandlesKept, StepKeeps, Zenon

(* A step of the planning, before the first run.                           *)
LEMMA PlanStep ==
  ASSUME RunnerInv, PlanDag
  PROVE  RunnerInv'
  <1>1. PlanInv /\ PlanInv'
    BY StepInv, Zenon DEF RunnerInv, PlanDag
  <1>2. phase # "ready"
    BY Zenon DEF PlanDag, PlanNext, Sort, EndSort, Level, SetLevel, EndLevel, Fill, Validate, Accept,
                 AssignBarrier, NextWaveGroups
  <1>3. dag' = dag
    BY Zenon DEF PlanDag, PlanNext, Sort, EndSort, Level, SetLevel, EndLevel, Fill, Validate, Accept,
                 AssignBarrier, NextWaveGroups
  <1>4. UNCHANGED <<run, wave, step, todo, status, prefetching, pending, refcount, inputLeft, recvLeft>>
    BY Zenon DEF PlanDag, runVars, threads, counts
  <1>5. step = "begin" /\ wave = 0
    BY <1>2, Zenon DEF RunnerInv, Typed
  <1>6. 0 \in 0..Len(waves')
    <2>1. waves' = <<>> \/ Filling'
      BY <1>1, Zenon DEF PlanInv
    <2>2. ASSUME Filling' PROVE Len(waves') \in Nat
      <3>1. (waves \in Seq(Seq(Nodes)))'
        BY <2>2, Zenon DEF Filling
      <3> QED BY <3>1
    <2>3. ASSUME waves' = <<>> PROVE Len(waves') \in Nat
      BY <2>3
    <2>4. Len(waves') \in Nat
      BY <2>1, <2>2, <2>3, Zenon
    <2> QED BY <2>4
  <1>7. Nodes' = Nodes /\ {n \in Nodes : HasConsumer(n)}' = {n \in Nodes : HasConsumer(n)}
        /\ {n \in Nodes : Kind(n) = "Prefetch"}' = {n \in Nodes : Kind(n) = "Prefetch"}
    BY <1>3 DEF Nodes, HasConsumer, Kind, Users, Deps
  <1>8. Typed(step, run, todo, wave, status, prefetching, pending)'
    BY <1>4, <1>5, <1>6, <1>7, Zenon DEF RunnerInv, Typed, Looping
  <1>9. At(step, wave, todo, status, prefetching, pending)'
    BY <1>4, <1>5, <1>7, Zenon DEF RunnerInv, At
  <1>10. Counting(step, wave, todo, refcount, inputLeft, recvLeft)'
    BY <1>4, <1>5, Zenon DEF Counting
  <1>11. /\ {n \in Nodes : IsInput(n)}' = {n \in Nodes : IsInput(n)}
         /\ {n \in Nodes : Kind(n) = "Recv" /\ \A s \in Outs(n) : s[1] = "io"}' =
              {n \in Nodes : Kind(n) = "Recv" /\ \A s \in Outs(n) : s[1] = "io"}
    BY <1>3 DEF Nodes, IsInput, Kind, Outs, Stages
  <1>12. Counted(refcount, inputLeft, recvLeft)'
    BY <1>4, <1>11, Zenon DEF RunnerInv, Counted
  <1> QED BY <1>1, <1>8, <1>9, <1>10, <1>12, Zenon DEF RunnerInv

(* Before the planning no run has begun.                                   *)
LEMMA RunnerInit ==
  ASSUME Init
  PROVE  RunnerInv
  <1>1. PlanInit
    BY Zenon DEF Init
  <1>2. PlanInv
    BY <1>1, InitInv, Zenon
  <1>3. /\ run = 0 /\ wave = 0 /\ step = "begin" /\ todo = <<>> /\ prefetching = {} /\ pending = {}
        /\ status = [n \in Nodes |-> "none"]
        /\ refcount = SlotRefcounts /\ inputLeft = InputDepCounts /\ recvLeft = RecvDepCounts
    BY Zenon DEF Init
  <1>4. phase = "sort" /\ waves = <<>>
    BY <1>1, Zenon DEF PlanInit
  <1>5. <<>> \in Seq(Nodes) /\ 0 \in 0..Len(waves) /\ 0 \in Nat
    BY <1>4
  <1>6. /\ status \in [Nodes -> ThreadStates]
        /\ \A n \in Nodes : status[n] = "none"
    BY <1>3 DEF ThreadStates
  <1>7. Typed(step, run, todo, wave, status, prefetching, pending)
    BY <1>3, <1>4, <1>5, <1>6, Zenon DEF Typed, Steps, Looping
  <1>8. At(step, wave, todo, status, prefetching, pending)
    BY <1>3, <1>6, Zenon DEF At
  <1>9. Counting(step, wave, todo, refcount, inputLeft, recvLeft)
    BY <1>3, Zenon DEF Counting
  <1>10. Counted(refcount, inputLeft, recvLeft)
    BY <1>2, <1>3, FreshCounts, Zenon DEF PlanInv
  <1> QED BY <1>2, <1>7, <1>8, <1>9, <1>10, Zenon DEF RunnerInv

(* Nothing happens.                                                        *)
LEMMA RunnerStays ==
  ASSUME RunnerInv, UNCHANGED vars
  PROVE  RunnerInv'
  <1>1. UNCHANGED <<planVars, run, wave, step, todo, status, prefetching, pending, refcount,
                    inputLeft, recvLeft>>
    BY Zenon DEF vars, runVars, threads, counts
  <1>2. /\ Typed(step', run', todo', wave', status', prefetching', pending')
        /\ At(step', wave', todo', status', prefetching', pending')
        /\ Counting(step', wave', todo', refcount', inputLeft', recvLeft')
        /\ Counted(refcount', inputLeft', recvLeft')
    BY <1>1, Zenon DEF RunnerInv
  <1> QED BY <1>1, <1>2, InvStays, Zenon DEF RunnerInv

(* Every step of the runner and of its guests and threads keeps the        *)
(* invariant.                                                              *)
LEMMA RunnerStep ==
  ASSUME RunnerInv, [Next]_vars
  PROVE  RunnerInv'
  <1>1. ASSUME NEW n \in Nodes,
               ExecuteStages(n) \/ ExecuteChunk(n) \/ ExecuteRoute(n) \/ ExecuteFree(n)
        PROVE  RunnerInv'
    <2>1. /\ step = "serial" /\ todo # <<>> /\ n = Head(todo) /\ todo' = Tail(todo)
          /\ UNCHANGED <<planVars, run, wave, step, threads, counts>>
      BY <1>1, Zenon DEF ExecuteStages, ExecuteChunk, ExecuteRoute, ExecuteFree, Release, Execute
    <2>2. Kind(n) # "Prefetch"
      BY <1>1 DEF ExecuteStages, ExecuteChunk, ExecuteRoute, ExecuteFree, Release
    <2> QED BY <2>1, <2>2, HostStep, Zenon
  <1>2. ASSUME NEW n \in Nodes, Read(n) PROVE RunnerInv'
    <2>1. /\ Goes(status, status', n)
          /\ UNCHANGED <<planVars, run, wave, step, todo, prefetching, pending, counts>>
      BY <1>2, Zenon DEF Read, Goes
    <2> QED BY <2>1, MoveStep, Zenon
  <1>3. ASSUME NEW n \in Nodes, Write(n) PROVE RunnerInv'
    <2>1. /\ Goes(status, status', n)
          /\ UNCHANGED <<planVars, run, wave, step, todo, prefetching, pending, counts>>
      BY <1>3, Zenon DEF Write, Goes
    <2> QED BY <2>1, MoveStep, Zenon
  <1>4. ASSUME NEW n \in Nodes, Fail(n) PROVE RunnerInv'
    <2>1. /\ Goes(status, status', n)
          /\ UNCHANGED <<planVars, run, wave, step, todo, prefetching, pending, counts>>
      BY <1>4, Zenon DEF Fail, Goes
    <2> QED BY <2>1, MoveStep, Zenon
  <1>5. CASE RunnerFails
    <2>1. /\ step # "begin" /\ step' = "error" /\ todo' = <<>>
          /\ UNCHANGED <<planVars, run, wave, status, prefetching, pending, counts>>
      BY <1>5, Zenon DEF RunnerFails, threads
    <2> QED BY <2>1, FailStep, Zenon
  <1>6. CASE EndChunkRun \/ EndRun
    <2>1. PICK free, next : Return(free, next) /\ next \in {"begin", "done"}
      BY <1>6, Zenon DEF EndChunkRun, EndRun
    <2>2. /\ step = "drain" /\ todo = <<>> /\ step' \in {"begin", "done"}
          /\ UNCHANGED <<planVars, run, wave, todo, threads, counts>>
      BY <2>1, Zenon DEF Return
    <2> QED BY <2>2, ReturnStep, Zenon
  <1>7. CASE PlanDag \/ BeginRun \/ LoadChunks \/ PreJoin \/ Spawn
    BY <1>7, PlanStep, BeginStep, LoadStep, PreJoinStep, SpawnStep, Zenon
  <1>8. CASE DeferReceives \/ Join \/ BeginReclaim \/ EndWave \/ Drain
    BY <1>8, DeferStep, JoinStep, BeginReclaimStep, EndWaveStep, DrainStep, Zenon
  <1>9. ASSUME NEW n \in Nodes, ExecutePrefetch(n) \/ Reclaim(n) PROVE RunnerInv'
    BY <1>9, PrefetchStep, ReclaimStep, Zenon
  <1>10. CASE UNCHANGED vars
    BY <1>10, RunnerStays, Zenon
  <1> QED BY <1>1, <1>2, <1>3, <1>4, <1>5, <1>6, <1>7, <1>8, <1>9, <1>10, Zenon DEF Next

-----------------------------------------------------------------------------
(* What the invariant says                                                 *)

(* The type invariant of the runner.                                       *)
LEMMA InvTypes ==
  ASSUME RunnerInv
  PROVE  TypeOK
  <1>1. Typed(step, run, todo, wave, status, prefetching, pending) /\ Counted(refcount, inputLeft, recvLeft)
    BY Zenon DEF RunnerInv
  <1>2. Range(todo) \subseteq Nodes
    <2>1. todo \in Seq(Nodes)
      BY <1>1, Zenon DEF Typed
    <2> QED BY <2>1 DEF Range
  <1>3. /\ DOMAIN InputDepCounts = {n \in Nodes : IsInput(n)}
        /\ DOMAIN RecvDepCounts = {n \in Nodes : Kind(n) = "Recv" /\ \A s \in Outs(n) : s[1] = "io"}
    BY Zenon DEF InputDepCounts, RecvDepCounts
  <1> QED BY <1>1, <1>2, <1>3, Zenon DEF TypeOK, Typed, Counted, Steps, ThreadStates

(* Joins come in time.                                                     *)
LEMMA InvThreads ==
  ASSUME RunnerInv
  PROVE  ThreadsJoined
  <1>1. step \in {"begin", "done"} => \A n \in Nodes : ~ AtWork(n)
    BY Zenon DEF RunnerInv, At, AtWork
  <1>2. step \in {"reclaim", "drain"} =>
           \A n \in Nodes : Kind(n) \in {"Func", "Send"} => ~ AtWork(n)
    BY InvFacts, NobodyReads, Zenon DEF AtWork
  <1>3. step \in {"serial", "join", "reclaim"} =>
           \A n \in Range(waves[wave]) : \A d \in Deps(n) : Concurrent(d) => status[d] = "ended"
    <2> SUFFICES ASSUME step \in {"serial", "join", "reclaim"}
                 PROVE  \A n \in Range(waves[wave]) : \A d \in Deps(n) :
                           Concurrent(d) => status[d] = "ended"
      BY Zenon
    <2>1. Ready /\ wave \in 1..Len(waves)
      BY InvReady, Zenon DEF Looping
    <2> QED BY <2>1, InvFacts, DepsJoined, Zenon
  <1>4. step = "drain" => pending = {}
    BY Zenon DEF RunnerInv, At
  <1>5. step \in {"prejoin", "join", "drain"} => \A n \in Range(todo) : status[n] # "none"
    BY InvFacts, WaitsForStarted, Zenon
  <1> QED BY <1>1, <1>2, <1>3, <1>4, <1>5, Zenon DEF ThreadsJoined

(* The counters tell the last reader.                                      *)
LEMMA InvLast ==
  ASSUME RunnerInv
  PROVE  LastReader
  <1> SUFFICES ASSUME step = "reclaim", todo # <<>> PROVE LastReader
    BY Zenon DEF LastReader
  <1>1. Ready /\ wave \in 1..Len(waves)
    BY InvReady, Zenon DEF Looping
  <1>2. PICK h, L : h = Head(todo) /\ L = Left("reclaim", wave, todo)
    BY Zenon
  <1>3. todo \in Seq(Nodes) /\ Counting("reclaim", wave, todo, refcount, inputLeft, recvLeft)
    BY InvFacts, Zenon
  <1>4. TellLast(L, h, refcount, inputLeft, recvLeft)
    BY <1>1, <1>2, <1>3, LastOfAll, Zenon
  <1>5. Unreclaimed = L
    BY <1>1, <1>2, NotReclaimed, Zenon DEF Unreclaimed
  <1> QED BY <1>2, <1>4, <1>5, Zenon DEF LastReader, TellLast

-----------------------------------------------------------------------------
(* Theorems about the runner                                               *)

(* run_dag's tables, and where its guests and threads are at each of its   *)
(* steps.                                                                  *)
THEOREM RunnerInvariant == Spec => []RunnerInv
  <1>1. Init => RunnerInv
    BY RunnerInit, Zenon
  <1>2. RunnerInv /\ [Next]_vars => RunnerInv'
    BY RunnerStep, Zenon
  <1> QED BY <1>1, <1>2, PTL DEF Spec

(* For every DAG: the handles and counters of run_dag keep their shape; in *)
(* particular no reader is counted off a slot, an input or a receive twice *)
(* (no *count -= 1 of an unsigned counter goes below zero).                *)
THEOREM RunnerTypes == Spec => []TypeOK
  <1>1. RunnerInv => TypeOK
    BY InvTypes, Zenon
  <1> QED BY <1>1, RunnerInvariant, PTL

(* For every DAG, every order in which guests and threads end, and every   *)
(* failure: run_dag joins what a wave depends on before the wave starts,   *)
(* readers before it reclaims slots, and everybody before it begins the    *)
(* next run or returns; and it never waits for what was not started.       *)
THEOREM RunnerThreads == Spec => []ThreadsJoined
  <1>1. RunnerInv => ThreadsJoined
    BY InvThreads, Zenon
  <1> QED BY <1>1, RunnerInvariant, PTL

(* For every DAG: the counts of readers that decide when a slot is freed   *)
(* after a wave are exact.                                                 *)
THEOREM RunnerCounts == Spec => []LastReader
  <1>1. RunnerInv => LastReader
    BY InvLast, Zenon
  <1> QED BY <1>1, RunnerInvariant, PTL

(* The plan that run_dag works with is the right one all along.            *)
THEOREM RunnerPlans == Spec => []PlanRight
  <1>1. RunnerInv => PlanRight
    BY InvRight, Zenon DEF RunnerInv
  <1> QED BY <1>1, RunnerInvariant, PTL
=============================================================================
