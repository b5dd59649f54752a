-------------------------- MODULE NodeAgentProofs ---------------------------
(***************************************************************************)
(* Facts about the control plane for any number of workers, jobs, shards,  *)
(* crashes and restarts: the reservations of placed jobs are exact, a      *)
(* sharded job is reported successful only when an executor of every shard *)
(* has succeeded, and neither placed jobs side by side nor partitioned     *)
(* jobs one after the other mix up results, inputs or executors.           *)
(***************************************************************************)
EXTENDS NodeAgent, TLAPS

-----------------------------------------------------------------------------
(* Reservations                                                            *)

\* The tables of the handlers have an entry per job.
Tables ==
    /\ DOMAIN ph = Jobs /\ DOMAIN loc = Jobs /\ DOMAIN answer = Jobs /\ DOMAIN kind = Jobs
    /\ \A j \in Jobs : DOMAIN loc[j] = DOMAIN NoLocals

\* A step of handler j that is no affair of the reservations.
Apart(j) ==
    /\ reserved' = reserved
    /\ DOMAIN ph' = Jobs /\ DOMAIN loc' = Jobs /\ DOMAIN answer' = Jobs /\ kind' = kind
    /\ DOMAIN loc'[j] = DOMAIN NoLocals
    /\ ph[j] \notin Holding /\ ph'[j] \notin Holding
    /\ \A k \in Jobs \ {j} : ph'[k] = ph[k] /\ loc'[k] = loc[k] /\ answer'[k] = answer[k]

\* The steps of a partitioned job neither hold a node nor touch what other
\* handlers know (handle_submit).
LEMMA PartitionedApart ==
    ASSUME Tables, NEW j \in Jobs, PartitionedStep(j) PROVE Apart(j)
  <1>1. CASE SubmitPartitioned(j)
    BY <1>1, Zenon DEF SubmitPartitioned, Goto, Answer, Tables, Apart, Holding
  <1>2. CASE OfferInputs(j)
    BY <1>2, Zenon DEF OfferInputs, Goto, Tables, Apart, Holding
  <1>3. CASE StageTcp(j)
    BY <1>3, Zenon DEF StageTcp, Goto, Tables, Apart, Holding
  <1>4. CASE StageRecv(j)
    BY <1>4 DEF StageRecv, Goto, Tables, Apart, Holding, Awaited
  <1>5. CASE StageTimeout(j)
    BY <1>5, Zenon DEF StageTimeout, Goto, Answer, Tables, Apart, Holding, Awaited
  <1>6. CASE AssignJobs(j)
    BY <1>6, Zenon DEF AssignJobs, Answer, Tables, Apart, Holding
  <1>7. CASE LocalExecutor(j)
    BY <1>7, Zenon DEF LocalExecutor, Goto, coordVars, Tables, Apart, Holding
  <1>8. CASE Collect(j)
    BY <1>8, Zenon DEF Collect, coordVars, Tables, Apart, Holding
  <1>9. CASE CollectTimeout(j)
    BY <1>9, Zenon DEF CollectTimeout, coordVars, Tables, Apart, Holding
  <1>10. CASE CollectEnd(j)
    BY <1>10, Zenon DEF CollectEnd, Answer, Tables, Apart, Holding
  <1> QED
    BY <1>1, <1>2, <1>3, <1>4, <1>5, <1>6, <1>7, <1>8, <1>9, <1>10, Zenon DEF PartitionedStep

\* Nor do the steps of a sharded job (handle_sharded_submit).
LEMMA ShardedApart ==
    ASSUME Tables, NEW j \in Jobs, ShardedStep(j) PROVE Apart(j)
  <1>1. CASE SubmitSharded(j)
    BY <1>1, Zenon DEF SubmitSharded, Answer, Tables, Apart, Holding
  <1>2. CASE FirstWave(j)
    BY <1>2, Zenon DEF FirstWave, Goto, Tables, Apart, Holding
  <1>3. CASE WaveAssign(j)
    BY <1>3, Zenon DEF WaveAssign, Goto, Tables, Apart, Holding
  <1>4. CASE WaveStaged(j)
    BY <1>4, Zenon DEF WaveStaged, Goto, coordVars, Tables, Apart, Holding
  <1>5. CASE WaveStageTimeout(j)
    BY <1>5, Zenon DEF WaveStageTimeout, Answer, Tables, Apart, Holding
  <1>6. CASE WaveLocal(j)
    BY <1>6, Zenon DEF WaveLocal, coordVars, Tables, Apart, Holding
  <1>7. CASE WaveRecv(j)
    BY <1>7 DEF WaveRecv, coordVars, Tables, Apart, Holding
  <1>8. CASE WaveTimeout(j)
    BY <1>8, Zenon DEF WaveTimeout, coordVars, Tables, Apart, Holding
  <1>9. CASE WaveEnd(j)
    BY <1>9, Zenon DEF WaveEnd, Goto, Tables, Apart, Holding
  <1>10. CASE WindowLaunch(j)
    BY <1>10, Zenon DEF WindowLaunch, coordVars, Tables, Apart, Holding
  <1>11. CASE WindowReap(j)
    BY <1>11, Zenon DEF WindowReap, coordVars, Tables, Apart, Holding
  <1>12. CASE WindowTimeout(j)
    BY <1>12, Zenon DEF WindowTimeout, Goto, coordVars, Tables, Apart, Holding
  <1>13. CASE WindowEnd(j)
    BY <1>13, Zenon DEF WindowEnd, Goto, coordVars, Tables, Apart, Holding
  <1>14. CASE Merge(j)
    BY <1>14, Zenon DEF Merge, Answer, Tables, Apart, Holding
  <1> QED
    BY <1>1, <1>2, <1>3, <1>4, <1>5, <1>6, <1>7,
       <1>8, <1>9, <1>10, <1>11, <1>12, <1>13, <1>14, Zenon DEF ShardedStep

\* What the daemons, the accept loop and its drain leave alone.
Aside == UNCHANGED <<kind, reserved, ph, loc, answer>>

\* Daemons and the accept of a connection are such steps.
LEMMA DaemonsAside ==
    ASSUME NEW w \in Workers, WorkerStep(w) \/ WorkerCrash(w) \/ AcceptReady(w) PROVE Aside
  <1>1. CASE WorkerStep(w)
    BY <1>1, Zenon DEF WorkerStep, WorkerStart, WorkerRecv, ShareRecv, ShareTimeout, ExecutorExit,
                PollExecutor, elsewhere, coordVars, jobVars, Aside
  <1>2. CASE WorkerCrash(w)
    BY <1>2, Zenon DEF WorkerCrash, elsewhere, coordVars, jobVars, Aside
  <1>3. CASE AcceptReady(w)
    BY <1>3, Zenon DEF AcceptReady, jobVars, Aside
  <1> QED BY <1>1, <1>2, <1>3, Zenon

\* So is the drain.
LEMMA DrainAside == ASSUME Drain PROVE Aside
  BY Zenon DEF Drain, coordVars, jobVars, Aside

\* Steps of others leave the reservations as they are.
LEMMA ApartReserved ==
    ASSUME Tables, ReservedExactly, NEW j \in Jobs, Apart(j)
    PROVE  Tables' /\ ReservedExactly'
  <1>1. Tables'
    BY Zenon DEF Tables, Apart
  <1>2. Holders' = Holders /\ j \notin Holders
    BY Zenon DEF Holders, Apart
  <1>3. \A k \in Holders : loc'[k] = loc[k]
    BY <1>2, Zenon DEF Holders, Apart
  <1>4. {loc'[k].node : k \in Holders'} = {loc[k].node : k \in Holders}
    BY <1>2, <1>3, Zenon
  <1> QED BY <1>1, <1>2, <1>3, <1>4 DEF ReservedExactly, Apart

\* A placed job that stays with its node.
Keeps(j) ==
    /\ reserved' = reserved /\ kind' = kind
    /\ DOMAIN ph' = Jobs /\ DOMAIN loc' = Jobs /\ DOMAIN answer' = Jobs
    /\ DOMAIN loc'[j] = DOMAIN NoLocals
    /\ ph[j] \in Holding /\ ph'[j] \in Holding /\ loc'[j].node = loc[j].node
    /\ \A k \in Jobs \ {j} : ph'[k] = ph[k] /\ loc'[k] = loc[k] /\ answer'[k] = answer[k]

\* Such a step leaves the reservations exact.
LEMMA KeepsReserved ==
    ASSUME Tables, ReservedExactly, NEW j \in Jobs, Keeps(j)
    PROVE  Tables' /\ ReservedExactly'
  <1>1. Tables'
    BY Zenon DEF Tables, Keeps
  <1>2. Holders' = Holders
    BY Zenon DEF Holders, Keeps
  <1>3. \A k \in Holders : loc'[k].node = loc[k].node
    BY Zenon DEF Holders, Keeps
  <1>4. {loc'[k].node : k \in Holders'} = {loc[k].node : k \in Holders}
    BY <1>2, <1>3, Zenon
  <1> QED BY <1>1, <1>2, <1>3, <1>4 DEF ReservedExactly, Keeps

\* A placed job takes a node that nobody holds, keeps it on every path from
\* dispatch to the release, and gives back its own (run_placed_job).
LEMMA PlacedReserved ==
    ASSUME Tables, ReservedExactly, NEW j \in Jobs, PlacedStep(j)
    PROVE  Tables' /\ ReservedExactly'
  <1>1. CASE AcceptPlaced(j)
    <2> Apart(j)
      BY <1>1, Zenon DEF AcceptPlaced, coordVars, Tables, Apart, Holding
    <2> QED BY ApartReserved, Zenon
  <1>2. CASE PlacedLive(j)
    <2> Apart(j)
      BY <1>2, Zenon DEF PlacedLive, Goto, coordVars, Tables, Apart, Holding
    <2> QED BY ApartReserved
  <1>3. CASE ReserveNode(j)
    <2>1. PICK n \in Pick(j, None) \cup UNION {Pick(j, p) : p \in Nodes} :
            /\ reserved' = reserved \cup {n}
            /\ loc' = [loc EXCEPT ![j].node = n, ![j].need = {n} \ {Coord}]
      BY <1>3, Zenon DEF ReserveNode
    <2>2. n \notin reserved
      BY <2>1, Zenon DEF Pick
    <2>3. ph' = [ph EXCEPT ![j] = "dispatch"] /\ answer' = answer /\ kind' = kind /\ ph[j] = "queue"
      BY <1>3, Zenon DEF ReserveNode, Goto
    <2>4. DOMAIN loc' = Jobs /\ DOMAIN loc'[j] = DOMAIN NoLocals /\ loc'[j].node = n
      BY <2>1, Zenon DEF Tables, NoLocals
    <2>5. \A k \in Jobs \ {j} : loc'[k] = loc[k]
      BY <2>1, Zenon DEF Tables
    <2>6. Tables'
      BY <2>3, <2>4, <2>5, Zenon DEF Tables
    <2>7. Holders' = Holders \cup {j} /\ j \notin Holders
      BY <2>3, Zenon DEF Holders, Holding, Tables
    <2>8. \A k \in Holders : loc'[k].node = loc[k].node /\ loc[k].node # n
      BY <2>2, <2>5, <2>7, Zenon DEF ReservedExactly, Holders
    <2>9. {loc'[k].node : k \in Holders'} = {loc[k].node : k \in Holders} \cup {n}
      BY <2>4, <2>7, <2>8, Zenon
    <2>10. reserved' = {loc'[k].node : k \in Holders'}
      BY <2>1, <2>9, Zenon DEF ReservedExactly
    <2>11. ASSUME NEW a \in Holders', NEW b \in Holders', loc'[a].node = loc'[b].node
           PROVE  a = b
      BY <2>4, <2>7, <2>8, <2>11, Zenon DEF ReservedExactly
    <2> QED BY <2>6, <2>10, <2>11, Zenon DEF ReservedExactly
  <1>4. CASE QueueTimeout(j)
    <2> Apart(j)
      BY <1>4, Zenon DEF QueueTimeout, Answer, coordVars, Tables, Apart, Holding
    <2> QED BY ApartReserved
  <1>5. CASE DispatchLocal(j)
    <2> Keeps(j)
      BY <1>5, Zenon DEF DispatchLocal, Goto, coordVars, Tables, Keeps, Holding, NoLocals
    <2> QED BY KeepsReserved
  <1>6. CASE DispatchRemote(j)
    <2> Keeps(j)
      BY <1>6, Zenon DEF DispatchRemote, Goto, Tables, Keeps, Holding
    <2> QED BY KeepsReserved
  <1>7. CASE PlacedStaged(j)
    <2> Keeps(j)
      BY <1>7 DEF PlacedStaged, Goto, Tables, Keeps, Holding, NoLocals
    <2> QED BY KeepsReserved
  <1>8. CASE PlacedStageTimeout(j)
    <2> Keeps(j)
      BY <1>8, Zenon DEF PlacedStageTimeout, Goto, Tables, Keeps, Holding, NoLocals
    <2> QED BY KeepsReserved
  <1>9. CASE PlacedRecv(j)
    <2> Keeps(j)
      BY <1>9 DEF PlacedRecv, Goto, coordVars, Tables, Keeps, Holding, NoLocals
    <2> QED BY KeepsReserved
  <1>10. CASE PlacedTimeout(j)
    <2> Keeps(j)
      BY <1>10, Zenon DEF PlacedTimeout, Goto, coordVars, Tables, Keeps, Holding, NoLocals
    <2> QED BY KeepsReserved
  <1>11. CASE ReleaseNode(j)
    <2>1. /\ reserved' = reserved \ {loc[j].node} /\ loc' = loc /\ kind' = kind /\ ph[j] = "release"
          /\ ph' = [ph EXCEPT ![j] = "end"] /\ DOMAIN answer' = DOMAIN answer
      BY <1>11, Zenon DEF ReleaseNode, Answer
    <2>2. Tables'
      BY <2>1, Zenon DEF Tables
    <2>3. j \in Holders /\ Holders' = Holders \ {j}
      BY <2>1, Zenon DEF Holders, Holding, Tables
    <2>4. \A k \in Holders \ {j} : loc[k].node # loc[j].node
      BY <2>3, Zenon DEF ReservedExactly
    <2>5. {loc[k].node : k \in Holders \ {j}} = {loc[k].node : k \in Holders} \ {loc[j].node}
      BY <2>3, <2>4, Zenon
    <2> QED BY <2>1, <2>2, <2>3, <2>5, Zenon DEF ReservedExactly
  <1> QED
    BY <1>1, <1>2, <1>3, <1>4, <1>5, <1>6, <1>7, <1>8, <1>9, <1>10, <1>11, Zenon DEF PlacedStep

\* No node is reserved at the start.
LEMMA ReservationsInit == ASSUME Init PROVE Tables /\ ReservedExactly
  <1>1. DOMAIN kind = Jobs
    BY ScenesAssumption, Zenon DEF Init
  <1>2. Holders = {}
    BY Zenon DEF Init, Holders, Holding
  <1> QED BY <1>1, <1>2, Zenon DEF Init, Tables, ReservedExactly

\* No step of anybody makes the reservations inexact.
LEMMA ReservationsStep ==
    ASSUME Tables, ReservedExactly, [Next]_vars PROVE Tables' /\ ReservedExactly'
  <1>1. CASE Aside
    BY <1>1, Zenon DEF Aside, Tables, ReservedExactly, Holders
  <1>2. ASSUME NEW j \in Jobs, JobStep(j) PROVE Tables' /\ ReservedExactly'
    BY <1>2, PartitionedApart, ShardedApart, ApartReserved, PlacedReserved, Zenon DEF JobStep
  <1>3. CASE UNCHANGED vars
    BY <1>1, <1>3, Zenon DEF vars, coordVars, jobVars, Aside
  <1> QED BY <1>1, <1>2, <1>3, DaemonsAside, DrainAside, Zenon DEF Next

\* For any number of workers and jobs of all kinds, with any number of
\* crashes and restarts: a node is reserved exactly while one placed job
\* holds it, and two placed jobs never hold the same one.
THEOREM ReservationsExact == Spec => []ReservedExactly
  <1>1. Init => Tables /\ ReservedExactly
    BY ReservationsInit, Zenon
  <1>2. Tables /\ ReservedExactly /\ [Next]_vars => (Tables /\ ReservedExactly)'
    BY ReservationsStep, Zenon
  <1> QED BY <1>1, <1>2, PTL DEF Spec

-----------------------------------------------------------------------------
(* Sharded jobs                                                            *)

ShardedKinds == {"sharded", "window"}

AnySeq(s) == \E S : s \in Seq(S)

\* The task of a message is a job and a number.
PairTask(m) == m.task = <<m.task[1], m.task[2]>>

\* What a result says is so: the executor has succeeded, on some node.
Backed(m, D) ==
    m.kind = "Done" => PairTask(m) /\ (m.ok => \E n \in Nodes : <<m.task, n>> \in D)

WorkerWires ==
    /\ DOMAIN toW = Conns
    /\ \A c \in Conns : AnySeq(toW[c]) /\ \A i \in DOMAIN toW[c] : PairTask(toW[c][i])

CoordWires ==
    /\ DOMAIN toC = Conns
    /\ \A c \in Conns : AnySeq(toC[c]) /\ \A i \in DOMAIN toC[c] : Backed(toC[c][i], done)

\* The executor of w has a task, and one that ended well has done it.
Honest(e, w, D) ==
    /\ e = [task |-> e.task, st |-> e.st]
    /\ e.st # "none" => PairTask(e)
    /\ e.st = "ok" => <<e.task, w>> \in D

\* A daemon that runs has a connection, and its executor is honest.
Daemons ==
    /\ inc \in [Workers -> 0 .. MaxInc] /\ DOMAIN proc = Workers
    /\ \A w \in Workers : proc[w] # "down" => inc[w] # 0
    /\ DOMAIN exec = Workers
    /\ \A w \in Workers : Honest(exec[w], w, done)

ShardedPhases == {"new", "nodes", "window", "wave", "wstage", "gather", "merge", "end"}

ShardDone(j, i, D) == \E n \in Nodes : <<<<j, i>>, n>> \in D

\* The handler of a sharded job, in phase p with the locals l, counts a shard
\* as done only if it is; a job that is absent stays so.
Book(j, k, p, l, a, D) ==
    /\ k \in ShardedKinds =>
         /\ p \in ShardedPhases
         /\ l.expected = {}
         /\ \A i \in l.partial : ShardDone(j, i, D)
         /\ a = "ok" => \A i \in ShardIds : ShardDone(j, i, D)
    /\ k = "absent" => p = "new" /\ a # "ok"

Books == \A j \in Jobs : Book(j, kind[j], ph[j], loc[j], answer[j], done)

\* An empty channel is a sequence.
LEMMA EmptyAnySeq == AnySeq(<<>>) /\ DOMAIN <<>> = {}
  <1>1. <<>> \in Seq({}) /\ DOMAIN <<>> = {}
    OBVIOUS
  <1> QED BY <1>1, Zenon DEF AnySeq

\* An appended message is the only new one.
LEMMA AppendAnySeq ==
    ASSUME NEW s, AnySeq(s), NEW m
    PROVE  /\ AnySeq(Append(s, m))
           /\ \A i \in DOMAIN Append(s, m) :
                Append(s, m)[i] = m \/ \E k \in DOMAIN s : Append(s, m)[i] = s[k]
  <1>1. PICK S : s \in Seq(S)
    BY Zenon DEF AnySeq
  <1>2. s \in Seq(S \cup {m}) /\ m \in S \cup {m}
    BY <1>1
  <1>3. Append(s, m) \in Seq(S \cup {m})
    BY <1>2
  <1>4. \A i \in DOMAIN Append(s, m) :
          Append(s, m)[i] = m \/ \E k \in DOMAIN s : Append(s, m)[i] = s[k]
    BY <1>1, <1>2
  <1> QED BY <1>3, <1>4, Zenon DEF AnySeq

\* What is read, and what is left, was in the channel.
LEMMA TailAnySeq ==
    ASSUME NEW s, AnySeq(s), s # <<>>
    PROVE  /\ AnySeq(Tail(s)) /\ \E k \in DOMAIN s : Head(s) = s[k]
           /\ \A i \in DOMAIN Tail(s) : \E k \in DOMAIN s : Tail(s)[i] = s[k]
  <1>1. PICK S : s \in Seq(S)
    BY Zenon DEF AnySeq
  <1>2. Tail(s) \in Seq(S) /\ Len(s) \in Nat \ {0} /\ DOMAIN s = 1 .. Len(s)
    BY <1>1
  <1>3. Head(s) = s[1] /\ 1 \in DOMAIN s
    BY <1>1, <1>2
  <1>4. ASSUME NEW i \in DOMAIN Tail(s) PROVE Tail(s)[i] = s[i + 1] /\ i + 1 \in DOMAIN s
    BY <1>1, <1>2
  <1> QED BY <1>2, <1>3, <1>4, Zenon DEF AnySeq

\* A message about shard b of job a has a proper task.
LEMMA PairMsg == \A k, a, b : PairTask(Msg(k, <<a, b>>))
  BY Zenon DEF PairTask, Msg

\* What a step of handler j can do to the wires and the daemons: it sends
\* tasks, it reads one message, and what has been done stays done.
WireStep(j) ==
    /\ toW' = toW \/ \E S, m : PairTask(m) /\ SendAll(S, m)
    /\ toC' = toC \/ \E w, k : Take(w, k, j)
    /\ UNCHANGED <<proc, inc, exec>> /\ done \subseteq done'

\* The steps of a partitioned job are of this form.
LEMMA PartitionedWires == ASSUME NEW j \in Jobs, PartitionedStep(j) PROVE WireStep(j)
  <1>1. CASE SubmitPartitioned(j) \/ StageTimeout(j) \/ CollectTimeout(j) \/ CollectEnd(j)
    BY <1>1, Zenon DEF SubmitPartitioned, StageTimeout, CollectTimeout, CollectEnd,
                workerVars, wireVars, history, WireStep
  <1>2. CASE OfferInputs(j) \/ StageTcp(j) \/ AssignJobs(j)
    BY <1>2, PairMsg, Zenon DEF OfferInputs, StageTcp, AssignJobs, task0, workerVars, history, WireStep
  <1>3. CASE StageRecv(j)
    BY <1>3, PairMsg, Zenon DEF StageRecv, task0, workerVars, WireStep
  <1>4. CASE LocalExecutor(j)
    BY <1>4, Zenon DEF LocalExecutor, workerVars, wireVars, WireStep
  <1>5. CASE Collect(j)
    BY <1>5, Zenon DEF Collect, workerVars, WireStep
  <1> QED BY <1>1, <1>2, <1>3, <1>4, <1>5, Zenon DEF PartitionedStep

\* So are the steps of a placed job.
LEMMA PlacedWires == ASSUME NEW j \in Jobs, PlacedStep(j) PROVE WireStep(j)
  <1>1. CASE \/ AcceptPlaced(j) \/ PlacedLive(j) \/ ReserveNode(j) \/ QueueTimeout(j)
             \/ PlacedStageTimeout(j) \/ PlacedTimeout(j) \/ ReleaseNode(j)
    BY <1>1, Zenon DEF AcceptPlaced, PlacedLive, ReserveNode, QueueTimeout, PlacedStageTimeout,
                PlacedTimeout, ReleaseNode, workerVars, wireVars, history, WireStep
  <1>2. CASE DispatchLocal(j)
    BY <1>2, Zenon DEF DispatchLocal, workerVars, wireVars, WireStep
  <1>3. CASE DispatchRemote(j)
    BY <1>3, PairMsg, Zenon DEF DispatchRemote, placed, workerVars, history, WireStep
  <1>4. CASE PlacedStaged(j)
    BY <1>4, PairMsg, Zenon DEF PlacedStaged, placed, workerVars, WireStep
  <1>5. CASE PlacedRecv(j)
    BY <1>5, Zenon DEF PlacedRecv, workerVars, WireStep
  <1> QED BY <1>1, <1>2, <1>3, <1>4, <1>5, Zenon DEF PlacedStep

\* And those of a sharded job.
LEMMA ShardedWires == ASSUME NEW j \in Jobs, ShardedStep(j) PROVE WireStep(j)
  <1>1. CASE \/ SubmitSharded(j) \/ FirstWave(j) \/ WaveStageTimeout(j) \/ WaveTimeout(j) \/ WaveEnd(j)
             \/ WindowLaunch(j) \/ WindowTimeout(j) \/ WindowEnd(j) \/ Merge(j)
    BY <1>1, Zenon DEF SubmitSharded, FirstWave, WaveStageTimeout, WaveTimeout, WaveEnd, WindowLaunch,
                WindowTimeout, WindowEnd, Merge, workerVars, wireVars, history, WireStep
  <1>2. CASE WaveAssign(j)
    BY <1>2, PairMsg, Zenon DEF WaveAssign, CurrentTask, workerVars, history, WireStep
  <1>3. CASE WaveStaged(j)
    BY <1>3, PairMsg, Zenon DEF WaveStaged, CurrentTask, workerVars, WireStep
  <1>4. CASE WaveLocal(j)
    <2>1. done \subseteq done'
      BY <1>4, Zenon DEF WaveLocal
    <2> QED BY <1>4, <2>1, Zenon DEF WaveLocal, workerVars, wireVars, WireStep
  <1>5. CASE WindowReap(j)
    <2>1. done \subseteq done'
      BY <1>5, Zenon DEF WindowReap
    <2> QED BY <1>5, <2>1, Zenon DEF WindowReap, workerVars, wireVars, WireStep
  <1>6. CASE WaveRecv(j)
    BY <1>6, Zenon DEF WaveRecv, workerVars, WireStep
  <1> QED BY <1>1, <1>2, <1>3, <1>4, <1>5, <1>6, Zenon DEF ShardedStep

\* Backed results stay backed.
LEMMA BackedGrows ==
    ASSUME NEW m, NEW D, NEW E, D \subseteq E, Backed(m, D) PROVE Backed(m, E)
  BY Zenon DEF Backed

\* Channels to the workers that carry tasks, and channels from them whose
\* results are backed, stay so when a message is added or taken.
LEMMA WorkerWiresStep ==
    ASSUME WorkerWires, DOMAIN toW' = Conns,
           \A c \in Conns : \/ toW'[c] = toW[c] \/ toW'[c] = <<>>
                            \/ toW[c] # <<>> /\ toW'[c] = Tail(toW[c])
                            \/ \E m : PairTask(m) /\ toW'[c] = Append(toW[c], m)
    PROVE  WorkerWires'
  <1>1. ASSUME NEW c \in Conns PROVE AnySeq(toW'[c]) /\ \A i \in DOMAIN toW'[c] : PairTask(toW'[c][i])
    <2>1. AnySeq(toW[c]) /\ \A i \in DOMAIN toW[c] : PairTask(toW[c][i])
      BY Zenon DEF WorkerWires
    <2>2. CASE toW'[c] = toW[c] \/ toW'[c] = <<>>
      BY <2>1, <2>2, EmptyAnySeq, Zenon
    <2>3. CASE toW[c] # <<>> /\ toW'[c] = Tail(toW[c])
      BY <2>1, <2>3, TailAnySeq
    <2>4. ASSUME NEW m, PairTask(m), toW'[c] = Append(toW[c], m)
          PROVE  AnySeq(toW'[c]) /\ \A i \in DOMAIN toW'[c] : PairTask(toW'[c][i])
      BY <2>1, <2>4, AppendAnySeq
    <2> QED BY <2>2, <2>3, <2>4, Zenon
  <1> QED BY <1>1, Zenon DEF WorkerWires, AnySeq, PairTask

\* The same for the channels to the coordinator, as more gets done.
LEMMA CoordWiresStep ==
    ASSUME CoordWires, DOMAIN toC' = Conns, done \subseteq done',
           \A c \in Conns : \/ toC'[c] = toC[c] \/ toC'[c] = <<>>
                            \/ toC[c] # <<>> /\ toC'[c] = Tail(toC[c])
                            \/ \E m : Backed(m, done') /\ toC'[c] = Append(toC[c], m)
    PROVE  CoordWires'
  <1>1. ASSUME NEW c \in Conns
        PROVE  AnySeq(toC'[c]) /\ \A i \in DOMAIN toC'[c] : Backed(toC'[c][i], done')
    <2>1. AnySeq(toC[c]) /\ \A i \in DOMAIN toC[c] : Backed(toC[c][i], done')
      BY BackedGrows DEF CoordWires
    <2>2. CASE toC'[c] = toC[c] \/ toC'[c] = <<>>
      BY <2>1, <2>2, EmptyAnySeq, Zenon
    <2>3. CASE toC[c] # <<>> /\ toC'[c] = Tail(toC[c])
      BY <2>1, <2>3, TailAnySeq
    <2>4. ASSUME NEW m, Backed(m, done'), toC'[c] = Append(toC[c], m)
          PROVE  AnySeq(toC'[c]) /\ \A i \in DOMAIN toC'[c] : Backed(toC'[c][i], done')
      BY <2>1, <2>4, AppendAnySeq
    <2> QED BY <2>2, <2>3, <2>4, Zenon
  <1> QED BY <1>1, Zenon DEF CoordWires, AnySeq, Backed, PairTask

\* So no step of a handler disturbs the wires or the daemons.
LEMMA WireStepWires ==
    ASSUME WorkerWires, CoordWires, Daemons, NEW j, WireStep(j)
    PROVE  WorkerWires' /\ CoordWires' /\ Daemons'
  <1>1. WorkerWires'
    <2>1. CASE toW' = toW
      BY <2>1, WorkerWiresStep, Zenon DEF WorkerWires
    <2>2. ASSUME NEW S, NEW m, PairTask(m), SendAll(S, m) PROVE WorkerWires'
      <3>1. DOMAIN toW' = Conns /\ \A c \in Conns : toW'[c] = Append(toW[c], m) \/ toW'[c] = toW[c]
        BY <2>2, Zenon DEF SendAll
      <3> QED BY <2>2, <3>1, WorkerWiresStep, Zenon
    <2> QED BY <2>1, <2>2, Zenon DEF WireStep
  <1>2. CoordWires'
    <2>1. CASE toC' = toC
      BY <2>1, CoordWiresStep, Zenon DEF CoordWires, WireStep
    <2>2. ASSUME NEW w, NEW k, Take(w, k, j) PROVE CoordWires'
      <3> DEFINE c == <<w, k>>
      <3>1. c \in Conns /\ toC[c] # <<>> /\ toC' = [toC EXCEPT ![c] = Tail(@)]
        BY <2>2, Zenon DEF Take
      <3> HIDE DEF c
      <3>2. DOMAIN toC' = Conns /\ \A d \in Conns : toC'[d] = IF d = c THEN Tail(toC[c]) ELSE toC[d]
        BY <3>1, Zenon DEF CoordWires
      <3> QED BY <3>1, <3>2, CoordWiresStep, Zenon DEF WireStep
    <2> QED BY <2>1, <2>2, Zenon DEF WireStep
  <1>3. Daemons'
    BY Zenon DEF Daemons, WireStep, PairTask, Honest
  <1> QED BY <1>1, <1>2, <1>3, Zenon

\* A worker's own steps on the wires.
LEMMA ReplyWires ==
    ASSUME CoordWires, done \subseteq done', NEW w, NEW m, Backed(m, done'), Reply(w, m)
    PROVE  CoordWires'
  <1> DEFINE c == <<w, inc[w]>>
  <1>1. toC' = [toC EXCEPT ![c] = Append(@, m)]
    BY Zenon DEF Reply
  <1> HIDE DEF c
  <1>2. DOMAIN toC' = Conns /\ \A d \in Conns : toC'[d] = IF d = c THEN Append(toC[c], m) ELSE toC[d]
    BY <1>1, Zenon DEF CoordWires
  <1> QED BY <1>2, CoordWiresStep, Zenon

\* The message a worker reads carries a task.
LEMMA TailWires ==
    ASSUME WorkerWires, NEW c \in Conns, toW[c] # <<>>, DOMAIN toW' = Conns,
           \A d \in Conns : toW'[d] = IF d = c THEN Tail(toW[c]) ELSE toW[d]
    PROVE  WorkerWires' /\ PairTask(Head(toW[c]))
  <1>1. WorkerWires'
    BY WorkerWiresStep, Zenon
  <1>2. PairTask(Head(toW[c]))
    BY TailAnySeq, Zenon DEF WorkerWires
  <1> QED BY <1>1, <1>2, Zenon

\* A step of w that leaves its own executor honest leaves all of them so.
LEMMA DaemonsStep ==
    ASSUME Daemons, done \subseteq done', NEW w \in Workers,
           inc' \in [Workers -> 0 .. MaxInc], DOMAIN proc' = Workers, DOMAIN exec' = Workers,
           \A x \in Workers \ {w} : inc'[x] = inc[x] /\ proc'[x] = proc[x] /\ exec'[x] = exec[x],
           proc'[w] = "down" \/ inc'[w] # 0,
           exec'[w] = exec[w] \/ Honest(exec'[w], w, done')
    PROVE  Daemons'
  <1>1. \A x \in Workers : proc'[x] # "down" => inc'[x] # 0
    BY Zenon DEF Daemons
  <1>2. \A x \in Workers : Honest(exec[x], x, done')
    BY Zenon DEF Daemons, Honest
  <1>3. \A x \in Workers : Honest(exec'[x], x, done')
    BY <1>2, Zenon
  <1> QED BY <1>1, <1>3, Zenon DEF Daemons, Honest, PairTask

\* No executor is an honest one.
LEMMA IdleHonest == \A w, D : Honest(Idle, w, D)
  BY Zenon DEF Honest, Idle

\* Nor does a step of the worker's main loop.
LEMMA WorkerRecvWires ==
    ASSUME WorkerWires, CoordWires, Daemons, NEW w \in Workers, WorkerRecv(w)
    PROVE  WorkerWires' /\ CoordWires' /\ Daemons' /\ done \subseteq done'
  <1> DEFINE c == <<w, inc[w]>>
             m == Head(toW[c])
  <1>1. c \in Conns
    BY AgentAssumption DEF WorkerRecv, Daemons, Conns
  <1>2. toW[c] # <<>> /\ toW' = [toW EXCEPT ![c] = Tail(@)]
    BY Zenon DEF WorkerRecv
  <1>3. WorkerWires' /\ PairTask(m)
    <2> HIDE DEF c
    <2>1. DOMAIN toW' = Conns /\ \A d \in Conns : toW'[d] = IF d = c THEN Tail(toW[c]) ELSE toW[d]
      BY <1>2, Zenon DEF WorkerWires
    <2> QED BY <1>1, <1>2, <2>1, TailWires, Zenon
  <1>4. inc' = inc /\ done' = done
    BY Zenon DEF WorkerRecv
  <1>5. PICK k : Reply(w, Msg(k, m.task)) /\ k # "Done"
    <2>1. AssignJob(w, m) \/ StageFiles(w, m) \/ InputShareOffer(w, m)
      BY Zenon DEF WorkerRecv
    <2>2. \/ Reply(w, Msg("Started", m.task)) \/ Reply(w, Msg("Ack", m.task))
          \/ Reply(w, Msg("Accept", m.task))
      BY <2>1, Zenon DEF AssignJob, StageFiles, InputShareOffer
    <2>3. "Started" # "Done" /\ "Ack" # "Done" /\ "Accept" # "Done"
      BY Zenon
    <2> HIDE DEF m
    <2> QED BY <2>2, <2>3, Zenon
  <1>6. CoordWires'
    <2>1. Backed(Msg(k, m.task), done')
      BY <1>5, Zenon DEF Backed, Msg
    <2> QED BY <1>4, <1>5, <2>1, ReplyWires, Zenon
  <1>7. \/ exec' = [exec EXCEPT ![w] = [task |-> m.task, st |-> "run"]] /\ proc' = proc
        \/ exec' = exec /\ (proc' = proc \/ proc' = [proc EXCEPT ![w] = "share"])
    BY Zenon DEF WorkerRecv, AssignJob, StageFiles, InputShareOffer
  <1>8. Honest([task |-> m.task, st |-> "run"], w, done')
    BY <1>3, Zenon DEF Honest, PairTask
  <1>9. inc[w] # 0
    BY Zenon DEF WorkerRecv, Daemons
  <1>10. Daemons'
    <2> HIDE DEF m
    <2>1. /\ DOMAIN proc' = Workers /\ DOMAIN exec' = Workers /\ inc' \in [Workers -> 0 .. MaxInc]
          /\ \A x \in Workers \ {w} : inc'[x] = inc[x] /\ proc'[x] = proc[x] /\ exec'[x] = exec[x]
          /\ exec'[w] = exec[w] \/ exec'[w] = [task |-> m.task, st |-> "run"]
      BY <1>4, <1>7, Zenon DEF Daemons
    <2> QED BY <1>4, <1>8, <1>9, <2>1, DaemonsStep, Zenon
  <1> QED BY <1>3, <1>4, <1>6, <1>10, Zenon

\* What the other steps of a daemon do.
LEMMA DaemonWires ==
    ASSUME WorkerWires, CoordWires, Daemons, NEW w \in Workers,
           WorkerStep(w) \/ WorkerCrash(w) \/ AcceptReady(w)
    PROVE  WorkerWires' /\ CoordWires' /\ Daemons' /\ done \subseteq done'
  <1>1. CASE WorkerStart(w)
    <2>1. inc[w] < MaxInc /\ inc' = [inc EXCEPT ![w] = @ + 1] /\ proc' = [proc EXCEPT ![w] = "poll"]
      BY <1>1, Zenon DEF WorkerStart
    <2>2. inc'[w] # 0
      BY <2>1, AgentAssumption DEF Daemons
    <2>3. toW' = toW /\ toC' = toC /\ exec' = exec /\ done' = done
      BY <1>1, Zenon DEF WorkerStart, wireVars, history
    <2>4. /\ DOMAIN proc' = Workers /\ DOMAIN exec' = Workers /\ inc' \in [Workers -> 0 .. MaxInc]
          /\ \A x \in Workers \ {w} : inc'[x] = inc[x] /\ proc'[x] = proc[x] /\ exec'[x] = exec[x]
          /\ exec'[w] = exec[w]
      BY <2>1, <2>3, AgentAssumption DEF Daemons
    <2>5. Daemons'
      BY <2>2, <2>3, <2>4, DaemonsStep, Zenon
    <2> QED BY <2>3, <2>5, WorkerWiresStep, CoordWiresStep, Zenon DEF WorkerWires, CoordWires
  <1>2. CASE WorkerRecv(w)
    BY <1>2, WorkerRecvWires, Zenon
  <1>3. CASE ShareRecv(w)
    <2> DEFINE c == <<w, inc[w]>>
               m == Head(toW[c])
    <2>1. c \in Conns /\ inc[w] # 0
      BY <1>3, AgentAssumption DEF ShareRecv, Daemons, Conns
    <2>2. toW[c] # <<>> /\ toW' = [toW EXCEPT ![c] = Tail(@)]
      BY <1>3, Zenon DEF ShareRecv
    <2>3. inc' = inc /\ exec' = exec /\ done' = done
      BY <1>3, Zenon DEF ShareRecv, history
    <2>4. \/ toC' = toC /\ proc' = proc
          \/ Reply(w, Msg("ShareDone", m.task)) /\ proc' = [proc EXCEPT ![w] = "poll"]
      BY <1>3, Zenon DEF ShareRecv
    <2>5. Backed(Msg("ShareDone", m.task), done')
      BY Zenon DEF Backed, Msg
    <2> HIDE DEF m, c
    <2>6. DOMAIN toW' = Conns /\ \A d \in Conns : toW'[d] = IF d = c THEN Tail(toW[c]) ELSE toW[d]
      BY <2>2, Zenon DEF WorkerWires
    <2>7. WorkerWires'
      BY <2>1, <2>2, <2>6, TailWires, Zenon
    <2>8. CoordWires'
      BY <2>3, <2>4, <2>5, ReplyWires, CoordWiresStep, Zenon DEF CoordWires
    <2>9. /\ DOMAIN proc' = Workers /\ DOMAIN exec' = Workers /\ inc' \in [Workers -> 0 .. MaxInc]
          /\ \A x \in Workers \ {w} : inc'[x] = inc[x] /\ proc'[x] = proc[x] /\ exec'[x] = exec[x]
          /\ exec'[w] = exec[w]
      BY <2>3, <2>4, Zenon DEF Daemons
    <2>10. Daemons'
      BY <2>1, <2>3, <2>9, DaemonsStep, Zenon
    <2> QED BY <2>3, <2>7, <2>8, <2>10, Zenon
  <1>4. CASE ShareTimeout(w) \/ WorkerCrash(w)
    <2>1. Exit(w) /\ done' = done
      BY <1>4, Zenon DEF ShareTimeout, WorkerCrash, history
    <2> DEFINE c == <<w, inc[w]>>
    <2>2. /\ proc' = [proc EXCEPT ![w] = "down"] /\ exec' = [exec EXCEPT ![w] = Idle]
          /\ toW' = [toW EXCEPT ![c] = <<>>] /\ inc' = inc /\ toC' = toC
      BY <2>1, Zenon DEF Exit
    <2> HIDE DEF c
    <2>3. DOMAIN toW' = Conns /\ \A d \in Conns : toW'[d] = IF d = c THEN <<>> ELSE toW[d]
      BY <2>2, Zenon DEF WorkerWires
    <2>4. WorkerWires'
      BY <2>3, WorkerWiresStep, Zenon
    <2>5. CoordWires'
      BY <2>1, <2>2, CoordWiresStep, Zenon DEF CoordWires
    <2>6. /\ DOMAIN proc' = Workers /\ DOMAIN exec' = Workers /\ inc' \in [Workers -> 0 .. MaxInc]
          /\ \A x \in Workers \ {w} : inc'[x] = inc[x] /\ proc'[x] = proc[x] /\ exec'[x] = exec[x]
          /\ exec'[w] = Idle /\ proc'[w] = "down"
      BY <2>2, Zenon DEF Daemons
    <2>7. Daemons'
      BY <2>1, <2>6, IdleHonest, DaemonsStep, Zenon
    <2> QED BY <2>1, <2>4, <2>5, <2>7, Zenon
  <1>5. CASE ExecutorExit(w)
    <2>1. toW' = toW /\ toC' = toC /\ proc' = proc /\ inc' = inc /\ exec[w].st = "run"
      BY <1>5, Zenon DEF ExecutorExit, wireVars
    <2>2. Honest(exec[w], w, done) /\ DOMAIN exec = Workers
      BY Zenon DEF Daemons
    <2>3. PICK st \in {"ok", "bad"} :
            /\ exec' = [exec EXCEPT ![w] = [task |-> exec[w].task, st |-> st]]
            /\ done' = IF st = "ok" THEN done \cup {<<exec[w].task, w>>} ELSE done
      BY <1>5, Zenon DEF ExecutorExit
    <2> DEFINE e == [task |-> exec[w].task, st |-> st]
    <2>4. done \subseteq done'
      BY <2>3, Zenon
    <2>5. Honest(e, w, done')
      BY <2>1, <2>2, <2>3, Zenon DEF Honest, PairTask
    <2> HIDE DEF e
    <2>6. DOMAIN exec' = Workers /\ exec'[w] = e /\ \A x \in Workers \ {w} : exec'[x] = exec[x]
      BY <2>2, <2>3, Zenon DEF e
    <2>7. Daemons'
      BY <2>1, <2>4, <2>5, <2>6, DaemonsStep, Zenon DEF Daemons
    <2> QED BY <2>1, <2>4, <2>7, WorkerWiresStep, CoordWiresStep, Zenon DEF WorkerWires, CoordWires
  <1>6. CASE PollExecutor(w)
    <2> DEFINE m == Result(exec[w].task, exec[w].st = "ok")
    <2>1. /\ Reply(w, m) /\ exec' = [exec EXCEPT ![w] = Idle] /\ exec[w].st \in {"ok", "bad"}
          /\ proc' = proc /\ proc[w] # "down" /\ inc' = inc /\ toW' = toW /\ done' = done
      BY <1>6, Zenon DEF PollExecutor, history
    <2>2. Backed(m, done')
      <3>1. m.task = exec[w].task /\ (exec[w].st # "ok" => m.ok = FALSE)
        BY Zenon DEF Result
      <3>2. Honest(exec[w], w, done) /\ w \in Nodes
        BY Zenon DEF Daemons, Nodes
      <3> HIDE DEF m
      <3> QED BY <2>1, <3>1, <3>2, Zenon DEF Backed, Honest, PairTask
    <2> HIDE DEF m
    <2>3. CoordWires'
      BY <2>1, <2>2, ReplyWires, Zenon
    <2>4. /\ DOMAIN proc' = Workers /\ DOMAIN exec' = Workers /\ inc' \in [Workers -> 0 .. MaxInc]
          /\ \A x \in Workers \ {w} : inc'[x] = inc[x] /\ proc'[x] = proc[x] /\ exec'[x] = exec[x]
          /\ exec'[w] = Idle /\ inc[w] # 0
      BY <2>1, Zenon DEF Daemons
    <2>5. Daemons'
      BY <2>1, <2>4, IdleHonest, DaemonsStep, Zenon
    <2> QED BY <2>1, <2>3, <2>5, WorkerWiresStep, Zenon DEF WorkerWires
  <1>7. CASE AcceptReady(w)
    <2>1. UNCHANGED <<toW, toC, proc, inc, exec, done>>
      BY <1>7, Zenon DEF AcceptReady, workerVars, wireVars, history
    <2>2. Daemons'
      BY <2>1, Zenon DEF Daemons, Honest, PairTask
    <2> QED BY <2>1, <2>2, WorkerWiresStep, CoordWiresStep, Zenon DEF WorkerWires, CoordWires
  <1> QED BY <1>1, <1>2, <1>3, <1>4, <1>5, <1>6, <1>7, Zenon DEF WorkerStep

\* The drain empties channels and does nothing else here.
LEMMA DrainWires ==
    ASSUME WorkerWires, CoordWires, Daemons, Drain
    PROVE  WorkerWires' /\ CoordWires' /\ Daemons' /\ done \subseteq done'
  <1>1. UNCHANGED <<toW, proc, inc, exec, done>>
    BY Zenon DEF Drain, workerVars
  <1>2. DOMAIN toC' = Conns /\ \A c \in Conns : toC'[c] = toC[c] \/ toC'[c] = <<>>
    BY Zenon DEF Drain
  <1>3. Daemons'
    BY <1>1, Zenon DEF Daemons, Honest, PairTask
  <1> QED BY <1>1, <1>2, <1>3, WorkerWiresStep, CoordWiresStep, Zenon DEF WorkerWires

\* A step of handler j leaves the books of the others as they are.
LEMMA BooksStep ==
    ASSUME Books, done \subseteq done', kind' = kind, NEW j \in Jobs,
           \A k \in Jobs \ {j} : ph'[k] = ph[k] /\ loc'[k] = loc[k] /\ answer'[k] = answer[k],
           Book(j, kind[j], ph'[j], loc'[j], answer'[j], done')
    PROVE  Books'
  <1>1. \A k \in Jobs : Book(k, kind[k], ph[k], loc[k], answer[k], done')
    BY Zenon DEF Books, Book, ShardDone
  <1>2. \A k \in Jobs : Book(k, kind[k], ph'[k], loc'[k], answer'[k], done')
    BY <1>1, Zenon
  <1> QED BY <1>2, Zenon DEF Books, Book, ShardDone, ShardIds, Nodes

\* A partitioned job is not in the books.
LEMMA PartitionedBooks ==
    ASSUME Tables, Books, done \subseteq done', NEW j \in Jobs, PartitionedStep(j) PROVE Books'
  <1>1. Apart(j)
    BY PartitionedApart, Zenon
  <1>2. kind[j] \notin ShardedKinds \cup {"absent"}
    BY Zenon DEF PartitionedStep, SubmitPartitioned, OfferInputs, StageTcp, StageRecv, StageTimeout,
           AssignJobs, LocalExecutor, Collect, CollectTimeout, CollectEnd, Awaited,
           Books, Book, ShardedKinds, ShardedPhases
  <1>3. Book(j, kind[j], ph'[j], loc'[j], answer'[j], done')
    BY <1>2, Zenon DEF Book
  <1> QED BY <1>1, <1>3, BooksStep, Zenon DEF Apart

\* Neither is a placed job.
LEMMA PlacedBooks ==
    ASSUME Tables, Books, done \subseteq done', NEW j \in Jobs, PlacedStep(j) PROVE Books'
  <1>1. kind[j] \notin ShardedKinds \cup {"absent"}
    BY Zenon DEF PlacedStep, AcceptPlaced, PlacedLive, ReserveNode, QueueTimeout, DispatchLocal, DispatchRemote,
           PlacedStaged, PlacedStageTimeout, PlacedRecv, PlacedTimeout, ReleaseNode,
           Books, Book, ShardedKinds, ShardedPhases
  <1>2. kind' = kind
    BY Zenon DEF PlacedStep, AcceptPlaced, PlacedLive, ReserveNode, QueueTimeout, DispatchLocal, DispatchRemote,
           PlacedStaged, PlacedStageTimeout, PlacedRecv, PlacedTimeout, ReleaseNode
  <1>3. \A k \in Jobs \ {j} : ph'[k] = ph[k] /\ answer'[k] = answer[k]
    BY Zenon DEF PlacedStep, AcceptPlaced, PlacedLive, ReserveNode, QueueTimeout, DispatchLocal, DispatchRemote,
           PlacedStaged, PlacedStageTimeout, PlacedRecv, PlacedTimeout, ReleaseNode, Goto, Answer, Tables
  <1>4. \A k \in Jobs \ {j} : loc'[k] = loc[k]
    BY Zenon DEF PlacedStep, AcceptPlaced, PlacedLive, ReserveNode, QueueTimeout, DispatchLocal, DispatchRemote,
           PlacedStaged, PlacedStageTimeout, PlacedRecv, PlacedTimeout, ReleaseNode, Tables
  <1>5. Book(j, kind[j], ph'[j], loc'[j], answer'[j], done')
    BY <1>1 DEF Book
  <1> QED BY <1>2, <1>3, <1>4, <1>5, BooksStep, Zenon

\* The handler of a sharded job books a shard when its own executor has ended
\* well, or when a worker's result says so, which is backed.
LEMMA ShardedBooks ==
    ASSUME Tables, CoordWires, Books, done \subseteq done', NEW j \in Jobs, ShardedStep(j) PROVE Books'
  <1> DEFINE Kept == /\ ph'[j] \in ShardedPhases /\ loc'[j].expected = loc[j].expected
                     /\ loc'[j].partial = loc[j].partial
                     /\ answer'[j] # "ok" \/ answer'[j] = answer[j]
             Booked(D) == \A i \in loc'[j].partial : i \in loc[j].partial \/ ShardDone(j, i, D)
  <1>1. Apart(j)
    BY ShardedApart, Zenon
  <1>2. kind[j] # "absent"
    BY Zenon DEF ShardedStep, SubmitSharded, FirstWave, WaveAssign, WaveStaged, WaveStageTimeout, WaveLocal,
           WaveRecv, WaveTimeout, WaveEnd, WindowLaunch, WindowReap, WindowTimeout, WindowEnd, Merge,
           Books, Book, ShardedKinds
  <1>3. SUFFICES ASSUME kind[j] \in ShardedKinds
                 PROVE  Book(j, kind[j], ph'[j], loc'[j], answer'[j], done')
    BY <1>1, <1>2, BooksStep, Zenon DEF Apart, Book
  <1>4. /\ ph[j] \in ShardedPhases /\ loc[j].expected = {}
        /\ \A i \in loc[j].partial : ShardDone(j, i, done')
        /\ answer[j] = "ok" => \A i \in ShardIds : ShardDone(j, i, done')
    BY <1>3, Zenon DEF Books, Book, ShardDone
  <1>5. ASSUME Kept PROVE Book(j, kind[j], ph'[j], loc'[j], answer'[j], done')
    BY <1>2, <1>4, <1>5, Zenon DEF Book
  <1>6. ASSUME ph' = ph, answer' = answer, loc'[j].expected = loc[j].expected, Booked(done')
        PROVE  Book(j, kind[j], ph'[j], loc'[j], answer'[j], done')
    BY <1>2, <1>4, <1>6, Zenon DEF Book
  <1>7. CASE SubmitSharded(j)
    BY <1>5, <1>7, Zenon DEF SubmitSharded, Answer, Tables, ShardedPhases
  <1>8. CASE FirstWave(j) \/ WaveEnd(j)
    <2>1. Kept
      BY <1>8 DEF FirstWave, WaveEnd, Goto, Tables, ShardedPhases, NoLocals
    <2> QED BY <1>5, <2>1, Zenon
  <1>9. CASE WaveAssign(j)
    <2>1. Kept
      BY <1>4, <1>9 DEF WaveAssign, Goto, Tables, ShardedPhases, NoLocals
    <2> QED BY <1>5, <2>1
  <1>10. CASE WaveStaged(j)
    <2>1. Kept
      BY <1>4, <1>10 DEF WaveStaged, Goto, Tables, ShardedPhases, NoLocals
    <2> QED BY <1>5, <2>1
  <1>11. CASE WaveStageTimeout(j) \/ WindowEnd(j)
    BY <1>5, <1>11, Zenon DEF WaveStageTimeout, WindowEnd, Answer, Goto, Tables, ShardedPhases
  <1>12. CASE WaveTimeout(j) \/ WindowLaunch(j)
    <2>1. Kept
      BY <1>4, <1>12 DEF WaveTimeout, WindowLaunch, Tables, NoLocals
    <2> QED BY <1>5, <2>1
  <1>13. CASE WindowTimeout(j)
    <2>1. Kept
      BY <1>13, Zenon DEF WindowTimeout, Goto, Tables, ShardedPhases, NoLocals
    <2> QED BY <1>5, <2>1
  <1>14. CASE WaveLocal(j)
    <2>1. ph' = ph /\ answer' = answer /\ loc'[j].expected = loc[j].expected
      BY <1>14 DEF WaveLocal, Tables, NoLocals
    <2>2. \/ loc'[j].partial = loc[j].partial
          \/ /\ loc'[j].partial = loc[j].partial \cup {loc[j].next}
             /\ <<<<j, loc[j].next>>, Coord>> \in done'
      BY <1>14 DEF WaveLocal, Tables, NoLocals
    <2>3. Booked(done')
      BY <2>2, Zenon DEF ShardDone, Nodes
    <2> QED BY <1>6, <2>1, <2>3, Zenon
  <1>15. CASE WindowReap(j)
    <2>1. ph' = ph /\ answer' = answer /\ loc'[j].expected = loc[j].expected
      BY <1>15 DEF WindowReap, Tables, NoLocals
    <2>2. \/ loc'[j].partial = loc[j].partial
          \/ \E i \in loc[j].run : /\ loc'[j].partial = loc[j].partial \cup {i}
                                   /\ <<<<j, i>>, Coord>> \in done'
      BY <1>15 DEF WindowReap, Tables, NoLocals
    <2>3. Booked(done')
      BY <2>2, Zenon DEF ShardDone, Nodes
    <2> QED BY <1>6, <2>1, <2>3
  <1>16. CASE WaveRecv(j)
    <2>1. PICK w \in loc[j].wait :
            /\ Take(w, conn[w], j)
            /\ LET m == Head(toC[<<w, conn[w]>>])
               IN  loc' = IF m.kind # "Done" THEN loc
                          ELSE [loc EXCEPT
                                ![j].wait = @ \ {w}, ![j].good = @ /\ m.ok,
                                ![j].partial = IF m.ok /\ m.task[1] = j
                                               THEN @ \cup {m.task[2]} ELSE @]
      BY <1>16, Zenon DEF WaveRecv
    <2> DEFINE c == <<w, conn[w]>>
               m == Head(toC[c])
    <2>2. ph' = ph /\ answer' = answer /\ done' = done
      BY <1>16, Zenon DEF WaveRecv
    <2>3. c \in Conns /\ toC[c] # <<>>
      BY <2>1, Zenon DEF Take
    <2>4. Backed(m, done')
      <3> HIDE DEF c
      <3> QED BY <2>2, <2>3, TailAnySeq, Zenon DEF CoordWires
    <2>5. loc'[j].expected = loc[j].expected
      BY <2>1, Zenon DEF Tables, NoLocals
    <2>6. \/ loc'[j].partial = loc[j].partial
          \/ /\ loc'[j].partial = loc[j].partial \cup {m.task[2]}
             /\ m.kind = "Done" /\ m.ok /\ m.task[1] = j
      BY <2>1, Zenon DEF Tables, NoLocals
    <2> HIDE DEF m
    <2>7. Booked(done')
      BY <2>4, <2>6, Zenon DEF Backed, PairTask, ShardDone
    <2> QED BY <1>6, <2>2, <2>5, <2>7, Zenon
  <1>17. CASE Merge(j)
    <2>1. ph'[j] = "end" /\ loc' = loc /\ answer'[j] = Verdict(loc[j].good /\ loc[j].partial = ShardIds)
      BY <1>17, Zenon DEF Merge, Answer, Tables
    <2>2. answer'[j] = "ok" => loc[j].partial = ShardIds
      BY <2>1, Zenon DEF Verdict
    <2> QED BY <1>2, <1>4, <2>1, <2>2, Zenon DEF Book, ShardedPhases
  <1> QED
    BY <1>7, <1>8, <1>9, <1>10, <1>11, <1>12, <1>13, <1>14, <1>15, <1>16, <1>17, Zenon DEF ShardedStep

\* The inductive invariant of the sharded jobs.
ShardedInv == Tables /\ ReservedExactly /\ WorkerWires /\ CoordWires /\ Daemons /\ Books

\* At the start nothing is sent, run or booked.
LEMMA ShardedInit == ASSUME Init PROVE WorkerWires /\ CoordWires /\ Daemons /\ Books
  <1>1. WorkerWires /\ CoordWires
    BY EmptyAnySeq, Zenon DEF Init, WorkerWires, CoordWires
  <1>2. Daemons
    BY IdleHonest, AgentAssumption DEF Init, Daemons
  <1>3. \A j \in Jobs : ph[j] = "new" /\ answer[j] = "none" /\ loc[j] = NoLocals
    BY Zenon DEF Init
  <1>4. Books
    BY <1>3 DEF Books, Book, NoLocals, ShardedPhases
  <1> QED BY <1>1, <1>2, <1>4, Zenon

\* Every step of every daemon and handler preserves the invariant.
LEMMA ShardedInvStep == ASSUME ShardedInv, [Next]_vars PROVE ShardedInv'
  <1> USE DEF ShardedInv
  <1>1. Tables' /\ ReservedExactly'
    BY ReservationsStep, Zenon
  <1>2. ASSUME Aside, done \subseteq done' PROVE Books'
    <2>1. \A k \in Jobs : Book(k, kind'[k], ph'[k], loc'[k], answer'[k], done')
      BY <1>2, Zenon DEF Aside, Books, Book, ShardDone
    <2> QED BY <2>1, Zenon DEF Books, Book, ShardDone, ShardIds, Nodes
  <1>3. ASSUME NEW w \in Workers, WorkerStep(w) \/ WorkerCrash(w) \/ AcceptReady(w) PROVE ShardedInv'
    BY <1>1, <1>2, <1>3, DaemonsAside, DaemonWires, Zenon
  <1>4. CASE Drain
    BY <1>1, <1>2, <1>4, DrainAside, DrainWires, Zenon
  <1>5. ASSUME NEW j \in Jobs, JobStep(j) PROVE ShardedInv'
    <2>1. WireStep(j)
      BY <1>5, PartitionedWires, PlacedWires, ShardedWires, Zenon DEF JobStep
    <2>2. WorkerWires' /\ CoordWires' /\ Daemons'
      BY <2>1, WireStepWires, Zenon
    <2>3. Books'
      BY <1>5, <2>1, PartitionedBooks, PlacedBooks, ShardedBooks, Zenon DEF JobStep, WireStep
    <2> QED BY <1>1, <2>2, <2>3, Zenon
  <1>6. CASE UNCHANGED vars
    <2>1. UNCHANGED <<kind, proc, inc, exec, toW, toC, reserved, ph, loc, answer, done>>
      BY <1>6, Zenon DEF vars, workerVars, wireVars, coordVars, jobVars, history
    <2>2. Books'
      BY <1>2, <2>1, Zenon DEF Aside
    <2>3. WorkerWires' /\ CoordWires' /\ Daemons'
      BY <2>1, WireStepWires, Zenon DEF WireStep
    <2> QED BY <1>1, <2>2, <2>3, Zenon
  <1> QED BY <1>3, <1>4, <1>5, <1>6, Zenon DEF Next

\* A sharded job is reported successful only when an executor of every shard
\* has succeeded: with any number of workers, shards and jobs of all kinds, in
\* any interleaving, with any crashes and restarts (run_wave, run_shards_local
\* and the merge in handle_sharded_submit).
THEOREM ShardedSuccess ==
    Spec => [](\A j \in Jobs : kind[j] \in ShardedKinds /\ answer[j] = "ok" => Earned(j))
  <1>1. Init => ShardedInv
    BY ShardedInit, ReservationsInit, Zenon DEF ShardedInv
  <1>2. ShardedInv /\ [Next]_vars => ShardedInv'
    BY ShardedInvStep, Zenon
  <1>3. ShardedInv => \A j \in Jobs : kind[j] \in ShardedKinds /\ answer[j] = "ok" => Earned(j)
    BY Zenon DEF ShardedInv, Books, Book, ShardDone, Earned, Owed, ShardedKinds
  <1> QED BY <1>1, <1>2, <1>3, PTL DEF Spec

\* The kind of a job does not change.
LEMMA KindFixed == ASSUME ShardedInv, [Next]_vars PROVE kind' = kind
  <1>1. ASSUME NEW j \in Jobs, PlacedStep(j) PROVE kind' = kind
    BY <1>1, Zenon DEF PlacedStep, AcceptPlaced, PlacedLive, ReserveNode, QueueTimeout, DispatchLocal,
                DispatchRemote, PlacedStaged, PlacedStageTimeout, PlacedRecv, PlacedTimeout, ReleaseNode
  <1>2. ASSUME NEW j \in Jobs, JobStep(j) PROVE kind' = kind
    BY <1>1, <1>2, PartitionedApart, ShardedApart, Zenon DEF JobStep, Apart, ShardedInv
  <1>3. CASE UNCHANGED vars
    BY <1>3, Zenon DEF vars
  <1> QED BY <1>2, <1>3, DaemonsAside, DrainAside, Zenon DEF Next, Aside

\* Where all submissions are divide-and-merge jobs, no job at all is reported
\* successful that is not: the whole of NoFalseSuccess, for any number of
\* workers, shards, jobs and crashes.
THEOREM ShardedNoFalseSuccess ==
    ASSUME \A s \in Scenes : \A j \in Jobs : s.kinds[j] \in ShardedKinds \cup {"absent"}
    PROVE  Spec => []NoFalseSuccess
  <1> DEFINE Only == \A j \in Jobs : kind[j] \in ShardedKinds \cup {"absent"}
  <1>1. Init => ShardedInv /\ Only
    <2>1. Init => Only
      BY Zenon DEF Init
    <2> QED BY <2>1, ShardedInit, ReservationsInit, Zenon DEF ShardedInv
  <1>2. ShardedInv /\ Only /\ [Next]_vars => (ShardedInv /\ Only)'
    BY ShardedInvStep, KindFixed, Zenon
  <1>3. ShardedInv /\ Only => NoFalseSuccess
    BY Zenon DEF ShardedInv, Books, Book, ShardDone, Earned, Owed, ShardedKinds, NoFalseSuccess
  <1> QED BY <1>1, <1>2, <1>3, PTL DEF Spec

-----------------------------------------------------------------------------
(* Placed jobs                                                             *)

\* Only placed jobs are submitted.
PlacedOnly == \A s \in Scenes : \A j \in Jobs : s.kinds[j] \in {"placed", "absent"}

PlacedPhases == {"new", "thread", "queue", "dispatch", "placing", "await", "release", "end"}

\* What is at the worker's end of connection c: its executor, its files.
Ex(c) == IF inc[c[1]] = c[2] THEN exec[c[1]] ELSE Idle
Live(c) == proc[c[1]] # "down" /\ inc[c[1]] = c[2]
Filed(c, t) == Live(c) => t \in staged[c[1]]

\* The handler of j talks over connection c.
Uses(j, c) ==
    /\ loc[j].node = c[1]
    /\ \/ ph[j] = "placing" /\ conn[c[1]] = c[2]
       \/ ph[j] = "await" /\ loc[j].link = c[2]

\* One request and its answers: W and C are on their way to the worker and
\* back, e is the executor, t the task, f says that its files are there and d
\* that it has been done.
Exchange(p, t, W, C, e, f, d) ==
    \/ p = "placing" /\ e = Idle
         /\ \/ W = <<Msg("Stage", t)>> /\ C = <<>>
            \/ W = <<>> /\ C = <<Msg("Ack", t)>> /\ f
    \/ p = "await"
         /\ \/ W = <<Msg("Assign", t)>> /\ C = <<>> /\ e = Idle /\ f
            \/ W = <<>> /\ C \in {<<>>, <<Msg("Started", t)>>}
                 /\ \E st \in {"run", "ok", "bad"} : e = [task |-> t, st |-> st] /\ (st = "ok" => d)
            \/ W = <<>> /\ e = Idle
                 /\ \/ C = <<Msg("Started", t)>>
                    \/ \E b \in BOOLEAN : /\ b => d
                                          /\ C \in {<<Result(t, b)>>, <<Msg("Started", t), Result(t, b)>>}

Quiet(c) == toW[c] = <<>> /\ toC[c] = <<>> /\ Ex(c) = Idle

\* Whatever is on a connection belongs to the one job that uses it.
Owned(c) ==
    \/ Quiet(c)
    \/ \E j \in Jobs : /\ Uses(j, c)
                       /\ Exchange(ph[j], placed(j), toW[c], toC[c], Ex(c),
                                   Filed(c, placed(j)), <<placed(j), c[1]>> \in done)

PlacedTables ==
    /\ \A j \in Jobs : /\ kind[j] \in {"placed", "absent"} /\ ph[j] \in PlacedPhases
                       /\ ph[j] # "new" => kind[j] = "placed"
    /\ \A j \in Jobs : ph[j] = "placing" => lock = j
    /\ cur = None

WorkerTables ==
    /\ inc \in [Workers -> 0 .. MaxInc] /\ conn \in [Workers -> 0 .. MaxInc]
    /\ DOMAIN proc = Workers /\ DOMAIN exec = Workers /\ DOMAIN staged = Workers
    /\ DOMAIN toW = Conns /\ DOMAIN toC = Conns
    /\ \A w \in Workers : /\ proc[w] \in {"down", "poll"} /\ conn[w] <= inc[w]
                          /\ proc[w] = "down" => exec[w] = Idle
                          /\ proc[w] # "down" => inc[w] # 0

\* Nothing is on its way to a worker that is gone; a link is a connection
\* that was made.
Dead == \A c \in Conns : ~ Live(c) => toW[c] = <<>>

Linked ==
    \A j \in Jobs : \A w \in Workers :
        loc[j].node = w /\ ph[j] = "await" => loc[j].link \in Nat /\ loc[j].link <= inc[w]

\* A job that is about to report success, or has, was done by its node.
Verdicts ==
    \A j \in Jobs :
        /\ answer[j] = "ok" => ph[j] = "end"
        /\ \/ ph[j] = "release" /\ loc[j].good
           \/ answer[j] = "ok"
           => <<placed(j), loc[j].node>> \in done

PlacedRest ==
    /\ PlacedTables /\ WorkerTables /\ Dead /\ Linked /\ Verdicts
    /\ \A c \in Conns : Owned(c)
    /\ misread = {} /\ blind = {}

PlacedInv == Tables /\ ReservedExactly /\ PlacedRest

\* No executor that still runs loses its handle.
Kept ==
    \A w \in Workers : exec[w].st # "none" => exec'[w].task = exec[w].task \/ exec'[w] = Idle

\* A worker reads the one request of the exchange.
LEMMA RequestRead ==
    ASSUME NEW p, NEW t, NEW W, NEW C, NEW e, NEW f, NEW d,
           Exchange(p, t, W, C, e, f, d), W # <<>>
    PROVE  /\ C = <<>> /\ e = Idle /\ Tail(W) = <<>>
           /\ \/ p = "placing" /\ Head(W) = Msg("Stage", t)
              \/ p = "await" /\ Head(W) = Msg("Assign", t) /\ f
  <1>1. \A m : Head(<<m>>) = m /\ Tail(<<m>>) = <<>>
    OBVIOUS
  <1> QED BY <1>1, Zenon DEF Exchange

\* The coordinator reads the acknowledgement.
LEMMA AckRead ==
    ASSUME NEW t, NEW W, NEW C, NEW e, NEW f, NEW d,
           Exchange("placing", t, W, C, e, f, d), C # <<>>
    PROVE  Head(C) = Msg("Ack", t) /\ Tail(C) = <<>> /\ W = <<>> /\ e = Idle /\ f
  <1>1. \A m : Head(<<m>>) = m /\ Tail(<<m>>) = <<>>
    OBVIOUS
  <1>2. W = <<>> /\ C = <<Msg("Ack", t)>> /\ f /\ e = Idle
    BY Zenon DEF Exchange
  <1> QED BY <1>1, <1>2, Zenon

\* Only the result is left, and it tells what x in D tells.
Closing(t, C, e, x, D) ==
    \E b \in BOOLEAN : Head(C) = Result(t, b) /\ (b => x \in D) /\ Tail(C) = <<>> /\ e = Idle

\* The thread of the job reads JobStarted or the result, which is the last
\* of the exchange.
LEMMA ResultRead ==
    ASSUME NEW t, NEW W, NEW C, NEW e, NEW f, NEW x, NEW D,
           Exchange("await", t, W, C, e, f, x \in D), C # <<>>
    PROVE  /\ W = <<>>
           /\ \/ /\ Head(C) = Msg("Started", t)
                 /\ \/ Exchange("await", t, W, Tail(C), e, f, x \in D)
                    \/ Tail(C) = <<>> /\ e = Idle
              \/ Closing(t, C, e, x, D)
  <1>0. W = <<>>
    BY Zenon DEF Exchange
  <1>1. CASE C = <<Msg("Started", t)>>
    <2>1. Head(C) = Msg("Started", t) /\ Tail(C) = <<>>
      BY <1>1
    <2>2. CASE e = Idle
      BY <1>0, <2>1, <2>2, Zenon
    <2>3. CASE e # Idle
      <3>1. \E st \in {"run", "ok", "bad"} : e = [task |-> t, st |-> st] /\ (st = "ok" => x \in D)
        BY <1>1, <2>3, Zenon DEF Exchange
      <3> QED BY <1>0, <2>1, <3>1, Zenon DEF Exchange
    <2> QED BY <2>2, <2>3, Zenon
  <1>2. ASSUME NEW b \in BOOLEAN, b => x \in D, e = Idle, C = <<Result(t, b)>>
        PROVE  Head(C) = Result(t, b) /\ Tail(C) = <<>>
    BY <1>2
  <1>3. ASSUME NEW b \in BOOLEAN, b => x \in D, e = Idle, C = <<Msg("Started", t), Result(t, b)>>
        PROVE  Head(C) = Msg("Started", t) /\ Exchange("await", t, W, Tail(C), e, f, x \in D)
    <2>1. Head(C) = Msg("Started", t) /\ Tail(C) = <<Result(t, b)>>
      BY <1>3
    <2> QED BY <1>0, <1>3, <2>1, Zenon DEF Exchange
  <1>4. \/ C = <<Msg("Started", t)>>
        \/ e = Idle /\ \E b \in BOOLEAN : (b => x \in D) /\ C = <<Result(t, b)>>
        \/ e = Idle /\ \E b \in BOOLEAN : (b => x \in D) /\ C = <<Msg("Started", t), Result(t, b)>>
    BY Zenon DEF Exchange
  <1> QED BY <1>0, <1>1, <1>2, <1>3, <1>4, Zenon DEF Closing

\* While an executor runs, only JobStarted is on its way.
LEMMA Executing ==
    ASSUME NEW p, NEW t, NEW W, NEW C, NEW e, NEW f, NEW d,
           Exchange(p, t, W, C, e, f, d), e # Idle
    PROVE  /\ p = "await" /\ W = <<>> /\ C \in {<<>>, <<Msg("Started", t)>>}
           /\ \E st \in {"run", "ok", "bad"} : e = [task |-> t, st |-> st] /\ (st = "ok" => d)
  BY Zenon DEF Exchange

\* An executor that exited with success has done the task.
LEMMA ExecutedWell ==
    ASSUME NEW p, NEW t, NEW W, NEW C, NEW e, NEW f, NEW x, NEW D,
           Exchange(p, t, W, C, e, f, x \in D), e # Idle, e.st = "ok"
    PROVE  x \in D
  <1>1. PICK st \in {"run", "ok", "bad"} : e = [task |-> t, st |-> st] /\ (st = "ok" => x \in D)
    BY Zenon DEF Exchange
  <1> QED BY <1>1, Zenon

\* A connection is a worker and a number.
LEMMA ConnPair ==
    ASSUME NEW c \in Conns
    PROVE  c = <<c[1], c[2]>> /\ c[1] \in Workers /\ c[2] \in 1 .. MaxInc
  BY DEF Conns

\* At most one job uses a connection.
LEMMA OneUser ==
    ASSUME ReservedExactly, NEW c, NEW j \in Jobs, NEW k \in Jobs, Uses(j, c), Uses(k, c)
    PROVE  j = k
  BY Zenon DEF ReservedExactly, Holders, Holding, Uses

\* What a job that uses a connection knows of it.
LEMMA UserKnows ==
    ASSUME ReservedExactly, NEW c, Owned(c), NEW j \in Jobs, Uses(j, c)
    PROVE  \/ Quiet(c)
           \/ Exchange(ph[j], placed(j), toW[c], toC[c], Ex(c),
                       Filed(c, placed(j)), <<placed(j), c[1]>> \in done)
  <1>1. CASE Quiet(c)
    BY <1>1, Zenon
  <1>2. CASE ~ Quiet(c)
    <2>1. PICK k \in Jobs :
            /\ Uses(k, c)
            /\ Exchange(ph[k], placed(k), toW[c], toC[c], Ex(c),
                        Filed(c, placed(k)), <<placed(k), c[1]>> \in done)
      BY <1>2, Zenon DEF Owned
    <2>2. k = j
      BY <2>1, OneUser, Zenon
    <2> QED BY <2>1, <2>2, Zenon
  <1> QED BY <1>1, <1>2, Zenon

\* A connection that a step leaves alone stays with its job.
LEMMA OwnedStays ==
    ASSUME NEW c \in Conns, Owned(c), toW'[c] = toW[c], toC'[c] = toC[c], (Ex(c))' = Ex(c),
           \A j \in Jobs : Uses(j, c) => (Uses(j, c))' /\ ph'[j] = ph[j],
           \A t : Filed(c, t) => (Filed(c, t))', done \subseteq done'
    PROVE  (Owned(c))'
  <1>1. CASE Quiet(c)
    BY <1>1, Zenon DEF Owned, Quiet
  <1>2. CASE ~ Quiet(c)
    <2>1. PICK j \in Jobs :
            /\ Uses(j, c)
            /\ Exchange(ph[j], placed(j), toW[c], toC[c], Ex(c),
                        Filed(c, placed(j)), <<placed(j), c[1]>> \in done)
      BY <1>2, Zenon DEF Owned
    <2>2. Filed(c, placed(j)) => (Filed(c, placed(j)))'
      BY Zenon
    <2>3. <<placed(j), c[1]>> \in done => <<placed(j), c[1]>> \in done'
      BY Zenon
    <2>4. Exchange(ph[j], placed(j), toW[c], toC[c], Ex(c),
                   (Filed(c, placed(j)))', <<placed(j), c[1]>> \in done')
      BY <2>1, <2>2, <2>3, Zenon DEF Exchange
    <2>5. Exchange(ph'[j], placed(j), toW'[c], toC'[c], (Ex(c))',
                   (Filed(c, placed(j)))', <<placed(j), c[1]>> \in done')
      BY <2>1, <2>4, Zenon
    <2> QED BY <2>1, <2>5, Zenon DEF Owned
  <1> QED BY <1>1, <1>2, Zenon

\* A step of the daemon of w on its own connection, which leaves the tables
\* of the coordinator alone and keeps the tables of the workers.
Own(w) == <<w, inc[w]>>

OwnStep(w) ==
    /\ Aside /\ conn' = conn /\ lock' = lock /\ cur' = cur /\ inc' = inc
    /\ misread' = misread /\ done \subseteq done'
    /\ DOMAIN proc' = Workers /\ DOMAIN exec' = Workers /\ DOMAIN staged' = Workers
    /\ DOMAIN toW' = Conns /\ DOMAIN toC' = Conns
    /\ \A v \in Workers \ {w} : proc'[v] = proc[v] /\ exec'[v] = exec[v] /\ staged'[v] = staged[v]
    /\ \A c \in Conns \ {Own(w)} : toW'[c] = toW[c] /\ toC'[c] = toC[c]
    /\ proc[w] # "down" /\ proc'[w] \in {"down", "poll"}
    /\ proc'[w] = "down" => exec'[w] = Idle /\ toW'[Own(w)] = <<>>

\* The connection of a daemon that runs.
LEMMA OwnConn ==
    ASSUME WorkerTables, NEW w \in Workers, proc[w] # "down"
    PROVE  Own(w) \in Conns /\ Own(w)[1] = w /\ Own(w)[2] = inc[w]
  BY AgentAssumption DEF WorkerTables, Own, Conns

\* Such a step concerns that connection only.
LEMMA OwnStepRest ==
    ASSUME PlacedInv, NEW w \in Workers, OwnStep(w), blind' = {},
           NEW o, o = Own(w), (Owned(o))'
    PROVE  PlacedRest'
  <1> USE DEF PlacedInv, PlacedRest
  <1>1. PlacedTables'
    BY Zenon DEF PlacedTables, OwnStep, Aside
  <1>2. WorkerTables'
    <2>1. \A v \in Workers : /\ proc'[v] \in {"down", "poll"}
                             /\ proc'[v] = "down" => exec'[v] = Idle
                             /\ proc'[v] # "down" => inc[v] # 0
      BY Zenon DEF WorkerTables, OwnStep
    <2> QED BY <2>1, Zenon DEF WorkerTables, OwnStep
  <1>3. Linked'
    BY Zenon DEF Linked, OwnStep, Aside
  <1>4. Verdicts'
    BY Zenon DEF Verdicts, OwnStep, Aside
  <1>5. Own(w) \in Conns /\ Own(w)[1] = w /\ Own(w)[2] = inc[w]
    BY OwnConn, Zenon DEF OwnStep
  <1>6. ASSUME NEW c \in Conns, c # Own(w)
        PROVE  /\ (Ex(c))' = Ex(c) /\ \A t : (Filed(c, t))' <=> Filed(c, t)
               /\ (Live(c))' <=> Live(c)
    <2>1. c[1] # w \/ c[2] # inc[w]
      BY <1>6, ConnPair, Zenon DEF Own
    <2>2. c[1] \in Workers
      BY ConnPair, Zenon
    <2>3. CASE c[1] # w
      BY <2>2, <2>3, Zenon DEF OwnStep, Ex, Filed, Live
    <2>4. CASE c[1] = w /\ c[2] # inc[w]
      BY <2>4, Zenon DEF OwnStep, Ex, Filed, Live
    <2> QED BY <2>1, <2>3, <2>4, Zenon
  <1>7. ASSUME NEW c \in Conns, c # Own(w) PROVE (Owned(c))'
    <2>1. toW'[c] = toW[c] /\ toC'[c] = toC[c] /\ done \subseteq done'
      BY <1>7, Zenon DEF OwnStep
    <2>2. \A j \in Jobs : Uses(j, c) => (Uses(j, c))' /\ ph'[j] = ph[j]
      BY Zenon DEF OwnStep, Aside, Uses
    <2> QED BY <1>6, <1>7, <2>1, <2>2, OwnedStays, Zenon
  <1>8. Dead'
    <2>1. ASSUME NEW c \in Conns, ~ (Live(c))' PROVE toW'[c] = <<>>
      <3>1. CASE c = Own(w)
        BY <1>5, <2>1, <3>1, Zenon DEF OwnStep, Live
      <3>2. CASE c # Own(w)
        BY <1>6, <2>1, <3>2, Zenon DEF OwnStep, Dead
      <3> QED BY <3>1, <3>2, Zenon
    <2> QED BY <2>1, Zenon DEF Dead
  <1> QED
    BY <1>1, <1>2, <1>3, <1>4, <1>7, <1>8, Zenon DEF OwnStep

\* The connection of w is its job's after a step that leaves the jobs alone
\* and keeps up the exchange.
LEMMA OwnOwned ==
    ASSUME NEW w \in Workers, OwnStep(w), NEW j \in Jobs,
           NEW c, c[1] = w, c[2] = inc[w], Uses(j, c),
           Exchange(ph[j], placed(j), toW'[c], toC'[c], exec'[w],
                    (Filed(c, placed(j)))', <<placed(j), w>> \in done')
    PROVE  (Owned(c))'
  <1>1. (Uses(j, c))' /\ ph'[j] = ph[j]
    BY Zenon DEF OwnStep, Aside, Uses
  <1>2. (Ex(c))' = exec'[w]
    BY Zenon DEF OwnStep, Ex
  <1>3. Exchange(ph'[j], placed(j), toW'[c], toC'[c], (Ex(c))',
                 (Filed(c, placed(j)))', <<placed(j), c[1]>> \in done')
    BY <1>1, <1>2, Zenon
  <1> QED BY <1>1, <1>3, Zenon DEF Owned

\* What is on the connection of a daemon that runs.
LEMMA OwnJob ==
    ASSUME PlacedInv, NEW w \in Workers, proc[w] # "down", NEW c, c = Own(w)
    PROVE  /\ c \in Conns /\ c[1] = w /\ c[2] = inc[w]
           /\ \/ toW[c] = <<>> /\ toC[c] = <<>> /\ exec[w] = Idle
              \/ \E j \in Jobs :
                    /\ Uses(j, c)
                    /\ Exchange(ph[j], placed(j), toW[c], toC[c], exec[w],
                                placed(j) \in staged[w], <<placed(j), w>> \in done)
  <1>1. c \in Conns /\ c[1] = w /\ c[2] = inc[w]
    BY OwnConn, Zenon DEF PlacedInv, PlacedRest
  <1>2. Owned(c)
    BY <1>1, Zenon DEF PlacedInv, PlacedRest
  <1>3. Ex(c) = exec[w]
    BY <1>1, Zenon DEF Ex
  <1>4. \A t : Filed(c, t) <=> t \in staged[w]
    BY <1>1, Zenon DEF Filed, Live
  <1>5. CASE Quiet(c)
    BY <1>1, <1>3, <1>5, Zenon DEF Quiet
  <1>6. CASE ~ Quiet(c)
    <2>1. PICK j \in Jobs :
            /\ Uses(j, c)
            /\ Exchange(ph[j], placed(j), toW[c], toC[c], Ex(c),
                        Filed(c, placed(j)), <<placed(j), c[1]>> \in done)
      BY <1>2, <1>6, Zenon DEF Owned
    <2>2. Filed(c, placed(j)) <=> placed(j) \in staged[w]
      BY <1>4, Zenon
    <2>3. Exchange(ph[j], placed(j), toW[c], toC[c], exec[w],
                   placed(j) \in staged[w], <<placed(j), w>> \in done)
      BY <1>1, <1>3, <2>1, <2>2, Zenon DEF Exchange
    <2> QED BY <1>1, <2>1, <2>3, Zenon
  <1> QED BY <1>5, <1>6, Zenon

\* A worker starts: its new connection is one that nobody uses.
LEMMA StartPlaced ==
    ASSUME PlacedInv, NEW w \in Workers, WorkerStart(w) PROVE PlacedRest' /\ Kept
  <1> USE DEF PlacedInv, PlacedRest
  <1>1. /\ Aside /\ conn' = conn /\ lock' = lock /\ cur' = cur /\ misread' = misread
        /\ done' = done /\ blind' = blind /\ exec' = exec /\ staged' = staged
        /\ toW' = toW /\ toC' = toC
        /\ proc' = [proc EXCEPT ![w] = "poll"] /\ inc' = [inc EXCEPT ![w] = inc[w] + 1]
        /\ proc[w] = "down" /\ inc[w] < MaxInc
    BY Zenon DEF WorkerStart, wireVars, elsewhere, coordVars, jobVars, history, Aside
  <1>2. PlacedTables' /\ Verdicts'
    BY <1>1, Zenon DEF PlacedTables, Verdicts, Aside
  <1>3. inc \in [Workers -> 0 .. MaxInc] /\ exec[w] = Idle /\ DOMAIN proc = Workers
    BY <1>1, Zenon DEF WorkerTables
  <1>4. inc[w] \in Nat /\ inc'[w] = inc[w] + 1 /\ inc' \in [Workers -> 0 .. MaxInc]
    BY <1>1, <1>3, AgentAssumption
  <1>5. \A v \in Workers \ {w} : inc'[v] = inc[v] /\ proc'[v] = proc[v]
    BY <1>1, <1>3, Zenon
  <1>6. WorkerTables'
    <2>1. ASSUME NEW v \in Workers
          PROVE  /\ proc'[v] \in {"down", "poll"} /\ conn[v] <= inc'[v]
                 /\ proc'[v] = "down" => exec[v] = Idle
                 /\ proc'[v] # "down" => inc'[v] # 0
      <3>1. conn[v] \in Nat /\ inc[v] \in Nat /\ conn[v] <= inc[v]
        BY AgentAssumption DEF WorkerTables
      <3>2. CASE v = w
        BY <1>1, <1>3, <1>4, <3>1, <3>2
      <3>3. CASE v # w
        BY <1>5, <3>1, <3>3, Zenon DEF WorkerTables
      <3> QED BY <3>2, <3>3, Zenon
    <2> QED BY <1>1, <1>4, <2>1, Zenon DEF WorkerTables
  <1>7. Linked'
    <2>1. \A v \in Workers : inc[v] \in Nat /\ inc'[v] \in Nat /\ inc[v] <= inc'[v]
      BY <1>3, <1>4, <1>5, AgentAssumption
    <2> QED BY <1>1, <2>1 DEF Linked, Aside
  <1>8. ASSUME NEW c \in Conns PROVE (Ex(c))' = Ex(c) /\ (~ (Live(c))' => ~ Live(c))
    <2>1. c[1] \in Workers
      BY ConnPair, Zenon
    <2>2. CASE c[1] = w
      BY <1>1, <1>3, <2>2, Zenon DEF Ex, Live
    <2>3. CASE c[1] # w
      BY <1>1, <1>5, <2>1, <2>3, Zenon DEF Ex, Live
    <2> QED BY <2>2, <2>3, Zenon
  <1>9. Dead'
    BY <1>1, <1>8, Zenon DEF Dead
  <1>10. ASSUME NEW c \in Conns PROVE (Owned(c))'
    <2>0. c[1] \in Workers /\ c[2] \in 1 .. MaxInc
      BY ConnPair, Zenon
    <2>1. CASE Quiet(c)
      BY <1>1, <1>8, <2>1, Zenon DEF Quiet, Owned
    <2>2. CASE ~ Quiet(c)
      <3>1. PICK j \in Jobs : Uses(j, c)
        BY <2>2, Zenon DEF Owned
      <3>2. c[2] <= inc[c[1]]
        BY <2>0, <3>1, Zenon DEF Uses, WorkerTables, Linked
      <3>3. \A t : Filed(c, t) => (Filed(c, t))'
        <4>1. CASE c[1] = w
          <5>1. c[2] # inc'[w]
            BY <1>4, <2>0, <3>2, <4>1, AgentAssumption
          <5> QED BY <4>1, <5>1, Zenon DEF Filed, Live
        <4>2. CASE c[1] # w
          BY <1>1, <1>5, <2>0, <4>2, Zenon DEF Filed, Live
        <4> QED BY <4>1, <4>2, Zenon
      <3>4. \A k \in Jobs : Uses(k, c) => (Uses(k, c))' /\ ph'[k] = ph[k]
        BY <1>1, Zenon DEF Aside, Uses
      <3> QED BY <1>1, <1>8, <3>3, <3>4, OwnedStays, Zenon
    <2> QED BY <2>1, <2>2, Zenon
  <1>11. Kept
    BY <1>1, Zenon DEF Kept
  <1> QED BY <1>1, <1>2, <1>6, <1>7, <1>9, <1>10, <1>11, Zenon

\* A crash empties the worker's end of its connection; what it had sent is
\* still there for its job.
LEMMA CrashPlaced ==
    ASSUME PlacedInv, NEW w \in Workers, WorkerCrash(w) PROVE PlacedRest' /\ Kept
  <1> USE DEF PlacedInv, PlacedRest
  <1>1. /\ Aside /\ conn' = conn /\ lock' = lock /\ cur' = cur /\ inc' = inc
        /\ misread' = misread /\ done' = done /\ blind' = blind /\ toC' = toC
        /\ proc[w] # "down" /\ proc' = [proc EXCEPT ![w] = "down"]
        /\ exec' = [exec EXCEPT ![w] = Idle] /\ staged' = [staged EXCEPT ![w] = {}]
        /\ toW' = [toW EXCEPT ![Own(w)] = <<>>]
    BY Zenon DEF WorkerCrash, Exit, elsewhere, coordVars, jobVars, history, Aside, Own
  <1>2. PICK c : c = Own(w)
    BY Zenon
  <1>3. c \in Conns /\ c[1] = w /\ c[2] = inc[w]
    BY <1>1, <1>2, OwnConn, Zenon
  <1>4. OwnStep(w)
    BY <1>1, <1>2, <1>3, Zenon DEF OwnStep, WorkerTables
  <1>5. toW'[c] = <<>> /\ toC'[c] = toC[c] /\ exec'[w] = Idle /\ (Ex(c))' = Idle
    BY <1>1, <1>2, <1>3, Zenon DEF WorkerTables, Ex
  <1>6. \A t : (Filed(c, t))'
    BY <1>1, <1>3, Zenon DEF Filed, Live, WorkerTables
  <1>7. (Owned(c))'
    <2>1. CASE toC[c] = <<>>
      BY <1>5, <2>1, Zenon DEF Owned, Quiet
    <2>2. CASE toC[c] # <<>>
      <3>1. PICK j \in Jobs :
               /\ Uses(j, c)
               /\ Exchange(ph[j], placed(j), toW[c], toC[c], exec[w],
                           placed(j) \in staged[w], <<placed(j), w>> \in done)
        BY <1>1, <1>2, <2>2, OwnJob, Zenon
      <3>2. (Filed(c, placed(j)))'
        BY <1>6, Zenon
      <3>3. Exchange(ph[j], placed(j), <<>>, toC[c], Idle,
                     (Filed(c, placed(j)))', <<placed(j), w>> \in done)
        BY <2>2, <3>1, <3>2, Zenon DEF Exchange
      <3>4. Exchange(ph[j], placed(j), toW'[c], toC'[c], exec'[w],
                     (Filed(c, placed(j)))', <<placed(j), w>> \in done')
        BY <1>1, <1>5, <3>3, Zenon
      <3> QED BY <1>3, <1>4, <3>1, <3>4, OwnOwned, Zenon
    <2> QED BY <2>1, <2>2, Zenon
  <1>8. Kept
    BY <1>1, Zenon DEF Kept, WorkerTables
  <1> QED BY <1>1, <1>2, <1>4, <1>7, <1>8, OwnStepRest, Zenon

\* A worker reads StageFiles or AssignJob: the files are there when the job
\* starts, and no executor runs yet.
LEMMA RecvPlaced ==
    ASSUME PlacedInv, NEW w \in Workers, WorkerRecv(w) PROVE PlacedRest' /\ Kept
  <1> USE DEF PlacedInv, PlacedRest
  <1>1. PICK c : c = Own(w)
    OBVIOUS
  <1>2. /\ Aside /\ conn' = conn /\ lock' = lock /\ cur' = cur /\ inc' = inc /\ faults' = faults
        /\ misread' = misread /\ done' = done
        /\ proc[w] = "poll" /\ toW[c] # <<>> /\ toW' = [toW EXCEPT ![c] = Tail(toW[c])]
    BY <1>1, Zenon DEF WorkerRecv, elsewhere, coordVars, jobVars, Aside, Own
  <1>3. c \in Conns /\ c[1] = w /\ c[2] = inc[w]
    BY <1>1, <1>2, OwnConn, Zenon
  <1>4. PICK j \in Jobs :
          /\ Uses(j, c)
          /\ Exchange(ph[j], placed(j), toW[c], toC[c], exec[w],
                      placed(j) \in staged[w], <<placed(j), w>> \in done)
    BY <1>1, <1>2, OwnJob, Zenon
  <1>5. /\ toC[c] = <<>> /\ exec[w] = Idle /\ Tail(toW[c]) = <<>>
        /\ \/ ph[j] = "placing" /\ Head(toW[c]) = Msg("Stage", placed(j))
           \/ ph[j] = "await" /\ Head(toW[c]) = Msg("Assign", placed(j)) /\ placed(j) \in staged[w]
    BY <1>2, <1>4, RequestRead, Zenon
  <1>6. toW'[c] = <<>> /\ DOMAIN toW' = Conns /\ \A b \in Conns \ {c} : toW'[b] = toW[b]
    BY <1>2, <1>3, <1>5, Zenon DEF WorkerTables
  <1>7. ASSUME NEW m, m = Head(toW[c]), m.kind = "Stage", StageFiles(w, m)
        PROVE  PlacedRest' /\ Kept
    <2>1. ph[j] = "placing" /\ m.task = placed(j)
      BY <1>5, <1>7 DEF Msg
    <2>2. /\ staged' = [staged EXCEPT ![w] = staged[w] \cup {placed(j)}]
          /\ toC' = [toC EXCEPT ![c] = Append(toC[c], Msg("Ack", placed(j)))]
          /\ proc' = proc /\ exec' = exec /\ blind' = blind
      BY <1>1, <1>7, <2>1, Zenon DEF StageFiles, Reply, Own
    <2>3. Append(<<>>, Msg("Ack", placed(j))) = <<Msg("Ack", placed(j))>>
      OBVIOUS
    <2>4. /\ toC'[c] = <<Msg("Ack", placed(j))>> /\ DOMAIN toC' = Conns
          /\ \A b \in Conns \ {c} : toC'[b] = toC[b]
      BY <1>3, <1>5, <2>2, <2>3, Zenon DEF WorkerTables
    <2>5. OwnStep(w)
      BY <1>1, <1>2, <1>6, <2>2, <2>4, Zenon DEF OwnStep, WorkerTables
    <2>6. (Filed(c, placed(j)))'
      BY <1>3, <2>2, Zenon DEF Filed, WorkerTables
    <2>7. Exchange(ph[j], placed(j), toW'[c], toC'[c], exec'[w],
                   (Filed(c, placed(j)))', <<placed(j), w>> \in done')
      BY <1>5, <1>6, <2>1, <2>2, <2>4, <2>6, Zenon DEF Exchange
    <2>8. (Owned(c))'
      BY <1>3, <1>4, <2>5, <2>7, OwnOwned, Zenon
    <2>9. Kept
      BY <2>2, Zenon DEF Kept
    <2> QED BY <1>1, <2>2, <2>5, <2>8, <2>9, OwnStepRest, Zenon
  <1>8. ASSUME NEW m, m = Head(toW[c]), m.kind = "Assign", AssignJob(w, m)
        PROVE  PlacedRest' /\ Kept
    <2>1. ph[j] = "await" /\ m.task = placed(j) /\ placed(j) \in staged[w]
      BY <1>5, <1>8 DEF Msg
    <2>2. /\ exec' = [exec EXCEPT ![w] = [task |-> placed(j), st |-> "run"]]
          /\ toC' = [toC EXCEPT ![c] = Append(toC[c], Msg("Started", placed(j)))]
          /\ proc' = proc /\ staged' = staged /\ blind' = blind
      BY <1>1, <1>8, <2>1, Zenon DEF AssignJob, Reply, Own
    <2>3. Append(<<>>, Msg("Started", placed(j))) = <<Msg("Started", placed(j))>>
      OBVIOUS
    <2>4. /\ toC'[c] = <<Msg("Started", placed(j))>> /\ DOMAIN toC' = Conns
          /\ \A b \in Conns \ {c} : toC'[b] = toC[b]
      BY <1>3, <1>5, <2>2, <2>3, Zenon DEF WorkerTables
    <2>5. exec'[w] = [task |-> placed(j), st |-> "run"] /\ DOMAIN exec' = Workers
          /\ \A v \in Workers \ {w} : exec'[v] = exec[v]
      BY <2>2, Zenon DEF WorkerTables
    <2>6. OwnStep(w)
      BY <1>1, <1>2, <1>6, <2>2, <2>4, <2>5, Zenon DEF OwnStep, WorkerTables
    <2>7. Exchange(ph[j], placed(j), toW'[c], toC'[c], exec'[w],
                   (Filed(c, placed(j)))', <<placed(j), w>> \in done')
      BY <1>6, <2>1, <2>4, <2>5, Zenon DEF Exchange
    <2>8. (Owned(c))'
      BY <1>3, <1>4, <2>6, <2>7, OwnOwned
    <2>9. Kept
      BY <1>5, <2>5 DEF Kept, Idle
    <2> QED BY <1>1, <2>2, <2>6, <2>8, <2>9, OwnStepRest, Zenon
  <1>9. Head(toW[c]).kind # "Offer"
    BY <1>5 DEF Msg
  <1> QED BY <1>1, <1>7, <1>8, <1>9, Zenon DEF WorkerRecv, Own

\* Appending to an empty channel and to one with a message.
LEMMA AppendOne == \A m, n : Append(<<>>, n) = <<n>> /\ Append(<<m>>, n) = <<m, n>>
  <1> TAKE m, n
  <1>1. <<>> \in Seq({m, n}) /\ <<m>> \in Seq({m, n}) /\ n \in {m, n}
    OBVIOUS
  <1>2. Append(<<>>, n) = <<n>>
    BY <1>1
  <1>3. Append(<<m>>, n) \in Seq({m, n}) /\ Len(Append(<<m>>, n)) = 2
    BY <1>1
  <1>4. Append(<<m>>, n)[1] = m /\ Append(<<m>>, n)[2] = n
    BY <1>1
  <1>5. Append(<<m>>, n) = <<m, n>>
    <2>1. <<m, n>> \in Seq({m, n}) /\ Len(<<m, n>>) = 2 /\ <<m, n>>[1] = m /\ <<m, n>>[2] = n
      OBVIOUS
    <2>2. \A i \in 1 .. 2 : Append(<<m>>, n)[i] = <<m, n>>[i]
      BY <1>4, <2>1
    <2>3. ASSUME NEW s \in Seq({m, n}), NEW t \in Seq({m, n}), Len(s) = Len(t),
                 \A i \in 1 .. Len(s) : s[i] = t[i]
          PROVE  s = t
      BY <2>3
    <2> QED BY <1>3, <2>1, <2>2, <2>3, Zenon
  <1> QED BY <1>2, <1>5, Zenon

\* The executor of the job exits.
LEMMA ExitPlaced ==
    ASSUME PlacedInv, NEW w \in Workers, ExecutorExit(w) PROVE PlacedRest' /\ Kept
  <1> USE DEF PlacedInv, PlacedRest
  <1>1. PICK c : c = Own(w)
    OBVIOUS
  <1>2. /\ Aside /\ conn' = conn /\ lock' = lock /\ cur' = cur /\ inc' = inc
        /\ misread' = misread /\ blind' = blind /\ proc' = proc /\ staged' = staged
        /\ toW' = toW /\ toC' = toC /\ exec[w].st = "run"
    BY Zenon DEF ExecutorExit, wireVars, elsewhere, coordVars, jobVars, Aside
  <1>3. PICK st \in {"ok", "bad"} :
          /\ exec' = [exec EXCEPT ![w] = [task |-> exec[w].task, st |-> st]]
          /\ done' = IF st = "ok" THEN done \cup {<<exec[w].task, w>>} ELSE done
    BY Zenon DEF ExecutorExit
  <1>4. exec[w] # Idle /\ proc[w] # "down"
    BY <1>2 DEF Idle, WorkerTables
  <1>5. c \in Conns /\ c[1] = w /\ c[2] = inc[w]
    BY <1>1, <1>4, OwnConn, Zenon
  <1>6. PICK j \in Jobs :
          /\ Uses(j, c)
          /\ Exchange(ph[j], placed(j), toW[c], toC[c], exec[w],
                      placed(j) \in staged[w], <<placed(j), w>> \in done)
    BY <1>1, <1>4, OwnJob, Zenon
  <1>7. /\ ph[j] = "await" /\ toW[c] = <<>> /\ toC[c] \in {<<>>, <<Msg("Started", placed(j))>>}
        /\ exec[w].task = placed(j)
    BY <1>4, <1>6, Executing
  <1>8. /\ exec'[w] = [task |-> placed(j), st |-> st] /\ DOMAIN exec' = Workers
        /\ \A v \in Workers \ {w} : exec'[v] = exec[v]
    BY <1>3, <1>7, Zenon DEF WorkerTables
  <1>9. done \subseteq done' /\ (st = "ok" => <<placed(j), w>> \in done')
    BY <1>3, <1>7, Zenon
  <1>10. OwnStep(w)
    BY <1>2, <1>4, <1>8, <1>9, Zenon DEF OwnStep, WorkerTables
  <1>11. Exchange(ph[j], placed(j), toW'[c], toC'[c], exec'[w],
                  (Filed(c, placed(j)))', <<placed(j), w>> \in done')
    BY <1>2, <1>7, <1>8, <1>9, Zenon DEF Exchange
  <1>12. (Owned(c))'
    BY <1>5, <1>6, <1>10, <1>11, OwnOwned, Zenon
  <1>13. Kept
    BY <1>7, <1>8 DEF Kept
  <1> QED BY <1>1, <1>2, <1>10, <1>12, <1>13, OwnStepRest, Zenon

\* The daemon reports the exit and removes the files, which no other job has.
LEMMA PollPlaced ==
    ASSUME PlacedInv, NEW w \in Workers, PollExecutor(w) PROVE PlacedRest' /\ Kept
  <1> USE DEF PlacedInv, PlacedRest
  <1>1. PICK c : c = Own(w)
    OBVIOUS
  <1>2. PICK r : r = Result(exec[w].task, exec[w].st = "ok")
    BY Zenon
  <1>3. /\ Aside /\ conn' = conn /\ lock' = lock /\ cur' = cur /\ inc' = inc
        /\ misread' = misread /\ blind' = blind /\ done' = done /\ proc' = proc
        /\ toW' = toW /\ toC' = [toC EXCEPT ![c] = Append(toC[c], r)]
        /\ exec' = [exec EXCEPT ![w] = Idle] /\ staged' = [staged EXCEPT ![w] = {}]
        /\ exec[w].st \in {"ok", "bad"} /\ proc[w] = "poll"
    BY <1>1, <1>2, Zenon DEF PollExecutor, Reply, elsewhere, coordVars, jobVars, history, Aside, Own
  <1>4. exec[w] # Idle
    BY <1>3 DEF Idle
  <1>5. c \in Conns /\ c[1] = w /\ c[2] = inc[w]
    BY <1>1, <1>3, OwnConn, Zenon
  <1>6. PICK j \in Jobs :
          /\ Uses(j, c)
          /\ Exchange(ph[j], placed(j), toW[c], toC[c], exec[w],
                      placed(j) \in staged[w], <<placed(j), w>> \in done)
    BY <1>1, <1>3, <1>4, OwnJob, Zenon
  <1>7. /\ ph[j] = "await" /\ toW[c] = <<>> /\ toC[c] \in {<<>>, <<Msg("Started", placed(j))>>}
        /\ exec[w].task = placed(j) /\ (exec[w].st = "ok" => <<placed(j), w>> \in done)
    <2>1. /\ ph[j] = "await" /\ toW[c] = <<>> /\ toC[c] \in {<<>>, <<Msg("Started", placed(j))>>}
          /\ exec[w].task = placed(j)
      BY <1>4, <1>6, Executing
    <2>2. ASSUME exec[w].st = "ok" PROVE <<placed(j), w>> \in done
      <3>1. Exchange(ph[j], placed(j), toW[c], toC[c], exec[w],
                     placed(j) \in staged[w], <<placed(j), w>> \in done)
        BY <1>6, Zenon
      <3> HIDE DEF PlacedInv, PlacedRest
      <3> QED BY <1>4, <2>2, <3>1, ExecutedWell, Zenon
    <2> QED BY <2>1, <2>2, Zenon
  <1>8. \E b \in BOOLEAN : r = Result(placed(j), b) /\ (b => <<placed(j), w>> \in done)
    BY <1>2, <1>7, Zenon
  <1>9. Append(toC[c], r) \in {<<r>>, <<Msg("Started", placed(j)), r>>}
    BY <1>7, AppendOne, Zenon
  <1>10. /\ toC'[c] \in {<<r>>, <<Msg("Started", placed(j)), r>>} /\ DOMAIN toC' = Conns
         /\ \A b \in Conns \ {c} : toC'[b] = toC[b]
    BY <1>3, <1>5, <1>9, Zenon DEF WorkerTables
  <1>11. exec'[w] = Idle
    BY <1>3, Zenon DEF WorkerTables
  <1>12. OwnStep(w)
    BY <1>1, <1>3, <1>10, Zenon DEF OwnStep, WorkerTables
  <1>13. Exchange(ph[j], placed(j), toW'[c], toC'[c], exec'[w],
                  (Filed(c, placed(j)))', <<placed(j), w>> \in done')
    BY <1>3, <1>7, <1>8, <1>10, <1>11, Zenon DEF Exchange
  <1>14. (Owned(c))'
    BY <1>5, <1>6, <1>12, <1>13, OwnOwned
  <1>15. Kept
    BY <1>3, Zenon DEF Kept, WorkerTables
  <1> QED BY <1>1, <1>3, <1>12, <1>14, <1>15, OwnStepRest, Zenon

\* The daemons, with placed jobs only, share no inputs by RDMA.
LEMMA DaemonPlaced ==
    ASSUME PlacedInv, NEW w \in Workers, WorkerStep(w) \/ WorkerCrash(w)
    PROVE  PlacedRest' /\ Kept
  <1>1. proc[w] # "share"
    BY Zenon DEF PlacedInv, PlacedRest, WorkerTables
  <1>2. ~ ShareRecv(w) /\ ~ ShareTimeout(w)
    BY <1>1, Zenon DEF ShareRecv, ShareTimeout
  <1> QED
    BY <1>2, StartPlaced, CrashPlaced, RecvPlaced, ExitPlaced, PollPlaced, Zenon DEF WorkerStep

\* A new connection in the map: a job that waits keeps the one it has, and
\* none is placing, since the accept loop has the mutex.
LEMMA ReadyPlaced ==
    ASSUME PlacedInv, NEW w \in Workers, AcceptReady(w) PROVE PlacedRest' /\ Kept
  <1> USE DEF PlacedInv, PlacedRest
  <1>1. /\ Aside /\ lock' = lock /\ cur' = cur /\ inc' = inc /\ proc' = proc /\ exec' = exec
        /\ staged' = staged /\ misread' = misread /\ blind' = blind /\ done' = done
        /\ toW' = toW /\ toC' = toC /\ conn' = [conn EXCEPT ![w] = inc[w]] /\ lock = None
    BY Zenon DEF AcceptReady, workerVars, wireVars, jobVars, history, Aside
  <1>2. PlacedTables' /\ Linked' /\ Verdicts'
    BY <1>1, Zenon DEF PlacedTables, Linked, Verdicts, Aside
  <1>3. inc[w] \in 0 .. MaxInc /\ conn \in [Workers -> 0 .. MaxInc] /\ inc[w] <= inc[w]
    BY AgentAssumption DEF WorkerTables
  <1>4. conn' \in [Workers -> 0 .. MaxInc] /\ conn'[w] = inc[w] /\ \A v \in Workers \ {w} : conn'[v] = conn[v]
    BY <1>1, <1>3, Zenon
  <1>5. WorkerTables'
    <2>1. \A v \in Workers : conn'[v] <= inc[v]
      BY <1>3, <1>4, Zenon DEF WorkerTables
    <2> QED BY <1>1, <1>4, <2>1, Zenon DEF WorkerTables
  <1>6. Dead'
    BY <1>1, Zenon DEF Dead, Live
  <1>7. \A j \in Jobs : ph[j] # "placing"
    BY <1>1, AgentAssumption, Zenon DEF PlacedTables
  <1>8. ASSUME NEW c \in Conns PROVE (Owned(c))'
    <2>1. \A j \in Jobs : Uses(j, c) => (Uses(j, c))' /\ ph'[j] = ph[j]
      BY <1>1, <1>7, Zenon DEF Uses, Aside
    <2>2. (Ex(c))' = Ex(c) /\ \A t : Filed(c, t) => (Filed(c, t))'
      BY <1>1, Zenon DEF Ex, Filed, Live
    <2> QED BY <1>1, <2>1, <2>2, OwnedStays, Zenon
  <1>9. Kept
    BY <1>1, Zenon DEF Kept
  <1> QED BY <1>1, <1>2, <1>5, <1>6, <1>8, <1>9, Zenon

\* The drain finds nothing: what a worker that is not reserved sent has been
\* read.
LEMMA DrainPlaced == ASSUME PlacedInv, Drain PROVE FALSE
  <1> USE DEF PlacedInv, PlacedRest
  <1>1. PICK w \in Workers : conn[w] # 0 /\ w \notin reserved /\ toC[<<w, conn[w]>>] # <<>>
    BY Zenon DEF Drain, Drainable, Connected
  <1>2. PICK c : c = <<w, conn[w]>>
    BY Zenon
  <1>3. c \in Conns /\ c[1] = w
    BY <1>1, <1>2, AgentAssumption DEF WorkerTables, Conns
  <1>4. Owned(c) /\ ~ Quiet(c)
    BY <1>1, <1>2, <1>3, Zenon DEF Quiet
  <1>5. PICK j \in Jobs : Uses(j, c)
    BY <1>4, Zenon DEF Owned
  <1>6. j \in Holders /\ loc[j].node = w
    BY <1>3, <1>5, Zenon DEF Uses, Holders, Holding
  <1> QED BY <1>1, <1>6, Zenon DEF ReservedExactly

\* What every step of the handler of j leaves alone, and where it goes.
JobFrame(j) ==
    /\ UNCHANGED <<kind, conn, cur, proc, inc, exec, staged, misread, blind>> /\ done \subseteq done'
    /\ DOMAIN toW' = Conns /\ DOMAIN toC' = Conns
    /\ \A k \in Jobs \ {j} : ph'[k] = ph[k] /\ loc'[k] = loc[k] /\ answer'[k] = answer[k]
    /\ lock' = lock \/ lock \in {None, j}
    /\ kind[j] = "placed" /\ ph'[j] \in PlacedPhases \ {"new"}
    /\ ph'[j] = "placing" => lock' = j
    /\ \A w \in Workers : loc'[j].node = w /\ ph'[j] = "await" =>
                              loc'[j].link \in Nat /\ loc'[j].link <= inc[w]
    /\ answer'[j] = "ok" => ph'[j] = "end"
    /\ \/ ph'[j] = "release" /\ loc'[j].good
       \/ answer'[j] = "ok"
       => <<placed(j), loc'[j].node>> \in done'

\* It writes only to live connections, and those it touches have an owner.
JobWires(j) ==
    /\ \A c \in Conns : toW'[c] = toW[c] \/ Live(c)
    /\ \A c \in Conns : \/ ~ Uses(j, c) /\ toW'[c] = toW[c] /\ toC'[c] = toC[c]
                        \/ (Owned(c))'

\* Such a step keeps the rest of the invariant.
LEMMA JobRest ==
    ASSUME PlacedInv, NEW j \in Jobs, JobFrame(j), JobWires(j) PROVE PlacedRest' /\ Kept
  <1> USE DEF PlacedInv, PlacedRest
  <1>1. PlacedTables'
    BY AgentAssumption, Zenon DEF PlacedTables, JobFrame
  <1>2. WorkerTables'
    BY Zenon DEF WorkerTables, JobFrame
  <1>3. Dead'
    BY Zenon DEF Dead, JobFrame, JobWires, Live
  <1>4. Linked'
    BY Zenon DEF Linked, JobFrame
  <1>5. Verdicts'
    <2>1. ASSUME NEW k \in Jobs
          PROVE  /\ answer'[k] = "ok" => ph'[k] = "end"
                 /\ \/ ph'[k] = "release" /\ loc'[k].good
                    \/ answer'[k] = "ok"
                    => <<placed(k), loc'[k].node>> \in done'
      BY Zenon DEF Verdicts, JobFrame
    <2> QED BY <2>1, Zenon DEF Verdicts
  <1>6. ASSUME NEW c \in Conns PROVE (Owned(c))'
    <2>1. CASE ~ Uses(j, c) /\ toW'[c] = toW[c] /\ toC'[c] = toC[c]
      <3>1. \A k \in Jobs : Uses(k, c) => (Uses(k, c))' /\ ph'[k] = ph[k]
        BY <2>1, Zenon DEF Uses, JobFrame
      <3>2. (Ex(c))' = Ex(c) /\ (\A t : Filed(c, t) => (Filed(c, t))') /\ done \subseteq done'
        BY Zenon DEF Ex, Filed, Live, JobFrame
      <3> QED BY <2>1, <3>1, <3>2, OwnedStays, Zenon
    <2> QED BY <2>1, Zenon DEF JobWires
  <1>7. Kept
    BY Zenon DEF Kept, JobFrame
  <1> QED BY <1>1, <1>2, <1>3, <1>4, <1>5, <1>6, <1>7, Zenon DEF JobFrame

\* Steps that touch no connection and leave none.
LEMMA AwayRest ==
    ASSUME PlacedInv, NEW j \in Jobs, JobFrame(j), toW' = toW, toC' = toC,
           ph[j] \notin {"placing", "await"}
    PROVE  PlacedRest' /\ Kept
  <1>1. JobWires(j)
    BY Zenon DEF JobWires, Uses
  <1> QED BY <1>1, JobRest, Zenon

\* A job takes its place, without a word to a worker.
LEMMA AwayPlaced ==
    ASSUME PlacedInv, NEW j \in Jobs,
           \/ AcceptPlaced(j) \/ PlacedLive(j) \/ ReserveNode(j) \/ QueueTimeout(j)
           \/ DispatchLocal(j) \/ ReleaseNode(j)
    PROVE  PlacedRest' /\ Kept
  <1> USE DEF PlacedInv, PlacedRest
  <1>0. /\ ph[j] # "new" => kind[j] = "placed"
        /\ ph[j] # "end" => answer[j] # "ok"
        /\ DOMAIN ph = Jobs /\ DOMAIN loc = Jobs /\ DOMAIN answer = Jobs
        /\ DOMAIN loc[j] = DOMAIN NoLocals /\ DOMAIN toW = Conns /\ DOMAIN toC = Conns
    BY Zenon DEF PlacedTables, Verdicts, Tables, WorkerTables
  <1>1. CASE AcceptPlaced(j)
    <2>1. JobFrame(j) /\ toW' = toW /\ toC' = toC /\ ph[j] = "new"
      BY <1>0, <1>1, Zenon DEF AcceptPlaced, JobFrame, workerVars, wireVars, coordVars, history, PlacedPhases
    <2> QED BY <2>1, AwayRest, Zenon
  <1>2. CASE PlacedLive(j)
    <2>1. JobFrame(j) /\ toW' = toW /\ toC' = toC /\ ph[j] = "thread"
      BY <1>0, <1>2, Zenon DEF PlacedLive, Goto, JobFrame, workerVars, wireVars, coordVars, history, PlacedPhases
    <2> QED BY <2>1, AwayRest, Zenon
  <1>3. CASE ReserveNode(j)
    <2>1. ph[j] = "queue" /\ toW' = toW /\ toC' = toC /\ \A k \in Jobs \ {j} : loc'[k] = loc[k]
      BY <1>0, <1>3, Zenon DEF ReserveNode, wireVars
    <2>2. JobFrame(j)
      BY <1>0, <1>3, <2>1, Zenon DEF ReserveNode, Goto, JobFrame, workerVars, history, PlacedPhases
    <2> QED BY <2>1, <2>2, AwayRest, Zenon
  <1>4. CASE QueueTimeout(j)
    <2>1. JobFrame(j) /\ toW' = toW /\ toC' = toC /\ ph[j] = "queue"
      BY <1>0, <1>4, Zenon DEF QueueTimeout, Answer, JobFrame, workerVars, wireVars, coordVars, history, PlacedPhases
    <2> QED BY <2>1, AwayRest, Zenon
  <1>5. CASE DispatchLocal(j)
    <2>1. ph[j] = "dispatch" /\ toW' = toW /\ toC' = toC
      BY <1>5, Zenon DEF DispatchLocal, wireVars
    <2>2. PICK b \in BOOLEAN : /\ loc' = [loc EXCEPT ![j].good = b]
                               /\ done' = IF b THEN done \cup {<<placed(j), Coord>>} ELSE done
      BY <1>5, Zenon DEF DispatchLocal
    <2>3. /\ loc'[j].good = b /\ loc'[j].node = Coord /\ \A k \in Jobs \ {j} : loc'[k] = loc[k]
          /\ done \subseteq done' /\ (b => <<placed(j), Coord>> \in done')
      BY <1>0, <1>5, <2>2, Zenon DEF NoLocals, DispatchLocal
    <2>4. JobFrame(j)
      BY <1>0, <1>5, <2>1, <2>3, Zenon DEF DispatchLocal, Goto, JobFrame, workerVars, coordVars, PlacedPhases
    <2> QED BY <2>1, <2>4, AwayRest, Zenon
  <1>6. CASE ReleaseNode(j)
    <2>1. ph[j] = "release" /\ toW' = toW /\ toC' = toC /\ loc' = loc /\ done' = done
          /\ answer'[j] = Verdict(loc[j].good)
      BY <1>0, <1>6, Zenon DEF ReleaseNode, Answer, wireVars, history
    <2>2. answer'[j] = "ok" => <<placed(j), loc[j].node>> \in done
      BY <2>1, Zenon DEF Verdict, Verdicts
    <2>3. JobFrame(j)
      BY <1>0, <1>6, <2>1, <2>2, Zenon DEF ReleaseNode, Answer, JobFrame, workerVars, history, PlacedPhases
    <2> QED BY <2>1, <2>3, AwayRest, Zenon
  <1> QED BY <1>1, <1>2, <1>3, <1>4, <1>5, <1>6, Zenon

\* A message to one worker reaches the connection in the map, if that lives.
LEMMA SendOne ==
    ASSUME NEW n, NEW m, SendAll({n}, m)
    PROVE  /\ DOMAIN toW' = Conns
           /\ \A c \in Conns : toW'[c] = IF c[1] = n /\ c[2] = conn[n] /\ Live(c)
                                         THEN Append(toW[c], m) ELSE toW[c]
  BY Zenon DEF SendAll, Live, Broken

\* A connection on which the worker will not be heard has nothing left.
LEMMA SilentQuiet ==
    ASSUME PlacedInv, NEW c \in Conns, Silent(c[1], c[2]) PROVE Quiet(c)
  <1>1. c = <<c[1], c[2]>> /\ c[1] \in Workers
    BY ConnPair, Zenon
  <1>2. toC[c] = <<>> /\ ~ Live(c)
    BY <1>1, Zenon DEF Silent, Broken, Live
  <1>3. toW[c] = <<>>
    BY <1>2, Zenon DEF PlacedInv, PlacedRest, Dead
  <1>4. Ex(c) = Idle
    BY <1>1, Zenon DEF PlacedInv, PlacedRest, WorkerTables, Silent, Broken, Ex
  <1> QED BY <1>2, <1>3, <1>4, Zenon DEF Quiet

\* Giving up on a worker that is gone.
LEMMA TimeoutPlaced ==
    ASSUME PlacedInv, NEW j \in Jobs, PlacedStageTimeout(j) \/ PlacedTimeout(j)
    PROVE  PlacedRest' /\ Kept
  <1> USE DEF PlacedInv, PlacedRest
  <1>0. /\ ph[j] # "new" => kind[j] = "placed"
        /\ ph[j] # "end" => answer[j] # "ok"
        /\ ph[j] = "placing" => lock = j
        /\ DOMAIN ph = Jobs /\ DOMAIN loc = Jobs /\ DOMAIN answer = Jobs
        /\ DOMAIN loc[j] = DOMAIN NoLocals /\ DOMAIN toW = Conns /\ DOMAIN toC = Conns
    BY Zenon DEF PlacedTables, Verdicts, Tables, WorkerTables
  <1>1. toW' = toW /\ toC' = toC /\ ph[j] \in {"placing", "await"}
    BY Zenon DEF PlacedStageTimeout, PlacedTimeout, wireVars
  <1>2. loc'[j].good = FALSE /\ \A k \in Jobs \ {j} : loc'[k] = loc[k]
    BY <1>0 DEF PlacedStageTimeout, PlacedTimeout, NoLocals
  <1>3. JobFrame(j)
    <2>1. CASE PlacedStageTimeout(j)
      BY <1>0, <1>2, <2>1, Zenon
         DEF PlacedStageTimeout, Goto, JobFrame, workerVars, wireVars, history, PlacedPhases
    <2>2. CASE PlacedTimeout(j)
      BY <1>0, <1>2, <2>2, Zenon
         DEF PlacedTimeout, Goto, JobFrame, workerVars, wireVars, coordVars, history, PlacedPhases
    <2> QED BY <2>1, <2>2, Zenon
  <1>4. ASSUME NEW c \in Conns, Uses(j, c) PROVE (Owned(c))'
    <2>1. Silent(c[1], c[2])
      BY <1>4, Zenon DEF PlacedStageTimeout, PlacedTimeout, Uses
    <2>2. Quiet(c)
      BY <2>1, SilentQuiet, Zenon
    <2>3. (Ex(c))' = Ex(c)
      BY <1>3, Zenon DEF JobFrame, Ex
    <2> QED BY <1>1, <2>2, <2>3, Zenon DEF Quiet, Owned
  <1>5. JobWires(j)
    BY <1>1, <1>4, Zenon DEF JobWires
  <1> QED BY <1>3, <1>5, JobRest, Zenon

\* StageFiles goes out on a connection that nobody uses.
LEMMA DispatchPlaced ==
    ASSUME PlacedInv, NEW j \in Jobs, DispatchRemote(j) PROVE PlacedRest' /\ Kept
  <1> USE DEF PlacedInv, PlacedRest
  <1>0. /\ ph[j] # "new" => kind[j] = "placed"
        /\ ph[j] # "end" => answer[j] # "ok"
        /\ DOMAIN ph = Jobs /\ DOMAIN toC = Conns
    BY Zenon DEF PlacedTables, Verdicts, Tables, WorkerTables
  <1>1. PICK n : n = loc[j].node
    BY Zenon
  <1>2. /\ ph[j] = "dispatch" /\ lock = None /\ SendAll({n}, Msg("Stage", placed(j))) /\ lock' = j
        /\ ph' = [ph EXCEPT ![j] = "placing"] /\ answer' = answer /\ loc' = loc /\ toC' = toC
        /\ UNCHANGED <<kind, conn, cur, proc, inc, exec, staged, misread, blind, done>>
    BY <1>1, Zenon DEF DispatchRemote, Goto, workerVars, history
  <1>3. DOMAIN toW' = Conns
        /\ \A c \in Conns : toW'[c] = IF c[1] = n /\ c[2] = conn[n] /\ Live(c)
                                      THEN Append(toW[c], Msg("Stage", placed(j))) ELSE toW[c]
    BY <1>2, SendOne, Zenon
  <1>4. JobFrame(j)
    BY <1>0, <1>2, <1>3, Zenon DEF JobFrame, PlacedPhases
  <1>5. ASSUME NEW c \in Conns, c[1] = n, c[2] = conn[n], Live(c) PROVE (Owned(c))'
    <2>1. \A k \in Jobs : ~ Uses(k, c)
      BY <1>1, <1>2, <1>5, Zenon DEF ReservedExactly, Holders, Holding, Uses
    <2>2. Quiet(c)
      BY <2>1, Zenon DEF Owned
    <2>3. toW'[c] = <<Msg("Stage", placed(j))>> /\ toC'[c] = <<>>
      BY <1>2, <1>3, <1>5, <2>2, AppendOne, Zenon DEF Quiet
    <2>4. (Ex(c))' = Idle
      BY <1>2, <2>2, Zenon DEF Quiet, Ex
    <2>5. (Uses(j, c))' /\ ph'[j] = "placing"
      BY <1>0, <1>1, <1>2, <1>5, Zenon DEF Uses
    <2>6. Exchange(ph'[j], placed(j), toW'[c], toC'[c], (Ex(c))',
                   (Filed(c, placed(j)))', <<placed(j), c[1]>> \in done')
      BY <2>3, <2>4, <2>5, Zenon DEF Exchange
    <2> QED BY <2>5, <2>6, Zenon DEF Owned
  <1>6. JobWires(j)
    BY <1>2, <1>3, <1>5, Zenon DEF JobWires, Uses
  <1> QED BY <1>4, <1>6, JobRest, Zenon

\* The acknowledgement is the job's own; AssignJob follows on the connection,
\* which the thread keeps.
LEMMA StagedPlaced ==
    ASSUME PlacedInv, NEW j \in Jobs, PlacedStaged(j) PROVE PlacedRest' /\ Kept
  <1> USE DEF PlacedInv, PlacedRest
  <1>0. /\ kind[j] = "placed" /\ answer[j] # "ok" /\ lock = j /\ ph[j] = "placing"
        /\ DOMAIN ph = Jobs /\ DOMAIN loc = Jobs /\ DOMAIN loc[j] = DOMAIN NoLocals
        /\ DOMAIN toC = Conns
    BY Zenon DEF PlacedStaged, PlacedTables, Verdicts, Tables, WorkerTables
  <1>1. PICK n : n = loc[j].node
    OBVIOUS
  <1>2. PICK o : o = <<n, conn[n]>>
    BY Zenon
  <1>3. /\ o \in Conns /\ o[1] = n /\ o[2] = conn[n] /\ toC[o] # <<>>
        /\ toC' = [toC EXCEPT ![o] = Tail(toC[o])]
    BY <1>1, <1>2, Zenon DEF PlacedStaged, Take
  <1>4. Uses(j, o)
    BY <1>0, <1>1, <1>3, Zenon DEF Uses
  <1>5. Exchange("placing", placed(j), toW[o], toC[o], Ex(o),
                 Filed(o, placed(j)), <<placed(j), o[1]>> \in done)
    <2>1. Owned(o) /\ ~ Quiet(o)
      BY <1>3, Zenon DEF Quiet
    <2> QED BY <1>0, <1>4, <2>1, UserKnows, Zenon
  <1>6. /\ Head(toC[o]) = Msg("Ack", placed(j)) /\ Tail(toC[o]) = <<>> /\ toW[o] = <<>>
        /\ Ex(o) = Idle /\ Filed(o, placed(j))
    BY <1>3, <1>5, AckRead
  <1>7. Head(toC[o]).kind = "Ack"
    BY <1>6 DEF Msg
  <1>8. /\ SendAll({n}, Msg("Assign", placed(j))) /\ lock' = None
        /\ loc' = [loc EXCEPT ![j].link = conn[n]]
        /\ ph' = [ph EXCEPT ![j] = "await"] /\ answer' = answer /\ misread' = misread
        /\ UNCHANGED <<kind, conn, cur, proc, inc, exec, staged, blind, done>>
    BY <1>1, <1>2, <1>7, Zenon DEF PlacedStaged, Take, Goto, workerVars
  <1>9. DOMAIN toW' = Conns
        /\ \A c \in Conns : toW'[c] = IF c[1] = n /\ c[2] = conn[n] /\ Live(c)
                                      THEN Append(toW[c], Msg("Assign", placed(j))) ELSE toW[c]
    BY <1>8, SendOne, Zenon
  <1>10. /\ DOMAIN toC' = Conns /\ toC'[o] = <<>>
         /\ \A c \in Conns \ {o} : toC'[c] = toC[c]
    BY <1>0, <1>3, <1>6, Zenon
  <1>11. /\ loc'[j].node = n /\ loc'[j].link = conn[n] /\ ph'[j] = "await"
         /\ \A k \in Jobs \ {j} : loc'[k] = loc[k] /\ ph'[k] = ph[k]
    BY <1>0, <1>1, <1>8, Zenon DEF NoLocals
  <1>12. n \in Workers /\ conn[n] \in Nat /\ conn[n] <= inc[n]
    BY <1>3, ConnPair, AgentAssumption DEF WorkerTables
  <1>13. JobFrame(j)
    BY <1>0, <1>8, <1>9, <1>10, <1>11, <1>12, Zenon DEF JobFrame, PlacedPhases
  <1>14. (Owned(o))'
    <2>1. (Uses(j, o))'
      BY <1>3, <1>11, Zenon DEF Uses
    <2>2. (Ex(o))' = Idle /\ (Filed(o, placed(j)))'
      BY <1>6, <1>8, Zenon DEF Ex, Filed, Live
    <2>3. CASE Live(o)
      <3>1. toW'[o] = <<Msg("Assign", placed(j))>>
        BY <1>3, <1>6, <1>9, <2>3, AppendOne, Zenon
      <3>2. Exchange(ph'[j], placed(j), toW'[o], toC'[o], (Ex(o))',
                     (Filed(o, placed(j)))', <<placed(j), o[1]>> \in done')
        BY <1>10, <1>11, <2>2, <3>1, Zenon DEF Exchange
      <3> QED BY <2>1, <3>2, Zenon DEF Owned
    <2>4. CASE ~ Live(o)
      <3>1. toW'[o] = <<>>
        BY <1>3, <1>6, <1>9, <2>4, Zenon
      <3> QED BY <1>10, <2>2, <3>1, Zenon DEF Owned, Quiet
    <2> QED BY <2>3, <2>4, Zenon
  <1>15. \A c \in Conns : c[1] = n /\ c[2] = conn[n] => c = o
    BY <1>2, ConnPair, Zenon
  <1>16. JobWires(j)
    <2>1. ASSUME NEW c \in Conns, c # o PROVE ~ Uses(j, c) /\ toW'[c] = toW[c] /\ toC'[c] = toC[c]
      BY <1>0, <1>1, <1>9, <1>10, <1>15, <2>1, Zenon DEF Uses
    <2>2. \A c \in Conns : toW'[c] = toW[c] \/ Live(c)
      BY <1>9, Zenon
    <2> QED BY <1>14, <2>1, <2>2, Zenon DEF JobWires
  <1> QED BY <1>13, <1>16, JobRest

\* What the thread of the job reads is its own; after the result nothing is
\* left on the connection.
LEMMA ReadPlaced ==
    ASSUME PlacedInv, NEW j \in Jobs, PlacedRecv(j) PROVE PlacedRest' /\ Kept
  <1> USE DEF PlacedInv, PlacedRest
  <1>0. /\ kind[j] = "placed" /\ answer[j] # "ok" /\ ph[j] = "await"
        /\ DOMAIN ph = Jobs /\ DOMAIN loc = Jobs /\ DOMAIN loc[j] = DOMAIN NoLocals
        /\ DOMAIN toC = Conns /\ DOMAIN toW = Conns
    BY Zenon DEF PlacedRecv, PlacedTables, Verdicts, Tables, WorkerTables
  <1>1. PICK n : n = loc[j].node
    OBVIOUS
  <1>2. PICK o : o = <<n, loc[j].link>>
    BY Zenon
  <1>3. /\ o \in Conns /\ o[1] = n /\ o[2] = loc[j].link /\ toC[o] # <<>>
        /\ toC' = [toC EXCEPT ![o] = Tail(toC[o])] /\ toW' = toW /\ answer' = answer /\ lock' = lock
        /\ UNCHANGED <<kind, conn, cur, proc, inc, exec, staged, blind, done>>
    BY <1>1, <1>2, Zenon DEF PlacedRecv, Take, Goto, workerVars, coordVars
  <1>4. Uses(j, o)
    BY <1>0, <1>1, <1>3, Zenon DEF Uses
  <1>5. Exchange("await", placed(j), toW[o], toC[o], Ex(o),
                 Filed(o, placed(j)), <<placed(j), n>> \in done)
    <2>1. Owned(o) /\ ~ Quiet(o)
      BY <1>3, Zenon DEF Quiet
    <2> QED BY <1>0, <1>3, <1>4, <2>1, UserKnows, Zenon
  <1>6. /\ toW[o] = <<>>
        /\ \/ /\ Head(toC[o]) = Msg("Started", placed(j))
              /\ \/ Exchange("await", placed(j), toW[o], Tail(toC[o]), Ex(o),
                             Filed(o, placed(j)), <<placed(j), n>> \in done)
                 \/ Tail(toC[o]) = <<>> /\ Ex(o) = Idle
           \/ Closing(placed(j), toC[o], Ex(o), <<placed(j), n>>, done)
    BY <1>3, <1>5, ResultRead, Zenon
  <1>7. /\ DOMAIN toC' = Conns /\ toC'[o] = Tail(toC[o])
        /\ \A c \in Conns \ {o} : toC'[c] = toC[c]
    BY <1>0, <1>3, Zenon
  <1>8. (Ex(o))' = Ex(o) /\ ((Filed(o, placed(j)))' <=> Filed(o, placed(j)))
    BY <1>3, Zenon DEF Ex, Filed, Live
  <1>9. \A c \in Conns : Uses(j, c) => c = o
    BY <1>0, <1>1, <1>2, ConnPair, Zenon DEF Uses
  <1>10. ASSUME (Owned(o))' PROVE JobWires(j)
    BY <1>3, <1>7, <1>9, <1>10, Zenon DEF JobWires
  <1>11. CASE Head(toC[o]) = Msg("Started", placed(j))
    <2>1. loc' = loc /\ ph' = ph /\ misread' = misread
      BY <1>1, <1>2, <1>11 DEF PlacedRecv, Take, Msg
    <2>2. JobFrame(j)
      BY <1>0, <1>3, <1>7, <2>1, Zenon DEF JobFrame, PlacedPhases, Linked
    <2>3. (Owned(o))'
      <3>1. CASE Tail(toC[o]) = <<>> /\ Ex(o) = Idle
        BY <1>3, <1>6, <1>7, <1>8, <3>1, Zenon DEF Owned, Quiet
      <3>2. CASE ~ (Tail(toC[o]) = <<>> /\ Ex(o) = Idle)
        <4>1. Exchange("await", placed(j), toW[o], Tail(toC[o]), Ex(o),
                       Filed(o, placed(j)), <<placed(j), n>> \in done)
          BY <1>6, <3>2, Zenon DEF Closing
        <4>2. Exchange(ph'[j], placed(j), toW'[o], toC'[o], (Ex(o))',
                       (Filed(o, placed(j)))', <<placed(j), o[1]>> \in done')
          <5> HIDE DEF PlacedInv, PlacedRest
          <5>1. /\ ph'[j] = "await" /\ toW'[o] = toW[o] /\ toC'[o] = Tail(toC[o])
                /\ o[1] = n /\ done' = done
            BY <1>0, <1>3, <1>7, <2>1, Zenon
          <5>2. Exchange("await", placed(j), toW[o], Tail(toC[o]), Ex(o),
                         (Filed(o, placed(j)))', <<placed(j), n>> \in done)
            BY <1>8, <4>1, Zenon DEF Exchange
          <5> QED BY <1>8, <5>1, <5>2, Zenon
        <4>3. (Uses(j, o))'
          BY <1>3, <1>4, <2>1, Zenon DEF Uses
        <4> QED BY <4>2, <4>3, Zenon DEF Owned
      <3> QED BY <3>1, <3>2, Zenon
    <2> QED BY <1>10, <2>2, <2>3, JobRest, Zenon
  <1>12. ASSUME NEW b \in BOOLEAN, Head(toC[o]) = Result(placed(j), b),
                b => <<placed(j), n>> \in done, Tail(toC[o]) = <<>>, Ex(o) = Idle
         PROVE  PlacedRest' /\ Kept
    <2>1. /\ Head(toC[o]).kind = "Done" /\ Head(toC[o]).ok = b
          /\ Head(toC[o]).task = placed(j) /\ placed(j)[1] = j
      BY <1>12 DEF Result, placed
    <2>2. /\ loc' = [loc EXCEPT ![j].good = b] /\ ph' = [ph EXCEPT ![j] = "release"]
          /\ misread' = misread
      BY <1>1, <1>2, <2>1, Zenon DEF PlacedRecv, Take, Goto
    <2>3. /\ loc'[j].good = b /\ loc'[j].node = n /\ ph'[j] = "release"
          /\ \A k \in Jobs \ {j} : loc'[k] = loc[k] /\ ph'[k] = ph[k]
      BY <1>0, <1>1, <2>2, Zenon DEF NoLocals
    <2>4. JobFrame(j)
      BY <1>0, <1>3, <1>7, <1>12, <2>2, <2>3 DEF JobFrame, PlacedPhases
    <2>5. (Owned(o))'
      BY <1>3, <1>6, <1>7, <1>8, <1>12, Zenon DEF Owned, Quiet
    <2> QED BY <1>10, <2>4, <2>5, JobRest, Zenon
  <1> QED BY <1>6, <1>11, <1>12, Zenon DEF Closing

\* A handler whose job is placed takes the steps of a placed job.
LEMMA OnlyPlacedSteps ==
    ASSUME PlacedTables, NEW j \in Jobs, JobStep(j) PROVE PlacedStep(j)
  <1>1. kind[j] \in {"placed", "absent"} /\ ph[j] \in PlacedPhases
    BY Zenon DEF PlacedTables
  <1>2. ~ PartitionedStep(j)
    <2>1. PartitionedStep(j) => \/ kind[j] \in {"partitioned", "headless"}
                                \/ ph[j] \in {"input", "fallback", "assign", "local", "collect"}
                                \/ ph[j] \in {"offer", "go", "stage"}
      BY Zenon DEF PartitionedStep, SubmitPartitioned, OfferInputs, StageTcp, StageRecv, StageTimeout,
             AssignJobs, LocalExecutor, Collect, CollectTimeout, CollectEnd, Awaited
    <2> QED BY <1>1, <2>1, Zenon DEF PlacedPhases
  <1>3. ~ ShardedStep(j)
    <2>1. ShardedStep(j) => \/ kind[j] \in {"sharded", "window"}
                            \/ ph[j] \in {"nodes", "wave", "wstage", "gather", "window", "merge"}
      BY Zenon DEF ShardedStep, SubmitSharded, FirstWave, WaveAssign, WaveStaged, WaveStageTimeout,
             WaveLocal, WaveRecv, WaveTimeout, WaveEnd, WindowLaunch, WindowReap, WindowTimeout,
             WindowEnd, Merge
    <2> QED BY <1>1, <2>1, Zenon DEF PlacedPhases
  <1> QED BY <1>2, <1>3, Zenon DEF JobStep

\* Every step keeps the invariant, and no executor loses its handle.
LEMMA PlacedInvStep == ASSUME PlacedInv, [Next]_vars PROVE PlacedInv' /\ Kept
  <1>1. Tables' /\ ReservedExactly'
    BY ReservationsStep, Zenon DEF PlacedInv
  <1>2. PlacedRest' /\ Kept
    <2>1. ASSUME NEW w \in Workers, WorkerStep(w) \/ WorkerCrash(w) \/ AcceptReady(w)
          PROVE  PlacedRest' /\ Kept
      BY <2>1, DaemonPlaced, ReadyPlaced, Zenon
    <2>2. ASSUME NEW j \in Jobs, JobStep(j) PROVE PlacedRest' /\ Kept
      <3>1. PlacedStep(j)
        BY <2>2, OnlyPlacedSteps, Zenon DEF PlacedInv, PlacedRest
      <3> QED
        BY <3>1, AwayPlaced, TimeoutPlaced, DispatchPlaced, StagedPlaced, ReadPlaced, Zenon DEF PlacedStep
    <2>3. CASE UNCHANGED vars
      <3>1. UNCHANGED <<kind, conn, cur, lock, proc, inc, exec, staged, toW, toC, ph, loc, answer,
                        done, misread, blind>>
        BY <2>3, Zenon DEF vars, workerVars, wireVars, coordVars, jobVars, history
      <3>2. (\A c \in Conns : Owned(c))'
        BY <3>1 DEF PlacedInv, PlacedRest, Owned, Quiet, Ex, Uses, Filed, Live
      <3>3. PlacedTables' /\ WorkerTables' /\ Dead' /\ Linked' /\ Verdicts'
        BY <3>1, Zenon DEF PlacedInv, PlacedRest, PlacedTables, WorkerTables, Dead, Live, Linked, Verdicts
      <3> QED BY <3>1, <3>2, <3>3, Zenon DEF PlacedInv, PlacedRest, Kept
    <2> QED BY <2>1, <2>2, <2>3, DrainPlaced, Zenon DEF Next
  <1> QED BY <1>1, <1>2, Zenon DEF PlacedInv

\* At the start the connections are empty.
LEMMA PlacedInit == ASSUME PlacedOnly, Init PROVE PlacedInv
  <1>1. Tables /\ ReservedExactly
    BY ReservationsInit, Zenon
  <1>2. \A j \in Jobs : kind[j] \in {"placed", "absent"}
    BY Zenon DEF Init, PlacedOnly
  <1>3. PlacedTables /\ Linked /\ Verdicts
    BY <1>2, Zenon DEF Init, PlacedTables, PlacedPhases, Linked, Verdicts
  <1>4. WorkerTables /\ Dead
    BY AgentAssumption DEF Init, WorkerTables, Dead
  <1>5. \A c \in Conns : Owned(c)
    BY ConnPair, Zenon DEF Init, Owned, Quiet, Ex
  <1> QED BY <1>1, <1>3, <1>4, <1>5, Zenon DEF PlacedInv, PlacedRest, Init

\* With placed jobs only, as many as there may be, on any number of workers
\* that crash and restart at any time: what is on a connection belongs to the
\* one job that talks over it (dispatch_to_node, worker.rs).
THEOREM PlacedInvariant == ASSUME PlacedOnly PROVE Spec => []PlacedInv
  <1>1. Init => PlacedInv
    BY PlacedInit, Zenon
  <1>2. PlacedInv /\ [Next]_vars => PlacedInv'
    BY PlacedInvStep, Zenon
  <1> QED BY <1>1, <1>2, PTL DEF Spec

\* Then a job is reported successful only when its executor has exited with
\* success on the node it was given (run_placed_job).
THEOREM PlacedNoFalseSuccess == ASSUME PlacedOnly PROVE Spec => []NoFalseSuccess
  <1>1. PlacedInv => NoFalseSuccess
    <2> SUFFICES ASSUME PlacedInv PROVE NoFalseSuccess
      BY Zenon
    <2>1. ASSUME NEW j \in Jobs, answer[j] = "ok" PROVE Earned(j)
      <3>1. ph[j] = "end" /\ <<placed(j), loc[j].node>> \in done /\ kind[j] = "placed"
        BY <2>1, Zenon DEF PlacedInv, PlacedRest, Verdicts, PlacedTables
      <3> QED BY <3>1, Zenon DEF Earned, Owed, placed
    <2> QED BY <2>1, Zenon DEF NoFalseSuccess
  <1> QED BY <1>1, PlacedInvariant, PTL

\* Nobody takes a result of another job from a socket, neither the thread of
\* a job nor the drain of the accept loop.
THEOREM PlacedOneReader == ASSUME PlacedOnly PROVE Spec => []OneReaderPerSocket
  <1>1. PlacedInv => OneReaderPerSocket
    BY Zenon DEF PlacedInv, PlacedRest, OneReaderPerSocket
  <1> QED BY <1>1, PlacedInvariant, PTL

\* Every executor starts with its input files on the disk of its node: the
\* clean-up of one job is over before the files of the next one come.
THEOREM PlacedInputsFirst == ASSUME PlacedOnly PROVE Spec => []InputsBeforeStart
  <1>1. PlacedInv => InputsBeforeStart
    BY Zenon DEF PlacedInv, PlacedRest, InputsBeforeStart
  <1> QED BY <1>1, PlacedInvariant, PTL

\* And AssignJob never overwrites the handle of an executor that runs: the
\* worker has reported one job before the next reaches it (worker.rs).
THEOREM PlacedNoOrphan == ASSUME PlacedOnly PROVE Spec => NoOrphan
  <1>1. PlacedInv /\ [Next]_vars =>
          [\A w \in Workers : exec[w].st # "none" =>
               exec'[w].task = exec[w].task \/ exec'[w] = Idle]_vars
    BY PlacedInvStep, Zenon DEF Kept
  <1> QED BY <1>1, PlacedInvariant, PTL DEF Spec, NoOrphan

-----------------------------------------------------------------------------
(* Partitioned jobs: the invariant                                         *)

\* Only partitioned jobs, and divide-and-merge jobs that run locally, are
\* submitted.  A job after which another follows is not disturbed by crashes.
SerializedOnly ==
    \A s \in Scenes :
        /\ \A j \in Jobs : s.kinds[j] \in {"partitioned", "window", "absent"}
        /\ \/ s.crashes = 0
           \/ \A j, k \in Jobs : s.kinds[j] # "absent" /\ s.kinds[k] # "absent" => j = k

\* Some message of the channel q is a k; at most one is.
Has(q, k) == \E i \in DOMAIN q : q[i].kind = k
Once(q, k) == \A h, i \in DOMAIN q : q[h].kind = k /\ q[i].kind = k => h = i

StagePhases == {"input", "offer", "go", "stage", "fallback", "assign"}
RunPhases == {"local", "collect"}

\* The accept thread serves one job at a time, and a partitioned job has
\* something for the coordinator to run.
SerialJob(j) ==
    /\ kind[j] \in {"partitioned", "window", "absent"}
    /\ kind[j] = "partitioned" => ph[j] \in StagePhases \cup RunPhases \cup {"new", "end"}
    /\ kind[j] = "window" => ph[j] \in {"new", "window", "merge", "end"}
    /\ kind[j] = "absent" => ph[j] = "new"
    /\ ph[j] \notin {"new", "end"} => cur = j
    /\ ph[j] \in StagePhases => Coord \in loc[j].parts

Serial == \A j \in Jobs : SerialJob(j)

Attached ==
    /\ conn \in [Workers -> 0 .. MaxInc] /\ DOMAIN staged = Workers
    /\ \A w \in Workers : conn[w] <= inc[w] /\ (proc[w] = "down" => exec[w] = Idle)

\* Connection c is the one in the map.
Mapped(c) == conn[c[1]] = c[2]

\* Job j waits for the result of w.
Expecting(j, w) ==
    \/ ph[j] = "local" /\ w \in loc[j].parts
    \/ ph[j] = "collect" /\ w \in loc[j].wait

\* No order to run, no executor and no result is on the connection.
NoRun(c) == ~ Has(toW[c], "Assign") /\ Ex(c) = Idle /\ ~ Has(toC[c], "Done")

\* At most one of them is, and it is of task t.
OneRun(c, t) ==
    /\ Once(toW[c], "Assign") /\ Once(toC[c], "Done")
    /\ Has(toW[c], "Assign") => Ex(c) = Idle
    /\ Has(toC[c], "Done") => Ex(c) = Idle /\ ~ Has(toW[c], "Assign")
    /\ Ex(c) # Idle => Ex(c).task = t
    /\ \A i \in DOMAIN toW[c] : toW[c][i].kind = "Assign" => toW[c][i].task = t
    /\ \A i \in DOMAIN toC[c] : toC[c][i].kind = "Done" =>
          toC[c][i].task = t /\ (toC[c][i].ok => <<t, c[1]>> \in done)

\* The files of task t are on their way in q, before the order to run, and a
\* worker that drops everything until InputShareGo does not come out of that
\* after it has dropped them.
Coming(q, t) ==
    \E p \in DOMAIN q :
        /\ q[p].kind \in {"Stage", "Go"} /\ q[p].task = t
        /\ \A i \in DOMAIN q : /\ q[i].kind = "Go" => i <= p
                               /\ q[i].kind = "Assign" => p < i

\* The files are there or coming, or the worker drops all that comes.
Equipped(c, t) ==
    \/ t \in staged[c[1]]
    \/ Coming(toW[c], t)
    \/ proc[c[1]] = "share" /\ ~ Has(toW[c], "Go")

\* Job j has sent files over c, and the executor has not started.
Sent(j, c) ==
    /\ Mapped(c) /\ Live(c) /\ c[1] \in loc[j].need
    /\ \/ ph[j] \in {"go", "stage", "assign"}
       \/ Expecting(j, c[1]) /\ Has(toW[c], "Assign")

\* Nothing is at the end of a connection that is gone, and nothing has been
\* sent over one that is not in the map yet.  Over the one in the map there is
\* at most the run that the current job waits for, and its files come first.
Sound(c) ==
    /\ ~ Live(c) => toW[c] = <<>> /\ Ex(c) = Idle
    /\ ~ Mapped(c) /\ inc[c[1]] <= c[2] => Quiet(c)
    /\ Mapped(c) => NoRun(c) \/ \E j \in Jobs : Expecting(j, c[1]) /\ OneRun(c, task0(j))
    /\ \A j \in Jobs : Sent(j, c) => Equipped(c, task0(j))

\* A partitioned job counts the workers that have succeeded.
CountedJob(j) ==
    kind[j] = "partitioned" =>
        /\ answer[j] = "ok" => ph[j] = "end"
        /\ \/ ph[j] = "collect" /\ loc[j].good
           \/ answer[j] = "ok"
           => \A w \in loc[j].expected :
                  \/ ph[j] = "collect" /\ w \in loc[j].wait
                  \/ <<task0(j), w>> \in done

Counted == \A j \in Jobs : CountedJob(j)

SerialRest ==
    /\ Serial /\ Attached /\ Counted
    /\ \A c \in Conns : Sound(c)
    /\ misread = {} /\ blind = {}

SerialInv == ShardedInv /\ SerialRest

-----------------------------------------------------------------------------
(* Channels                                                                *)

\* What is left of a channel, position by position.
LEMMA TailPositions ==
    ASSUME NEW s, AnySeq(s), s # <<>>
    PROVE  /\ 1 \in DOMAIN s /\ Head(s) = s[1] /\ DOMAIN s \subseteq Nat \ {0}
           /\ \A i \in DOMAIN Tail(s) : i \in Nat \ {0} /\ i + 1 \in DOMAIN s /\ Tail(s)[i] = s[i + 1]
           /\ \A i \in DOMAIN s : i # 1 => i - 1 \in DOMAIN Tail(s) /\ Tail(s)[i - 1] = s[i]
  <1>1. PICK S : s \in Seq(S)
    BY Zenon DEF AnySeq
  <1>2. Tail(s) \in Seq(S) /\ Len(s) \in Nat \ {0} /\ DOMAIN s = 1 .. Len(s) /\ Len(Tail(s)) = Len(s) - 1
    BY <1>1
  <1>3. DOMAIN Tail(s) = 1 .. Len(s) - 1
    BY <1>2
  <1>4. \A i \in 1 .. Len(s) - 1 : Tail(s)[i] = s[i + 1]
    BY <1>1, <1>2
  <1>5. Head(s) = s[1]
    BY <1>1, <1>2
  <1> QED BY <1>2, <1>3, <1>4, <1>5

\* A channel with a message more.
LEMMA AppendPositions ==
    ASSUME NEW s, AnySeq(s), NEW m
    PROVE  \E n \in Nat \ {0} :
              /\ n \notin DOMAIN s /\ DOMAIN Append(s, m) = DOMAIN s \cup {n} /\ Append(s, m)[n] = m
              /\ \A i \in DOMAIN s : i \in Nat /\ i < n /\ Append(s, m)[i] = s[i]
  <1>1. PICK S : s \in Seq(S)
    BY Zenon DEF AnySeq
  <1>2. s \in Seq(S \cup {m}) /\ m \in S \cup {m}
    BY <1>1
  <1>3. Len(s) \in Nat /\ DOMAIN s = 1 .. Len(s)
    BY <1>1
  <1>4. Append(s, m) \in Seq(S \cup {m}) /\ Len(Append(s, m)) = Len(s) + 1
    BY <1>2
  <1>5. DOMAIN Append(s, m) = 1 .. Len(s) + 1
    BY <1>4
  <1>6. Append(s, m)[Len(s) + 1] = m /\ \A i \in 1 .. Len(s) : Append(s, m)[i] = s[i]
    BY <1>2, <1>3
  <1>7. /\ Len(s) + 1 \in Nat \ {0} /\ Len(s) + 1 \notin DOMAIN s
        /\ 1 .. Len(s) + 1 = DOMAIN s \cup {Len(s) + 1} /\ \A i \in DOMAIN s : i \in Nat /\ i < Len(s) + 1
    BY <1>3
  <1> QED BY <1>3, <1>5, <1>6, <1>7

\* Reading a message adds none to the rest.
LEMMA TailHas ==
    ASSUME NEW s, AnySeq(s), s # <<>>, NEW k
    PROVE  /\ Has(Tail(s), k) => Has(s, k)
           /\ Once(s, k) => Once(Tail(s), k)
           /\ Once(s, k) /\ Head(s).kind = k => ~ Has(Tail(s), k)
           /\ Head(s).kind = k => Has(s, k)
  <1>1. /\ 1 \in DOMAIN s /\ Head(s) = s[1]
        /\ \A i \in DOMAIN Tail(s) : i \in Nat \ {0} /\ i + 1 \in DOMAIN s /\ Tail(s)[i] = s[i + 1]
    BY TailPositions, Zenon
  <1>2. Has(Tail(s), k) => Has(s, k)
    BY <1>1, Zenon DEF Has
  <1>3. Once(s, k) => Once(Tail(s), k)
    <2> SUFFICES ASSUME Once(s, k), NEW h \in DOMAIN Tail(s), NEW i \in DOMAIN Tail(s),
                        Tail(s)[h].kind = k, Tail(s)[i].kind = k
                 PROVE  h = i
      BY Zenon DEF Once
    <2>1. h + 1 = i + 1 /\ h \in Nat /\ i \in Nat
      BY <1>1, Zenon DEF Once
    <2> QED BY <2>1
  <1>4. Once(s, k) /\ Head(s).kind = k => ~ Has(Tail(s), k)
    <2> SUFFICES ASSUME Once(s, k), Head(s).kind = k, NEW i \in DOMAIN Tail(s), Tail(s)[i].kind = k
                 PROVE  FALSE
      BY Zenon DEF Has
    <2>1. 1 = i + 1 /\ i \in Nat \ {0}
      BY <1>1, Zenon DEF Once
    <2> QED BY <2>1
  <1>5. Head(s).kind = k => Has(s, k)
    BY <1>1, Zenon DEF Has
  <1> QED BY <1>2, <1>3, <1>4, <1>5, Zenon

\* Writing a message adds that one.
LEMMA AppendHas ==
    ASSUME NEW s, AnySeq(s), NEW m, NEW k
    PROVE  /\ Has(Append(s, m), k) <=> Has(s, k) \/ m.kind = k
           /\ Once(s, k) /\ m.kind # k => Once(Append(s, m), k)
           /\ ~ Has(s, k) => Once(Append(s, m), k)
  <1>1. PICK n \in Nat \ {0} :
          /\ n \notin DOMAIN s /\ DOMAIN Append(s, m) = DOMAIN s \cup {n} /\ Append(s, m)[n] = m
          /\ \A i \in DOMAIN s : i \in Nat /\ i < n /\ Append(s, m)[i] = s[i]
    BY AppendPositions, Zenon
  <1>2. Has(Append(s, m), k) <=> Has(s, k) \/ m.kind = k
    BY <1>1, Zenon DEF Has
  <1>3. Once(s, k) /\ m.kind # k => Once(Append(s, m), k)
    BY <1>1, Zenon DEF Once
  <1>4. ~ Has(s, k) => Once(Append(s, m), k)
    BY <1>1, Zenon DEF Once, Has
  <1> QED BY <1>2, <1>3, <1>4, Zenon

\* The channel r is s with the message m more; it is what is left of s.
Grown(r, s, m) == AnySeq(s) /\ r = Append(s, m)
Shrunk(r, s) == AnySeq(s) /\ s # <<>> /\ r = Tail(s)

\* The messages of a channel that has grown.
LEMMA Written ==
    ASSUME NEW s, NEW r, NEW m, Grown(r, s, m), NEW k, m.kind # k
    PROVE  /\ Has(r, k) => Has(s, k)
           /\ Once(s, k) => Once(r, k)
  <1>1. /\ Has(Append(s, m), k) => Has(s, k)
        /\ Once(s, k) => Once(Append(s, m), k)
    BY AppendHas, Zenon DEF Grown
  <1> QED BY <1>1 DEF Grown

\* A message is the only one of its kind if there was none.
LEMMA WrittenFirst ==
    ASSUME NEW s, NEW r, NEW m, Grown(r, s, m), NEW k, ~ Has(s, k)
    PROVE  Once(r, k)
  <1>1. Once(Append(s, m), k)
    BY AppendHas, Zenon DEF Grown
  <1> QED BY <1>1 DEF Grown

\* Every message was there or is the new one.
LEMMA WrittenWhere ==
    ASSUME NEW s, NEW r, NEW m, Grown(r, s, m), NEW i \in DOMAIN r, r[i] # m
    PROVE  \E h \in DOMAIN s : r[i] = s[h]
  BY AppendAnySeq DEF Grown

\* The messages of a channel that has shrunk.
LEMMA Received ==
    ASSUME NEW s, NEW r, Shrunk(r, s), NEW k
    PROVE  /\ Has(r, k) => Has(s, k)
           /\ Once(s, k) => Once(r, k)
           /\ Once(s, k) /\ Head(s).kind = k => ~ Has(r, k)
           /\ Head(s).kind = k => Has(s, k)
  <1>1. /\ Has(Tail(s), k) => Has(s, k)
        /\ Once(s, k) => Once(Tail(s), k)
        /\ Once(s, k) /\ Head(s).kind = k => ~ Has(Tail(s), k)
        /\ Head(s).kind = k => Has(s, k)
    BY TailHas, Zenon DEF Shrunk
  <1> QED BY <1>1 DEF Shrunk

\* Every message was there.
LEMMA ReceivedWhere ==
    ASSUME NEW s, NEW r, Shrunk(r, s), NEW i \in DOMAIN r
    PROVE  \E h \in DOMAIN s : r[i] = s[h]
  BY TailAnySeq DEF Shrunk

\* An empty channel has nothing.
LEMMA EmptyHas == \A k, t : ~ Has(<<>>, k) /\ Once(<<>>, k) /\ ~ Coming(<<>>, t)
  BY EmptyAnySeq, Zenon DEF Has, Once, Coming

\* Files that are coming are still coming after a message is read, or it was
\* the one that brings them and no InputShareGo is behind it.
LEMMA ComingTail ==
    ASSUME NEW s, AnySeq(s), s # <<>>, NEW t, Coming(s, t)
    PROVE  /\ Head(s).kind # "Assign"
           /\ \/ Coming(Tail(s), t)
              \/ Head(s).kind \in {"Stage", "Go"} /\ Head(s).task = t /\ ~ Has(Tail(s), "Go")
  <1>1. /\ 1 \in DOMAIN s /\ Head(s) = s[1] /\ DOMAIN s \subseteq Nat \ {0}
        /\ \A i \in DOMAIN Tail(s) : i \in Nat \ {0} /\ i + 1 \in DOMAIN s /\ Tail(s)[i] = s[i + 1]
        /\ \A i \in DOMAIN s : i # 1 => i - 1 \in DOMAIN Tail(s) /\ Tail(s)[i - 1] = s[i]
    BY TailPositions, Zenon
  <1>2. PICK p \in DOMAIN s :
          /\ s[p].kind \in {"Stage", "Go"} /\ s[p].task = t
          /\ \A i \in DOMAIN s : /\ s[i].kind = "Go" => i <= p
                                 /\ s[i].kind = "Assign" => p < i
    BY Zenon DEF Coming
  <1>3. p \in Nat \ {0}
    BY <1>1, Zenon
  <1>4. Head(s).kind # "Assign"
    <2>1. s[1].kind = "Assign" => p < 1
      BY <1>1, <1>2, Zenon
    <2> QED BY <1>1, <1>3, <2>1
  <1>5. CASE p = 1
    <2>1. ASSUME NEW i \in DOMAIN Tail(s), Tail(s)[i].kind = "Go" PROVE FALSE
      <3>1. i + 1 <= p /\ i \in Nat \ {0}
        BY <1>1, <1>2, <2>1, Zenon
      <3> QED BY <1>5, <3>1
    <2>2. ~ Has(Tail(s), "Go")
      BY <2>1, Zenon DEF Has
    <2> QED BY <1>1, <1>2, <1>4, <1>5, <2>2, Zenon
  <1>6. CASE p # 1
    <2>1. p - 1 \in DOMAIN Tail(s) /\ Tail(s)[p - 1] = s[p]
      BY <1>1, <1>6, Zenon
    <2>2. ASSUME NEW i \in DOMAIN Tail(s)
          PROVE  /\ Tail(s)[i].kind = "Go" => i <= p - 1
                 /\ Tail(s)[i].kind = "Assign" => p - 1 < i
      <3>1. /\ i \in Nat /\ (Tail(s)[i].kind = "Go" => i + 1 <= p)
            /\ (Tail(s)[i].kind = "Assign" => p < i + 1)
        BY <1>1, <1>2, Zenon
      <3> QED BY <1>3, <3>1
    <2>3. Coming(Tail(s), t)
      BY <1>2, <2>1, <2>2, Zenon DEF Coming
    <2> QED BY <1>4, <2>3, Zenon
  <1> QED BY <1>5, <1>6, Zenon

\* Writing the order to run behind the files leaves them coming first;
\* writing the files where there is no such order makes them coming.
LEMMA ComingAppend ==
    ASSUME NEW s, AnySeq(s), NEW m, NEW t
    PROVE  /\ Coming(s, t) /\ m.kind # "Go" => Coming(Append(s, m), t)
           /\ m.kind \in {"Stage", "Go"} /\ m.task = t /\ ~ Has(s, "Assign") => Coming(Append(s, m), t)
  <1>1. PICK n \in Nat \ {0} :
          /\ n \notin DOMAIN s /\ DOMAIN Append(s, m) = DOMAIN s \cup {n} /\ Append(s, m)[n] = m
          /\ \A i \in DOMAIN s : i \in Nat /\ i < n /\ Append(s, m)[i] = s[i]
    BY AppendPositions, Zenon
  <1>2. ASSUME Coming(s, t), m.kind # "Go" PROVE Coming(Append(s, m), t)
    <2>1. PICK p \in DOMAIN s :
            /\ s[p].kind \in {"Stage", "Go"} /\ s[p].task = t
            /\ \A i \in DOMAIN s : /\ s[i].kind = "Go" => i <= p
                                   /\ s[i].kind = "Assign" => p < i
      BY <1>2, Zenon DEF Coming
    <2>2. p \in DOMAIN Append(s, m) /\ Append(s, m)[p] = s[p] /\ p < n
      BY <1>1, Zenon
    <2>3. ASSUME NEW i \in DOMAIN Append(s, m)
          PROVE  /\ Append(s, m)[i].kind = "Go" => i <= p
                 /\ Append(s, m)[i].kind = "Assign" => p < i
      <3>1. CASE i = n
        BY <1>1, <1>2, <2>2, <3>1, Zenon
      <3>2. CASE i \in DOMAIN s
        BY <1>1, <2>1, <3>2, Zenon
      <3> QED BY <1>1, <3>1, <3>2, Zenon
    <2> QED BY <2>1, <2>2, <2>3, Zenon DEF Coming
  <1>3. ASSUME m.kind \in {"Stage", "Go"}, m.task = t, ~ Has(s, "Assign") PROVE Coming(Append(s, m), t)
    <2>1. n \in DOMAIN Append(s, m) /\ Append(s, m)[n] = m
      BY <1>1, Zenon
    <2>2. ASSUME NEW i \in DOMAIN Append(s, m)
          PROVE  /\ Append(s, m)[i].kind = "Go" => i <= n
                 /\ Append(s, m)[i].kind = "Assign" => n < i
      <3>1. CASE i = n
        <4>1. m.kind # "Assign" /\ n <= n
          BY <1>1, <1>3
        <4> QED BY <1>1, <3>1, <4>1, Zenon
      <3>2. CASE i \in DOMAIN s
        <4>1. i <= n
          BY <1>1, <3>2
        <4> QED BY <1>1, <1>3, <3>2, <4>1, Zenon DEF Has
      <3> QED BY <1>1, <3>1, <3>2, Zenon
    <2> QED BY <1>3, <2>1, <2>2, Zenon DEF Coming
  <1> QED BY <1>2, <1>3, Zenon

-----------------------------------------------------------------------------
(* Connections                                                             *)

\* The channels of a connection are sequences.
LEMMA Channels ==
    ASSUME ShardedInv, NEW c \in Conns PROVE AnySeq(toW[c]) /\ AnySeq(toC[c])
  BY Zenon DEF ShardedInv, WorkerWires, CoordWires

\* At most one job is served, and none when the accept thread is free.
LEMMA OneServed ==
    ASSUME Serial, NEW j \in Jobs, NEW k \in Jobs,
           ph[j] \notin {"new", "end"}, ph[k] \notin {"new", "end"}
    PROVE  j = k /\ cur # None
  <1>1. cur = j /\ cur = k
    BY Zenon DEF Serial, SerialJob
  <1> QED BY <1>1, AgentAssumption, Zenon

\* A job that waits for results is being served.
LEMMA ExpectingServed ==
    ASSUME NEW j \in Jobs, NEW w, Expecting(j, w)
    PROVE  ph[j] \in RunPhases /\ ph[j] \notin {"new", "end"}
  <1>1. ph[j] = "local" \/ ph[j] = "collect"
    BY Zenon DEF Expecting
  <1> QED BY <1>1 DEF RunPhases

\* A run that nobody disturbs stays what it is.
LEMMA RunStays ==
    ASSUME NEW c, toW'[c] = toW[c], toC'[c] = toC[c], (Ex(c))' = Ex(c), done \subseteq done'
    PROVE  /\ NoRun(c) => (NoRun(c))'
           /\ \A t : OneRun(c, t) => (OneRun(c, t))'
           /\ Quiet(c) => (Quiet(c))'
  <1>1. NoRun(c) => (NoRun(c))'
    BY Zenon DEF NoRun
  <1>2. \A t : OneRun(c, t) => (OneRun(c, t))'
    BY Zenon DEF OneRun
  <1>3. Quiet(c) => (Quiet(c))'
    BY Zenon DEF Quiet
  <1> QED BY <1>1, <1>2, <1>3, Zenon

\* A connection stays sound in a step that happens elsewhere, unless the job
\* that waits for it stops waiting.
LEMMA SoundStays ==
    ASSUME NEW c, Sound(c),
           toW'[c] = toW[c], toC'[c] = toC[c], (Ex(c))' = Ex(c), done \subseteq done',
           (Live(c))' <=> Live(c), (Mapped(c))' <=> Mapped(c), inc' = inc,
           Live(c) => staged'[c[1]] = staged[c[1]] /\ proc'[c[1]] = proc[c[1]],
           Mapped(c) => NoRun(c) \/ \A j \in Jobs : Expecting(j, c[1]) => (Expecting(j, c[1]))',
           \A j \in Jobs : (Sent(j, c))' => Sent(j, c)
    PROVE  (Sound(c))'
  <1>1. (~ Live(c) => toW[c] = <<>> /\ Ex(c) = Idle)'
    BY Zenon DEF Sound
  <1>2. (~ Mapped(c) /\ inc[c[1]] <= c[2] => Quiet(c))'
    BY RunStays, Zenon DEF Sound
  <1>3. (Mapped(c) => NoRun(c) \/ \E j \in Jobs : Expecting(j, c[1]) /\ OneRun(c, task0(j)))'
    BY RunStays, Zenon DEF Sound, task0
  <1>4. ASSUME NEW j \in Jobs, (Sent(j, c))' PROVE (Equipped(c, task0(j)))'
    <2>1. Live(c) /\ Equipped(c, task0(j))
      BY <1>4, Zenon DEF Sound, Sent
    <2> QED BY <2>1, Zenon DEF Equipped, task0
  <1> QED BY <1>1, <1>2, <1>3, <1>4, Zenon DEF Sound

-----------------------------------------------------------------------------
(* The daemons                                                             *)

\* A step of the daemon of w on its own connection.
DaemonAct(w) ==
    /\ Aside /\ conn' = conn /\ cur' = cur /\ inc' = inc
    /\ misread' = misread /\ done \subseteq done' /\ DOMAIN staged' = Workers
    /\ \A v \in Workers \ {w} : proc'[v] = proc[v] /\ exec'[v] = exec[v] /\ staged'[v] = staged[v]
    /\ \A c \in Conns \ {Own(w)} : toW'[c] = toW[c] /\ toC'[c] = toC[c]
    /\ proc'[w] = "down" => exec'[w] = Idle

\* What is known of the connection of a daemon that runs.
LEMMA OwnKnown ==
    ASSUME SerialInv, NEW w \in Workers, proc[w] # "down", NEW c, c = Own(w)
    PROVE  /\ c \in Conns /\ c[1] = w /\ c[2] = inc[w] /\ Live(c) /\ Ex(c) = exec[w]
           /\ AnySeq(toW[c]) /\ AnySeq(toC[c]) /\ Sound(c)
           /\ ~ Mapped(c) => Quiet(c)
  <1>1. inc[w] \in 1 .. MaxInc
    <2>1. inc[w] \in 0 .. MaxInc /\ inc[w] # 0
      BY Zenon DEF SerialInv, ShardedInv, Daemons
    <2> QED BY <2>1, AgentAssumption
  <1>2. c \in Conns /\ c[1] = w /\ c[2] = inc[w]
    BY <1>1 DEF Own, Conns
  <1>3. Live(c) /\ Ex(c) = exec[w]
    BY <1>2, Zenon DEF Live, Ex
  <1>4. Sound(c)
    BY <1>2, Zenon DEF SerialInv, SerialRest
  <1>5. inc[c[1]] <= c[2]
    BY <1>1, <1>2, AgentAssumption
  <1>6. ~ Mapped(c) => Quiet(c)
    BY <1>4, <1>5, Zenon DEF Sound
  <1> QED BY <1>2, <1>3, <1>4, <1>6, Channels, Zenon DEF SerialInv

\* Such a step concerns that connection only.
LEMMA DaemonRest ==
    ASSUME SerialInv, NEW w \in Workers, DaemonAct(w), proc[w] # "down", blind' = {},
           NEW o, o = Own(w), (Sound(o))'
    PROVE  SerialRest'
  <1> USE DEF SerialInv, SerialRest
  <1>1. Serial'
    BY Zenon DEF Serial, SerialJob, DaemonAct, Aside
  <1>2. Attached'
    <2>1. \A v \in Workers : proc'[v] = "down" => exec'[v] = Idle
      BY Zenon DEF Attached, DaemonAct
    <2> QED BY <2>1, Zenon DEF Attached, DaemonAct
  <1>3. Counted'
    BY Zenon DEF Counted, CountedJob, DaemonAct, Aside, task0
  <1>4. ASSUME NEW c \in Conns, c # o PROVE (Sound(c))'
    <2>1. c[1] \in Workers /\ (c[1] # w \/ c[2] # inc[w])
      BY <1>4, ConnPair, Zenon DEF Own
    <2>2. toW'[c] = toW[c] /\ toC'[c] = toC[c] /\ done \subseteq done' /\ inc' = inc
      BY <1>4, Zenon DEF DaemonAct
    <2>3. /\ (Ex(c))' = Ex(c) /\ ((Live(c))' <=> Live(c))
          /\ Live(c) => staged'[c[1]] = staged[c[1]] /\ proc'[c[1]] = proc[c[1]]
      <3>1. CASE c[1] # w
        BY <2>1, <3>1, Zenon DEF DaemonAct, Ex, Live
      <3>2. CASE c[1] = w /\ c[2] # inc[w]
        BY <3>2, Zenon DEF DaemonAct, Ex, Live
      <3> QED BY <2>1, <3>1, <3>2, Zenon
    <2>4. (Mapped(c))' <=> Mapped(c)
      BY Zenon DEF DaemonAct, Mapped
    <2>5. \A j \in Jobs : (Expecting(j, c[1]))' <=> Expecting(j, c[1])
      BY Zenon DEF DaemonAct, Aside, Expecting
    <2>6. \A j \in Jobs : (Sent(j, c))' => Sent(j, c)
      BY <2>2, <2>3, <2>4, <2>5, Zenon DEF Sent, DaemonAct, Aside
    <2>7. Sound(c)
      BY Zenon
    <2> QED BY <2>2, <2>3, <2>4, <2>5, <2>6, <2>7, SoundStays, Zenon
  <1> QED BY <1>1, <1>2, <1>3, <1>4, Zenon DEF DaemonAct

\* The connection of w after a step of its daemon, part by part.
LEMMA OwnSound ==
    ASSUME NEW w \in Workers, DaemonAct(w), NEW c, c[1] = w, c[2] = inc[w],
           proc'[w] = "down" => toW'[c] = <<>> /\ exec'[w] = Idle,
           ~ Mapped(c) => (Quiet(c))',
           Mapped(c) => (NoRun(c))' \/ \E j \in Jobs : Expecting(j, w) /\ (OneRun(c, task0(j)))',
           \A j \in Jobs : (Sent(j, c))' => (Equipped(c, task0(j)))'
    PROVE  (Sound(c))'
  <1>1. ((Mapped(c))' <=> Mapped(c)) /\ (Ex(c))' = exec'[w] /\ ((Live(c))' <=> proc'[w] # "down")
    BY Zenon DEF DaemonAct, Mapped, Ex, Live
  <1>2. \A j \in Jobs : (Expecting(j, c[1]))' <=> Expecting(j, w)
    BY Zenon DEF DaemonAct, Aside, Expecting
  <1>3. (~ Live(c) => toW[c] = <<>> /\ Ex(c) = Idle)'
    BY <1>1, Zenon
  <1>4. (~ Mapped(c) /\ inc[c[1]] <= c[2] => Quiet(c))'
    BY <1>1, Zenon
  <1>5. (Mapped(c) => NoRun(c) \/ \E j \in Jobs : Expecting(j, c[1]) /\ OneRun(c, task0(j)))'
    BY <1>1, <1>2, Zenon DEF task0
  <1> QED BY <1>3, <1>4, <1>5, Zenon DEF Sound

\* Once the executor has the order to run, no files are owed: the job that
\* waits for the result is the only one that is served.
LEMMA StartedOwesNone ==
    ASSUME SerialInv, NEW w \in Workers, DaemonAct(w), NEW c, c[1] = w,
           NEW j \in Jobs, Expecting(j, w), ~ (Has(toW[c], "Assign"))'
    PROVE  \A k \in Jobs : ~ (Sent(k, c))'
  <1> SUFFICES ASSUME NEW k \in Jobs, (Sent(k, c))' PROVE FALSE
    BY Zenon
  <1>1. ph'[k] \in {"go", "stage", "assign"} /\ ph' = ph
    BY Zenon DEF Sent, DaemonAct, Aside
  <1>2. ph[k] \notin {"new", "end"} /\ ph[k] \notin RunPhases
    BY <1>1 DEF RunPhases
  <1>3. ph[j] \in RunPhases /\ ph[j] \notin {"new", "end"}
    BY ExpectingServed, Zenon
  <1> QED BY <1>2, <1>3, OneServed, Zenon DEF SerialInv, SerialRest

\* The process is gone: what it had sent is still there for its job.
LEMMA ExitSerial ==
    ASSUME SerialInv, NEW w \in Workers, proc[w] # "down", Exit(w), Aside,
           conn' = conn, cur' = cur, UNCHANGED history
    PROVE  SerialRest' /\ Kept
  <1>1. PICK c : c = Own(w)
    BY Zenon
  <1>2. /\ c \in Conns /\ c[1] = w /\ c[2] = inc[w] /\ Ex(c) = exec[w]
        /\ Sound(c) /\ (~ Mapped(c) => Quiet(c))
    BY <1>1, OwnKnown, Zenon
  <1>3. /\ DOMAIN proc = Workers /\ DOMAIN exec = Workers /\ DOMAIN staged = Workers
        /\ DOMAIN toW = Conns
    BY Zenon DEF SerialInv, SerialRest, ShardedInv, Daemons, WorkerWires, Attached
  <1>4. /\ inc' = inc /\ toC' = toC /\ proc'[w] = "down" /\ exec'[w] = Idle /\ toW'[c] = <<>>
        /\ DOMAIN staged' = Workers
        /\ \A v \in Workers \ {w} : proc'[v] = proc[v] /\ exec'[v] = exec[v] /\ staged'[v] = staged[v]
        /\ \A b \in Conns \ {c} : toW'[b] = toW[b]
    BY <1>1, <1>2, <1>3, Zenon DEF Exit, Own
  <1>5. misread' = misread /\ done' = done /\ blind' = {}
    BY Zenon DEF history, SerialInv, SerialRest
  <1>6. DaemonAct(w)
    BY <1>1, <1>4, <1>5, Zenon DEF DaemonAct
  <1>7. (Ex(c))' = Idle /\ ~ (Live(c))'
    BY <1>2, <1>4, Zenon DEF Ex, Live
  <1>8. ~ Mapped(c) => (Quiet(c))'
    BY <1>2, <1>4, <1>7, Zenon DEF Quiet
  <1>9. NoRun(c) => (NoRun(c))'
    BY <1>4, <1>7, EmptyHas, Zenon DEF NoRun
  <1>10. ASSUME NEW t, OneRun(c, t) PROVE (OneRun(c, t))'
    <2>1. ~ Has(toW'[c], "Assign") /\ Once(toW'[c], "Assign") /\ DOMAIN toW'[c] = {}
      BY <1>4, EmptyHas, EmptyAnySeq, Zenon
    <2> QED BY <1>4, <1>5, <1>7, <1>10, <2>1, Zenon DEF OneRun
  <1>11. Mapped(c) => (NoRun(c))' \/ \E j \in Jobs : Expecting(j, w) /\ (OneRun(c, task0(j)))'
    <2>1. ASSUME NEW j \in Jobs, OneRun(c, task0(j)) PROVE (OneRun(c, task0(j)))'
      BY <1>10, <2>1, Zenon DEF task0
    <2> QED BY <1>2, <1>9, <2>1, Zenon DEF Sound
  <1>12. \A j \in Jobs : ~ (Sent(j, c))'
    BY <1>7, Zenon DEF Sent
  <1>13. (Sound(c))'
    BY <1>2, <1>4, <1>6, <1>8, <1>11, <1>12, OwnSound, Zenon
  <1>14. Kept
    BY <1>4, Zenon DEF Kept
  <1> QED BY <1>1, <1>5, <1>6, <1>13, <1>14, DaemonRest, Zenon

\* What the worker says that is no result.
Said(c) == toC'[c] = toC[c] \/ \E m : m.kind # "Done" /\ toC'[c] = Append(toC[c], m)

\* Then there are the results that were there.
LEMMA SaidNoResult ==
    ASSUME NEW c, AnySeq(toC[c]), Said(c)
    PROVE  /\ Has(toC'[c], "Done") => Has(toC[c], "Done")
           /\ Once(toC[c], "Done") => Once(toC'[c], "Done")
           /\ \A i \in DOMAIN toC'[c] : toC'[c][i].kind = "Done" =>
                 \E k \in DOMAIN toC[c] : toC'[c][i] = toC[c][k]
  <1>1. CASE toC'[c] = toC[c]
    BY <1>1, Zenon
  <1>2. ASSUME NEW m, m.kind # "Done", toC'[c] = Append(toC[c], m)
        PROVE  /\ Has(toC'[c], "Done") => Has(toC[c], "Done")
               /\ Once(toC[c], "Done") => Once(toC'[c], "Done")
               /\ \A i \in DOMAIN toC'[c] : toC'[c][i].kind = "Done" =>
                     \E k \in DOMAIN toC[c] : toC'[c][i] = toC[c][k]
    <2>1. Grown(toC'[c], toC[c], m)
      BY <1>2, Zenon DEF Grown
    <2>2. \A i \in DOMAIN toC'[c] : toC'[c][i] = m \/ \E k \in DOMAIN toC[c] : toC'[c][i] = toC[c][k]
      <3> SUFFICES ASSUME NEW i \in DOMAIN toC'[c], toC'[c][i] # m
                   PROVE  \E k \in DOMAIN toC[c] : toC'[c][i] = toC[c][k]
        BY Zenon
      <3> QED BY <2>1, WrittenWhere
    <2>3. /\ Has(toC'[c], "Done") => Has(toC[c], "Done")
          /\ Once(toC[c], "Done") => Once(toC'[c], "Done")
      BY <1>2, <2>1, Written, Zenon
    <2> QED BY <1>2, <2>2, <2>3, Zenon
  <1> QED BY <1>1, <1>2, Zenon DEF Said

\* A message is read that does not start the executor.
LEMMA ReadRun ==
    ASSUME NEW c, AnySeq(toW[c]), toW[c] # <<>>, toW'[c] = Tail(toW[c]), AnySeq(toC[c]), Said(c),
           (Ex(c))' = Ex(c), done' = done
    PROVE  /\ NoRun(c) => (NoRun(c))'
           /\ \A t : OneRun(c, t) => (OneRun(c, t))'
  <1>1. /\ Has(toC'[c], "Done") => Has(toC[c], "Done")
        /\ Once(toC[c], "Done") => Once(toC'[c], "Done")
        /\ \A i \in DOMAIN toC'[c] : toC'[c][i].kind = "Done" =>
              \E k \in DOMAIN toC[c] : toC'[c][i] = toC[c][k]
    BY SaidNoResult, Zenon
  <1>2. /\ Has(toW'[c], "Assign") => Has(toW[c], "Assign")
        /\ Once(toW[c], "Assign") => Once(toW'[c], "Assign")
        /\ \A i \in DOMAIN toW'[c] : \E k \in DOMAIN toW[c] : toW'[c][i] = toW[c][k]
    <2>1. Shrunk(toW'[c], toW[c])
      BY Zenon DEF Shrunk
    <2>2. /\ Has(toW'[c], "Assign") => Has(toW[c], "Assign")
          /\ Once(toW[c], "Assign") => Once(toW'[c], "Assign")
      BY <2>1, Received, Zenon
    <2>3. ASSUME NEW i \in DOMAIN toW'[c] PROVE \E k \in DOMAIN toW[c] : toW'[c][i] = toW[c][k]
      <3>1. PICK r, s : r = toW'[c] /\ s = toW[c]
        BY Zenon
      <3>2. Shrunk(r, s) /\ i \in DOMAIN r
        BY <2>1, <3>1, Zenon
      <3>3. \E k \in DOMAIN s : r[i] = s[k]
        BY <3>2, ReceivedWhere
      <3> QED BY <3>1, <3>3, Zenon
    <2> QED BY <2>2, <2>3, Zenon
  <1>3. NoRun(c) => (NoRun(c))'
    BY <1>1, <1>2, Zenon DEF NoRun
  <1>4. ASSUME NEW t, OneRun(c, t) PROVE (OneRun(c, t))'
    <2>1. /\ Once(toW'[c], "Assign") /\ Once(toC'[c], "Done")
          /\ Has(toW'[c], "Assign") => (Ex(c))' = Idle
          /\ Has(toC'[c], "Done") => (Ex(c))' = Idle /\ ~ Has(toW'[c], "Assign")
          /\ (Ex(c))' # Idle => (Ex(c))'.task = t
      BY <1>1, <1>2, <1>4, Zenon DEF OneRun
    <2>2. \A i \in DOMAIN toW'[c] : toW'[c][i].kind = "Assign" => toW'[c][i].task = t
      BY <1>2, <1>4, Zenon DEF OneRun
    <2>3. \A i \in DOMAIN toC'[c] : toC'[c][i].kind = "Done" =>
             toC'[c][i].task = t /\ (toC'[c][i].ok => <<t, c[1]>> \in done)
      BY <1>1, <1>4, Zenon DEF OneRun
    <2> QED BY <2>1, <2>2, <2>3, Zenon DEF OneRun
  <1> QED BY <1>3, <1>4, Zenon

\* A worker reads a message other than AssignJob, or drops any message: the
\* run of the connection is as it was, and files that were coming have come,
\* are coming still, or wait for InputShareGo.
LEMMA ReadSerial ==
    ASSUME SerialInv, NEW w \in Workers, proc[w] # "down", proc'[w] # "down", NEW c, c = Own(w), DaemonAct(w),
           toW[c] # <<>>, toW'[c] = Tail(toW[c]), Said(c), exec' = exec, done' = done,
           blind' = blind, staged[w] \subseteq staged'[w],
           \A t : /\ Coming(toW[c], t)
                  /\ ~ Coming(Tail(toW[c]), t)
                  => t \in staged'[w] \/ (proc'[w] = "share" /\ ~ Has(Tail(toW[c]), "Go")),
           proc[w] = "share" /\ ~ Has(toW[c], "Go") =>
               proc'[w] = "share" /\ ~ Has(Tail(toW[c]), "Go")
    PROVE  SerialRest' /\ Kept
  <1>1. /\ c \in Conns /\ c[1] = w /\ c[2] = inc[w] /\ Live(c) /\ Ex(c) = exec[w]
        /\ AnySeq(toW[c]) /\ AnySeq(toC[c]) /\ Sound(c) /\ (~ Mapped(c) => Quiet(c))
    BY OwnKnown, Zenon
  <1>2. Mapped(c)
    BY <1>1, Zenon DEF Quiet
  <1>3. (Ex(c))' = Ex(c)
    BY <1>1, Zenon DEF Ex, DaemonAct
  <1>4. /\ NoRun(c) => (NoRun(c))'
        /\ \A t : OneRun(c, t) => (OneRun(c, t))'
    BY <1>1, <1>3, ReadRun, Zenon
  <1>5. (NoRun(c))' \/ \E j \in Jobs : Expecting(j, w) /\ (OneRun(c, task0(j)))'
    BY <1>1, <1>2, <1>4, Zenon DEF Sound, task0
  <1>6. ASSUME NEW j \in Jobs, (Sent(j, c))' PROVE (Equipped(c, task0(j)))'
    <2>1. Has(toW'[c], "Assign") => Has(toW[c], "Assign")
      BY <1>1, TailHas, Zenon
    <2>2. Sent(j, c)
      BY <1>1, <1>2, <1>6, <2>1, Zenon DEF Sent, Expecting, DaemonAct, Aside
    <2>3. Equipped(c, task0(j))
      BY <1>1, <2>2, Zenon DEF Sound
    <2> DEFINE t == task0(j)
    <2>4. CASE t \in staged[w]
      BY <1>1, <2>4, Zenon DEF Equipped, task0
    <2>5. CASE Coming(toW[c], t)
      BY <1>1, <2>5, Zenon DEF Equipped, task0
    <2>6. CASE proc[w] = "share" /\ ~ Has(toW[c], "Go")
      BY <1>1, <2>6, Zenon DEF Equipped, task0
    <2> QED BY <1>1, <2>3, <2>4, <2>5, <2>6, Zenon DEF Equipped
  <1>7. (Sound(c))'
    BY <1>1, <1>2, <1>5, <1>6, OwnSound, Zenon
  <1>8. Kept
    BY Zenon DEF Kept
  <1> QED BY <1>7, <1>8, DaemonRest, Zenon DEF SerialInv, SerialRest

\* The tables of the daemons have an entry per worker and connection.
LEMMA DaemonTables ==
    ASSUME SerialInv
    PROVE  /\ DOMAIN proc = Workers /\ DOMAIN exec = Workers /\ DOMAIN staged = Workers
           /\ DOMAIN toW = Conns /\ DOMAIN toC = Conns
           /\ misread = {} /\ blind = {} /\ Serial
  BY Zenon DEF SerialInv, SerialRest, ShardedInv, Daemons, WorkerWires, CoordWires, Attached

\* One message of the main loop that is not AssignJob.
LEMMA RecvFilesSerial ==
    ASSUME SerialInv, NEW w \in Workers, WorkerRecv(w), NEW c, c = Own(w), NEW m, m = Head(toW[c]),
           \/ m.kind = "Stage" /\ StageFiles(w, m)
           \/ m.kind = "Offer" /\ InputShareOffer(w, m)
    PROVE  SerialRest' /\ Kept
  <1>1. /\ Aside /\ conn' = conn /\ cur' = cur /\ inc' = inc /\ misread' = misread /\ done' = done
        /\ proc[w] = "poll" /\ toW[c] # <<>> /\ toW' = [toW EXCEPT ![c] = Tail(toW[c])]
    BY Zenon DEF WorkerRecv, elsewhere, coordVars, jobVars, Aside, Own
  <1>2. proc[w] # "down"
    BY <1>1
  <1>3. /\ c \in Conns /\ c[1] = w /\ AnySeq(toW[c])
        /\ DOMAIN proc = Workers /\ DOMAIN staged = Workers /\ DOMAIN toW = Conns /\ DOMAIN toC = Conns
    BY <1>2, OwnKnown, DaemonTables, Zenon
  <1>4. /\ toW'[c] = Tail(toW[c])
        /\ \A b \in Conns \ {c} : toW'[b] = toW[b]
    BY <1>1, <1>3, Zenon
  <1>5. \A k, t : k # "Done" => Msg(k, t).kind # "Done"
    BY DEF Msg
  <1>6. exec' = exec /\ blind' = blind
    BY Zenon DEF StageFiles, InputShareOffer
  <1>7. \E n : n.kind # "Done" /\ toC' = [toC EXCEPT ![c] = Append(toC[c], n)]
    <2>1. Msg("Ack", m.task).kind # "Done" /\ Msg("Accept", m.task).kind # "Done"
      BY DEF Msg
    <2>2. \/ toC' = [toC EXCEPT ![c] = Append(toC[c], Msg("Ack", m.task))]
          \/ toC' = [toC EXCEPT ![c] = Append(toC[c], Msg("Accept", m.task))]
      BY Zenon DEF StageFiles, InputShareOffer, Reply, Own
    <2> QED BY <2>1, <2>2, Zenon
  <1>8. Said(c) /\ \A b \in Conns \ {c} : toC'[b] = toC[b]
    BY <1>3, <1>7, Zenon DEF Said
  <1>9. CASE m.kind = "Stage" /\ StageFiles(w, m)
    <2>1. proc' = proc /\ staged' = [staged EXCEPT ![w] = staged[w] \cup {m.task}]
      BY <1>9, Zenon DEF StageFiles
    <2>2. /\ staged'[w] = staged[w] \cup {m.task} /\ DOMAIN staged' = Workers
          /\ \A v \in Workers \ {w} : staged'[v] = staged[v]
      BY <1>3, <2>1, Zenon
    <2>3. DaemonAct(w)
      BY <1>1, <1>2, <1>4, <1>6, <1>8, <2>1, <2>2, Zenon DEF DaemonAct
    <2>4. \A t : Coming(toW[c], t) /\ ~ Coming(Tail(toW[c]), t) => t \in staged'[w]
      BY <1>1, <1>3, <2>2, ComingTail, Zenon
    <2>5. proc[w] # "share"
      BY <1>1
    <2> QED BY <1>1, <1>2, <1>4, <1>6, <1>8, <2>1, <2>2, <2>3, <2>4, <2>5, ReadSerial, Zenon
  <1>10. CASE m.kind = "Offer" /\ InputShareOffer(w, m)
    <2>1. proc' = [proc EXCEPT ![w] = "share"] /\ staged' = staged
      BY <1>10, Zenon DEF InputShareOffer
    <2>2. proc'[w] = "share" /\ \A v \in Workers \ {w} : proc'[v] = proc[v]
      BY <1>3, <2>1, Zenon
    <2>3. DaemonAct(w)
      <3>1. proc'[w] # "down"
        BY <2>2
      <3> QED BY <1>1, <1>3, <1>4, <1>6, <1>8, <2>1, <2>2, <3>1, Zenon DEF DaemonAct
    <2>4. m.kind \notin {"Stage", "Go"} /\ proc[w] # "share" /\ proc'[w] # "down"
      BY <1>1, <1>10, <2>2
    <2>5. \A t : ~ (Coming(toW[c], t) /\ ~ Coming(Tail(toW[c]), t))
      BY <1>1, <1>3, <2>4, ComingTail, Zenon
    <2> QED BY <1>1, <1>2, <1>4, <1>6, <1>8, <2>1, <2>3, <2>4, <2>5, ReadSerial, Zenon
  <1> QED BY <1>9, <1>10, Zenon

\* AssignJob: the connection had no executor, and the files are there.
LEMMA RecvAssignSerial ==
    ASSUME SerialInv, NEW w \in Workers, WorkerRecv(w), NEW c, c = Own(w), NEW m, m = Head(toW[c]),
           m.kind = "Assign", AssignJob(w, m)
    PROVE  SerialRest' /\ Kept
  <1>1. /\ Aside /\ conn' = conn /\ cur' = cur /\ inc' = inc /\ misread' = misread /\ done' = done
        /\ proc[w] = "poll" /\ toW[c] # <<>> /\ toW' = [toW EXCEPT ![c] = Tail(toW[c])]
    BY Zenon DEF WorkerRecv, elsewhere, coordVars, jobVars, Aside, Own
  <1>2. proc[w] # "down" /\ proc[w] # "share"
    BY <1>1
  <1>3. /\ c \in Conns /\ c[1] = w /\ c[2] = inc[w] /\ Live(c) /\ Ex(c) = exec[w]
        /\ AnySeq(toW[c]) /\ AnySeq(toC[c]) /\ Sound(c) /\ (~ Mapped(c) => Quiet(c))
    BY <1>2, OwnKnown, Zenon
  <1>4. /\ DOMAIN exec = Workers /\ DOMAIN staged = Workers /\ DOMAIN toW = Conns /\ DOMAIN toC = Conns
        /\ blind = {}
    BY DaemonTables, Zenon
  <1>5. Mapped(c) /\ Has(toW[c], "Assign")
    <2>1. Mapped(c)
      BY <1>1, <1>3, Zenon DEF Quiet
    <2>2. Has(toW[c], "Assign")
      BY <1>1, <1>3, TailHas, Zenon
    <2> QED BY <2>1, <2>2, Zenon
  <1>6. PICK j \in Jobs : Expecting(j, w) /\ OneRun(c, task0(j))
    BY <1>3, <1>5, Zenon DEF Sound, NoRun
  <1>7. PICK t : t = task0(j)
    BY Zenon
  <1>8. exec[w] = Idle /\ ~ Has(toC[c], "Done") /\ Once(toC[c], "Done") /\ Once(toW[c], "Assign")
    BY <1>3, <1>5, <1>6, Zenon DEF OneRun
  <1>9. m.task = t /\ m.task[1] = j
    <2>1. 1 \in DOMAIN toW[c] /\ m = toW[c][1]
      BY <1>1, <1>3, TailPositions, Zenon
    <2>2. m.task = t
      BY <1>6, <1>7, <2>1, Zenon DEF OneRun
    <2>3. task0(j)[1] = j
      BY DEF task0
    <2> QED BY <1>7, <2>2, <2>3, Zenon
  <1>10. w \in loc[j].need => t \in staged[w]
    <2> SUFFICES ASSUME w \in loc[j].need PROVE t \in staged[w]
      BY Zenon
    <2>1. Sent(j, c)
      BY <1>3, <1>5, <1>6, Zenon DEF Sent
    <2>2. Equipped(c, t)
      BY <1>3, <1>7, <2>1, Zenon DEF Sound
    <2>3. ~ Coming(toW[c], t)
      BY <1>1, <1>3, ComingTail, Zenon
    <2> QED BY <1>2, <1>3, <2>2, <2>3, Zenon DEF Equipped
  <1>11. blind' = blind
    BY <1>9, <1>10, Zenon DEF AssignJob
  <1>12. /\ exec' = [exec EXCEPT ![w] = [task |-> t, st |-> "run"]]
         /\ toC' = [toC EXCEPT ![c] = Append(toC[c], Msg("Started", t))]
         /\ proc' = proc /\ staged' = staged
    BY <1>9, Zenon DEF AssignJob, Reply, Own
  <1>13. /\ toW'[c] = Tail(toW[c]) /\ toC'[c] = Append(toC[c], Msg("Started", t))
         /\ exec'[w] = [task |-> t, st |-> "run"]
         /\ \A b \in Conns \ {c} : toW'[b] = toW[b] /\ toC'[b] = toC[b]
         /\ \A v \in Workers \ {w} : exec'[v] = exec[v]
    BY <1>1, <1>3, <1>4, <1>12, Zenon
  <1>14. DaemonAct(w)
    BY <1>1, <1>2, <1>4, <1>12, <1>13, Zenon DEF DaemonAct
  <1>15. ~ Has(toW'[c], "Assign") /\ Once(toW'[c], "Assign")
    <2>1. Shrunk(toW'[c], toW[c])
      BY <1>1, <1>3, <1>13, Zenon DEF Shrunk
    <2> QED BY <1>8, <2>1, Received, Zenon
  <1>16. ~ Has(toC'[c], "Done") /\ Once(toC'[c], "Done")
    <2>1. Msg("Started", t).kind # "Done"
      BY DEF Msg
    <2>2. Grown(toC'[c], toC[c], Msg("Started", t))
      BY <1>3, <1>13, Zenon DEF Grown
    <2> QED BY <1>8, <2>1, <2>2, Written, Zenon
  <1>17. (Ex(c))' = exec'[w] /\ exec'[w].task = t
    <2>1. (Ex(c))' = exec'[w]
      BY <1>1, <1>3, Zenon DEF Ex
    <2> QED BY <1>13, <2>1
  <1>18. (OneRun(c, t))'
    BY <1>15, <1>16, <1>17, Zenon DEF OneRun, Has
  <1>19. (OneRun(c, task0(j)))'
    BY <1>7, <1>18, Zenon DEF task0
  <1>20. \A k \in Jobs : ~ (Sent(k, c))'
    BY <1>3, <1>6, <1>14, <1>15, StartedOwesNone, Zenon
  <1>21. (Sound(c))'
    BY <1>2, <1>3, <1>5, <1>6, <1>12, <1>14, <1>19, <1>20, OwnSound, Zenon
  <1>22. Kept
    <2>1. exec[w].st = "none"
      BY <1>8 DEF Idle
    <2> QED BY <1>13, <2>1, Zenon DEF Kept
  <1> QED BY <1>2, <1>4, <1>11, <1>14, <1>21, <1>22, DaemonRest, Zenon

\* The receive loop of an RDMA input share: it takes InputShareGo and drops
\* everything else.
LEMMA ShareRecvSerial ==
    ASSUME SerialInv, NEW w \in Workers, ShareRecv(w) PROVE SerialRest' /\ Kept
  <1>1. PICK c : c = Own(w)
    BY Zenon
  <1>2. /\ Aside /\ conn' = conn /\ cur' = cur /\ inc' = inc /\ misread' = misread /\ done' = done
        /\ blind' = blind /\ exec' = exec
        /\ proc[w] = "share" /\ toW[c] # <<>> /\ toW' = [toW EXCEPT ![c] = Tail(toW[c])]
    BY <1>1, Zenon DEF ShareRecv, elsewhere, coordVars, jobVars, history, Aside, Own
  <1>3. proc[w] # "down"
    BY <1>2
  <1>4. /\ c \in Conns /\ c[1] = w /\ AnySeq(toW[c])
        /\ DOMAIN proc = Workers /\ DOMAIN staged = Workers /\ DOMAIN toW = Conns /\ DOMAIN toC = Conns
    BY <1>1, <1>3, OwnKnown, DaemonTables, Zenon
  <1>5. toW'[c] = Tail(toW[c]) /\ \A b \in Conns \ {c} : toW'[b] = toW[b]
    BY <1>2, <1>4, Zenon
  <1>6. PICK m : m = Head(toW[c])
    BY Zenon
  <1>7. CASE m.kind = "Go"
    <2>1. /\ staged' = [staged EXCEPT ![w] = staged[w] \cup {m.task}]
          /\ toC' = [toC EXCEPT ![c] = Append(toC[c], Msg("ShareDone", m.task))]
          /\ proc' = [proc EXCEPT ![w] = "poll"]
      BY <1>1, <1>6, <1>7, Zenon DEF ShareRecv, Reply, Own
    <2>2. /\ staged'[w] = staged[w] \cup {m.task} /\ proc'[w] = "poll" /\ DOMAIN staged' = Workers
          /\ toC'[c] = Append(toC[c], Msg("ShareDone", m.task))
          /\ \A v \in Workers \ {w} : proc'[v] = proc[v] /\ staged'[v] = staged[v]
          /\ \A b \in Conns \ {c} : toC'[b] = toC[b]
      BY <1>4, <2>1, Zenon
    <2>3. Msg("ShareDone", m.task).kind # "Done" /\ proc'[w] # "down"
      BY <2>2 DEF Msg
    <2>4. Said(c)
      BY <2>2, <2>3, Zenon DEF Said
    <2>5. DaemonAct(w)
      BY <1>1, <1>2, <1>5, <2>2, <2>3, Zenon DEF DaemonAct
    <2>6. \A t : Coming(toW[c], t) /\ ~ Coming(Tail(toW[c]), t) => t \in staged'[w]
      <3>1. ASSUME NEW t, Coming(toW[c], t), ~ Coming(Tail(toW[c]), t) PROVE t = m.task
        BY <1>2, <1>4, <1>6, <3>1, ComingTail, Zenon
      <3> QED BY <2>2, <3>1
    <2>7. Has(toW[c], "Go")
      BY <1>2, <1>4, <1>6, <1>7, TailHas, Zenon
    <2>8. staged[w] \subseteq staged'[w]
      BY <2>2, Zenon
    <2> QED BY <1>1, <1>2, <1>3, <1>5, <2>3, <2>4, <2>5, <2>6, <2>7, <2>8, ReadSerial, Zenon
  <1>8. CASE m.kind # "Go"
    <2>1. staged' = staged /\ toC' = toC /\ proc' = proc
      BY <1>1, <1>6, <1>8, Zenon DEF ShareRecv, Own
    <2>2. DaemonAct(w)
      BY <1>1, <1>2, <1>3, <1>4, <1>5, <2>1, Zenon DEF DaemonAct
    <2>3. \A t : Coming(toW[c], t) /\ ~ Coming(Tail(toW[c]), t) => ~ Has(Tail(toW[c]), "Go")
      BY <1>2, <1>4, ComingTail, Zenon
    <2>4. Has(Tail(toW[c]), "Go") => Has(toW[c], "Go")
      BY <1>2, <1>4, TailHas, Zenon
    <2>5. Said(c)
      BY <2>1, Zenon DEF Said
    <2> QED BY <1>1, <1>2, <1>3, <1>5, <2>1, <2>2, <2>3, <2>4, <2>5, ReadSerial, Zenon
  <1> QED BY <1>7, <1>8, Zenon

\* The executor of a run.
LEMMA RunKnown ==
    ASSUME SerialInv, NEW w \in Workers, exec[w].st # "none", NEW c, c = Own(w)
    PROVE  /\ proc[w] # "down" /\ Mapped(c) /\ exec[w] # Idle
           /\ \E j \in Jobs : Expecting(j, w) /\ OneRun(c, task0(j))
           /\ \A j \in Jobs : OneRun(c, task0(j)) =>
                 /\ exec[w].task = task0(j) /\ ~ Has(toW[c], "Assign") /\ ~ Has(toC[c], "Done")
  <1>1. exec[w] # Idle
    BY DEF Idle
  <1>2. proc[w] # "down"
    BY <1>1, Zenon DEF SerialInv, SerialRest, Attached
  <1>3. c[1] = w /\ Ex(c) = exec[w] /\ Sound(c) /\ (~ Mapped(c) => Quiet(c))
    BY <1>2, OwnKnown, Zenon
  <1>4. Mapped(c)
    BY <1>1, <1>3, Zenon DEF Quiet
  <1>5. \E j \in Jobs : Expecting(j, w) /\ OneRun(c, task0(j))
    BY <1>1, <1>3, <1>4, Zenon DEF Sound, NoRun
  <1>6. \A j \in Jobs : OneRun(c, task0(j)) =>
           /\ exec[w].task = task0(j) /\ ~ Has(toW[c], "Assign") /\ ~ Has(toC[c], "Done")
    BY <1>1, <1>3, Zenon DEF OneRun
  <1> QED BY <1>1, <1>2, <1>4, <1>5, <1>6, Zenon

\* The executor exits.
LEMMA ExecutorExitSerial ==
    ASSUME SerialInv, NEW w \in Workers, ExecutorExit(w) PROVE SerialRest' /\ Kept
  <1>1. PICK c : c = Own(w)
    BY Zenon
  <1>2. /\ Aside /\ conn' = conn /\ cur' = cur /\ inc' = inc /\ misread' = misread /\ blind' = blind
        /\ proc' = proc /\ staged' = staged /\ toW' = toW /\ toC' = toC /\ exec[w].st = "run"
    BY Zenon DEF ExecutorExit, wireVars, elsewhere, coordVars, jobVars, Aside
  <1>3. PICK st \in {"ok", "bad"} :
          /\ exec' = [exec EXCEPT ![w] = [task |-> exec[w].task, st |-> st]]
          /\ done' = IF st = "ok" THEN done \cup {<<exec[w].task, w>>} ELSE done
    BY Zenon DEF ExecutorExit
  <1>4. exec[w].st # "none"
    BY <1>2
  <1>5. PICK j \in Jobs : Expecting(j, w) /\ OneRun(c, task0(j))
    BY <1>1, <1>4, RunKnown, Zenon
  <1>6. PICK t : t = task0(j)
    BY Zenon
  <1>7. /\ proc[w] # "down" /\ Mapped(c) /\ exec[w].task = t
        /\ ~ Has(toW[c], "Assign") /\ ~ Has(toC[c], "Done")
    BY <1>1, <1>4, <1>5, <1>6, RunKnown, Zenon
  <1>8. /\ c \in Conns /\ c[1] = w /\ c[2] = inc[w]
        /\ DOMAIN exec = Workers /\ DOMAIN staged = Workers /\ blind = {}
    BY <1>1, <1>7, OwnKnown, DaemonTables, Zenon
  <1>9. /\ exec'[w] = [task |-> t, st |-> st] /\ done \subseteq done'
        /\ \A v \in Workers \ {w} : exec'[v] = exec[v]
    BY <1>3, <1>7, <1>8, Zenon
  <1>10. exec'[w].task = t
    BY <1>9
  <1>11. DaemonAct(w)
    BY <1>2, <1>7, <1>8, <1>9, Zenon DEF DaemonAct
  <1>12. (OneRun(c, t))'
    <2>1. (Ex(c))' = exec'[w]
      BY <1>2, <1>8, Zenon DEF Ex
    <2>2. OneRun(c, t)
      BY <1>5, <1>6, Zenon
    <2> QED BY <1>2, <1>7, <1>10, <2>1, <2>2, Zenon DEF OneRun, Has
  <1>13. (OneRun(c, task0(j)))'
    BY <1>6, <1>12, Zenon DEF task0
  <1>14. \A k \in Jobs : ~ (Sent(k, c))'
    <2>1. ~ (Has(toW[c], "Assign"))'
      BY <1>2, <1>7, Zenon
    <2> QED BY <1>5, <1>8, <1>11, <2>1, StartedOwesNone, Zenon
  <1>15. (Sound(c))'
    BY <1>2, <1>5, <1>7, <1>8, <1>11, <1>13, <1>14, OwnSound, Zenon
  <1>16. Kept
    BY <1>7, <1>9, <1>10, Zenon DEF Kept
  <1> QED BY <1>1, <1>2, <1>7, <1>8, <1>11, <1>15, <1>16, DaemonRest, Zenon

\* The daemon reports the exit and removes the files, of which no other job
\* has any: the result is the one that the job waits for.
LEMMA PollSerial ==
    ASSUME SerialInv, NEW w \in Workers, PollExecutor(w) PROVE SerialRest' /\ Kept
  <1>1. PICK c : c = Own(w)
    BY Zenon
  <1>2. PICK r : r = Result(exec[w].task, exec[w].st = "ok")
    BY Zenon
  <1>3. /\ Aside /\ conn' = conn /\ cur' = cur /\ inc' = inc /\ misread' = misread /\ blind' = blind
        /\ done' = done /\ proc' = proc /\ toW' = toW /\ exec[w].st \in {"ok", "bad"}
        /\ toC' = [toC EXCEPT ![c] = Append(toC[c], r)]
        /\ exec' = [exec EXCEPT ![w] = Idle] /\ staged' = [staged EXCEPT ![w] = {}]
    BY <1>1, <1>2, Zenon DEF PollExecutor, Reply, elsewhere, coordVars, jobVars, history, Aside, Own
  <1>4. exec[w].st # "none"
    BY <1>3
  <1>5. PICK j \in Jobs : Expecting(j, w) /\ OneRun(c, task0(j))
    BY <1>1, <1>4, RunKnown, Zenon
  <1>6. PICK t : t = task0(j)
    BY Zenon
  <1>7. /\ proc[w] # "down" /\ Mapped(c) /\ exec[w].task = t
        /\ ~ Has(toW[c], "Assign") /\ ~ Has(toC[c], "Done")
    BY <1>1, <1>4, <1>5, <1>6, RunKnown, Zenon
  <1>8. /\ c \in Conns /\ c[1] = w /\ c[2] = inc[w] /\ AnySeq(toC[c]) /\ DOMAIN toC = Conns
        /\ DOMAIN exec = Workers /\ DOMAIN staged = Workers /\ blind = {}
    BY <1>1, <1>7, OwnKnown, DaemonTables, Zenon
  <1>9. r.kind = "Done" /\ r.task = t /\ (r.ok => <<t, w>> \in done)
    <2>1. exec[w].st = "ok" => <<exec[w].task, w>> \in done
      BY Zenon DEF SerialInv, ShardedInv, Daemons, Honest
    <2>2. r.kind = "Done" /\ r.task = exec[w].task /\ r.ok = (exec[w].st = "ok")
      BY <1>2, Zenon DEF Result
    <2> QED BY <1>7, <2>1, <2>2, Zenon
  <1>10. /\ exec'[w] = Idle /\ toC'[c] = Append(toC[c], r) /\ DOMAIN staged' = Workers
         /\ \A v \in Workers \ {w} : exec'[v] = exec[v] /\ staged'[v] = staged[v]
         /\ \A b \in Conns \ {c} : toC'[b] = toC[b]
    BY <1>3, <1>8, Zenon
  <1>11. DaemonAct(w)
    BY <1>1, <1>3, <1>7, <1>10, Zenon DEF DaemonAct
  <1>12. /\ Once(toC'[c], "Done")
         /\ \A i \in DOMAIN toC'[c] : toC'[c][i] = r \/ \E k \in DOMAIN toC[c] : toC'[c][i] = toC[c][k]
    <2>1. Grown(toC'[c], toC[c], r)
      BY <1>8, <1>10, Zenon DEF Grown
    <2>2. Once(toC'[c], "Done")
      BY <1>7, <2>1, WrittenFirst, Zenon
    <2>3. \A i \in DOMAIN toC'[c] : toC'[c][i] = r \/ \E k \in DOMAIN toC[c] : toC'[c][i] = toC[c][k]
      <3> SUFFICES ASSUME NEW i \in DOMAIN toC'[c], toC'[c][i] # r
                   PROVE  \E k \in DOMAIN toC[c] : toC'[c][i] = toC[c][k]
        BY Zenon
      <3> QED BY <2>1, WrittenWhere
    <2> QED BY <2>2, <2>3, Zenon
  <1>13. \A i \in DOMAIN toC'[c] : toC'[c][i].kind = "Done" => toC'[c][i] = r
    BY <1>7, <1>12, Zenon DEF Has
  <1>14. (OneRun(c, t))'
    <2>1. (Ex(c))' = Idle
      BY <1>3, <1>8, <1>10, Zenon DEF Ex
    <2>2. Once(toW[c], "Assign")
      BY <1>5, Zenon DEF OneRun
    <2> QED BY <1>3, <1>7, <1>8, <1>9, <1>12, <1>13, <2>1, <2>2, Zenon DEF OneRun, Has
  <1>15. (OneRun(c, task0(j)))'
    BY <1>6, <1>14, Zenon DEF task0
  <1>16. \A k \in Jobs : ~ (Sent(k, c))'
    <2>1. ~ (Has(toW[c], "Assign"))'
      BY <1>3, <1>7, Zenon
    <2> QED BY <1>5, <1>8, <1>11, <2>1, StartedOwesNone, Zenon
  <1>17. (Sound(c))'
    BY <1>3, <1>5, <1>7, <1>8, <1>11, <1>15, <1>16, OwnSound, Zenon
  <1>18. Kept
    BY <1>10, Zenon DEF Kept
  <1> QED BY <1>1, <1>3, <1>7, <1>8, <1>11, <1>17, <1>18, DaemonRest, Zenon

\* A worker starts: nothing is on its new connection, which is not in the map.
LEMMA StartSerial ==
    ASSUME SerialInv, NEW w \in Workers, WorkerStart(w) PROVE SerialRest' /\ Kept
  <1> USE DEF SerialInv, SerialRest
  <1>1. /\ Aside /\ conn' = conn /\ cur' = cur /\ misread' = misread
        /\ done' = done /\ blind' = blind /\ exec' = exec /\ staged' = staged
        /\ toW' = toW /\ toC' = toC
        /\ proc' = [proc EXCEPT ![w] = "poll"] /\ inc' = [inc EXCEPT ![w] = inc[w] + 1]
        /\ proc[w] = "down"
    BY Zenon DEF WorkerStart, wireVars, elsewhere, coordVars, jobVars, history, Aside
  <1>2. Serial' /\ Counted'
    BY <1>1, Zenon DEF Serial, SerialJob, Counted, CountedJob, Aside
  <1>3. inc \in [Workers -> 0 .. MaxInc] /\ exec[w] = Idle /\ DOMAIN proc = Workers
    BY <1>1, Zenon DEF ShardedInv, Daemons, Attached
  <1>4. inc[w] \in Nat /\ inc'[w] = inc[w] + 1 /\ proc'[w] = "poll"
    BY <1>1, <1>3, AgentAssumption
  <1>5. \A v \in Workers \ {w} : inc'[v] = inc[v] /\ proc'[v] = proc[v]
    BY <1>1, <1>3, Zenon
  <1>6. Attached'
    <2>1. ASSUME NEW v \in Workers
          PROVE  conn[v] <= inc'[v] /\ (proc'[v] = "down" => exec[v] = Idle)
      <3>1. conn[v] \in Nat /\ inc[v] \in Nat /\ conn[v] <= inc[v]
        BY <1>3, AgentAssumption DEF Attached
      <3>2. CASE v = w
        BY <1>4, <3>1, <3>2
      <3>3. CASE v # w
        BY <1>5, <3>1, <3>3, Zenon DEF Attached
      <3> QED BY <3>2, <3>3, Zenon
    <2> QED BY <1>1, <2>1, Zenon DEF Attached
  <1>7. ASSUME NEW c \in Conns PROVE (Sound(c))'
    <2>1. c[1] \in Workers /\ c[2] \in Nat /\ inc[c[1]] \in Nat /\ conn[c[1]] \in Nat /\ conn[c[1]] <= inc[c[1]]
      <3>1. c[1] \in Workers /\ c[2] \in 1 .. MaxInc
        BY ConnPair, Zenon
      <3> QED BY <1>3, <3>1, AgentAssumption DEF Attached
    <2>2. /\ toW'[c] = toW[c] /\ toC'[c] = toC[c] /\ done' = done /\ ((Mapped(c))' <=> Mapped(c))
          /\ \A j \in Jobs : (Expecting(j, c[1]))' <=> Expecting(j, c[1])
      BY <1>1, Zenon DEF Mapped, Expecting, Aside
    <2>3. CASE c[1] # w
      <3>1. /\ (Ex(c))' = Ex(c) /\ ((Live(c))' <=> Live(c)) /\ inc'[c[1]] = inc[c[1]]
            /\ proc'[c[1]] = proc[c[1]]
        BY <1>1, <1>5, <2>1, <2>3, Zenon DEF Ex, Live
      <3>2. \A j \in Jobs : (Sent(j, c))' => Sent(j, c)
        BY <1>1, <2>2, <3>1, Zenon DEF Sent, Aside
      <3>3. ASSUME NEW j \in Jobs, (Sent(j, c))' PROVE (Equipped(c, task0(j)))'
        <4>1. Equipped(c, task0(j))
          BY <3>2, <3>3, Zenon DEF Sound
        <4> QED BY <1>1, <3>1, <4>1, Zenon DEF Equipped, task0
      <3>4. (~ Mapped(c) /\ inc[c[1]] <= c[2] => Quiet(c))'
        BY <2>2, <3>1, RunStays, Zenon DEF Sound
      <3>5. (Mapped(c) => NoRun(c) \/ \E j \in Jobs : Expecting(j, c[1]) /\ OneRun(c, task0(j)))'
        BY <2>2, <3>1, RunStays, Zenon DEF Sound, task0
      <3>6. (~ Live(c) => toW[c] = <<>> /\ Ex(c) = Idle)'
        BY <2>2, <3>1, Zenon DEF Sound
      <3> QED BY <3>3, <3>4, <3>5, <3>6, Zenon DEF Sound
    <2>4. CASE c[1] = w
      <3>1. ~ Live(c) /\ Ex(c) = Idle /\ (Ex(c))' = Idle /\ toW[c] = <<>>
        <4>1. ~ Live(c) /\ Ex(c) = Idle /\ (Ex(c))' = Idle
          BY <1>1, <1>3, <2>4, Zenon DEF Live, Ex
        <4> QED BY <4>1, Zenon DEF Sound
      <3>2. (~ Live(c) => toW[c] = <<>> /\ Ex(c) = Idle)'
        BY <2>2, <3>1, Zenon
      <3>3. (~ Mapped(c) /\ inc[c[1]] <= c[2] => Quiet(c))'
        <4>1. inc'[c[1]] <= c[2] => inc[c[1]] <= c[2]
          BY <1>4, <2>1, <2>4
        <4>2. Quiet(c) => (Quiet(c))'
          BY <2>2, <3>1, Zenon DEF Quiet
        <4> QED BY <2>2, <4>1, <4>2, Zenon DEF Sound
      <3>4. (Mapped(c) => NoRun(c) \/ \E j \in Jobs : Expecting(j, c[1]) /\ OneRun(c, task0(j)))'
        BY <2>2, <3>1, RunStays, Zenon DEF Sound, task0
      <3>5. ASSUME NEW j \in Jobs PROVE ~ (Sent(j, c))'
        <4>1. (Live(c))' => ~ (Mapped(c))'
          <5>1. conn[w] # inc'[w]
            BY <1>4, <2>1, <2>4
          <5> QED BY <1>1, <2>4, <5>1, Zenon DEF Live, Mapped
        <4> QED BY <4>1, Zenon DEF Sent
      <3> QED BY <3>2, <3>3, <3>4, <3>5, Zenon DEF Sound
    <2> QED BY <2>3, <2>4, Zenon
  <1>8. Kept
    BY <1>1, Zenon DEF Kept
  <1> QED BY <1>1, <1>2, <1>6, <1>7, <1>8, Zenon

\* When the accept thread is free nobody waits for anything.
LEMMA FreeExpectsNone ==
    ASSUME SerialInv, cur = None
    PROVE  /\ \A j \in Jobs : ph[j] \in {"new", "end"}
           /\ \A j \in Jobs : \A w : ~ Expecting(j, w)
           /\ \A j \in Jobs : \A c : ~ Sent(j, c)
           /\ \A c \in Conns : Mapped(c) => NoRun(c)
  <1>1. \A j \in Jobs : ph[j] \in {"new", "end"}
    BY OneServed, Zenon DEF SerialInv, SerialRest
  <1>2. \A j \in Jobs : \A w : ~ Expecting(j, w)
    BY <1>1, ExpectingServed, Zenon
  <1>3. \A j \in Jobs : ph[j] \notin {"go", "stage", "assign"}
    BY <1>1
  <1>4. \A j \in Jobs : \A c : ~ Sent(j, c)
    BY <1>2, <1>3, Zenon DEF Sent
  <1>5. \A c \in Conns : Mapped(c) => NoRun(c)
    BY <1>2, Zenon DEF SerialInv, SerialRest, Sound
  <1> QED BY <1>1, <1>2, <1>4, <1>5, Zenon

\* A connection that comes into the map is a fresh one.
LEMMA ReadySerial ==
    ASSUME SerialInv, NEW w \in Workers, AcceptReady(w) PROVE SerialRest' /\ Kept
  <1> USE DEF SerialInv, SerialRest
  <1>1. /\ UNCHANGED <<proc, inc, exec, staged, toW, toC, kind, ph, loc, answer, cur>>
        /\ misread' = misread /\ done' = done /\ blind' = blind
        /\ conn' = [conn EXCEPT ![w] = inc[w]] /\ inc[w] # conn[w] /\ cur = None
    BY Zenon DEF AcceptReady, workerVars, wireVars, jobVars, history
  <1>2. Serial' /\ Counted'
    BY <1>1, Zenon DEF Serial, SerialJob, Counted, CountedJob
  <1>3. /\ \A v \in Workers : inc[v] \in Nat /\ conn[v] \in Nat /\ conn[v] <= inc[v] /\ inc[v] \in 0 .. MaxInc
        /\ DOMAIN conn = Workers
    BY AgentAssumption DEF Attached, ShardedInv, Daemons
  <1>4. conn'[w] = inc[w] /\ conn[w] < inc[w] /\ \A v \in Workers \ {w} : conn'[v] = conn[v]
    <2>1. conn'[w] = inc[w] /\ \A v \in Workers \ {w} : conn'[v] = conn[v]
      BY <1>1, <1>3, Zenon
    <2> QED BY <1>1, <1>3, <2>1
  <1>5. Attached'
    <2>1. conn' \in [Workers -> 0 .. MaxInc]
      BY <1>1, <1>3, Zenon DEF Attached
    <2>2. \A v \in Workers : conn'[v] <= inc[v]
      BY <1>3, <1>4
    <2> QED BY <1>1, <2>1, <2>2, Zenon DEF Attached
  <1>6. ASSUME NEW c \in Conns PROVE (Sound(c))'
    <2>1. c[1] \in Workers /\ c[2] \in Nat
      <3>1. c[1] \in Workers /\ c[2] \in 1 .. MaxInc
        BY ConnPair, Zenon
      <3> QED BY <3>1, AgentAssumption
    <2>2. /\ (Ex(c))' = Ex(c) /\ ((Live(c))' <=> Live(c)) /\ toW'[c] = toW[c] /\ toC'[c] = toC[c]
          /\ done' = done
      BY <1>1, Zenon DEF Ex, Live
    <2>3. (~ Live(c) => toW[c] = <<>> /\ Ex(c) = Idle)'
      BY <2>2, Zenon DEF Sound
    <2>4. ASSUME NEW j \in Jobs PROVE ~ (Sent(j, c))'
      <3>1. ph[j] \in {"new", "end"}
        BY <1>1, FreeExpectsNone, Zenon
      <3>2. ph'[j] \notin {"go", "stage", "assign", "local", "collect"}
        BY <1>1, <3>1
      <3> QED BY <3>2, Zenon DEF Sent, Expecting
    <2>5. (~ Mapped(c) /\ inc[c[1]] <= c[2] => Quiet(c))'
      <3> SUFFICES ASSUME ~ (Mapped(c))', inc[c[1]] <= c[2] PROVE Quiet(c)
        BY <1>1, <2>2, RunStays, Zenon
      <3>1. ~ Mapped(c)
        <4>1. CASE c[1] = w
          <5>1. c[2] # conn[w]
            BY <1>3, <1>4, <2>1, <4>1
          <5> QED BY <4>1, <5>1, Zenon DEF Mapped
        <4>2. CASE c[1] # w
          BY <1>4, <2>1, <4>2, Zenon DEF Mapped
        <4> QED BY <4>1, <4>2, Zenon
      <3> QED BY <3>1, Zenon DEF Sound
    <2>6. (Mapped(c))' => (NoRun(c))'
      <3> SUFFICES ASSUME (Mapped(c))' PROVE NoRun(c)
        BY <2>2, RunStays, Zenon
      <3>1. CASE Mapped(c)
        BY <1>1, <3>1, FreeExpectsNone, Zenon
      <3>2. CASE ~ Mapped(c)
        <4>1. c[1] = w
          BY <1>4, <2>1, <3>2, Zenon DEF Mapped
        <4>2. inc[c[1]] <= c[2]
          <5>1. c[2] = inc[w]
            BY <1>4, <4>1, Zenon DEF Mapped
          <5> QED BY <1>3, <4>1, <5>1
        <4>3. Quiet(c)
          BY <3>2, <4>2, Zenon DEF Sound
        <4> QED BY <4>3, EmptyHas, Zenon DEF Quiet, NoRun
      <3> QED BY <3>1, <3>2, Zenon
    <2> QED BY <2>3, <2>4, <2>5, <2>6, Zenon DEF Sound
  <1>7. Kept
    BY <1>1, Zenon DEF Kept
  <1> QED BY <1>1, <1>2, <1>5, <1>6, <1>7, Zenon

\* The drain finds no result: the jobs have read theirs.
LEMMA DrainSerial == ASSUME SerialInv, Drain PROVE SerialRest' /\ Kept
  <1> USE DEF SerialInv, SerialRest
  <1>1. /\ UNCHANGED <<proc, inc, exec, staged, toW, conn, kind, ph, loc, answer, cur>>
        /\ done' = done /\ blind' = blind /\ cur = None
        /\ toC' = [c \in Conns |-> IF c[1] \in Drainable /\ c[2] = conn[c[1]] THEN <<>> ELSE toC[c]]
    BY Zenon DEF Drain, workerVars, coordVars, jobVars
  <1>2. Serial' /\ Counted' /\ Attached'
    BY <1>1, Zenon DEF Serial, SerialJob, Counted, CountedJob, Attached
  <1>3. ASSUME NEW w \in Drainable PROVE ~ Has(toC[<<w, conn[w]>>], "Done")
    <2>1. w \in Workers /\ conn[w] # 0 /\ conn[w] \in 0 .. MaxInc
      BY Zenon DEF Drainable, Connected, Attached
    <2>2. PICK c : c = <<w, conn[w]>>
      BY Zenon
    <2>3. c \in Conns /\ Mapped(c)
      BY <2>1, <2>2, AgentAssumption DEF Conns, Mapped
    <2> QED BY <1>1, <2>2, <2>3, FreeExpectsNone, Zenon DEF NoRun
  <1>4. misread' = {}
    <2>1. misread' = misread \cup
             {<<t, None>> : t \in {u \in Tasks : \E w \in Drainable :
                 \E i \in DOMAIN toC[<<w, conn[w]>>] :
                     /\ toC[<<w, conn[w]>>][i].kind = "Done"
                     /\ toC[<<w, conn[w]>>][i].task = u
                     /\ ph[u[1]] # "end"}}
      BY Zenon DEF Drain
    <2> QED BY <1>3, <2>1, Zenon DEF Has
  <1>5. ASSUME NEW c \in Conns PROVE (Sound(c))'
    <2>1. toC'[c] = toC[c] \/ toC'[c] = <<>>
      BY <1>1, Zenon
    <2>2. /\ (Ex(c))' = Ex(c) /\ ((Live(c))' <=> Live(c)) /\ ((Mapped(c))' <=> Mapped(c))
          /\ toW'[c] = toW[c] /\ inc' = inc
      BY <1>1, Zenon DEF Ex, Live, Mapped
    <2>3. Sound(c)
      BY Zenon
    <2>4. (~ Live(c) => toW[c] = <<>> /\ Ex(c) = Idle)'
      BY <2>2, <2>3, Zenon DEF Sound
    <2>5. (~ Mapped(c) /\ inc[c[1]] <= c[2] => Quiet(c))'
      BY <2>1, <2>2, <2>3, Zenon DEF Sound, Quiet
    <2>6. (Mapped(c))' => (NoRun(c))'
      <3>1. Mapped(c) => NoRun(c)
        BY <1>1, FreeExpectsNone, Zenon
      <3> QED BY <2>1, <2>2, <3>1, EmptyHas, Zenon DEF NoRun
    <2>7. ASSUME NEW j \in Jobs PROVE ~ (Sent(j, c))'
      <3>1. ~ Sent(j, c)
        BY <1>1, FreeExpectsNone, Zenon
      <3> QED BY <1>1, <2>2, <3>1, Zenon DEF Sent, Expecting
    <2> QED BY <2>4, <2>5, <2>6, <2>7, Zenon DEF Sound
  <1>6. Kept
    BY <1>1, Zenon DEF Kept
  <1> QED BY <1>1, <1>2, <1>4, <1>5, <1>6, Zenon

\* All steps of the daemons.
LEMMA DaemonSerial ==
    ASSUME SerialInv, NEW w \in Workers, WorkerStep(w) \/ WorkerCrash(w) \/ AcceptReady(w)
    PROVE  SerialRest' /\ Kept
  <1>1. CASE WorkerRecv(w)
    <2>1. PICK c : c = Own(w)
      BY Zenon
    <2>2. PICK m : m = Head(toW[c])
      BY Zenon
    <2>3. \/ m.kind = "Assign" /\ AssignJob(w, m)
          \/ m.kind = "Stage" /\ StageFiles(w, m)
          \/ m.kind = "Offer" /\ InputShareOffer(w, m)
      BY <1>1, <2>1, <2>2, Zenon DEF WorkerRecv, Own
    <2> QED BY <1>1, <2>1, <2>2, <2>3, RecvFilesSerial, RecvAssignSerial, Zenon
  <1>2. CASE ShareTimeout(w)
    <2>1. proc[w] # "down"
      BY <1>2 DEF ShareTimeout
    <2>2. Exit(w) /\ Aside /\ conn' = conn /\ cur' = cur /\ UNCHANGED history
      BY <1>2, Zenon DEF ShareTimeout, elsewhere, coordVars, jobVars, Aside
    <2> QED BY <2>1, <2>2, ExitSerial, Zenon
  <1>3. CASE WorkerCrash(w)
    BY <1>3, ExitSerial, Zenon DEF WorkerCrash, elsewhere, coordVars, jobVars, Aside
  <1> QED
    BY <1>1, <1>2, <1>3, StartSerial, ShareRecvSerial, ExecutorExitSerial, PollSerial, ReadySerial,
       Zenon DEF WorkerStep

-----------------------------------------------------------------------------
(* The handlers                                                            *)

\* What a step of handler j leaves alone.
HandlerAct(j) ==
    /\ UNCHANGED <<proc, inc, exec, staged, conn, blind>> /\ done \subseteq done'
    /\ Apart(j)

\* A step of the handler of j concerns the other jobs only through the wires.
LEMMA HandlerRest ==
    ASSUME SerialInv, NEW j \in Jobs, HandlerAct(j), cur' = cur \/ cur \in {None, j},
           (SerialJob(j))', (CountedJob(j))', misread' = {}, \A c \in Conns : (Sound(c))'
    PROVE  SerialRest' /\ Kept
  <1> USE DEF SerialInv, SerialRest
  <1>1. ASSUME NEW k \in Jobs, k # j PROVE (SerialJob(k))' /\ (CountedJob(k))'
    <2>1. /\ ph'[k] = ph[k] /\ loc'[k] = loc[k] /\ answer'[k] = answer[k] /\ kind' = kind
          /\ done \subseteq done'
      BY <1>1, Zenon DEF HandlerAct, Apart
    <2>2. ph[k] \notin {"new", "end"} => cur' = k
      BY <1>1, AgentAssumption, Zenon DEF Serial, SerialJob
    <2>3. (SerialJob(k))'
      BY <2>1, <2>2, Zenon DEF Serial, SerialJob
    <2>4. (CountedJob(k))'
      BY <2>1, Zenon DEF Counted, CountedJob, task0
    <2> QED BY <2>3, <2>4, Zenon
  <1>2. Serial' /\ Counted'
    BY <1>1, Zenon DEF Serial, Counted
  <1>3. Attached' /\ Kept /\ blind' = {}
    BY Zenon DEF Attached, HandlerAct, Kept
  <1> QED BY <1>2, <1>3, Zenon

\* The steps of a handler do not move the ends of a connection.
LEMMA HandlerEnds ==
    ASSUME NEW j \in Jobs, HandlerAct(j), NEW c \in Conns
    PROVE  /\ (Ex(c))' = Ex(c) /\ ((Live(c))' <=> Live(c)) /\ ((Mapped(c))' <=> Mapped(c))
           /\ inc' = inc /\ done \subseteq done'
           /\ staged'[c[1]] = staged[c[1]] /\ proc'[c[1]] = proc[c[1]]
           /\ \A k \in Jobs \ {j} : \A w : (Expecting(k, w))' <=> Expecting(k, w)
  <1>1. /\ (Ex(c))' = Ex(c) /\ ((Live(c))' <=> Live(c)) /\ ((Mapped(c))' <=> Mapped(c))
        /\ inc' = inc /\ done \subseteq done'
        /\ staged'[c[1]] = staged[c[1]] /\ proc'[c[1]] = proc[c[1]]
    BY Zenon DEF HandlerAct, Ex, Live, Mapped
  <1>2. \A k \in Jobs \ {j} : \A w : (Expecting(k, w))' <=> Expecting(k, w)
    BY Zenon DEF HandlerAct, Apart, Expecting
  <1> QED BY <1>1, <1>2, Zenon

\* A connection over which the handler of j neither sends nor reads.
LEMMA HandlerSound ==
    ASSUME SerialInv, NEW j \in Jobs, HandlerAct(j), NEW c \in Conns,
           toW'[c] = toW[c], toC'[c] = toC[c],
           Mapped(c) => NoRun(c) \/ (Expecting(j, c[1]) => (Expecting(j, c[1]))'),
           (Sent(j, c))' => Sent(j, c)
    PROVE  (Sound(c))'
  <1>1. /\ (Ex(c))' = Ex(c) /\ ((Live(c))' <=> Live(c)) /\ ((Mapped(c))' <=> Mapped(c))
        /\ inc' = inc /\ done \subseteq done'
        /\ staged'[c[1]] = staged[c[1]] /\ proc'[c[1]] = proc[c[1]]
        /\ \A k \in Jobs \ {j} : \A w : (Expecting(k, w))' <=> Expecting(k, w)
    BY HandlerEnds, Zenon
  <1>2. Mapped(c) => NoRun(c) \/ \A k \in Jobs : Expecting(k, c[1]) => (Expecting(k, c[1]))'
    BY <1>1, Zenon
  <1>3. ASSUME NEW k \in Jobs, k # j, (Sent(k, c))' PROVE Sent(k, c)
    <2>1. ph'[k] = ph[k] /\ loc'[k] = loc[k] /\ ((Expecting(k, c[1]))' <=> Expecting(k, c[1]))
      BY <1>1, <1>3, Zenon DEF HandlerAct, Apart
    <2> QED BY <1>1, <1>3, <2>1, Zenon DEF Sent
  <1>4. Sound(c)
    BY Zenon DEF SerialInv, SerialRest
  <1> QED BY <1>1, <1>2, <1>3, <1>4, SoundStays, Zenon

\* While a job is served that does not wait for results, nothing runs.
LEMMA ServedNoRun ==
    ASSUME SerialInv, NEW j \in Jobs, ph[j] \notin RunPhases \cup {"new", "end"}
    PROVE  /\ cur = j
           /\ \A k \in Jobs \ {j} : ph[k] \in {"new", "end"}
           /\ \A k \in Jobs : \A w : ~ Expecting(k, w)
           /\ \A c \in Conns : Mapped(c) => NoRun(c)
  <1>1. ph[j] \notin {"new", "end"} /\ ph[j] \notin RunPhases
    BY Zenon
  <1>2. cur = j
    BY <1>1, Zenon DEF SerialInv, SerialRest, Serial, SerialJob
  <1>3. \A k \in Jobs \ {j} : ph[k] \in {"new", "end"}
    BY <1>1, OneServed, Zenon DEF SerialInv, SerialRest
  <1>4. \A k \in Jobs : \A w : ~ Expecting(k, w)
    BY <1>1, <1>3, ExpectingServed, Zenon
  <1>5. \A c \in Conns : Mapped(c) => NoRun(c)
    BY <1>4, Zenon DEF SerialInv, SerialRest, Sound
  <1> QED BY <1>2, <1>3, <1>4, <1>5, Zenon

\* While a job waits for results, only its own runs.
LEMMA ServedRun ==
    ASSUME SerialInv, NEW j \in Jobs, ph[j] \in RunPhases
    PROVE  /\ cur = j
           /\ \A k \in Jobs \ {j} : ph[k] \in {"new", "end"}
           /\ \A c \in Conns : Mapped(c) =>
                 NoRun(c) \/ (Expecting(j, c[1]) /\ OneRun(c, task0(j)))
  <1>1. ph[j] \notin {"new", "end"}
    BY DEF RunPhases
  <1>2. cur = j
    BY <1>1, Zenon DEF SerialInv, SerialRest, Serial, SerialJob
  <1>3. \A k \in Jobs \ {j} : ph[k] \in {"new", "end"}
    BY <1>1, OneServed, Zenon DEF SerialInv, SerialRest
  <1>4. \A c \in Conns : Mapped(c) => NoRun(c) \/ (Expecting(j, c[1]) /\ OneRun(c, task0(j)))
    <2> SUFFICES ASSUME NEW c \in Conns, Mapped(c), ~ NoRun(c)
                 PROVE  Expecting(j, c[1]) /\ OneRun(c, task0(j))
      BY Zenon
    <2>1. PICK k \in Jobs : Expecting(k, c[1]) /\ OneRun(c, task0(k))
      BY Zenon DEF SerialInv, SerialRest, Sound
    <2>2. k = j
      BY <1>3, <2>1, ExpectingServed, Zenon
    <2> QED BY <2>1, <2>2, Zenon
  <1> QED BY <1>2, <1>3, <1>4, Zenon

\* What SendAll does to a connection.
LEMMA SendFacts ==
    ASSUME NEW c \in Conns, NEW S, NEW m, SendAll(S, m)
    PROVE  /\ c[1] \in S /\ Mapped(c) /\ Live(c) => toW'[c] = Append(toW[c], m)
           /\ ~ (c[1] \in S /\ Mapped(c) /\ Live(c)) => toW'[c] = toW[c]
  <1>1. toW'[c] = IF c[1] \in S /\ c[2] = conn[c[1]] /\ ~ Broken(c[1], c[2])
                  THEN Append(toW[c], m) ELSE toW[c]
    BY Zenon DEF SendAll
  <1> QED BY <1>1, Zenon DEF Mapped, Live, Broken

\* What Take does to the connections.
LEMMA TakeFacts ==
    ASSUME SerialInv, NEW w, NEW j, Take(w, conn[w], j), NEW o, o = <<w, conn[w]>>
    PROVE  /\ o \in Conns /\ o[1] = w /\ Mapped(o) /\ toC[o] # <<>> /\ toC'[o] = Tail(toC[o])
           /\ \A c \in Conns \ {o} : toC'[c] = toC[c]
           /\ (Head(toC[o]).kind = "Done" => Head(toC[o]).task[1] = j) => misread' = {}
  <1>1. o \in Conns /\ toC[o] # <<>> /\ toC' = [toC EXCEPT ![o] = Tail(toC[o])]
    BY Zenon DEF Take
  <1>2. o[1] = w /\ o[2] = conn[w]
    OBVIOUS
  <1>3. DOMAIN toC = Conns /\ misread = {}
    BY DaemonTables, Zenon
  <1>4. toC'[o] = Tail(toC[o]) /\ \A c \in Conns \ {o} : toC'[c] = toC[c]
    BY <1>1, <1>3, Zenon
  <1>5. (Head(toC[o]).kind = "Done" => Head(toC[o]).task[1] = j) => misread' = {}
    BY <1>3, Zenon DEF Take
  <1> QED BY <1>1, <1>2, <1>4, <1>5, Zenon DEF Mapped

\* A handler sets what it waits for.
LEMMA SetWait ==
    ASSUME Tables, NEW j \in Jobs, NEW S, loc' = [loc EXCEPT ![j].wait = S]
    PROVE  /\ loc'[j].wait = S /\ loc'[j].parts = loc[j].parts /\ loc'[j].need = loc[j].need
           /\ loc'[j].expected = loc[j].expected /\ loc'[j].good = loc[j].good
  <1>1. j \in DOMAIN loc /\ DOMAIN loc[j] = DOMAIN NoLocals
    BY Zenon DEF Tables
  <1>2. {"wait", "parts", "need", "expected", "good"} \subseteq DOMAIN loc[j]
    BY <1>1 DEF NoLocals
  <1> QED BY <1>1, <1>2

\* The handler of j sets whom it waits for and whether all went well.
Settles(j, S, x) == loc' = [loc EXCEPT ![j].wait = S, ![j].good = x]

\* It leaves its other variables alone.
LEMMA SetGood ==
    ASSUME Tables, NEW j \in Jobs, NEW S, NEW x, Settles(j, S, x)
    PROVE  /\ loc'[j].wait = S /\ loc'[j].parts = loc[j].parts /\ loc'[j].need = loc[j].need
           /\ loc'[j].expected = loc[j].expected /\ loc'[j].good = x
  <1>1. j \in DOMAIN loc /\ DOMAIN loc[j] = DOMAIN NoLocals
    BY Zenon DEF Tables
  <1>2. {"wait", "parts", "need", "expected", "good"} \subseteq DOMAIN loc[j]
    BY <1>1 DEF NoLocals
  <1>3. loc'[j] = [loc[j] EXCEPT !.wait = S, !.good = x]
    BY <1>1, Zenon DEF Settles
  <1>4. PICK l, k : l = loc[j] /\ k = loc'[j]
    BY Zenon
  <1>5. {"wait", "parts", "need", "expected", "good"} \subseteq DOMAIN l /\ k = [l EXCEPT !.wait = S, !.good = x]
    BY <1>2, <1>3, <1>4, Zenon
  <1>6. k.wait = S /\ k.parts = l.parts /\ k.need = l.need /\ k.expected = l.expected /\ k.good = x
    BY <1>5
  <1> QED BY <1>4, <1>6, Zenon

\* A handler sets whom it expects and waits for.
LEMMA SetExpected ==
    ASSUME Tables, NEW j \in Jobs, NEW S, loc' = [loc EXCEPT ![j].expected = S, ![j].wait = S]
    PROVE  loc'[j].expected = S /\ loc'[j].wait = S /\ loc'[j].need = loc[j].need
  <1>1. j \in DOMAIN loc /\ DOMAIN loc[j] = DOMAIN NoLocals
    BY Zenon DEF Tables
  <1>2. {"wait", "parts", "need", "expected", "good"} \subseteq DOMAIN loc[j]
    BY <1>1 DEF NoLocals
  <1>3. loc'[j] = [loc[j] EXCEPT !.expected = S, !.wait = S]
    BY <1>1, Zenon
  <1>4. PICK l, k : l = loc[j] /\ k = loc'[j]
    BY Zenon
  <1>5. {"wait", "need", "expected"} \subseteq DOMAIN l /\ k = [l EXCEPT !.expected = S, !.wait = S]
    BY <1>2, <1>3, <1>4
  <1>6. k.expected = S /\ k.wait = S /\ k.need = l.need
    BY <1>5
  <1> QED BY <1>4, <1>6, Zenon

\* While files are staged a connection may get a message that starts nothing,
\* or lose one.
LEMMA StagingSound ==
    ASSUME SerialInv, NEW j \in Jobs, HandlerAct(j), ph[j] \notin RunPhases \cup {"new", "end"}, NEW c \in Conns,
           toC'[c] = toC[c] \/ (toC[c] # <<>> /\ toC'[c] = Tail(toC[c])),
           \/ toW'[c] = toW[c]
           \/ Mapped(c) /\ Live(c) /\ \E m : m.kind # "Assign" /\ toW'[c] = Append(toW[c], m),
           (Sent(j, c))' => (Equipped(c, task0(j)))'
    PROVE  (Sound(c))'
  <1>1. /\ (Ex(c))' = Ex(c) /\ ((Live(c))' <=> Live(c)) /\ ((Mapped(c))' <=> Mapped(c)) /\ inc' = inc
    BY HandlerEnds, Zenon
  <1>2. AnySeq(toW[c]) /\ AnySeq(toC[c]) /\ Sound(c)
    BY Channels, Zenon DEF SerialInv, SerialRest
  <1>3. (~ Live(c) => toW[c] = <<>> /\ Ex(c) = Idle)'
    BY <1>1, <1>2, Zenon DEF Sound
  <1>4. (~ Mapped(c) /\ inc[c[1]] <= c[2] => Quiet(c))'
    BY <1>1, <1>2, Zenon DEF Sound, Quiet
  <1>5. Mapped(c) => (NoRun(c))'
    <2> SUFFICES ASSUME Mapped(c) PROVE (NoRun(c))'
      BY Zenon
    <2>1. NoRun(c)
      BY ServedNoRun, Zenon
    <2>2. ~ Has(toC'[c], "Done")
      <3>1. toC'[c] = toC[c] \/ Shrunk(toC'[c], toC[c])
        BY <1>2, Zenon DEF Shrunk
      <3> QED BY <2>1, <3>1, Received, Zenon DEF NoRun
    <2>3. ~ Has(toW'[c], "Assign")
      <3>1. toW'[c] = toW[c] \/ \E m : m.kind # "Assign" /\ Grown(toW'[c], toW[c], m)
        BY <1>2, Zenon DEF Grown
      <3> QED BY <2>1, <3>1, Written, Zenon DEF NoRun
    <2> QED BY <1>1, <2>1, <2>2, <2>3, Zenon DEF NoRun
  <1>6. ASSUME NEW k \in Jobs, k # j PROVE ~ (Sent(k, c))'
    <2>1. ph[k] \in {"new", "end"} /\ ph'[k] = ph[k]
      BY <1>6, ServedNoRun, Zenon DEF HandlerAct, Apart
    <2>2. ph'[k] \notin {"go", "stage", "assign", "local", "collect"}
      BY <2>1
    <2> QED BY <2>2, Zenon DEF Sent, Expecting
  <1> QED BY <1>1, <1>3, <1>4, <1>5, <1>6, Zenon DEF Sound

\* The steps of a partitioned job move nothing at the workers' ends.
LEMMA PartitionedAct ==
    ASSUME SerialInv, NEW j \in Jobs, PartitionedStep(j) PROVE HandlerAct(j)
  <1>1. Apart(j)
    BY PartitionedApart, Zenon DEF SerialInv, ShardedInv
  <1>2. CASE SubmitPartitioned(j) \/ OfferInputs(j) \/ StageTcp(j) \/ StageTimeout(j)
    BY <1>1, <1>2, Zenon DEF SubmitPartitioned, OfferInputs, StageTcp, StageTimeout, HandlerAct,
       workerVars, history
  <1>3. CASE StageRecv(j) \/ Collect(j)
    BY <1>1, <1>3, Zenon DEF StageRecv, Collect, HandlerAct, workerVars, coordVars
  <1>4. CASE LocalExecutor(j)
    BY <1>1, <1>4, Zenon DEF LocalExecutor, HandlerAct, workerVars, coordVars
  <1>5. CASE AssignJobs(j) \/ CollectTimeout(j) \/ CollectEnd(j)
    BY <1>1, <1>5, Zenon DEF AssignJobs, CollectTimeout, CollectEnd, HandlerAct, workerVars, coordVars, history
  <1> QED BY <1>2, <1>3, <1>4, <1>5, Zenon DEF PartitionedStep

\* What a handler in its staging phases knows of its own state.
LEMMA StagingKnown ==
    ASSUME SerialInv, NEW j \in Jobs, ph[j] \in StagePhases
    PROVE  /\ kind[j] = "partitioned" /\ cur = j /\ Coord \in loc[j].parts /\ answer[j] # "ok"
           /\ ph[j] \notin RunPhases \cup {"new", "end"} /\ j \in DOMAIN ph /\ j \in DOMAIN answer
           /\ Tables
  <1>1. ph[j] \notin RunPhases \cup {"new", "end"} /\ ph[j] \notin {"window", "merge"}
    BY DEF StagePhases, RunPhases
  <1>2. SerialJob(j) /\ CountedJob(j) /\ Tables
    BY Zenon DEF SerialInv, SerialRest, Serial, Counted, ShardedInv
  <1>3. kind[j] = "partitioned" /\ cur = j /\ Coord \in loc[j].parts
    BY <1>1, <1>2, Zenon DEF SerialJob
  <1>4. answer[j] # "ok"
    BY <1>1, <1>2, <1>3, Zenon DEF CountedJob
  <1> QED BY <1>1, <1>2, <1>3, <1>4, Zenon DEF Tables

\* The handler of a submission starts, or ends with an error.
LEMMA SubmitSerial ==
    ASSUME SerialInv, NEW j \in Jobs, SubmitPartitioned(j) PROVE SerialRest' /\ Kept
  <1>1. HandlerAct(j)
    BY PartitionedAct, Zenon DEF PartitionedStep
  <1>2. /\ kind[j] \in {"partitioned", "headless"} /\ ph[j] = "new" /\ cur = None
        /\ toW' = toW /\ toC' = toC /\ kind' = kind
        /\ misread' = misread
    BY Zenon DEF SubmitPartitioned, wireVars, history
  <1>3. SerialJob(j) /\ CountedJob(j) /\ Tables /\ misread = {}
    BY Zenon DEF SerialInv, SerialRest, Serial, Counted, ShardedInv
  <1>4. kind[j] = "partitioned" /\ answer[j] # "ok"
    <2>1. kind[j] = "partitioned"
      BY <1>2, <1>3 DEF SerialJob
    <2>2. ph[j] # "end"
      BY <1>2
    <2> QED BY <1>3, <2>1, <2>2, Zenon DEF CountedJob
  <1>5. /\ ph'[j] \in {"input", "end"} /\ answer'[j] # "ok" /\ (ph'[j] = "input" => Coord \in loc'[j].parts /\ cur' = j)
    <2>1. CASE cur' = j /\ Goto(j, "input")
      <3>1. PICK parts, need :
              /\ Coord \in parts
              /\ loc' = [loc EXCEPT ![j].parts = parts, ![j].need = need]
        <4>1. ~ Answer(j, "closed")
          <5>1. ph'[j] = "input"
            BY <1>3, <2>1, Zenon DEF Goto, Tables
          <5> QED BY <1>3, <5>1 DEF Answer, Tables
        <4> QED BY <1>4, <4>1, Zenon DEF SubmitPartitioned
      <3>2. loc'[j].parts = parts
        <4>1. j \in DOMAIN loc /\ DOMAIN loc[j] = DOMAIN NoLocals
          BY <1>3, Zenon DEF Tables
        <4>2. {"parts", "need"} \subseteq DOMAIN loc[j]
          BY <4>1 DEF NoLocals
        <4> QED BY <3>1, <4>1, <4>2
      <3>3. ph'[j] = "input" /\ answer'[j] = answer[j]
        BY <1>3, <2>1, Zenon DEF Goto, Tables
      <3> QED BY <1>4, <2>1, <3>1, <3>2, <3>3, Zenon
    <2>2. CASE Answer(j, "closed")
      <3>1. ph'[j] = "end" /\ answer'[j] = "closed"
        BY <1>3, <2>2, Zenon DEF Answer, Tables
      <3> QED BY <3>1
    <2> QED BY <2>1, <2>2, Zenon DEF SubmitPartitioned
  <1>6. (SerialJob(j))'
    <2>1. ph'[j] \in StagePhases \cup RunPhases \cup {"new", "end"} /\ ph'[j] # "new"
      BY <1>5 DEF StagePhases
    <2>2. kind'[j] \in {"partitioned", "window", "absent"} /\ kind'[j] # "window" /\ kind'[j] # "absent"
      BY <1>2, <1>4
    <2>3. /\ ph'[j] \notin {"new", "end"} => cur' = j
          /\ ph'[j] \in StagePhases => Coord \in loc'[j].parts
      BY <1>5 DEF StagePhases
    <2> QED BY <2>1, <2>2, <2>3, Zenon DEF SerialJob
  <1>7. (CountedJob(j))'
    <2>1. ph'[j] # "collect"
      BY <1>5
    <2> QED BY <1>5, <2>1, Zenon DEF CountedJob
  <1>8. ASSUME NEW c \in Conns PROVE (Sound(c))'
    <2>1. ph[j] \notin {"local", "collect"} /\ ph'[j] \notin {"local", "collect", "go", "stage", "assign"}
      BY <1>2, <1>5
    <2>2. ~ Expecting(j, c[1]) /\ ~ (Sent(j, c))'
      BY <2>1, Zenon DEF Expecting, Sent
    <2> QED BY <1>1, <1>2, <2>2, HandlerSound, Zenon
  <1> QED BY <1>1, <1>2, <1>3, <1>6, <1>7, <1>8, HandlerRest, Zenon

\* A step from one staging phase to another, or to the end.
LEMMA StagingRest ==
    ASSUME SerialInv, NEW j \in Jobs, HandlerAct(j), ph[j] \in StagePhases,
           \/ ph'[j] \in StagePhases /\ answer'[j] = answer[j] /\ cur' = cur /\ loc'[j].parts = loc[j].parts
           \/ ph'[j] = "end" /\ answer'[j] # "ok",
           misread' = {}, \A c \in Conns : (Sound(c))'
    PROVE  SerialRest' /\ Kept
  <1>1. kind[j] = "partitioned" /\ cur = j /\ Coord \in loc[j].parts /\ answer[j] # "ok"
    BY StagingKnown, Zenon
  <1>2. kind' = kind
    BY Zenon DEF HandlerAct, Apart
  <1>3. (SerialJob(j))'
    <2>1. kind'[j] \in {"partitioned", "window", "absent"} /\ kind'[j] # "window" /\ kind'[j] # "absent"
      BY <1>1, <1>2
    <2>2. ph'[j] \notin StagePhases => ph'[j] = "end"
      BY Zenon
    <2>3. "end" \notin StagePhases
      BY DEF StagePhases
    <2> QED BY <1>1, <2>1, <2>2, <2>3, Zenon DEF SerialJob
  <1>4. (CountedJob(j))'
    <2>1. ph'[j] # "collect"
      BY DEF StagePhases
    <2>2. answer'[j] # "ok"
      BY <1>1, Zenon
    <2> QED BY <2>1, <2>2, Zenon DEF CountedJob
  <1> QED BY <1>1, <1>3, <1>4, HandlerRest, Zenon

\* A worker that a file is for, and that is in the map, is one it is sent to.
LEMMA Targeted ==
    ASSUME SerialInv, NEW j \in Jobs, NEW c \in Conns, Mapped(c), c[1] \in loc[j].need
    PROVE  c[1] \in StageTargets(j)
  <1>1. c[1] \in Workers /\ c[2] \in 1 .. MaxInc
    BY ConnPair, Zenon
  <1>2. conn[c[1]] # 0
    BY <1>1, AgentAssumption DEF Mapped
  <1> QED BY <1>1, <1>2, Zenon DEF StageTargets, Connected

\* Files that are sent where nothing runs are on their way.
LEMMA FilesSent ==
    ASSUME SerialInv, NEW j \in Jobs, HandlerAct(j), ph[j] \in StagePhases, NEW c \in Conns,
           NEW k \in {"Stage", "Go"}, SendAll(StageTargets(j), Msg(k, task0(j))),
           loc'[j].need = loc[j].need, (Sent(j, c))'
    PROVE  (Equipped(c, task0(j)))'
  <1>1. Mapped(c) /\ Live(c) /\ c[1] \in loc[j].need
    BY HandlerEnds, Zenon DEF Sent
  <1>2. toW'[c] = Append(toW[c], Msg(k, task0(j)))
    BY <1>1, Targeted, SendFacts, Zenon
  <1>3. AnySeq(toW[c]) /\ ~ Has(toW[c], "Assign")
    BY <1>1, Channels, StagingKnown, ServedNoRun, Zenon DEF SerialInv, NoRun
  <1>4. Msg(k, task0(j)).kind \in {"Stage", "Go"} /\ Msg(k, task0(j)).task = task0(j)
    BY DEF Msg
  <1>5. Coming(toW'[c], task0(j))
    BY <1>2, <1>3, <1>4, ComingAppend, Zenon
  <1> QED BY <1>5, Zenon DEF Equipped, task0

\* What SendAll puts on a connection when it starts nothing.
LEMMA SendsNoStart ==
    ASSUME NEW c \in Conns, NEW S, NEW k, NEW t, SendAll(S, Msg(k, t)), k # "Assign"
    PROVE  \/ toW'[c] = toW[c]
           \/ Mapped(c) /\ Live(c) /\ \E m : m.kind # "Assign" /\ toW'[c] = Append(toW[c], m)
  <1>1. Msg(k, t).kind # "Assign"
    BY DEF Msg
  <1> QED BY <1>1, SendFacts, Zenon

\* The offers, or no offers.
LEMMA OfferSerial ==
    ASSUME SerialInv, NEW j \in Jobs, OfferInputs(j) PROVE SerialRest' /\ Kept
  <1>1. HandlerAct(j)
    BY PartitionedAct, Zenon DEF PartitionedStep
  <1>2. ph[j] = "input" /\ toC' = toC /\ cur' = cur /\ misread' = misread
    BY Zenon DEF OfferInputs, history
  <1>3. ph[j] \in StagePhases /\ "assign" \in StagePhases /\ "offer" \in StagePhases /\ "fallback" \in StagePhases
    BY <1>2 DEF StagePhases
  <1>4. /\ ph[j] \notin RunPhases \cup {"new", "end"} /\ j \in DOMAIN ph /\ Tables /\ misread = {}
    BY <1>3, StagingKnown, DaemonTables, Zenon
  <1>5. CASE StageTargets(j) = {} /\ Goto(j, "assign") /\ loc' = loc /\ toW' = toW
    <2>1. ph'[j] = "assign" /\ answer'[j] = answer[j]
      BY <1>4, <1>5, Zenon DEF Goto
    <2>2. ASSUME NEW c \in Conns PROVE (Sound(c))'
      <3>1. ~ (Sent(j, c))'
        <4> SUFFICES ASSUME (Sent(j, c))' PROVE FALSE
          BY Zenon
        <4>1. Mapped(c) /\ c[1] \in loc[j].need
          BY <1>1, <1>5, HandlerEnds, Zenon DEF Sent
        <4> QED BY <1>5, <4>1, Targeted, Zenon
      <3> QED BY <1>1, <1>2, <1>4, <1>5, <3>1, StagingSound, Zenon
    <2> QED BY <1>1, <1>2, <1>3, <1>4, <1>5, <2>1, <2>2, StagingRest, Zenon
  <1>6. CASE /\ SendAll(StageTargets(j), Msg("Offer", task0(j)))
             /\ loc' = [loc EXCEPT ![j].wait = StageTargets(j)] /\ Goto(j, "offer")
    <2>1. ph'[j] = "offer" /\ answer'[j] = answer[j] /\ loc'[j].parts = loc[j].parts
      BY <1>4, <1>6, SetWait, Zenon DEF Goto
    <2>2. ASSUME NEW c \in Conns PROVE (Sound(c))'
      <3>1. ph'[j] \notin {"go", "stage", "assign", "local", "collect"}
        BY <2>1
      <3>2. ~ (Sent(j, c))'
        BY <3>1, Zenon DEF Sent, Expecting
      <3>3. \/ toW'[c] = toW[c]
            \/ Mapped(c) /\ Live(c) /\ \E m : m.kind # "Assign" /\ toW'[c] = Append(toW[c], m)
        <4>1. "Offer" # "Assign"
          OBVIOUS
        <4> QED BY <1>6, <4>1, SendsNoStart, Zenon
      <3> QED BY <1>1, <1>2, <1>4, <3>2, <3>3, StagingSound, Zenon
    <2> QED BY <1>1, <1>2, <1>3, <1>4, <2>1, <2>2, StagingRest, Zenon
  <1>7. CASE Goto(j, "fallback") /\ loc' = loc /\ toW' = toW
    <2>1. ph'[j] = "fallback" /\ answer'[j] = answer[j]
      BY <1>4, <1>7, Zenon DEF Goto
    <2>2. ASSUME NEW c \in Conns PROVE (Sound(c))'
      <3>1. ph'[j] \notin {"go", "stage", "assign", "local", "collect"}
        BY <2>1
      <3>2. ~ (Sent(j, c))'
        BY <3>1, Zenon DEF Sent, Expecting
      <3> QED BY <1>1, <1>2, <1>4, <1>7, <3>2, StagingSound, Zenon
    <2> QED BY <1>1, <1>2, <1>3, <1>4, <1>7, <2>1, <2>2, StagingRest, Zenon
  <1> QED BY <1>5, <1>6, <1>7, Zenon DEF OfferInputs

\* The files themselves, over TCP.
LEMMA StageTcpSerial ==
    ASSUME SerialInv, NEW j \in Jobs, StageTcp(j) PROVE SerialRest' /\ Kept
  <1>1. HandlerAct(j)
    BY PartitionedAct, Zenon DEF PartitionedStep
  <1>2. /\ ph[j] = "fallback" /\ toC' = toC /\ cur' = cur /\ misread' = misread
        /\ SendAll(StageTargets(j), Msg("Stage", task0(j)))
        /\ loc' = [loc EXCEPT ![j].wait = StageTargets(j)] /\ Goto(j, "stage")
    BY Zenon DEF StageTcp, history
  <1>3. ph[j] \in StagePhases /\ "stage" \in StagePhases
    BY <1>2 DEF StagePhases
  <1>4. /\ ph[j] \notin RunPhases \cup {"new", "end"} /\ j \in DOMAIN ph /\ Tables /\ misread = {}
    BY <1>3, StagingKnown, DaemonTables, Zenon
  <1>5. /\ ph'[j] = "stage" /\ answer'[j] = answer[j] /\ loc'[j].parts = loc[j].parts
        /\ loc'[j].need = loc[j].need
    BY <1>2, <1>4, SetWait, Zenon DEF Goto
  <1>6. ASSUME NEW c \in Conns PROVE (Sound(c))'
    <2>1. (Sent(j, c))' => (Equipped(c, task0(j)))'
      BY <1>1, <1>2, <1>3, <1>5, FilesSent, Zenon
    <2>2. \/ toW'[c] = toW[c]
          \/ Mapped(c) /\ Live(c) /\ \E m : m.kind # "Assign" /\ toW'[c] = Append(toW[c], m)
      <3>1. "Stage" # "Assign"
        OBVIOUS
      <3> QED BY <1>2, <3>1, SendsNoStart, Zenon
    <2> QED BY <1>1, <1>2, <1>4, <2>1, <2>2, StagingSound, Zenon
  <1> QED BY <1>1, <1>2, <1>3, <1>4, <1>5, <1>6, StagingRest, Zenon

\* Thirty seconds without an answer.
LEMMA StageTimeoutSerial ==
    ASSUME SerialInv, NEW j \in Jobs, StageTimeout(j) PROVE SerialRest' /\ Kept
  <1>1. HandlerAct(j)
    BY PartitionedAct, Zenon DEF PartitionedStep
  <1>2. /\ ph[j] \in DOMAIN Awaited /\ toC' = toC /\ toW' = toW /\ loc' = loc /\ misread' = misread
        /\ \/ Answer(j, "closed") /\ cur' = None
           \/ Goto(j, "fallback") /\ cur' = cur
    BY Zenon DEF StageTimeout, wireVars, history
  <1>3. ph[j] \in StagePhases /\ "fallback" \in StagePhases
    BY <1>2 DEF StagePhases, Awaited
  <1>4. /\ ph[j] \notin RunPhases \cup {"new", "end"} /\ j \in DOMAIN ph /\ j \in DOMAIN answer
        /\ misread = {}
    BY <1>3, StagingKnown, DaemonTables, Zenon
  <1>5. \/ ph'[j] = "fallback" /\ answer'[j] = answer[j] /\ cur' = cur
        \/ ph'[j] = "end" /\ answer'[j] = "closed"
    BY <1>2, <1>4, Zenon DEF Goto, Answer
  <1>6. ASSUME NEW c \in Conns PROVE (Sound(c))'
    <2>1. ph'[j] \notin {"go", "stage", "assign", "local", "collect"}
      BY <1>5
    <2>2. ~ (Sent(j, c))'
      BY <2>1, Zenon DEF Sent, Expecting
    <2> QED BY <1>1, <1>2, <1>4, <2>2, StagingSound, Zenon
  <1>7. answer'[j] = "closed" => answer'[j] # "ok"
    OBVIOUS
  <1> QED BY <1>1, <1>2, <1>3, <1>4, <1>5, <1>6, <1>7, StagingRest, Zenon

\* An acknowledgement, or the last of them.
LEMMA StageRecvSerial ==
    ASSUME SerialInv, NEW j \in Jobs, StageRecv(j) PROVE SerialRest' /\ Kept
  <1>1. HandlerAct(j)
    BY PartitionedAct, Zenon DEF PartitionedStep
  <1>2. ph[j] \in {"offer", "go", "stage"} /\ cur' = cur
    BY DEF StageRecv, Awaited
  <1>3. ph[j] \in StagePhases /\ "go" \in StagePhases /\ "assign" \in StagePhases
    BY <1>2 DEF StagePhases
  <1>4. /\ ph[j] \notin RunPhases \cup {"new", "end"} /\ j \in DOMAIN ph /\ Tables
    BY <1>3, StagingKnown, Zenon
  <1>5. PICK w \in loc[j].wait :
          /\ Take(w, conn[w], j)
          /\ \/ \E S : /\ loc' = [loc EXCEPT ![j].wait = S]
                       /\ UNCHANGED <<toW, ph, answer>>
             \/ /\ SendAll(StageTargets(j), Msg("Go", task0(j)))
                /\ loc' = [loc EXCEPT ![j].wait = StageTargets(j)]
                /\ Goto(j, "go") 
             \/ /\ ph[j] # "offer"
                /\ loc' = [loc EXCEPT ![j].wait = {}]
                /\ Goto(j, "assign")
                /\ toW' = toW
    BY Zenon DEF StageRecv
  <1>6. PICK o : o = <<w, conn[w]>>
    BY Zenon
  <1>7. /\ o \in Conns /\ Mapped(o) /\ toC[o] # <<>> /\ toC'[o] = Tail(toC[o])
        /\ \A c \in Conns \ {o} : toC'[c] = toC[c]
        /\ (Head(toC[o]).kind = "Done" => Head(toC[o]).task[1] = j) => misread' = {}
    <2>1. Take(w, conn[w], j)
      BY <1>5, Zenon
    <2> QED BY <1>6, <2>1, TakeFacts
  <1>8. misread' = {}
    <2>1. AnySeq(toC[o]) /\ ~ Has(toC[o], "Done")
      BY <1>4, <1>7, Channels, ServedNoRun, Zenon DEF SerialInv, NoRun
    <2>2. Head(toC[o]).kind # "Done"
      BY <1>7, <2>1, TailHas, Zenon
    <2> QED BY <1>7, <2>2, Zenon
  <1>9. \A c \in Conns : toC'[c] = toC[c] \/ (toC[c] # <<>> /\ toC'[c] = Tail(toC[c]))
    BY <1>7, Zenon
  <1>10. loc'[j].parts = loc[j].parts /\ loc'[j].need = loc[j].need
    BY <1>4, <1>5, SetWait, Zenon
  <1>11. CASE toW' = toW /\ answer'[j] = answer[j]
              /\ (ph'[j] = ph[j] \/ (ph'[j] = "assign" /\ ph[j] # "offer"))
    <2>1. ASSUME NEW c \in Conns PROVE (Sound(c))'
      <3>1. (Sent(j, c))' => Sent(j, c)
        <4> SUFFICES ASSUME (Sent(j, c))' PROVE Sent(j, c)
          BY Zenon
        <4>1. Mapped(c) /\ Live(c) /\ c[1] \in loc[j].need
          BY <1>1, <1>10, HandlerEnds, Zenon DEF Sent
        <4>2. ph'[j] \notin {"local", "collect"}
          BY <1>2, <1>11
        <4>3. ph'[j] \in {"go", "stage", "assign"}
          BY <4>2, Zenon DEF Sent, Expecting
        <4>4. ph[j] \in {"go", "stage", "assign"}
          BY <1>2, <1>11, <4>3
        <4> QED BY <4>1, <4>4, Zenon DEF Sent
      <3>2. (Sent(j, c))' => (Equipped(c, task0(j)))'
        <4>1. Sent(j, c) => Equipped(c, task0(j))
          BY Zenon DEF SerialInv, SerialRest, Sound
        <4>2. staged'[c[1]] = staged[c[1]] /\ proc'[c[1]] = proc[c[1]]
          BY <1>1, HandlerEnds, Zenon
        <4> QED BY <1>11, <3>1, <4>1, <4>2, Zenon DEF Equipped, task0
      <3> QED BY <1>1, <1>4, <1>9, <1>11, <3>2, StagingSound, Zenon
    <2> QED BY <1>1, <1>2, <1>3, <1>8, <1>10, <1>11, <2>1, StagingRest, Zenon
  <1>12. CASE SendAll(StageTargets(j), Msg("Go", task0(j))) /\ Goto(j, "go")
    <2>1. ph'[j] = "go" /\ answer'[j] = answer[j]
      BY <1>4, <1>12, Zenon DEF Goto
    <2>2. ASSUME NEW c \in Conns PROVE (Sound(c))'
      <3>1. (Sent(j, c))' => (Equipped(c, task0(j)))'
        BY <1>1, <1>3, <1>10, <1>12, FilesSent, Zenon
      <3>2. \/ toW'[c] = toW[c]
            \/ Mapped(c) /\ Live(c) /\ \E m : m.kind # "Assign" /\ toW'[c] = Append(toW[c], m)
        <4>1. "Go" # "Assign"
          OBVIOUS
        <4> QED BY <1>12, <4>1, SendsNoStart, Zenon
      <3> QED BY <1>1, <1>4, <1>9, <3>1, <3>2, StagingSound, Zenon
    <2> QED BY <1>1, <1>2, <1>3, <1>8, <1>10, <2>1, <2>2, StagingRest, Zenon
  <1> QED
    <2>1. ASSUME UNCHANGED <<toW, ph, answer>> PROVE SerialRest' /\ Kept
      BY <1>11, <2>1, Zenon
    <2>2. ASSUME ph[j] # "offer", Goto(j, "assign"), toW' = toW PROVE SerialRest' /\ Kept
      <3>1. ph'[j] = "assign" /\ answer'[j] = answer[j]
        BY <1>4, <2>2, Zenon DEF Goto
      <3> QED BY <1>11, <2>2, <3>1, Zenon
    <2> QED BY <1>5, <1>12, <2>1, <2>2, Zenon

\* The order to run, to every worker in the map that has a part.
LEMMA AssignSerial ==
    ASSUME SerialInv, NEW j \in Jobs, AssignJobs(j) PROVE SerialRest' /\ Kept
  <1>1. HandlerAct(j)
    BY PartitionedAct, Zenon DEF PartitionedStep
  <1>2. ph[j] = "assign"
    BY Zenon DEF AssignJobs
  <1>3. ph[j] \in StagePhases
    BY <1>2 DEF StagePhases
  <1>4. /\ kind[j] = "partitioned" /\ cur = j /\ Coord \in loc[j].parts /\ j \in DOMAIN ph /\ j \in DOMAIN answer
        /\ ph[j] \notin RunPhases \cup {"new", "end"} /\ misread = {}
    BY <1>3, StagingKnown, DaemonTables, Zenon
  <1>5. /\ SendAll(loc[j].parts \cap Connected, Msg("Assign", task0(j)))
        /\ ph' = [ph EXCEPT ![j] = "local"] /\ answer' = [answer EXCEPT ![j] = "acked"]
        /\ cur' = cur /\ loc' = loc /\ toC' = toC /\ misread' = misread /\ kind' = kind
    BY <1>4, Zenon DEF AssignJobs, history
  <1>6. ph'[j] = "local" /\ answer'[j] = "acked"
    BY <1>4, <1>5, Zenon
  <1>7. (SerialJob(j))'
    <2>1. ph'[j] \in RunPhases /\ ph'[j] \notin StagePhases /\ kind'[j] = "partitioned"
      BY <1>4, <1>5, <1>6 DEF RunPhases, StagePhases
    <2>2. kind'[j] \in {"partitioned", "window", "absent"} /\ kind'[j] # "window" /\ kind'[j] # "absent"
      BY <2>1
    <2> QED BY <1>4, <1>5, <2>1, <2>2, Zenon DEF SerialJob
  <1>8. (CountedJob(j))'
    <2>1. ph'[j] # "collect" /\ answer'[j] # "ok"
      BY <1>6
    <2> QED BY <2>1, Zenon DEF CountedJob
  <1>9. PICK m, t : m = Msg("Assign", task0(j)) /\ t = task0(j)
    BY Zenon
  <1>10. m.kind = "Assign" /\ m.task = t
    BY <1>9 DEF Msg
  <1>11. ASSUME NEW c \in Conns PROVE (Sound(c))'
    <2>1. /\ (Ex(c))' = Ex(c) /\ ((Live(c))' <=> Live(c)) /\ ((Mapped(c))' <=> Mapped(c))
          /\ inc' = inc /\ staged'[c[1]] = staged[c[1]] /\ proc'[c[1]] = proc[c[1]]
      BY <1>1, HandlerEnds, Zenon
    <2>2. AnySeq(toW[c]) /\ Sound(c) /\ (Mapped(c) => NoRun(c))
      BY <1>4, Channels, ServedNoRun, Zenon DEF SerialInv, SerialRest
    <2>3. CASE c[1] \in loc[j].parts \cap Connected /\ Mapped(c) /\ Live(c)
      <3>1. toW'[c] = Append(toW[c], m)
        BY <1>5, <1>9, <2>3, SendFacts, Zenon
      <3>2. ~ Has(toW[c], "Assign") /\ Ex(c) = Idle /\ ~ Has(toC[c], "Done")
        BY <2>2, <2>3, Zenon DEF NoRun
      <3>3. Once(toW'[c], "Assign") /\ \A i \in DOMAIN toW'[c] : toW'[c][i].kind = "Assign" => toW'[c][i].task = t
        <4>0. Grown(toW'[c], toW[c], m)
          BY <2>2, <3>1, Zenon DEF Grown
        <4>1. Once(toW'[c], "Assign")
          BY <3>2, <4>0, WrittenFirst, Zenon
        <4>2. \A i \in DOMAIN toW'[c] : toW'[c][i] = m \/ \E k \in DOMAIN toW[c] : toW'[c][i] = toW[c][k]
          <5> SUFFICES ASSUME NEW i \in DOMAIN toW'[c], toW'[c][i] # m
                       PROVE  \E k \in DOMAIN toW[c] : toW'[c][i] = toW[c][k]
            BY Zenon
          <5> QED BY <4>0, WrittenWhere
        <4> QED BY <1>10, <3>2, <4>1, <4>2, Zenon DEF Has
      <3>4. (OneRun(c, t))'
        <4>1. ~ Has(toC'[c], "Done") /\ Once(toC'[c], "Done") /\ (Ex(c))' = Idle
          BY <1>5, <2>1, <3>2, Zenon DEF Once, Has
        <4> QED BY <3>3, <4>1, Zenon DEF OneRun, Has
      <3>5. (OneRun(c, task0(j)))'
        BY <1>9, <3>4, Zenon DEF task0
      <3>6. (Expecting(j, c[1]))'
        BY <1>5, <1>6, <2>3, Zenon DEF Expecting
      <3>7. ASSUME NEW k \in Jobs, (Sent(k, c))' PROVE (Equipped(c, task0(k)))'
        <4>1. k = j
          <5> SUFFICES ASSUME k # j PROVE FALSE
            BY Zenon
          <5>1. ph[k] \in {"new", "end"} /\ ph'[k] = ph[k]
            BY <1>1, <1>4, ServedNoRun, Zenon DEF HandlerAct, Apart
          <5>2. ph'[k] \notin {"go", "stage", "assign", "local", "collect"}
            BY <5>1
          <5> QED BY <3>7, <5>2, Zenon DEF Sent, Expecting
        <4>2. c[1] \in loc[j].need /\ ph[j] \in {"go", "stage", "assign"}
          BY <1>2, <1>5, <3>7, <4>1, Zenon DEF Sent
        <4>3. Equipped(c, t)
          BY <1>9, <2>2, <2>3, <4>2, Zenon DEF Sent, Sound
        <4>4. m.kind # "Go"
          BY <1>10
        <4>5. /\ Coming(toW[c], t) => Coming(toW'[c], t)
              /\ ~ Has(toW[c], "Go") => ~ Has(toW'[c], "Go")
          <5>1. Grown(toW'[c], toW[c], m)
            BY <2>2, <3>1, Zenon DEF Grown
          <5>2. ~ Has(toW[c], "Go") => ~ Has(toW'[c], "Go")
            BY <4>4, <5>1, Written, Zenon
          <5>3. Coming(toW[c], t) => Coming(Append(toW[c], m), t)
            BY <2>2, <4>4, ComingAppend, Zenon
          <5> QED BY <3>1, <5>2, <5>3, Zenon
        <4>6. (Equipped(c, t))'
          BY <2>1, <4>3, <4>5, Zenon DEF Equipped
        <4> QED BY <1>9, <4>1, <4>6, Zenon DEF task0
      <3>8. (~ Live(c) => toW[c] = <<>> /\ Ex(c) = Idle)'
        BY <2>1, <2>3, Zenon
      <3>9. (~ Mapped(c) /\ inc[c[1]] <= c[2] => Quiet(c))'
        BY <2>1, <2>3, Zenon
      <3> QED BY <3>5, <3>6, <3>7, <3>8, <3>9, Zenon DEF Sound
    <2>4. CASE ~ (c[1] \in loc[j].parts \cap Connected /\ Mapped(c) /\ Live(c))
      <3>1. toW'[c] = toW[c] /\ toC'[c] = toC[c]
        BY <1>5, <2>4, SendFacts, Zenon
      <3>2. ~ (Sent(j, c))'
        <4> SUFFICES ASSUME (Sent(j, c))' PROVE FALSE
          BY Zenon
        <4>1. Mapped(c) /\ Has(toW'[c], "Assign")
          <5>1. ph'[j] \notin {"go", "stage", "assign"}
            BY <1>6
          <5> QED BY <2>1, <5>1, Zenon DEF Sent
        <4> QED BY <2>2, <3>1, <4>1, Zenon DEF NoRun
      <3> QED BY <1>1, <2>2, <3>1, <3>2, HandlerSound, Zenon
    <2> QED BY <2>3, <2>4, Zenon
  <1> QED BY <1>1, <1>4, <1>5, <1>7, <1>8, <1>11, HandlerRest, Zenon

\* What a handler that waits for results knows of its own state.
LEMMA RunningKnown ==
    ASSUME SerialInv, NEW j \in Jobs, ph[j] \in RunPhases
    PROVE  /\ kind[j] = "partitioned" /\ cur = j /\ answer[j] # "ok" /\ CountedJob(j)
           /\ j \in DOMAIN ph /\ j \in DOMAIN answer /\ j \in DOMAIN loc /\ Tables
           /\ {"wait", "parts", "need", "expected", "good"} \subseteq DOMAIN loc[j]
           /\ misread = {} /\ "collect" \in RunPhases
           /\ \A k \in Jobs \ {j} : ph[k] \in {"new", "end"}
  <1>1. ph[j] \notin StagePhases /\ ph[j] \notin {"new", "end", "window", "merge"} /\ "collect" \in RunPhases
    BY DEF StagePhases, RunPhases
  <1>2. SerialJob(j) /\ CountedJob(j) /\ Tables /\ misread = {}
    BY Zenon DEF SerialInv, SerialRest, Serial, Counted, ShardedInv
  <1>3. kind[j] = "partitioned" /\ cur = j
    BY <1>1, <1>2, Zenon DEF SerialJob
  <1>4. answer[j] # "ok"
    BY <1>1, <1>2, <1>3, Zenon DEF CountedJob
  <1>5. {"wait", "parts", "need", "expected", "good"} \subseteq DOMAIN loc[j]
    <2>1. DOMAIN loc[j] = DOMAIN NoLocals
      BY <1>2, Zenon DEF Tables
    <2> QED BY <2>1 DEF NoLocals
  <1>6. \A k \in Jobs \ {j} : ph[k] \in {"new", "end"}
    BY ServedRun, Zenon
  <1> QED BY <1>1, <1>2, <1>3, <1>4, <1>5, <1>6, Zenon DEF Tables

\* The handler goes on waiting: the rest of the invariant, for its own job.
LEMMA CollectingRest ==
    ASSUME SerialInv, NEW j \in Jobs, HandlerAct(j), ph[j] \in RunPhases,
           ph'[j] = "collect", answer'[j] = answer[j], cur' = cur,
           loc'[j].good => \A w \in loc'[j].expected : w \in loc'[j].wait \/ <<task0(j), w>> \in done',
           misread' = {}, \A c \in Conns : (Sound(c))'
    PROVE  SerialRest' /\ Kept
  <1>1. kind[j] = "partitioned" /\ cur = j /\ answer[j] # "ok" /\ "collect" \in RunPhases
    BY RunningKnown, Zenon
  <1>2. kind' = kind
    BY Zenon DEF HandlerAct, Apart
  <1>3. (SerialJob(j))'
    <2>1. kind'[j] \in {"partitioned", "window", "absent"} /\ kind'[j] # "window" /\ kind'[j] # "absent"
      BY <1>1, <1>2
    <2>2. "collect" \notin StagePhases
      BY DEF StagePhases
    <2> QED BY <1>1, <2>1, <2>2, Zenon DEF SerialJob
  <1>4. (CountedJob(j))'
    BY <1>1, Zenon DEF CountedJob, task0
  <1> QED BY <1>3, <1>4, HandlerRest, Zenon

\* The coordinator's own executor ends.
LEMMA LocalSerial ==
    ASSUME SerialInv, NEW j \in Jobs, LocalExecutor(j) PROVE SerialRest' /\ Kept
  <1>1. HandlerAct(j)
    BY PartitionedAct, Zenon DEF PartitionedStep
  <1>2. PICK E : E = loc[j].parts \cap Connected
    BY Zenon
  <1>3. /\ ph[j] = "local" /\ toW' = toW /\ toC' = toC /\ cur' = cur /\ misread' = misread
        /\ loc' = [loc EXCEPT ![j].expected = E, ![j].wait = E] /\ Goto(j, "collect")
    BY <1>2, Zenon DEF LocalExecutor, wireVars, coordVars
  <1>4. ph[j] \in RunPhases
    BY <1>3 DEF RunPhases
  <1>5. /\ j \in DOMAIN ph /\ j \in DOMAIN loc /\ misread = {}
        /\ {"wait", "parts", "need", "expected", "good"} \subseteq DOMAIN loc[j]
    BY <1>4, RunningKnown, Zenon
  <1>6. ph'[j] = "collect" /\ answer' = answer
    BY <1>3, <1>5, Zenon DEF Goto
  <1>7. loc'[j].expected = E /\ loc'[j].wait = E /\ loc'[j].need = loc[j].need
    BY <1>3, SetExpected, Zenon DEF SerialInv, ShardedInv
  <1>8. ASSUME NEW c \in Conns PROVE (Sound(c))'
    <2>1. Mapped(c) /\ Expecting(j, c[1]) => (Expecting(j, c[1]))'
      <3> SUFFICES ASSUME Mapped(c), Expecting(j, c[1]) PROVE (Expecting(j, c[1]))'
        BY Zenon
      <3>1. c[1] \in Workers /\ conn[c[1]] # 0
        <4>1. c[1] \in Workers /\ c[2] \in 1 .. MaxInc
          BY ConnPair, Zenon
        <4> QED BY <4>1, AgentAssumption DEF Mapped
      <3>2. ph[j] # "collect"
        BY <1>3
      <3>3. c[1] \in E
        BY <1>2, <3>1, <3>2, Zenon DEF Expecting, Connected
      <3> QED BY <1>6, <1>7, <3>3, Zenon DEF Expecting
    <2>2. (Sent(j, c))' => Sent(j, c)
      <3> SUFFICES ASSUME (Sent(j, c))' PROVE Sent(j, c)
        BY Zenon
      <3>1. ph'[j] \notin {"go", "stage", "assign", "local"}
        BY <1>6
      <3>2. Mapped(c) /\ Live(c) /\ c[1] \in loc[j].need /\ Has(toW[c], "Assign") /\ c[1] \in E
        BY <1>1, <1>3, <1>7, <3>1, HandlerEnds, Zenon DEF Sent, Expecting
      <3> QED BY <1>2, <1>3, <3>2, Zenon DEF Sent, Expecting
    <2> QED BY <1>1, <1>3, <2>1, <2>2, HandlerSound, Zenon
  <1> QED BY <1>1, <1>3, <1>4, <1>5, <1>6, <1>7, <1>8, CollectingRest, Zenon

\* A message of a worker that is still waited for: the result it brings is
\* that of this job.
LEMMA CollectSerial ==
    ASSUME SerialInv, NEW j \in Jobs, Collect(j) PROVE SerialRest' /\ Kept
  <1>1. HandlerAct(j)
    BY PartitionedAct, Zenon DEF PartitionedStep
  <1>2. ph[j] = "collect" /\ toW' = toW /\ cur' = cur /\ ph' = ph /\ answer' = answer /\ done' = done
    BY Zenon DEF Collect, coordVars
  <1>3. PICK w \in loc[j].wait :
          /\ Take(w, conn[w], j)
          /\ LET m == Head(toC[<<w, conn[w]>>])
             IN  loc' = IF m.kind = "Done"
                        THEN [loc EXCEPT ![j].wait = @ \ {w}, ![j].good = @ /\ m.ok]
                        ELSE loc
    BY Zenon DEF Collect
  <1>4. PICK o, m : o = <<w, conn[w]>> /\ m = Head(toC[o])
    BY Zenon
  <1>5. /\ o \in Conns /\ o[1] = w /\ Mapped(o) /\ toC[o] # <<>> /\ toC'[o] = Tail(toC[o])
        /\ \A c \in Conns \ {o} : toC'[c] = toC[c]
        /\ (m.kind = "Done" => m.task[1] = j) => misread' = {}
    <2>1. Take(w, conn[w], j)
      BY <1>3, Zenon
    <2>2. /\ o \in Conns /\ o[1] = w /\ Mapped(o) /\ toC[o] # <<>> /\ toC'[o] = Tail(toC[o])
          /\ \A c \in Conns \ {o} : toC'[c] = toC[c]
          /\ (Head(toC[o]).kind = "Done" => Head(toC[o]).task[1] = j) => misread' = {}
      BY <1>4, <2>1, TakeFacts
    <2> QED BY <1>4, <2>2, Zenon
  <1>6. ph[j] \in RunPhases
    BY <1>2 DEF RunPhases
  <1>7. /\ j \in DOMAIN loc /\ CountedJob(j) /\ kind[j] = "partitioned"
        /\ {"wait", "parts", "need", "expected", "good"} \subseteq DOMAIN loc[j]
        /\ \A k \in Jobs \ {j} : ph[k] \in {"new", "end"}
    BY <1>6, RunningKnown, Zenon
  <1>8. AnySeq(toC[o]) /\ 1 \in DOMAIN toC[o] /\ m = toC[o][1]
    <2>1. AnySeq(toC[o])
      BY <1>5, Channels, Zenon DEF SerialInv
    <2> QED BY <1>4, <1>5, <2>1, TailPositions, Zenon
  <1>9. m.kind = "Done" => OneRun(o, task0(j))
    <2>1. m.kind = "Done" => ~ NoRun(o)
      BY <1>8, Zenon DEF NoRun, Has
    <2> QED BY <1>5, <1>6, <2>1, ServedRun, Zenon
  <1>10. m.kind = "Done" => m.task = task0(j) /\ m.task[1] = j /\ (m.ok => <<task0(j), w>> \in done)
    <2>1. task0(j)[1] = j
      BY DEF task0
    <2>2. m.kind = "Done" => m.task = task0(j) /\ (m.ok => <<task0(j), w>> \in done)
      BY <1>5, <1>8, <1>9, Zenon DEF OneRun
    <2> QED BY <2>1, <2>2, Zenon
  <1>11. misread' = {}
    BY <1>5, <1>10, Zenon
  <1>12. /\ loc'[j].need = loc[j].need /\ loc'[j].expected = loc[j].expected /\ loc'[j].parts = loc[j].parts
         /\ m.kind = "Done" => loc'[j].wait = loc[j].wait \ {w} /\ (loc'[j].good => loc[j].good /\ m.ok)
         /\ m.kind # "Done" => loc' = loc
    <2>1. CASE m.kind = "Done"
      <3>1. loc' = [loc EXCEPT ![j].wait = loc[j].wait \ {w}, ![j].good = loc[j].good /\ m.ok]
        BY <1>3, <1>4, <2>1
      <3>2. /\ loc'[j].need = loc[j].need /\ loc'[j].expected = loc[j].expected
            /\ loc'[j].parts = loc[j].parts /\ loc'[j].wait = loc[j].wait \ {w}
            /\ loc'[j].good = (loc[j].good /\ m.ok)
        <4>1. PICK S, x : S = loc[j].wait \ {w} /\ x = (loc[j].good /\ m.ok)
          BY Zenon
        <4>2. Settles(j, S, x)
          BY <3>1, <4>1, Zenon DEF Settles
        <4>3. Tables
          BY Zenon DEF SerialInv, ShardedInv
        <4>4. /\ loc'[j].wait = S /\ loc'[j].parts = loc[j].parts /\ loc'[j].need = loc[j].need
              /\ loc'[j].expected = loc[j].expected /\ loc'[j].good = x
          BY <4>2, <4>3, SetGood, Zenon
        <4> QED BY <4>1, <4>4, Zenon
      <3> QED BY <2>1, <3>2, Zenon
    <2>2. CASE m.kind # "Done"
      <3>1. loc' = loc
        BY <1>3, <1>4, <2>2
      <3> QED BY <2>2, <3>1, Zenon
    <2> QED BY <2>1, <2>2, Zenon
  <1>13. loc'[j].good => \A v \in loc'[j].expected : v \in loc'[j].wait \/ <<task0(j), v>> \in done'
    <2> SUFFICES ASSUME loc'[j].good, NEW v \in loc'[j].expected
                 PROVE  v \in loc'[j].wait \/ <<task0(j), v>> \in done'
      BY Zenon
    <2>1. loc[j].good /\ (v \in loc[j].wait \/ <<task0(j), v>> \in done)
      BY <1>2, <1>7, <1>12, Zenon DEF CountedJob
    <2> QED BY <1>2, <1>10, <1>12, <2>1, Zenon
  <1>14. ASSUME NEW c \in Conns, c # o PROVE (Sound(c))'
    <2>1. Mapped(c) => c[1] # w
      <3>1. c = <<c[1], c[2]>>
        BY ConnPair, Zenon
      <3> QED BY <1>4, <1>14, <3>1, Zenon DEF Mapped
    <2>2. Mapped(c) => (Expecting(j, c[1]) => (Expecting(j, c[1]))')
      BY <1>2, <1>12, <2>1, Zenon DEF Expecting
    <2>3. (Expecting(j, c[1]))' => Expecting(j, c[1])
      BY <1>2, <1>12, Zenon DEF Expecting
    <2>4. (Sent(j, c))' => Sent(j, c)
      BY <1>1, <1>2, <1>12, <2>3, HandlerEnds, Zenon DEF Sent
    <2> QED BY <1>1, <1>2, <1>5, <1>14, <2>2, <2>4, HandlerSound, Zenon
  <1>15. (Sound(o))'
    <2>1. /\ (Ex(o))' = Ex(o) /\ ((Live(o))' <=> Live(o)) /\ (Mapped(o))' /\ inc' = inc
          /\ staged'[o[1]] = staged[o[1]] /\ proc'[o[1]] = proc[o[1]]
      BY <1>1, <1>5, HandlerEnds, Zenon
    <2>2. Sound(o)
      BY <1>5, Zenon DEF SerialInv, SerialRest
    <2>3. (~ Live(o) => toW[o] = <<>> /\ Ex(o) = Idle)'
      BY <1>2, <2>1, <2>2, Zenon DEF Sound
    <2>4. /\ Has(toC'[o], "Done") => Has(toC[o], "Done")
          /\ Once(toC[o], "Done") => Once(toC'[o], "Done")
          /\ Once(toC[o], "Done") /\ m.kind = "Done" => ~ Has(toC'[o], "Done")
          /\ m.kind = "Done" => Has(toC[o], "Done")
          /\ \A i \in DOMAIN toC'[o] : \E k \in DOMAIN toC[o] : toC'[o][i] = toC[o][k]
      <3>1. Shrunk(toC'[o], toC[o])
        BY <1>5, <1>8, Zenon DEF Shrunk
      <3>2. /\ Has(toC'[o], "Done") => Has(toC[o], "Done")
            /\ Once(toC[o], "Done") => Once(toC'[o], "Done")
        BY <3>1, Received, Zenon
      <3>3. /\ Once(toC[o], "Done") /\ m.kind = "Done" => ~ Has(toC'[o], "Done")
            /\ m.kind = "Done" => Has(toC[o], "Done")
        BY <1>4, <3>1, Received, Zenon
      <3>4. ASSUME NEW i \in DOMAIN toC'[o] PROVE \E k \in DOMAIN toC[o] : toC'[o][i] = toC[o][k]
        BY <3>1, ReceivedWhere
      <3> QED BY <3>2, <3>3, <3>4, Zenon
    <2>5. (NoRun(o))' \/ \E k \in Jobs : (Expecting(k, o[1]))' /\ (OneRun(o, task0(k)))'
      <3>1. CASE m.kind = "Done"
        <4>1. Ex(o) = Idle /\ ~ Has(toW[o], "Assign") /\ ~ Has(toC'[o], "Done")
          BY <1>9, <2>4, <3>1, Zenon DEF OneRun
        <4> QED BY <1>2, <2>1, <4>1, Zenon DEF NoRun
      <3>2. CASE NoRun(o)
        BY <1>2, <2>1, <2>4, <3>2, Zenon DEF NoRun
      <3>3. CASE m.kind # "Done" /\ Expecting(j, o[1]) /\ OneRun(o, task0(j))
        <4>1. (Expecting(j, o[1]))'
          BY <1>2, <1>12, <3>3, Zenon DEF Expecting
        <4>2. PICK t : t = task0(j)
          BY Zenon
        <4>3. OneRun(o, t)
          BY <3>3, <4>2, Zenon
        <4>4. \A i \in DOMAIN toC'[o] : toC'[o][i].kind = "Done" =>
                 toC'[o][i].task = t /\ (toC'[o][i].ok => <<t, o[1]>> \in done)
          BY <2>4, <4>3, Zenon DEF OneRun
        <4>5. (OneRun(o, t))'
          BY <1>2, <2>1, <2>4, <4>3, <4>4, Zenon DEF OneRun
        <4> QED BY <4>1, <4>2, <4>5, Zenon DEF task0
      <3> QED BY <1>5, <1>6, <3>1, <3>2, <3>3, ServedRun, Zenon
    <2>6. ASSUME NEW k \in Jobs, (Sent(k, o))' PROVE (Equipped(o, task0(k)))'
      <3>1. (Expecting(k, o[1]))' => Expecting(k, o[1])
        <4>1. CASE k = j
          BY <1>2, <1>12, <4>1, Zenon DEF Expecting
        <4>2. CASE k # j
          BY <1>1, <1>5, <4>2, HandlerEnds, Zenon
        <4> QED BY <4>1, <4>2, Zenon
      <3>2. loc'[k].need = loc[k].need
        BY <1>1, <1>12, Zenon DEF HandlerAct, Apart
      <3>3. Sent(k, o)
        BY <1>2, <1>5, <2>1, <2>6, <3>1, <3>2, Zenon DEF Sent
      <3>4. Equipped(o, task0(k))
        BY <2>2, <3>3, Zenon DEF Sound
      <3> QED BY <1>2, <2>1, <3>4, Zenon DEF Equipped, task0
    <2> QED BY <2>1, <2>3, <2>5, <2>6, Zenon DEF Sound
  <1>16. \A c \in Conns : (Sound(c))'
    BY <1>14, <1>15, Zenon
  <1> QED BY <1>1, <1>2, <1>6, <1>11, <1>13, <1>16, CollectingRest, Zenon

\* The deadline: those that are missing are gone, and left nothing behind.
LEMMA CollectTimeoutSerial ==
    ASSUME SerialInv, NEW j \in Jobs, CollectTimeout(j) PROVE SerialRest' /\ Kept
  <1>1. HandlerAct(j)
    BY PartitionedAct, Zenon DEF PartitionedStep
  <1>2. /\ ph[j] = "collect" /\ toW' = toW /\ toC' = toC /\ cur' = cur /\ ph' = ph /\ answer' = answer
        /\ misread' = misread /\ \A w \in loc[j].wait : Silent(w, conn[w])
        /\ loc' = [loc EXCEPT ![j].wait = {}, ![j].good = FALSE]
    BY Zenon DEF CollectTimeout, wireVars, coordVars, history
  <1>3. ph[j] \in RunPhases
    BY <1>2 DEF RunPhases
  <1>4. /\ j \in DOMAIN loc /\ misread = {}
        /\ {"wait", "parts", "need", "expected", "good"} \subseteq DOMAIN loc[j]
    BY <1>3, RunningKnown, Zenon
  <1>5. loc'[j].wait = {} /\ loc'[j].good = FALSE /\ loc'[j].need = loc[j].need
    <2>1. Settles(j, {}, FALSE)
      BY <1>2, Zenon DEF Settles
    <2> QED BY <2>1, SetGood, Zenon DEF SerialInv, ShardedInv
  <1>6. ASSUME NEW c \in Conns PROVE (Sound(c))'
    <2>1. Mapped(c) => NoRun(c)
      <3> SUFFICES ASSUME Mapped(c), Expecting(j, c[1]) PROVE NoRun(c)
        BY <1>3, ServedRun, Zenon
      <3>1. ph[j] # "local"
        BY <1>2
      <3>2. Silent(c[1], c[2])
        BY <1>2, <3>1, Zenon DEF Expecting, Mapped
      <3>3. c = <<c[1], c[2]>>
        BY ConnPair, Zenon
      <3>4. ~ Live(c) /\ toC[c] = <<>>
        BY <3>2, <3>3, Zenon DEF Silent, Broken, Live
      <3>5. toW[c] = <<>> /\ Ex(c) = Idle
        BY <3>4, Zenon DEF SerialInv, SerialRest, Sound
      <3> QED BY <3>4, <3>5, EmptyHas, Zenon DEF NoRun
    <2>2. (Sent(j, c))' => Sent(j, c)
      <3>1. ph'[j] \notin {"go", "stage", "assign", "local"}
        BY <1>2
      <3>2. ~ (Sent(j, c))'
        BY <1>5, <3>1, Zenon DEF Sent, Expecting
      <3> QED BY <3>2, Zenon
    <2> QED BY <1>1, <1>2, <2>1, <2>2, HandlerSound, Zenon
  <1> QED BY <1>1, <1>2, <1>3, <1>4, <1>5, <1>6, CollectingRest, Zenon

\* Everybody has answered or is given up: the verdict.
LEMMA CollectEndSerial ==
    ASSUME SerialInv, NEW j \in Jobs, CollectEnd(j) PROVE SerialRest' /\ Kept
  <1>1. HandlerAct(j)
    BY PartitionedAct, Zenon DEF PartitionedStep
  <1>2. /\ ph[j] = "collect" /\ toW' = toW /\ toC' = toC /\ cur' = None /\ loc' = loc /\ kind' = kind
        /\ misread' = misread /\ loc[j].wait = {} /\ Answer(j, Verdict(loc[j].good)) /\ done' = done
    BY Zenon DEF CollectEnd, wireVars, history
  <1>3. ph[j] \in RunPhases
    BY <1>2 DEF RunPhases
  <1>4. /\ j \in DOMAIN ph /\ j \in DOMAIN answer /\ misread = {} /\ CountedJob(j) /\ cur = j
        /\ kind[j] = "partitioned"
    BY <1>3, RunningKnown, Zenon
  <1>5. ph'[j] = "end" /\ answer'[j] = Verdict(loc[j].good)
    BY <1>2, <1>4, Zenon DEF Answer
  <1>6. answer'[j] = "ok" => loc[j].good
    BY <1>5 DEF Verdict
  <1>7. (CountedJob(j))'
    <2>1. answer'[j] = "ok" => \A w \in loc[j].expected : <<task0(j), w>> \in done
      BY <1>2, <1>4, <1>6, Zenon DEF CountedJob
    <2>2. ph'[j] # "collect"
      BY <1>5
    <2> QED BY <1>2, <1>5, <2>1, <2>2, Zenon DEF CountedJob, task0
  <1>8. (SerialJob(j))'
    <2>1. kind'[j] \in {"partitioned", "window", "absent"} /\ kind'[j] # "window" /\ kind'[j] # "absent"
      BY <1>2, <1>4
    <2>2. "end" \notin StagePhases
      BY DEF StagePhases
    <2> QED BY <1>5, <2>1, <2>2, Zenon DEF SerialJob
  <1>9. ASSUME NEW c \in Conns PROVE (Sound(c))'
    <2>1. ~ Expecting(j, c[1]) /\ ~ (Sent(j, c))'
      <3>1. ph[j] # "local" /\ ph'[j] \notin {"go", "stage", "assign", "local", "collect"}
        BY <1>2, <1>5
      <3> QED BY <1>2, <3>1, Zenon DEF Expecting, Sent
    <2> QED BY <1>1, <1>2, <2>1, HandlerSound, Zenon
  <1> QED BY <1>1, <1>2, <1>4, <1>7, <1>8, <1>9, HandlerRest, Zenon

-----------------------------------------------------------------------------
(* All steps                                                               *)

\* The steps of a divide-and-merge job that runs in a window on this node.
WindowStep(j) ==
    SubmitSharded(j) \/ WindowLaunch(j) \/ WindowReap(j) \/ WindowTimeout(j) \/ WindowEnd(j) \/ Merge(j)

\* They concern nobody else: nothing is sent or read.
LEMMA WindowSerial ==
    ASSUME SerialInv, NEW j \in Jobs, kind[j] = "window", WindowStep(j) PROVE SerialRest' /\ Kept
  <1>1. Apart(j)
    BY ShardedApart, Zenon DEF SerialInv, ShardedInv, WindowStep, ShardedStep
  <1>2. /\ toW' = toW /\ toC' = toC /\ misread' = misread /\ blind' = blind /\ conn' = conn
        /\ UNCHANGED workerVars /\ done \subseteq done'
    BY Zenon DEF WindowStep, SubmitSharded, WindowLaunch, WindowReap, WindowTimeout, WindowEnd, Merge,
       wireVars, history, coordVars
  <1>3. HandlerAct(j)
    BY <1>1, <1>2, Zenon DEF HandlerAct, workerVars
  <1>4. SerialJob(j) /\ misread = {} /\ j \in DOMAIN ph /\ j \in DOMAIN answer
    BY Zenon DEF SerialInv, SerialRest, Serial, ShardedInv, Tables
  <1>5. /\ ph[j] \in {"new", "window", "merge"} /\ ph'[j] \in {"window", "merge", "end"}
        /\ cur' = cur \/ cur \in {None, j}
        /\ ph'[j] # "end" => cur' = j
    <2>1. CASE SubmitSharded(j)
      <3>1. kind[j] # "sharded"
        OBVIOUS
      <3>2. ph[j] = "new" /\ cur = None
        BY <2>1, Zenon DEF SubmitSharded
      <3>3. \/ cur' = j /\ ph'[j] = "window"
            \/ ph'[j] = "end" /\ cur' = cur
        BY <1>4, <2>1, <3>1, Zenon DEF SubmitSharded, Answer
      <3> QED BY <3>2, <3>3
    <2>2. CASE WindowLaunch(j) \/ WindowReap(j)
      <3>1. ph[j] = "window" /\ ph' = ph /\ cur' = cur
        BY <2>2, Zenon DEF WindowLaunch, WindowReap, coordVars
      <3>2. cur = j
        BY <1>4, <3>1 DEF SerialJob
      <3> QED BY <3>1, <3>2
    <2>3. CASE WindowTimeout(j) \/ WindowEnd(j)
      <3>1. ph[j] = "window" /\ ph'[j] = "merge" /\ cur' = cur
        BY <1>4, <2>3, Zenon DEF WindowTimeout, WindowEnd, Goto, coordVars
      <3>2. cur = j
        BY <1>4, <3>1 DEF SerialJob
      <3> QED BY <3>1, <3>2
    <2>4. CASE Merge(j)
      <3>1. ph[j] = "merge" /\ ph'[j] = "end"
        BY <1>4, <2>4, Zenon DEF Merge, Answer
      <3>2. cur = j
        BY <1>4, <3>1 DEF SerialJob
      <3> QED BY <3>1, <3>2
    <2> QED BY <2>1, <2>2, <2>3, <2>4, Zenon DEF WindowStep
  <1>6. kind'[j] = "window"
    BY <1>1, Zenon DEF Apart
  <1>7. (SerialJob(j))'
    <2>1. /\ kind'[j] \in {"partitioned", "window", "absent"} /\ kind'[j] # "partitioned" /\ kind'[j] # "absent"
          /\ ph'[j] \in {"new", "window", "merge", "end"} /\ ph'[j] \notin StagePhases
          /\ ph'[j] \notin {"new", "end"} => cur' = j
      BY <1>5, <1>6 DEF StagePhases
    <2> QED BY <2>1, Zenon DEF SerialJob
  <1>8. (CountedJob(j))'
    <2>1. kind'[j] # "partitioned"
      BY <1>6
    <2> QED BY <2>1, Zenon DEF CountedJob
  <1>9. ASSUME NEW c \in Conns PROVE (Sound(c))'
    <2>1. ph[j] \notin {"local", "collect"} /\ ph'[j] \notin {"local", "collect", "go", "stage", "assign"}
      BY <1>5
    <2>2. ~ Expecting(j, c[1]) /\ ~ (Sent(j, c))'
      BY <2>1, Zenon DEF Expecting, Sent
    <2> QED BY <1>2, <1>3, <2>2, HandlerSound, Zenon
  <1> QED BY <1>2, <1>3, <1>4, <1>5, <1>7, <1>8, <1>9, HandlerRest, Zenon

\* A handler takes the steps of its kind of job.
LEMMA OnlySerialSteps ==
    ASSUME Serial, NEW j \in Jobs, JobStep(j)
    PROVE  PartitionedStep(j) \/ (kind[j] = "window" /\ WindowStep(j))
  <1>1. SerialJob(j)
    BY Zenon DEF Serial
  <1>2. /\ kind[j] \notin {"placed", "sharded", "headless"}
        /\ ph[j] \notin {"thread", "queue", "dispatch", "placing", "await", "release"}
        /\ ph[j] \notin {"nodes", "wave", "wstage", "gather"}
        /\ ph[j] \in {"window", "merge"} => kind[j] = "window"
    BY <1>1 DEF SerialJob, StagePhases, RunPhases
  <1>3. ~ PlacedStep(j)
    <2>1. PlacedStep(j) => \/ kind[j] = "placed"
                           \/ ph[j] \in {"thread", "queue", "dispatch", "placing", "await", "release"}
      BY Zenon DEF PlacedStep, AcceptPlaced, PlacedLive, ReserveNode, QueueTimeout, DispatchLocal,
                DispatchRemote, PlacedStaged, PlacedStageTimeout, PlacedRecv, PlacedTimeout, ReleaseNode
    <2> QED BY <1>2, <2>1, Zenon
  <1>4. ShardedStep(j) => kind[j] = "window" /\ WindowStep(j)
    <2>1. FirstWave(j) \/ WaveAssign(j) \/ WaveStaged(j) \/ WaveStageTimeout(j) \/ WaveLocal(j)
            \/ WaveRecv(j) \/ WaveTimeout(j) \/ WaveEnd(j) => ph[j] \in {"nodes", "wave", "wstage", "gather"}
      BY Zenon DEF FirstWave, WaveAssign, WaveStaged, WaveStageTimeout, WaveLocal, WaveRecv, WaveTimeout,
             WaveEnd
    <2>2. WindowStep(j) => \/ kind[j] \in {"sharded", "window"}
                           \/ ph[j] \in {"window", "merge"}
      BY Zenon DEF WindowStep, SubmitSharded, WindowLaunch, WindowReap, WindowTimeout, WindowEnd, Merge
    <2> QED BY <1>2, <2>1, <2>2, Zenon DEF ShardedStep, WindowStep
  <1> QED BY <1>3, <1>4, Zenon DEF JobStep

\* Every step of a partitioned job keeps the invariant.
LEMMA PartitionedSerial ==
    ASSUME SerialInv, NEW j \in Jobs, PartitionedStep(j) PROVE SerialRest' /\ Kept
  BY SubmitSerial, OfferSerial, StageTcpSerial, StageTimeoutSerial, StageRecvSerial, AssignSerial,
     LocalSerial, CollectSerial, CollectTimeoutSerial, CollectEndSerial, Zenon DEF PartitionedStep

\* Every step keeps the invariant, and no executor loses its handle.
LEMMA SerialInvStep == ASSUME SerialInv, [Next]_vars PROVE SerialInv' /\ Kept
  <1>1. ShardedInv'
    BY ShardedInvStep, Zenon DEF SerialInv
  <1>2. ASSUME NEW w \in Workers, WorkerStep(w) \/ WorkerCrash(w) \/ AcceptReady(w)
        PROVE  SerialRest' /\ Kept
    BY <1>2, DaemonSerial, Zenon
  <1>3. ASSUME NEW j \in Jobs, JobStep(j) PROVE SerialRest' /\ Kept
    <2>1. PartitionedStep(j) \/ (kind[j] = "window" /\ WindowStep(j))
      BY <1>3, OnlySerialSteps, Zenon DEF SerialInv, SerialRest
    <2> QED BY <2>1, PartitionedSerial, WindowSerial, Zenon
  <1>4. CASE UNCHANGED vars
    <2>1. UNCHANGED <<kind, conn, cur, proc, inc, exec, staged, toW, toC, ph, loc, answer,
                      done, misread, blind>>
      BY <1>4, Zenon DEF vars, workerVars, wireVars, coordVars, jobVars, history
    <2>2. ASSUME NEW c \in Conns PROVE (Sound(c))'
      <3>1. Sound(c)
        BY Zenon DEF SerialInv, SerialRest
      <3>2. /\ (Ex(c))' = Ex(c) /\ ((Live(c))' <=> Live(c)) /\ ((Mapped(c))' <=> Mapped(c))
            /\ \A k \in Jobs : \A w : (Expecting(k, w))' <=> Expecting(k, w)
        BY <2>1, Zenon DEF Ex, Live, Mapped, Expecting
      <3>3. \A k \in Jobs : (Sent(k, c))' => Sent(k, c)
        BY <2>1, <3>2, Zenon DEF Sent
      <3>4. /\ toW'[c] = toW[c] /\ toC'[c] = toC[c] /\ inc' = inc /\ done \subseteq done'
            /\ staged'[c[1]] = staged[c[1]] /\ proc'[c[1]] = proc[c[1]]
        BY <2>1, Zenon
      <3>5. Mapped(c) => NoRun(c) \/ \A k \in Jobs : Expecting(k, c[1]) => (Expecting(k, c[1]))'
        BY <3>2, Zenon
      <3>6. (Ex(c))' = Ex(c) /\ ((Live(c))' <=> Live(c)) /\ ((Mapped(c))' <=> Mapped(c))
        BY <3>2, Zenon
      <3> QED BY <3>1, <3>3, <3>4, <3>5, <3>6, SoundStays, Zenon
    <2>3. Serial' /\ Attached' /\ Counted'
      BY <2>1, Zenon DEF SerialInv, SerialRest, Serial, SerialJob, Attached, Counted, CountedJob, task0
    <2> QED BY <1>1, <2>1, <2>2, <2>3, Zenon DEF SerialInv, SerialRest, Kept
  <1> QED BY <1>1, <1>2, <1>3, <1>4, DrainSerial, Zenon DEF Next, SerialInv

\* At the start the connections are empty.
LEMMA SerialInit == ASSUME SerializedOnly, Init PROVE SerialInv
  <1>1. ShardedInv
    BY ShardedInit, ReservationsInit, Zenon DEF ShardedInv
  <1>2. \A j \in Jobs : /\ kind[j] \in {"partitioned", "window", "absent"}
                        /\ ph[j] = "new" /\ answer[j] = "none"
    BY Zenon DEF Init, SerializedOnly
  <1>3. Serial
    BY <1>2 DEF Serial, SerialJob, StagePhases, RunPhases
  <1>4. Counted
    BY <1>2 DEF Counted, CountedJob
  <1>5. Attached
    BY AgentAssumption DEF Init, Attached
  <1>6. ASSUME NEW c \in Conns PROVE Sound(c)
    <2>1. toW[c] = <<>> /\ toC[c] = <<>> /\ Ex(c) = Idle
      BY ConnPair, Zenon DEF Init, Ex
    <2>2. NoRun(c) /\ Quiet(c)
      BY <2>1, EmptyHas, Zenon DEF NoRun, Quiet
    <2>3. \A j \in Jobs : ~ Sent(j, c)
      BY <1>2 DEF Sent, Expecting
    <2> QED BY <2>1, <2>2, <2>3, Zenon DEF Sound
  <1> QED BY <1>1, <1>3, <1>4, <1>5, <1>6, Zenon DEF SerialInv, SerialRest, Init

-----------------------------------------------------------------------------
(* Partitioned jobs: the theorems                                          *)

\* With partitioned jobs one after the other, on any number of workers: over
\* the connections in the coordinator's map there is at most the run that the
\* current job waits for, and its files come before it (handle_submit,
\* stage_inputs, collect_worker_results, worker.rs).
THEOREM PartitionedInvariant == ASSUME SerializedOnly PROVE Spec => []SerialInv
  <1>1. Init => SerialInv
    BY SerialInit, Zenon
  <1>2. SerialInv /\ [Next]_vars => SerialInv'
    BY SerialInvStep, Zenon
  <1> QED BY <1>1, <1>2, PTL DEF Spec

\* Then a job is reported successful only when every worker that it counts has
\* exited with success (collect_worker_results), and a windowed job only when
\* every shard has.
THEOREM PartitionedNoFalseSuccess == ASSUME SerializedOnly PROVE Spec => []NoFalseSuccess
  <1>1. SerialInv => NoFalseSuccess
    <2> SUFFICES ASSUME SerialInv, NEW j \in Jobs, answer[j] = "ok" PROVE Earned(j)
      BY Zenon DEF NoFalseSuccess
    <2>1. SerialJob(j) /\ CountedJob(j) /\ Book(j, kind[j], ph[j], loc[j], answer[j], done)
      BY Zenon DEF SerialInv, SerialRest, Serial, Counted, ShardedInv, Books
    <2>2. CASE kind[j] = "partitioned"
      <3>1. ph[j] # "collect"
        BY <2>1, <2>2 DEF CountedJob
      <3>2. \A w \in loc[j].expected : <<task0(j), w>> \in done
        BY <2>1, <2>2, <3>1, Zenon DEF CountedJob
      <3>3. kind[j] # "placed" /\ kind[j] \notin {"sharded", "window"}
        BY <2>2
      <3> QED BY <3>2, <3>3, Zenon DEF Earned, Owed, task0
    <2>3. CASE kind[j] = "window"
      <3>1. kind[j] # "placed" /\ kind[j] \in ShardedKinds
        BY <2>3 DEF ShardedKinds
      <3> QED BY <2>1, <3>1, Zenon DEF Earned, Owed, Book, ShardDone
    <2>4. kind[j] # "absent"
      BY <2>1, Zenon DEF Book
    <2> QED BY <2>1, <2>2, <2>3, <2>4, Zenon DEF SerialJob
  <1> QED BY <1>1, PartitionedInvariant, PTL

\* A handler takes no result of another job from a socket, and the drain of
\* the accept loop takes none that a job still waits for.
THEOREM PartitionedOneReader == ASSUME SerializedOnly PROVE Spec => []OneReaderPerSocket
  <1>1. SerialInv => OneReaderPerSocket
    BY Zenon DEF SerialInv, SerialRest, ShardedInv, OneReaderPerSocket
  <1> QED BY <1>1, PartitionedInvariant, PTL

\* Every executor whose job ships inputs starts with the files on the disk of
\* its node, whether they came by RDMA, by TCP after a refused offer or while
\* the worker still cleaned up after the job before (stage_inputs, worker.rs).
THEOREM PartitionedInputsFirst == ASSUME SerializedOnly PROVE Spec => []InputsBeforeStart
  <1>1. SerialInv => InputsBeforeStart
    BY Zenon DEF SerialInv, SerialRest, InputsBeforeStart
  <1> QED BY <1>1, PartitionedInvariant, PTL

\* And AssignJob never overwrites the handle of an executor that runs: the
\* worker has reported one job before the next reaches it (worker.rs).
THEOREM PartitionedNoOrphan == ASSUME SerializedOnly PROVE Spec => NoOrphan
  <1>1. SerialInv /\ [Next]_vars =>
          [\A w \in Workers : exec[w].st # "none" =>
               exec'[w].task = exec[w].task \/ exec'[w] = Idle]_vars
    BY SerialInvStep, Zenon DEF Kept
  <1> QED BY <1>1, PartitionedInvariant, PTL DEF Spec, NoOrphan
=============================================================================
