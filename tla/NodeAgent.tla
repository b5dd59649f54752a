------------------------------ MODULE NodeAgent ------------------------------
(***************************************************************************)
(* The NodeAgent cluster: worker daemons, the coordinator's accept loop and *)
(* the handlers of the jobs it serves.  Partitioned and sharded jobs run on *)
(* the accept thread one after the other; every placed job runs on a thread *)
(* of its own beside it.                                                    *)
(*                                                                         *)
(* A behaviour starts in one of the Scenes: the kinds of the jobs that will *)
(* be submitted and the number of worker crashes to come.  The scenes keep  *)
(* to the discipline the control plane depends on (placed jobs do not run   *)
(* beside partitioned or sharded ones, and the serialized jobs after a      *)
(* crash are not followed by another), which README.md explains.            *)
(***************************************************************************)
EXTENDS AgentWorker, AgentPartitioned, AgentPlaced, AgentSharded

CONSTANT Scenes     \* set of records [kinds, crashes]

ASSUME ScenesAssumption == \A s \in Scenes : s.kinds \in [Jobs -> Kinds]

Init ==
    /\ \E s \in Scenes : kind = s.kinds /\ faults = s.crashes
    /\ proc = [w \in Workers |-> "down"]
    /\ inc = [w \in Workers |-> 0]
    /\ exec = [w \in Workers |-> Idle]
    /\ staged = [w \in Workers |-> {}]
    /\ toW = [c \in Conns |-> <<>>]
    /\ toC = [c \in Conns |-> <<>>]
    /\ conn = [w \in Workers |-> 0]
    /\ reserved = {}
    /\ lock = None
    /\ cur = None
    /\ ph = [j \in Jobs |-> "new"]
    /\ loc = [j \in Jobs |-> NoLocals]
    /\ answer = [j \in Jobs |-> "none"]
    /\ done = {} /\ misread = {} /\ blind = {}

\* The accept loop reads a Ready message: the connection replaces the one in
\* the map.  The peer may be gone again.
AcceptReady(w) ==
    /\ cur = None /\ lock = None
    /\ inc[w] # conn[w]
    /\ conn' = [conn EXCEPT ![w] = inc[w]]
    /\ UNCHANGED <<kind, faults, workerVars, wireVars, reserved, lock, cur, jobVars, history>>

\* Mutant: the drain also reads the nodes placed jobs own.
DrainableAll == {w \in Connected : toC[<<w, conn[w]>>] # <<>>}

\* The drain at the top of the accept loop: every message of every worker that
\* no placed job owns is read; only metrics are used.
Drainable == {w \in Connected : w \notin reserved /\ toC[<<w, conn[w]>>] # <<>>}

Drain ==
    /\ cur = None /\ lock = None
    /\ Drainable # {}
    /\ toC' = [c \in Conns |->
           IF c[1] \in Drainable /\ c[2] = conn[c[1]] THEN <<>> ELSE toC[c]]
    /\ misread' = misread \cup
           {<<t, None>> : t \in {u \in Tasks : \E w \in Drainable :
               \E i \in DOMAIN toC[<<w, conn[w]>>] :
                   /\ toC[<<w, conn[w]>>][i].kind = "Done"
                   /\ toC[<<w, conn[w]>>][i].task = u
                   /\ ph[u[1]] # "end"}}
    /\ UNCHANGED <<kind, faults, workerVars, toW, coordVars, jobVars, done, blind>>

JobStep(j) == PartitionedStep(j) \/ PlacedStep(j) \/ ShardedStep(j)

Next ==
    \/ \E w \in Workers : WorkerStep(w) \/ WorkerCrash(w) \/ AcceptReady(w)
    \/ Drain
    \/ \E j \in Jobs : JobStep(j)

\* Daemons, handlers and executors keep running, and what a handler waits for
\* with a deadline ends at the deadline.  Worker starts and crashes, and new
\* submissions, come or do not come.
Fairness ==
    /\ \A w \in Workers :
           /\ WF_vars(WorkerRecv(w)) /\ WF_vars(ShareRecv(w))
           /\ WF_vars(ShareTimeout(w))
           /\ WF_vars(ExecutorExit(w)) /\ WF_vars(PollExecutor(w))
    /\ \A j \in Jobs : WF_vars(ph[j] # "new" /\ JobStep(j))

Spec == Init /\ [][Next]_vars /\ Fairness

------------------------------------------------------------------------------
MsgKinds == {"Assign", "Stage", "Offer", "Go", "Accept", "ShareDone", "Ack", "Started", "Done"}
Messages == [kind : MsgKinds, task : Tasks, ok : BOOLEAN]

\* Every variable has the type of the state it stands for.
TypeOK ==
    /\ kind \in [Jobs -> Kinds] /\ faults \in Nat
    /\ proc \in [Workers -> {"down", "poll", "share"}]
    /\ inc \in [Workers -> 0..MaxInc] /\ conn \in [Workers -> 0..MaxInc]
    /\ \A w \in Workers :
           exec[w] \in {Idle} \cup [task : Tasks, st : {"run", "ok", "bad"}]
    /\ staged \in [Workers -> SUBSET Tasks]
    /\ \A c \in Conns : toW[c] \in Seq(Messages) /\ toC[c] \in Seq(Messages)
    /\ reserved \subseteq Nodes
    /\ lock \in Jobs \cup {None} /\ cur \in Jobs \cup {None}
    /\ \A j \in Jobs : DOMAIN loc[j] = DOMAIN NoLocals
    /\ answer \in [Jobs -> {"none", "acked", "ok", "failed", "closed"}]
    /\ done \subseteq Tasks \X Nodes

\* The tasks that make job j, with the nodes they were given to.  A partitioned
\* job counts the workers it waits for: the exit status of its local executor
\* is dropped by handle_submit, and a worker that is not connected is skipped.
Owed(j) ==
    IF kind[j] = "placed" THEN {<<<<j, 0>>, loc[j].node>>}
    ELSE {<<<<j, 0>>, w>> : w \in loc[j].expected}

\* Every executor job j owes its result to has exited with success, and for a
\* sharded job one of every shard, on whichever node.
Earned(j) ==
    /\ Owed(j) \subseteq done
    /\ kind[j] \in {"sharded", "window"} =>
           \A i \in ShardIds : \E n \in Nodes : <<<<j, i>>, n>> \in done

\* A job is reported successful only when the executors it depends on have
\* exited with success: a late, lost or foreign result is never taken for its
\* own, whatever crashes or restarts on the way (collect_worker_results,
\* run_wave, run_shards_local, dispatch_to_node).
NoFalseSuccess == \A j \in Jobs : answer[j] = "ok" => Earned(j)

\* The phases in which a placed job holds its node.
Holding == {"dispatch", "placing", "await", "release"}
Holders == {j \in Jobs : ph[j] \in Holding}

\* Two placed jobs never hold the same node, and a node is reserved exactly
\* while some placed job holds it: no error path forgets to release it.
ReservedExactly ==
    /\ reserved = {loc[j].node : j \in Holders}
    /\ \A j, k \in Holders : loc[j].node = loc[k].node => j = k

\* Whoever holds a worker is the one reader of its socket.  No handler, and
\* no drain of the accept loop, consumes the result of a task another handler
\* is still waiting for (the reserved_nodes test in the drain, the clone of
\* the stream a placed job reads), and the reservations are exact.
OneReaderPerSocket ==
    /\ misread = {}
    /\ ReservedExactly

\* An executor whose job ships inputs starts with the files on its disk: the
\* clean-up after the previous job never removes what was staged for the next
\* and AssignJob never overtakes the staging (worker.rs, RDMA and TCP paths).
InputsBeforeStart == blind = {}

\* AssignJob never overwrites the handle of an executor that still runs, which
\* would leave the process running and its result unreported (worker.rs).
NoOrphan ==
    [][\A w \in Workers : exec[w].st # "none" =>
           exec'[w].task = exec[w].task \/ exec'[w] = Idle]_vars

\* Every submission taken up comes to an end: its client is answered or its
\* connection closed, even when workers crash at any point of staging, waves
\* or collection.
EverySubmissionEnds ==
    \A j \in Jobs : ph[j] # "new" ~> ph[j] = "end"
=============================================================================
