----------------------------- MODULE AgentState -----------------------------
(***************************************************************************)
(* State of the NodeAgent control plane: one coordinator daemon, a set of   *)
(* worker daemons, and the TCP connection each worker opened to the         *)
(* coordinator.  Every restart of a worker is a new incarnation with a      *)
(* connection of its own.  A connection is two FIFO channels; a message of  *)
(* a dead worker that was already sent can still be read.                   *)
(*                                                                         *)
(* A task is what one executor runs: the job and a shard number, 0 when the *)
(* job is not sharded.  It stands for the job_id string on the wire.        *)
(***************************************************************************)
EXTENDS SortedSets

CONSTANTS
    Workers,    \* node ids of the workers, ascending naturals above Coord
    Coord,      \* node id of the coordinator, the smallest
    Jobs,       \* the submissions of the behaviour
    None,       \* no job
    MaxInc,     \* bound: connections a worker opens, one per start
    Shards,     \* N, the shards of a divide-and-merge job
    Window      \* max_concurrent of a divide-and-merge job run locally

ASSUME AgentAssumption == MaxInc \in Nat /\ Shards \in Nat /\ None \notin Jobs

VARIABLES
    kind,       \* kind[j]: what kind of submission j is
    faults,     \* worker crashes still to come
    proc,       \* proc[w]: "down", "poll" (main loop) or "share" (RDMA inputs)
    inc,        \* inc[w]: incarnation of w, 0 before its first start
    exec,       \* exec[w]: the executor in current_executor
    staged,     \* current_staged_files[w], by the task they are for
    toW, toC,   \* channels of each connection, to the worker and back
    conn,       \* conn[w]: incarnation of the WorkerConn in the map, 0 if none
    reserved,   \* reserved_nodes
    lock,       \* job that holds the state mutex across several steps
    cur,        \* job handle_submit is serving on the accept thread
    ph,         \* ph[j]: where the handler of j is
    loc,        \* loc[j]: local variables of that handler
    answer,     \* answer[j]: what the client of j has been told
    done,       \* history: <<task, node>> whose executor exited with success
    misread,    \* history: <<task, reader>>, a result taken by another reader
    blind       \* history: <<task, node>> started without their input files

workerVars == <<proc, inc, exec, staged>>
wireVars == <<toW, toC>>
coordVars == <<conn, reserved, lock, cur>>
jobVars == <<ph, loc, answer>>
history == <<done, misread, blind>>
vars == <<kind, faults, workerVars, wireVars, coordVars, jobVars, history>>

Nodes == Workers \cup {Coord}
Tasks == Jobs \X (0..Shards - 1)
Idle == [task |-> None, st |-> "none"]
Conns == Workers \X (1..MaxInc)

\* A headless job is a DAG submitted already partitioned, with nothing for the
\* coordinator to run; a window job is a sharded one that is not distributed;
\* an absent job is never submitted.
Kinds == {"placed", "partitioned", "headless", "sharded", "window", "absent"}

\* Messages carry their kind, the task they are about and, for a result, the
\* exit status.  Metrics, Ping and Pong change nothing that is modelled.
Msg(k, t) == [kind |-> k, task |-> t, ok |-> TRUE]
Result(t, b) == [kind |-> "Done", task |-> t, ok |-> b]

\* No process is left at the other end of connection k of w.
Broken(w, k) == proc[w] = "down" \/ inc[w] # k

\* Messages to a set of workers over the connections in the map.  What is
\* written to a broken connection is lost.
SendAll(S, m) ==
    toW' = [c \in Conns |->
        IF c[1] \in S /\ c[2] = conn[c[1]] /\ ~Broken(c[1], c[2])
        THEN Append(toW[c], m) ELSE toW[c]]

\* The worker's own end of its connection.
Reply(w, m) == toC' = [toC EXCEPT ![<<w, inc[w]>>] = Append(@, m)]

\* Reading one message of connection <<w, k>>, if there is one in the map, on
\* behalf of job j: a result of another handler's unfinished task is lost to
\* that handler.
Take(w, k, j) ==
    /\ <<w, k>> \in Conns
    /\ toC[<<w, k>>] # <<>>
    /\ toC' = [toC EXCEPT ![<<w, k>>] = Tail(@)]
    /\ LET m == Head(toC[<<w, k>>])
       IN  misread' = IF m.kind = "Done" /\ m.task[1] # j
                      THEN misread \cup {<<m.task, j>>} ELSE misread

\* Worker w will not send what the coordinator waits for on connection k: it
\* is gone and nothing it sent is left.
Silent(w, k) == Broken(w, k) /\ toC[<<w, k>>] = <<>>

\* live_node_ids and the same computation in the placed and sharded handlers:
\* the coordinator and every worker in the map, ascending.
Connected == {w \in Workers : conn[w] # 0}
live_node_ids == Connected \cup {Coord}

NoLocals ==
    [parts |-> {}, need |-> {}, expected |-> {}, wait |-> {},
     nodes |-> <<>>, todo |-> <<>>, node |-> Coord, link |-> 0, wave |-> 0,
     local |-> "none", good |-> TRUE, next |-> 0, run |-> {}, partial |-> {}]

\* The handler of j returns: its client stream is dropped and, for a job
\* served by the accept thread, the accept loop goes on.
Answer(j, a) ==
    /\ ph' = [ph EXCEPT ![j] = "end"]
    /\ answer' = [answer EXCEPT ![j] = a]

Verdict(b) == IF b THEN "ok" ELSE "failed"

Goto(j, p) == ph' = [ph EXCEPT ![j] = p] /\ UNCHANGED answer
=============================================================================
