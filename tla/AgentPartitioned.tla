-------------------------- MODULE AgentPartitioned --------------------------
(***************************************************************************)
(* A partitioned job on the accept thread (coordinator.rs: handle_submit,   *)
(* the two ways to stage shared inputs, collect_worker_results).  While a   *)
(* staging routine runs it holds the state mutex, so lock = j from its      *)
(* first message to its last acknowledgement.                               *)
(***************************************************************************)
EXTENDS AgentState

task0(j) == <<j, 0>>

\* Mutant: the node ids of the partition, which count the live nodes, are taken
\* for physical ids.
StageTargetsUnmapped(j) ==
    {w \in Connected : Cardinality({x \in Connected : x < w}) + 1 \in loc[j].need}

\* Remote workers a file is sent to: connected, and their DAG loads it.
StageTargets(j) == loc[j].need \cap Connected

\* handle_submit up to staging: membership snapshot, partition, node map.
\* parts are the nodes that get a per-node DAG; a partition of a symbolic DAG
\* uses live nodes, a DAG that arrives partitioned names any.  A submission
\* that does not parse, partition or split ends the handler with an error.
SubmitPartitioned(j) ==
    /\ kind[j] \in {"partitioned", "headless"} /\ ph[j] = "new"
    /\ cur = None /\ lock = None
    /\ \/ /\ \E parts \in SUBSET Nodes \ {{}} :
             /\ (Coord \in parts) <=> (kind[j] = "partitioned")
             /\ \E need \in {{}, parts \ {Coord}} :
                    loc' = [loc EXCEPT ![j].parts = parts, ![j].need = need]
          /\ cur' = j
          /\ Goto(j, "input")
       \/ /\ Answer(j, "closed")
          /\ UNCHANGED <<cur, loc>>
    /\ UNCHANGED <<kind, faults, workerVars, wireVars, conn, reserved, lock, history>>

\* stage_shared_inputs_rdma up to the offers.  Nothing to send: staging is
\* over.  No RDMA device: the error comes before any offer.
OfferInputs(j) ==
    /\ ph[j] = "input" /\ lock = None
    /\ \/ /\ StageTargets(j) = {}
          /\ Goto(j, "assign")
          /\ UNCHANGED <<loc, toW, lock>>
       \/ /\ StageTargets(j) # {}
          /\ SendAll(StageTargets(j), Msg("Offer", task0(j)))
          /\ loc' = [loc EXCEPT ![j].wait = StageTargets(j)]
          /\ lock' = j
          /\ Goto(j, "offer")
       \/ /\ StageTargets(j) # {}
          /\ Goto(j, "fallback")
          /\ UNCHANGED <<loc, toW, lock>>
    /\ UNCHANGED <<kind, faults, workerVars, toC, conn, reserved, cur, history>>

\* stage_shared_inputs_tcp up to the sends, after the RDMA path returned Err.
StageTcp(j) ==
    /\ ph[j] = "fallback" /\ lock = None
    /\ SendAll(StageTargets(j), Msg("Stage", task0(j)))
    /\ loc' = [loc EXCEPT ![j].wait = StageTargets(j)]
    /\ lock' = j
    /\ Goto(j, "stage")
    /\ UNCHANGED <<kind, faults, workerVars, toC, conn, reserved, cur, history>>

\* What each wait of the staging routines accepts; anything else is dropped.
Awaited == [offer |-> "Accept", go |-> "ShareDone", stage |-> "Ack"]

\* One message of a worker still waited for.  When the last InputShareAccept
\* is in, the data is written and InputShareGo sent; when the last done or
\* ack is in, the mutex is released.
StageRecv(j) ==
    /\ ph[j] \in DOMAIN Awaited
    /\ \E w \in loc[j].wait :
           /\ Take(w, conn[w], j)
           /\ LET hit == Head(toC[<<w, conn[w]>>]).kind = Awaited[ph[j]]
                  left == IF hit THEN loc[j].wait \ {w} ELSE loc[j].wait
              IN  IF left # {}
                  THEN /\ loc' = [loc EXCEPT ![j].wait = left]
                       /\ UNCHANGED <<toW, lock, ph, answer>>
                  ELSE IF ph[j] = "offer"
                  THEN /\ SendAll(StageTargets(j), Msg("Go", task0(j)))
                       /\ loc' = [loc EXCEPT ![j].wait = StageTargets(j)]
                       /\ Goto(j, "go")
                       /\ UNCHANGED lock
                  ELSE /\ loc' = [loc EXCEPT ![j].wait = {}]
                       /\ lock' = None
                       /\ Goto(j, "assign")
                       /\ UNCHANGED toW
    /\ UNCHANGED <<kind, faults, workerVars, conn, reserved, cur, done, blind>>

\* Thirty seconds without an answer: some worker waited for is gone, or sits
\* in the RDMA receive loop, where it drops StageFiles.  The RDMA path falls
\* back to TCP; the TCP path fails the submission before its SubmitAck.
StageTimeout(j) ==
    /\ ph[j] \in DOMAIN Awaited
    /\ \E w \in loc[j].wait :
           \/ Silent(w, conn[w])
           \/ ph[j] = "stage" /\ proc[w] = "share" /\ toC[<<w, conn[w]>>] = <<>>
    /\ lock' = None
    /\ IF ph[j] = "stage"
       THEN Answer(j, "closed") /\ cur' = None
       ELSE Goto(j, "fallback") /\ UNCHANGED cur
    /\ UNCHANGED <<kind, faults, workerVars, wireVars, conn, reserved, loc, history>>

\* SubmitAck, then AssignJob to every connected worker that has a DAG.  With
\* no DAG for this node the handler returns without collecting anything.
AssignJobs(j) ==
    /\ ph[j] = "assign" /\ lock = None
    /\ SendAll(loc[j].parts \cap Connected, Msg("Assign", task0(j)))
    /\ IF Coord \in loc[j].parts
       THEN /\ ph' = [ph EXCEPT ![j] = "local"]
            /\ answer' = [answer EXCEPT ![j] = "acked"]
            /\ UNCHANGED cur
       ELSE Answer(j, "closed") /\ cur' = None
    /\ UNCHANGED <<kind, faults, workerVars, toC, conn, reserved, lock, loc, history>>

\* The local executor ends; its exit status is printed and not kept.  From
\* here on the handler waits for the assigned workers in the map.
LocalExecutor(j) ==
    /\ ph[j] = "local"
    /\ \E b \in BOOLEAN :
           done' = IF b THEN done \cup {<<task0(j), Coord>>} ELSE done
    /\ LET expected == loc[j].parts \cap Connected
       IN  loc' = [loc EXCEPT ![j].expected = expected, ![j].wait = expected]
    /\ Goto(j, "collect")
    /\ UNCHANGED <<kind, faults, workerVars, wireVars, coordVars, misread, blind>>

\* collect_worker_results: one message of one worker still expected.  The
\* job_id of a result is not compared with this job's.
Collect(j) ==
    /\ ph[j] = "collect" /\ lock = None
    /\ \E w \in loc[j].wait :
           /\ Take(w, conn[w], j)
           /\ LET m == Head(toC[<<w, conn[w]>>])
              IN  loc' = IF m.kind = "Done"
                         THEN [loc EXCEPT ![j].wait = @ \ {w},
                                          ![j].good = @ /\ m.ok]
                         ELSE loc
    /\ UNCHANGED <<kind, faults, workerVars, toW, coordVars, ph, answer, done, blind>>

\* job_timeout_s is over; no AbortJob is sent.  It is assumed longer than any
\* job, so what is still missing will never come.
CollectTimeout(j) ==
    /\ ph[j] = "collect"
    /\ loc[j].wait # {}
    /\ \A w \in loc[j].wait : Silent(w, conn[w])
    /\ loc' = [loc EXCEPT ![j].wait = {}, ![j].good = FALSE]
    /\ UNCHANGED <<kind, faults, workerVars, wireVars, coordVars, ph, answer, history>>

\* Summary, JobResult to the client, current_job_id cleared, handler returns.
CollectEnd(j) ==
    /\ ph[j] = "collect" /\ lock = None
    /\ loc[j].wait = {}
    /\ Answer(j, Verdict(loc[j].good))
    /\ cur' = None
    /\ UNCHANGED <<kind, faults, workerVars, wireVars, conn, reserved, lock, loc, history>>

PartitionedStep(j) ==
    \/ SubmitPartitioned(j)
    \/ OfferInputs(j)
    \/ StageTcp(j)
    \/ StageRecv(j)
    \/ StageTimeout(j)
    \/ AssignJobs(j)
    \/ LocalExecutor(j)
    \/ Collect(j)
    \/ CollectTimeout(j)
    \/ CollectEnd(j)
=============================================================================
