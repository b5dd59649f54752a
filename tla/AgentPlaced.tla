----------------------------- MODULE AgentPlaced -----------------------------
(***************************************************************************)
(* A placed job (placed.rs): a whole single-node job on one reserved node,  *)
(* served by a thread of its own next to the accept loop.                   *)
(***************************************************************************)
EXTENDS AgentState

placed(j) == <<j, 0>>

\* The accept loop hands the submission to a new thread, which acknowledges.
AcceptPlaced(j) ==
    /\ kind[j] = "placed" /\ ph[j] = "new"
    /\ cur = None
    /\ ph' = [ph EXCEPT ![j] = "thread"]
    /\ answer' = [answer EXCEPT ![j] = "acked"]
    /\ UNCHANGED <<kind, faults, workerVars, wireVars, coordVars, loc, history>>

\* run_placed_job: the live nodes, read once before the queue.
PlacedLive(j) ==
    /\ ph[j] = "thread" /\ lock = None
    /\ loc' = [loc EXCEPT ![j].parts = live_node_ids]
    /\ Goto(j, "queue")
    /\ UNCHANGED <<kind, faults, workerVars, wireVars, coordVars, history>>

\* placement_order, then reserve_node: the requested node when it is live and
\* free, else the first free node of the order.  The order puts the workers
\* first by scores that are not modelled, so any free worker may be the pick,
\* and the coordinator last.
Pick(j, prefer) ==
    LET free == loc[j].parts \ reserved
    IN  IF prefer \in free THEN {prefer}
        ELSE IF free \ {Coord} # {} THEN free \ {Coord} ELSE free

ReserveNode(j) ==
    /\ ph[j] = "queue" /\ lock = None
    /\ \E prefer \in Nodes \cup {None} :
       \E n \in Pick(j, prefer) :
           /\ reserved' = reserved \cup {n}
           /\ loc' = [loc EXCEPT ![j].node = n, ![j].need = {n} \ {Coord}]
    /\ Goto(j, "dispatch")
    /\ UNCHANGED <<kind, faults, workerVars, wireVars, conn, lock, cur, history>>

\* Every node stays busy for the job timeout.
QueueTimeout(j) ==
    /\ ph[j] = "queue"
    /\ loc[j].parts \subseteq reserved
    /\ Answer(j, "failed")
    /\ UNCHANGED <<kind, faults, workerVars, wireVars, coordVars, loc, history>>

\* dispatch_to_node on the coordinator: run the executor, or kill it when the
\* timeout is over.
DispatchLocal(j) ==
    /\ ph[j] = "dispatch" /\ loc[j].node = Coord
    /\ \E b \in BOOLEAN :
           /\ loc' = [loc EXCEPT ![j].good = b]
           /\ done' = IF b THEN done \cup {<<placed(j), Coord>>} ELSE done
    /\ Goto(j, "release")
    /\ UNCHANGED <<kind, faults, workerVars, wireVars, coordVars, misread, blind>>

\* dispatch_to_node on a worker, under the mutex: StageFiles for the inputs.
DispatchRemote(j) ==
    /\ ph[j] = "dispatch" /\ loc[j].node # Coord
    /\ lock = None
    /\ SendAll({loc[j].node}, Msg("Stage", placed(j)))
    /\ lock' = j
    /\ Goto(j, "placing")
    /\ UNCHANGED <<kind, faults, workerVars, toC, conn, reserved, cur, loc, history>>

\* stage_file_to_worker until the ack, then AssignJob and the clone of the
\* stream, whose incarnation the thread keeps.
PlacedStaged(j) ==
    /\ ph[j] = "placing"
    /\ LET n == loc[j].node
       IN  /\ Take(n, conn[n], j)
           /\ IF Head(toC[<<n, conn[n]>>]).kind = "Ack"
              THEN /\ SendAll({n}, Msg("Assign", placed(j)))
                   /\ loc' = [loc EXCEPT ![j].link = conn[n]]
                   /\ lock' = None
                   /\ Goto(j, "await")
              ELSE UNCHANGED <<toW, loc, lock, ph, answer>>
    /\ UNCHANGED <<kind, faults, workerVars, conn, reserved, cur, done, blind>>

\* Mutant: the error returns from run_placed_job before release_node.
PlacedStageTimeoutEarly(j) ==
    /\ ph[j] = "placing"
    /\ Silent(loc[j].node, conn[loc[j].node])
    /\ lock' = None
    /\ Answer(j, "failed")
    /\ UNCHANGED <<kind, faults, workerVars, wireVars, conn, reserved, cur, loc, history>>

\* Mutant: the wait for the ack has no deadline.
PlacedStageTimeoutNever(j) == FALSE /\ UNCHANGED vars

\* Sixty seconds without the ack: the worker is gone.
PlacedStageTimeout(j) ==
    /\ ph[j] = "placing"
    /\ Silent(loc[j].node, conn[loc[j].node])
    /\ loc' = [loc EXCEPT ![j].good = FALSE]
    /\ lock' = None
    /\ Goto(j, "release")
    /\ UNCHANGED <<kind, faults, workerVars, wireVars, conn, reserved, cur, history>>

\* The thread reads its clone without the mutex until a result comes.
PlacedRecv(j) ==
    /\ ph[j] = "await"
    /\ Take(loc[j].node, loc[j].link, j)
    /\ LET m == Head(toC[<<loc[j].node, loc[j].link>>])
       IN  IF m.kind = "Done"
           THEN /\ loc' = [loc EXCEPT ![j].good = m.ok]
                /\ Goto(j, "release")
           ELSE UNCHANGED <<loc, ph, answer>>
    /\ UNCHANGED <<kind, faults, workerVars, toW, coordVars, done, blind>>

\* The read fails and the job timeout is over: the worker is gone.
PlacedTimeout(j) ==
    /\ ph[j] = "await"
    /\ Silent(loc[j].node, loc[j].link)
    /\ loc' = [loc EXCEPT ![j].good = FALSE]
    /\ Goto(j, "release")
    /\ UNCHANGED <<kind, faults, workerVars, wireVars, coordVars, history>>

\* release_node whatever the outcome, then the JobResult.
ReleaseNode(j) ==
    /\ ph[j] = "release" /\ lock = None
    /\ reserved' = reserved \ {loc[j].node}
    /\ Answer(j, Verdict(loc[j].good))
    /\ UNCHANGED <<kind, faults, workerVars, wireVars, conn, lock, cur, loc, history>>

PlacedStep(j) ==
    \/ AcceptPlaced(j)
    \/ PlacedLive(j)
    \/ ReserveNode(j)
    \/ QueueTimeout(j)
    \/ DispatchLocal(j)
    \/ DispatchRemote(j)
    \/ PlacedStaged(j)
    \/ PlacedStageTimeout(j)
    \/ PlacedRecv(j)
    \/ PlacedTimeout(j)
    \/ ReleaseNode(j)
=============================================================================
