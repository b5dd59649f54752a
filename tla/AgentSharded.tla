---------------------------- MODULE AgentSharded ----------------------------
(***************************************************************************)
(* Divide-and-merge jobs (sharded.rs) on the accept thread: native split,   *)
(* the shards either in waves of one per node or in a sliding window of     *)
(* local executors, then the native merge of the partial outputs.           *)
(***************************************************************************)
EXTENDS AgentState

ShardIds == 0..Shards - 1
CurrentNode(j) == Head(loc[j].todo)[2]
CurrentTask(j) == <<j, Head(loc[j].todo)[1]>>

\* Mutant: every shard of a wave goes to the node that is best when it starts.
WaveBest(nodes, v) ==
    LET n == Len(nodes)
        lo == v * n
        hi == IF lo + n < Shards THEN lo + n ELSE Shards
    IN  [m \in 1..hi - lo |-> <<lo + m - 1, nodes[n]>>]

\* Assignments of wave v: shard v * n + m goes to the m-th node.
Wave(nodes, v) ==
    LET n == Len(nodes)
        lo == v * n
        hi == IF lo + n < Shards THEN lo + n ELSE Shards
    IN  [m \in 1..hi - lo |-> <<lo + m - 1, nodes[m]>>]

\* handle_sharded_submit: ack, native split.  A failed split is reported.
SubmitSharded(j) ==
    /\ kind[j] \in {"sharded", "window"} /\ ph[j] = "new"
    /\ cur = None
    /\ \/ /\ cur' = j
          /\ ph' = [ph EXCEPT ![j] = IF kind[j] = "sharded" THEN "nodes" ELSE "window"]
          /\ answer' = [answer EXCEPT ![j] = "acked"]
       \/ Answer(j, "failed") /\ UNCHANGED cur
    /\ UNCHANGED <<kind, faults, workerVars, wireVars, conn, reserved, lock, loc, history>>

\* run_shards_distributed: the nodes and the first wave.  run_wave takes the
\* mutex for its whole phase A.
FirstWave(j) ==
    /\ ph[j] = "nodes" /\ lock = None
    /\ LET nodes == Ascending(live_node_ids)
       IN  loc' = [loc EXCEPT ![j].nodes = nodes, ![j].todo = Wave(nodes, 0),
                              ![j].need = Workers]
    /\ lock' = j
    /\ Goto(j, "wave")
    /\ UNCHANGED <<kind, faults, workerVars, wireVars, conn, reserved, cur, history>>

\* Phase A, the next assignment: the coordinator's shard is spawned here, a
\* worker's shard is staged first.  After the last one the mutex is released.
WaveAssign(j) ==
    /\ ph[j] = "wave"
    /\ \/ /\ loc[j].todo = <<>>
          /\ lock' = None
          /\ Goto(j, "gather")
          /\ UNCHANGED <<loc, toW>>
       \/ /\ loc[j].todo # <<>> /\ CurrentNode(j) = Coord
          /\ loc' = [loc EXCEPT ![j].todo = Tail(@), ![j].local = "run",
                                ![j].next = CurrentTask(j)[2]]
          /\ UNCHANGED <<lock, toW, ph, answer>>
       \/ /\ loc[j].todo # <<>> /\ CurrentNode(j) # Coord
          /\ SendAll({CurrentNode(j)}, Msg("Stage", CurrentTask(j)))
          /\ Goto(j, "wstage")
          /\ UNCHANGED <<lock, loc>>
    /\ UNCHANGED <<kind, faults, workerVars, toC, conn, reserved, cur, history>>

\* stage_file_to_worker until the ack, then AssignJob.
WaveStaged(j) ==
    /\ ph[j] = "wstage"
    /\ LET n == CurrentNode(j)
       IN  /\ Take(n, conn[n], j)
           /\ IF Head(toC[<<n, conn[n]>>]).kind = "Ack"
              THEN /\ SendAll({n}, Msg("Assign", CurrentTask(j)))
                   /\ loc' = [loc EXCEPT ![j].todo = Tail(@), ![j].wait = @ \cup {n}]
                   /\ Goto(j, "wave")
              ELSE UNCHANGED <<toW, loc, ph, answer>>
    /\ UNCHANGED <<kind, faults, workerVars, coordVars, done, blind>>

\* No ack: the error leaves run_wave at once, with the executors of the wave
\* that were already started still running.
WaveStageTimeout(j) ==
    /\ ph[j] = "wstage"
    /\ Silent(CurrentNode(j), conn[CurrentNode(j)])
    /\ Answer(j, "failed")
    /\ lock' = None /\ cur' = None
    /\ UNCHANGED <<kind, faults, workerVars, wireVars, conn, reserved, loc, history>>

\* Phase B: the local shard ends.  Its partial output is on this disk.
WaveLocal(j) ==
    /\ ph[j] = "gather" /\ loc[j].local = "run"
    /\ \E b \in BOOLEAN :
           /\ done' = IF b THEN done \cup {<<<<j, loc[j].next>>, Coord>>} ELSE done
           /\ loc' = [loc EXCEPT ![j].local = "none", ![j].good = @ /\ b,
                                 ![j].partial = IF b THEN @ \cup {loc[j].next} ELSE @]
    /\ UNCHANGED <<kind, faults, workerVars, wireVars, coordVars, ph, answer, misread, blind>>

\* Phase B: one message of a worker of the wave.  The files a completed task
\* sends back are written whichever job it belongs to.
WaveRecv(j) ==
    /\ ph[j] = "gather" /\ lock = None
    /\ \E w \in loc[j].wait :
           /\ Take(w, conn[w], j)
           /\ LET m == Head(toC[<<w, conn[w]>>])
              IN  loc' = IF m.kind # "Done" THEN loc
                         ELSE [loc EXCEPT
                               ![j].wait = @ \ {w}, ![j].good = @ /\ m.ok,
                               ![j].partial = IF m.ok /\ m.task[1] = j
                                              THEN @ \cup {m.task[2]} ELSE @]
    /\ UNCHANGED <<kind, faults, workerVars, toW, coordVars, ph, answer, done, blind>>

\* Timeout of a wave: what is still missing will never come.
WaveTimeout(j) ==
    /\ ph[j] = "gather" /\ loc[j].local = "none"
    /\ loc[j].wait # {}
    /\ \A w \in loc[j].wait : Silent(w, conn[w])
    /\ loc' = [loc EXCEPT ![j].wait = {}, ![j].good = FALSE]
    /\ UNCHANGED <<kind, faults, workerVars, wireVars, coordVars, ph, answer, history>>

\* End of a wave: the next one, or the merge.  A failure ends the waves.
WaveEnd(j) ==
    /\ ph[j] = "gather" /\ lock = None
    /\ loc[j].local = "none" /\ loc[j].wait = {}
    /\ LET v == loc[j].wave + 1
       IN  IF loc[j].good /\ v * Len(loc[j].nodes) < Shards
           THEN /\ loc' = [loc EXCEPT ![j].wave = v, ![j].todo = Wave(loc[j].nodes, v)]
                /\ lock' = j
                /\ Goto(j, "wave")
           ELSE Goto(j, "merge") /\ UNCHANGED <<loc, lock>>
    /\ UNCHANGED <<kind, faults, workerVars, wireVars, conn, reserved, cur, history>>

\* run_shards_local: fill the window with pending shards.
WindowLaunch(j) ==
    /\ ph[j] = "window"
    /\ Cardinality(loc[j].run) < Window /\ loc[j].next < Shards
    /\ loc' = [loc EXCEPT ![j].run = @ \cup {loc[j].next}, ![j].next = @ + 1]
    /\ UNCHANGED <<kind, faults, workerVars, wireVars, coordVars, ph, answer, history>>

\* Reap a finished executor.
WindowReap(j) ==
    /\ ph[j] = "window"
    /\ \E i \in loc[j].run, b \in BOOLEAN :
           /\ done' = IF b THEN done \cup {<<<<j, i>>, Coord>>} ELSE done
           /\ loc' = [loc EXCEPT ![j].run = @ \ {i}, ![j].good = @ /\ b,
                                 ![j].partial = IF b THEN @ \cup {i} ELSE @]
    /\ UNCHANGED <<kind, faults, workerVars, wireVars, coordVars, ph, answer, misread, blind>>

\* The timeout check after a reap: what still runs is killed and counted as a
\* failure.  With nothing running there is nothing to count, although shards
\* may be pending.
WindowTimeout(j) ==
    /\ ph[j] = "window" /\ loc[j].next > 0
    /\ loc' = [loc EXCEPT ![j].run = {}, ![j].good = @ /\ loc[j].run = {}]
    /\ Goto(j, "merge")
    /\ UNCHANGED <<kind, faults, workerVars, wireVars, coordVars, history>>

WindowEnd(j) ==
    /\ ph[j] = "window"
    /\ loc[j].run = {} /\ loc[j].next = Shards
    /\ Goto(j, "merge")
    /\ UNCHANGED <<kind, faults, workerVars, wireVars, coordVars, loc, history>>

\* Mutant: a missing partial output counts as an empty one.
MergeLenient(j) ==
    /\ ph[j] = "merge"
    /\ Answer(j, Verdict(loc[j].good))
    /\ cur' = None
    /\ UNCHANGED <<kind, faults, workerVars, wireVars, conn, reserved, lock, loc, history>>

\* Stage 3: merge only without failures; it opens every partial output and
\* fails on a missing one.  Then clean-up and the JobResult.
Merge(j) ==
    /\ ph[j] = "merge"
    /\ Answer(j, Verdict(loc[j].good /\ loc[j].partial = ShardIds))
    /\ cur' = None
    /\ UNCHANGED <<kind, faults, workerVars, wireVars, conn, reserved, lock, loc, history>>

ShardedStep(j) ==
    \/ SubmitSharded(j)
    \/ FirstWave(j)
    \/ WaveAssign(j)
    \/ WaveStaged(j)
    \/ WaveStageTimeout(j)
    \/ WaveLocal(j)
    \/ WaveRecv(j)
    \/ WaveTimeout(j)
    \/ WaveEnd(j)
    \/ WindowLaunch(j)
    \/ WindowReap(j)
    \/ WindowTimeout(j)
    \/ WindowEnd(j)
    \/ Merge(j)
=============================================================================
