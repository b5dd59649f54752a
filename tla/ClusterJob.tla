----------------------------- MODULE ClusterJob -----------------------------
(***************************************************************************)
(* A symbolic DAG from its submission to its result: the Partitioner makes *)
(* one DAG per machine (`partition`, one action per pass), the coordinator *)
(* stages every worker's window of the input, and the executors of all     *)
(* machines run their DAGs wave by wave, exchanging slots over the mesh.   *)
(*                                                                         *)
(* A slot holds a bag of input records; what a guest function computes is  *)
(* left out, so a result says which records went into it and how often.    *)
(***************************************************************************)
EXTENDS PartitionDag, LiveHints, InputSplit, Bags

CONSTANT Jobs
\* A job: the symbolic nodes; total, the machines it asks for (or None), the
\* live node ids and the coordinator's view of them; policy and raw (hints of
\* the DAG) as sequences of length 0 or 1, converge, maxColocation (or None);
\* the input file, how many times the result must hold every record of it,
\* and whether the plan is also run.

VARIABLES
    job,      \* the job
    N,        \* the number of machines it is planned for
    hints,    \* the placement hints in effect
    pass,     \* the next pass of partition, "run", "planned" or "error"
    nodes,    \* the nodes as the passes rewrite them
    workers,  \* fanout_worker_ids
    edges,    \* the cross-machine edges
    plan,     \* machine -> its list of nodes
    level,    \* machine -> node id -> the wave it runs in
    mach,     \* machine -> its executor
    lane,     \* <<from, to>> -> announcements of empty transfers in flight
    saved     \* what the Output nodes have written, one bag each

given    == <<job, N, hints>>
partVars == <<pass, nodes, workers, edges, plan, level>>
runVars  == <<mach, lane, saved>>
vars     == <<job, N, hints, pass, nodes, workers, edges, plan, level, mach, lane, saved>>

\* Live hints win over the policy of the DAG, its raw hints and the default.
EffectiveHints(j, n) ==
    Head(Clamped(j.view, j.ids, n)
           \o [k \in DOMAIN j.policy |-> ResolvePolicy(j.policy[k], n)]
           \o j.raw \o <<PackHints(n, None)>>)

Idle == [state |-> "idle", wave |-> 0, open |-> FALSE, st |-> <<>>, mem |-> <<>>]

Init ==
    /\ job \in Jobs
    /\ N = EffectiveNodes(job.total, Len(job.ids))
    /\ hints = EffectiveHints(job, N)
    /\ pass = "expand"
    /\ nodes = job.nodes
    /\ workers = {}
    /\ edges = <<>>
    /\ plan = [m \in Hosts(N) |-> <<>>]
    /\ level = [m \in Hosts(N) |-> <<>>]
    /\ mach = [m \in Hosts(N) |-> Idle]
    /\ lane = [l \in Hosts(N) \X Hosts(N) |-> 0]
    /\ saved = <<>>

-----------------------------------------------------------------------------
(* partition                                                               *)

\* expand_all_placements
Expand ==
    /\ pass = "expand"
    /\ nodes' = ExpandAll(nodes, N, hints)
    /\ pass' = "fanout"
    /\ UNCHANGED <<given, workers, edges, plan, level, runVars>>

\* expand_fanout
Fanout ==
    /\ pass = "fanout"
    /\ nodes' = ExpandFanout(nodes)
    /\ workers' = WorkerIds(nodes)
    /\ pass' = "split"
    /\ UNCHANGED <<given, edges, plan, level, runVars>>

\* split_stream_pipelines
Split ==
    /\ pass = "split"
    /\ IF SplitAllowed(nodes, N)
         THEN nodes' = SplitPipelines(nodes, N, hints) /\ pass' = "place"
         ELSE nodes' = nodes /\ pass' = "error"
    /\ UNCHANGED <<given, workers, edges, plan, level, runVars>>

\* pin_converge_to_coordinator, assign_nodes and assign_input_slices.  The
\* random policy draws every host; the best host is any of the largest.
Place ==
    /\ pass = "place"
    /\ LET pinned == IF job.converge THEN Converge(nodes) ELSE nodes
       IN  \E placed \in
              IF Autos(pinned) = {} THEN {pinned}
              ELSE IF hints.random
                THEN {[i \in DOMAIN pinned |-> IF i \in Autos(pinned) THEN [pinned[i] EXCEPT !.host = f[i]]
                                                                   ELSE pinned[i]] :
                        f \in [Autos(pinned) -> Hosts(N)]}
              ELSE {AssignNodes(pinned, N, hints, job.maxColocation, best) :
                      best \in IF DOMAIN hints.cap = {} THEN {None} ELSE BestHosts(hints)} :
            nodes' = AssignInputSlices(placed, N, workers, SharedPaths(job.nodes))
    /\ pass' = "slots"
    /\ UNCHANGED <<given, workers, edges, plan, level, runVars>>

\* assign_slots, inject_fanout_frees and the validation of the nodes
Slots ==
    /\ pass = "slots"
    /\ LET r == AssignSlots(nodes)
           all == InjectFrees(r.nodes)
       IN  /\ nodes' = IF r.ok THEN all ELSE nodes
           /\ pass' = IF r.ok /\ Valid(all, N) THEN "edges" ELSE "error"
    /\ UNCHANGED <<given, workers, edges, plan, level, runVars>>

Acyclic(list) == \A i \in DOMAIN list : list[i].id \notin
                    UNION {ReachableFrom(DepEdges(list), e[2]) :
                             e \in {f \in DepEdges(list) : f[1] = list[i].id}}

\* build_waves: a node runs in the wave after the last of its dependencies;
\* a DAG with a cycle has no waves.
BuildWaves(list) ==
    LET wave[id \in Ids(list)] == Max({1} \cup {wave[d] + 1 : d \in Range(Node(list, id).deps)})
    IN  IF Acyclic(list) THEN wave ELSE <<>>

\* Steps 3 to 5: the cross edges, and the DAG of every machine with its
\* receives ordered.  The hash map of the edges is walked in any order.
Assemble ==
    /\ pass = "edges"
    /\ IF EdgesAllowed(nodes, CrossEdges(nodes))
         THEN /\ edges' = CrossEdges(nodes)
              /\ \E es \in SetToSeqs(Range(edges')) :
                    plan' = [m \in Hosts(N) |-> OrderRecvs(MachineNodes(nodes, edges', es, m), N)]
              /\ level' = [m \in Hosts(N) |-> BuildWaves(plan'[m])]
              /\ pass' = IF job.run THEN "run" ELSE "planned"
         ELSE pass' = "error" /\ UNCHANGED <<edges, plan, level>>
    /\ UNCHANGED <<given, nodes, workers, runVars>>

-----------------------------------------------------------------------------
(* The executors                                                           *)

IdsOn(m) == {plan[m][i].id : i \in DOMAIN plan[m]}

Get(m, id) == Node(plan[m], id)

\* The executor reads its DAG, and refuses one with a cycle.
StartMachine(m) ==
    /\ pass = "run"
    /\ mach[m].state = "idle"
    /\ mach' = [mach EXCEPT ![m] =
                  [Idle EXCEPT !.state = CASE plan[m] = <<>> -> "done"
                                           [] plan[m] # <<>> /\ level[m] = <<>> -> "failed"
                                           [] OTHER -> "running",
                               !.st = [id \in IdsOn(m) |-> "wait"]]]
    /\ UNCHANGED <<given, partVars, lane, saved>>

Running(m) == pass = "run" /\ mach[m].state = "running"

InWave(m, w) == {id \in IdsOn(m) : level[m][id] = w}

\* A receive that something depends on is joined when that node's wave opens.
Deferred(m, id) ==
    /\ Get(m, id).kind = "RemoteRecv"
    /\ \E j \in IdsOn(m) : DependsOn(Get(m, j), id)

Fail(m) == mach' = [mach EXCEPT ![m] = [Idle EXCEPT !.state = "failed"]]

\* Step 1 of a wave joins the deferred receives of its nodes; then all nodes
\* of the wave are started.
OpenWave(m) ==
    /\ Running(m)
    /\ ~mach[m].open
    /\ LET w    == mach[m].wave + 1
           need == UNION {Range(Get(m, id).deps) : id \in InWave(m, w)}
       IN  /\ InWave(m, w) # {}
           /\ \A d \in need : mach[m].st[d] \in {"done", "err"}
           /\ IF \E d \in need : mach[m].st[d] = "err" THEN Fail(m)
              ELSE mach' = [mach EXCEPT ![m].wave = w, ![m].open = TRUE,
                              ![m].st = [id \in IdsOn(m) |-> IF id \in InWave(m, w) THEN "run" ELSE @[id]]]
    /\ UNCHANGED <<given, partVars, lane, saved>>

Slot(m, area, s) == At(mach[m].mem, <<area, s>>, EmptyBag)

\* Slots 0 and 1 are I/O slots, the others stream slots.
AreaOf(s) == IF s \in {InputSlot, OutputSlot} THEN "io" ELSE "stream"

\* A node is done, and slot contents are replaced by those of writes.
Finish(m, id, writes) ==
    mach' = [mach EXCEPT ![m].st[id] = "done", ![m].mem = writes @@ @]

\* WC_DIST_BASE
DistBase == 10

\* unpack_fanout_arg: the packed argument of a fan-out function.  Without
\* consumers it looks like the legacy form, a bare number of workers.
UnpackFanoutArg(base, count) ==
    IF count = 0 THEN [base |-> DistBase, n |-> base] ELSE [base |-> base, n |-> count]

\* The distribute function of a workload: the input records move to n slots
\* from the base on; without input the slots are emptied.
Distribute(m, node) ==
    LET arg   == UnpackFanoutArg(node.arg, node.count)
        bag   == BagToSet(Slot(m, "io", InputSlot))
        start == Ascending({r[1] : r \in bag})
        recs  == [i \in DOMAIN start |-> CHOOSE r \in bag : r[1] = start[i]]
        part  == SplitContiguous(recs, arg.n)
    IN  (<<"io", InputSlot>> :> EmptyBag)
          @@ [key \in {"stream"} \X (arg.base .. arg.base + arg.n - 1) |-> SetToBag(part[key[2] - arg.base])]

\* External: any other guest function reads its argument slot and appends
\* to its output slot.
Compute(m, n) ==
    <<AreaOf(n.out), n.out>> :> (Slot(m, AreaOf(n.out), n.out) (+) Slot(m, AreaOf(n.arg), n.arg))

\* A guest subprocess of the wave.
RunFunc(m, id) ==
    /\ Running(m) /\ mach[m].st[id] = "run"
    /\ Get(m, id).kind = "Func"
    /\ Finish(m, id, IF Get(m, id).base # None THEN Distribute(m, Get(m, id)) ELSE Compute(m, Get(m, id)))
    /\ UNCHANGED <<given, partVars, lane, saved>>

\* The host nodes of a wave run on the main thread in list order.
HostKinds == {"Input", "Aggregate", "Output", "FreeSlots"}

Turn(m, id) ==
    /\ Running(m) /\ mach[m].st[id] = "run"
    /\ Get(m, id).kind \in HostKinds
    /\ \A i \in 1 .. IndexOf(plan[m], id) - 1 :
          ~(plan[m][i].kind \in HostKinds /\ mach[m].st[plan[m][i].id] = "run")

\* Machine 0 reads its slice of the file itself; a worker reads the copy
\* staged to it.  An empty or missing file cannot be mapped.
LoadedBy(m, n) ==
    IF m = 0 \/ n.path \notin SharedPaths(job.nodes) THEN LoadSlice(job.file, n.slice)
    ELSE LoadStaged(job.file, n.slice)

Mappable(m, n) ==
    IF m = 0 \/ n.path \notin SharedPaths(job.nodes) THEN job.file # <<>>
    ELSE Staged(job.file, n.slice) # <<>>

RunInput(m, id) ==
    /\ Turn(m, id)
    /\ Get(m, id).kind = "Input"
    /\ LET n == Get(m, id)
       IN  IF Mappable(m, n)
           THEN Finish(m, id, <<"io", n.arg>> :> (Slot(m, "io", n.arg) (+) SetToBag(LoadedBy(m, n))))
           ELSE Fail(m)
    /\ UNCHANGED <<given, partVars, lane, saved>>

\* The chains of the upstream slots are linked behind the downstream slot.
RunAggregate(m, id) ==
    /\ Turn(m, id)
    /\ Get(m, id).kind = "Aggregate"
    /\ LET n == Get(m, id)
           chain(bag, s) == bag (+) Slot(m, "stream", s)
       IN  Finish(m, id, <<"stream", n.down>> :> FoldLeft(chain, Slot(m, "stream", n.down), n.up))
    /\ UNCHANGED <<given, partVars, lane, saved>>

RunOutput(m, id) ==
    /\ Turn(m, id)
    /\ Get(m, id).kind = "Output"
    /\ saved' = Append(saved, Slot(m, "io", Get(m, id).arg))
    /\ Finish(m, id, <<>>)
    /\ UNCHANGED <<given, partVars, lane>>

Freed(area, slots) == [key \in {area} \X slots |-> EmptyBag]

RunFree(m, id) ==
    /\ Turn(m, id)
    /\ Get(m, id).kind = "FreeSlots"
    /\ Finish(m, id, Freed("stream", Get(m, id).slots))
    /\ UNCHANGED <<given, partVars, lane, saved>>

-----------------------------------------------------------------------------
(* Transfers.  A send thread and the receive thread of its peer meet: the  *)
(* sender announces its length and waits for the receiver's answer.  An    *)
(* empty slot needs no answer, so its sender is done at once.              *)

AreaOfLink(n) == IF n.io THEN "io" ELSE "stream"

RdmaRunning(m, id, kind) ==
    Running(m) /\ mach[m].st[id] = "run" /\ Get(m, id).kind = kind

SendEmpty(m, id) ==
    /\ RdmaRunning(m, id, "RemoteSend")
    /\ LET n == Get(m, id)
       IN  /\ Slot(m, AreaOfLink(n), n.arg) = EmptyBag
           /\ lane' = [lane EXCEPT ![<<m, n.send.peer>>] = @ + 1]
    /\ Finish(m, id, <<>>)
    /\ UNCHANGED <<given, partVars, saved>>

\* A plausible slip: the receive returns before the announcement is there.
RecvEmptyEager(m, id) ==
    /\ RdmaRunning(m, id, "RemoteRecv")
    /\ lane' = [lane EXCEPT ![<<Get(m, id).recv.peer, m>>] = @ - 1]
    /\ Finish(m, id, <<>>)
    /\ UNCHANGED <<given, partVars, saved>>

RecvEmpty(m, id) ==
    /\ RdmaRunning(m, id, "RemoteRecv")
    /\ LET from == <<Get(m, id).recv.peer, m>>
       IN  lane[from] > 0 /\ lane' = [lane EXCEPT ![from] = @ - 1]
    /\ Finish(m, id, <<>>)
    /\ UNCHANGED <<given, partVars, saved>>

Transfer(m, sid, k, rid) ==
    /\ RdmaRunning(m, sid, "RemoteSend") /\ Get(m, sid).send.peer = k
    /\ RdmaRunning(k, rid, "RemoteRecv") /\ Get(k, rid).recv.peer = m
    /\ lane[<<m, k>>] = 0
    /\ LET s == Get(m, sid)
           r == Get(k, rid)
           data == Slot(m, AreaOfLink(s), s.arg)
       IN  /\ data # EmptyBag
           /\ mach' = [mach EXCEPT ![m].st[sid] = "done", ![k].st[rid] = "done",
                         ![k].mem = (<<AreaOfLink(r), r.arg>> :> (Slot(k, AreaOfLink(r), r.arg) (+) data)) @@ @]
    /\ UNCHANGED <<given, partVars, lane, saved>>

\* The connection to a machine that failed is closed.
PeerLost(m, id) ==
    /\ Running(m) /\ mach[m].st[id] = "run"
    /\ LET n == Get(m, id)
       IN  \/ n.kind = "RemoteSend" /\ mach[n.send.peer].state = "failed"
           \/ /\ n.kind = "RemoteRecv" /\ mach[n.recv.peer].state = "failed"
              /\ lane[<<n.recv.peer, m>>] = 0
    /\ mach' = [mach EXCEPT ![m].st[id] = "err"]
    /\ UNCHANGED <<given, partVars, lane, saved>>

-----------------------------------------------------------------------------
(* The end of a wave                                                       *)

\* An Input slot, and an I/O slot that was received, is freed when the last
\* of its direct consumers has run; without consumers at once.
FreedWithLastReader(m, w) ==
    {key \in {"io"} \X {Get(m, id).arg : id \in IdsOn(m)} :
       \E id \in IdsOn(m) :
          LET n == Get(m, id)
              readers == {level[m][j] : j \in {i \in IdsOn(m) : DependsOn(Get(m, i), id)}}
          IN  /\ n.kind = "Input" \/ (n.kind = "RemoteRecv" /\ n.io)
              /\ key[2] = n.arg
              /\ w = Max({level[m][id]} \cup readers)}

\* Slots that a node of the wave owns or has routed.
FreedByNode(n) ==
    CASE n.kind = "Aggregate" -> {"stream"} \X Range(n.up)
      [] n.kind = "Output"    -> {<<"io", n.arg>>}
      [] OTHER                -> {}

CloseWave(m) ==
    /\ Running(m) /\ mach[m].open
    /\ LET w    == mach[m].wave
           mine == {id \in InWave(m, w) : ~Deferred(m, id)}
           gone == FreedWithLastReader(m, w) \cup UNION {FreedByNode(Get(m, id)) : id \in InWave(m, w)}
       IN  /\ \A id \in mine : mach[m].st[id] \in {"done", "err"}
           /\ IF \E id \in mine : mach[m].st[id] = "err" THEN Fail(m)
              ELSE mach' = [mach EXCEPT ![m].open = FALSE,
                              ![m].mem = [key \in gone |-> EmptyBag] @@ @,
                              ![m].state = IF InWave(m, w + 1) = {} THEN "done" ELSE @]
    /\ UNCHANGED <<given, partVars, lane, saved>>

Plan == Expand \/ Fanout \/ Split \/ Place \/ Slots \/ Assemble

Run ==
    /\ pass = "run"
    /\ \E m \in DOMAIN plan :
         \/ StartMachine(m)
         \/ OpenWave(m)
         \/ CloseWave(m)
         \/ \E id \in IdsOn(m) :
              \/ RunFunc(m, id) \/ RunInput(m, id) \/ RunAggregate(m, id)
              \/ RunOutput(m, id) \/ RunFree(m, id)
              \/ SendEmpty(m, id) \/ RecvEmpty(m, id) \/ PeerLost(m, id)
              \/ \E k \in DOMAIN plan \ {m} : \E rid \in IdsOn(k) : Transfer(m, id, k, rid)

Next == Plan \/ Run

\* The operating system runs every process and thread that can run: while
\* one of the executors can take a step, some executor does.  The planning
\* passes are straight-line code and wait for nothing.
Spec == Init /\ [][Next]_vars /\ WF_vars(Run)

-----------------------------------------------------------------------------
(* Properties                                                              *)

Planned == pass \in {"run", "planned"}

\* Slots, hosts, slices and announcements stay within what the plan can
\* name: a plan never mentions a machine outside the cluster, and a receive
\* never consumes an announcement that was not made.
TypeOK ==
    /\ job \in Jobs
    /\ pass \in {"expand", "fanout", "split", "place", "slots", "edges", "run", "planned", "error"}
    /\ pass \in {"slots", "edges"} => \A i \in DOMAIN nodes : nodes[i].host # None
    /\ Planned => \A i \in DOMAIN nodes :
         LET s == nodes[i].slice
         IN  nodes[i].host \in Hosts(N) /\ 0 <= s[1] /\ s[1] <= s[2] /\ s[2] <= s[3]
    /\ \A m \in Hosts(N) :
         /\ mach[m].state \in {"idle", "running", "done", "failed"}
         /\ mach[m].state = "running" => DOMAIN mach[m].st = IdsOn(m) /\ DOMAIN level[m] = IdsOn(m)
    /\ \A l \in DOMAIN lane : lane[l] \in 0 .. Len(edges)

\* assign_nodes never puts more automatically placed nodes on a host than
\* its colocation limit, as long as the limits of all hosts together leave
\* room for all of them (compute_quotas with its top-up).
PlacementWithinLimits ==
    [][(pass = "place" /\ ~hints.random) =>
         LET pinned == IF job.converge THEN Converge(nodes) ELSE nodes
             autos  == Autos(pinned)
             limit  == [m \in Hosts(N) |-> Limit(m, Cardinality(autos), hints, job.maxColocation)]
             got(m) == Cardinality({i \in autos : nodes'[i].host = m})
         IN  SumFunction(limit) >= Cardinality(autos) => \A m \in Hosts(N) : got(m) <= limit[m]]_vars

\* The stream slots a node of a machine's plan writes.
Written(n) ==
    (IF n.kind = "Func" /\ n.base # None THEN n.arg .. n.arg + n.count - 1
     ELSE IF n.kind = "Func" THEN {n.out}
     ELSE IF n.kind = "Aggregate" THEN {n.down}
     ELSE IF n.kind = "RemoteRecv" /\ ~n.io THEN {n.arg}
     ELSE {n.stages[k].out : k \in DOMAIN n.stages}) \ {InputSlot, OutputSlot}

\* The segments of a split pipeline p chain up again: together they have all
\* stages in order, each runs on a machine of its own, and each sends to the
\* machine of the next, into the slot its first stage reads; the last sends
\* to the sink on machine 0.
Chained(p) ==
    LET segs  == SelectSeq(nodes, LAMBDA n : n.kind = "StreamPipeline" /\ Front(n.id) = p.id)
        sinks == {n \in Range(nodes) : n.kind = "StreamOutput"}
    IN  /\ FlattenSeq([s \in DOMAIN segs |-> segs[s].stages]) = p.stages
        /\ IsInjective([s \in DOMAIN segs |-> segs[s].host])
        /\ \A s \in 1 .. Len(segs) - 1 :
             /\ segs[s].send = [peer |-> segs[s + 1].host, slot |-> Last(segs[s].stages).out]
             /\ segs[s + 1].recv = [peer |-> segs[s].host, slot |-> Head(segs[s + 1].stages).in]
        /\ \A n \in sinks : /\ n.recv = [peer |-> Last(segs).host, slot |-> Last(p.stages).out]
                             /\ n.host = Last(segs).send.peer

\* The DAGs that the passes make of a job fit together.  Whatever order the
\* hash map of cross edges is walked in, the ordering edges of step 5d leave
\* the DAG of every machine acyclic.  No two nodes of one machine write the
\* same stream slot, though the bases of the fan-outs, the offsets of their
\* workers, the fresh slots of aggregates and the receive slots come from
\* different passes.  And the segments of a split pipeline chain up again.
PlansFit ==
    /\ Planned => \A m \in Hosts(N) :
         /\ Acyclic(plan[m])
         /\ \A i, j \in DOMAIN plan[m] :
              i < j => Written(plan[m][i]) \cap Written(plan[m][j]) = {}
    /\ pass \notin {"expand", "fanout", "split", "error"} =>
         \A p \in {n \in Range(job.nodes) : CutPoints(n, N) # {}} : Chained(p)

\* A result that is saved holds every record of the input as often as the
\* DAG computes it, whatever the placement, the slices and the order of the
\* nodes; and a job all of whose machines finish has saved its result.
ExactResult ==
    /\ \A k \in DOMAIN saved :
         saved[k] = [r \in Records(job.file, 0, Len(job.file)) |-> job.times]
    /\ (pass = "run" /\ \A m \in Hosts(N) : mach[m].state = "done") => saved # <<>>

\* The machines load every line of a sliced input exactly once and whole,
\* and a worker's staged window holds just the lines of its slice.
LinesLoadedOnce ==
    pass \notin {"expand", "fanout", "split", "place", "error"} =>
      \A t \in {n \in Range(job.nodes) : n.all /\ n.kind = "Input" /\ ~n.whole} :
        LET slice(m) == Node(nodes, Append(t.id, m)).slice
            loads    == [m \in Hosts(N) |-> LoadSlice(job.file, slice(m))]
        IN  /\ UNION Range(loads) = Records(job.file, 0, Len(job.file))
            /\ \A a, b \in Hosts(N) : a # b => loads[a] \cap loads[b] = {}
            /\ \A m \in Hosts(N) : LoadStaged(job.file, slice(m)) = loads[m]

\* However a file is cut, no line is lost, doubled or torn.  A chunked Input
\* loads every line once whatever the chunk size, and a chunk of several
\* lines is within that size.  A sharded job has every line in one shard, in
\* the file's order, no shard exceeds its share by a whole line, and the
\* merged tallies and top keys are those of the unsharded file.
PiecesExact ==
    pass = "expand" =>
      /\ \A max \in 1 .. Len(job.file) + 1 :
           LET chunks == Chunks(job.file, max)
           IN  /\ UNION Range(chunks) = Records(job.file, 0, Len(job.file))
               /\ \A a, b \in DOMAIN chunks : a # b => chunks[a] \cap chunks[b] = {}
               /\ \A c \in Range(chunks) : \A q, r \in c : q # r => r[2] - q[1] <= max
      /\ \A n \in 1 .. 4 :
           LET shards == Shards(job.file, n)
               lines  == Lines(job.file)
               share  == Max({1, (Len(job.file) + n - 1) \div n})
               size(S) == SumFunction([l \in S |-> l[2] - l[1]])
               merged == FoldKeyNums([i \in 1 .. n |-> Tally(shards[i - 1])])
               top    == TopK(merged, 1)
           IN  /\ UNION Range(shards) = Range(lines)
               /\ \A i, j \in DOMAIN shards : i < j => \A q \in shards[i], r \in shards[j] : q[2] <= r[1]
               /\ \A i \in DOMAIN shards : \A l \in shards[i] :
                    (\A q \in shards[i] : q[2] <= l[2]) => size(shards[i] \ {l}) < share
               /\ merged = Tally(Range(lines))
               /\ \A k \in DOMAIN merged : top # <<>> /\ merged[k] <= top[1][2]

\* Once the DAGs of a job are handed to the executors, every one of them
\* ends: no machine waits for another forever, whichever of them fails.
EveryMachineEnds ==
    pass = "run" ~> \A m \in Hosts(N) : mach[m].state \in {"done", "failed"}

=============================================================================
