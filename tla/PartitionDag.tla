---------------------------- MODULE PartitionDag ----------------------------
(***************************************************************************)
(* The passes of `partition` (splitter.rs) with the slot assignment of     *)
(* slot_assigner.rs and slot.rs: from a symbolic DAG to one DAG for every  *)
(* machine, as operators.  ClusterJob runs them as actions.                *)
(*                                                                         *)
(* A node is one record whatever its kind; a field the kind does not have  *)
(* is None, NoLink or empty.  An id is a tuple, and the copy k of id is    *)
(* id with k appended, where the code formats "{id}_{k}": ids of different *)
(* nodes never coincide here.  Slots 0 and 1 are the input and output slot *)
(* of the I/O area; slots from 2 on belong to the stream area.             *)
(***************************************************************************)
EXTENDS PlacementPolicy

NoLink == [peer |-> None, slot |-> None]

InputSlot == 0

OutputSlot == 1

\* A node as a DAG file states it; the other fields are set with EXCEPT.
Sym(id, kind, deps) ==
    [id |-> id, kind |-> kind, deps |-> deps, host |-> None, all |-> FALSE,
     fanout |-> None, weight |-> 1,
     arg |-> None, arg2 |-> None, base |-> None, offset |-> None, out |-> None,
     down |-> None, up |-> <<>>, upNodes |-> <<>>, slots |-> {}, count |-> 0,
     path |-> "", whole |-> FALSE, slice |-> <<0, 1, 1>>,
     stages |-> <<>>, cut |-> {}, segments |-> None, paths |-> 0,
     recv |-> NoLink, send |-> NoLink, io |-> FALSE]

DependsOn(n, id) == id \in Range(n.deps)

-----------------------------------------------------------------------------
(* Expansion                                                               *)

\* expand_all_placements: one pinned copy per machine, with its share of the
\* fan-out.  A copy depends on the copies of its own machine; a node that is
\* placed depends on the copy of its machine, one that is not on all copies.
ExpandAll(nodes, N, h) ==
    LET all == {nodes[i].id : i \in {j \in DOMAIN nodes : nodes[j].all}}
        share(n) == IF n.fanout = None THEN Uniform(N, None)
                    ELSE ApportionFanout(CapFanout(n.fanout, N, h), N, h)
        on(d, m) == IF d \in all THEN Append(d, m) ELSE d
        copies(n) ==
          [k \in 1 .. N |->
             [n EXCEPT !.id = Append(n.id, k - 1), !.host = k - 1, !.all = FALSE,
                       !.fanout = share(n)[k - 1],
                       !.deps = [d \in DOMAIN n.deps |-> on(n.deps[d], k - 1)]]]
        wired(n, d) ==
          IF d \notin all THEN <<d>>
          ELSE IF n.host # None THEN <<Append(d, n.host)>>
          ELSE [k \in 1 .. N |-> Append(d, k - 1)]
        regular(n) == [n EXCEPT !.deps = FlattenSeq([d \in DOMAIN n.deps |-> wired(n, n.deps[d])])]
    IN  FlattenSeq([i \in DOMAIN nodes |->
                      IF nodes[i].all THEN copies(nodes[i]) ELSE <<regular(nodes[i])>>])

\* The files of replicated Input nodes, staged from machine 0 to the others.
SharedPaths(nodes) ==
    {nodes[i].path : i \in {j \in DOMAIN nodes : nodes[j].all /\ nodes[j].kind = "Input"}}

\* expand_fanout: n copies of a node with fanout n; a dependency on the
\* template becomes one on every copy.
ExpandFanout(nodes) ==
    LET templates == {i \in DOMAIN nodes : nodes[i].fanout # None}
        names     == {nodes[i].id : i \in templates}
        copyIds(n) == [k \in 1 .. n.fanout |-> Append(n.id, k - 1)]
        wired(n)  == FlattenSeq([d \in DOMAIN n.deps |->
                        IF n.deps[d] \in names THEN copyIds(Node(nodes, n.deps[d]))
                                               ELSE <<n.deps[d]>>])
        expand(n) == IF n.fanout = None THEN <<n>>
                     ELSE [k \in 1 .. n.fanout |-> [n EXCEPT !.id = copyIds(n)[k], !.fanout = None]]
        flat == FlattenSeq([i \in DOMAIN nodes |-> expand(nodes[i])])
    IN  [i \in DOMAIN flat |-> [flat[i] EXCEPT !.deps = wired(flat[i])]]

\* fanout_worker_ids
WorkerIds(nodes) ==
    UNION {{Append(nodes[i].id, k - 1) : k \in 1 .. nodes[i].fanout} :
             i \in {j \in DOMAIN nodes : nodes[j].fanout # None}}

-----------------------------------------------------------------------------
(* Splitting a stream pipeline over machines                               *)

\* choose_cuts: the m - 1 cheapest boundaries, never one marked "avoid"
\* (cost Keep); a cut is the number of the stage it comes after.
ChooseCuts(stages, m) ==
    LET free == {k \in 1 .. Len(stages) - 1 : stages[k].cost < Keep}
        rank == SortSeq(Ascending(free), LAMBDA a, b : \/ stages[a].cost < stages[b].cost
                                                       \/ stages[a].cost = stages[b].cost /\ a < b)
    IN  IF m <= 1 THEN {} ELSE Range(SubSeq(rank, 1, Min({m - 1, Len(rank)})))

\* cut_points_for: explicit cuts win over a number of segments.
CutPoints(n, N) ==
    CASE n.kind # "StreamPipeline"   -> {}
      [] n.cut # {}                  -> n.cut
      [] n.segments = None           -> {}
      [] OTHER -> ChooseCuts(n.stages, Min({n.segments, N, Len(n.stages)}))

CutsAllowed(n, N) ==
    LET cuts == CutPoints(n, N)
    IN  cuts # {} => /\ Max(cuts) < Len(n.stages)
                     /\ Cardinality(cuts) + 1 <= N

\* machine_order
MachineOrder(N, h) == <<0>> \o Ranked([i \in 1 .. N - 1 |-> At(h.cap, i, 0)])

\* A plausible slip: the input slot of that stage.
BoundarySlotInput(stage) == stage.in

\* boundary_slot: the output slot of the stage before the cut.
BoundarySlot(stage) == stage.out

\* The segments of pipeline n; the last one returns to machine 0.
Segments(n, N, h) ==
    LET cuts  == Ascending(CutPoints(n, N))
        m     == Len(cuts) + 1
        order == MachineOrder(N, h)
        lo(s) == IF s = 1 THEN 1 ELSE cuts[s - 1] + 1
        hi(s) == IF s = m THEN Len(n.stages) ELSE cuts[s]
        slot(s) == BoundarySlot(n.stages[hi(s)])
    IN  [s \in 1 .. m |->
           [Sym(Append(n.id, s - 1), "StreamPipeline", IF s = 1 THEN n.deps ELSE <<>>)
              EXCEPT !.host = order[s], !.stages = SubSeq(n.stages, lo(s), hi(s)),
                     !.recv = IF s = 1 THEN NoLink ELSE [peer |-> order[s - 1], slot |-> slot(s - 1)],
                     !.send = [peer |-> IF s = m THEN 0 ELSE order[s + 1], slot |-> slot(s)]]]

\* The nodes whose first split dependency is a pipeline, as Output nodes of
\* it: they become sinks on machine 0, in the wave of the first segment.
SinkOf(nodes, n, N) ==
    LET split == {k \in DOMAIN n.deps :
                    /\ n.deps[k] \in Ids(nodes)
                    /\ CutPoints(Node(nodes, n.deps[k]), N) # {}}
    IN  IF n.kind = "Output" /\ split # {} THEN {n.deps[Min(split)]} ELSE {}

Sink(n, pipe, N, h) ==
    LET segs == Segments(pipe, N, h)
    IN  [Sym(n.id, "StreamOutput", pipe.deps)
           EXCEPT !.host = 0, !.arg = Last(segs).send.slot, !.paths = n.paths,
                  !.recv = [peer |-> Last(segs).host, slot |-> Last(segs).send.slot]]

\* split_stream_pipelines: the segments of all split pipelines come first.
SplitPipelines(nodes, N, h) ==
    LET cut(n)  == CutPoints(n, N) # {}
        keep(n) == IF cut(n) THEN <<>>
                   ELSE IF SinkOf(nodes, n, N) = {} THEN <<n>>
                   ELSE <<Sink(n, Node(nodes, CHOOSE d \in SinkOf(nodes, n, N) : TRUE), N, h)>>
    IN  IF \A i \in DOMAIN nodes : ~cut(nodes[i]) THEN nodes
        ELSE FlattenSeq([i \in DOMAIN nodes |-> IF cut(nodes[i]) THEN Segments(nodes[i], N, h) ELSE <<>>])
               \o FlattenSeq([i \in DOMAIN nodes |-> keep(nodes[i])])

\* The cuts are legal, and a sink has one path per round.
SplitAllowed(nodes, N) ==
    \A i \in DOMAIN nodes : /\ CutsAllowed(nodes[i], N)
                            /\ SinkOf(nodes, nodes[i], N) # {} => nodes[i].paths > 0

-----------------------------------------------------------------------------
(* Placement and input slices                                              *)

\* pin_converge_to_coordinator: the Output nodes and the chain of single
\* dependencies before each, as far as the first node with several.
ConvergeTail(nodes) ==
    LET grow(S, k) == S \cup {IndexOf(nodes, nodes[i].deps[1]) :
                                i \in {j \in S : /\ Len(nodes[j].deps) = 1
                                                 /\ nodes[j].deps[1] \in Ids(nodes)}}
    IN  FoldLeft(grow, {i \in DOMAIN nodes : nodes[i].kind = "Output"}, nodes)

Converge(nodes) ==
    LET tail == ConvergeTail(nodes)
    IN  [i \in DOMAIN nodes |-> IF i \in tail /\ nodes[i].host = None
                                THEN [nodes[i] EXCEPT !.host = 0] ELSE nodes[i]]

\* assign_input_slices: machine m loads the fraction of the file that its
\* fan-out workers are of all workers.  A slice <<lo, hi, W>> is [lo/W, hi/W].
AssignInputSlices(nodes, N, workers, shared) ==
    LET on(m) == Cardinality({i \in DOMAIN nodes : nodes[i].host = m /\ nodes[i].id \in workers})
        count == [m \in Hosts(N) |-> on(m)]
        w     == IF SumFunction(count) = 0 THEN Uniform(N, 1) ELSE count
        upto(m) == SumFunction([k \in 0 .. m - 1 |-> w[k]])
        sliced(n) == n.kind = "Input" /\ n.path \in shared /\ ~n.whole /\ n.host < N
    IN  IF N <= 1 THEN nodes
        ELSE [i \in DOMAIN nodes |->
                IF ~sliced(nodes[i]) THEN nodes[i]
                ELSE [nodes[i] EXCEPT !.slice =
                        <<upto(nodes[i].host), upto(nodes[i].host + 1), SumFunction(w)>>]]

-----------------------------------------------------------------------------
(* Slots                                                                   *)

\* The indexes of the consumers of a node, in list order.
Consumers(nodes, id) ==
    SelectSeq([i \in DOMAIN nodes |-> i], LAMBDA i : DependsOn(nodes[i], id))

\* A plausible slip: two fan-outs of one machine keep the bases they state.
FanoutBasesFixed(nodes, order) ==
    LET fans == SelectSeq(order, LAMBDA i : nodes[i].kind = "Func" /\ nodes[i].base # None)
        top(i) == nodes[i].base + Len(Consumers(nodes, nodes[i].id))
    IN  [base |-> [id \in {nodes[i].id : i \in Range(fans)} |-> Node(nodes, id).base],
         free |-> Empty, next |-> Max({2} \cup {top(i) : i \in Range(fans)})]

\* Phase 1 of assign_slots: the base slot of every fan-out node.  A fan-out
\* on a machine starts behind the slots of the one before it.
FanoutBases(nodes, order) ==
    LET fans == SelectSeq(order, LAMBDA i : nodes[i].kind = "Func" /\ nodes[i].base # None)
        step(acc, i) ==
          LET n    == nodes[i]
              base == Max({n.base, At(acc.free, n.host, 0)})
              num  == Len(Consumers(nodes, n.id))
          IN  [base |-> acc.base @@ (n.id :> base),
               free |-> (n.host :> base + num) @@ acc.free,
               next |-> IF num = 0 THEN acc.next ELSE Max({acc.next, base + num})]
    IN  FoldLeft(step, [base |-> [i \in {} |-> 0], free |-> Empty, next |-> 2], fans)

\* dep_output_slot: the output of the last dependency; None is an error.
DepOutput(n, outputs) == IF n.deps = <<>> THEN None ELSE At(outputs, Last(n.deps), None)

\* input_slot_for: the slot that a fan-out assigned to n, if any.
InputSlotFor(nodes, n, outputs, base) ==
    LET fan == {k \in DOMAIN n.deps : n.deps[k] \in DOMAIN base}
        src == n.deps[Min(fan)]
        pos == CHOOSE k \in DOMAIN Consumers(nodes, src) : nodes[Consumers(nodes, src)[k]].id = n.id
    IN  IF fan = {} THEN DepOutput(n, outputs) ELSE base[src] + pos - 1

OrElse(a, b) == IF a # None THEN a ELSE b

\* What phase 2 of assign_slots makes of node n: the node, the slot it
\* registers as its output (None: nothing), and the least next free slot.
\* in: input_slot_for; dep: dep_output_slot; next: the next free slot.
Slotted(n, in, dep, base, next) ==
    LET res(node, output, bound) == [node |-> node, output |-> output, next |-> bound]
        fixed == OrElse(n.arg2, OutputSlot)
        ds    == OrElse(n.down, next)
        ups   == IF n.upNodes = <<>> /\ n.up = <<>> THEN n.deps ELSE n.upNodes
        last  == Last(n.stages).out
    IN  CASE n.kind = "Input" ->
               res([n EXCEPT !.arg = OrElse(n.arg, InputSlot)], OrElse(n.arg, InputSlot), 0)
          [] n.kind = "Func" /\ n.arg # None ->
               res([n EXCEPT !.out = OrElse(n.out, fixed)], fixed, fixed + 1)
          [] n.kind = "Func" /\ n.arg = None /\ n.base # None ->
               res([n EXCEPT !.arg = base[n.id]], base[n.id], 0)
          [] n.kind = "Func" /\ n.arg = None /\ n.base = None /\ n.offset # None ->
               res([n EXCEPT !.arg = in, !.out = in + n.offset], in + n.offset, in + n.offset + 1)
          [] n.kind = "Func" /\ n.arg = None /\ n.base = None /\ n.offset = None ->
               res([n EXCEPT !.arg = dep, !.out = OutputSlot], OutputSlot, 0)
          [] n.kind = "Aggregate" /\ n.up # <<>> /\ n.down # None ->
               res([n EXCEPT !.out = OrElse(n.out, n.down)], n.down, n.down + 1)
          [] n.kind = "Aggregate" /\ ~(n.up # <<>> /\ n.down # None) ->
               res([n EXCEPT !.upNodes = ups, !.down = ds, !.out = ds], ds, ds + 1)
          [] n.kind = "Output" -> res([n EXCEPT !.arg = dep], None, 0)
          [] n.kind = "StreamPipeline" ->
               res([n EXCEPT !.out = OrElse(n.out, last)], last, last + 1)
          [] OTHER -> res(n, None, 0)

\* An input slot that a node needs and that nothing produces is an error.
NeedsInput(n) ==
    \/ n.kind = "Output"
    \/ n.kind = "Func" /\ n.arg = None /\ n.base = None

\* assign_slots
AssignSlots(nodes) ==
    LET order == TopoOrder(nodes)
        fan   == FanoutBases(nodes, order)
        step(acc, i) ==
          LET n   == acc.nodes[i]
              dep == DepOutput(n, acc.outputs)
              in  == InputSlotFor(nodes, n, acc.outputs, fan.base)
              r   == Slotted(n, in, dep, fan.base, acc.next)
              bad == NeedsInput(n) /\ (IF n.offset # None THEN in ELSE dep) = None
          IN  [nodes   |-> [acc.nodes EXCEPT ![i] = r.node],
               outputs |-> IF r.output = None THEN acc.outputs ELSE (n.id :> r.output) @@ acc.outputs,
               next    |-> Max({acc.next, r.next}),
               ok      |-> acc.ok /\ ~bad]
    IN  FoldLeft(step, [nodes |-> nodes, outputs |-> [i \in {} |-> 0], next |-> fan.next, ok |-> TRUE], order)

\* inject_fanout_frees: for every fan-out, a node of its machine that frees
\* the slots its consumers there have read, after they ran.
InjectFrees(nodes) ==
    LET readers(src) == SelectSeq(nodes, LAMBDA c :
                          /\ c.kind = "Func" /\ c.offset # None
                          /\ DependsOn(c, src.id) /\ c.host = src.host)
        sources == SelectSeq(nodes, LAMBDA n : n.kind = "Func" /\ n.base # None /\ readers(n) # <<>>)
        free(src) == [Sym(<<"free", src.id>>, "FreeSlots", [k \in DOMAIN readers(src) |-> readers(src)[k].id])
                        EXCEPT !.host = src.host, !.slots = {c.arg : c \in Range(readers(src))}]
    IN  nodes \o [k \in DOMAIN sources |-> free(sources[k])]

-----------------------------------------------------------------------------
(* Edges between machines                                                  *)

\* Step 1 of partition: hosts inside the cluster, known dependencies.
Valid(nodes, N) ==
    \A i \in DOMAIN nodes : nodes[i].host \in Hosts(N) /\ Range(nodes[i].deps) \subseteq Ids(nodes)

\* The output slot of a node: its annotation, or what output_slot derives
\* from its kind; None if there is none.
OutputSlotOf(n) ==
    CASE n.out # None                              -> n.out
      [] n.out = None /\ n.kind = "Aggregate"      -> n.down
      [] n.out = None /\ n.kind = "Input"          -> n.arg
      [] OTHER                                     -> None

\* collect_slots: every number in the kind of a node.
CollectSlots(n) ==
    {x \in {n.arg, n.arg2, n.base, n.offset, n.down, n.recv.slot, n.recv.peer, n.send.slot, n.send.peer}
             \cup n.slots \cup Range(n.up)
             \cup UNION {{n.stages[k].in, n.stages[k].out} : k \in DOMAIN n.stages} : x >= 0}

\* Steps 3 and 4: one edge for every node and every other machine that has a
\* consumer of it, in list order, each with a fresh receive slot.
CrossEdges(nodes) ==
    LET next == Max({0} \cup UNION {CollectSlots(nodes[i]) : i \in DOMAIN nodes}) + 1
        crossing(n) == SelectSeq([k \in DOMAIN n.deps |-> <<n.deps[k], n.host>>],
                                 LAMBDA p : Node(nodes, p[1]).host # n.host)
        add(acc, p) == IF p \in Range(acc) THEN acc ELSE Append(acc, p)
        keys == FoldLeft(add, <<>>, FlattenSeq([i \in DOMAIN nodes |-> crossing(nodes[i])]))
    IN  [k \in DOMAIN keys |->
           LET src == Node(nodes, keys[k][1])
           IN  [src |-> src.id, from |-> src.host, dest |-> keys[k][2],
                slot |-> OutputSlotOf(src), recv |-> next + k - 1]]

\* An Input never crosses, and a node that does has an output slot.
EdgesAllowed(nodes, edges) ==
    \A k \in DOMAIN edges : Node(nodes, edges[k].src).kind # "Input" /\ edges[k].slot # None

RecvId(src) == <<"rr", src>>

SendId(e) == <<"rs", e.src, e.dest>>

\* cross_edge_slot_kind
IsIo(slot) == slot = OutputSlot

RemoteRecv(e) ==
    [Sym(RecvId(e.src), "RemoteRecv", <<>>)
       EXCEPT !.host = e.dest, !.arg = e.recv, !.io = IsIo(e.slot),
              !.recv = [peer |-> e.from, slot |-> e.recv]]

RemoteSend(e) ==
    [Sym(SendId(e), "RemoteSend", <<e.src>>)
       EXCEPT !.host = e.from, !.arg = e.slot, !.io = IsIo(e.slot),
              !.send = [peer |-> e.dest, slot |-> e.slot]]

\* A plausible slip: the slot that the producer has on its own machine.
ReceivedInOriginal(edges, src, m) ==
    {edges[k].slot : k \in {j \in DOMAIN edges : edges[j].src = src /\ edges[j].dest = m}}

\* The receive slots of the edges that bring src to machine m.
ReceivedIn(edges, src, m) ==
    {edges[k].recv : k \in {j \in DOMAIN edges : edges[j].src = src /\ edges[j].dest = m}}

\* resolve_upstream_nodes, resolve_output_kind and translate_func_kind: an
\* Aggregate reads receive slots for remote producers, an Output the receive
\* slot of its first remote dependency, and a fan-out learns its consumers.
Resolved(nodes, edges, n) ==
    LET remote(d) == Node(nodes, d).host # n.host
        slotOf(d) == IF ReceivedIn(edges, d, n.host) # {}
                     THEN CHOOSE x \in ReceivedIn(edges, d, n.host) : TRUE
                     ELSE OutputSlotOf(Node(nodes, d))
        far == {k \in DOMAIN n.deps : remote(n.deps[k])}
    IN  [n EXCEPT
           !.deps  = [k \in DOMAIN n.deps |-> IF remote(n.deps[k]) THEN RecvId(n.deps[k]) ELSE n.deps[k]],
           !.up    = IF n.upNodes = <<>> THEN n.up
                     ELSE [k \in DOMAIN n.upNodes |-> slotOf(n.upNodes[k])],
           !.arg   = IF n.kind = "Output" /\ far # {} THEN slotOf(n.deps[Min(far)]) ELSE @,
           !.count = IF n.kind = "Func" /\ n.base # None THEN Len(Consumers(nodes, n.id)) ELSE 0]

\* Steps 5a to 5c: receives, nodes and sends of machine m.  es is edges in
\* the order in which the code walks its hash map.
MachineNodes(nodes, edges, es, m) ==
    LET own == SelectSeq(nodes, LAMBDA n : n.host = m)
        ins == SelectSeq(es, LAMBDA e : e.dest = m)
        outs == SelectSeq(es, LAMBDA e : e.from = m)
    IN  [k \in DOMAIN ins |-> RemoteRecv(ins[k])]
          \o [k \in DOMAIN own |-> Resolved(nodes, edges, own[k])]
          \o [k \in DOMAIN outs |-> RemoteSend(outs[k])]

-----------------------------------------------------------------------------
(* Step 5d: a receive comes after the sends to the same peer, unless that  *)
(* closes a cycle                                                          *)

\* The edges of a machine's DAG, from a dependency to its dependent.
DepEdges(list) ==
    UNION {{<<list[i].deps[k], list[i].id>> : k \in DOMAIN list[i].deps} : i \in DOMAIN list}

\* dag_reachable's breadth-first search: all that can be reached from a.
ReachableFrom(E, a) ==
    LET grow(S, e) == S \cup {f[2] : f \in {g \in E : g[1] \in S}}
    IN  FoldSet(LAMBDA e, S : grow(S, e), {a}, E)

\* The pairs <<receive, send>> of the same peer, peers in ascending order.
SamePeer(list, N) ==
    LET pairs(p) ==
          LET recvs == SelectSeq(list, LAMBDA n : n.kind = "RemoteRecv" /\ n.recv.peer = p)
              sends == SelectSeq(list, LAMBDA n : n.kind \in {"RemoteSend", "StreamPipeline"} /\ n.send.peer = p)
          IN  FlattenSeq([r \in DOMAIN recvs |-> [s \in DOMAIN sends |-> <<recvs[r].id, sends[s].id>>]])
    IN  FlattenSeq([k \in 1 .. N |-> pairs(k - 1)])

\* The defect the code once had: each edge checked against the original DAG.
AddedEdgesFrozen(list, N) ==
    {<<p[2], p[1]>> : p \in {q \in Range(SamePeer(list, N)) :
                               q[2] \notin ReachableFrom(DepEdges(list), q[1])}}

\* A plausible slip: a send is made to wait for the receives of its peer.
AddedEdgesReversed(list, N) ==
    {p \in Range(SamePeer(list, N)) : p[1] \notin ReachableFrom(DepEdges(list), p[2])}

\* The edges the pass adds, each checked against those added before it.
AddedEdges(list, N) ==
    LET step(E, p) == IF p[2] \in ReachableFrom(E, p[1]) THEN E ELSE E \cup {<<p[2], p[1]>>}
    IN  FoldLeft(step, DepEdges(list), SamePeer(list, N)) \ DepEdges(list)

OrderRecvs(list, N) ==
    LET added == AddedEdges(list, N)
        extra(n) == SelectSeq([k \in DOMAIN list |-> list[k].id], LAMBDA s : <<s, n.id>> \in added)
    IN  [i \in DOMAIN list |-> [list[i] EXCEPT !.deps = @ \o extra(list[i])]]

=============================================================================
