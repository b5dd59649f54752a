---------------------------- MODULE MCDagRunner ----------------------------
(***************************************************************************)
(* DAGs in the shape of the ones under DAGs/, each with one node of every  *)
(* kind it needs to make reclamation hard.                                 *)
(***************************************************************************)
EXTENDS DagRunner

S(k) == <<"stream", k>>
IO(k) == <<"io", k>>

Nd(kind, deps, in, out) ==
    [kind |-> kind, deps |-> deps, stages |-> <<[in |-> in, out |-> out]>>,
     next |-> FALSE, moves |-> <<>>, frees |-> {}]
Staged(kind, deps, stages, next) ==
    [kind |-> kind, deps |-> deps, stages |-> stages, next |-> next, moves |-> <<>>, frees |-> {}]
Routing(kind, deps, moves) ==
    [kind |-> kind, deps |-> deps, stages |-> <<>>, next |-> FALSE, moves |-> moves, frees |-> {}]
Frees(deps, slots) ==
    [kind |-> "Free", deps |-> deps, stages |-> <<>>, next |-> FALSE, moves |-> <<>>, frees |-> slots]

OneShot(nodes) ==
    [nodes |-> nodes, deps |-> [n \in DOMAIN nodes |-> nodes[n].deps],
     group |-> [n \in DOMAIN nodes |-> NoGroup],
     mode |-> "OneShot", runs |-> 1, chunks |-> 0, persist |-> {}]
Reset(nodes, runs) == [OneShot(nodes) EXCEPT !.mode = "Reset", !.runs = runs]

(* workload_dag/word_count: load, distribute, two maps, aggregate, reduce. *)
WordCountNodes(input) ==
    << Nd(input, {}, {}, {IO(0)}),
       Nd("Func", {1}, {IO(0)}, {S(10), S(11)}),
       Nd("Func", {2}, {S(10)}, {S(12)}),
       Nd("Func", {2}, {S(11)}, {S(13)}),
       Routing("Route", {3, 4}, << <<S(12), S(20)>>, <<S(13), S(20)>> >>),
       Nd("Func", {5}, {S(20)}, {IO(1)}),
       Nd("Output", {6}, {IO(1)}, {}) >>

WordCount == OneShot(WordCountNodes("Prefetch"))

(* The same by chunks: slot 20 accumulates.                                *)
Chunked == [OneShot(WordCountNodes("Chunk")) EXCEPT !.chunks = 2, !.persist = {S(20)}]

(* rdma_workload_dag: a partial result comes from a peer while this node   *)
(* computes its own; the merge also goes to the peer.                      *)
Gather ==
    OneShot(<< Nd("Prefetch", {}, {}, {IO(0)}),
               Nd("Recv", {}, {}, {S(13)}),
               Nd("Func", {1}, {IO(0)}, {S(12)}),
               Routing("Route", {2, 3}, << <<S(12), S(20)>>, <<S(13), S(20)>> >>),
               Nd("Func", {4}, {S(20)}, {IO(1)}),
               Nd("Send", {5}, {IO(1)}, {}),
               Nd("Output", {5}, {IO(1)}, {}) >>)

(* A received I/O slot with consumers in two waves; a receive and an input *)
(* that nobody consumes.                                                   *)
TwoConsumers ==
    OneShot(<< Nd("Recv", {}, {}, {IO(2)}),
               Nd("Recv", {}, {}, {S(13)}),
               Nd("Input", {}, {}, {IO(3)}),
               Nd("Func", {1}, {IO(2)}, {S(12)}),
               Nd("Persist", {4}, {S(12)}, {}),
               Nd("Func", {1, 4}, {IO(2), S(12)}, {IO(1)}),
               Nd("Output", {6}, {IO(1)}, {}) >>)

(* Two pipelines share a source that is sent to a peer as well; run twice. *)
Pipelines(slots) ==
    Reset(<< Nd("Input", {}, {}, {IO(0)}),
             Nd("Func", {1}, {IO(0)}, {S(10)}),
             Staged("Pipeline", {2}, << [in |-> {S(10)}, out |-> {S(20)}],
                                        [in |-> {S(20)}, out |-> {S(30)}],
                                        [in |-> {S(30)}, out |-> {S(40)}] >>, FALSE),
             Nd("Send", {2}, {S(10)}, {}),
             Nd("Pipeline", {3}, {S(10)}, {S(50)}),
             Nd("Persist", {5}, {S(40), S(50)}, {}),
             Frees({6}, slots) >>, 2)

(* demo_dag grouping in Reset mode: stages read by cursor.                 *)
Grouping ==
    Reset(<< Nd("Input", {}, {}, {IO(0)}),
             Staged("Group", {1}, << [in |-> {IO(0)}, out |-> {IO(2)}],
                                     [in |-> {IO(2)}, out |-> {IO(1)}] >>, TRUE),
             Nd("Output", {2}, {IO(1)}, {}),
             Frees({3}, {IO(0), IO(1), IO(2)}) >>, 2)

(* A shuffle, a bridge, and a pipeline on one of the shuffled slots.       *)
Shuffled ==
    OneShot(<< Nd("Func", {}, {}, {S(10)}),
               Nd("Func", {}, {}, {S(11)}),
               Routing("Route", {1, 2}, << <<S(10), S(20)>>, <<S(11), S(21)>> >>),
               Routing("Bridge", {3}, << <<S(20), S(12)>> >>),
               Nd("Pipeline", {3}, {S(21)}, {S(13)}),
               Nd("Func", {4, 5}, {S(12), S(13)}, {IO(1)}),
               Nd("Output", {6}, {IO(1)}, {}) >>)

(* A prefetch that nobody waits for.                                       *)
Orphan == OneShot(<< Nd("Prefetch", {}, {}, {IO(0)}), Nd("Func", {}, {}, {IO(1)}),
                     Nd("Output", {2}, {IO(1)}, {}) >>)

(* Dependency graphs with cycles and without: all on three nodes, all on   *)
(* four without self-loops, and those on three with every grouping.        *)
Idle(deps) == [n \in DOMAIN deps |-> Frees(deps[n], {})]
Graphs(N) == {deps \in [1..N -> SUBSET (1..N)] : \A n \in 1..N : n \notin deps[n]}
Ungrouped3And4 == {OneShot(Idle(deps)) : deps \in [1..3 -> SUBSET (1..3)] \union Graphs(4)}
Grouped3 == {[OneShot(Idle(deps)) EXCEPT !.group = group] :
                deps \in Graphs(3), group \in [1..3 -> {NoGroup, "a", "b", "c"}]}

AllDags == {WordCount, Chunked, Gather, TwoConsumers, Pipelines({S(20), S(40), S(50)}),
            Grouping, Shuffled, Orphan}
           \union Ungrouped3And4 \union Grouped3
InternalsLeft == {Pipelines({S(40), S(50)})}

AllSlots == {S(k) : k \in {10, 11, 12, 13, 20, 21, 30, 40, 50}} \union {IO(k) : k \in 0..3}
=============================================================================
