-------------------------- MODULE MCStreamPipeline --------------------------
(***************************************************************************)
(* Two nodes.  Each scene is a small deployment of one or two pipelines.   *)
(***************************************************************************)
EXTENDS StreamPipeline

S(kind, in, to, width, max) ==
    [kind |-> kind, in |-> in, out |-> to, width |-> width, max |-> max]

Pipe(node, py, stages, rounds, recv, send, free) ==
    [node |-> node, peer |-> 1 - node, py |-> py, stages |-> stages, rounds |-> rounds,
     recv |-> recv, send |-> send, free |-> free]

Output(node, rounds, paths) ==
    [node |-> node, peer |-> 1 - node, slot |-> 9, rounds |-> rounds, paths |-> paths]

Scene(pipes, output, batch) ==
    [pipes |-> pipes, out |-> output, batch |-> batch, mr1 |-> [n \in Nodes |-> 60],
     clean |-> TRUE, fault |-> "none",
     remote |-> [from |-> <<0, 10>>, to |-> <<1, 11>>, recs |-> <<>>]]

Source == S("source", 1, 0, 1, 0)

\* source > transform scaled between one and two workers > sink, on one node.
Local(py, width, max, batch) ==
    Scene([p \in {"A"} |-> Pipe(0, py, <<Source, S("transform", 1, 2, width, max), S("sink", 2, 3, 1, 0)>>,
                                Len(batch), 0, 0, FALSE)],
          Output(0, 0, 1), batch)

\* Node 0 sends the source's rounds to node 1, whose results come back to files.
Ring(py, batch, paths) ==
    Scene([p \in {"A", "B"} |->
              IF p = "A" THEN Pipe(0, py, <<Source, S("filter", 1, 0, 1, 0)>>, Len(batch), 0, 4, TRUE)
              ELSE Pipe(1, FALSE, <<S("transform", 6, 0, 2, 0)>>, Len(batch), 6, 7, TRUE)],
          Output(0, Len(batch), paths), batch)

\* One pipeline whose output slot accumulates, sent to the other node's files.
Cumulative(py, batch) ==
    Scene([p \in {"A"} |-> Pipe(0, py, <<Source, S("transform", 1, 4, 1, 0)>>,
                                Len(batch), 0, 4, FALSE)],
          Output(1, Len(batch), Len(batch)), batch)

Tight(scene, bytes) == [scene EXCEPT !.mr1 = [n \in Nodes |-> bytes], !.clean = FALSE]
Faulty(scene, fault) == [scene EXCEPT !.fault = fault]
Beside(scene) == [scene EXCEPT !.remote.recs = <<5, 6>>]

TooWide == [Local(FALSE, 3, 0, <<1>>) EXCEPT !.clean = FALSE]

MCScenes ==
    {Local(FALSE, 1, 2, <<1, 3, 1>>), Local(TRUE, 1, 0, <<2, 1>>), TooWide,
     Ring(FALSE, <<1, 0, 3>>, 2), Ring(TRUE, <<2, 1>>, 2),
     Tight(Ring(FALSE, <<1, 1>>, 2), 0), Tight(Cumulative(FALSE, <<1, 1>>), 5),
     Cumulative(FALSE, <<1, 2>>), Tight(Cumulative(TRUE, <<2, 1>>), 0),
     Tight(Cumulative(FALSE, <<2, 3>>), 1),
     Beside(Cumulative(FALSE, <<1, 1>>)),
     Faulty(Ring(FALSE, <<1, 1>>, 1), "worker"), Faulty(Ring(FALSE, <<1, 1>>, 2), "kill"),
     Faulty(Local(TRUE, 1, 0, <<1, 1>>), "worker"),
     Faulty(Beside(Cumulative(FALSE, <<1>>)), "kill")}

MCSlots == 1..23

MCThreads ==
    {<<p, r>> : p \in {"A", "B", "remote"}, r \in {"send", "recv"}} \cup {<<"out", "recv">>}
=============================================================================
