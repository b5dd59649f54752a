---------------------------- MODULE MCClusterJob ----------------------------
(***************************************************************************)
(* Jobs for ClusterJob: the shapes of the repository's example DAGs (word  *)
(* count, FINRA rules, converging chains, split pipelines), small files,   *)
(* and cluster views with idle, busy, unseen and uneven nodes.             *)
(***************************************************************************)
EXTENDS ClusterJob

On(n, host) == [n EXCEPT !.host = host]

Everywhere(n) == [n EXCEPT !.all = TRUE]

Func(id, deps) == Sym(<<id>>, "Func", deps)

Agg(id, deps) == Sym(<<id>>, "Aggregate", deps)

Input(path) == [Everywhere(Sym(<<"load">>, "Input", <<>>)) EXCEPT !.path = path]

Save(dep) == Sym(<<"save">>, "Output", <<dep>>)

\* load -> distribute -> map (fan-out) -> aggregate on every machine, then a
\* global aggregate, reduce and save.
WordCount(fan) ==
    << Input("corpus"),
       [Everywhere(Func("distribute", <<<<"load">>>>)) EXCEPT !.base = 2],
       [Everywhere(Func("map", <<<<"distribute">>>>)) EXCEPT !.fanout = fan, !.offset = 10],
       Everywhere(Agg("agg", <<<<"map">>>>)),
       Agg("global", <<<<"agg">>>>),
       Func("reduce", <<<<"global">>>>),
       Save(<<"reduce">>) >>

\* Every machine loads the whole file; two rules run on machine 0 and one on
\* machine 1, and every machine aggregates its own.
Rule(id, host, slot) ==
    [On(Func(id, <<<<"load">>>>), host) EXCEPT !.arg = 0, !.arg2 = slot]

Finra ==
    << [Input("trades") EXCEPT !.whole = TRUE],
       Rule("ra", 0, 20), Rule("rb", 0, 21), Rule("rc", 1, 20),
       On(Agg("l0", <<<<"ra">>, <<"rb">>>>), 0), On(Agg("l1", <<<<"rc">>>>), 1),
       Agg("global", <<<<"l0">>, <<"l1">>>>),
       Func("reduce", <<<<"global">>>>),
       Save(<<"reduce">>) >>

\* A detour from machine 0 that is aggregated wherever the policy says.
Detour ==
    << On([Sym(<<"load">>, "Input", <<>>) EXCEPT !.path = "corpus"], 0),
       Rule("p", 0, 20), Rule("q", 0, 21),
       Agg("a", <<<<"p">>>>),
       On(Agg("c", <<<<"q">>>>), 0),
       On(Agg("global", <<<<"a">>, <<"c">>>>), 0),
       On(Func("reduce", <<<<"global">>>>), 0),
       On(Save(<<"reduce">>), 1) >>

\* Machine 1, whose window of a one-line file is empty, is to receive p.
LostPeer == << Input("corpus"), Rule("p", 0, 20), On(Agg("a", <<<<"p">>>>), 1) >>

\* Two chains that cross the same two machines in the opposite order.
Crossing ==
    << On([Sym(<<"load">>, "Input", <<>>) EXCEPT !.path = "corpus"], 1),
       Rule("a", 1, 20), On(Agg("b", <<<<"a">>>>), 0), On(Agg("c", <<<<"b">>>>), 1),
       Rule("d", 1, 21), On(Agg("e", <<<<"d">>>>), 0), On(Agg("f", <<<<"e">>>>), 1) >>

Stages(costs) == [k \in DOMAIN costs |-> [in |-> 9 + k, out |-> 10 + k, cost |-> costs[k]]]

Pipe(costs, segments, cut) ==
    [Sym(<<"pipe">>, "StreamPipeline", <<>>) EXCEPT
       !.host = 0, !.stages = Stages(costs), !.segments = segments, !.cut = cut]

Piped(costs, segments, cut, paths) ==
    << Pipe(costs, segments, cut), [Save(<<"pipe">>) EXCEPT !.paths = paths] >>

\* Two fan-outs that state the same base slot, on the same machine.
TwoFans ==
    << Input("corpus"),
       [Everywhere(Func("da", <<<<"load">>>>)) EXCEPT !.base = 2],
       [Everywhere(Func("db", <<<<"load">>>>)) EXCEPT !.base = 2],
       [Everywhere(Func("ma", <<<<"da">>>>)) EXCEPT !.fanout = 4, !.offset = 10],
       [Everywhere(Func("mb", <<<<"db">>>>)) EXCEPT !.fanout = 2, !.offset = 10],
       Everywhere(Agg("agg", <<<<"ma">>, <<"mb">>>>)) >>

\* n unplaced aggregates in a chain with one side branch.
Autos1(n) ==
    << Input("corpus"), Rule("r", 0, 20) >>
      \o [k \in 1 .. n |-> Sym(<<"x", k>>, "Aggregate", IF k = 1 THEN <<<<"r">>>> ELSE <<<<"x", k - 1>>>>)]

\* DAGs the Partitioner refuses.
InputCrosses == << On([Sym(<<"load">>, "Input", <<>>) EXCEPT !.path = "corpus"], 0), On(Agg("a", <<<<"load">>>>), 1) >>
NoSlotCrosses == << On(Agg("s", <<>>), 0), On(Save(<<"s">>), 0), On(Agg("a", <<<<"save">>>>), 1) >>
UnknownDep == << On(Agg("a", <<<<"nowhere">>>>), 0) >>
OutOfCluster == << On(Agg("a", <<>>), 7) >>
NoInput == << On(Func("f", <<>>), 0) >>
TooManyCuts == Piped(<<1, 1, 1, 1>>, None, {1, 2, 3}, 1)
CutAtEnd == Piped(<<1, 1>>, None, {2}, 1)
NoPaths == Piped(<<1, 1>>, 2, {}, 0)

-----------------------------------------------------------------------------

Nobody == [i \in {} |-> 0]

Status(cores, usage, rss, running, scx) ==
    [cores |-> cores, usage |-> usage, rss |-> rss, running |-> running, scx |-> scx]

Quiet == Status(4, 0, 0, FALSE, <<>>)

Busy == Status(4, 50, 2, TRUE, <<[busy |-> 75, imbal |-> 20, migrations |-> 3]>>)

Full == Status(8, 100, 4, TRUE, <<[busy |-> 100, imbal |-> 100, migrations |-> 4]>>)

Coreless == Status(0, 10, 1, FALSE, <<>>)

\* No status has been reported.
Unseen == Status(None, 0, 0, FALSE, <<>>)

Base ==
    [nodes |-> <<>>, total |-> None, ids |-> <<0, 1>>, view |-> Nobody,
     policy |-> <<>>, raw |-> <<>>, converge |-> TRUE, maxColocation |-> None,
     file |-> <<"c", "n", "c">>, times |-> 1, run |-> FALSE]

Policy(kind, lim, weights) == [kind |-> kind, lim |-> lim, weights |-> weights]

Runs1(nodes1, ids, file) == [Base EXCEPT !.nodes = nodes1, !.ids = ids, !.file = file, !.run = TRUE]

ThreeLines == <<"c", "n", "c", "n", "c">>

BlankTail == <<"c", "c", "c", "n", "n">>

\* Planned and run.
RunJobs ==
    { Runs1(WordCount(2), <<0>>, ThreeLines),
      Runs1(WordCount(4), <<0, 1>>, ThreeLines),
      Runs1(WordCount(2), <<0, 1>>, BlankTail),
      [Runs1(WordCount(3), <<0, 2, 5>>, <<"c", "n", "c", "n", "c", "n", "c">>) EXCEPT
         !.policy = <<Policy("balanced", None, <<>>)>>],
      [Runs1(WordCount(4), <<0, 2>>, ThreeLines) EXCEPT !.view = (0 :> Quiet) @@ (2 :> Busy)],
      [Runs1(WordCount(2), <<0, 2>>, ThreeLines) EXCEPT !.view = (0 :> Quiet) @@ (2 :> Full)],
      [Runs1(WordCount(2), <<0, 1>>, ThreeLines) EXCEPT !.policy = <<Policy("weighted", None, <<0, 3>>)>>],
      Runs1(LostPeer, <<0, 1>>, <<"c", "c">>),
      [Runs1(Finra, <<0, 1>>, ThreeLines) EXCEPT !.times = 3],
      [Runs1(Detour, <<0, 1>>, <<"c", "n", "c">>) EXCEPT
         !.policy = <<Policy("random", None, <<>>)>>, !.converge = FALSE, !.times = 2] }

Files == UNION {[1 .. n -> {"c", "n"}] : n \in 1 .. 5}

\* The windows of every short file, over shares that differ.
FileJobs ==
    {[Base EXCEPT !.nodes = WordCount(4), !.ids = <<0, 1, 2>>, !.file = f, !.policy = <<p>>] :
       f \in Files, p \in {Policy("balanced", None, <<>>), Policy("weighted", None, <<1, 3>>)}}

Seen(v) == [i \in {j \in DOMAIN v : v[j] # Unseen} |-> v[i]]

\* The placement of unplaced nodes over views, totals and limits.
PlaceJobs ==
    {[Base EXCEPT !.nodes = Autos1(5), !.ids = <<0, 1, 2>>, !.view = Seen(v),
                  !.total = total, !.maxColocation = cap] :
       v \in [0 .. 2 -> {Quiet, Busy, Coreless, Unseen}], total \in {None, 2}, cap \in {None, 2}}
    \cup
    {[Base EXCEPT !.nodes = Autos1(5), !.ids = <<0, 1, 2>>, !.policy = <<Policy(kind, lim, <<0, 3>>)>>,
                  !.maxColocation = cap] :
       kind \in {"balanced", "pack", "spread", "weighted", "default"},
       lim \in {None, 1, 2}, cap \in {None, 2}}
    \cup
    {[Base EXCEPT !.nodes = Autos1(5), !.ids = <<0, 1, 2>>,
                  !.raw = <<[cap |-> (1 :> share), unit |-> 4, limit |-> (0 :> 3) @@ (1 :> 2),
                             cores |-> (0 :> 3), random |-> FALSE]>>] : share \in {1, 3}}

PlanJobs ==
    {[Base EXCEPT !.nodes = d, !.ids = ids] :
       d \in { Crossing, TwoFans, InputCrosses, NoSlotCrosses, UnknownDep, OutOfCluster, NoInput,
               CutAtEnd, NoPaths, TooManyCuts,
               Piped(<<5, 1, Keep, 2>>, 3, {}, 2), Piped(<<5, 1, 3, 2>>, 3, {}, 2),
               Piped(<<1, 1, 1>>, None, {1}, 1), Piped(<<1, 1, 1>>, 2, {2}, 1) },
       ids \in {<<0, 1>>, <<0, 1, 3>>}}

MCJobs == RunJobs \cup FileJobs \cup PlaceJobs \cup PlanJobs

=============================================================================
