-------------------------- MODULE PlacementPolicy --------------------------
(***************************************************************************)
(* Where the Partitioner puts the nodes of a symbolic DAG: the placement   *)
(* policies (policies.rs), the quota every host gets for automatically     *)
(* placed nodes and the greedy assignment (placer.rs), and the number of   *)
(* copies of a fan-out on every host (splitter.rs).                        *)
(*                                                                         *)
(* Shares that the code keeps as f64 fractions are integer weights here,   *)
(* h.unit standing for 1.0, so the arithmetic is exact.  h.cap, h.limit    *)
(* and h.cores are partial functions of the hosts, as the code's maps.     *)
(***************************************************************************)
EXTENDS SortedSets, SequencesExt, Functions, TLC

None == -1

\* PARTITIONER_FANOUT_CORES_RESERVED_PER_HOST
ReservedCores == 2

\* KEEP_WEIGHT: the weight of an edge that must not be cut.
Keep == 1000

Hosts(N) == 0 .. N - 1

\* Option::unwrap_or on a map lookup.
At(f, x, default) == IF x \in DOMAIN f THEN f[x] ELSE default

Uniform(N, v) == [i \in Hosts(N) |-> v]

Empty == [i \in {} |-> 0]

-----------------------------------------------------------------------------
(* policies.rs                                                             *)

\* lim = None when the policy sets no per-host limit.
HostLimit(N, lim) == IF lim = None THEN Empty ELSE Uniform(N, lim)

BalancedHints(N, lim) ==
    [cap |-> Uniform(N, 1), unit |-> N, limit |-> HostLimit(N, lim),
     cores |-> Empty, random |-> FALSE]

\* Host 0 gets 1/N + 0.05, the others share the rest: over 20 N (N - 1).
PackHints(N, lim) ==
    [cap |-> IF N = 1 THEN Uniform(1, 1)
             ELSE [i \in Hosts(N) |-> IF i = 0 THEN (N - 1) * (20 + N)
                                               ELSE 19 * N - 20],
     unit |-> IF N = 1 THEN 1 ELSE 20 * N * (N - 1),
     limit |-> HostLimit(N, lim), cores |-> Empty, random |-> FALSE]

SpreadHints(N, lim) ==
    [cap |-> Empty, unit |-> 1,
     limit |-> Uniform(N, IF lim = None THEN 1 ELSE lim),
     cores |-> Empty, random |-> FALSE]

RandomHints(N, lim) ==
    [cap |-> Empty, unit |-> 1, limit |-> HostLimit(N, lim),
     cores |-> Empty, random |-> TRUE]

\* weights is a sequence, possibly shorter or longer than the cluster.
WeightedHints(N, weights, lim) ==
    [cap |-> [i \in Hosts(N) |-> At(weights, i + 1, 0)],
     unit |-> Max({1, SumFunction(weights)}),
     limit |-> HostLimit(N, lim), cores |-> Empty, random |-> FALSE]

\* resolve_policy, and default_hints for a DAG that names no policy.
ResolvePolicy(policy, N) ==
    CASE policy.kind = "balanced" -> BalancedHints(N, policy.lim)
      [] policy.kind = "pack"     -> PackHints(N, policy.lim)
      [] policy.kind = "spread"   -> SpreadHints(N, policy.lim)
      [] policy.kind = "random"   -> RandomHints(N, policy.lim)
      [] policy.kind = "weighted" -> WeightedHints(N, policy.weights, policy.lim)
      [] policy.kind = "default"  -> PackHints(N, None)

-----------------------------------------------------------------------------
(* Largest-remainder division, and the fan-out of a node over the hosts.   *)

\* The hosts by key, the largest first; the sort is stable.
Ranked(key) ==
    SortSeq(Ascending(DOMAIN key),
            LAMBDA a, b : key[a] > key[b] \/ (key[a] = key[b] /\ a < b))

\* n divided over the hosts in proportion to w; the units that the rounding
\* down leaves over go to the largest remainders.
LargestRemainder(n, w) ==
    LET W     == SumFunction(w)
        floor == [i \in DOMAIN w |-> IF W = 0 THEN 0 ELSE (w[i] * n) \div W]
        rem   == [i \in DOMAIN w |-> IF W = 0 THEN 0 ELSE (w[i] * n) % W]
        left  == n - SumFunction(floor)
        rank  == Ranked(rem)
        len   == Len(rank)
        place == [i \in DOMAIN w |-> CHOOSE k \in 1 .. len : rank[k] = i]
    IN  [i \in DOMAIN w |-> floor[i] + (left \div len)
                              + (IF place[i] <= left % len THEN 1 ELSE 0)]

\* cap_fanout
CapFanout(n, N, h) ==
    LET known  == Hosts(N) \cap DOMAIN h.cores
        budget == SumFunction([m \in known |-> Max({1, h.cores[m] - ReservedCores})])
    IN  IF budget = 0 THEN n ELSE Min({n, budget})

\* apportion_fanout
ApportionFanout(n, N, h) ==
    LET caps == [m \in Hosts(N) |-> At(h.cap, m, 0)]
    IN  IF N <= 1 THEN Uniform(N, n)
        ELSE LargestRemainder(n, IF SumFunction(caps) = 0 THEN Uniform(N, 1) ELSE caps)

-----------------------------------------------------------------------------
(* placer.rs: quotas                                                       *)

\* The limit of one host for auto placed nodes; cap is max_colocation.
Limit(host, auto, h, cap) ==
    LET perHost == IF DOMAIN h.limit = {} THEN auto
                   ELSE Max({1, At(h.limit, host, 1)})
    IN  IF cap = None THEN perHost ELSE Min({perHost, cap})

\* max_by over the HashMap of capacities: any of the largest.
BestHosts(h) ==
    {i \in DOMAIN h.cap : \A j \in DOMAIN h.cap : h.cap[j] <= h.cap[i]}

\* A plausible slip: the top-up ignores the limits that caused the deficit.
TopUpUnlimited(quota, N, auto, h, cap) ==
    [quota EXCEPT ![0] = @ + (auto - SumFunction(quota))]

\* The deficit that the limits left, given to the hosts with headroom in the
\* order of their capacity (a host without one comes last).
TopUp(quota, N, auto, h, cap) ==
    LET add(acc, host) ==
          LET extra == Min({Limit(host, auto, h, cap) - acc.quota[host], acc.deficit})
          IN  [quota   |-> [acc.quota EXCEPT ![host] = @ + extra],
               deficit |-> acc.deficit - extra]
        byCap == Ranked([i \in Hosts(N) |-> At(h.cap, i, -1)])
    IN  FoldLeft(add, [quota |-> quota, deficit |-> auto - SumFunction(quota)], byCap).quota

\* compute_quotas; best is the element of BestHosts that max_by returned.
ComputeQuotas(N, auto, h, cap, best) ==
    LET lim(i) == Limit(i, auto, h, cap)
        base   == IF DOMAIN h.limit = {} THEN auto ELSE (auto + N - 1) \div N
        \* The hosts without a capacity count for half a uniform share.
        share  == [i \in Hosts(N) |-> IF i \in DOMAIN h.cap THEN 2 * N * h.cap[i] ELSE h.unit]
        exact  == LargestRemainder(auto, share)
    IN  IF DOMAIN h.cap = {}
          THEN [i \in Hosts(N) |-> Min({base, lim(i)})]
        ELSE IF auto <= lim(best) /\ h.cap[best] * N > h.unit
          THEN [i \in Hosts(N) |-> IF i = best THEN auto ELSE 0]
        ELSE TopUp([i \in Hosts(N) |-> Min({exact[i], lim(i)})], N, auto, h, cap)

-----------------------------------------------------------------------------
(* placer.rs: the greedy assignment.  A node is a record with at least id, *)
(* deps (a sequence of ids), host (None before placement) and weight (the  *)
(* pull of its output edges).                                              *)

Ids(nodes) == {nodes[i].id : i \in DOMAIN nodes}

IndexOf(nodes, id) == CHOOSE i \in DOMAIN nodes : nodes[i].id = id

Node(nodes, id) == nodes[IndexOf(nodes, id)]

Autos(nodes) == {i \in DOMAIN nodes : nodes[i].host = None}

\* topo_order: Kahn's algorithm with a FIFO queue, as a sequence of indexes.
\* A node that is never released (a cycle) comes last, in list order.
TopoOrder(nodes) ==
    LET n == Len(nodes)
        known == Ids(nodes)
        degree == [i \in 1 .. n |->
                     Cardinality({k \in DOMAIN nodes[i].deps : nodes[i].deps[k] \in known})]
        \* how many of its remaining dependencies node i loses when d is popped
        loses(i, d) == Cardinality({k \in DOMAIN nodes[i].deps : nodes[i].deps[k] = nodes[d].id})
        roots == SelectSeq([i \in 1 .. n |-> i], LAMBDA i : degree[i] = 0)
        pop(acc, step) ==
          IF step > Len(acc.queue) THEN acc
          ELSE LET d    == acc.queue[step]
                   deg  == [i \in 1 .. n |-> acc.deg[i] - loses(i, d)]
                   free == SelectSeq([i \in 1 .. n |-> i],
                                     LAMBDA i : deg[i] = 0 /\ acc.deg[i] > 0)
               IN  [queue |-> acc.queue \o free, deg |-> deg]
        order == FoldLeft(pop, [queue |-> roots, deg |-> degree], [i \in 1 .. n |-> i]).queue
    IN  order \o SelectSeq([i \in 1 .. n |-> i], LAMBDA i : i \notin Range(order))

\* The data weight of the direct dependencies of node n that are on host m.
Affinity(nodes, n, m) ==
    LET local == {k \in DOMAIN n.deps :
                    n.deps[k] \in Ids(nodes) /\ Node(nodes, n.deps[k]).host = m}
    IN  SumFunction([k \in local |-> Node(nodes, n.deps[k]).weight])

\* The host of node n: the most affinity, then the largest quota, then the
\* last; host 0 when no host has quota left.
PickHost(nodes, n, quota) ==
    LET open == {m \in DOMAIN quota : quota[m] > 0}
        aff  == [m \in open |-> Affinity(nodes, n, m)]
        better(a, b) == \/ aff[a] > aff[b]
                        \/ aff[a] = aff[b] /\ quota[a] > quota[b]
                        \/ aff[a] = aff[b] /\ quota[a] = quota[b] /\ a > b
    IN  IF open = {} THEN 0
        ELSE CHOOSE m \in open : \A o \in open \ {m} : better(m, o)

\* assign_nodes without the random policy.
AssignNodes(nodes, N, h, cap, best) ==
    LET place(acc, i) ==
          IF acc.nodes[i].host # None THEN acc
          ELSE LET m == PickHost(acc.nodes, acc.nodes[i], acc.quota)
               IN  [nodes |-> [acc.nodes EXCEPT ![i].host = m],
                    quota |-> [acc.quota EXCEPT ![m] = Max({0, @ - 1})]]
        quota == ComputeQuotas(N, Cardinality(Autos(nodes)), h, cap, best)
    IN  FoldLeft(place, [nodes |-> nodes, quota |-> quota], TopoOrder(nodes)).nodes

=============================================================================
