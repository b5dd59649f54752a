----------------------------- MODULE LiveHints -----------------------------
(***************************************************************************)
(* The placement hints of a submission to the coordinator: the scheduler   *)
(* advisor scores the last reported status of every node (advisor.rs), and *)
(* resolve_dag (coordinator.rs) maps the figures of the physical nodes to  *)
(* the dense logical machines that the Partitioner plans for.              *)
(*                                                                         *)
(* A status has cores, usage (percent, from /proc), rss, running, and scx: *)
(* a sequence of at most one [busy, imbal, migrations], the first two in   *)
(* percent.                                                                *)
(***************************************************************************)
EXTENDS PlacementPolicy

\* The largest of a figure over the cluster, at least 1.
Largest(figures) == Max({1} \cup figures)

MaxRss(view) == Largest({view[i].rss : i \in DOMAIN view})

MaxMigrations(view) ==
    Largest(UNION {{view[i].scx[k].migrations : k \in DOMAIN view[i].scx} : i \in DOMAIN view})

\* The 1.0 of scores and capacities.
One(view) == 10000 * MaxRss(view) * MaxMigrations(view)

\* score_nodes: the ADVISOR_W_* weights are 30, 20, 15, 10 and 25 percent.
Score(view, i) ==
    LET s   == view[i]
        rss == MaxRss(view)
        mig == MaxMigrations(view)
        scx == IF s.scx = <<>> THEN [busy |-> 0, imbal |-> 0, migrations |-> 0] ELSE s.scx[1]
    IN  rss * mig * (30 * scx.busy + 15 * scx.imbal + (IF s.running THEN 2500 ELSE 0))
          + 2000 * s.rss * mig + 1000 * scx.migrations * rss

\* cluster_capacity before it is normalised: idle share, at least 0.05.
Capacity(view) ==
    [i \in DOMAIN view |-> Max({One(view) - Score(view, i), One(view) \div 20})]

\* host_limits
CoreHeadroom(s) ==
    LET busy == IF s.scx = <<>> THEN s.usage ELSE s.scx[1].busy
    IN  Max({1, (s.cores * Max({0, 100 - busy})) \div 100})

\* resolve_dag: total is the requested number of machines, or None.
EffectiveNodes(total, live) ==
    Max({1, IF total = None THEN live ELSE Min({total, live})})

\* The hints for the first n live nodes (ids, ascending), or none at all: a
\* node without a status has no entry.  The shares are still those of the
\* whole view, whose sum is 1.0.
Clamped(view, ids, n) ==
    LET seen == {i \in Hosts(Min({n, Len(ids)})) : ids[i + 1] \in DOMAIN view}
        sees(i) == view[ids[i + 1]]
    IN  IF seen = {} THEN <<>>
        ELSE <<[cap    |-> [i \in seen |-> Capacity(view)[ids[i + 1]]],
                unit   |-> SumFunction(Capacity(view)),
                limit  |-> [i \in seen |-> CoreHeadroom(sees(i))],
                cores  |-> [i \in {j \in seen : sees(j).cores > 0} |-> sees(i).cores],
                random |-> FALSE]>>

=============================================================================
