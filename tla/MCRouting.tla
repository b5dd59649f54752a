----------------------------- MODULE MCRouting -----------------------------
(***************************************************************************)
(* Instances of Routing for TLC.  With a threshold of two, two upstreams   *)
(* are merged one after the other and three to five as a tree; five leave  *)
(* an odd slot over at two levels.                                         *)
(***************************************************************************)
EXTENDS Routing

TwoDown == <<7, 8>>

Up(n) == [k \in 1..n |-> k - 1]
NoTable == <<>>
Node(k, n, p) == [kind |-> k, upstream |-> Up(n), table |-> NoTable, pages |-> p]

(* Short lists with up to two pages in every slot.                         *)
Short == {Node(k, 2, 2) : k \in {"Bridge", "Aggregate", "Broadcast", "Modulo", "RoundRobin"}}

(* Long lists: one tree, or two merges that run at the same time, for a    *)
(* shuffle of five a tree of three and a merge of two.                     *)
Long == {Node(k, 5, 1) : k \in {"Aggregate", "Modulo", "RoundRobin"}}

(* Lookup tables, the ones that leave a downstream without an upstream     *)
(* included.                                                               *)
Tables == {[Node("FixedMap", 3, 1) EXCEPT !.table = t] : t \in [0..2 -> 0..1]}

AllNodes == Short \union Long \union Tables

(* A broadcast of more upstreams than the threshold.                       *)
WideBroadcast == {Node("Broadcast", 3, 1)}
=============================================================================
