------------------------------ MODULE Routing ------------------------------
(***************************************************************************)
(* Zero-copy routing on the host: StreamBridge (1 to 1), Aggregate (N to   *)
(* 1), Shuffle (N to M, one downstream per upstream) and Broadcast (N to   *)
(* M, every upstream to every downstream).                                 *)
(*                                                                         *)
(* A stream slot is a chain of pages linked by next, with its first and    *)
(* its last page in head and tail.  chain_onto appends the chain of one    *)
(* slot to another by one link and a new tail.  merge_into does that for a *)
(* list of upstreams: one after the other up to Threshold of them, and     *)
(* beyond that as a tree whose levels are threads that run concurrently.   *)
(* After the wave the runner forgets the upstream slots (head and tail     *)
(* become zero): their pages belong to the downstream chains.              *)
(***************************************************************************)
EXTENDS Naturals, Sequences, FiniteSets, SortedSets

CONSTANTS
    Nodes,       \* the routing nodes that are explored: kind, upstream slots
                 \* (a sequence), the lookup table of FixedMap, and a bound on
                 \* the pages a slot holds before the routing
    Downstream,  \* their downstream slots, a sequence
    Threshold,   \* PARALLEL_THRESHOLD
    Null

(* A bridge has an upstream, the slots of a node are different slots, and  *)
(* Null is no page.                                                        *)
ASSUME RoutingAssumption ==
    /\ Downstream \in Seq(Nat) /\ Downstream # <<>> /\ IsInjective(Downstream)
    /\ \A n \in Nodes :
         /\ n.kind \in {"Bridge", "Aggregate", "Broadcast", "Modulo", "RoundRobin", "FixedMap"}
         /\ n.upstream \in Seq(Nat) /\ IsInjective(n.upstream)
         /\ n.kind = "Bridge" => n.upstream # <<>>
         /\ Range(n.upstream) \intersect Range(Downstream) = {}
         /\ n.pages \in Nat
         /\ Null \notin (Range(n.upstream) \union Range(Downstream)) \X (1..n.pages)
    /\ Threshold \in Nat

VARIABLES
    node,        \* the routing node that runs
    next,        \* Page::next_offset
    head, tail,  \* writer_heads, writer_tails
    before,      \* history: the pages of every slot before the routing
    waiting,     \* the merges (indices of Downstream) not yet started
    merge,       \* the merges under way: the slots left, and whether as a tree
    threads,     \* chain_onto calls under way
    stage        \* "route", "clear" (the wave is over) or "done"

vars == <<node, next, head, tail, before, waiting, merge, threads, stage>>

kind == node.kind
Upstream == node.upstream
Slots == Range(Upstream) \union Range(Downstream)
Pages == Slots \X (1..node.pages)
Targets == DOMAIN Downstream

(* The policies: the index, from 0, of the downstream of the k-th upstream. *)
Modulo(k) == Upstream[k] % Len(Downstream)
RoundRobin(k) == (k - 1) % Len(Downstream)
FixedMap(k) == node.table[Upstream[k]]

Partition(k) ==
    CASE kind = "Modulo" -> Modulo(k)
      [] kind = "RoundRobin" -> RoundRobin(k)
      [] kind = "FixedMap" -> FixedMap(k)

(* The upstreams merged into the i-th downstream, in order.                *)
Group(i) ==
    CASE kind \in {"Broadcast", "Aggregate"} -> Upstream
      [] kind = "Bridge" -> <<Upstream[1]>>
      [] OTHER -> LET routed == Ascending({k \in DOMAIN Upstream : Partition(k) = i - 1})
                  IN  [j \in DOMAIN routed |-> Upstream[routed[j]]]

(* The merges of the node.  Aggregate has one downstream; a shuffle skips  *)
(* the downstreams that no upstream is routed to.                          *)
Merges ==
    IF kind \in {"Aggregate", "Bridge"} THEN {1}
    ELSE {i \in Targets : Group(i) # <<>>}

(* Every slot holds a chain of its own of up to node.pages pages.          *)
Init ==
    /\ node \in Nodes
    /\ \E len \in [Slots -> 0..node.pages] :
         /\ next = [p \in Pages |-> IF p[2] < len[p[1]] THEN <<p[1], p[2] + 1>> ELSE Null]
         /\ head = [s \in Slots |-> IF len[s] = 0 THEN Null ELSE <<s, 1>>]
         /\ tail = [s \in Slots |-> IF len[s] = 0 THEN Null ELSE <<s, len[s]>>]
         /\ before = [s \in Slots |-> [j \in 1..len[s] |-> <<s, j>>]]
    /\ waiting = Merges
    /\ merge = <<>>
    /\ threads = {}
    /\ stage = "route"

(***************************************************************************)
(* chain_onto(dst, src), one step per access to shared memory              *)
(***************************************************************************)

Thread(i, dst, src) == [of |-> i, dst |-> dst, src |-> src, at |-> "source",
                        srcHead |-> Null, srcTail |-> Null, dstTail |-> Null]

Becomes(t, u) == threads' = (threads \ {t}) \union {u}

(* An empty source ends the call.                                          *)
LoadSource(t) ==
    /\ t.at = "source"
    /\ IF head[t.src] = Null
       THEN threads' = threads \ {t}
       ELSE Becomes(t, [t EXCEPT !.at = "dest", !.srcHead = head[t.src],
                                 !.srcTail = tail[t.src]])
    /\ UNCHANGED <<node, next, head, tail, before, waiting, merge, stage>>

LoadDest(t) ==
    /\ t.at = "dest"
    /\ Becomes(t, [t EXCEPT !.at = "link", !.dstTail = tail[t.dst]])
    /\ UNCHANGED <<node, next, head, tail, before, waiting, merge, stage>>

Link(t) ==
    /\ t.at = "link"
    /\ IF t.dstTail = Null
       THEN head' = [head EXCEPT ![t.dst] = t.srcHead] /\ UNCHANGED next
       ELSE next' = [next EXCEPT ![t.dstTail] = t.srcHead] /\ UNCHANGED head
    /\ Becomes(t, [t EXCEPT !.at = "tail"])
    /\ UNCHANGED <<node, tail, before, waiting, merge, stage>>

(* A mutant: only the first chain linked to a slot sets its tail.          *)
StoreTailOnce(t) ==
    /\ t.at = "tail"
    /\ tail' = [tail EXCEPT ![t.dst] = IF @ = Null THEN t.srcTail ELSE @]
    /\ threads' = threads \ {t}
    /\ UNCHANGED <<node, next, head, before, waiting, merge, stage>>

StoreTail(t) ==
    /\ t.at = "tail"
    /\ tail' = [tail EXCEPT ![t.dst] = t.srcTail]
    /\ threads' = threads \ {t}
    /\ UNCHANGED <<node, next, head, before, waiting, merge, stage>>

(***************************************************************************)
(* merge_into(upstream_ids, dst)                                           *)
(***************************************************************************)

Start(i) ==
    /\ stage = "route" /\ kind # "Bridge" /\ i \in waiting
    /\ waiting' = waiting \ {i}
    /\ merge' = [j \in DOMAIN merge \union {i} |->
                   IF j = i THEN [left |-> Group(i), tree |-> Len(Group(i)) > Threshold]
                   ELSE merge[j]]
    /\ UNCHANGED <<node, next, head, tail, before, threads, stage>>

(* A mutant: the merges of a broadcast run concurrently, like a shuffle's. *)
StartMergeConcurrently(i) == Start(i)

(* Broadcast merges into its downstreams one after the other; a shuffle    *)
(* has a thread for each.                                                  *)
StartMerge(i) ==
    /\ kind = "Broadcast" => DOMAIN merge = {} /\ \A j \in waiting : i <= j
    /\ Start(i)

EveryOther(s) == [j \in 1..((Len(s) + 1) \div 2) |-> s[2 * j - 1]]

(* The calls of merge i have returned: the scope of its threads is left.   *)
Joined(i) == \A t \in threads : t.of # i

(* One round of merge i: a level of the tree pairs neighbours and keeps    *)
(* the first of each pair; the last round of a tree, and every round of a  *)
(* sequential merge, calls chain_onto for the downstream itself.           *)
Round(i) ==
    /\ i \in DOMAIN merge
    /\ LET left == merge[i].left IN
       /\ left # <<>>
       /\ IF merge[i].tree /\ Len(left) > 1
          THEN /\ threads' = threads \union
                               {Thread(i, left[2 * j - 1], left[2 * j]) : j \in 1..(Len(left) \div 2)}
               /\ merge' = [merge EXCEPT ![i].left = EveryOther(left)]
          ELSE /\ threads' = threads \union {Thread(i, Downstream[i], Head(left))}
               /\ merge' = [merge EXCEPT ![i].left = Tail(left)]
    /\ UNCHANGED <<node, next, head, tail, before, waiting, stage>>

(* A mutant: the levels of the tree do not wait for one another.           *)
NextRoundAtOnce(i) == Round(i) /\ (merge[i].tree \/ Joined(i))

NextRound(i) == Round(i) /\ Joined(i)

Leave(i) ==
    /\ i \in DOMAIN merge /\ merge[i].left = <<>>
    /\ merge' = [j \in DOMAIN merge \ {i} |-> merge[j]]
    /\ UNCHANGED <<node, next, head, tail, before, waiting, threads, stage>>

(* A mutant: the merge returns without its last call.                      *)
EndMergeEarly(i) == Leave(i)

EndMerge(i) == Leave(i) /\ Joined(i)

(***************************************************************************)
(* StreamBridge::bridge, and the end of the node and of its wave           *)
(***************************************************************************)

(* The downstream takes over the upstream's head and tail; an empty        *)
(* upstream leaves it as it was.                                           *)
Bridge ==
    /\ stage = "route" /\ kind = "Bridge" /\ waiting # {}
    /\ waiting' = {}
    /\ LET from == Upstream[1]  to == Downstream[1] IN
         IF head[from] = Null THEN UNCHANGED <<head, tail>>
         ELSE /\ head' = [head EXCEPT ![to] = head[from]]
              /\ tail' = [tail EXCEPT ![to] = tail[from]]
    /\ UNCHANGED <<node, next, before, merge, threads, stage>>

Return ==
    /\ stage = "route" /\ waiting = {} /\ DOMAIN merge = {}
    /\ stage' = "clear"
    /\ UNCHANGED <<node, next, head, tail, before, waiting, merge, threads>>

(* node_routed_upstream_slots: Bridge has one upstream, the others list    *)
(* all of theirs.                                                          *)
RoutedUpstream == IF kind = "Bridge" THEN {Upstream[1]} ELSE Range(Upstream)

(* A mutant: the upstream slots keep their heads and tails.                *)
ClearUpstreamNever ==
    /\ stage = "clear"
    /\ stage' = "done"
    /\ UNCHANGED <<node, next, head, tail, before, waiting, merge, threads>>

(* After the wave the runner clears the upstream slots.                    *)
ClearUpstream ==
    /\ stage = "clear"
    /\ head' = [s \in Slots |-> IF s \in RoutedUpstream THEN Null ELSE head[s]]
    /\ tail' = [s \in Slots |-> IF s \in RoutedUpstream THEN Null ELSE tail[s]]
    /\ stage' = "done"
    /\ UNCHANGED <<node, next, before, waiting, merge, threads>>

Finished == stage = "done" /\ UNCHANGED vars

Next ==
    \/ \E t \in threads : LoadSource(t) \/ LoadDest(t) \/ Link(t) \/ StoreTail(t)
    \/ \E i \in Targets : StartMerge(i) \/ NextRound(i) \/ EndMerge(i)
    \/ Bridge \/ Return \/ ClearUpstream
    \/ Finished

Spec == Init /\ [][Next]_vars

(***************************************************************************)
(* Properties                                                              *)
(***************************************************************************)

(* The pages a reader of slot s walks, from its head along next: they are  *)
(* in every set that has the head and what follows its members.            *)
Chain(s) ==
    LET walks == {S \in SUBSET Pages : \A p \in {head[s]} \union {next[q] : q \in S} :
                                          p = Null \/ p \in S}
    IN  {p \in Pages : \A S \in walks : p \in S}

(* The slots whose pages the i-th downstream should hold, in order: its    *)
(* own and those of the upstreams routed to it.  A bridge replaces what it *)
(* had, unless the upstream is empty.                                      *)
Sources(i) ==
    IF kind # "Bridge" THEN <<Downstream[i]>> \o Group(i)
    ELSE IF before[Upstream[1]] = <<>> THEN <<Downstream[i]>> ELSE <<Upstream[1]>>

(* The page after the ones of the k-th source: the first page of the next  *)
(* source that has any.                                                    *)
Following(i, k) ==
    LET more == {m \in DOMAIN Sources(i) : m > k /\ before[Sources(i)[m]] # <<>>}
    IN  IF more = {} THEN Null ELSE before[Sources(i)[Min(more)]][1]

(* Routing moves every chain, whole and in order: when the wave is over a  *)
(* walk of a downstream slot meets its old pages and then the pages of its *)
(* upstreams in the order they are listed, and ends.  This holds for       *)
(* chain_onto one after the other, for the concurrent levels of the tree   *)
(* merge and for concurrent merges of a shuffle (merge_into, bridge).      *)
Delivered ==
    stage = "done" =>
        \A i \in Merges :
            /\ head[Downstream[i]] = Following(i, 0)
            /\ \A k \in DOMAIN Sources(i) :
                 LET pages == before[Sources(i)[k]]
                 IN  \A j \in DOMAIN pages :
                        next[pages[j]] = IF j < Len(pages) THEN pages[j + 1] ELSE Following(i, k)

(* The metadata-only clear is right: no page gets lost and none gets two   *)
(* owners.  After Aggregate and Shuffle every page that was in a chain is  *)
(* in exactly one, so that freeing that slot frees it once                 *)
(* (node_routed_upstream_slots, node_owned_slots).  And the tail of a slot *)
(* is the end of its chain, so that the next append finds it (chain_onto   *)
(* does not walk).  Excepted are a downstream that is being merged into    *)
(* and, until it is cleared, an upstream, whose chain goes on into the     *)
(* pages of others.                                                        *)
PagesKept ==
    /\ stage = "done" /\ kind \notin {"Broadcast", "Bridge"} =>
         \A s \in Slots : \A p \in Range(before[s]) :
             \E d \in Slots : {e \in Slots : p \in Chain(e)} = {d}
    /\ \A s \in Slots :
         /\ \A i \in DOMAIN merge : Downstream[i] # s
         /\ s \in Range(Downstream) \/ stage = "done"
         => \/ head[s] = Null /\ tail[s] = Null
            \/ tail[s] \in Chain(s) /\ next[tail[s]] = Null

(* What the comment in merge_into says makes the threads of one level      *)
(* safe: two concurrent chain_onto calls share no slot and, where they     *)
(* link pages, no page; and no call outlives the merge it belongs to.      *)
CallsDisjoint ==
    /\ \A t \in threads : t.of \in DOMAIN merge
    /\ \A t, u \in threads :
         t # u => /\ {t.dst, t.src} \cap {u.dst, u.src} = {}
                  /\ t.at = "link" /\ u.at = "link" /\ t.dstTail # Null => t.dstTail # u.dstTail
=============================================================================
