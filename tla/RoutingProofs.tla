--------------------------- MODULE RoutingProofs ---------------------------
(***************************************************************************)
(* Routing delivers for every number of upstreams, downstreams and pages   *)
(* and for every threshold, in every interleaving of the chain_onto calls; *)
(* a broadcast provided it has no more upstreams than the threshold.       *)
(*                                                                         *)
(* The sources of a downstream (its own pages, then its upstreams in       *)
(* order) are cut into segments.  A slot that still has to be merged opens *)
(* a segment: it holds the pages of all the sources up to the next open    *)
(* one.  A chain_onto call joins a segment to the one before it.           *)
(***************************************************************************)
EXTENDS Routing, TLAPS

(* A broadcast is merged one slot after the other.                         *)
Narrow == \A n \in Nodes : n.kind = "Broadcast" => Len(n.upstream) <= Threshold

(* The slots hold the pages B.                                             *)
Empty(B, s) == B[s] = <<>>
FirstPage(s) == <<s, 1>>
LastPage(B, s) == <<s, Len(B[s])>>

(***************************************************************************)
(* Segments of a list L of sources, O the slots of L that are open         *)
(***************************************************************************)

(* No slot after the a-th up to the k-th is open.                          *)
InSegment(L, O, a, k) == a <= k /\ \A m \in DOMAIN L : a < m /\ m <= k => L[m] \notin O

Opens(L, O, a) == a = 1 \/ L[a] \in O

AllEmpty(B, L, O, a) == \A k \in DOMAIN L : InSegment(L, O, a, k) => Empty(B, L[k])

(* h is the first page of the segment the a-th source opens.               *)
IsHead(B, L, O, a, h) ==
    \/ h = Null /\ AllEmpty(B, L, O, a)
    \/ \E k \in DOMAIN L :
         /\ InSegment(L, O, a, k) /\ ~Empty(B, L[k]) /\ h = FirstPage(L[k])
         /\ \A m \in DOMAIN L : a <= m /\ m < k => Empty(B, L[m])

(* e is the last page of that segment.                                     *)
IsTail(B, L, O, a, e) ==
    \/ e = Null /\ AllEmpty(B, L, O, a)
    \/ \E k \in DOMAIN L :
         /\ InSegment(L, O, a, k) /\ ~Empty(B, L[k]) /\ e = LastPage(B, L[k])
         /\ \A m \in DOMAIN L : InSegment(L, O, a, m) /\ k < m => Empty(B, L[m])

(* The m-th source is the next one after the k-th that has pages.          *)
Neighbours(B, L, k, m) ==
    /\ k < m /\ ~Empty(B, L[k]) /\ ~Empty(B, L[m])
    /\ \A j \in DOMAIN L : k < j /\ j < m => Empty(B, L[j])

(* The k-th source is the last one that has pages.                         *)
Final(B, L, k) == ~Empty(B, L[k]) /\ \A m \in DOMAIN L : k < m => Empty(B, L[m])

(* The links f out of last pages: inside a segment they lead to the next   *)
(* source that has pages, and elsewhere nowhere else.                      *)
Linked(B, L, O, f) ==
    /\ \A k, m \in DOMAIN L :
         Neighbours(B, L, k, m) =>
            /\ f[LastPage(B, L[k])] \in {Null, FirstPage(L[m])}
            /\ InSegment(L, O, k, m) => f[LastPage(B, L[k])] = FirstPage(L[m])
    /\ \A k \in DOMAIN L : Final(B, L, k) => f[LastPage(B, L[k])] = Null

(* L is a list of different slots.                                         *)
IsList(L) == /\ Len(L) \in Nat /\ DOMAIN L = 1..Len(L)
             /\ \A p, q \in DOMAIN L : L[p] = L[q] => p = q

(* The b-th source opens the next segment after that of the a-th.          *)
Adjacent(L, O, a, b) ==
    /\ a \in DOMAIN L /\ b \in DOMAIN L /\ a < b /\ Opens(L, O, a) /\ L[b] \in O
    /\ \A m \in DOMAIN L : a < m /\ m < b => L[m] \notin O

(* l has sources of L, without the first, in the order of L.               *)
InOrder(L, l) ==
    /\ l \in Seq(Range(L))
    /\ \A j \in DOMAIN l : l[j] # L[1]
    /\ \A j, k \in DOMAIN l, p, q \in DOMAIN L : j < k /\ L[p] = l[j] /\ L[q] = l[k] => p < q

(***************************************************************************)
(* The invariant                                                           *)
(***************************************************************************)

Srcs(i) == {t.src : t \in {u \in threads : u.of = i}}

(* The slots that still have to be merged into the i-th downstream.        *)
Open(i) ==
    IF i \in waiting THEN Range(Group(i))
    ELSE IF i \in DOMAIN merge THEN Range(merge[i].left) \union Srcs(i)
    ELSE {}

ThreadType ==
    [of : Targets, dst : Slots, src : Slots, at : {"source", "dest", "link", "tail"},
     srcHead : Pages \union {Null}, srcTail : Pages \union {Null}, dstTail : Pages \union {Null}]

Types ==
    /\ node \in Nodes
    /\ next \in [Pages -> Pages \union {Null}]
    /\ head \in [Slots -> Pages \union {Null}]
    /\ tail \in [Slots -> Pages \union {Null}]
    /\ before \in [Slots -> Seq(Pages)]
    /\ \A s \in Slots : Len(before[s]) \in 0..node.pages
                        /\ \A j \in 1..Len(before[s]) : before[s][j] = <<s, j>>
    /\ threads \subseteq ThreadType
    /\ waiting \subseteq Merges /\ DOMAIN merge \subseteq Merges \ waiting
    /\ stage \in {"route", "clear", "done"}
    /\ stage # "route" => waiting = {} /\ DOMAIN merge = {}

(* What is left of a merge is in the order of its sources.                 *)
Lefts ==
    \A i \in DOMAIN merge :
        /\ DOMAIN merge[i] = {"left", "tree"} /\ InOrder(Sources(i), merge[i].left)
        /\ kind = "Broadcast" => ~merge[i].tree

(* A call joins the segment of its source to the one before it.            *)
Joins(t) ==
    \E a, b \in DOMAIN Sources(t.of) :
        /\ t.dst = Sources(t.of)[a] /\ t.src = Sources(t.of)[b]
        /\ Adjacent(Sources(t.of), Open(t.of), a, b)
        /\ kind = "Broadcast" => a = 1

(* What a call has read is still so, and what it has linked.               *)
Knows(t) ==
    /\ t.at # "source" => t.srcHead = head[t.src] /\ t.srcTail = tail[t.src] /\ t.srcHead # Null
    /\ t.at \in {"link", "tail"} => t.dstTail = tail[t.dst]
    /\ t.at = "tail" => IF t.dstTail = Null THEN head[t.dst] = t.srcHead
                        ELSE next[t.dstTail] = t.srcHead

Calls ==
    \A t \in threads :
        /\ t.of \in DOMAIN merge /\ t.src \notin Range(merge[t.of].left)
        /\ Joins(t) /\ Knows(t)
        /\ \A u \in threads : t # u => {t.dst, t.src} \intersect {u.dst, u.src} = {}

(* The call t has set the head of an empty slot, and not yet its tail.     *)
Heading(t, s) == t.at = "tail" /\ t.dstTail = Null /\ t.dst = s

Chained ==
    \A i \in Merges :
        LET L == Sources(i)  O == Open(i) IN
        /\ \A a \in DOMAIN L : Opens(L, O, a) =>
             /\ IsTail(before, L, O, a, tail[L[a]])
             /\ (\E t \in threads : Heading(t, L[a])) \/ IsHead(before, L, O, a, head[L[a]])
        /\ Linked(before, L, O, next)

(* Inside a slot's own pages the links never change.                       *)
Inside == \A s \in Slots : \A j \in 1..(Len(before[s]) - 1) : next[<<s, j>>] = <<s, j + 1>>

OneAtATime == kind = "Broadcast" => \A i, j \in DOMAIN merge : i = j

(* The sources of a merge are different slots, and those of two merges     *)
(* too, except that broadcasts share their upstreams.                      *)
Listed ==
    /\ kind # "Bridge"
    /\ \A i \in Merges :
        LET L == Sources(i) IN
        /\ i \in Targets /\ IsList(L) /\ 1 \in DOMAIN L /\ L[1] = Downstream[i]
        /\ \A k \in DOMAIN L : L[k] \in Slots /\ (k # 1 <=> L[k] \in Range(Group(i)))
        /\ Group(i) \in Seq(Range(Group(i))) /\ Range(Group(i)) \intersect Range(Downstream) = {}
        /\ \A k \in DOMAIN Group(i) : k + 1 \in DOMAIN L /\ L[k + 1] = Group(i)[k]
        /\ \A j \in Merges \ {i} : \A p \in DOMAIN L, q \in DOMAIN Sources(j) :
             L[p] = Sources(j)[q] => kind = "Broadcast" /\ p = q /\ p # 1
        /\ kind = "Broadcast" =>
             /\ Len(Group(i)) <= Threshold
             /\ \A j \in Merges : /\ DOMAIN Sources(j) = DOMAIN L
                                  /\ \A k \in DOMAIN L : k # 1 => Sources(j)[k] = L[k]

Inv == Types /\ Listed /\ Lefts /\ Calls /\ Chained /\ Inside /\ OneAtATime

(***************************************************************************)
(* Lemmas about segments                                                   *)
(***************************************************************************)

(* What closing the b-th source does to the segments.                      *)
LEMMA SegmentsJoin ==
  ASSUME NEW L, IsList(L), NEW O, NEW a, NEW b, Adjacent(L, O, a, b), NEW P, P = O \ {L[b]}
  PROVE  /\ \A c, k \in DOMAIN L : Opens(L, P, c) /\ c # a =>
              Opens(L, O, c) /\ c # b /\ (InSegment(L, P, c, k) <=> InSegment(L, O, c, k))
         /\ \A k \in DOMAIN L : InSegment(L, P, a, k) <=> InSegment(L, O, a, k) \/ InSegment(L, O, b, k)
         /\ \A k \in DOMAIN L : InSegment(L, O, a, k) <=> a <= k /\ k < b
         /\ \A k, m \in DOMAIN L : InSegment(L, P, k, m) =>
              InSegment(L, O, k, m) \/ (InSegment(L, O, a, k) /\ InSegment(L, O, b, m))
  <1>1. \A x, y \in DOMAIN L : x < y \/ y < x \/ x = y
    BY DEF IsList
  <1>2. \A m \in DOMAIN L : L[m] \in P <=> L[m] \in O /\ m # b
    BY Zenon DEF IsList, Adjacent
  <1>3. \A k \in DOMAIN L : InSegment(L, O, a, k) <=> a <= k /\ k < b
    BY DEF InSegment, Adjacent, IsList
  <1>4. \A k \in DOMAIN L : InSegment(L, P, a, k) <=> InSegment(L, O, a, k) \/ InSegment(L, O, b, k)
    BY <1>2 DEF InSegment, Adjacent, IsList
  <1>5. ASSUME NEW c \in DOMAIN L, NEW k \in DOMAIN L, Opens(L, P, c), c # a
        PROVE  Opens(L, O, c) /\ c # b /\ (InSegment(L, P, c, k) <=> InSegment(L, O, c, k))
    <2>1. Opens(L, O, c) /\ c # b
      BY <1>2, <1>5 DEF Opens, Adjacent, IsList
    <2>2. c < a \/ b < c
      BY <1>5, <2>1 DEF Opens, Adjacent, IsList
    <2> QED BY <1>2, <1>5, <2>1, <2>2 DEF InSegment, Opens, Adjacent, IsList
  <1>6. ASSUME NEW k \in DOMAIN L, NEW m \in DOMAIN L, InSegment(L, P, k, m), ~ InSegment(L, O, k, m)
        PROVE  InSegment(L, O, a, k) /\ InSegment(L, O, b, m)
    <2>1. k < b /\ b <= m
      BY <1>2, <1>6 DEF InSegment, Adjacent, IsList
    <2>2. a <= k
      BY <1>2, <1>6, <2>1 DEF InSegment, Adjacent, IsList, Opens
    <2> QED BY <1>2, <1>3, <1>6, <2>1, <2>2 DEF InSegment, Adjacent, IsList
  <1> QED BY <1>3, <1>4, <1>5, <1>6, Zenon

(* No page is Null.                                                        *)
Proper(B, L) ==
    \A k \in DOMAIN L : ~ Empty(B, L[k]) => FirstPage(L[k]) # Null /\ LastPage(B, L[k]) # Null

(* The other segments stay as they are.                                    *)
LEMMA OthersStay ==
  ASSUME NEW L, IsList(L), NEW O, NEW a, NEW b, Adjacent(L, O, a, b), NEW P, P = O \ {L[b]},
         NEW B, NEW c \in DOMAIN L, Opens(L, P, c), c # a, NEW x
  PROVE  /\ IsHead(B, L, O, c, x) => IsHead(B, L, P, c, x)
         /\ IsTail(B, L, O, c, x) => IsTail(B, L, P, c, x)
  <1>1. \A k \in DOMAIN L : InSegment(L, P, c, k) <=> InSegment(L, O, c, k)
    BY SegmentsJoin
  <1>2. IsHead(B, L, O, c, x) => IsHead(B, L, P, c, x)
    BY <1>1, Zenon DEF IsHead, AllEmpty
  <1>3. IsTail(B, L, O, c, x) => IsTail(B, L, P, c, x)
    BY <1>1, Zenon DEF IsTail, AllEmpty
  <1> QED BY <1>2, <1>3, Zenon

(* The segment of an empty source joins the one before it.                 *)
LEMMA EmptyJoins ==
  ASSUME NEW L, IsList(L), NEW O, NEW a, NEW b, Adjacent(L, O, a, b), NEW P, P = O \ {L[b]},
         NEW B, AllEmpty(B, L, O, b)
  PROVE  /\ \A x : IsHead(B, L, O, a, x) => IsHead(B, L, P, a, x)
         /\ \A x : IsTail(B, L, O, a, x) => IsTail(B, L, P, a, x)
         /\ \A f : Linked(B, L, O, f) => Linked(B, L, P, f)
  <1>1. \A k \in DOMAIN L : InSegment(L, P, a, k) => InSegment(L, O, a, k) \/ Empty(B, L[k])
    BY SegmentsJoin DEF AllEmpty
  <1>2. \A k \in DOMAIN L : InSegment(L, O, a, k) => InSegment(L, P, a, k)
    BY SegmentsJoin
  <1>3. \A x : IsHead(B, L, O, a, x) => IsHead(B, L, P, a, x)
    BY <1>1, <1>2, Zenon DEF IsHead, AllEmpty
  <1>4. \A x : IsTail(B, L, O, a, x) => IsTail(B, L, P, a, x)
    BY <1>1, <1>2, Zenon DEF IsTail, AllEmpty
  <1>5. \A k, m \in DOMAIN L : InSegment(L, P, k, m) => InSegment(L, O, k, m) \/ Empty(B, L[m])
    BY SegmentsJoin DEF AllEmpty
  <1>6. \A f : Linked(B, L, O, f) => Linked(B, L, P, f)
    BY <1>5, Zenon DEF Linked, Neighbours
  <1> QED BY <1>3, <1>4, <1>6, Zenon

(* The last page of a segment and the first page of the next are those of  *)
(* neighbours.                                                             *)
LEMMA Ends ==
  ASSUME NEW L, IsList(L), NEW O, NEW a, NEW b, Adjacent(L, O, a, b), NEW B, Proper(B, L),
         NEW e, IsTail(B, L, O, a, e), e # Null, NEW h, IsHead(B, L, O, b, h), h # Null
  PROVE  \E k, m \in DOMAIN L :
            /\ Neighbours(B, L, k, m) /\ e = LastPage(B, L[k]) /\ h = FirstPage(L[m])
            /\ InSegment(L, O, a, k) /\ InSegment(L, O, b, m)
  <1>1. PICK k \in DOMAIN L :
               /\ InSegment(L, O, a, k) /\ ~Empty(B, L[k]) /\ e = LastPage(B, L[k])
               /\ \A j \in DOMAIN L : InSegment(L, O, a, j) /\ k < j => Empty(B, L[j])
    BY Zenon DEF IsTail
  <1>2. PICK m \in DOMAIN L :
               /\ InSegment(L, O, b, m) /\ ~Empty(B, L[m]) /\ h = FirstPage(L[m])
               /\ \A j \in DOMAIN L : b <= j /\ j < m => Empty(B, L[j])
    BY Zenon DEF IsHead
  <1>3. \A j \in DOMAIN L : InSegment(L, O, a, j) <=> a <= j /\ j < b
    BY DEF InSegment, Adjacent, IsList
  <1>4. k < m /\ \A j \in DOMAIN L : k < j /\ j < m => (a <= j /\ j < b) \/ (b <= j /\ j < m)
    BY <1>1, <1>2, <1>3 DEF Adjacent, IsList, InSegment
  <1>5. Neighbours(B, L, k, m)
    BY <1>1, <1>2, <1>3, <1>4, Zenon DEF Neighbours
  <1> QED BY <1>1, <1>2, <1>5, Zenon

(* A segment that has pages joins the one before it.                       *)
LEMMA PagesJoin ==
  ASSUME NEW L, IsList(L), NEW O, NEW a, NEW b, Adjacent(L, O, a, b), NEW P, P = O \ {L[b]},
         NEW B, Proper(B, L),
         NEW e, IsTail(B, L, O, a, e), NEW x, IsTail(B, L, O, b, x),
         NEW y, IsHead(B, L, O, b, y), y # Null
  PROVE  /\ IsTail(B, L, P, a, x)
         /\ \A h : IsHead(B, L, O, a, h) /\ e # Null => IsHead(B, L, P, a, h)
         /\ e = Null => IsHead(B, L, P, a, y)
         /\ \A f : Linked(B, L, O, f) /\ (e # Null => f[e] = y) => Linked(B, L, P, f)
  <1>1. /\ \A k \in DOMAIN L : InSegment(L, P, a, k) <=> InSegment(L, O, a, k) \/ InSegment(L, O, b, k)
        /\ \A k, m \in DOMAIN L : InSegment(L, P, k, m) =>
             InSegment(L, O, k, m) \/ (InSegment(L, O, a, k) /\ InSegment(L, O, b, m))
    BY SegmentsJoin
  <1>2. \A k \in DOMAIN L : InSegment(L, O, a, k) <=> a <= k /\ k < b
    BY DEF InSegment, Adjacent, IsList
  <1>3. PICK m \in DOMAIN L :
               /\ InSegment(L, O, b, m) /\ ~Empty(B, L[m]) /\ y = FirstPage(L[m])
               /\ \A j \in DOMAIN L : b <= j /\ j < m => Empty(B, L[j])
    BY Zenon DEF IsHead
  <1>4. PICK l \in DOMAIN L :
               /\ InSegment(L, O, b, l) /\ ~Empty(B, L[l]) /\ x = LastPage(B, L[l])
               /\ \A j \in DOMAIN L : InSegment(L, O, b, j) /\ l < j => Empty(B, L[j])
    BY <1>3, Zenon DEF IsTail, AllEmpty
  <1>5. IsTail(B, L, P, a, x)
    <2>1. \A j \in DOMAIN L : InSegment(L, O, a, j) => ~ (l < j)
      BY <1>2, <1>4 DEF InSegment, Adjacent, IsList
    <2>2. \A j \in DOMAIN L : InSegment(L, P, a, j) /\ l < j => Empty(B, L[j])
      BY <1>1, <1>4, <2>1, Zenon
    <2> QED BY <1>1, <1>4, <2>2, Zenon DEF IsTail
  <1>6. ASSUME NEW h, IsHead(B, L, O, a, h), e # Null PROVE IsHead(B, L, P, a, h)
    <2>1. ~ AllEmpty(B, L, O, a)
      BY <1>6, Zenon DEF IsTail, AllEmpty
    <2> QED BY <1>1, <1>6, <2>1, Zenon DEF IsHead
  <1>7. ASSUME e = Null PROVE IsHead(B, L, P, a, y)
    <2>1. AllEmpty(B, L, O, a)
      BY <1>7, Zenon DEF IsTail, Proper
    <2>2. \A j \in DOMAIN L : a <= j /\ j < m => (a <= j /\ j < b) \/ (b <= j /\ j < m)
      BY DEF Adjacent, IsList
    <2>3. \A j \in DOMAIN L : a <= j /\ j < m => Empty(B, L[j])
      BY <1>2, <1>3, <2>1, <2>2, Zenon DEF AllEmpty
    <2> QED BY <1>1, <1>3, <2>3, Zenon DEF IsHead
  <1>8. ASSUME NEW f, Linked(B, L, O, f), e # Null => f[e] = y PROVE Linked(B, L, P, f)
    <2> SUFFICES ASSUME NEW k \in DOMAIN L, NEW q \in DOMAIN L, Neighbours(B, L, k, q),
                        InSegment(L, P, k, q)
                 PROVE  f[LastPage(B, L[k])] = FirstPage(L[q])
      BY <1>8, Zenon DEF Linked
    <2> SUFFICES ASSUME InSegment(L, O, a, k), InSegment(L, O, b, q)
                 PROVE  f[LastPage(B, L[k])] = FirstPage(L[q])
      BY <1>1, <1>8, Zenon DEF Linked
    <2>1. PICK r \in DOMAIN L :
                 /\ InSegment(L, O, a, r) /\ ~Empty(B, L[r]) /\ e = LastPage(B, L[r])
                 /\ \A j \in DOMAIN L : InSegment(L, O, a, j) /\ r < j => Empty(B, L[j])
      BY Zenon DEF IsTail, AllEmpty, Neighbours
    <2>2. k = r
      <3>1. ~ (r < k)
        BY <2>1, Zenon DEF Neighbours
      <3>2. r < q
        BY <1>2, <2>1 DEF InSegment, Adjacent, IsList
      <3>3. ~ (k < r)
        BY <2>1, <3>2, Zenon DEF Neighbours
      <3> QED BY <3>1, <3>3 DEF IsList
    <2>3. q = m
      <3>1. b <= q /\ b <= m /\ k < m
        BY <1>2, <1>3 DEF InSegment, Adjacent, IsList
      <3>2. ~ (q < m)
        BY <1>3, <3>1, Zenon DEF Neighbours
      <3>3. ~ (m < q)
        BY <1>3, <3>1, Zenon DEF Neighbours
      <3> QED BY <3>2, <3>3 DEF IsList
    <2>4. e # Null
      BY <2>1, Zenon DEF Proper
    <2> QED BY <1>3, <1>8, <2>1, <2>2, <2>3, <2>4, Zenon
  <1> QED BY <1>5, <1>6, <1>7, <1>8, Zenon

(* g is f with a link from the last page of the slot s to the first of r,  *)
(* and r is the next slot with pages wherever s is in the list.            *)
Relinks(B, L, f, g, s, r) ==
    /\ g[LastPage(B, s)] = FirstPage(r)
    /\ \A k \in DOMAIN L : ~Empty(B, L[k]) /\ L[k] # s => g[LastPage(B, L[k])] = f[LastPage(B, L[k])]
    /\ \A k \in DOMAIN L : L[k] = s => \E m \in DOMAIN L : L[m] = r /\ Neighbours(B, L, k, m)

(* Such a link keeps the list linked.                                      *)
LEMMA LinkKeeps ==
  ASSUME NEW L, IsList(L), NEW O, NEW B, NEW f, Linked(B, L, O, f), NEW s, NEW r, NEW g,
         Relinks(B, L, f, g, s, r)
  PROVE  Linked(B, L, O, g)
  <1>1. ASSUME NEW k \in DOMAIN L, NEW m \in DOMAIN L, NEW q \in DOMAIN L,
               Neighbours(B, L, k, m), Neighbours(B, L, k, q)
        PROVE  m = q
    BY <1>1 DEF Neighbours, IsList
  <1>2. ASSUME NEW k \in DOMAIN L, NEW m \in DOMAIN L, Neighbours(B, L, k, m)
        PROVE  /\ g[LastPage(B, L[k])] \in {Null, FirstPage(L[m])}
               /\ InSegment(L, O, k, m) => g[LastPage(B, L[k])] = FirstPage(L[m])
    <2>1. CASE L[k] = s
      <3>1. PICK q \in DOMAIN L : L[q] = r /\ Neighbours(B, L, k, q)
        BY <2>1, Zenon DEF Relinks
      <3>2. q = m
        BY <1>1, <1>2, <3>1, Zenon
      <3> QED BY <2>1, <3>1, <3>2, Zenon DEF Relinks
    <2>2. CASE L[k] # s
      BY <1>2, <2>2, Zenon DEF Linked, Neighbours, Relinks
    <2> QED BY <2>1, <2>2, Zenon
  <1>3. ASSUME NEW k \in DOMAIN L, Final(B, L, k) PROVE g[LastPage(B, L[k])] = Null
    <2>1. L[k] # s
      BY <1>3, Zenon DEF Final, Neighbours, Relinks
    <2> QED BY <1>3, <2>1, Zenon DEF Linked, Final, Relinks
  <1> QED BY <1>2, <1>3, Zenon DEF Linked

(* Two segments of a list end in the pages of different slots.             *)
LEMMA TailsDiffer ==
  ASSUME NEW L, IsList(L), NEW O, NEW B, NEW a \in DOMAIN L, NEW c \in DOMAIN L, a # c,
         Opens(L, O, a), Opens(L, O, c), NEW e, e # Null, IsTail(B, L, O, a, e)
  PROVE  ~ IsTail(B, L, O, c, e)
  <1> SUFFICES ASSUME IsTail(B, L, O, c, e) PROVE FALSE
    OBVIOUS
  <1>1. PICK k \in DOMAIN L : InSegment(L, O, a, k) /\ e = LastPage(B, L[k])
    BY Zenon DEF IsTail
  <1>2. PICK m \in DOMAIN L : InSegment(L, O, c, m) /\ e = LastPage(B, L[m])
    BY Zenon DEF IsTail
  <1>3. L[k] = L[m]
    BY <1>1, <1>2 DEF LastPage
  <1>4. k = m
    BY <1>3, Zenon DEF IsList
  <1> QED BY <1>1, <1>2, <1>4 DEF InSegment, Opens, IsList

(***************************************************************************)
(* Lemmas about a state                                                    *)
(***************************************************************************)

(* What depends on the node and its pages only.                            *)
LEMMA Fixed ==
  ASSUME UNCHANGED <<node, before>>
  PROVE  /\ kind' = kind /\ Upstream' = Upstream /\ Slots' = Slots /\ Pages' = Pages
         /\ Merges' = Merges /\ \A i : Group(i)' = Group(i) /\ Sources(i)' = Sources(i)
  <1>1. node' = node /\ before' = before
    BY Zenon
  <1>2. kind' = kind /\ Upstream' = Upstream
    BY <1>1, Zenon DEF kind, Upstream
  <1>3. Slots' = Slots
    BY <1>2, Zenon DEF Slots
  <1>4. Pages' = Pages
    BY <1>1, <1>3, Zenon DEF Pages
  <1>5. \A k : Partition(k)' = Partition(k)
    BY <1>1, <1>2, Zenon DEF Partition, Modulo, RoundRobin, FixedMap
  <1>6. \A i : Group(i)' = Group(i)
    BY <1>2, <1>5, Zenon DEF Group
  <1>7. Merges' = Merges
    BY <1>2, <1>6, Zenon DEF Merges, Targets
  <1>8. \A i : Sources(i)' = Sources(i)
    BY <1>1, <1>2, <1>6, Zenon DEF Sources
  <1> QED BY <1>2, <1>3, <1>4, <1>6, <1>7, <1>8, Zenon

(* The pages of a slot.                                                    *)
LEMMA PagesOf ==
  ASSUME Types, NEW s \in Slots, ~ Empty(before, s)
  PROVE  FirstPage(s) \in Pages /\ LastPage(before, s) \in Pages /\ Null \notin Pages
  <1>1. node \in Nodes /\ before[s] \in Seq(Pages) /\ Len(before[s]) \in 0..node.pages /\ node.pages \in Nat
    BY RoutingAssumption, Zenon DEF Types
  <1>2. Null \notin Pages
    BY <1>1, RoutingAssumption, Zenon DEF Pages, Slots, Upstream
  <1>3. Len(before[s]) \in 1..node.pages /\ 1 \in 1..node.pages
    BY <1>1 DEF Empty
  <1> QED BY <1>2, <1>3 DEF FirstPage, LastPage, Pages

(* The lists of sources hold pages.                                        *)
LEMMA ProperSources ==
  ASSUME Types, Listed, NEW i \in Merges
  PROVE  /\ Proper(before, Sources(i))
         /\ \A k \in DOMAIN Sources(i) : Sources(i)[k] \in Slots
                /\ (~ Empty(before, Sources(i)[k]) => LastPage(before, Sources(i)[k]) \in Pages)
  <1>1. \A k \in DOMAIN Sources(i) : Sources(i)[k] \in Slots
    BY Zenon DEF Listed
  <1>2. \A s \in Slots : ~ Empty(before, s) =>
            FirstPage(s) \in Pages /\ LastPage(before, s) \in Pages /\ Null \notin Pages
    BY PagesOf, Zenon
  <1> QED BY <1>1, <1>2, Zenon DEF Proper

(* The two segments that a call joins.                                     *)
Segments(t, a, b) ==
    LET L == Sources(t.of)  O == Open(t.of) IN
    /\ Adjacent(L, O, a, b) /\ t.dst = L[a] /\ t.src = L[b] /\ (kind = "Broadcast" => a = 1)
    /\ IsHead(before, L, O, b, head[t.src]) /\ IsTail(before, L, O, b, tail[t.src])
    /\ IsTail(before, L, O, a, tail[t.dst])
    /\ Heading(t, t.dst) \/ IsHead(before, L, O, a, head[t.dst])

(* Nobody but the call itself changes them.                                *)
LEMMA CallSegments ==
  ASSUME Types, Listed, Calls, Chained, NEW t \in threads
  PROVE  /\ t.of \in Merges /\ IsList(Sources(t.of)) /\ Proper(before, Sources(t.of))
         /\ t.dst \in Slots /\ t.src \in Slots /\ t.dst # t.src
         /\ \E a, b \in DOMAIN Sources(t.of) : Segments(t, a, b)
  <1> DEFINE L == Sources(t.of)
             O == Open(t.of)
  <1>1. t.of \in Merges /\ IsList(L) /\ Proper(before, L)
    BY ProperSources, Zenon DEF Calls, Types, Listed
  <1>2. PICK a, b \in DOMAIN L :
               Adjacent(L, O, a, b) /\ t.dst = L[a] /\ t.src = L[b] /\ (kind = "Broadcast" => a = 1)
    BY Zenon DEF Calls, Joins
  <1>3. a # b
    BY <1>1, <1>2 DEF Adjacent, IsList
  <1>4. t.dst # t.src /\ t.dst \in Slots /\ t.src \in Slots
    BY <1>1, <1>2, <1>3, ProperSources, Zenon DEF IsList
  <1>5. /\ IsTail(before, L, O, a, tail[t.dst]) /\ IsTail(before, L, O, b, tail[t.src])
        /\ (\E u \in threads : Heading(u, t.dst)) \/ IsHead(before, L, O, a, head[t.dst])
        /\ (\E u \in threads : Heading(u, t.src)) \/ IsHead(before, L, O, b, head[t.src])
    <2>1. Opens(L, O, a) /\ Opens(L, O, b)
      BY <1>2, Zenon DEF Adjacent, Opens
    <2> QED BY <1>1, <1>2, <2>1, Zenon DEF Chained
  <1>6. \A u \in threads : Heading(u, t.dst) => u = t
    BY Zenon DEF Calls, Heading
  <1>7. \A u \in threads : ~ Heading(u, t.src)
    BY <1>4, Zenon DEF Calls, Heading
  <1>8. Segments(t, a, b)
    BY <1>2, <1>5, <1>6, <1>7, Zenon DEF Segments
  <1> QED BY <1>1, <1>4, <1>8, Zenon

(* A call of another merge has no slot of this one, unless it is a source  *)
(* of a broadcast.                                                         *)
LEMMA SlotsApart ==
  ASSUME Listed, NEW i \in Merges, NEW j \in Merges, i # j,
         NEW p \in DOMAIN Sources(i), NEW q \in DOMAIN Sources(j), Sources(i)[p] = Sources(j)[q]
  PROVE  kind = "Broadcast" /\ p = q /\ p # 1
  <1>1. j \in Merges \ {i}
    BY Zenon
  <1> QED BY <1>1, Zenon DEF Listed

(* The pages that two calls append to are different.                       *)
LEMMA TailsApart ==
  ASSUME Types, Listed, Calls, Chained, OneAtATime, NEW t \in threads, NEW u \in threads, t # u,
         tail[t.dst] # Null
  PROVE  tail[t.dst] # tail[u.dst]
  <1> SUFFICES ASSUME tail[t.dst] = tail[u.dst] PROVE FALSE
    OBVIOUS
  <1>1. /\ t.of \in Merges /\ IsList(Sources(t.of)) /\ Proper(before, Sources(t.of))
        /\ u.of \in Merges /\ IsList(Sources(u.of)) /\ Proper(before, Sources(u.of))
    BY CallSegments, Zenon
  <1>2. PICK a, b \in DOMAIN Sources(t.of) : Segments(t, a, b)
    BY CallSegments, Zenon
  <1>3. PICK c, d \in DOMAIN Sources(u.of) : Segments(u, c, d)
    BY CallSegments, Zenon
  <1>4. t.dst # u.dst
    BY Zenon DEF Calls
  <1>5. CASE t.of = u.of
    <2>1. /\ IsTail(before, Sources(t.of), Open(t.of), a, tail[t.dst]) /\ Opens(Sources(t.of), Open(t.of), a)
          /\ IsTail(before, Sources(t.of), Open(t.of), c, tail[t.dst]) /\ Opens(Sources(t.of), Open(t.of), c)
          /\ a # c /\ c \in DOMAIN Sources(t.of)
      BY <1>2, <1>3, <1>4, <1>5, Zenon DEF Segments, Adjacent
    <2> QED BY <1>1, <2>1, TailsDiffer, Zenon
  <1>6. CASE t.of # u.of
    <2>1. PICK k \in DOMAIN Sources(t.of) : tail[t.dst] = LastPage(before, Sources(t.of)[k])
      BY <1>2, Zenon DEF Segments, IsTail
    <2>2. PICK m \in DOMAIN Sources(u.of) : tail[t.dst] = LastPage(before, Sources(u.of)[m])
      BY <1>3, Zenon DEF Segments, IsTail
    <2>3. Sources(t.of)[k] = Sources(u.of)[m]
      BY <2>1, <2>2 DEF LastPage
    <2>4. kind = "Broadcast"
      BY <1>1, <1>6, <2>3, SlotsApart, Zenon
    <2> QED BY <1>6, <2>4, Zenon DEF Calls, OneAtATime
  <1> QED BY <1>5, <1>6, Zenon

(***************************************************************************)
(* What a step leaves alone                                                *)
(***************************************************************************)

(* A call that goes on keeps its source open.                              *)
LEMMA OpenKept ==
  ASSUME UNCHANGED <<node, before, waiting, merge>>, NEW t \in threads, NEW u,
         u.of = t.of, u.src = t.src, threads' = (threads \ {t}) \union {u}
  PROVE  \A i : Open(i)' = Open(i)
  <1>1. ASSUME NEW i PROVE Srcs(i)' = Srcs(i)
    <2>1. \A x \in Srcs(i)' : x \in Srcs(i)
      BY Zenon DEF Srcs
    <2>2. \A x \in Srcs(i) : x \in Srcs(i)'
      BY Zenon DEF Srcs
    <2> QED BY <2>1, <2>2, Zenon
  <1> QED BY <1>1, Fixed, Zenon DEF Open

(* A call that ends closes it.                                             *)
LEMMA OpenDrops ==
  ASSUME UNCHANGED <<node, before, waiting, merge>>, Types, Calls, NEW t \in threads,
         threads' = threads \ {t}
  PROVE  /\ Open(t.of)' = Open(t.of) \ {t.src}
         /\ \A j : j # t.of => Open(j)' = Open(j)
  <1>1. ASSUME NEW j, j # t.of PROVE Open(j)' = Open(j)
    <2>1. Srcs(j)' = Srcs(j)
      BY <1>1, Zenon DEF Srcs
    <2> QED BY <2>1, Fixed, Zenon DEF Open
  <1>2. t.of \in DOMAIN merge /\ t.of \notin waiting /\ t.src \notin Range(merge[t.of].left)
    BY Zenon DEF Calls, Types
  <1>3. Srcs(t.of)' = Srcs(t.of) \ {t.src}
    <2>1. \A x \in Srcs(t.of)' : x \in Srcs(t.of) \ {t.src}
      BY Zenon DEF Srcs, Calls
    <2>2. \A x \in Srcs(t.of) \ {t.src} : x \in Srcs(t.of)'
      BY Zenon DEF Srcs
    <2> QED BY <2>1, <2>2, Zenon
  <1>4. Open(t.of)' = Open(t.of) \ {t.src}
    <2>1. Open(t.of) = Range(merge[t.of].left) \union Srcs(t.of)
      BY <1>2, Zenon DEF Open
    <2>2. Open(t.of)' = Range(merge[t.of].left) \union (Srcs(t.of) \ {t.src})
      BY <1>2, <1>3, Zenon DEF Open
    <2> QED BY <1>2, <2>1, <2>2, Zenon
  <1> QED BY <1>1, <1>4, Zenon

(* A call still joins the same segments while its slots stay open.         *)
LEMMA JoinsKept ==
  ASSUME UNCHANGED <<node, before>>, NEW u, Joins(u), NEW X, Open(u.of)' = Open(u.of) \ X,
         u.dst \notin X, u.src \notin X
  PROVE  Joins(u)'
  <1>1. PICK a, b \in DOMAIN Sources(u.of) :
               /\ u.dst = Sources(u.of)[a] /\ u.src = Sources(u.of)[b]
               /\ Adjacent(Sources(u.of), Open(u.of), a, b)
               /\ kind = "Broadcast" => a = 1
    BY Zenon DEF Joins
  <1>2. Adjacent(Sources(u.of), Open(u.of)', a, b)
    BY <1>1, Zenon DEF Adjacent, Opens
  <1>3. Sources(u.of)' = Sources(u.of) /\ kind' = kind
    BY Fixed, Zenon
  <1> QED BY <1>1, <1>2, <1>3, Zenon DEF Joins

(* A call still knows what it did if the slots of others changed.          *)
LEMMA KnowsKept ==
  ASSUME NEW v, Knows(v), head'[v.src] = head[v.src], head'[v.dst] = head[v.dst],
         tail'[v.src] = tail[v.src], tail'[v.dst] = tail[v.dst],
         v.at = "tail" /\ v.dstTail # Null => next'[v.dstTail] = next[v.dstTail]
  PROVE  Knows(v)'
  BY Zenon DEF Knows

(* The parts of the invariant about the node, its pages and its merges.    *)
LEMMA ListedKept ==
  ASSUME UNCHANGED <<node, before>>, Listed
  PROVE  Listed'
  <1>1. Merges' = Merges /\ kind' = kind /\ Slots' = Slots
        /\ \A i : Group(i)' = Group(i) /\ Sources(i)' = Sources(i)
    BY Fixed, Zenon
  <1> QED BY <1>1 DEF Listed, Targets

(* A step that starts and ends no merge keeps what is known of the merges. *)
LEMMA MergesKept ==
  ASSUME UNCHANGED <<node, before, merge>>, Lefts, OneAtATime
  PROVE  Lefts' /\ OneAtATime'
  <1>1. kind' = kind /\ merge' = merge /\ \A i : Group(i)' = Group(i) /\ Sources(i)' = Sources(i)
    BY Fixed, Zenon
  <1> QED BY <1>1, Zenon DEF Lefts, OneAtATime

(* The types, when only memory and calls change.                           *)
LEMMA TypesKept ==
  ASSUME Types, UNCHANGED <<node, before, waiting, merge, stage>>,
         next' \in [Pages -> Pages \union {Null}], head' \in [Slots -> Pages \union {Null}],
         tail' \in [Slots -> Pages \union {Null}], threads' \subseteq ThreadType
  PROVE  Types'
  <1>1. /\ Slots' = Slots /\ Pages' = Pages /\ Merges' = Merges /\ Targets' = Targets
        /\ node' = node /\ before' = before /\ waiting' = waiting /\ merge' = merge /\ stage' = stage
    BY Fixed, Zenon DEF Targets
  <1>2. ThreadType' = ThreadType
    BY <1>1, Zenon DEF ThreadType
  <1> QED BY <1>1, <1>2, Zenon DEF Types

(* The chains, when memory and the open slots stay as they are.            *)
LEMMA ChainedKept ==
  ASSUME UNCHANGED <<node, before, head, tail, next>>, Chained,
         \A i \in Merges : Open(i)' = Open(i),
         \A s : (\E t \in threads : Heading(t, s)) => (\E t \in threads' : Heading(t, s))
  PROVE  Chained'
  <1>1. /\ Merges' = Merges /\ before' = before /\ head' = head /\ tail' = tail /\ next' = next
        /\ \A i : Sources(i)' = Sources(i)
    BY Fixed, Zenon
  <1>2. \A s : (\E t \in threads' : Heading(t, s)) => (\E t \in threads : Heading(t, s))'
    BY Zenon DEF Heading
  <1> QED BY <1>1, <1>2, Zenon DEF Chained

(***************************************************************************)
(* The steps of a call                                                     *)
(***************************************************************************)

(* A call t that becomes u and has not set the tail.                       *)
LEMMA CallGoesOn ==
  ASSUME Inv, NEW t \in threads, NEW u \in ThreadType, u.of = t.of, u.dst = t.dst, u.src = t.src,
         threads' = (threads \ {t}) \union {u}, t.at # "tail",
         UNCHANGED <<node, before, waiting, merge, stage, tail>>,
         next' \in [Pages -> Pages \union {Null}], head' \in [Slots -> Pages \union {Null}],
         Knows(u)', Inside', \A j \in Merges : Linked(before, Sources(j), Open(j), next'),
         \A s \in Slots : s # t.dst => head'[s] = head[s],
         head'[t.dst] = head[t.dst] \/ Heading(u, t.dst),
         \A v \in threads \ {t} : v.at = "tail" /\ v.dstTail # Null => next'[v.dstTail] = next[v.dstTail]
  PROVE  Inv'
  <1>0. Types /\ Listed /\ Lefts /\ Calls /\ Chained /\ Inside /\ OneAtATime
    BY Zenon DEF Inv
  <1>1. \A i : Open(i)' = Open(i)
    BY OpenKept, Zenon
  <1>2. threads \subseteq ThreadType /\ tail \in [Slots -> Pages \union {Null}]
    BY <1>0, Zenon DEF Types
  <1>3. Types'
    <2>1. threads' \subseteq ThreadType /\ tail' \in [Slots -> Pages \union {Null}]
      BY <1>2, Zenon
    <2> QED BY <1>0, <2>1, TypesKept, Zenon
  <1>4. Listed' /\ Lefts' /\ OneAtATime'
    BY <1>0, ListedKept, MergesKept, Zenon
  <1>5. ASSUME NEW v \in threads \ {t} PROVE Joins(v)' /\ Knows(v)'
    <2>1. v.dst \in Slots /\ v.src \in Slots
      BY <1>0, CallSegments, Zenon
    <2>2. v.dst # t.dst /\ v.src # t.dst
      BY <1>0, Zenon DEF Calls
    <2>3. Joins(v) /\ Knows(v)
      BY <1>0, Zenon DEF Calls
    <2>4. Knows(v)'
      BY <2>1, <2>2, <2>3, KnowsKept, Zenon
    <2>5. Open(v.of)' = Open(v.of) \ {}
      BY <1>1, Zenon
    <2>6. Joins(v)'
      BY <2>3, <2>5, JoinsKept, Zenon
    <2> QED BY <2>4, <2>6, Zenon
  <1>6. Joins(u)'
    <2>0. Joins(t)
      BY <1>0, Zenon DEF Calls
    <2>1. Joins(u)
      BY <2>0, Zenon DEF Joins
    <2>2. Open(u.of)' = Open(u.of) \ {}
      BY <1>1, Zenon
    <2> QED BY <2>1, <2>2, JoinsKept, Zenon
  <1>7. Calls'
    <2>1. \A v \in threads' : v.of \in DOMAIN merge' /\ v.src \notin Range(merge'[v.of].left)
      BY <1>0, Zenon DEF Calls
    <2>2. \A v \in threads' : Joins(v)' /\ Knows(v)'
      BY <1>5, <1>6, Zenon
    <2>3. \A v, w \in threads' : v # w => {v.dst, v.src} \intersect {w.dst, w.src} = {}
      <3>1. \A v, w \in threads : v # w => {v.dst, v.src} \intersect {w.dst, w.src} = {}
        BY <1>0, Zenon DEF Calls
      <3>2. {u.dst, u.src} = {t.dst, t.src}
        BY Zenon
      <3> QED BY <3>1, <3>2, Zenon
    <2> QED BY <2>1, <2>2, <2>3, Zenon DEF Calls
  <1>8. Chained'
    <2>1. Merges' = Merges /\ before' = before /\ tail' = tail /\ \A i : Sources(i)' = Sources(i)
      BY Fixed, Zenon
    <2>2. ASSUME NEW i \in Merges, NEW a \in DOMAIN Sources(i), Opens(Sources(i), Open(i), a)
          PROVE  /\ IsTail(before, Sources(i), Open(i), a, tail[Sources(i)[a]])
                 /\ \/ \E v \in threads' : Heading(v, Sources(i)[a])
                    \/ IsHead(before, Sources(i), Open(i), a, head'[Sources(i)[a]])
      <3>1. /\ IsTail(before, Sources(i), Open(i), a, tail[Sources(i)[a]])
            /\ \/ \E v \in threads : Heading(v, Sources(i)[a])
               \/ IsHead(before, Sources(i), Open(i), a, head[Sources(i)[a]])
        BY <1>0, <2>2, Zenon DEF Chained
      <3>2. Sources(i)[a] \in Slots
        BY <1>0, ProperSources, Zenon
      <3>3. \A v \in threads : Heading(v, Sources(i)[a]) => v \in threads'
        BY Zenon DEF Heading
      <3>4. head'[Sources(i)[a]] = head[Sources(i)[a]] \/ Heading(u, Sources(i)[a])
        BY <3>2, Zenon DEF Heading
      <3> QED BY <3>1, <3>3, <3>4, Zenon
    <2>3. \A s : (\E v \in threads' : Heading(v, s)) => (\E v \in threads : Heading(v, s))'
      BY Zenon DEF Heading
    <2> QED BY <1>1, <2>1, <2>2, <2>3, ZenonT(30) DEF Chained
  <1> QED BY <1>3, <1>4, <1>7, <1>8, Zenon DEF Inv

(* A call t that ends, having joined the segment of its source to that of  *)
(* its destination.                                                        *)
LEMMA CallEnds ==
  ASSUME Inv, NEW t \in threads, threads' = threads \ {t},
         UNCHANGED <<node, before, waiting, merge, stage, next, head>>,
         tail' \in [Slots -> Pages \union {Null}], \A s \in Slots : s # t.dst => tail'[s] = tail[s],
         NEW a, NEW b, Segments(t, a, b), NEW P, P = Open(t.of) \ {t.src},
         IsTail(before, Sources(t.of), P, a, tail'[t.dst]),
         IsHead(before, Sources(t.of), P, a, head[t.dst]),
         Linked(before, Sources(t.of), P, next)
  PROVE  Inv'
  <1>0. Types /\ Listed /\ Lefts /\ Calls /\ Chained /\ Inside /\ OneAtATime
    BY Zenon DEF Inv
  <1>1. Open(t.of)' = Open(t.of) \ {t.src} /\ \A j : j # t.of => Open(j)' = Open(j)
    BY <1>0, OpenDrops, Zenon
  <1>2. /\ threads \subseteq ThreadType /\ head \in [Slots -> Pages \union {Null}]
        /\ next \in [Pages -> Pages \union {Null}]
    BY <1>0, Zenon DEF Types
  <1>3. Types'
    <2>1. /\ threads' \subseteq ThreadType /\ head' \in [Slots -> Pages \union {Null}]
          /\ next' \in [Pages -> Pages \union {Null}]
      BY <1>2, Zenon
    <2> QED BY <1>0, <2>1, TypesKept, Zenon
  <1>4. Listed' /\ Lefts' /\ OneAtATime'
    BY <1>0, ListedKept, MergesKept, Zenon
  <1>5. Inside'
    <2>1. Slots' = Slots
      BY Fixed, Zenon
    <2> QED BY <1>0, <2>1, Zenon DEF Inside
  <1>6. Calls'
    <2>1. ASSUME NEW v \in threads' PROVE Joins(v)' /\ Knows(v)'
      <3>1. v \in threads /\ v.dst \in Slots /\ v.src \in Slots
        BY <1>0, CallSegments, Zenon
      <3>2. v.dst \notin {t.dst, t.src} /\ v.src \notin {t.dst, t.src}
        BY <1>0, Zenon DEF Calls
      <3>3. Joins(v) /\ Knows(v)
        BY <1>0, <3>1, Zenon DEF Calls
      <3>4. head' = head /\ next' = next
        BY Zenon
      <3>5. Knows(v)'
        BY <3>1, <3>2, <3>3, <3>4, KnowsKept, Zenon
      <3>6. Open(v.of)' = Open(v.of) \ {} \/ Open(v.of)' = Open(v.of) \ {t.src}
        BY <1>1, Zenon
      <3>7. Joins(v)'
        BY <3>2, <3>3, <3>6, JoinsKept, Zenon
      <3> QED BY <3>5, <3>7, Zenon
    <2>2. threads' \subseteq threads /\ merge' = merge
      BY Zenon
    <2> QED BY <1>0, <2>1, <2>2, Zenon DEF Calls
  <1>7. Chained'
    <2> DEFINE L == Sources(t.of)
               O == Open(t.of)
    <2>1. /\ Merges' = Merges /\ before' = before /\ head' = head /\ next' = next
          /\ \A i : Sources(i)' = Sources(i)
      BY Fixed, Zenon
    <2>2. t.of \in Merges /\ IsList(L) /\ Proper(before, L)
      BY <1>0, CallSegments, Zenon
    <2>3. /\ Adjacent(L, O, a, b) /\ t.dst = L[a] /\ t.src = L[b] /\ (kind = "Broadcast" => a = 1)
          /\ P = O \ {L[b]} /\ a \in DOMAIN L
      BY Zenon DEF Segments, Adjacent
    <2>4. \A s : (\E v \in threads : Heading(v, s)) /\ s # t.dst => (\E v \in threads : Heading(v, s))'
      BY Zenon DEF Heading
    <2>5. ASSUME NEW i \in Merges, NEW c \in DOMAIN Sources(i), Sources(i)[c] # t.dst,
                 Opens(Sources(i), Open(i), c)
          PROVE  /\ IsTail(before, Sources(i), Open(i), c, tail'[Sources(i)[c]])
                 /\ \/ (\E v \in threads : Heading(v, Sources(i)[c]))'
                    \/ IsHead(before, Sources(i), Open(i), c, head[Sources(i)[c]])
      <3>1. /\ IsTail(before, Sources(i), Open(i), c, tail[Sources(i)[c]])
            /\ \/ \E v \in threads : Heading(v, Sources(i)[c])
               \/ IsHead(before, Sources(i), Open(i), c, head[Sources(i)[c]])
        BY <1>0, <2>5, Zenon DEF Chained
      <3>2. tail'[Sources(i)[c]] = tail[Sources(i)[c]]
        BY <1>0, <2>5, ProperSources, Zenon
      <3>3. (\E v \in threads : Heading(v, Sources(i)[c])) => (\E v \in threads : Heading(v, Sources(i)[c]))'
        BY <2>1, <2>4, <2>5, Zenon
      <3> QED BY <3>1, <3>2, <3>3, Zenon
    <2>6. ASSUME NEW c \in DOMAIN L, Opens(L, P, c)
          PROVE  /\ IsTail(before, L, P, c, tail'[L[c]])
                 /\ \/ (\E v \in threads : Heading(v, L[c]))'
                    \/ IsHead(before, L, P, c, head[L[c]])
      <3>1. CASE c = a
        BY <2>3, <3>1, Zenon
      <3>2. CASE c # a
        <4>1. L[c] # t.dst
          BY <2>2, <2>3, <3>2, Zenon DEF IsList
        <4>2. Opens(L, O, c)
          BY <2>3, <2>6, Zenon DEF Opens
        <4>3. /\ IsTail(before, L, O, c, tail'[L[c]])
              /\ (\E v \in threads : Heading(v, L[c]))' \/ IsHead(before, L, O, c, head[L[c]])
          BY <2>2, <2>5, <4>1, <4>2, Zenon
        <4> HIDE DEF L, O
        <4>4. \A x : /\ IsHead(before, L, O, c, x) => IsHead(before, L, P, c, x)
                     /\ IsTail(before, L, O, c, x) => IsTail(before, L, P, c, x)
          BY <2>2, <2>3, <2>6, <3>2, OthersStay, Zenon
        <4> QED BY <4>3, <4>4, Zenon
      <3> QED BY <3>1, <3>2, Zenon
    <2>7. ASSUME NEW i \in Merges, i # t.of, NEW c \in DOMAIN Sources(i) PROVE Sources(i)[c] # t.dst
      <3>1. Sources(i)[c] = L[a] => kind = "Broadcast" /\ c = a /\ c # 1
        BY <1>0, <2>2, <2>3, <2>7, SlotsApart
      <3> QED BY <2>3, <3>1, Zenon
    <2>8. ASSUME NEW i \in Merges
          PROVE  /\ \A c \in DOMAIN Sources(i) : Opens(Sources(i), Open(i)', c) =>
                      /\ IsTail(before, Sources(i), Open(i)', c, tail'[Sources(i)[c]])
                      /\ \/ (\E v \in threads : Heading(v, Sources(i)[c]))'
                         \/ IsHead(before, Sources(i), Open(i)', c, head[Sources(i)[c]])
                 /\ Linked(before, Sources(i), Open(i)', next)
      <3>1. CASE i = t.of
        BY <1>1, <2>6, <3>1, Zenon
      <3>2. CASE i # t.of
        <4>1. Linked(before, Sources(i), Open(i), next) /\ Open(i)' = Open(i)
          BY <1>0, <1>1, <3>2, Zenon DEF Chained
        <4> QED BY <2>5, <2>7, <3>2, <4>1, Zenon
      <3> QED BY <3>1, <3>2, Zenon
    <2> QED BY <2>1, <2>8, Zenon DEF Chained
  <1> QED BY <1>3, <1>4, <1>5, <1>6, <1>7, Zenon DEF Inv

(* An empty source ends its call; otherwise the call knows its pages.      *)
LEMMA LoadSourceStep ==
  ASSUME Inv, NEW t \in threads, LoadSource(t)
  PROVE  Inv'
  <1>0. Types /\ Listed /\ Lefts /\ Calls /\ Chained /\ Inside /\ OneAtATime
    BY Zenon DEF Inv
  <1>a. /\ t.at = "source" /\ t \in ThreadType
        /\ UNCHANGED <<node, next, head, tail, before, waiting, merge, stage>>
        /\ next \in [Pages -> Pages \union {Null}] /\ head \in [Slots -> Pages \union {Null}]
        /\ tail \in [Slots -> Pages \union {Null}]
    BY <1>0, Zenon DEF LoadSource, Types
  <1>b. next' = next /\ head' = head /\ tail' = tail
    BY <1>a, Zenon
  <1>c. t.src \in Slots /\ IsList(Sources(t.of)) /\ Proper(before, Sources(t.of))
    BY <1>0, CallSegments, Zenon
  <1>1. CASE head[t.src] = Null
    <2>1. threads' = threads \ {t}
      BY <1>1, Zenon DEF LoadSource
    <2>2. PICK a, b \in DOMAIN Sources(t.of) : Segments(t, a, b)
      BY <1>0, CallSegments, Zenon
    <2>3. PICK P : P = Open(t.of) \ {t.src}
      BY Zenon
    <2>4. /\ Adjacent(Sources(t.of), Open(t.of), a, b) /\ P = Open(t.of) \ {Sources(t.of)[b]}
          /\ IsHead(before, Sources(t.of), Open(t.of), b, Null)
          /\ IsTail(before, Sources(t.of), Open(t.of), a, tail[t.dst])
          /\ IsHead(before, Sources(t.of), Open(t.of), a, head[t.dst])
      BY <1>1, <1>a, <2>2, <2>3, Zenon DEF Segments, Heading
    <2>5. AllEmpty(before, Sources(t.of), Open(t.of), b)
      BY <1>c, <2>4, Zenon DEF IsHead, Proper
    <2>6. Linked(before, Sources(t.of), Open(t.of), next)
      BY <1>0, CallSegments, Zenon DEF Chained
    <2>7. /\ IsTail(before, Sources(t.of), P, a, tail[t.dst])
          /\ IsHead(before, Sources(t.of), P, a, head[t.dst])
          /\ Linked(before, Sources(t.of), P, next)
      BY <1>c, <2>4, <2>5, <2>6, EmptyJoins
    <2> QED BY <1>a, <1>b, <2>1, <2>2, <2>3, <2>7, CallEnds, Zenon
  <1>2. CASE head[t.src] # Null
    <2>0. PICK u : u = [t EXCEPT !.at = "dest", !.srcHead = head[t.src], !.srcTail = tail[t.src]]
      BY Zenon
    <2>1. threads' = (threads \ {t}) \union {u}
      BY <1>2, <2>0, Zenon DEF LoadSource, Becomes
    <2>2. head[t.src] \in Pages \union {Null} /\ tail[t.src] \in Pages \union {Null}
      BY <1>a, <1>c, Zenon
    <2>3. /\ u \in ThreadType /\ u.of = t.of /\ u.dst = t.dst /\ u.src = t.src /\ u.at = "dest"
          /\ u.srcHead = head[t.src] /\ u.srcTail = tail[t.src]
      <3>1. t \in ThreadType
        BY <1>a, Zenon
      <3> QED BY <2>0, <2>2, <3>1, Zenon DEF ThreadType
    <2>4. Knows(u)'
      BY <1>2, <1>b, <2>3, Zenon DEF Knows
    <2>5. Inside' /\ \A j \in Merges : Linked(before, Sources(j), Open(j), next')
      BY <1>0, <1>a, <1>b, Fixed, Zenon DEF Inside, Chained
    <2>6. /\ t.at # "tail" /\ UNCHANGED <<node, before, waiting, merge, stage, tail>>
          /\ next' \in [Pages -> Pages \union {Null}] /\ head' \in [Slots -> Pages \union {Null}]
          /\ \A s \in Slots : s # t.dst => head'[s] = head[s]
          /\ head'[t.dst] = head[t.dst]
          /\ \A v \in threads \ {t} : v.at = "tail" /\ v.dstTail # Null => next'[v.dstTail] = next[v.dstTail]
      BY <1>a, <1>b, Zenon
    <2> QED BY <2>1, <2>3, <2>4, <2>5, <2>6, CallGoesOn
  <1> QED BY <1>1, <1>2, Zenon

(* chain_onto reads the tail of its destination.                           *)
LEMMA LoadDestStep ==
  ASSUME Inv, NEW t \in threads, LoadDest(t)
  PROVE  Inv'
  <1>0. Types /\ Listed /\ Lefts /\ Calls /\ Chained /\ Inside /\ OneAtATime
    BY Zenon DEF Inv
  <1>a. /\ t.at = "dest" /\ t \in ThreadType /\ Knows(t)
        /\ UNCHANGED <<node, next, head, tail, before, waiting, merge, stage>>
        /\ next \in [Pages -> Pages \union {Null}] /\ head \in [Slots -> Pages \union {Null}]
        /\ tail \in [Slots -> Pages \union {Null}]
    BY <1>0, Zenon DEF LoadDest, Types, Calls
  <1>b. next' = next /\ head' = head /\ tail' = tail
    BY <1>a, Zenon
  <1>u. PICK u : u = [t EXCEPT !.at = "link", !.dstTail = tail[t.dst]]
    BY Zenon
  <1>1. threads' = (threads \ {t}) \union {u}
    BY <1>u, Zenon DEF LoadDest, Becomes
  <1>2. tail[t.dst] \in Pages \union {Null}
    BY <1>0, <1>a, CallSegments, Zenon
  <1>3. /\ u \in ThreadType /\ u.of = t.of /\ u.dst = t.dst /\ u.src = t.src /\ u.at = "link"
        /\ u.srcHead = t.srcHead /\ u.srcTail = t.srcTail /\ u.dstTail = tail[t.dst]
    <2>1. t \in ThreadType
      BY <1>a, Zenon
    <2> QED BY <1>u, <1>2, <2>1, Zenon DEF ThreadType
  <1>4. Knows(u)'
    BY <1>a, <1>b, <1>3, Zenon DEF Knows
  <1>5. Inside' /\ \A j \in Merges : Linked(before, Sources(j), Open(j), next')
    BY <1>0, <1>a, <1>b, Fixed, Zenon DEF Inside, Chained
  <1>6. /\ t.at # "tail" /\ UNCHANGED <<node, before, waiting, merge, stage, tail>>
        /\ next' \in [Pages -> Pages \union {Null}] /\ head' \in [Slots -> Pages \union {Null}]
        /\ \A s \in Slots : s # t.dst => head'[s] = head[s]
        /\ head'[t.dst] = head[t.dst]
        /\ \A v \in threads \ {t} : v.at = "tail" /\ v.dstTail # Null => next'[v.dstTail] = next[v.dstTail]
    BY <1>a, <1>b, Zenon
  <1> QED BY <1>1, <1>3, <1>4, <1>5, <1>6, CallGoesOn

(* chain_onto stores the new tail: two segments have become one.           *)
LEMMA StoreTailStep ==
  ASSUME Inv, NEW t \in threads, StoreTail(t)
  PROVE  Inv'
  <1>0. Types /\ Listed /\ Lefts /\ Calls /\ Chained /\ Inside /\ OneAtATime
    BY Zenon DEF Inv
  <1>a. /\ t.at = "tail" /\ t \in ThreadType /\ Knows(t) /\ threads' = threads \ {t}
        /\ tail' = [tail EXCEPT ![t.dst] = t.srcTail]
        /\ UNCHANGED <<node, next, head, before, waiting, merge, stage>>
        /\ tail \in [Slots -> Pages \union {Null}]
    BY <1>0, Zenon DEF StoreTail, Types, Calls
  <1>b. t.dst \in Slots /\ t.src \in Slots /\ IsList(Sources(t.of)) /\ Proper(before, Sources(t.of))
    BY <1>0, CallSegments, Zenon
  <1>c. t.srcTail \in Pages \union {Null}
    BY <1>a, Zenon DEF ThreadType
  <1>1. /\ tail' \in [Slots -> Pages \union {Null}] /\ tail'[t.dst] = t.srcTail
        /\ \A s \in Slots : s # t.dst => tail'[s] = tail[s]
    BY <1>a, <1>b, <1>c, Zenon
  <1>2. PICK a, b \in DOMAIN Sources(t.of) : Segments(t, a, b)
    BY <1>0, CallSegments, Zenon
  <1>3. PICK P : P = Open(t.of) \ {t.src}
    BY Zenon
  <1>4. /\ t.srcHead = head[t.src] /\ t.srcTail = tail[t.src] /\ t.srcHead # Null
        /\ t.dstTail = tail[t.dst]
        /\ tail[t.dst] = Null => head[t.dst] = head[t.src]
        /\ tail[t.dst] # Null => next[tail[t.dst]] = head[t.src]
    BY <1>a, Zenon DEF Knows
  <1>5. /\ Adjacent(Sources(t.of), Open(t.of), a, b) /\ P = Open(t.of) \ {Sources(t.of)[b]}
        /\ IsHead(before, Sources(t.of), Open(t.of), b, head[t.src]) /\ head[t.src] # Null
        /\ IsTail(before, Sources(t.of), Open(t.of), b, tail'[t.dst])
        /\ IsTail(before, Sources(t.of), Open(t.of), a, tail[t.dst])
        /\ tail[t.dst] # Null => IsHead(before, Sources(t.of), Open(t.of), a, head[t.dst])
    BY <1>1, <1>2, <1>3, <1>4, Zenon DEF Segments, Heading
  <1>6. Linked(before, Sources(t.of), Open(t.of), next)
    BY <1>0, CallSegments, Zenon DEF Chained
  <1>7. /\ IsTail(before, Sources(t.of), P, a, tail'[t.dst])
        /\ \A h : IsHead(before, Sources(t.of), Open(t.of), a, h) /\ tail[t.dst] # Null =>
                      IsHead(before, Sources(t.of), P, a, h)
        /\ tail[t.dst] = Null => IsHead(before, Sources(t.of), P, a, head[t.src])
        /\ \A f : Linked(before, Sources(t.of), Open(t.of), f)
                  /\ (tail[t.dst] # Null => f[tail[t.dst]] = head[t.src])
                  => Linked(before, Sources(t.of), P, f)
    <2>1. PICK L, O, e, x, y :
                 /\ L = Sources(t.of) /\ O = Open(t.of)
                 /\ e = tail[t.dst] /\ x = tail'[t.dst] /\ y = head[t.src]
      BY Zenon
    <2>2. /\ IsList(L) /\ Proper(before, L) /\ Adjacent(L, O, a, b) /\ P = O \ {L[b]}
          /\ IsHead(before, L, O, b, y) /\ y # Null /\ IsTail(before, L, O, b, x)
          /\ IsTail(before, L, O, a, e)
      BY <1>b, <1>5, <2>1, Zenon
    <2>3. /\ IsTail(before, L, P, a, x)
          /\ \A h : IsHead(before, L, O, a, h) /\ e # Null => IsHead(before, L, P, a, h)
          /\ e = Null => IsHead(before, L, P, a, y)
          /\ \A f : Linked(before, L, O, f) /\ (e # Null => f[e] = y) => Linked(before, L, P, f)
      BY <2>2, PagesJoin
    <2> QED BY <2>1, <2>3, Zenon
  <1>8. /\ IsHead(before, Sources(t.of), P, a, head[t.dst])
        /\ Linked(before, Sources(t.of), P, next)
    BY <1>4, <1>5, <1>6, <1>7, Zenon
  <1> QED BY <1>a, <1>1, <1>2, <1>3, <1>7, <1>8, CallEnds, Zenon

(* Two merges of a broadcast have the same upstreams.                      *)
LEMMA SharedUpstreams ==
  ASSUME Listed, kind = "Broadcast", NEW i \in Merges, NEW j \in Merges
  PROVE  /\ DOMAIN Sources(j) = DOMAIN Sources(i)
         /\ \A k \in DOMAIN Sources(i) : k # 1 => Sources(j)[k] = Sources(i)[k]
  BY DEF Listed

(* The link of a call keeps every list of sources linked.                  *)
LEMMA LinksKept ==
  ASSUME Types, Listed, Chained, NEW i \in Merges,
         NEW k \in DOMAIN Sources(i), NEW m \in DOMAIN Sources(i),
         Neighbours(before, Sources(i), k, m), NEW g,
         g = [next EXCEPT ![LastPage(before, Sources(i)[k])] = FirstPage(Sources(i)[m])],
         NEW j \in Merges
  PROVE  Linked(before, Sources(j), Open(j), g)
  <1>1. PICK L, M, O : L = Sources(i) /\ M = Sources(j) /\ O = Open(j)
    BY Zenon
  <1>2. PICK s, r : s = L[k] /\ r = L[m]
    BY Zenon
  <1>3. Linked(before, M, O, next) /\ next \in [Pages -> Pages \union {Null}]
    BY <1>1, Zenon DEF Chained, Types
  <1>4. /\ IsList(L) /\ IsList(M) /\ k \in DOMAIN L /\ m \in DOMAIN L
        /\ \A q \in DOMAIN M : ~ Empty(before, M[q]) => LastPage(before, M[q]) \in Pages
    BY <1>1, ProperSources, Zenon DEF Listed
  <1>5. Neighbours(before, L, k, m) /\ LastPage(before, s) \in Pages /\ k < m
    BY <1>1, <1>2, ProperSources, Zenon DEF Neighbours
  <1>6. g[LastPage(before, s)] = FirstPage(r)
    BY <1>1, <1>2, <1>3, <1>5, Zenon
  <1>7. ASSUME NEW q \in DOMAIN M, ~ Empty(before, M[q]), M[q] # s
        PROVE  g[LastPage(before, M[q])] = next[LastPage(before, M[q])]
    <2>1. LastPage(before, M[q]) # LastPage(before, s)
      BY <1>7 DEF LastPage
    <2> QED BY <1>1, <1>2, <1>3, <1>4, <1>7, <2>1, Zenon
  <1>8. ASSUME NEW q \in DOMAIN M, M[q] = s
        PROVE  \E p \in DOMAIN M : M[p] = r /\ Neighbours(before, M, q, p)
    <2>1. CASE i = j
      <3>1. q = k
        BY <1>1, <1>2, <1>4, <1>8, <2>1, Zenon DEF IsList
      <3> QED BY <1>1, <1>2, <1>5, <2>1, <3>1, Zenon
    <2>2. CASE i # j
      <3>1. kind = "Broadcast" /\ k = q /\ k # 1
        <4>1. Sources(i)[k] = Sources(j)[q] /\ q \in DOMAIN Sources(j)
          BY <1>1, <1>2, <1>8, Zenon
        <4> QED BY <2>2, <4>1, SlotsApart, Zenon
      <3>2. DOMAIN M = DOMAIN L /\ \A p \in DOMAIN L : p # 1 => M[p] = L[p]
        BY <1>1, <3>1, SharedUpstreams, Zenon
      <3>3. \A p \in DOMAIN L : k <= p => M[p] = L[p]
        BY <1>4, <3>1, <3>2 DEF IsList
      <3>4. \A p \in DOMAIN L : k < p => k <= p
        BY <1>4 DEF IsList
      <3>5. M[k] = L[k] /\ M[m] = L[m] /\ \A p \in DOMAIN M : k < p => M[p] = L[p]
        BY <1>4, <1>5, <1>8, <1>2, <3>1, <3>2, <3>3, <3>4, Zenon
      <3>6. Neighbours(before, M, k, m)
        BY <1>5, <3>2, <3>5, Zenon DEF Neighbours
      <3> QED BY <1>2, <1>4, <3>1, <3>2, <3>5, <3>6, Zenon
    <2> QED BY <2>1, <2>2, Zenon
  <1>9. Linked(before, M, O, g)
    <2>1. PICK f, B : f = next /\ B = before
      BY Zenon
    <2>2. Linked(B, M, O, f) /\ Relinks(B, M, f, g, s, r)
      BY <1>3, <1>6, <1>7, <1>8, <2>1, Zenon DEF Relinks
    <2>3. Linked(B, M, O, g)
      BY <1>4, <2>2, LinkKeeps, Zenon
    <2> QED BY <2>1, <2>3, Zenon
  <1> QED BY <1>1, <1>9, Zenon

(* chain_onto links the chains, by the old tail or, if there is none, by   *)
(* the head.                                                               *)
LEMMA LinkStep ==
  ASSUME Inv, NEW t \in threads, Link(t)
  PROVE  Inv'
  <1>0. Types /\ Listed /\ Lefts /\ Calls /\ Chained /\ Inside /\ OneAtATime
    BY Zenon DEF Inv
  <1>a. /\ t.at = "link" /\ t.at # "tail" /\ t \in ThreadType /\ Knows(t)
        /\ UNCHANGED <<node, before, waiting, merge, stage, tail>>
        /\ next \in [Pages -> Pages \union {Null}] /\ head \in [Slots -> Pages \union {Null}]
    BY <1>0, Zenon DEF Link, Types, Calls
  <1>b. t.dst \in Slots /\ t.src \in Slots /\ t.dst # t.src
    BY <1>0, CallSegments, Zenon
  <1>c. /\ t.srcHead = head[t.src] /\ t.srcTail = tail[t.src] /\ t.srcHead # Null
        /\ t.dstTail = tail[t.dst] /\ tail' = tail
    BY <1>a, Zenon DEF Knows
  <1>d. t.srcHead \in Pages \union {Null} /\ t.dstTail \in Pages \union {Null}
    BY <1>a, Zenon DEF ThreadType
  <1>u. PICK u : u = [t EXCEPT !.at = "tail"]
    BY Zenon
  <1>1. threads' = (threads \ {t}) \union {u}
    BY <1>u, Zenon DEF Link, Becomes
  <1>2. /\ u \in ThreadType /\ u.of = t.of /\ u.dst = t.dst /\ u.src = t.src /\ u.at = "tail"
        /\ u.srcHead = t.srcHead /\ u.srcTail = t.srcTail /\ u.dstTail = t.dstTail
    <2>1. t \in ThreadType
      BY <1>a, Zenon
    <2> QED BY <1>u, <2>1 DEF ThreadType
  <1>3. CASE t.dstTail = Null
    <2>1. head' = [head EXCEPT ![t.dst] = t.srcHead] /\ next' = next
      BY <1>3, Zenon DEF Link
    <2>2. /\ head' \in [Slots -> Pages \union {Null}] /\ head'[t.dst] = t.srcHead
          /\ \A s \in Slots : s # t.dst => head'[s] = head[s]
      BY <1>a, <1>b, <1>d, <2>1, Zenon
    <2>3. Knows(u)'
      BY <1>3, <1>b, <1>c, <1>2, <2>2, Zenon DEF Knows
    <2>4. Inside' /\ \A j \in Merges : Linked(before, Sources(j), Open(j), next')
      BY <1>0, <1>a, <2>1, Fixed, Zenon DEF Inside, Chained
    <2>5. Heading(u, t.dst)
      BY <1>3, <1>2, Zenon DEF Heading
    <2>6. /\ next' \in [Pages -> Pages \union {Null}]
          /\ \A v \in threads \ {t} : v.at = "tail" /\ v.dstTail # Null => next'[v.dstTail] = next[v.dstTail]
      BY <1>a, <2>1, Zenon
    <2> QED BY <1>a, <1>1, <1>2, <2>2, <2>3, <2>4, <2>5, <2>6, CallGoesOn
  <1>4. CASE t.dstTail # Null
    <2>1. next' = [next EXCEPT ![t.dstTail] = t.srcHead] /\ head' = head
      BY <1>4, Zenon DEF Link
    <2>2. /\ next' \in [Pages -> Pages \union {Null}] /\ next'[t.dstTail] = t.srcHead
          /\ \A p \in Pages : p # t.dstTail => next'[p] = next[p]
      BY <1>4, <1>a, <1>d, <2>1, Zenon
    <2>3. Knows(u)'
      BY <1>4, <1>c, <1>2, <2>1, <2>2, Zenon DEF Knows
    <2>4. PICK a, b \in DOMAIN Sources(t.of) : Segments(t, a, b)
      BY <1>0, CallSegments, Zenon
    <2>5. t.of \in Merges /\ IsList(Sources(t.of)) /\ Proper(before, Sources(t.of))
      BY <1>0, CallSegments, Zenon
    <2>6. PICK k, m \in DOMAIN Sources(t.of) :
                 /\ Neighbours(before, Sources(t.of), k, m)
                 /\ t.dstTail = LastPage(before, Sources(t.of)[k])
                 /\ t.srcHead = FirstPage(Sources(t.of)[m])
      <3>1. /\ Adjacent(Sources(t.of), Open(t.of), a, b)
            /\ IsTail(before, Sources(t.of), Open(t.of), a, t.dstTail)
            /\ IsHead(before, Sources(t.of), Open(t.of), b, t.srcHead)
        BY <1>c, <2>4, Zenon DEF Segments
      <3>2. PICK L, O : L = Sources(t.of) /\ O = Open(t.of)
        BY Zenon
      <3>3. \E k, m \in DOMAIN L :
               /\ Neighbours(before, L, k, m) /\ t.dstTail = LastPage(before, L[k])
               /\ t.srcHead = FirstPage(L[m])
               /\ InSegment(L, O, a, k) /\ InSegment(L, O, b, m)
        BY <1>4, <1>c, <2>5, <3>1, <3>2, Ends
      <3> QED BY <3>2, <3>3, Zenon
    <2>7. \A j \in Merges : Linked(before, Sources(j), Open(j), next')
      BY <1>0, <2>1, <2>5, <2>6, LinksKept, Zenon
    <2>8. Inside'
      <3>1. Slots' = Slots /\ before' = before
        BY <1>a, Fixed, Zenon
      <3>2. ASSUME NEW s \in Slots, NEW x \in 1..(Len(before[s]) - 1)
            PROVE  next'[<<s, x>>] = <<s, x + 1>>
        <4>1. next[<<s, x>>] = <<s, x + 1>>
          BY <1>0, Zenon DEF Inside
        <4>2. Len(before[s]) \in 0..node.pages /\ node.pages \in Nat
          BY <1>0, RoutingAssumption, Zenon DEF Types
        <4>3. <<s, x>> # t.dstTail
          BY <2>6, <4>2 DEF LastPage
        <4>4. x \in 1..node.pages
          BY <4>2
        <4>5. <<s, x>> \in Pages
          BY <4>4 DEF Pages
        <4> QED BY <2>2, <4>1, <4>3, <4>5, Zenon
      <3> QED BY <3>1, <3>2, Zenon DEF Inside
    <2>9. ASSUME NEW v \in threads \ {t}, v.at = "tail", v.dstTail # Null
          PROVE  next'[v.dstTail] = next[v.dstTail]
      <3>1. v.dstTail = tail[v.dst]
        BY <1>0, <2>9, Zenon DEF Calls, Knows
      <3>2. tail[t.dst] # tail[v.dst]
        BY <1>0, <1>4, <1>c, TailsApart, Zenon
      <3>3. v \in ThreadType
        BY <1>0, Zenon DEF Types
      <3>4. v.dstTail \in Pages
        BY <2>9, <3>3, Zenon DEF ThreadType
      <3> QED BY <1>c, <2>2, <3>1, <3>2, <3>4, Zenon
    <2>10. /\ head' \in [Slots -> Pages \union {Null}] /\ head'[t.dst] = head[t.dst]
           /\ \A s \in Slots : s # t.dst => head'[s] = head[s]
      BY <1>a, <2>1, Zenon
    <2> QED BY <1>a, <1>1, <1>2, <2>2, <2>3, <2>7, <2>8, <2>9, <2>10, CallGoesOn
  <1> QED BY <1>3, <1>4, Zenon

(***************************************************************************)
(* The steps of a merge                                                    *)
(***************************************************************************)

(* A step that changes what is left of the merges and starts calls.        *)
LEMMA MergeStep ==
  ASSUME Inv, UNCHANGED <<node, before, head, tail, next>>, Types', Lefts', OneAtATime',
         \A j \in Merges : Open(j)' = Open(j), threads \subseteq threads',
         \A t \in threads' : t.of \in DOMAIN merge' /\ t.src \notin Range(merge'[t.of].left),
         \A t \in threads' \ threads : t.at = "source" /\ Joins(t)',
         \A t, u \in threads' : t # u => {t.dst, t.src} \intersect {u.dst, u.src} = {}
  PROVE  Inv'
  <1>0. Types /\ Listed /\ Lefts /\ Calls /\ Chained /\ Inside /\ OneAtATime
    BY Zenon DEF Inv
  <1>a. head' = head /\ tail' = tail /\ next' = next /\ before' = before
    BY Zenon
  <1>1. Listed'
    BY <1>0, ListedKept, Zenon
  <1>2. Chained'
    BY <1>0, ChainedKept, Zenon
  <1>3. Inside'
    <2>1. Slots' = Slots
      BY Fixed, Zenon
    <2> QED BY <1>0, <1>a, <2>1, Zenon DEF Inside
  <1>4. ASSUME NEW t \in threads' PROVE Joins(t)' /\ Knows(t)'
    <2>1. CASE t \in threads
      <3>1. Joins(t) /\ Knows(t) /\ t.of \in Merges
        BY <1>0, <2>1, Zenon DEF Calls, Types
      <3>2. Knows(t)'
        BY <1>a, <3>1, KnowsKept, Zenon
      <3>3. Open(t.of)' = Open(t.of) \ {}
        BY <3>1, Zenon
      <3>4. Joins(t)'
        BY <3>1, <3>3, JoinsKept, Zenon
      <3> QED BY <3>2, <3>4, Zenon
    <2>2. CASE t \notin threads
      <3>1. t.at = "source" /\ Joins(t)'
        BY <2>2, Zenon
      <3> QED BY <3>1, Zenon DEF Knows
    <2> QED BY <2>1, <2>2, Zenon
  <1>5. Calls'
    BY <1>4, Zenon DEF Calls
  <1> QED BY <1>1, <1>2, <1>3, <1>5, Zenon DEF Inv

(* No call of a merge is under way once it is joined.                      *)
LEMMA NoSources ==
  ASSUME NEW i, \A t \in threads : t.of # i
  PROVE  Srcs(i) = {}
  BY Zenon DEF Srcs

(* merge_into starts: every upstream of its group opens a segment.         *)
LEMMA StartMergeStep ==
  ASSUME Inv, NEW i \in Targets, StartMerge(i)
  PROVE  Inv'
  <1>0. Types /\ Listed /\ Lefts /\ Calls /\ OneAtATime
    BY Zenon DEF Inv
  <1>a. /\ stage = "route" /\ i \in waiting /\ waiting' = waiting \ {i}
        /\ UNCHANGED <<node, next, head, tail, before, threads, stage>>
        /\ kind = "Broadcast" => DOMAIN merge = {}
        /\ merge' = [j \in DOMAIN merge \union {i} |->
                       IF j = i THEN [left |-> Group(i), tree |-> Len(Group(i)) > Threshold]
                       ELSE merge[j]]
    BY Zenon DEF StartMerge, Start
  <1>b. /\ kind' = kind /\ Slots' = Slots /\ Pages' = Pages /\ Merges' = Merges
        /\ \A j : Group(j)' = Group(j) /\ Sources(j)' = Sources(j)
    BY <1>a, Fixed, Zenon
  <1>1. i \in Merges /\ i \notin DOMAIN merge
    BY <1>0, <1>a, Zenon DEF Types
  <1>2. /\ DOMAIN merge' = DOMAIN merge \union {i}
        /\ merge'[i] = [left |-> Group(i), tree |-> Len(Group(i)) > Threshold]
        /\ merge'[i].left = Group(i) /\ DOMAIN merge'[i] = {"left", "tree"}
        /\ ~ (Len(Group(i)) > Threshold) => ~ merge'[i].tree
        /\ \A j \in DOMAIN merge : merge'[j] = merge[j]
    <2>1. /\ DOMAIN merge' = DOMAIN merge \union {i}
          /\ merge'[i] = [left |-> Group(i), tree |-> Len(Group(i)) > Threshold]
          /\ \A j \in DOMAIN merge : merge'[j] = merge[j]
      BY <1>a, <1>1, Zenon
    <2>2. ASSUME NEW r, NEW g, NEW l, r = [left |-> g, tree |-> l > Threshold]
          PROVE  r.left = g /\ (~ (l > Threshold) => ~ r.tree) /\ DOMAIN r = {"left", "tree"}
      BY <2>2, Zenon
    <2>3. /\ merge'[i].left = Group(i) /\ (~ (Len(Group(i)) > Threshold) => ~ merge'[i].tree)
          /\ DOMAIN merge'[i] = {"left", "tree"}
      <3>1. PICK r, g, l : r = merge'[i] /\ g = Group(i) /\ l = Len(Group(i))
        BY Zenon
      <3>2. r.left = g /\ (~ (l > Threshold) => ~ r.tree) /\ DOMAIN r = {"left", "tree"}
        BY <2>1, <2>2, <3>1, Zenon
      <3> QED BY <3>1, <3>2, Zenon
    <2> QED BY <2>1, <2>3, Zenon
  <1>3. \A t \in threads : t.of \in DOMAIN merge /\ t.of # i
    BY <1>0, <1>1, Zenon DEF Calls
  <1>4. \A j \in Merges : Open(j)' = Open(j)
    <2>1. \A j : Srcs(j)' = Srcs(j)
      BY <1>a, Zenon DEF Srcs
    <2>2. Srcs(i) = {}
      BY <1>3, NoSources, Zenon
    <2>3. Open(i) = Range(Group(i)) /\ Open(i)' = Range(Group(i)) \union Srcs(i)
      BY <1>a, <1>b, <1>2, <2>1, Zenon DEF Open
    <2>4. ASSUME NEW j, j # i PROVE Open(j)' = Open(j)
      BY <1>a, <1>b, <1>2, <2>1, <2>4, Zenon DEF Open
    <2> QED BY <2>2, <2>3, <2>4, Zenon
  <1>5. Types'
    <2>1. ThreadType' = ThreadType
      BY <1>b, Zenon DEF ThreadType, Targets
    <2>2. waiting' \subseteq Merges /\ DOMAIN merge' \subseteq Merges \ waiting'
      BY <1>0, <1>a, <1>1, <1>2, Zenon DEF Types
    <2>3. stage' = "route"
      BY <1>a, Zenon
    <2> QED BY <1>0, <1>a, <1>b, <2>1, <2>2, <2>3, Zenon DEF Types
  <1>6. Lefts'
    <2>1. ASSUME NEW j \in DOMAIN Group(i), NEW k \in DOMAIN Group(i),
                 NEW p \in DOMAIN Sources(i), NEW q \in DOMAIN Sources(i),
                 j < k, Sources(i)[p] = Group(i)[j], Sources(i)[q] = Group(i)[k]
          PROVE  p < q
      <3>1. /\ IsList(Sources(i)) /\ Group(i) \in Seq(Range(Group(i)))
            /\ j + 1 \in DOMAIN Sources(i) /\ Sources(i)[j + 1] = Group(i)[j]
            /\ k + 1 \in DOMAIN Sources(i) /\ Sources(i)[k + 1] = Group(i)[k]
        BY <1>0, <1>1 DEF Listed
      <3>2. p = j + 1 /\ q = k + 1
        BY <2>1, <3>1, Zenon DEF IsList
      <3>3. j \in Nat /\ k \in Nat
        BY <3>1
      <3> QED BY <2>1, <3>2, <3>3
    <2>2. /\ Group(i) \in Seq(Range(Group(i))) /\ (kind = "Broadcast" => Len(Group(i)) <= Threshold)
          /\ IsList(Sources(i)) /\ 1 \in DOMAIN Sources(i)
          /\ \A k \in DOMAIN Group(i) : k + 1 \in DOMAIN Sources(i) /\ Sources(i)[k + 1] = Group(i)[k]
      BY <1>0, <1>1 DEF Listed
    <2>3. kind = "Broadcast" => ~ (Len(Group(i)) > Threshold)
      BY <2>2, RoutingAssumption
    <2>4. kind = "Broadcast" => ~ merge'[i].tree
      BY <1>2, <2>3, Zenon
    <2>5. \A k \in DOMAIN Group(i) : Group(i)[k] \in Range(Sources(i)) /\ k + 1 # 1
      BY <2>2 DEF Range
    <2>6. \A k \in DOMAIN Group(i) : Group(i)[k] # Sources(i)[1]
      BY <2>2, <2>5, Zenon DEF IsList
    <2>7. Group(i) \in Seq(Range(Sources(i)))
      <3>1. Range(Group(i)) \subseteq Range(Sources(i))
        BY <2>5, Zenon DEF Range
      <3> QED BY <2>2, <3>1
    <2>8. InOrder(Sources(i), Group(i))
      BY <2>1, <2>6, <2>7, Zenon DEF InOrder
    <2> QED BY <1>0, <1>b, <1>2, <2>4, <2>8, Zenon DEF Lefts
  <1>7. OneAtATime'
    BY <1>a, <1>b, <1>2, Zenon DEF OneAtATime
  <1>8. /\ \A t \in threads : t.of \in DOMAIN merge' /\ t.src \notin Range(merge'[t.of].left)
        /\ \A t, u \in threads : t # u => {t.dst, t.src} \intersect {u.dst, u.src} = {}
    BY <1>0, <1>2, <1>3, Zenon DEF Calls
  <1> QED BY <1>a, <1>4, <1>5, <1>6, <1>7, <1>8, MergeStep, Zenon

(* merge_into returns: one segment is left.                                *)
LEMMA EndMergeStep ==
  ASSUME Inv, NEW i \in Targets, EndMerge(i)
  PROVE  Inv'
  <1>0. Types /\ Listed /\ Lefts /\ Calls /\ OneAtATime
    BY Zenon DEF Inv
  <1>a. /\ i \in DOMAIN merge /\ merge[i].left = <<>> /\ \A t \in threads : t.of # i
        /\ UNCHANGED <<node, next, head, tail, before, waiting, threads, stage>>
        /\ merge' = [j \in DOMAIN merge \ {i} |-> merge[j]]
    BY Zenon DEF EndMerge, Leave, Joined
  <1>b. /\ kind' = kind /\ Slots' = Slots /\ Pages' = Pages /\ Merges' = Merges
        /\ \A j : Group(j)' = Group(j) /\ Sources(j)' = Sources(j)
    BY <1>a, Fixed, Zenon
  <1>1. DOMAIN merge' = DOMAIN merge \ {i} /\ \A j \in DOMAIN merge' : merge'[j] = merge[j]
    BY <1>a, Zenon
  <1>2. \A j \in Merges : Open(j)' = Open(j)
    <2>1. \A j : Srcs(j)' = Srcs(j)
      BY <1>a, Zenon DEF Srcs
    <2>2. Srcs(i) = {}
      BY <1>a, NoSources, Zenon
    <2>3. Range(merge[i].left) = {}
      BY <1>a DEF Range
    <2>4. Open(i) = {} /\ Open(i)' = {}
      <3>1. i \notin waiting /\ waiting' = waiting
        BY <1>0, <1>a, Zenon DEF Types
      <3> QED BY <1>a, <1>1, <2>2, <2>3, <3>1, Zenon DEF Open
    <2>5. ASSUME NEW j, j # i PROVE Open(j)' = Open(j)
      BY <1>a, <1>b, <1>1, <2>1, <2>5, Zenon DEF Open
    <2> QED BY <2>4, <2>5, Zenon
  <1>3. Types'
    <2>1. ThreadType' = ThreadType
      BY <1>b, Zenon DEF ThreadType, Targets
    <2>2. DOMAIN merge' \subseteq Merges \ waiting /\ (DOMAIN merge = {} => DOMAIN merge' = {})
      BY <1>0, <1>1, Zenon DEF Types
    <2> QED BY <1>0, <1>a, <1>b, <2>1, <2>2, Zenon DEF Types
  <1>4. Lefts' /\ OneAtATime'
    BY <1>0, <1>b, <1>1, Zenon DEF Lefts, OneAtATime
  <1>5. /\ \A t \in threads : t.of \in DOMAIN merge' /\ t.src \notin Range(merge'[t.of].left)
        /\ \A t, u \in threads : t # u => {t.dst, t.src} \intersect {u.dst, u.src} = {}
    BY <1>0, <1>a, <1>1, Zenon DEF Calls
  <1> QED BY <1>a, <1>2, <1>3, <1>4, <1>5, MergeStep, Zenon

(***************************************************************************)
(* The order of what is left                                               *)
(***************************************************************************)

(* Every slot that is left has one position, and they differ.              *)
LEMMA OrderFacts ==
  ASSUME NEW L, IsList(L), NEW l, InOrder(L, l)
  PROVE  /\ Len(l) \in Nat /\ DOMAIN l = 1..Len(l)
         /\ \A j \in DOMAIN l : \E p \in DOMAIN L : p # 1 /\ L[p] = l[j]
         /\ \A j, k \in DOMAIN l : l[j] = l[k] => j = k
  <1>1. Len(l) \in Nat /\ DOMAIN l = 1..Len(l) /\ \A j \in DOMAIN l : l[j] \in Range(L)
    BY DEF InOrder
  <1>2. \A j \in DOMAIN l : \E p \in DOMAIN L : p # 1 /\ L[p] = l[j]
    BY <1>1, Zenon DEF InOrder, Range
  <1>3. ASSUME NEW j \in DOMAIN l, NEW k \in DOMAIN l, l[j] = l[k], j < k PROVE FALSE
    <2>1. PICK p \in DOMAIN L : L[p] = l[j]
      BY <1>2, Zenon
    <2>2. p < p
      BY <1>3, <2>1, Zenon DEF InOrder
    <2> QED BY <2>2 DEF IsList
  <1>4. \A j, k \in DOMAIN l : j < k \/ k < j \/ j = k
    BY <1>1
  <1> QED BY <1>1, <1>2, <1>3, <1>4, Zenon

(* Two that follow one another are next to one another among the open      *)
(* slots.                                                                  *)
LEMMA PairAdjacent ==
  ASSUME NEW L, IsList(L), NEW l, InOrder(L, l), NEW j, j \in DOMAIN l, j + 1 \in DOMAIN l
  PROVE  \E a, b \in DOMAIN L : L[a] = l[j] /\ L[b] = l[j + 1] /\ Adjacent(L, Range(l), a, b)
  <1>0. Len(l) \in Nat /\ DOMAIN l = 1..Len(l)
    BY OrderFacts, Zenon
  <1>1. PICK a \in DOMAIN L : L[a] = l[j]
    BY OrderFacts
  <1>2. PICK b \in DOMAIN L : L[b] = l[j + 1]
    BY OrderFacts
  <1>3. j < j + 1 /\ \A k \in DOMAIN l : k < j \/ k = j \/ k = j + 1 \/ j + 1 < k
    BY <1>0
  <1>4. a < b
    BY <1>1, <1>2, <1>3, Zenon DEF InOrder
  <1>5. L[a] \in Range(l) /\ L[b] \in Range(l)
    BY <1>1, <1>2, Zenon DEF Range
  <1>6. ASSUME NEW m \in DOMAIN L, a < m, m < b, L[m] \in Range(l) PROVE FALSE
    <2>1. PICK k \in DOMAIN l : L[m] = l[k]
      BY <1>6, Zenon DEF Range
    <2>2. /\ k < j => m < a
          /\ j + 1 < k => b < m
          /\ k = j => m = a
          /\ k = j + 1 => m = b
      BY <1>1, <1>2, <2>1, Zenon DEF InOrder, IsList
    <2> QED BY <1>3, <1>6, <2>2 DEF IsList
  <1>7. Adjacent(L, Range(l), a, b)
    BY <1>4, <1>5, <1>6, Zenon DEF Adjacent, Opens
  <1> QED BY <1>1, <1>2, <1>7, Zenon

(* The first one is next to the downstream itself.                         *)
LEMMA FirstAdjacent ==
  ASSUME NEW L, IsList(L), NEW l, InOrder(L, l), l # <<>>
  PROVE  /\ 1 \in DOMAIN L /\ 1 \in DOMAIN l /\ Head(l) = l[1]
         /\ \E b \in DOMAIN L : L[b] = l[1] /\ Adjacent(L, Range(l), 1, b)
  <1>0. l \in Seq(Range(L)) /\ Len(l) \in Nat /\ DOMAIN l = 1..Len(l)
    BY OrderFacts, Zenon DEF InOrder
  <1>1. 1 \in DOMAIN l /\ Head(l) = l[1] /\ \A k \in DOMAIN l : k = 1 \/ 1 < k
    BY <1>0
  <1>2. PICK b \in DOMAIN L : b # 1 /\ L[b] = l[1]
    BY <1>1, OrderFacts
  <1>3. 1 \in DOMAIN L /\ 1 < b
    BY <1>2 DEF IsList
  <1>4. ASSUME NEW m \in DOMAIN L, 1 < m, m < b, L[m] \in Range(l) PROVE FALSE
    <2>1. PICK k \in DOMAIN l : L[m] = l[k]
      BY <1>4, Zenon DEF Range
    <2>2. (1 < k => b < m) /\ (k = 1 => m = b)
      BY <1>1, <1>2, <2>1, Zenon DEF InOrder, IsList
    <2> QED BY <1>1, <1>4, <2>2 DEF IsList
  <1>5. L[b] \in Range(l)
    BY <1>1, <1>2, Zenon DEF Range
  <1>6. Adjacent(L, Range(l), 1, b)
    BY <1>3, <1>4, <1>5, Zenon DEF Adjacent, Opens
  <1> QED BY <1>1, <1>2, <1>3, <1>6, Zenon

(* What a sequential round leaves.                                         *)
LEMMA TailInOrder ==
  ASSUME NEW L, IsList(L), NEW l, InOrder(L, l), l # <<>>
  PROVE  /\ InOrder(L, Tail(l)) /\ Head(l) \notin Range(Tail(l))
         /\ Range(l) = Range(Tail(l)) \union {Head(l)}
  <1>0. l \in Seq(Range(L)) /\ Len(l) \in Nat /\ DOMAIN l = 1..Len(l)
    BY OrderFacts, Zenon DEF InOrder
  <1>1. /\ Tail(l) \in Seq(Range(L)) /\ DOMAIN Tail(l) = 1..(Len(l) - 1) /\ 1 \in DOMAIN l
        /\ \A j \in DOMAIN Tail(l) : j + 1 \in DOMAIN l /\ Tail(l)[j] = l[j + 1] /\ 1 # j + 1
        /\ Head(l) = l[1]
    BY <1>0
  <1>2. \A j, k \in DOMAIN Tail(l) : j < k => j + 1 < k + 1
    BY <1>1
  <1>3. InOrder(L, Tail(l))
    BY <1>1, <1>2 DEF InOrder
  <1>4. Head(l) \notin Range(Tail(l))
    BY <1>1, OrderFacts DEF Range
  <1>5. \A j \in DOMAIN l : j = 1 \/ (j - 1 \in DOMAIN Tail(l) /\ j - 1 + 1 = j)
    BY <1>0, <1>1
  <1>6. Range(l) = Range(Tail(l)) \union {Head(l)}
    <2>1. \A x \in Range(l) : x \in Range(Tail(l)) \union {Head(l)}
      BY <1>1, <1>5 DEF Range
    <2>2. \A j \in DOMAIN l : l[j] \in Range(l)
      BY Zenon DEF Range
    <2>3. ASSUME NEW x \in Range(Tail(l)) PROVE x \in Range(l)
      <3>1. PICK j \in DOMAIN Tail(l) : x = Tail(l)[j]
        BY Zenon DEF Range
      <3>2. j + 1 \in DOMAIN l /\ x = l[j + 1]
        BY <1>1, <3>1, Zenon
      <3> QED BY <2>2, <3>2, Zenon
    <2>4. Head(l) \in Range(l)
      BY <1>1, <2>2, Zenon
    <2> QED BY <2>1, <2>3, <2>4, Zenon
  <1> QED BY <1>3, <1>4, <1>6, Zenon

(* What a level of the tree leaves.                                        *)
LEMMA EveryOtherInOrder ==
  ASSUME NEW L, IsList(L), NEW l, InOrder(L, l)
  PROVE  /\ InOrder(L, EveryOther(l))
         /\ \A j \in 1..(Len(l) \div 2) : /\ 2 * j - 1 \in DOMAIN l /\ 2 * j \in DOMAIN l
                                          /\ l[2 * j] \notin Range(EveryOther(l))
         /\ Range(l) = Range(EveryOther(l)) \union {l[2 * j] : j \in 1..(Len(l) \div 2)}
  <1>0. l \in Seq(Range(L)) /\ Len(l) \in Nat /\ DOMAIN l = 1..Len(l)
    BY OrderFacts, Zenon DEF InOrder
  <1> DEFINE n == (Len(l) + 1) \div 2
             e == EveryOther(l)
  <1>1. n \in Nat /\ \A j \in 1..n : 2 * j - 1 \in DOMAIN l
    BY <1>0
  <1>2. \A j \in 1..n : l[2 * j - 1] \in Range(L)
    BY <1>0, <1>1
  <1>3. /\ e \in Seq(Range(L)) /\ DOMAIN e = 1..n
        /\ \A j \in DOMAIN e : 2 * j - 1 \in DOMAIN l /\ e[j] = l[2 * j - 1]
    <2> HIDE DEF n
    <2>1. e = [j \in 1..n |-> l[2 * j - 1]]
      BY Zenon DEF EveryOther, n
    <2> QED BY <1>1, <1>2, <2>1
  <1> HIDE DEF e
  <1>4. \A j, k \in DOMAIN e : j < k => 2 * j - 1 < 2 * k - 1
    BY <1>1, <1>3
  <1>5. InOrder(L, e)
    BY <1>3, <1>4 DEF InOrder
  <1>6. ASSUME NEW j \in 1..(Len(l) \div 2)
        PROVE  2 * j - 1 \in DOMAIN l /\ 2 * j \in DOMAIN l /\ l[2 * j] \notin Range(e)
    <2>1. 2 * j - 1 \in DOMAIN l /\ 2 * j \in DOMAIN l
      BY <1>0
    <2>2. \A k \in DOMAIN e : 2 * k - 1 # 2 * j
      BY <1>0, <1>1, <1>3
    <2> QED BY <1>3, <2>1, <2>2, OrderFacts DEF Range
  <1>7. \A x \in DOMAIN l : \/ \E j \in DOMAIN e : x = 2 * j - 1
                            \/ \E j \in 1..(Len(l) \div 2) : x = 2 * j
    <2> SUFFICES ASSUME NEW x \in DOMAIN l
                 PROVE  \/ \E j \in DOMAIN e : x = 2 * j - 1
                        \/ \E j \in 1..(Len(l) \div 2) : x = 2 * j
      BY Zenon
    <2>1. PICK j \in Nat : x = 2 * j \/ x = 2 * j - 1
      <3>1. (x + 1) \div 2 \in Nat /\ (x = 2 * ((x + 1) \div 2) \/ x = 2 * ((x + 1) \div 2) - 1)
        BY <1>0
      <3> QED BY <3>1, Zenon
    <2>2. CASE x = 2 * j
      <3>1. j \in 1..(Len(l) \div 2)
        BY <1>0, <2>2
      <3> QED BY <2>2, <3>1, Zenon
    <2>3. CASE x = 2 * j - 1
      <3>1. j \in 1..n
        BY <1>0, <2>3
      <3> QED BY <1>3, <2>3, <3>1, Zenon
    <2> QED BY <2>1, <2>2, <2>3, Zenon
  <1>8. Range(l) = Range(e) \union {l[2 * j] : j \in 1..(Len(l) \div 2)}
    <2>1. \A x \in Range(l) : x \in Range(e) \union {l[2 * j] : j \in 1..(Len(l) \div 2)}
      BY <1>3, <1>7, ZenonT(30) DEF Range
    <2>2. \A x \in Range(e) \union {l[2 * j] : j \in 1..(Len(l) \div 2)} : x \in Range(l)
      BY <1>3, <1>6, Zenon DEF Range
    <2> QED BY <2>1, <2>2, Zenon
  <1> QED BY <1>5, <1>6, <1>8, Zenon DEF e

(***************************************************************************)
(* A round of a merge                                                      *)
(***************************************************************************)

(* A round starts the calls T and leaves l.                                *)
LEMMA RoundStep ==
  ASSUME Inv, NEW i \in DOMAIN merge, \A t \in threads : t.of # i, NEW T, NEW l,
         UNCHANGED <<node, next, head, tail, before, waiting, stage>>,
         threads' = threads \union T, DOMAIN merge' = DOMAIN merge,
         merge'[i].left = l, kind = "Broadcast" => ~ merge'[i].tree, DOMAIN merge'[i] = {"left", "tree"},
         \A j \in DOMAIN merge : j # i => merge'[j] = merge[j],
         InOrder(Sources(i), l), Range(merge[i].left) = Range(l) \union {t.src : t \in T},
         \A t \in T : /\ t \in ThreadType /\ t.of = i /\ t.at = "source"
                      /\ t.src \notin Range(l) /\ Joins(t),
         \A t, u \in T : t # u => {t.dst, t.src} \intersect {u.dst, u.src} = {}
  PROVE  Inv'
  <1>0. Types /\ Listed /\ Lefts /\ Calls /\ OneAtATime
    BY Zenon DEF Inv
  <1>a. /\ node' = node /\ next' = next /\ head' = head /\ tail' = tail /\ before' = before
        /\ waiting' = waiting /\ stage' = stage
    BY Zenon
  <1>b. /\ kind' = kind /\ Slots' = Slots /\ Pages' = Pages /\ Merges' = Merges
        /\ \A j : Group(j)' = Group(j) /\ Sources(j)' = Sources(j)
    BY Fixed, Zenon
  <1>1. i \in Merges /\ i \notin waiting /\ DOMAIN merge \subseteq Merges
    BY <1>0, Zenon DEF Types
  <1>2. \A j : Open(j)' = Open(j)
    <2>1. ASSUME NEW j, j # i PROVE Open(j)' = Open(j)
      <3>1. Srcs(j)' = Srcs(j)
        BY <2>1, Zenon DEF Srcs
      <3> QED BY <1>a, <1>b, <2>1, <3>1, Zenon DEF Open
    <2>2. Srcs(i) = {} /\ Srcs(i)' = {t.src : t \in T}
      <3>1. Srcs(i) = {}
        BY NoSources, Zenon
      <3>2. {u \in threads \union T : u.of = i} = T
        BY Zenon
      <3> QED BY <3>1, <3>2, Zenon DEF Srcs
    <2>3. Open(i) = Range(merge[i].left)
      BY <1>1, <2>2, Zenon DEF Open
    <2>4. Open(i)' = Range(l) \union {t.src : t \in T}
      BY <1>a, <1>1, <2>2, Zenon DEF Open
    <2> QED BY <2>1, <2>3, <2>4, Zenon
  <1>3. Types'
    <2>1. ThreadType' = ThreadType
      BY <1>b, Zenon DEF ThreadType, Targets
    <2>2. threads' \subseteq ThreadType
      BY <1>0, Zenon DEF Types
    <2> QED BY <1>0, <1>a, <1>b, <2>1, <2>2, Zenon DEF Types
  <1>4. Lefts' /\ OneAtATime'
    BY <1>0, <1>b, Zenon DEF Lefts, OneAtATime
  <1>5. \A t \in threads' : t.of \in DOMAIN merge' /\ t.src \notin Range(merge'[t.of].left)
    BY <1>0, Zenon DEF Calls
  <1>6. \A t \in threads' \ threads : t.at = "source" /\ Joins(t)'
    <2> SUFFICES ASSUME NEW t \in T PROVE t.at = "source" /\ Joins(t)'
      BY Zenon
    <2>1. Open(t.of)' = Open(t.of) \ {}
      BY <1>2, Zenon
    <2> QED BY <1>a, <2>1, JoinsKept, Zenon
  <1>7. ASSUME NEW t \in T, NEW u \in threads PROVE {t.dst, t.src} \intersect {u.dst, u.src} = {}
    <2> SUFFICES ASSUME NEW s, s \in {t.dst, t.src}, s \in {u.dst, u.src} PROVE FALSE
      BY Zenon
    <2>1. u.of \in DOMAIN merge /\ u.of # i /\ u.of \in Merges /\ Joins(u) /\ Joins(t) /\ t.of = i
      BY <1>0, <1>1, Zenon DEF Calls
    <2>2. PICK p \in DOMAIN Sources(i) : s = Sources(i)[p]
      BY <2>1, Zenon DEF Joins
    <2>3. PICK q \in DOMAIN Sources(u.of) : s = Sources(u.of)[q]
      BY <2>1, Zenon DEF Joins
    <2>4. kind = "Broadcast"
      <3>1. i # u.of /\ Sources(i)[p] = Sources(u.of)[q]
        BY <2>1, <2>2, <2>3, Zenon
      <3> QED BY <1>0, <1>1, <2>1, <3>1, SlotsApart, Zenon
    <2> QED BY <1>0, <2>1, <2>4, Zenon DEF OneAtATime
  <1>8. ASSUME NEW t \in threads', NEW u \in threads', t # u
        PROVE  {t.dst, t.src} \intersect {u.dst, u.src} = {}
    <2>1. CASE t \in threads /\ u \in threads
      BY <1>0, <1>8, <2>1, Zenon DEF Calls
    <2>2. CASE t \in T /\ u \in T
      BY <1>8, <2>2, Zenon
    <2>3. CASE t \in T /\ u \in threads
      BY <1>7, <2>3, Zenon
    <2>4. CASE t \in threads /\ u \in T
      <3>1. {u.dst, u.src} \intersect {t.dst, t.src} = {}
        BY <1>7, <2>4, Zenon
      <3> QED BY <3>1, Zenon
    <2> QED BY <2>1, <2>2, <2>3, <2>4, Zenon
  <1> QED BY <1>a, <1>2, <1>3, <1>4, <1>5, <1>6, <1>8, MergeStep, Zenon

(* The fields of a new call.                                               *)
LEMMA NewCall ==
  ASSUME NEW i \in Targets, NEW d \in Slots, NEW s \in Slots
  PROVE  /\ Thread(i, d, s) \in ThreadType /\ Thread(i, d, s).of = i
         /\ Thread(i, d, s).dst = d /\ Thread(i, d, s).src = s /\ Thread(i, d, s).at = "source"
  BY DEF Thread, ThreadType

(* What is left is replaced; the form of the merge stays.                  *)
LEMMA LeftReplaced ==
  ASSUME NEW r, DOMAIN r = {"left", "tree"}, NEW l, NEW n, n = [r EXCEPT !.left = l]
  PROVE  DOMAIN n = {"left", "tree"} /\ n.left = l /\ (n.tree <=> r.tree)
  <1>1. n = [x \in {"left", "tree"} |-> IF x = "left" THEN l ELSE r[x]]
    BY Zenon
  <1>2. DOMAIN n = {"left", "tree"} /\ n["left"] = l
    BY <1>1, Zenon
  <1>3. "tree" # "left"
    OBVIOUS
  <1>4. n["tree"] = r["tree"]
    BY <1>1, <1>3, Zenon
  <1> QED BY <1>2, <1>4, Zenon

(* A level of a tree starts a call for each pair of neighbours, any other  *)
(* round one for the downstream itself.                                    *)
LEMMA NextRoundStep ==
  ASSUME Inv, NEW i \in Targets, NextRound(i)
  PROVE  Inv'
  <1>0. Types /\ Listed /\ Lefts /\ Calls /\ OneAtATime
    BY Zenon DEF Inv
  <1> DEFINE L == Sources(i)
             left == merge[i].left
  <1>a. /\ i \in DOMAIN merge /\ left # <<>> /\ \A t \in threads : t.of # i
        /\ UNCHANGED <<node, next, head, tail, before, waiting, stage>>
        /\ IF merge[i].tree /\ Len(left) > 1
           THEN /\ threads' = threads \union
                                {Thread(i, left[2 * j - 1], left[2 * j]) : j \in 1..(Len(left) \div 2)}
                /\ merge' = [merge EXCEPT ![i].left = EveryOther(left)]
           ELSE /\ threads' = threads \union {Thread(i, Downstream[i], Head(left))}
                /\ merge' = [merge EXCEPT ![i].left = Tail(left)]
    BY Zenon DEF NextRound, Round, Joined
  <1>1. i \in Merges /\ i \notin waiting
    BY <1>0, <1>a, Zenon DEF Types
  <1>2. IsList(L) /\ L[1] = Downstream[i] /\ \A k \in DOMAIN L : L[k] \in Slots
    BY <1>0, <1>1, Zenon DEF Listed
  <1>3. InOrder(L, left) /\ (kind = "Broadcast" => ~ merge[i].tree) /\ DOMAIN merge[i] = {"left", "tree"}
    BY <1>0, <1>a, Zenon DEF Lefts
  <1>4. Open(i) = Range(left)
    <2>1. Srcs(i) = {}
      BY <1>a, NoSources, Zenon
    <2> QED BY <1>a, <1>1, <2>1, Zenon DEF Open
  <1>5. ASSUME NEW l, merge' = [merge EXCEPT ![i].left = l]
        PROVE  /\ DOMAIN merge' = DOMAIN merge /\ \A j \in DOMAIN merge : j # i => merge'[j] = merge[j]
               /\ merge'[i].left = l /\ (kind = "Broadcast" => ~ merge'[i].tree)
               /\ DOMAIN merge'[i] = {"left", "tree"}
    <2>1. DOMAIN merge' = DOMAIN merge /\ \A j \in DOMAIN merge : j # i => merge'[j] = merge[j]
      BY <1>a, <1>5, Zenon
    <2>2. merge'[i] = [merge[i] EXCEPT !.left = l]
      BY <1>a, <1>5, Zenon
    <2>3. PICK r : r = merge[i]
      OBVIOUS
    <2>4. PICK n : n = merge'[i]
      OBVIOUS
    <2>5. DOMAIN n = {"left", "tree"} /\ n.left = l /\ (n.tree <=> r.tree)
      BY <1>3, <2>2, <2>3, <2>4, LeftReplaced, Zenon
    <2> QED BY <1>3, <2>1, <2>3, <2>4, <2>5, Zenon
  <1>6. CASE ~ (merge[i].tree /\ Len(left) > 1)
    <2> DEFINE T == {Thread(i, Downstream[i], Head(left))}
    <2>1. threads' = threads \union T /\ merge' = [merge EXCEPT ![i].left = Tail(left)]
      BY <1>a, <1>6, Zenon
    <2>2. PICK b \in DOMAIN L : 1 \in DOMAIN L /\ L[b] = Head(left) /\ Adjacent(L, Range(left), 1, b)
      BY <1>a, <1>2, <1>3, FirstAdjacent, Zenon
    <2>3. /\ InOrder(L, Tail(left)) /\ Head(left) \notin Range(Tail(left))
          /\ Range(left) = Range(Tail(left)) \union {Head(left)}
      BY <1>a, <1>2, <1>3, TailInOrder, Zenon
    <2>4. /\ \A t \in T : t \in ThreadType /\ t.of = i /\ t.at = "source"
                          /\ t.dst = Downstream[i] /\ t.src = Head(left)
          /\ {t.src : t \in T} = {Head(left)}
      <3>1. Downstream[i] \in Slots /\ Head(left) \in Slots
        BY <1>2, <2>2, Zenon
      <3>2. \A t \in T : t \in ThreadType /\ t.of = i /\ t.at = "source"
                          /\ t.dst = Downstream[i] /\ t.src = Head(left)
        <4>1. PICK d \in Slots, s \in Slots : d = Downstream[i] /\ s = Head(left)
          BY <3>1, Zenon
        <4>2. T = {Thread(i, d, s)}
          BY <4>1, Zenon
        <4> QED BY <4>1, <4>2, NewCall
      <3> QED BY <3>2, Zenon
    <2>5. \A t \in T : Joins(t)
      BY <1>2, <1>4, <2>2, <2>4, Zenon DEF Joins
    <2>6. \A t, u \in T : t = u
      BY Zenon
    <2>7. /\ DOMAIN merge' = DOMAIN merge /\ \A j \in DOMAIN merge : j # i => merge'[j] = merge[j]
          /\ merge'[i].left = Tail(left) /\ (kind = "Broadcast" => ~ merge'[i].tree)
          /\ DOMAIN merge'[i] = {"left", "tree"}
      BY <1>5, <2>1, Zenon
    <2> HIDE DEF T
    <2>8. PICK U, l : U = T /\ l = Tail(left)
      BY Zenon
    <2>9. /\ threads' = threads \union U /\ merge'[i].left = l /\ InOrder(Sources(i), l)
          /\ Range(merge[i].left) = Range(l) \union {t.src : t \in U}
          /\ \A t \in U : /\ t \in ThreadType /\ t.of = i /\ t.at = "source"
                          /\ t.src \notin Range(l) /\ Joins(t)
          /\ \A t, u \in U : t # u => {t.dst, t.src} \intersect {u.dst, u.src} = {}
      BY <2>1, <2>3, <2>4, <2>5, <2>6, <2>7, <2>8, Zenon
    <2> QED BY <1>a, <2>7, <2>9, RoundStep
  <1>7. CASE merge[i].tree /\ Len(left) > 1
    <2> DEFINE N == 1..(Len(left) \div 2)
               C(j) == Thread(i, left[2 * j - 1], left[2 * j])
               T == {C(j) : j \in N}
    <2>1. threads' = threads \union T /\ merge' = [merge EXCEPT ![i].left = EveryOther(left)]
      BY <1>a, <1>7, Zenon
    <2>2. kind # "Broadcast"
      BY <1>3, <1>7, Zenon
    <2>3. /\ InOrder(L, EveryOther(left))
          /\ \A j \in N : /\ 2 * j - 1 \in DOMAIN left /\ 2 * j \in DOMAIN left
                          /\ left[2 * j] \notin Range(EveryOther(left))
          /\ Range(left) = Range(EveryOther(left)) \union {left[2 * j] : j \in N}
      BY <1>2, <1>3, EveryOtherInOrder, Zenon
    <2>4. ASSUME NEW j \in N
          PROVE  \E a, b \in DOMAIN L : /\ L[a] = left[2 * j - 1] /\ L[b] = left[2 * j]
                                        /\ Adjacent(L, Range(left), a, b)
      <3>1. PICK x : x = 2 * j - 1
        OBVIOUS
      <3>2. x + 1 = 2 * j
        BY <1>2, <1>3, <3>1, OrderFacts
      <3>3. x \in DOMAIN left /\ x + 1 \in DOMAIN left
        BY <2>3, <3>1, <3>2, Zenon
      <3>4. \E a, b \in DOMAIN L : L[a] = left[x] /\ L[b] = left[x + 1] /\ Adjacent(L, Range(left), a, b)
        BY <1>2, <1>3, <3>3, PairAdjacent, Zenon
      <3> QED BY <3>1, <3>2, <3>4, Zenon
    <2>5. \A j \in N : /\ C(j) \in ThreadType /\ C(j).of = i /\ C(j).at = "source"
                      /\ C(j).dst = left[2 * j - 1] /\ C(j).src = left[2 * j]
      <3> SUFFICES ASSUME NEW j \in N
                   PROVE  /\ C(j) \in ThreadType /\ C(j).of = i /\ C(j).at = "source"
                          /\ C(j).dst = left[2 * j - 1] /\ C(j).src = left[2 * j]
        BY Zenon
      <3>1. left[2 * j - 1] \in Slots /\ left[2 * j] \in Slots
        BY <1>2, <2>4, Zenon
      <3>2. PICK d \in Slots, s \in Slots : d = left[2 * j - 1] /\ s = left[2 * j]
        BY <3>1, Zenon
      <3>3. C(j) = Thread(i, d, s)
        BY <3>2, Zenon
      <3> QED BY <3>2, <3>3, NewCall
    <2> HIDE DEF C
    <2>6. \A t \in T : /\ t \in ThreadType /\ t.of = i /\ t.at = "source"
                      /\ t.src \notin Range(EveryOther(left))
      BY <2>3, <2>5, Zenon
    <2>7. ASSUME NEW j \in N PROVE Joins(C(j))
      <3>1. PICK a, b \in DOMAIN L : /\ L[a] = left[2 * j - 1] /\ L[b] = left[2 * j]
                                     /\ Adjacent(L, Range(left), a, b)
        BY <2>4, Zenon
      <3>2. C(j).of = i /\ C(j).dst = L[a] /\ C(j).src = L[b]
        BY <2>5, <3>1, Zenon
      <3> QED BY <1>4, <2>2, <3>1, <3>2, Zenon DEF Joins
    <2>8. {t.src : t \in T} = {left[2 * j] : j \in N}
      BY <2>5, Zenon
    <2>9. ASSUME NEW j \in N, NEW k \in N, j # k
          PROVE  {C(j).dst, C(j).src} \intersect {C(k).dst, C(k).src} = {}
      <3>1. 2 * j # 2 * k /\ 2 * j # 2 * k - 1 /\ 2 * j - 1 # 2 * k /\ 2 * j - 1 # 2 * k - 1
        BY <1>2, <1>3, <2>9, OrderFacts
      <3>2. \A x, y \in DOMAIN left : left[x] = left[y] => x = y
        BY <1>2, <1>3, OrderFacts, Zenon
      <3>3. /\ left[2 * j] # left[2 * k] /\ left[2 * j] # left[2 * k - 1]
            /\ left[2 * j - 1] # left[2 * k] /\ left[2 * j - 1] # left[2 * k - 1]
        BY <2>3, <3>1, <3>2, Zenon
      <3> QED BY <2>5, <3>3, Zenon
    <2>10. \A t, u \in T : t # u => {t.dst, t.src} \intersect {u.dst, u.src} = {}
      BY <2>9, Zenon
    <2>11. \A t \in T : Joins(t)
      BY <2>7, Zenon
    <2>12. /\ DOMAIN merge' = DOMAIN merge /\ \A j \in DOMAIN merge : j # i => merge'[j] = merge[j]
           /\ merge'[i].left = EveryOther(left) /\ (kind = "Broadcast" => ~ merge'[i].tree)
           /\ DOMAIN merge'[i] = {"left", "tree"}
      BY <1>5, <2>1, Zenon
    <2>13. Range(left) = Range(EveryOther(left)) \union {t.src : t \in T}
      BY <2>3, <2>8, Zenon
    <2> HIDE DEF T
    <2>14. PICK U, l : U = T /\ l = EveryOther(left)
      BY Zenon
    <2> QED BY <1>a, <2>1, <2>3, <2>6, <2>10, <2>11, <2>12, <2>13, <2>14, RoundStep, SMTT(20)
  <1> QED BY <1>6, <1>7, Zenon

(***************************************************************************)
(* The end of the node and of its wave                                     *)
(***************************************************************************)

(* The wave is over.                                                       *)
LEMMA ReturnStep ==
  ASSUME Inv, Return
  PROVE  Inv'
  <1>0. Types /\ Listed /\ Lefts /\ Calls /\ OneAtATime
    BY Zenon DEF Inv
  <1>a. /\ waiting = {} /\ DOMAIN merge = {} /\ stage' = "clear"
        /\ node' = node /\ next' = next /\ head' = head /\ tail' = tail /\ before' = before
        /\ waiting' = waiting /\ merge' = merge /\ threads' = threads
        /\ UNCHANGED <<node, before, head, tail, next>> /\ UNCHANGED <<node, before, merge>>
    BY Zenon DEF Return
  <1>b. /\ Slots' = Slots /\ Pages' = Pages /\ Merges' = Merges /\ \A j : Group(j)' = Group(j)
    BY <1>a, Fixed, Zenon
  <1>1. \A j \in Merges : Open(j)' = Open(j)
    BY <1>a, <1>b, Zenon DEF Open, Srcs
  <1>2. Types'
    <2>1. ThreadType' = ThreadType
      BY <1>b, Zenon DEF ThreadType, Targets
    <2> QED BY <1>0, <1>a, <1>b, <2>1, Zenon DEF Types
  <1>3. Lefts' /\ OneAtATime'
    BY <1>0, <1>a, MergesKept, Zenon
  <1>4. /\ \A t \in threads' : t.of \in DOMAIN merge' /\ t.src \notin Range(merge'[t.of].left)
        /\ \A t, u \in threads' : t # u => {t.dst, t.src} \intersect {u.dst, u.src} = {}
    BY <1>0, <1>a, Zenon DEF Calls
  <1> QED BY <1>a, <1>1, <1>2, <1>3, <1>4, MergeStep, Zenon

(* When no merge is left nothing is open and no call is under way.         *)
LEMMA NothingOpen ==
  ASSUME Types, Calls, stage # "route"
  PROVE  /\ waiting = {} /\ DOMAIN merge = {} /\ threads = {}
         /\ \A i : Open(i) = {}
  <1>1. waiting = {} /\ DOMAIN merge = {}
    BY Zenon DEF Types
  <1>2. threads = {}
    BY <1>1, Zenon DEF Calls
  <1> QED BY <1>1, <1>2, Zenon DEF Open

(* A downstream is a source of its own merge only, the first one.          *)
LEMMA DownstreamApart ==
  ASSUME Listed, NEW i \in Targets, NEW j \in Merges, NEW p \in DOMAIN Sources(j),
         Sources(j)[p] = Downstream[i]
  PROVE  j = i /\ p = 1
  <1>1. /\ j \in Targets /\ IsList(Sources(j)) /\ 1 \in DOMAIN Sources(j) /\ Sources(j)[1] = Downstream[j]
        /\ (p # 1 => Sources(j)[p] \in Range(Group(j))) /\ Range(Group(j)) \intersect Range(Downstream) = {}
    BY Zenon DEF Listed
  <1>2. Downstream[i] \in Range(Downstream)
    BY Zenon DEF Range, Targets
  <1>3. p = 1
    BY <1>1, <1>2, Zenon
  <1>4. \A a, b \in DOMAIN Downstream : Downstream[a] = Downstream[b] => a = b
    BY RoutingAssumption, Zenon DEF IsInjective
  <1> QED BY <1>1, <1>3, <1>4, Zenon DEF Targets

(* The runner clears the upstreams, which no chain starts from any more.   *)
LEMMA ClearUpstreamStep ==
  ASSUME Inv, ClearUpstream
  PROVE  Inv'
  <1>0. Types /\ Listed /\ Lefts /\ Calls /\ Chained /\ Inside /\ OneAtATime
    BY Zenon DEF Inv
  <1>a. /\ stage = "clear" /\ stage' = "done"
        /\ node' = node /\ next' = next /\ before' = before
        /\ waiting' = waiting /\ merge' = merge /\ threads' = threads
        /\ head' = [s \in Slots |-> IF s \in RoutedUpstream THEN Null ELSE head[s]]
        /\ tail' = [s \in Slots |-> IF s \in RoutedUpstream THEN Null ELSE tail[s]]
    BY Zenon DEF ClearUpstream
  <1>b. /\ kind' = kind /\ Slots' = Slots /\ Pages' = Pages /\ Merges' = Merges
        /\ \A j : Group(j)' = Group(j) /\ Sources(j)' = Sources(j)
    BY <1>a, Fixed, Zenon
  <1>1. waiting = {} /\ DOMAIN merge = {} /\ threads = {} /\ \A i : Open(i) = {}
    <2>1. stage # "route"
      BY <1>a
    <2> QED BY <1>0, <2>1, NothingOpen, Zenon
  <1>2. \A i : Open(i)' = {}
    BY <1>a, <1>1, Zenon DEF Open
  <1>3. Types'
    <2>1. ThreadType' = ThreadType
      BY <1>b, Zenon DEF ThreadType, Targets
    <2>2. head' \in [Slots -> Pages \union {Null}] /\ tail' \in [Slots -> Pages \union {Null}]
      BY <1>0, <1>a, Zenon DEF Types
    <2> QED BY <1>0, <1>a, <1>b, <1>1, <2>1, <2>2, Zenon DEF Types
  <1>4. Listed' /\ Lefts' /\ OneAtATime'
    BY <1>0, <1>a, ListedKept, MergesKept, Zenon
  <1>5. Calls'
    BY <1>a, <1>1, Zenon DEF Calls
  <1>6. Inside'
    BY <1>0, <1>a, <1>b, Zenon DEF Inside
  <1>7. Chained'
    <2>1. ASSUME NEW i \in Merges
          PROVE  head'[Sources(i)[1]] = head[Sources(i)[1]] /\ tail'[Sources(i)[1]] = tail[Sources(i)[1]]
      <3>1. Sources(i)[1] \in Slots /\ Sources(i)[1] = Downstream[i] /\ i \in Targets /\ kind # "Bridge"
        BY <1>0, Zenon DEF Listed
      <3>2. Downstream[i] \in Range(Downstream)
        BY <3>1, Zenon DEF Range, Targets
      <3>3. Range(Upstream) \intersect Range(Downstream) = {}
        BY <1>0, RoutingAssumption, Zenon DEF Types, Upstream
      <3>4. Sources(i)[1] \notin RoutedUpstream
        BY <3>1, <3>2, <3>3, Zenon DEF RoutedUpstream
      <3> QED BY <1>a, <3>1, <3>4, Zenon
    <2>2. ASSUME NEW i \in Merges, NEW a \in DOMAIN Sources(i), Opens(Sources(i), {}, a)
          PROVE  /\ IsTail(before, Sources(i), {}, a, tail'[Sources(i)[a]])
                 /\ IsHead(before, Sources(i), {}, a, head'[Sources(i)[a]])
      <3>1. a = 1
        BY <2>2, Zenon DEF Opens
      <3>2. /\ IsTail(before, Sources(i), {}, a, tail[Sources(i)[a]])
            /\ IsHead(before, Sources(i), {}, a, head[Sources(i)[a]])
        BY <1>0, <1>1, <2>2, Zenon DEF Chained
      <3> QED BY <2>1, <3>1, <3>2, Zenon
    <2>3. \A i \in Merges : Linked(before, Sources(i), {}, next)
      BY <1>0, <1>1, Zenon DEF Chained
    <2> QED BY <1>a, <1>b, <1>2, <2>2, <2>3, Zenon DEF Chained
  <1> QED BY <1>3, <1>4, <1>5, <1>6, <1>7, Zenon DEF Inv

(* A step that changes nothing.                                            *)
LEMMA Stutter ==
  ASSUME Inv, node' = node, next' = next, head' = head, tail' = tail, before' = before,
         waiting' = waiting, merge' = merge, threads' = threads, stage' = stage
  PROVE  Inv'
  <1>0. Types /\ Listed /\ Lefts /\ Calls /\ OneAtATime
    BY Zenon DEF Inv
  <1>a. UNCHANGED <<node, before, head, tail, next>> /\ UNCHANGED <<node, before, merge>>
    BY Zenon
  <1>b. /\ Slots' = Slots /\ Pages' = Pages /\ Merges' = Merges /\ \A j : Group(j)' = Group(j)
    BY Fixed, Zenon
  <1>1. \A j \in Merges : Open(j)' = Open(j)
    BY <1>b, Zenon DEF Open, Srcs
  <1>2. Types'
    <2>1. ThreadType' = ThreadType
      BY <1>b, Zenon DEF ThreadType, Targets
    <2> QED BY <1>0, <1>b, <2>1, Zenon DEF Types
  <1>3. Lefts' /\ OneAtATime'
    BY <1>0, <1>a, MergesKept, Zenon
  <1>4. /\ \A t \in threads' : t.of \in DOMAIN merge' /\ t.src \notin Range(merge'[t.of].left)
        /\ \A t, u \in threads' : t # u => {t.dst, t.src} \intersect {u.dst, u.src} = {}
    BY <1>0, Zenon DEF Calls
  <1> QED BY <1>a, <1>1, <1>2, <1>3, <1>4, MergeStep, Zenon

(* Every step keeps the invariant.                                         *)
LEMMA InvStep ==
  ASSUME Inv, [Next]_vars
  PROVE  Inv'
  <1>1. ASSUME NEW t \in threads, LoadSource(t) PROVE Inv'
    BY <1>1, LoadSourceStep, Zenon
  <1>2. ASSUME NEW t \in threads, LoadDest(t) PROVE Inv'
    BY <1>2, LoadDestStep, Zenon
  <1>3. ASSUME NEW t \in threads, Link(t) PROVE Inv'
    BY <1>3, LinkStep, Zenon
  <1>4. ASSUME NEW t \in threads, StoreTail(t) PROVE Inv'
    BY <1>4, StoreTailStep, Zenon
  <1>5. ASSUME NEW i \in Targets, StartMerge(i) PROVE Inv'
    BY <1>5, StartMergeStep, Zenon
  <1>6. ASSUME NEW i \in Targets, NextRound(i) PROVE Inv'
    BY <1>6, NextRoundStep, Zenon
  <1>7. ASSUME NEW i \in Targets, EndMerge(i) PROVE Inv'
    BY <1>7, EndMergeStep, Zenon
  <1>8. CASE Bridge
    BY <1>8, Zenon DEF Bridge, Inv, Listed
  <1>9. CASE UNCHANGED vars
    <2>1. /\ node' = node /\ next' = next /\ head' = head /\ tail' = tail /\ before' = before
          /\ waiting' = waiting /\ merge' = merge /\ threads' = threads /\ stage' = stage
      BY <1>9, Zenon DEF vars
    <2> QED BY <2>1, Stutter, Zenon
  <1> QED BY <1>1, <1>2, <1>3, <1>4, <1>5, <1>6, <1>7, <1>8, <1>9, ReturnStep, ClearUpstreamStep, Zenon
       DEF Next, Finished

(***************************************************************************)
(* Slots that no merge touches, and the bridge                             *)
(***************************************************************************)

(* The head and the tail of slot s are the ends of the pages of slot u.    *)
Holds(s, u) ==
    IF Empty(before, u) THEN head[s] = Null /\ tail[s] = Null
    ELSE head[s] = FirstPage(u) /\ tail[s] = LastPage(before, u)

(* Nothing follows the pages of slot u.                                    *)
Ended(u) == ~ Empty(before, u) => next[LastPage(before, u)] = Null

(* A downstream stays as it was until its merge starts.                    *)
Untouched ==
    \A i \in Targets : i \in waiting \/ i \notin Merges =>
        Holds(Downstream[i], Downstream[i]) /\ Ended(Downstream[i])

Cleared == stage = "done" => \A s \in RoutedUpstream : head[s] = Null /\ tail[s] = Null

(* A bridge changes one head and one tail only.                            *)
BridgeInv ==
    /\ kind = "Bridge" /\ Types /\ Inside /\ Cleared
    /\ threads = {} /\ DOMAIN merge = {}
    /\ \A s \in Slots : Ended(s)
    /\ \A s \in Slots : s # Downstream[1] /\ (s = Upstream[1] => stage # "done") => Holds(s, s)
    /\ Holds(Downstream[1], IF waiting = {} /\ ~ Empty(before, Upstream[1]) THEN Upstream[1]
                            ELSE Downstream[1])

(* A step that leaves a downstream alone keeps it untouched.               *)
LEMMA UntouchedKept ==
  ASSUME Untouched, UNCHANGED <<node, before>>, waiting' \subseteq waiting,
         \A i \in Targets : i \in waiting' \/ i \notin Merges =>
            /\ head'[Downstream[i]] = head[Downstream[i]] /\ tail'[Downstream[i]] = tail[Downstream[i]]
            /\ ~ Empty(before, Downstream[i]) =>
                  next'[LastPage(before, Downstream[i])] = next[LastPage(before, Downstream[i])]
  PROVE  Untouched'
  <1>1. Merges' = Merges /\ before' = before
    BY Fixed, Zenon
  <1> SUFFICES ASSUME NEW i \in Targets, i \in waiting' \/ i \notin Merges
               PROVE  Holds(Downstream[i], Downstream[i])' /\ Ended(Downstream[i])'
    BY <1>1, Zenon DEF Untouched, Targets
  <1>2. Holds(Downstream[i], Downstream[i]) /\ Ended(Downstream[i])
    BY Zenon DEF Untouched
  <1>3. PICK d : d = Downstream[i]
    OBVIOUS
  <1>4. /\ head'[d] = head[d] /\ tail'[d] = tail[d]
        /\ ~ Empty(before, d) => next'[LastPage(before, d)] = next[LastPage(before, d)]
    BY <1>3, Zenon
  <1>5. Holds(d, d)' /\ Ended(d)'
    BY <1>1, <1>2, <1>3, <1>4, Zenon DEF Holds, Ended, Empty, LastPage
  <1> QED BY <1>3, <1>5, Zenon

(* A call neither changes such a slot nor links its last page.             *)
LEMMA CallElsewhere ==
  ASSUME Inv, NEW t \in threads, NEW i \in Targets, i \in waiting \/ i \notin Merges
  PROVE  t.dst # Downstream[i] /\ (tail[t.dst] # Null => tail[t.dst] # LastPage(before, Downstream[i]))
  <1>0. Types /\ Listed /\ Calls /\ Chained
    BY Zenon DEF Inv
  <1>1. t.of \in Merges /\ t.of # i
    BY <1>0, Zenon DEF Types, Calls
  <1>2. PICK a, b \in DOMAIN Sources(t.of) : Segments(t, a, b)
    BY <1>0, CallSegments, Zenon
  <1>3. \A p \in DOMAIN Sources(t.of) : Sources(t.of)[p] # Downstream[i]
    BY <1>0, <1>1, DownstreamApart, Zenon
  <1>4. t.dst # Downstream[i]
    BY <1>2, <1>3, Zenon DEF Segments
  <1>5. ASSUME tail[t.dst] # Null PROVE tail[t.dst] # LastPage(before, Downstream[i])
    <2>1. PICK k \in DOMAIN Sources(t.of) : tail[t.dst] = LastPage(before, Sources(t.of)[k])
      BY <1>2, <1>5, Zenon DEF Segments, IsTail
    <2>2. Sources(t.of)[k] # Downstream[i]
      BY <1>3, Zenon
    <2> QED BY <2>1, <2>2 DEF LastPage
  <1> QED BY <1>4, <1>5, Zenon

(* No step touches a downstream before its merge starts.                   *)
LEMMA UntouchedStep ==
  ASSUME Inv, Untouched, [Next]_vars
  PROVE  Untouched'
  <1>0. Types /\ Listed /\ Calls /\ Chained
    BY Zenon DEF Inv
  <1>1. CASE UNCHANGED <<node, before, next, head, tail>> /\ waiting' \subseteq waiting
    <2>1. head' = head /\ tail' = tail /\ next' = next
      BY <1>1, Zenon
    <2> QED BY <1>1, <2>1, UntouchedKept, Zenon
  <1>2. ASSUME NEW t \in threads, Link(t) PROVE Untouched'
    <2>a. /\ t.at = "link" /\ UNCHANGED <<node, before>> /\ waiting' = waiting /\ tail' = tail
          /\ IF t.dstTail = Null
             THEN head' = [head EXCEPT ![t.dst] = t.srcHead] /\ next' = next
             ELSE next' = [next EXCEPT ![t.dstTail] = t.srcHead] /\ head' = head
      BY <1>2, Zenon DEF Link
    <2>b. t.dstTail = tail[t.dst]
      BY <1>0, <2>a, Zenon DEF Calls, Knows
    <2>c. head \in [Slots -> Pages \union {Null}] /\ next \in [Pages -> Pages \union {Null}]
      BY <1>0, Zenon DEF Types
    <2>1. ASSUME NEW i \in Targets, i \in waiting' \/ i \notin Merges
          PROVE  /\ head'[Downstream[i]] = head[Downstream[i]] /\ tail'[Downstream[i]] = tail[Downstream[i]]
                 /\ ~ Empty(before, Downstream[i]) =>
                       next'[LastPage(before, Downstream[i])] = next[LastPage(before, Downstream[i])]
      <3>1. t.dst # Downstream[i] /\ (tail[t.dst] # Null => tail[t.dst] # LastPage(before, Downstream[i]))
        BY <2>a, <2>1, CallElsewhere, Zenon
      <3>2. Downstream[i] \in Slots
        BY Zenon DEF Slots, Range, Targets
      <3>3. ~ Empty(before, Downstream[i]) => LastPage(before, Downstream[i]) \in Pages
        BY <1>0, <3>2, PagesOf, Zenon
      <3> QED BY <2>a, <2>b, <2>c, <3>1, <3>2, <3>3, Zenon
    <2> QED BY <2>a, <2>1, UntouchedKept, Zenon
  <1>3. ASSUME NEW t \in threads, StoreTail(t) PROVE Untouched'
    <2>a. /\ UNCHANGED <<node, before>> /\ waiting' = waiting /\ head' = head /\ next' = next
          /\ tail' = [tail EXCEPT ![t.dst] = t.srcTail] /\ tail \in [Slots -> Pages \union {Null}]
      BY <1>0, <1>3, Zenon DEF StoreTail, Types
    <2>1. ASSUME NEW i \in Targets, i \in waiting' \/ i \notin Merges
          PROVE  tail'[Downstream[i]] = tail[Downstream[i]]
      <3>1. t.dst # Downstream[i]
        BY <2>a, <2>1, CallElsewhere, Zenon
      <3>2. Downstream[i] \in Slots
        BY Zenon DEF Slots, Range, Targets
      <3> QED BY <2>a, <3>1, <3>2, Zenon
    <2> QED BY <2>a, <2>1, UntouchedKept, Zenon
  <1>4. CASE ClearUpstream
    <2>a. /\ UNCHANGED <<node, before>> /\ waiting' = waiting /\ next' = next
          /\ head' = [s \in Slots |-> IF s \in RoutedUpstream THEN Null ELSE head[s]]
          /\ tail' = [s \in Slots |-> IF s \in RoutedUpstream THEN Null ELSE tail[s]]
      BY <1>4, Zenon DEF ClearUpstream
    <2>1. ASSUME NEW i \in Targets
          PROVE  head'[Downstream[i]] = head[Downstream[i]] /\ tail'[Downstream[i]] = tail[Downstream[i]]
      <3>1. Downstream[i] \in Slots /\ Downstream[i] \in Range(Downstream)
        BY Zenon DEF Slots, Range, Targets
      <3>2. Downstream[i] \notin RoutedUpstream
        <4>1. Range(Upstream) \intersect Range(Downstream) = {}
          BY <1>0, RoutingAssumption, Zenon DEF Types, Upstream
        <4> QED BY <1>0, <3>1, <4>1, Zenon DEF RoutedUpstream, Listed
      <3> QED BY <2>a, <3>1, <3>2, Zenon
    <2> QED BY <2>a, <2>1, UntouchedKept, Zenon
  <1>5. ASSUME NEW t \in threads, LoadSource(t) \/ LoadDest(t)
        PROVE  UNCHANGED <<node, before, next, head, tail>> /\ waiting' = waiting
    BY <1>5, Zenon DEF LoadSource, LoadDest
  <1>6. ASSUME NEW i \in Targets, StartMerge(i) \/ NextRound(i) \/ EndMerge(i)
        PROVE  UNCHANGED <<node, before, next, head, tail>> /\ waiting' \subseteq waiting
    BY <1>6, Zenon DEF StartMerge, Start, NextRound, Round, EndMerge, Leave
  <1>7. Return \/ UNCHANGED vars => UNCHANGED <<node, before, next, head, tail>> /\ waiting' = waiting
    BY Zenon DEF Return, vars
  <1>8. ~ Bridge
    BY <1>0, Zenon DEF Bridge, Listed
  <1> QED BY <1>1, <1>2, <1>3, <1>4, <1>5, <1>6, <1>7, <1>8, Zenon DEF Next, Finished

(* Nothing fills an upstream again once it is cleared.                     *)
LEMMA ClearedStep ==
  ASSUME Inv, Cleared, [Next]_vars
  PROVE  Cleared'
  <1>0. Types /\ Listed /\ Calls
    BY Zenon DEF Inv
  <1>1. CASE stage = "done"
    <2>1. threads = {} /\ waiting = {} /\ DOMAIN merge = {}
      <3>1. stage # "route"
        BY <1>1
      <3> QED BY <1>0, <3>1, NothingOpen, Zenon
    <2>2. /\ \A i : ~ StartMerge(i) /\ ~ NextRound(i) /\ ~ EndMerge(i)
          /\ ~ Bridge /\ ~ Return
      BY <1>1, <2>1, Zenon DEF StartMerge, Start, NextRound, Round, EndMerge, Leave, Bridge, Return
    <2>3. ~ ClearUpstream
      BY <1>1 DEF ClearUpstream
    <2>4. UNCHANGED vars
      BY <2>1, <2>2, <2>3, Zenon DEF Next, Finished
    <2>5. head' = head /\ tail' = tail /\ node' = node /\ stage' = stage
      BY <2>4, Zenon DEF vars
    <2> QED BY <2>5, Zenon DEF Cleared, RoutedUpstream, kind, Upstream
  <1>2. CASE stage # "done" /\ ClearUpstream
    <2>1. /\ node' = node
          /\ head' = [s \in Slots |-> IF s \in RoutedUpstream THEN Null ELSE head[s]]
          /\ tail' = [s \in Slots |-> IF s \in RoutedUpstream THEN Null ELSE tail[s]]
      BY <1>2, Zenon DEF ClearUpstream
    <2>2. RoutedUpstream' = RoutedUpstream
      BY <2>1, Zenon DEF RoutedUpstream, kind, Upstream
    <2>3. RoutedUpstream \subseteq Slots
      BY <1>0, Zenon DEF RoutedUpstream, Listed, Slots
    <2> QED BY <2>1, <2>2, <2>3, Zenon DEF Cleared
  <1>3. CASE stage # "done" /\ ~ ClearUpstream
    <2>1. stage' = stage \/ stage' = "clear"
      BY <1>3, Zenon DEF Next, Finished, LoadSource, LoadDest, Link, StoreTail, StartMerge, Start,
                NextRound, Round, EndMerge, Leave, Bridge, Return, vars
    <2>2. stage' # "done"
      BY <1>3, <2>1
    <2> QED BY <2>2, Zenon DEF Cleared
  <1> QED BY <1>1, <1>2, <1>3, Zenon

(***************************************************************************)
(* The groups                                                              *)
(***************************************************************************)

INSTANCE FiniteSetTheorems

(* A set of naturals that has an element has a least one.                  *)
LEMMA LeastNumber ==
  ASSUME NEW T \in SUBSET Nat, T # {}
  PROVE  \E x \in T : \A y \in T : x <= y
  <1>1. PICK x \in T : \A y \in T : ~ (<<y, x>> \in OpToRel(<, Nat))
    BY NatLessThanWellFounded, WFMin, Zenon
  <1>2. \A y \in T : ~ (y < x)
    BY <1>1, Zenon DEF OpToRel
  <1> QED BY <1>2

(* Taking an element out of a finite set.                                  *)
LEMMA TakeOut ==
  ASSUME NEW S, IsFiniteSet(S), NEW x \in S
  PROVE  IsFiniteSet(S \ {x}) /\ Cardinality(S \ {x}) = Cardinality(S) - 1
  BY FS_RemoveElement, Zenon

(* s lists the elements of S, each once.                                   *)
Lists(s, S) ==
    /\ s \in Seq(S)
    /\ \A x \in S : \E i \in 1..Len(s) : s[i] = x
    /\ \A i, j \in 1..Len(s) : s[i] = s[j] => i = j

(* How many elements of S are smaller than n.                              *)
Rank(S, n) == Cardinality({m \in S : m < n})

(* A rank is below the number of elements, and two elements differ in it.  *)
LEMMA Ranks ==
  ASSUME NEW S \in SUBSET Nat, IsFiniteSet(S)
  PROVE  /\ \A n \in S : Rank(S, n) \in 0..(Cardinality(S) - 1)
         /\ \A n, k \in S : Rank(S, n) = Rank(S, k) => n = k
  <1> DEFINE Below(n) == {m \in S : m < n}
  <1>0. Cardinality(S) \in Nat
    BY FS_CardinalityType, Zenon
  <1>1. ASSUME NEW n \in S
        PROVE  IsFiniteSet(Below(n)) /\ Cardinality(Below(n)) \in Nat /\ n \notin Below(n)
    BY FS_Subset, FS_CardinalityType
  <1>2. ASSUME NEW n \in S, NEW B \in SUBSET S, Below(n) \subseteq B, n \in B
        PROVE  Cardinality(Below(n)) < Cardinality(B) /\ Cardinality(B) \in Nat
    <2>1. IsFiniteSet(B) /\ Cardinality(B) \in Nat
      BY FS_Subset, FS_CardinalityType, Zenon
    <2>2. IsFiniteSet(B \ {n}) /\ Cardinality(B \ {n}) = Cardinality(B) - 1
      BY <1>2, <2>1, TakeOut, Zenon
    <2>3. Below(n) \in SUBSET (B \ {n})
      BY <1>1, <1>2, Zenon
    <2>4. Cardinality(Below(n)) <= Cardinality(B \ {n})
      BY <2>2, <2>3, FS_Subset, Zenon
    <2> HIDE DEF Below
    <2> QED BY <1>1, <2>1, <2>2, <2>4
  <1>3. ASSUME NEW n \in S PROVE Rank(S, n) \in 0..(Cardinality(S) - 1)
    <2>1. Cardinality(Below(n)) < Cardinality(S)
      BY <1>2, Zenon
    <2>2. Cardinality(Below(n)) \in Nat
      BY <1>1, Zenon
    <2> HIDE DEF Below
    <2>3. Cardinality(Below(n)) \in 0..(Cardinality(S) - 1)
      BY <1>0, <2>1, <2>2
    <2> QED BY <2>3, Zenon DEF Rank, Below
  <1>4. ASSUME NEW n \in S, NEW k \in S, n < k PROVE Rank(S, n) # Rank(S, k)
    <2>a. \A m \in S : m < n => m < k
      BY <1>4
    <2>1. Below(n) \subseteq Below(k) /\ n \in Below(k) /\ Below(k) \in SUBSET S
      BY <1>4, <2>a, Zenon
    <2>2. Cardinality(Below(n)) < Cardinality(Below(k))
      BY <1>2, <2>1, Zenon
    <2>3. Cardinality(Below(n)) \in Nat /\ Cardinality(Below(k)) \in Nat
      BY <1>1, Zenon
    <2> HIDE DEF Below
    <2>4. Cardinality(Below(n)) # Cardinality(Below(k))
      BY <2>2, <2>3
    <2> QED BY <2>4, Zenon DEF Rank, Below
  <1>5. \A n, k \in S : n < k \/ k < n \/ n = k
    OBVIOUS
  <1> QED BY <1>3, <1>4, <1>5, Zenon

(* Ascending lists a set of indices: nothing is lost, nothing comes twice. *)
LEMMA AscendingLists ==
  ASSUME NEW S \in SUBSET Nat, IsFiniteSet(S)
  PROVE  Lists(Ascending(S), S)
  <1> DEFINE N == Cardinality(S)
             r == [n \in S |-> Rank(S, n)]
             Nth(i) == CHOOSE n \in S : Rank(S, n) = i - 1
             a == [i \in 1..N |-> Nth(i)]
  <1>0. N \in Nat
    BY FS_CardinalityType, Zenon
  <1>1. r \in Injection(S, 0..(N - 1))
    BY Ranks, Zenon DEF Injection, IsInjective
  <1>2. Ascending(S) = a
    BY Zenon DEF Ascending, Rank
  <1>3. /\ \A x \in S : Rank(S, x) \in 0..(N - 1)
        /\ \A n, k \in S : Rank(S, n) = Rank(S, k) => n = k
    BY Ranks, Zenon
  <1> HIDE DEF r, N
  <1>4. r \in Surjection(S, 0..(N - 1))
    <2>1. IsFiniteSet(0..(N - 1)) /\ Cardinality(0..(N - 1)) = N
      BY <1>0, FS_Interval
    <2> QED BY <1>1, <2>1, FS_Injection, Zenon DEF N
  <1>5. \A j \in 0..(N - 1) : \E n \in S : Rank(S, n) = j
    BY <1>4, Zenon DEF Surjection, r
  <1>6. ASSUME NEW i \in 1..N PROVE Nth(i) \in S /\ Rank(S, Nth(i)) = i - 1
    <2>1. i - 1 \in 0..(N - 1)
      BY <1>0
    <2>2. \E n \in S : Rank(S, n) = i - 1
      BY <1>5, <2>1, Zenon
    <2> QED BY <2>2, Zenon
  <1> HIDE DEF Nth
  <1>7. a \in Seq(S) /\ Len(a) = N /\ \A i \in 1..N : a[i] = Nth(i)
    BY <1>0, <1>6
  <1> HIDE DEF a
  <1>8. ASSUME NEW x \in S PROVE \E i \in 1..N : a[i] = x
    <2>1. PICK k \in 0..(N - 1) : k = Rank(S, x)
      BY <1>3, Zenon
    <2>2. PICK i \in 1..N : i - 1 = k
      <3>1. k + 1 \in 1..N /\ k + 1 - 1 = k
        BY <1>0
      <3> QED BY <3>1
    <2>3. a[i] \in S /\ Rank(S, a[i]) = Rank(S, x)
      BY <1>6, <1>7, <2>1, <2>2, Zenon
    <2>4. a[i] = x
      BY <1>3, <2>3, Zenon
    <2> QED BY <2>4, Zenon
  <1>9. ASSUME NEW i \in 1..N, NEW j \in 1..N, a[i] = a[j] PROVE i = j
    <2>1. i - 1 = j - 1
      BY <1>6, <1>7, <1>9, Zenon
    <2> QED BY <1>0, <2>1
  <1>10. Lists(a, S)
    BY <1>7, <1>8, <1>9, Zenon DEF Lists
  <1> QED BY <1>2, <1>10, Zenon

(* The upstreams of a shuffle that go to the i-th downstream.              *)
Routed(i) == {k \in DOMAIN Upstream : Partition(k) = i - 1}

(* What the assumption says of the slots.                                  *)
LEMMA NodeFacts ==
  ASSUME node \in Nodes
  PROVE  /\ kind \in {"Bridge", "Aggregate", "Broadcast", "Modulo", "RoundRobin", "FixedMap"}
         /\ Upstream \in Seq(Nat) /\ (kind = "Bridge" => Upstream # <<>>)
         /\ Downstream \in Seq(Nat) /\ Downstream # <<>>
         /\ \A a, b \in DOMAIN Upstream : Upstream[a] = Upstream[b] => a = b
         /\ \A a, b \in DOMAIN Downstream : Downstream[a] = Downstream[b] => a = b
         /\ Range(Upstream) \intersect Range(Downstream) = {}
         /\ node.pages \in Nat /\ Null \notin Pages /\ Threshold \in Nat
  BY RoutingAssumption, Zenon DEF kind, Upstream, Pages, Slots, IsInjective

(* Aggregate and Broadcast merge every upstream.                           *)
LEMMA WholeGroup ==
  ASSUME kind \in {"Broadcast", "Aggregate"}, NEW i
  PROVE  Group(i) = Upstream
  BY DEF Group

(* A shuffle's group lists the upstreams that the policy sends to it.      *)
LEMMA RoutedGroup ==
  ASSUME node \in Nodes, kind \notin {"Broadcast", "Aggregate", "Bridge"}, NEW i
  PROVE  /\ Group(i) \in Seq(Range(Upstream))
         /\ \A x \in DOMAIN Group(i) : \E k \in Routed(i) : Group(i)[x] = Upstream[k]
         /\ \A k \in Routed(i) : \E x \in DOMAIN Group(i) : Group(i)[x] = Upstream[k]
         /\ \A x, y \in DOMAIN Group(i) : Group(i)[x] = Group(i)[y] => x = y
  <1>0. /\ Upstream \in Seq(Nat) /\ Len(Upstream) \in Nat /\ DOMAIN Upstream = 1..Len(Upstream)
        /\ \A a, b \in DOMAIN Upstream : Upstream[a] = Upstream[b] => a = b
    BY NodeFacts
  <1>1. PICK r : r = Ascending(Routed(i))
    OBVIOUS
  <1>2. Lists(r, Routed(i))
    <2>1. Routed(i) \subseteq 1..Len(Upstream) /\ 1..Len(Upstream) \subseteq Nat
      BY <1>0 DEF Routed
    <2>2. IsFiniteSet(Routed(i))
      <3>1. PICK n \in Nat : n = Len(Upstream)
        BY <1>0, Zenon
      <3>2. 1 \in Int /\ n \in Int
        OBVIOUS
      <3>3. IsFiniteSet(1..n)
        BY <3>2, FS_Interval, Zenon
      <3>4. PICK I, S : I = 1..n /\ S = Routed(i)
        BY Zenon
      <3>5. IsFiniteSet(S)
        BY <2>1, <3>1, <3>3, <3>4, FS_Subset, Zenon
      <3> QED BY <3>4, <3>5, Zenon
    <2>3. PICK S : S = Routed(i)
      OBVIOUS
    <2> QED BY <1>1, <2>1, <2>2, <2>3, AscendingLists, Zenon
  <1>3. Group(i) = [j \in DOMAIN r |-> Upstream[r[j]]]
    BY <1>1 DEF Group, Routed
  <1>4. /\ Len(r) \in Nat /\ DOMAIN r = 1..Len(r) /\ \A j \in DOMAIN r : r[j] \in Routed(i)
        /\ \A k \in Routed(i) : \E j \in DOMAIN r : r[j] = k
        /\ \A j, k \in DOMAIN r : r[j] = r[k] => j = k
    <2>1. /\ r \in Seq(Routed(i)) /\ \A k \in Routed(i) : \E j \in 1..Len(r) : r[j] = k
          /\ \A j, k \in 1..Len(r) : r[j] = r[k] => j = k
      BY <1>2, Zenon DEF Lists
    <2>2. Len(r) \in Nat /\ DOMAIN r = 1..Len(r) /\ \A j \in DOMAIN r : r[j] \in Routed(i)
      BY <2>1
    <2> QED BY <2>1, <2>2, Zenon
  <1>5. Routed(i) \subseteq DOMAIN Upstream
    BY Zenon DEF Routed
  <1>6. DOMAIN Group(i) = DOMAIN r /\ \A j \in DOMAIN r : Group(i)[j] = Upstream[r[j]]
    BY <1>3, Zenon
  <1>7. Group(i) \in Seq(Range(Upstream))
    <2>1. \A j \in 1..Len(r) : Upstream[r[j]] \in Range(Upstream)
      BY <1>4, <1>5, Zenon DEF Range
    <2> QED BY <1>3, <1>4, <2>1
  <1>8. ASSUME NEW x \in DOMAIN Group(i), NEW y \in DOMAIN Group(i), Group(i)[x] = Group(i)[y]
        PROVE  x = y
    <2>1. Upstream[r[x]] = Upstream[r[y]] /\ r[x] \in DOMAIN Upstream /\ r[y] \in DOMAIN Upstream
      BY <1>4, <1>5, <1>6, <1>8, Zenon
    <2> QED BY <1>0, <1>4, <1>6, <2>1, Zenon
  <1>9. \A x \in DOMAIN Group(i) : \E k \in Routed(i) : Group(i)[x] = Upstream[k]
    BY <1>4, <1>6, Zenon
  <1>10. ASSUME NEW k \in Routed(i) PROVE \E x \in DOMAIN Group(i) : Group(i)[x] = Upstream[k]
    <2>1. PICK j \in DOMAIN r : r[j] = k
      BY <1>4, Zenon
    <2>2. Group(i)[j] = Upstream[k]
      BY <1>6, <2>1, Zenon
    <2> QED BY <1>6, <2>2, Zenon
  <1> QED BY <1>7, <1>8, <1>9, <1>10, Zenon

(* What all groups have in common.                                         *)
LEMMA GroupFacts ==
  ASSUME node \in Nodes, kind # "Bridge", NEW i
  PROVE  /\ Group(i) \in Seq(Range(Upstream)) /\ Range(Group(i)) \subseteq Range(Upstream)
         /\ \A x, y \in DOMAIN Group(i) : Group(i)[x] = Group(i)[y] => x = y
  <1>1. /\ Group(i) \in Seq(Range(Upstream))
        /\ \A x, y \in DOMAIN Group(i) : Group(i)[x] = Group(i)[y] => x = y
    <2>1. CASE kind \in {"Broadcast", "Aggregate"}
      <3>1. Group(i) = Upstream
        BY <2>1, WholeGroup, Zenon
      <3>2. Upstream \in Seq(Range(Upstream))
        BY NodeFacts DEF Range
      <3> QED BY <3>1, <3>2, NodeFacts, Zenon
    <2>2. CASE kind \notin {"Broadcast", "Aggregate"}
      BY <2>2, RoutedGroup, Zenon
    <2> QED BY <2>1, <2>2, Zenon
  <1>2. \A x \in DOMAIN Group(i) : Group(i)[x] \in Range(Upstream)
    BY <1>1
  <1> QED BY <1>1, <1>2, Zenon DEF Range

(* The sources of a merge of more than a bridge.                           *)
LEMMA SourceFacts ==
  ASSUME node \in Nodes, kind # "Bridge", NEW i
  PROVE  /\ Len(Group(i)) \in Nat /\ DOMAIN Group(i) = 1..Len(Group(i))
         /\ DOMAIN Sources(i) = 1..(Len(Group(i)) + 1) /\ Len(Sources(i)) = Len(Group(i)) + 1
         /\ Sources(i)[1] = Downstream[i]
         /\ \A k \in DOMAIN Group(i) : k + 1 \in DOMAIN Sources(i) /\ Sources(i)[k + 1] = Group(i)[k]
         /\ \A k \in DOMAIN Sources(i) : k # 1 => k - 1 \in DOMAIN Group(i) /\ Sources(i)[k] = Group(i)[k - 1]
  <1>1. Group(i) \in Seq(Range(Upstream)) /\ Sources(i) = <<Downstream[i]>> \o Group(i)
    BY GroupFacts, Zenon DEF Sources
  <1> QED BY <1>1

(* Different merges have different sources, but for a broadcast.           *)
LEMMA SourcesApart ==
  ASSUME node \in Nodes, kind # "Bridge", NEW i \in Targets, NEW j \in Targets, i # j,
         kind # "Aggregate", NEW p \in DOMAIN Sources(i), NEW q \in DOMAIN Sources(j),
         Sources(i)[p] = Sources(j)[q]
  PROVE  kind = "Broadcast" /\ p = q /\ p # 1
  <1>0. /\ \A a, b \in DOMAIN Upstream : Upstream[a] = Upstream[b] => a = b
        /\ \A a, b \in DOMAIN Downstream : Downstream[a] = Downstream[b] => a = b
        /\ Range(Upstream) \intersect Range(Downstream) = {}
        /\ Downstream \in Seq(Nat)
    BY NodeFacts, Zenon
  <1>1. /\ Downstream[i] \in Range(Downstream) /\ Downstream[j] \in Range(Downstream)
        /\ Downstream[i] # Downstream[j]
    BY <1>0, Zenon DEF Range, Targets
  <1>2. /\ p # 1 => p - 1 \in DOMAIN Group(i) /\ Sources(i)[p] = Group(i)[p - 1]
        /\ q # 1 => q - 1 \in DOMAIN Group(j) /\ Sources(j)[q] = Group(j)[q - 1]
        /\ Sources(i)[1] = Downstream[i] /\ Sources(j)[1] = Downstream[j]
    BY SourceFacts, Zenon
  <1>3. /\ \A x \in DOMAIN Group(i) : Group(i)[x] \in Range(Upstream)
        /\ \A x \in DOMAIN Group(j) : Group(j)[x] \in Range(Upstream)
    <2>1. Range(Group(i)) \subseteq Range(Upstream) /\ Range(Group(j)) \subseteq Range(Upstream)
      BY GroupFacts, Zenon
    <2>2. /\ \A x \in DOMAIN Group(i) : Group(i)[x] \in Range(Group(i))
          /\ \A x \in DOMAIN Group(j) : Group(j)[x] \in Range(Group(j))
      BY Zenon DEF Range
    <2> QED BY <2>1, <2>2, Zenon
  <1>4. p # 1 /\ q # 1
    BY <1>0, <1>1, <1>2, <1>3, Zenon
  <1>5. CASE kind = "Broadcast"
    <2>1. Group(i) = Upstream /\ Group(j) = Upstream
      BY <1>5, WholeGroup
    <2>2. p - 1 = q - 1
      BY <1>0, <1>2, <1>4, <2>1, Zenon
    <2>3. p \in Nat /\ q \in Nat
      BY SourceFacts
    <2>4. p = q
      BY <2>2, <2>3
    <2> QED BY <1>4, <1>5, <2>4, Zenon
  <1>6. CASE kind # "Broadcast"
    <2>1. kind \notin {"Broadcast", "Aggregate", "Bridge"}
      BY <1>6, Zenon
    <2>2. PICK k \in Routed(i) : Group(i)[p - 1] = Upstream[k]
      BY <1>2, <1>4, <2>1, RoutedGroup, Zenon
    <2>3. PICK m \in Routed(j) : Group(j)[q - 1] = Upstream[m]
      BY <1>2, <1>4, <2>1, RoutedGroup, Zenon
    <2>4. k = m
      <3>1. k \in DOMAIN Upstream /\ m \in DOMAIN Upstream
        BY Zenon DEF Routed
      <3>2. Upstream[k] = Upstream[m]
        BY <1>2, <1>4, <2>2, <2>3, Zenon
      <3> QED BY <1>0, <3>1, <3>2, Zenon
    <2>5. i - 1 = j - 1
      BY <2>2, <2>3, <2>4, Zenon DEF Routed
    <2> QED BY <1>0, <2>5 DEF Targets
  <1> QED BY <1>5, <1>6, Zenon

(* A node has its merges in the downstreams.                               *)
LEMMA MergesTarget ==
  ASSUME node \in Nodes
  PROVE  Merges \subseteq Targets /\ 1 \in Targets
         /\ (kind \in {"Aggregate", "Bridge"} => Merges = {1})
  <1>1. 1 \in Targets
    BY NodeFacts DEF Targets
  <1> QED BY <1>1, Zenon DEF Merges

(* The sources of the merges at the start.                                 *)
LEMMA InitListed ==
  ASSUME node \in Nodes, kind # "Bridge", Narrow
  PROVE  Listed
  <1>1. ASSUME NEW i \in Merges
        PROVE  /\ i \in Targets /\ IsList(Sources(i)) /\ 1 \in DOMAIN Sources(i)
               /\ Sources(i)[1] = Downstream[i]
               /\ \A k \in DOMAIN Sources(i) : Sources(i)[k] \in Slots
               /\ \A k \in DOMAIN Sources(i) : k # 1 <=> Sources(i)[k] \in Range(Group(i))
               /\ Group(i) \in Seq(Range(Group(i))) /\ Range(Group(i)) \intersect Range(Downstream) = {}
               /\ \A k \in DOMAIN Group(i) : k + 1 \in DOMAIN Sources(i) /\ Sources(i)[k + 1] = Group(i)[k]
    <2>1. i \in Targets /\ Downstream[i] \in Range(Downstream)
      BY MergesTarget, Zenon DEF Range, Targets
    <2>2. /\ Len(Group(i)) \in Nat /\ DOMAIN Group(i) = 1..Len(Group(i))
          /\ DOMAIN Sources(i) = 1..(Len(Group(i)) + 1) /\ Len(Sources(i)) = Len(Group(i)) + 1
          /\ Sources(i)[1] = Downstream[i]
          /\ \A k \in DOMAIN Group(i) : k + 1 \in DOMAIN Sources(i) /\ Sources(i)[k + 1] = Group(i)[k]
          /\ \A k \in DOMAIN Sources(i) : k # 1 => k - 1 \in DOMAIN Group(i) /\ Sources(i)[k] = Group(i)[k - 1]
      BY SourceFacts, Zenon
    <2>3. Range(Group(i)) \subseteq Range(Upstream) /\ Range(Upstream) \intersect Range(Downstream) = {}
      BY GroupFacts, NodeFacts, Zenon
    <2>4. \A k \in DOMAIN Group(i) : Group(i)[k] \in Range(Group(i))
      BY Zenon DEF Range
    <2>5. \A k \in DOMAIN Sources(i) : k # 1 => Sources(i)[k] \in Range(Group(i))
      BY <2>2, <2>4, Zenon
    <2>6. Downstream[i] \notin Range(Group(i))
      BY <2>1, <2>3, Zenon
    <2>7. ASSUME NEW a \in DOMAIN Sources(i), NEW b \in DOMAIN Sources(i), Sources(i)[a] = Sources(i)[b]
          PROVE  a = b
      <3>1. CASE a = 1 \/ b = 1
        BY <2>2, <2>5, <2>6, <2>7, <3>1, Zenon
      <3>2. CASE a # 1 /\ b # 1
        <4>0. \A x, y \in DOMAIN Group(i) : Group(i)[x] = Group(i)[y] => x = y
          BY GroupFacts, Zenon
        <4>1. a - 1 \in DOMAIN Group(i) /\ Sources(i)[a] = Group(i)[a - 1]
          BY <2>2, <3>2, Zenon
        <4>2. b - 1 \in DOMAIN Group(i) /\ Sources(i)[b] = Group(i)[b - 1]
          BY <2>2, <3>2, Zenon
        <4>3. a - 1 = b - 1
          BY <2>7, <4>0, <4>1, <4>2, Zenon
        <4> QED BY <2>2, <4>3
      <3> QED BY <3>1, <3>2, Zenon
    <2>8. Len(Sources(i)) \in Nat /\ DOMAIN Sources(i) = 1..Len(Sources(i)) /\ 1 \in DOMAIN Sources(i)
      BY <2>2
    <2>9. \A k \in DOMAIN Sources(i) : Sources(i)[k] \in Slots
      BY <2>1, <2>2, <2>3, <2>5, Zenon DEF Slots
    <2>10. Group(i) \in Seq(Range(Group(i)))
      <3>1. Group(i) \in Seq(Range(Upstream))
        BY GroupFacts, Zenon
      <3> QED BY <3>1, <2>4
    <2> QED BY <2>1, <2>2, <2>3, <2>5, <2>6, <2>7, <2>8, <2>9, <2>10, Zenon DEF IsList
  <1>2. ASSUME NEW i \in Merges, NEW j \in Merges \ {i}, NEW p \in DOMAIN Sources(i),
               NEW q \in DOMAIN Sources(j), Sources(i)[p] = Sources(j)[q]
        PROVE  kind = "Broadcast" /\ p = q /\ p # 1
    <2>1. i \in Targets /\ j \in Targets /\ i # j /\ kind # "Aggregate"
      BY <1>2, MergesTarget, Zenon
    <2> QED BY <1>2, <2>1, SourcesApart, Zenon
  <1>3. ASSUME kind = "Broadcast", NEW i \in Merges
        PROVE  /\ Len(Group(i)) <= Threshold
               /\ \A j \in Merges : /\ DOMAIN Sources(j) = DOMAIN Sources(i)
                                    /\ \A k \in DOMAIN Sources(i) : k # 1 => Sources(j)[k] = Sources(i)[k]
    <2>1. \A j : Group(j) = Upstream
      BY <1>3, WholeGroup
    <2>2. Len(Upstream) <= Threshold
      BY <1>3, Zenon DEF Narrow, kind, Upstream
    <2>3. \A j : /\ DOMAIN Sources(j) = 1..(Len(Upstream) + 1)
                 /\ \A k \in DOMAIN Sources(j) : k # 1 => Sources(j)[k] = Upstream[k - 1]
      BY <2>1, SourceFacts
    <2> QED BY <2>1, <2>2, <2>3, Zenon
  <1> QED BY <1>1, <1>2, <1>3, Zenon DEF Listed

(***************************************************************************)
(* The initial states                                                      *)
(***************************************************************************)

(* Every slot holds its own pages.                                         *)
LEMMA InitMemory ==
  ASSUME Init
  PROVE  /\ node \in Nodes
         /\ next \in [Pages -> Pages \union {Null}]
         /\ head \in [Slots -> Pages \union {Null}] /\ tail \in [Slots -> Pages \union {Null}]
         /\ before \in [Slots -> Seq(Pages)]
         /\ \A s \in Slots : Len(before[s]) \in 0..node.pages
                             /\ \A j \in 1..Len(before[s]) : before[s][j] = <<s, j>>
         /\ Inside /\ \A s \in Slots : Holds(s, s) /\ Ended(s)
  <1>0. node \in Nodes /\ node.pages \in Nat
    BY NodeFacts, Zenon DEF Init
  <1>1. PICK len \in [Slots -> 0..node.pages] :
          /\ next = [p \in Pages |-> IF p[2] < len[p[1]] THEN <<p[1], p[2] + 1>> ELSE Null]
          /\ head = [s \in Slots |-> IF len[s] = 0 THEN Null ELSE <<s, 1>>]
          /\ tail = [s \in Slots |-> IF len[s] = 0 THEN Null ELSE <<s, len[s]>>]
          /\ before = [s \in Slots |-> [j \in 1..len[s] |-> <<s, j>>]]
    BY Zenon DEF Init
  <1>2. \A s \in Slots : \A j \in 1..node.pages : <<s, j>> \in Pages
    BY Zenon DEF Pages
  <1>3. \A p \in Pages : p[1] \in Slots /\ p[2] \in 1..node.pages /\ p = <<p[1], p[2]>>
    BY DEF Pages
  <1>4. \A s \in Slots : len[s] \in Nat /\ len[s] <= node.pages
    BY <1>0
  <1>5. next \in [Pages -> Pages \union {Null}]
    <2>1. ASSUME NEW p \in Pages, p[2] < len[p[1]] PROVE <<p[1], p[2] + 1>> \in Pages
      <3>1. p[2] + 1 \in 1..node.pages
        BY <1>0, <1>3, <1>4, <2>1
      <3> QED BY <1>2, <1>3, <3>1, Zenon
    <2> QED BY <1>1, <2>1, Zenon
  <1>6. head \in [Slots -> Pages \union {Null}] /\ tail \in [Slots -> Pages \union {Null}]
    <2>1. \A s \in Slots : len[s] # 0 => 1 \in 1..node.pages /\ len[s] \in 1..node.pages
      BY <1>0, <1>4
    <2> QED BY <1>1, <1>2, <2>1, Zenon
  <1>7. ASSUME NEW s \in Slots
        PROVE  /\ before[s] \in Seq(Pages) /\ Len(before[s]) = len[s]
               /\ \A j \in 1..len[s] : before[s][j] = <<s, j>>
               /\ Empty(before, s) <=> len[s] = 0
    <2>1. before[s] = [j \in 1..len[s] |-> <<s, j>>]
      BY <1>1, Zenon
    <2>2. len[s] \in Nat /\ \A j \in 1..len[s] : <<s, j>> \in Pages
      <3>1. \A j \in 1..len[s] : j \in 1..node.pages
        BY <1>0, <1>4
      <3> QED BY <1>2, <1>4, <3>1, Zenon
    <2>3. before[s] \in Seq(Pages) /\ Len(before[s]) = len[s]
      BY <2>1, <2>2
    <2>4. Empty(before, s) <=> len[s] = 0
      BY <2>2, <2>3 DEF Empty
    <2> QED BY <2>1, <2>3, <2>4, Zenon
  <1>8. before \in [Slots -> Seq(Pages)]
    <2>1. before = [s \in Slots |-> before[s]]
      BY <1>1, Zenon
    <2> QED BY <1>7, <2>1, Zenon
  <1>9. Inside
    <2> SUFFICES ASSUME NEW s \in Slots, NEW j \in 1..(Len(before[s]) - 1)
                 PROVE  next[<<s, j>>] = <<s, j + 1>>
      BY Zenon DEF Inside
    <2>1. len[s] \in Nat /\ j \in 1..(len[s] - 1)
      BY <1>4, <1>7, Zenon
    <2>2. j \in 1..node.pages /\ j < len[s]
      BY <1>0, <1>4, <2>1
    <2>3. <<s, j>> \in Pages
      BY <1>2, <2>2, Zenon
    <2>4. next[<<s, j>>] = IF <<s, j>>[2] < len[<<s, j>>[1]] THEN <<<<s, j>>[1], <<s, j>>[2] + 1>> ELSE Null
      BY <1>1, <2>3, Zenon
    <2> QED BY <2>2, <2>4
  <1>10. \A s \in Slots : Holds(s, s)
    BY <1>1, <1>7, Zenon DEF Holds, FirstPage, LastPage
  <1>11. ASSUME NEW s \in Slots, ~ Empty(before, s) PROVE next[LastPage(before, s)] = Null
    <2>1. len[s] \in 1..node.pages /\ ~ (len[s] < len[s])
      BY <1>0, <1>4, <1>7, <1>11
    <2>2. <<s, len[s]>> \in Pages /\ LastPage(before, s) = <<s, len[s]>>
      BY <1>2, <1>7, <2>1, Zenon DEF LastPage
    <2>3. next[<<s, len[s]>>] = IF <<s, len[s]>>[2] < len[<<s, len[s]>>[1]]
                                THEN <<<<s, len[s]>>[1], <<s, len[s]>>[2] + 1>> ELSE Null
      BY <1>1, <2>2, Zenon
    <2> QED BY <2>1, <2>2, <2>3
  <1>12. \A s \in Slots : Len(before[s]) \in 0..node.pages
    BY <1>7, Zenon
  <1> QED BY <1>0, <1>5, <1>6, <1>7, <1>8, <1>9, <1>10, <1>11, <1>12, Zenon DEF Ended

(* The invariant holds at the start.                                       *)
LEMMA InitInv ==
  ASSUME Init, kind # "Bridge", Narrow
  PROVE  Inv /\ Untouched /\ Cleared
  <1>0. /\ node \in Nodes
        /\ next \in [Pages -> Pages \union {Null}]
        /\ head \in [Slots -> Pages \union {Null}] /\ tail \in [Slots -> Pages \union {Null}]
        /\ before \in [Slots -> Seq(Pages)]
        /\ \A s \in Slots : Len(before[s]) \in 0..node.pages
                            /\ \A j \in 1..Len(before[s]) : before[s][j] = <<s, j>>
        /\ Inside /\ \A s \in Slots : Holds(s, s) /\ Ended(s)
    BY InitMemory, Zenon
  <1>1. waiting = Merges /\ merge = <<>> /\ threads = {} /\ stage = "route"
    BY Zenon DEF Init
  <1>2. DOMAIN merge = {} /\ stage # "done"
    BY <1>1
  <1>3. Listed
    BY <1>0, InitListed, Zenon
  <1>4. Types
    BY <1>0, <1>1, <1>2, Zenon DEF Types
  <1>5. Lefts /\ Calls /\ OneAtATime
    BY <1>1, <1>2, Zenon DEF Lefts, Calls, OneAtATime
  <1>6. Untouched
    <2>1. \A i \in Targets : Downstream[i] \in Slots
      BY Zenon DEF Slots, Range, Targets
    <2> QED BY <1>0, <2>1, Zenon DEF Untouched
  <1>7. Cleared
    BY <1>2, Zenon DEF Cleared
  <1>8. ASSUME NEW i \in Merges
        PROVE  /\ \A a \in DOMAIN Sources(i) :
                    /\ IsTail(before, Sources(i), Open(i), a, tail[Sources(i)[a]])
                    /\ IsHead(before, Sources(i), Open(i), a, head[Sources(i)[a]])
               /\ Linked(before, Sources(i), Open(i), next)
    <2> DEFINE L == Sources(i)
               O == Open(i)
    <2>1. O = Range(Group(i))
      BY <1>1, Zenon DEF Open
    <2>2. /\ IsList(L) /\ \A k \in DOMAIN L : L[k] \in Slots /\ (k # 1 <=> L[k] \in O)
      <3>1. IsList(L) /\ \A k \in DOMAIN L : L[k] \in Slots /\ (k # 1 <=> L[k] \in Range(Group(i)))
        BY <1>3, Zenon DEF Listed
      <3> QED BY <2>1, <3>1, Zenon
    <2>3. \A a, k \in DOMAIN L : InSegment(L, O, a, k) <=> a = k
      <3>1. \A a, k \in DOMAIN L : a < k => ~ InSegment(L, O, a, k)
        BY <2>2 DEF InSegment, IsList
      <3>2. \A a, k \in DOMAIN L : a = k \/ a < k \/ ~ (a <= k)
        BY <2>2 DEF IsList
      <3>3. \A a, m \in DOMAIN L : a <= a /\ ~ (a < m /\ m <= a)
        BY <2>2 DEF IsList
      <3> QED BY <3>1, <3>2, <3>3, Zenon DEF InSegment
    <2>4. ASSUME NEW a \in DOMAIN L
          PROVE  IsTail(before, L, O, a, tail[L[a]]) /\ IsHead(before, L, O, a, head[L[a]])
      <3>1. Holds(L[a], L[a])
        BY <1>0, <2>2, Zenon
      <3>2. \A m \in DOMAIN L : ~ (a <= m /\ m < a) /\ ~ (a < a)
        BY <2>2 DEF IsList
      <3>3. InSegment(L, O, a, a) /\ \A m \in DOMAIN L : InSegment(L, O, a, m) => m = a
        BY <2>3, Zenon
      <3>4. CASE Empty(before, L[a])
        <4>1. tail[L[a]] = Null /\ head[L[a]] = Null /\ AllEmpty(before, L, O, a)
          BY <3>1, <3>3, <3>4, Zenon DEF AllEmpty, Holds
        <4> QED BY <4>1, Zenon DEF IsTail, IsHead
      <3>5. CASE ~ Empty(before, L[a])
        <4>1. tail[L[a]] = LastPage(before, L[a]) /\ head[L[a]] = FirstPage(L[a])
          BY <3>1, <3>5, Zenon DEF Holds
        <4> HIDE DEF L, O
        <4>2. IsTail(before, L, O, a, tail[L[a]])
          BY <3>2, <3>3, <3>5, <4>1, Zenon DEF IsTail
        <4>3. IsHead(before, L, O, a, head[L[a]])
          BY <3>2, <3>3, <3>5, <4>1, Zenon DEF IsHead
        <4> QED BY <4>2, <4>3, Zenon
      <3> QED BY <3>4, <3>5, Zenon
    <2>5. Linked(before, L, O, next)
      <3>1. \A k \in DOMAIN L : Ended(L[k])
        BY <1>0, <2>2, Zenon
      <3>2. \A k \in DOMAIN L : ~ (k < k)
        BY <2>2 DEF IsList
      <3> QED BY <2>3, <3>1, <3>2, Zenon DEF Linked, Neighbours, Final, Ended
    <2> QED BY <2>4, <2>5, Zenon
  <1>9. Chained
    BY <1>8, Zenon DEF Chained
  <1> QED BY <1>0, <1>3, <1>4, <1>5, <1>6, <1>7, <1>9, Zenon DEF Inv

(* So does the one of a bridge.                                            *)
LEMMA InitBridge ==
  ASSUME Init, kind = "Bridge"
  PROVE  BridgeInv
  <1>0. /\ node \in Nodes
        /\ next \in [Pages -> Pages \union {Null}]
        /\ head \in [Slots -> Pages \union {Null}] /\ tail \in [Slots -> Pages \union {Null}]
        /\ before \in [Slots -> Seq(Pages)]
        /\ \A s \in Slots : Len(before[s]) \in 0..node.pages
                            /\ \A j \in 1..Len(before[s]) : before[s][j] = <<s, j>>
        /\ Inside /\ \A s \in Slots : Holds(s, s) /\ Ended(s)
    BY InitMemory, Zenon
  <1>1. waiting = Merges /\ merge = <<>> /\ threads = {} /\ stage = "route"
    BY Zenon DEF Init
  <1>2. DOMAIN merge = {} /\ stage # "done"
    BY <1>1
  <1>3. Types
    BY <1>0, <1>1, <1>2, Zenon DEF Types
  <1>4. Merges = {1} /\ 1 \in Targets
    BY <1>0, MergesTarget, Zenon
  <1>5. Downstream[1] \in Slots /\ waiting # {}
    BY <1>1, <1>4, Zenon DEF Slots, Range, Targets
  <1> QED BY <1>0, <1>1, <1>2, <1>3, <1>5, Zenon DEF BridgeInv, Cleared

(***************************************************************************)
(* The steps of a bridge                                                   *)
(***************************************************************************)

(* The two slots of a bridge.                                              *)
LEMMA BridgeSlots ==
  ASSUME node \in Nodes, kind = "Bridge"
  PROVE  Upstream[1] \in Slots /\ Downstream[1] \in Slots /\ Upstream[1] # Downstream[1]
         /\ Upstream[1] \in Range(Upstream) /\ Downstream[1] \in Range(Downstream)
  <1>1. 1 \in DOMAIN Upstream /\ 1 \in DOMAIN Downstream
    BY NodeFacts
  <1>2. Upstream[1] \in Range(Upstream) /\ Downstream[1] \in Range(Downstream)
    BY <1>1, Zenon DEF Range
  <1> QED BY <1>2, NodeFacts, Zenon DEF Slots

(* And every step keeps it.                                                *)
LEMMA BridgeKept ==
  ASSUME BridgeInv, [Next]_vars
  PROVE  BridgeInv'
  <1>0. /\ kind = "Bridge" /\ Types /\ Inside /\ Cleared /\ threads = {} /\ DOMAIN merge = {}
        /\ \A s \in Slots : Ended(s)
        /\ \A s \in Slots : s # Downstream[1] /\ (s = Upstream[1] => stage # "done") => Holds(s, s)
        /\ Holds(Downstream[1], IF waiting = {} /\ ~ Empty(before, Upstream[1]) THEN Upstream[1]
                                ELSE Downstream[1])
    BY Zenon DEF BridgeInv
  <1>a. /\ node \in Nodes /\ head \in [Slots -> Pages \union {Null}] /\ tail \in [Slots -> Pages \union {Null}]
        /\ stage \in {"route", "clear", "done"} /\ (stage # "route" => waiting = {})
    BY <1>0, Zenon DEF Types
  <1>b. /\ Upstream[1] \in Slots /\ Downstream[1] \in Slots /\ Upstream[1] # Downstream[1]
    BY <1>0, <1>a, BridgeSlots, Zenon
  <1>1. Bridge \/ Return \/ ClearUpstream \/ UNCHANGED vars
    <2>1. \A i : ~ StartMerge(i) /\ ~ NextRound(i) /\ ~ EndMerge(i)
      BY <1>0, Zenon DEF StartMerge, Start, NextRound, Round, EndMerge, Leave
    <2> QED BY <1>0, <2>1, Zenon DEF Next, Finished
  <1>2. node' = node /\ before' = before /\ next' = next /\ threads' = threads /\ merge' = merge
    BY <1>1, Zenon DEF Bridge, Return, ClearUpstream, vars
  <1>3. /\ kind' = kind /\ Slots' = Slots /\ Pages' = Pages /\ Merges' = Merges /\ Upstream' = Upstream
    BY <1>2, Fixed, Zenon
  <1>4. Inside' /\ \A s \in Slots' : Ended(s)'
    BY <1>0, <1>2, <1>3, Zenon DEF Inside, Ended, Empty, LastPage
  <1>5. /\ head' \in [Slots -> Pages \union {Null}] /\ tail' \in [Slots -> Pages \union {Null}]
        /\ waiting' \subseteq waiting /\ stage' \in {"route", "clear", "done"}
        /\ (stage' # "route" => waiting' = {})
    <2>1. CASE Bridge
      <3>1. /\ waiting' = {} /\ stage' = stage
            /\ IF head[Upstream[1]] = Null THEN head' = head /\ tail' = tail
               ELSE /\ head' = [head EXCEPT ![Downstream[1]] = head[Upstream[1]]]
                    /\ tail' = [tail EXCEPT ![Downstream[1]] = tail[Upstream[1]]]
        BY <2>1, Zenon DEF Bridge
      <3>2. head[Upstream[1]] \in Pages \union {Null} /\ tail[Upstream[1]] \in Pages \union {Null}
        BY <1>a, <1>b, Zenon
      <3> QED BY <1>a, <1>b, <3>1, <3>2, Zenon
    <2>2. CASE Return
      <3>1. waiting = {} /\ waiting' = waiting /\ head' = head /\ tail' = tail /\ stage' = "clear"
        BY <2>2, Zenon DEF Return
      <3> QED BY <1>a, <3>1
    <2>3. CASE ClearUpstream
      <3>1. /\ stage = "clear" /\ waiting' = waiting /\ stage' = "done"
            /\ head' = [s \in Slots |-> IF s \in RoutedUpstream THEN Null ELSE head[s]]
            /\ tail' = [s \in Slots |-> IF s \in RoutedUpstream THEN Null ELSE tail[s]]
        BY <2>3, Zenon DEF ClearUpstream
      <3>2. waiting = {}
        BY <1>a, <3>1
      <3> QED BY <1>a, <3>1, <3>2, Zenon
    <2>4. CASE UNCHANGED vars
      BY <1>a, <2>4, Zenon DEF vars
    <2> QED BY <1>1, <2>1, <2>2, <2>3, <2>4, Zenon
  <1>6. Types'
    <2>1. ThreadType' = ThreadType
      BY <1>3, Zenon DEF ThreadType, Targets
    <2>2. waiting' \subseteq Merges /\ DOMAIN merge' \subseteq Merges \ waiting'
      BY <1>0, <1>2, <1>5, Zenon DEF Types
    <2> QED BY <1>0, <1>2, <1>3, <1>5, <2>1, <2>2, Zenon DEF Types
  <1>7. CASE Bridge
    <2>1. /\ stage = "route" /\ waiting # {} /\ waiting' = {} /\ stage' = stage
          /\ IF head[Upstream[1]] = Null THEN head' = head /\ tail' = tail
             ELSE /\ head' = [head EXCEPT ![Downstream[1]] = head[Upstream[1]]]
                  /\ tail' = [tail EXCEPT ![Downstream[1]] = tail[Upstream[1]]]
      BY <1>7, Zenon DEF Bridge
    <2>2. stage # "done" /\ stage' # "done"
      BY <2>1
    <2>3. Holds(Upstream[1], Upstream[1]) /\ Holds(Downstream[1], Downstream[1])
      BY <1>0, <1>b, <2>1, <2>2, Zenon
    <2>4. head[Upstream[1]] = Null <=> Empty(before, Upstream[1])
      <3>1. ~ Empty(before, Upstream[1]) => FirstPage(Upstream[1]) # Null
        BY <1>0, <1>b, PagesOf, Zenon
      <3> QED BY <2>3, <3>1, Zenon DEF Holds
    <2>5. ASSUME NEW s \in Slots, s # Downstream[1] PROVE Holds(s, s)'
      <3>1. Holds(s, s) /\ head'[s] = head[s] /\ tail'[s] = tail[s]
        BY <1>0, <1>a, <2>1, <2>2, <2>5, Zenon
      <3> QED BY <1>2, <3>1, Zenon DEF Holds, Empty, LastPage
    <2>6. Holds(Downstream[1], IF waiting = {} /\ ~ Empty(before, Upstream[1]) THEN Upstream[1]
                               ELSE Downstream[1])'
      <3>1. CASE Empty(before, Upstream[1])
        <4>1. head' = head /\ tail' = tail
          BY <2>1, <2>4, <3>1, Zenon
        <4>2. Holds(Downstream[1], Downstream[1])'
          BY <1>2, <2>3, <4>1, Zenon DEF Holds, Empty, LastPage
        <4> QED BY <1>2, <1>3, <3>1, <4>2, Zenon DEF Empty
      <3>2. CASE ~ Empty(before, Upstream[1])
        <4>1. head'[Downstream[1]] = head[Upstream[1]] /\ tail'[Downstream[1]] = tail[Upstream[1]]
          BY <1>a, <1>b, <2>1, <2>4, <3>2, Zenon
        <4>2. PICK u : u = Upstream[1]
          OBVIOUS
        <4>3. Holds(Downstream[1], u)'
          BY <1>2, <2>3, <3>2, <4>1, <4>2, Zenon DEF Holds, Empty, LastPage
        <4> QED BY <1>2, <1>3, <2>1, <3>2, <4>2, <4>3, Zenon DEF Empty
      <3> QED BY <3>1, <3>2, Zenon
    <2>7. Cleared'
      BY <2>2, Zenon DEF Cleared
    <2> QED BY <1>0, <1>2, <1>3, <1>4, <1>6, <2>5, <2>6, <2>7, Zenon DEF BridgeInv
  <1>8. CASE Return \/ UNCHANGED vars
    <2>1. head' = head /\ tail' = tail /\ waiting' = waiting
          /\ (stage' = stage \/ (stage = "route" /\ stage' = "clear"))
      BY <1>8, Zenon DEF Return, vars
    <2>2. stage' = "done" <=> stage = "done"
      BY <2>1
    <2>3. \A s, u : Holds(s, u) <=> Holds(s, u)'
      BY <1>2, <2>1, Zenon DEF Holds, Empty, LastPage
    <2>4. Cleared'
      BY <1>0, <1>2, <2>1, <2>2, Zenon DEF Cleared, RoutedUpstream, kind, Upstream
    <2>5. ASSUME NEW s \in Slots, s # Downstream[1], s = Upstream[1] => stage' # "done" PROVE Holds(s, s)'
      BY <1>0, <2>2, <2>3, <2>5, Zenon
    <2>6. Holds(Downstream[1], IF waiting = {} /\ ~ Empty(before, Upstream[1]) THEN Upstream[1]
                               ELSE Downstream[1])'
      BY <1>0, <1>2, <1>3, <2>1, Zenon DEF Holds, Empty, LastPage
    <2> QED BY <1>0, <1>2, <1>3, <1>4, <1>6, <2>4, <2>5, <2>6, Zenon DEF BridgeInv
  <1>9. CASE ClearUpstream
    <2>1. /\ stage = "clear" /\ stage' = "done" /\ waiting' = waiting
          /\ head' = [s \in Slots |-> IF s \in RoutedUpstream THEN Null ELSE head[s]]
          /\ tail' = [s \in Slots |-> IF s \in RoutedUpstream THEN Null ELSE tail[s]]
      BY <1>9, Zenon DEF ClearUpstream
    <2>2. stage # "done" /\ RoutedUpstream = {Upstream[1]} /\ RoutedUpstream' = RoutedUpstream
      <3>1. RoutedUpstream = {Upstream[1]} /\ RoutedUpstream' = {Upstream[1]}
        BY <1>0, <1>3, Zenon DEF RoutedUpstream
      <3> QED BY <2>1, <3>1
    <2>3. Cleared'
      BY <1>b, <2>1, <2>2, Zenon DEF Cleared
    <2>4. ASSUME NEW s \in Slots, s # Upstream[1] PROVE head'[s] = head[s] /\ tail'[s] = tail[s]
      BY <2>1, <2>2, <2>4, Zenon
    <2>5. ASSUME NEW s \in Slots, s # Downstream[1], s # Upstream[1] PROVE Holds(s, s)'
      BY <1>0, <1>2, <2>4, <2>5, Zenon DEF Holds, Empty, LastPage
    <2>6. Holds(Downstream[1], IF waiting = {} /\ ~ Empty(before, Upstream[1]) THEN Upstream[1]
                               ELSE Downstream[1])'
      <3>1. head'[Downstream[1]] = head[Downstream[1]] /\ tail'[Downstream[1]] = tail[Downstream[1]]
        BY <1>b, <2>4, Zenon
      <3> QED BY <1>0, <1>2, <1>3, <2>1, <3>1, Zenon DEF Holds, Empty, LastPage
    <2> QED BY <1>0, <1>2, <1>3, <1>4, <1>6, <2>1, <2>3, <2>5, <2>6, Zenon DEF BridgeInv
  <1> QED BY <1>1, <1>7, <1>8, <1>9, Zenon

(***************************************************************************)
(* The chains of a slot whose sources are joined                           *)
(***************************************************************************)

(* Slot s holds the pages of the sources L, all joined.                    *)
Whole(s, L) ==
    /\ IsList(L) /\ 1 \in DOMAIN L /\ \A k \in DOMAIN L : L[k] \in Slots
    /\ IsHead(before, L, {}, 1, head[s]) /\ IsTail(before, L, {}, 1, tail[s])
    /\ Linked(before, L, {}, next)

(* With nothing open there is one segment.                                 *)
LEMMA AllInSegment ==
  ASSUME NEW L, IsList(L)
  PROVE  \A a, k \in DOMAIN L : InSegment(L, {}, a, k) <=> a <= k
  BY Zenon DEF InSegment

(* The pages of a slot.                                                    *)
LEMMA PageFacts ==
  ASSUME Types, NEW s \in Slots
  PROVE  /\ Len(before[s]) \in Nat /\ DOMAIN before[s] = 1..Len(before[s])
         /\ Empty(before, s) <=> Len(before[s]) = 0
         /\ \A j \in DOMAIN before[s] : before[s][j] = <<s, j>> /\ <<s, j>> \in Pages
         /\ ~ Empty(before, s) => Len(before[s]) \in DOMAIN before[s] /\ 1 \in DOMAIN before[s]
  <1>1. /\ before[s] \in Seq(Pages) /\ Len(before[s]) \in 0..node.pages /\ node \in Nodes
        /\ \A j \in 1..Len(before[s]) : before[s][j] = <<s, j>>
    BY Zenon DEF Types
  <1>2. node.pages \in Nat
    BY <1>1, NodeFacts, Zenon
  <1>3. /\ Len(before[s]) \in Nat /\ DOMAIN before[s] = 1..Len(before[s])
        /\ (Empty(before, s) <=> Len(before[s]) = 0)
    BY <1>1 DEF Empty
  <1>4. \A j \in 1..Len(before[s]) : j \in 1..node.pages
    BY <1>1, <1>2
  <1>5. \A j \in 1..Len(before[s]) : <<s, j>> \in Pages
    BY <1>4, Zenon DEF Pages
  <1>6. Len(before[s]) # 0 => Len(before[s]) \in 1..Len(before[s]) /\ 1 \in 1..Len(before[s])
    BY <1>3
  <1> QED BY <1>1, <1>3, <1>5, <1>6, Zenon

(* The first of the sources that have pages after the k-th.                *)
LEMMA FirstAfter ==
  ASSUME NEW L, IsList(L), NEW B, NEW k \in Nat, NEW m \in DOMAIN L, m > k, ~ Empty(B, L[m])
  PROVE  \E x \in DOMAIN L : /\ x > k /\ ~ Empty(B, L[x])
                             /\ \A y \in DOMAIN L : y > k /\ ~ Empty(B, L[y]) => x <= y
  <1> DEFINE T == {y \in DOMAIN L : y > k /\ ~ Empty(B, L[y])}
  <1>1. T \in SUBSET Nat /\ T # {}
    BY DEF IsList
  <1>2. PICK x \in T : \A y \in T : x <= y
    <2> HIDE DEF T
    <2> QED BY <1>1, LeastNumber, Zenon
  <1> QED BY <1>2, Zenon

(* Following names the first page of that source.                          *)
LEMMA FollowingIs ==
  ASSUME Types, NEW i, IsList(Sources(i)), \A k \in DOMAIN Sources(i) : Sources(i)[k] \in Slots,
         NEW k \in Nat
  PROVE  /\ (\A m \in DOMAIN Sources(i) : m > k => Empty(before, Sources(i)[m])) => Following(i, k) = Null
         /\ \A m \in DOMAIN Sources(i) :
              /\ m > k /\ ~ Empty(before, Sources(i)[m])
              /\ \A y \in DOMAIN Sources(i) : k < y /\ y < m => Empty(before, Sources(i)[y])
              => Following(i, k) = FirstPage(Sources(i)[m])
  <1> DEFINE L == Sources(i)
             more == {m \in DOMAIN L : m > k /\ before[L[m]] # <<>>}
  <1>1. Following(i, k) = IF more = {} THEN Null ELSE before[L[Min(more)]][1]
    BY Zenon DEF Following
  <1>2. ASSUME \A m \in DOMAIN L : m > k => Empty(before, L[m]) PROVE Following(i, k) = Null
    BY <1>1, <1>2, Zenon DEF Empty
  <1>3. ASSUME NEW m \in DOMAIN L, m > k, ~ Empty(before, L[m]),
               \A y \in DOMAIN L : k < y /\ y < m => Empty(before, L[y])
        PROVE  Following(i, k) = FirstPage(L[m])
    <2>1. m \in more
      BY <1>3, Zenon DEF Empty
    <2>2. \A x, y \in DOMAIN L : x <= y /\ y <= x => x = y
      BY DEF IsList
    <2>3. \A y \in DOMAIN L : (y > k <=> k < y) /\ (y < m \/ m <= y)
      BY DEF IsList
    <2>4. \A y \in more : m <= y
      BY <1>3, <2>3, Zenon DEF Empty
    <2>5. Min(more) = m
      <3>1. more \subseteq DOMAIN L
        BY Zenon
      <3> HIDE DEF more, L
      <3>2. \A x \in more : (\A y \in more : x <= y) => x = m
        BY <2>1, <2>2, <2>4, <3>1, Zenon
      <3>3. Min(more) = CHOOSE x \in more : \A y \in more : x <= y
        BY Zenon DEF Min
      <3> QED BY <2>1, <2>4, <3>2, <3>3, Zenon
    <2>6. before[L[m]][1] = FirstPage(L[m])
      BY <1>3, PageFacts, Zenon DEF FirstPage
    <2> QED BY <1>1, <2>1, <2>5, <2>6, Zenon
  <1> QED BY <1>2, <1>3, Zenon

(* A slot that holds its sources is delivered to.                          *)
LEMMA WholeDelivered ==
  ASSUME Types, Inside, NEW i, Whole(Downstream[i], Sources(i))
  PROVE  /\ head[Downstream[i]] = Following(i, 0)
         /\ \A k \in DOMAIN Sources(i) : \A j \in DOMAIN before[Sources(i)[k]] :
              next[before[Sources(i)[k]][j]] = IF j < Len(before[Sources(i)[k]])
                                               THEN before[Sources(i)[k]][j + 1] ELSE Following(i, k)
  <1> DEFINE L == Sources(i)
  <1>0. /\ IsList(L) /\ 1 \in DOMAIN L /\ \A k \in DOMAIN L : L[k] \in Slots
        /\ IsHead(before, L, {}, 1, head[Downstream[i]]) /\ Linked(before, L, {}, next)
    BY Zenon DEF Whole
  <1>1. \A a, k \in DOMAIN L : InSegment(L, {}, a, k) <=> a <= k
    BY <1>0, AllInSegment, Zenon
  <1>2. \A k \in DOMAIN L : k \in Nat /\ k > 0 /\ 1 <= k
    BY <1>0 DEF IsList
  <1>3. /\ \A k \in {0} \union DOMAIN L :
             (\A m \in DOMAIN L : m > k => Empty(before, L[m])) => Following(i, k) = Null
        /\ \A k \in {0} \union DOMAIN L : \A m \in DOMAIN L :
             /\ m > k /\ ~ Empty(before, L[m])
             /\ \A y \in DOMAIN L : k < y /\ y < m => Empty(before, L[y])
             => Following(i, k) = FirstPage(L[m])
    BY <1>0, <1>2, FollowingIs
  <1>4. head[Downstream[i]] = Following(i, 0)
    <2>1. CASE head[Downstream[i]] = Null /\ AllEmpty(before, L, {}, 1)
      <3>1. \A m \in DOMAIN L : Empty(before, L[m])
        BY <1>0, <1>1, <1>2, <2>1, Zenon DEF AllEmpty
      <3> QED BY <1>3, <2>1, <3>1, Zenon
    <2>2. ASSUME NEW k \in DOMAIN L, ~ Empty(before, L[k]), head[Downstream[i]] = FirstPage(L[k]),
                 \A m \in DOMAIN L : 1 <= m /\ m < k => Empty(before, L[m])
          PROVE  head[Downstream[i]] = Following(i, 0)
      BY <1>2, <1>3, <2>2, Zenon
    <2> QED BY <1>0, <2>1, <2>2, Zenon DEF IsHead
  <1>5. ASSUME NEW k \in DOMAIN L, NEW j \in DOMAIN before[L[k]]
        PROVE  next[before[L[k]][j]] = IF j < Len(before[L[k]]) THEN before[L[k]][j + 1] ELSE Following(i, k)
    <2>0. L[k] \in Slots
      BY <1>0, Zenon
    <2>1. PICK s \in Slots : s = L[k]
      BY <2>0, Zenon
    <2>2. /\ Len(before[s]) \in Nat /\ DOMAIN before[s] = 1..Len(before[s])
          /\ \A x \in DOMAIN before[s] : before[s][x] = <<s, x>>
          /\ (Empty(before, s) <=> Len(before[s]) = 0)
      BY PageFacts, Zenon
    <2>3. CASE j < Len(before[s])
      <3>1. j \in 1..(Len(before[s]) - 1) /\ j + 1 \in DOMAIN before[s] /\ j \in DOMAIN before[s]
        BY <2>1, <2>2, <2>3
      <3>2. next[<<s, j>>] = <<s, j + 1>>
        BY <3>1, Zenon DEF Inside
      <3> QED BY <2>1, <2>2, <2>3, <3>1, <3>2, Zenon
    <2>4. CASE ~ (j < Len(before[s]))
      <3>1. j = Len(before[s]) /\ Len(before[s]) # 0
        BY <2>1, <2>2, <2>4
      <3>2. before[L[k]][j] = LastPage(before, L[k]) /\ ~ Empty(before, L[k])
        BY <2>1, <2>2, <3>1, Zenon DEF LastPage
      <3>3. CASE \A m \in DOMAIN L : m > k => Empty(before, L[m])
        <4>1. Final(before, L, k)
          <5>1. \A m \in DOMAIN L : k < m => m > k
            BY <1>2
          <5> QED BY <3>2, <3>3, <5>1, Zenon DEF Final
        <4>2. next[LastPage(before, L[k])] = Null
          BY <1>0, <4>1, Zenon DEF Linked
        <4>3. Following(i, k) = Null
          BY <1>3, <3>3, Zenon
        <4> QED BY <2>1, <2>4, <3>2, <4>2, <4>3, Zenon
      <3>4. CASE ~ \A m \in DOMAIN L : m > k => Empty(before, L[m])
        <4>2. PICK x \in DOMAIN L : /\ x > k /\ ~ Empty(before, L[x])
                                    /\ \A y \in DOMAIN L : y > k /\ ~ Empty(before, L[y]) => x <= y
          BY <1>0, <1>2, <3>4, FirstAfter
        <4>3. k < x /\ k <= x /\ \A y \in DOMAIN L : k < y /\ y < x => y > k /\ ~ (x <= y)
          BY <1>2, <4>2
        <4>4. \A y \in DOMAIN L : k < y /\ y < x => Empty(before, L[y])
          BY <4>2, <4>3, Zenon
        <4>5. Neighbours(before, L, k, x) /\ InSegment(L, {}, k, x)
          BY <1>1, <3>2, <4>2, <4>3, <4>4, Zenon DEF Neighbours
        <4>6. next[LastPage(before, L[k])] = FirstPage(L[x])
          BY <1>0, <4>5, Zenon DEF Linked
        <4>7. Following(i, k) = FirstPage(L[x])
          BY <1>3, <4>2, <4>4, Zenon
        <4> QED BY <2>1, <2>4, <3>2, <4>6, <4>7, Zenon
      <3> QED BY <3>3, <3>4, Zenon
    <2> QED BY <2>3, <2>4, Zenon
  <1> QED BY <1>4, <1>5, Zenon

(* The last of the sources that have pages before the k-th.                *)
LEMMA LastBefore ==
  ASSUME NEW L, IsList(L), NEW B, NEW k \in DOMAIN L, NEW m \in DOMAIN L, m < k, ~ Empty(B, L[m])
  PROVE  \E x \in DOMAIN L : /\ x < k /\ ~ Empty(B, L[x])
                             /\ \A y \in DOMAIN L : x < y /\ y < k => Empty(B, L[y])
  <1> DEFINE T == {k - y : y \in {z \in DOMAIN L : z < k /\ ~ Empty(B, L[z])}}
  <1>0. \A y \in DOMAIN L : y \in Nat
    BY DEF IsList
  <1>1. T \in SUBSET Nat
    BY <1>0
  <1>2. k - m \in T
    BY Zenon
  <1>3. PICK d \in T : \A e \in T : d <= e
    <2> HIDE DEF T
    <2> QED BY <1>1, <1>2, LeastNumber, Zenon
  <1>4. PICK x \in DOMAIN L : x < k /\ ~ Empty(B, L[x]) /\ d = k - x
    BY <1>3, Zenon
  <1>5. ASSUME NEW y \in DOMAIN L, x < y, y < k, ~ Empty(B, L[y]) PROVE FALSE
    <2>1. k - y \in T
      BY <1>5, Zenon
    <2>2. k - x <= k - y
      BY <1>3, <1>4, <2>1, Zenon
    <2> QED BY <1>0, <1>5, <2>2
  <1> QED BY <1>4, <1>5, Zenon

(* The pages of the sources L.                                             *)
PagesIn(L) == UNION {Range(before[L[k]]) : k \in DOMAIN L}

(* They are the pages with the slots of L.                                 *)
LEMMA PagesInAre ==
  ASSUME Types, NEW L, \A k \in DOMAIN L : L[k] \in Slots
  PROVE  /\ PagesIn(L) \subseteq Pages
         /\ \A k \in DOMAIN L : \A j \in DOMAIN before[L[k]] : <<L[k], j>> \in PagesIn(L)
         /\ \A p \in PagesIn(L) : \E k \in DOMAIN L : \E j \in DOMAIN before[L[k]] : p = <<L[k], j>>
  <1>1. \A k \in DOMAIN L : \A j \in DOMAIN before[L[k]] : before[L[k]][j] = <<L[k], j>> /\ <<L[k], j>> \in Pages
    BY PageFacts, Zenon
  <1>2. \A k \in DOMAIN L : \A j \in DOMAIN before[L[k]] : <<L[k], j>> \in PagesIn(L)
    <2> SUFFICES ASSUME NEW k \in DOMAIN L, NEW j \in DOMAIN before[L[k]]
                 PROVE  <<L[k], j>> \in PagesIn(L)
      BY Zenon
    <2>1. before[L[k]][j] \in Range(before[L[k]])
      BY Zenon DEF Range
    <2>2. before[L[k]][j] \in PagesIn(L)
      BY <2>1, Zenon DEF PagesIn
    <2> QED BY <1>1, <2>2, Zenon
  <1>3. ASSUME NEW p \in PagesIn(L)
        PROVE  \E k \in DOMAIN L : \E j \in DOMAIN before[L[k]] : p = <<L[k], j>>
    <2>1. PICK k \in DOMAIN L : p \in Range(before[L[k]])
      BY Zenon DEF PagesIn
    <2>2. PICK j \in DOMAIN before[L[k]] : p = before[L[k]][j]
      BY <2>1, Zenon DEF Range
    <2> QED BY <1>1, <2>2, Zenon
  <1>4. PagesIn(L) \subseteq Pages
    BY <1>1, <1>3, Zenon
  <1> QED BY <1>2, <1>3, <1>4, Zenon

(* A walk of the slot stays in these pages.                                *)
LEMMA WalkStays ==
  ASSUME Types, Inside, NEW s, NEW L, Whole(s, L)
  PROVE  \A p \in {head[s]} \union {next[q] : q \in PagesIn(L)} : p = Null \/ p \in PagesIn(L)
  <1>0. /\ IsList(L) /\ 1 \in DOMAIN L /\ \A k \in DOMAIN L : L[k] \in Slots
        /\ IsHead(before, L, {}, 1, head[s]) /\ Linked(before, L, {}, next)
    BY Zenon DEF Whole
  <1>1. /\ \A k \in DOMAIN L : \A j \in DOMAIN before[L[k]] : <<L[k], j>> \in PagesIn(L)
        /\ \A p \in PagesIn(L) : \E k \in DOMAIN L : \E j \in DOMAIN before[L[k]] : p = <<L[k], j>>
    BY <1>0, PagesInAre, Zenon
  <1>2. \A k \in DOMAIN L : ~ Empty(before, L[k]) => FirstPage(L[k]) \in PagesIn(L)
    BY <1>0, <1>1, PageFacts, Zenon DEF FirstPage
  <1>3. head[s] = Null \/ head[s] \in PagesIn(L)
    BY <1>0, <1>2, Zenon DEF IsHead
  <1>4. ASSUME NEW q \in PagesIn(L) PROVE next[q] = Null \/ next[q] \in PagesIn(L)
    <2>1. PICK k \in DOMAIN L : \E j \in DOMAIN before[L[k]] : q = <<L[k], j>>
      BY <1>1, Zenon
    <2>2. PICK j \in DOMAIN before[L[k]] : q = <<L[k], j>>
      BY <2>1, Zenon
    <2>3. PICK u \in Slots : u = L[k]
      BY <1>0, Zenon
    <2>4. Len(before[u]) \in Nat /\ DOMAIN before[u] = 1..Len(before[u]) /\ (Empty(before, u) <=> Len(before[u]) = 0)
      BY PageFacts, Zenon
    <2>5. CASE j < Len(before[u])
      <3>1. j \in 1..(Len(before[u]) - 1) /\ j + 1 \in DOMAIN before[u]
        BY <2>3, <2>4, <2>5
      <3>2. next[<<u, j>>] = <<u, j + 1>>
        BY <3>1, Zenon DEF Inside
      <3> QED BY <1>1, <2>2, <2>3, <3>1, <3>2, Zenon
    <2>6. CASE ~ (j < Len(before[u]))
      <3>1. j = Len(before[u]) /\ Len(before[u]) # 0
        BY <2>3, <2>4, <2>6
      <3>2. q = LastPage(before, L[k]) /\ ~ Empty(before, L[k])
        BY <2>2, <2>3, <2>4, <3>1, Zenon DEF LastPage
      <3>3. CASE \A m \in DOMAIN L : k < m => Empty(before, L[m])
        BY <1>0, <3>2, <3>3, Zenon DEF Final, Linked
      <3>4. CASE ~ \A m \in DOMAIN L : k < m => Empty(before, L[m])
        <4>0. k \in Nat /\ \A m \in DOMAIN L : k < m <=> m > k
          BY <1>0 DEF IsList
        <4>1. PICK x \in DOMAIN L : /\ x > k /\ ~ Empty(before, L[x])
                                    /\ \A y \in DOMAIN L : y > k /\ ~ Empty(before, L[y]) => x <= y
          BY <1>0, <3>4, <4>0, FirstAfter
        <4>2. k < x /\ \A y \in DOMAIN L : k < y /\ y < x => y > k /\ ~ (x <= y)
          BY <1>0, <4>0, <4>1 DEF IsList
        <4>3. Neighbours(before, L, k, x)
          BY <3>2, <4>1, <4>2, Zenon DEF Neighbours
        <4>4. next[q] \in {Null, FirstPage(L[x])}
          BY <1>0, <3>2, <4>3, Zenon DEF Linked
        <4> QED BY <1>2, <4>1, <4>4, Zenon
      <3> QED BY <3>3, <3>4, Zenon
    <2> QED BY <2>5, <2>6, Zenon
  <1> QED BY <1>3, <1>4, Zenon

(* And it meets all of them.                                               *)
LEMMA WalkMeets ==
  ASSUME Types, Inside, NEW s, NEW L, Whole(s, L), NEW S \in SUBSET Pages,
         \A p \in {head[s]} \union {next[q] : q \in S} : p = Null \/ p \in S
  PROVE  PagesIn(L) \subseteq S
  <1>0. /\ IsList(L) /\ 1 \in DOMAIN L /\ \A k \in DOMAIN L : L[k] \in Slots
        /\ IsHead(before, L, {}, 1, head[s]) /\ Linked(before, L, {}, next)
    BY Zenon DEF Whole
  <1>1. \A p \in PagesIn(L) : \E k \in DOMAIN L : \E j \in DOMAIN before[L[k]] : p = <<L[k], j>>
    BY <1>0, PagesInAre, Zenon
  <1>2. \A k \in DOMAIN L : k \in Nat /\ 1 <= k
    BY <1>0 DEF IsList
  <1>3. Null \notin Pages
    BY NodeFacts, Zenon DEF Types
  <1> DEFINE Missing(k) == {j \in DOMAIN before[L[k]] : <<L[k], j>> \notin S}
             T == {k \in DOMAIN L : Missing(k) # {}}
  <1> SUFFICES ASSUME NEW p \in PagesIn(L), p \notin S PROVE FALSE
    BY Zenon
  <1>33. T # {}
    <2>1. PICK k \in DOMAIN L : \E j \in DOMAIN before[L[k]] : p = <<L[k], j>>
      BY <1>1, Zenon
    <2>2. PICK j \in DOMAIN before[L[k]] : p = <<L[k], j>>
      BY <2>1, Zenon
    <2>3. j \in Missing(k)
      BY <2>2, Zenon
    <2>4. k \in T
      BY <2>3, Zenon
    <2> QED BY <2>4, Zenon
  <1>4. PICK k \in T : \A m \in T : k <= m
    <2>1. T \in SUBSET Nat
      BY <1>2, Zenon
    <2> HIDE DEF T
    <2> QED BY <1>33, <2>1, LeastNumber, Zenon
  <1>5. PICK u \in Slots : u = L[k]
    BY <1>0, Zenon
  <1>6. /\ Len(before[u]) \in Nat /\ DOMAIN before[u] = 1..Len(before[u])
        /\ (Empty(before, u) <=> Len(before[u]) = 0)
        /\ \A j \in DOMAIN before[u] : <<u, j>> \in Pages
    BY PageFacts, Zenon
  <1>7. PICK j \in Missing(k) : \A x \in Missing(k) : j <= x
    <2>1. Missing(k) \in SUBSET Nat
      BY <1>5, <1>6
    <2>2. Missing(k) # {}
      BY <1>4, Zenon
    <2>3. PICK M : M = Missing(k)
      BY Zenon
    <2> HIDE DEF Missing
    <2> QED BY <2>1, <2>2, <2>3, LeastNumber, Zenon
  <1>8. j \in 1..Len(before[u]) /\ <<u, j>> \notin S /\ <<u, j>> # Null
    BY <1>3, <1>5, <1>6, <1>7, Zenon
  <1>9. CASE j # 1
    <2>1. j - 1 \in 1..(Len(before[u]) - 1) /\ j - 1 + 1 = j /\ j - 1 \in DOMAIN before[u] /\ ~ (j <= j - 1)
      BY <1>6, <1>8, <1>9
    <2>2. next[<<u, j - 1>>] = <<u, j>>
      BY <2>1, Zenon DEF Inside
    <2>3. <<u, j - 1>> \in S
      BY <1>5, <1>7, <2>1, Zenon
    <2> QED BY <1>8, <2>2, <2>3, Zenon
  <1>10. CASE j = 1
    <2>1. ~ Empty(before, L[k]) /\ FirstPage(L[k]) \notin S /\ FirstPage(L[k]) # Null
      <3>1. Len(before[u]) # 0
        BY <1>6, <1>8
      <3> QED BY <1>5, <1>6, <1>8, <1>10, <3>1, Zenon DEF FirstPage
    <2>2. CASE \A m \in DOMAIN L : m < k => Empty(before, L[m])
      <3>1. head[s] = FirstPage(L[k])
        <4>1. ~ AllEmpty(before, L, {}, 1)
          BY <1>0, <1>2, <2>1, AllInSegment, Zenon DEF AllEmpty
        <4>2. PICK m \in DOMAIN L : /\ ~ Empty(before, L[m]) /\ head[s] = FirstPage(L[m])
                                    /\ \A x \in DOMAIN L : 1 <= x /\ x < m => Empty(before, L[x])
          BY <1>0, <4>1, Zenon DEF IsHead
        <4>3. ~ (m < k) /\ ~ (k < m)
          BY <1>2, <2>1, <2>2, <4>2, Zenon
        <4>4. m = k
          BY <1>2, <4>3
        <4> QED BY <4>2, <4>4, Zenon
      <3> QED BY <2>1, <3>1, Zenon
    <2>3. CASE ~ \A m \in DOMAIN L : m < k => Empty(before, L[m])
      <3>1. PICK x \in DOMAIN L : /\ x < k /\ ~ Empty(before, L[x])
                                  /\ \A y \in DOMAIN L : x < y /\ y < k => Empty(before, L[y])
        BY <1>0, <2>3, LastBefore
      <3>2. Neighbours(before, L, x, k)
        BY <2>1, <3>1, Zenon DEF Neighbours
      <3>3. x <= k /\ ~ (k <= x)
        BY <1>2, <3>1
      <3>4. InSegment(L, {}, x, k)
        BY <1>0, <3>3, AllInSegment, Zenon
      <3>5. next[LastPage(before, L[x])] = FirstPage(L[k])
        BY <1>0, <3>2, <3>4, Zenon DEF Linked
      <3>6. Len(before[L[x]]) \in DOMAIN before[L[x]]
        BY <1>0, <3>1, PageFacts, Zenon
      <3>7. LastPage(before, L[x]) \in S
        BY <1>4, <3>3, <3>6, Zenon DEF LastPage
      <3> QED BY <2>1, <3>5, <3>7, Zenon
    <2> QED BY <2>2, <2>3, Zenon
  <1> QED BY <1>9, <1>10, Zenon

(* So its chain has exactly the pages of its sources, and ends in its tail. *)
LEMMA WholeChain ==
  ASSUME Types, Inside, NEW s, NEW L, Whole(s, L)
  PROVE  /\ Chain(s) = PagesIn(L)
         /\ \/ head[s] = Null /\ tail[s] = Null
            \/ tail[s] \in Chain(s) /\ next[tail[s]] = Null
  <1>0. /\ IsList(L) /\ 1 \in DOMAIN L /\ \A k \in DOMAIN L : L[k] \in Slots
        /\ IsHead(before, L, {}, 1, head[s]) /\ IsTail(before, L, {}, 1, tail[s])
        /\ Linked(before, L, {}, next)
    BY Zenon DEF Whole
  <1>1. PagesIn(L) \subseteq Pages
    BY <1>0, PagesInAre, Zenon
  <1>2. Chain(s) = PagesIn(L)
    <2> DEFINE walks == {S \in SUBSET Pages : \A p \in {head[s]} \union {next[q] : q \in S} :
                                              p = Null \/ p \in S}
    <2>1. Chain(s) = {p \in Pages : \A S \in walks : p \in S}
      BY Zenon DEF Chain
    <2>2. PagesIn(L) \in walks
      BY <1>1, WalkStays, Zenon
    <2>3. \A S \in walks : PagesIn(L) \subseteq S
      BY WalkMeets, Zenon
    <2> HIDE DEF walks
    <2> QED BY <1>1, <2>1, <2>2, <2>3, Zenon
  <1>3. \A k \in DOMAIN L : InSegment(L, {}, 1, k)
    <2>1. \A k \in DOMAIN L : 1 <= k
      BY <1>0 DEF IsList
    <2> QED BY <1>0, <2>1, AllInSegment, Zenon
  <1>4. CASE \A k \in DOMAIN L : Empty(before, L[k])
    <2>1. head[s] = Null /\ tail[s] = Null
      BY <1>0, <1>4, Zenon DEF IsHead, IsTail
    <2> QED BY <1>2, <2>1, Zenon
  <1>5. CASE ~ \A k \in DOMAIN L : Empty(before, L[k])
    <2>1. PICK k \in DOMAIN L : /\ ~ Empty(before, L[k]) /\ tail[s] = LastPage(before, L[k])
                                /\ \A m \in DOMAIN L : k < m => Empty(before, L[m])
      BY <1>0, <1>3, <1>5, Zenon DEF IsTail, AllEmpty
    <2>2. next[tail[s]] = Null
      BY <1>0, <2>1, Zenon DEF Linked, Final
    <2>3. Len(before[L[k]]) \in DOMAIN before[L[k]]
      BY <1>0, <2>1, PageFacts, Zenon
    <2>4. tail[s] \in PagesIn(L)
      BY <1>0, <2>1, <2>3, PagesInAre, Zenon DEF LastPage
    <2> QED BY <1>2, <2>2, <2>4, Zenon
  <1> QED BY <1>4, <1>5, Zenon

(* A slot with the chain of one slot only.                                 *)
LEMMA HoldsWhole ==
  ASSUME NEW s, NEW u \in Slots, Holds(s, u), Ended(u)
  PROVE  Whole(s, <<u>>)
  <1>1. PICK L : L = <<u>>
    BY Zenon
  <1>2. IsList(L) /\ DOMAIN L = {1} /\ L[1] = u
    BY <1>1 DEF IsList
  <1>3. InSegment(L, {}, 1, 1) /\ ~ (1 < 1)
    BY DEF InSegment
  <1>4. IsHead(before, L, {}, 1, head[s])
    <2>1. CASE Empty(before, u)
      BY <1>2, <2>1, Zenon DEF IsHead, AllEmpty, Holds
    <2>2. CASE ~ Empty(before, u)
      BY <1>2, <1>3, <2>2, Zenon DEF IsHead, Holds
    <2> QED BY <2>1, <2>2, Zenon
  <1>5. IsTail(before, L, {}, 1, tail[s])
    <2>1. CASE Empty(before, u)
      BY <1>2, <2>1, Zenon DEF IsTail, AllEmpty, Holds
    <2>2. CASE ~ Empty(before, u)
      BY <1>2, <1>3, <2>2, Zenon DEF IsTail, Holds
    <2> QED BY <2>1, <2>2, Zenon
  <1>6. Linked(before, L, {}, next)
    BY <1>2, <1>3, Zenon DEF Linked, Neighbours, Final, Ended
  <1> QED BY <1>1, <1>2, <1>4, <1>5, <1>6, Zenon DEF Whole

(* A merge that has ended leaves the whole chain in its downstream.        *)
LEMMA EndedWhole ==
  ASSUME Inv, NEW i \in Merges, i \notin waiting, i \notin DOMAIN merge
  PROVE  Whole(Downstream[i], Sources(i))
  <1>0. Types /\ Listed /\ Calls /\ Chained
    BY Zenon DEF Inv
  <1>1. Open(i) = {}
    BY Zenon DEF Open
  <1>2. /\ IsList(Sources(i)) /\ 1 \in DOMAIN Sources(i) /\ Sources(i)[1] = Downstream[i]
        /\ i \in Targets /\ \A k \in DOMAIN Sources(i) : Sources(i)[k] \in Slots
    BY <1>0, Zenon DEF Listed
  <1>3. ASSUME NEW t \in threads, Heading(t, Downstream[i]) PROVE FALSE
    <2>1. t.of \in DOMAIN merge /\ Joins(t) /\ t.dst = Downstream[i]
      BY <1>0, <1>3, Zenon DEF Calls, Heading
    <2>2. t.of \in Merges
      BY <1>0, <2>1, Zenon DEF Types
    <2>3. PICK a \in DOMAIN Sources(t.of) : t.dst = Sources(t.of)[a]
      BY <2>1, Zenon DEF Joins
    <2>4. t.of = i
      BY <1>0, <1>2, <2>1, <2>2, <2>3, DownstreamApart, Zenon
    <2> QED BY <2>1, <2>4, Zenon
  <1>4. /\ IsTail(before, Sources(i), {}, 1, tail[Downstream[i]])
        /\ IsHead(before, Sources(i), {}, 1, head[Downstream[i]])
        /\ Linked(before, Sources(i), {}, next)
    BY <1>0, <1>1, <1>2, <1>3, Zenon DEF Chained, Opens
  <1> QED BY <1>2, <1>4, Zenon DEF Whole

(* The inductive invariant: a bridge has its own.                          *)
RoutingInv ==
    /\ kind = "Bridge" => BridgeInv
    /\ kind # "Bridge" => Inv /\ Untouched /\ Cleared

(* The nodes that the policies cover: a lookup table maps every upstream   *)
(* to a downstream, as ShufflePolicy::partition promises.                  *)
TablesInRange ==
    \A n \in Nodes : n.kind = "FixedMap" =>
        \A k \in DOMAIN n.upstream : n.table[n.upstream[k]] \in 0..(Len(Downstream) - 1)

(* A node that is no broadcast wider than the threshold keeps the          *)
(* invariant.                                                              *)
THEOREM RoutingInvariant ==
  ASSUME Narrow
  PROVE  Spec => []RoutingInv
  <1>1. Init => RoutingInv
    BY InitInv, InitBridge, Zenon DEF RoutingInv
  <1>2. RoutingInv /\ [Next]_vars => RoutingInv'
    <2> SUFFICES ASSUME RoutingInv, [Next]_vars PROVE RoutingInv'
      OBVIOUS
    <2>1. node' = node
      BY Zenon DEF Next, vars, LoadSource, LoadDest, Link, StoreTail, StartMerge, Start, NextRound,
         Round, EndMerge, Leave, Bridge, Return, ClearUpstream, Finished
    <2>2. kind' = kind
      BY <2>1, Zenon DEF kind
    <2>3. CASE kind = "Bridge"
      <3>1. BridgeInv
        BY <2>3, Zenon DEF RoutingInv
      <3>2. BridgeInv'
        BY <3>1, BridgeKept, Zenon
      <3> QED BY <2>2, <2>3, <3>2, Zenon DEF RoutingInv
    <2>4. CASE kind # "Bridge"
      <3>1. Inv /\ Untouched /\ Cleared
        BY <2>4, Zenon DEF RoutingInv
      <3>2. Inv' /\ Untouched' /\ Cleared'
        BY <3>1, InvStep, UntouchedStep, ClearedStep, Zenon
      <3> QED BY <2>2, <2>4, <3>2, Zenon DEF RoutingInv
    <2> QED BY <2>3, <2>4, Zenon
  <1> QED BY <1>1, <1>2, PTL DEF Spec

(* Two calls of chain_onto that run at the same time share no slot and     *)
(* link no page twice, and no call outlives its merge: the comment in      *)
(* merge_into, for every number of upstreams and every policy.             *)
THEOREM ChainOntoCallsDisjoint ==
  ASSUME Narrow
  PROVE  Spec => []CallsDisjoint
  <1>1. RoutingInv => CallsDisjoint
    <2> SUFFICES ASSUME RoutingInv PROVE CallsDisjoint
      OBVIOUS
    <2>1. CASE kind = "Bridge"
      BY <2>1, Zenon DEF RoutingInv, BridgeInv, CallsDisjoint
    <2>2. CASE kind # "Bridge"
      <3>0. Types /\ Listed /\ Calls /\ Chained /\ OneAtATime
        BY <2>2, Zenon DEF RoutingInv, Inv
      <3>1. \A t \in threads : t.of \in DOMAIN merge
        BY <3>0, Zenon DEF Calls
      <3>2. ASSUME NEW t \in threads, NEW u \in threads, t # u
            PROVE  {t.dst, t.src} \cap {u.dst, u.src} = {}
        BY <3>0, <3>2, Zenon DEF Calls
      <3>3. ASSUME NEW t \in threads, NEW u \in threads, t # u,
                   t.at = "link", u.at = "link", t.dstTail # Null
            PROVE  t.dstTail # u.dstTail
        <4>1. t.dstTail = tail[t.dst] /\ u.dstTail = tail[u.dst]
          BY <3>0, <3>3, Zenon DEF Calls, Knows
        <4> QED BY <3>0, <3>3, <4>1, TailsApart, Zenon
      <3> QED BY <3>1, <3>2, <3>3, Zenon DEF CallsDisjoint
    <2> QED BY <2>1, <2>2, Zenon
  <1> QED BY <1>1, RoutingInvariant, PTL

(* The bridge's downstream holds the chain of one slot, its source.        *)
LEMMA BridgeWhole ==
  ASSUME BridgeInv
  PROVE  /\ Merges = {1}
         /\ \E u \in Slots : Whole(Downstream[1], <<u>>)
         /\ waiting = {} => Whole(Downstream[1], Sources(1))
  <1>0. /\ node \in Nodes /\ kind = "Bridge" /\ \A s \in Slots : Ended(s)
        /\ Holds(Downstream[1], IF waiting = {} /\ ~ Empty(before, Upstream[1]) THEN Upstream[1]
                                ELSE Downstream[1])
    BY Zenon DEF BridgeInv, Types
  <1>1. Upstream[1] \in Slots /\ Downstream[1] \in Slots
    BY <1>0, BridgeSlots, Zenon
  <1>2. PICK u \in Slots : /\ u = IF waiting = {} /\ ~ Empty(before, Upstream[1]) THEN Upstream[1]
                                  ELSE Downstream[1]
                           /\ Holds(Downstream[1], u)
    BY <1>0, <1>1, Zenon
  <1>3. Whole(Downstream[1], <<u>>)
    BY <1>0, <1>2, HoldsWhole, Zenon
  <1>4. waiting = {} => Sources(1) = <<u>>
    BY <1>0, <1>2, Zenon DEF Sources, Empty
  <1>5. Merges = {1}
    BY <1>0, MergesTarget, Zenon
  <1> QED BY <1>3, <1>4, <1>5, Zenon

(* When the wave is over every downstream has the pages of its sources,    *)
(* whole and in order: chain_onto one after the other, the levels of the   *)
(* tree merge, and the merges of a shuffle at the same time.               *)
THEOREM RoutingDelivers ==
  ASSUME Narrow
  PROVE  Spec => []Delivered
  <1>1. RoutingInv => Delivered
    <2> SUFFICES ASSUME RoutingInv, stage = "done", NEW i \in Merges
                 PROVE  /\ head[Downstream[i]] = Following(i, 0)
                        /\ \A k \in DOMAIN Sources(i) : \A j \in DOMAIN before[Sources(i)[k]] :
                             next[before[Sources(i)[k]][j]] =
                               IF j < Len(before[Sources(i)[k]])
                               THEN before[Sources(i)[k]][j + 1] ELSE Following(i, k)
      BY Zenon DEF Delivered
    <2>1. Types /\ Inside
      BY Zenon DEF RoutingInv, BridgeInv, Inv
    <2>2. waiting = {} /\ DOMAIN merge = {}
      BY <2>1, Zenon DEF Types
    <2>3. Whole(Downstream[i], Sources(i))
      <3>1. CASE kind = "Bridge"
        <4>1. BridgeInv
          BY <3>1, Zenon DEF RoutingInv
        <4> QED BY <2>2, <4>1, BridgeWhole, Zenon
      <3>2. CASE kind # "Bridge"
        <4>1. Inv
          BY <3>2, Zenon DEF RoutingInv
        <4> QED BY <2>2, <4>1, EndedWhole, Zenon
      <3> QED BY <3>1, <3>2, Zenon
    <2> QED BY <2>1, <2>3, WholeDelivered
  <1> QED BY <1>1, RoutingInvariant, PTL

(* Every upstream is in the group of a merge.                              *)
LEMMA EveryUpstreamRouted ==
  ASSUME TablesInRange, node \in Nodes, kind \notin {"Broadcast", "Bridge"}, NEW k \in DOMAIN Upstream
  PROVE  \E i \in Merges : \E x \in DOMAIN Group(i) : Group(i)[x] = Upstream[k]
  <1>1. CASE kind = "Aggregate"
    <2>1. Merges = {1} /\ kind \in {"Broadcast", "Aggregate"}
      BY <1>1, MergesTarget, Zenon
    <2>2. Group(1) = Upstream
      BY <2>1, WholeGroup, Zenon
    <2> QED BY <2>1, <2>2, Zenon
  <1>2. CASE kind # "Aggregate"
    <2>0. kind \in {"Modulo", "RoundRobin", "FixedMap"} /\ kind \notin {"Broadcast", "Aggregate", "Bridge"}
      BY <1>2, NodeFacts, Zenon
    <2>1. /\ Len(Downstream) \in Nat \ {0} /\ DOMAIN Downstream = 1..Len(Downstream)
          /\ Upstream[k] \in Nat /\ k \in Nat \ {0}
      BY NodeFacts
    <2>2. Partition(k) \in 0..(Len(Downstream) - 1)
      <3>1. CASE kind = "Modulo"
        BY <2>1, <3>1 DEF Partition, Modulo
      <3>2. CASE kind = "RoundRobin"
        BY <2>1, <3>2 DEF Partition, RoundRobin
      <3>3. CASE kind = "FixedMap"
        <4>1. FixedMap(k) \in 0..(Len(Downstream) - 1)
          BY <3>3, Zenon DEF TablesInRange, FixedMap, kind, Upstream
        <4> QED BY <3>3, <4>1 DEF Partition
      <3> QED BY <2>0, <3>1, <3>2, <3>3, Zenon
    <2>3. PICK i : i = Partition(k) + 1
      OBVIOUS
    <2>4. i \in Targets /\ Partition(k) = i - 1
      BY <2>1, <2>2, <2>3 DEF Targets
    <2>5. k \in Routed(i)
      BY <2>4, Zenon DEF Routed
    <2>6. PICK x \in DOMAIN Group(i) : Group(i)[x] = Upstream[k]
      BY <2>0, <2>5, RoutedGroup, Zenon
    <2>7. Group(i) # <<>>
      BY <2>6
    <2>8. i \in Merges
      BY <2>0, <2>4, <2>7, Zenon DEF Merges
    <2> QED BY <2>6, <2>8, Zenon
  <1> QED BY <1>1, <1>2, Zenon

(* The slots whose pages the i-th downstream holds at the end.             *)
Owned(i) == IF i \in Merges THEN Sources(i) ELSE <<Downstream[i]>>

(* Outside a broadcast every slot is owned by one downstream.              *)
LEMMA OneOwner ==
  ASSUME TablesInRange, Types, Listed, kind # "Broadcast", NEW s \in Slots
  PROVE  \E i \in Targets : /\ s \in Range(Owned(i))
                            /\ \A j \in Targets : s \in Range(Owned(j)) => j = i
  <1>0. node \in Nodes /\ kind # "Bridge"
    BY Zenon DEF Types, Listed
  <1>a. \A a, b \in DOMAIN Downstream : Downstream[a] = Downstream[b] => a = b
    BY <1>0, NodeFacts, Zenon
  <1>b. \A i \in Targets : Downstream[i] \in Range(Owned(i))
    <2> SUFFICES ASSUME NEW i \in Targets PROVE Downstream[i] \in Range(Owned(i))
      BY Zenon
    <2>1. CASE i \in Merges
      <3>1. 1 \in DOMAIN Sources(i) /\ Sources(i)[1] = Downstream[i]
        BY <2>1, Zenon DEF Listed
      <3> QED BY <2>1, <3>1, Zenon DEF Owned, Range
    <2>2. CASE i \notin Merges
      <3>1. Owned(i) = <<Downstream[i]>>
        BY <2>2, Zenon DEF Owned
      <3> QED BY <3>1 DEF Range
    <2> QED BY <2>1, <2>2, Zenon
  <1>c. ASSUME NEW j \in Targets, j \notin Merges PROVE Range(Owned(j)) = {Downstream[j]}
    <2>1. Owned(j) = <<Downstream[j]>>
      BY <1>c, Zenon DEF Owned
    <2> QED BY <2>1 DEF Range
  <1>d. \A j \in Targets : j \in Merges => Owned(j) = Sources(j)
    BY Zenon DEF Owned
  <1>1. \E i \in Targets : s \in Range(Owned(i))
    <2>1. CASE s \in Range(Downstream)
      BY <1>b, <2>1, Zenon DEF Range, Targets
    <2>2. CASE s \in Range(Upstream)
      <3>1. PICK k \in DOMAIN Upstream : s = Upstream[k]
        BY <2>2, Zenon DEF Range
      <3>2. PICK i \in Merges : \E x \in DOMAIN Group(i) : Group(i)[x] = Upstream[k]
        BY <1>0, EveryUpstreamRouted, Zenon
      <3>3. PICK x \in DOMAIN Group(i) : Group(i)[x] = Upstream[k]
        BY <3>2, Zenon
      <3>4. i \in Targets /\ x + 1 \in DOMAIN Sources(i) /\ Sources(i)[x + 1] = s
        BY <3>1, <3>3, Zenon DEF Listed
      <3>5. s \in Range(Sources(i))
        BY <3>4, Zenon DEF Range
      <3> QED BY <1>d, <3>4, <3>5, Zenon
    <2> QED BY <2>1, <2>2, Zenon DEF Slots
  <1>2. ASSUME NEW i \in Targets, NEW j \in Targets, s \in Range(Owned(i)), s \in Range(Owned(j))
        PROVE  j = i
    <2>1. CASE i \in Merges /\ j \in Merges
      <3>1. PICK p \in DOMAIN Sources(i) : s = Sources(i)[p]
        BY <1>2, <1>d, <2>1, Zenon DEF Range
      <3>2. PICK q \in DOMAIN Sources(j) : s = Sources(j)[q]
        BY <1>2, <1>d, <2>1, Zenon DEF Range
      <3> QED BY <2>1, <3>1, <3>2, SlotsApart, Zenon
    <2>2. CASE i \notin Merges /\ j \notin Merges
      BY <1>2, <1>a, <1>c, <2>2, Zenon DEF Targets
    <2>3. CASE i \notin Merges /\ j \in Merges
      <3>1. PICK q \in DOMAIN Sources(j) : s = Sources(j)[q]
        BY <1>2, <1>d, <2>3, Zenon DEF Range
      <3>2. s = Downstream[i]
        BY <1>2, <1>c, <2>3, Zenon
      <3> QED BY <2>3, <3>1, <3>2, DownstreamApart, Zenon
    <2>4. CASE i \in Merges /\ j \notin Merges
      <3>1. PICK q \in DOMAIN Sources(i) : s = Sources(i)[q]
        BY <1>2, <1>d, <2>4, Zenon DEF Range
      <3>2. s = Downstream[j]
        BY <1>2, <1>c, <2>4, Zenon
      <3> QED BY <2>4, <3>1, <3>2, DownstreamApart, Zenon
    <2> QED BY <2>1, <2>2, <2>3, <2>4, Zenon
  <1> QED BY <1>1, <1>2, Zenon

(* A slot without a head has no chain.                                     *)
LEMMA NoChain ==
  ASSUME NEW s, head[s] = Null
  PROVE  Chain(s) = {}
  <1> DEFINE walks == {S \in SUBSET Pages : \A p \in {head[s]} \union {next[q] : q \in S} :
                                            p = Null \/ p \in S}
  <1>1. Chain(s) = {p \in Pages : \A S \in walks : p \in S}
    BY Zenon DEF Chain
  <1>2. {} \in walks
    <2>1. \A p \in {head[s]} \union {next[q] : q \in {}} : p = Null
      BY Zenon
    <2> QED BY <2>1, Zenon
  <1> HIDE DEF walks
  <1> QED BY <1>1, <1>2, Zenon

(* At the end each page that was in a chain is in exactly one.             *)
LEMMA OneChain ==
  ASSUME TablesInRange, Inv, Untouched, Cleared, stage = "done", kind # "Broadcast",
         NEW s \in Slots, NEW p \in Range(before[s])
  PROVE  \E d \in Slots : {e \in Slots : p \in Chain(e)} = {d}
  <1>0. Types /\ Listed /\ Calls /\ Inside /\ kind # "Bridge" /\ node \in Nodes
    BY Zenon DEF Inv, Types, Listed
  <1>1. waiting = {} /\ DOMAIN merge = {}
    BY <1>0, NothingOpen, Zenon
  <1>a. \A i \in Targets : Downstream[i] \in Range(Downstream) /\ Downstream[i] \in Slots
    BY Zenon DEF Targets, Range, Slots
  <1>2. ASSUME NEW i \in Targets PROVE Whole(Downstream[i], Owned(i))
    <2>1. CASE i \in Merges
      BY <1>1, <2>1, EndedWhole, Zenon DEF Owned
    <2>2. CASE i \notin Merges
      <3>1. Holds(Downstream[i], Downstream[i]) /\ Ended(Downstream[i])
        BY <2>2, Zenon DEF Untouched
      <3>2. Whole(Downstream[i], <<Downstream[i]>>)
        BY <1>a, <3>1, HoldsWhole, Zenon
      <3> QED BY <2>2, <3>2, Zenon DEF Owned
    <2> QED BY <2>1, <2>2, Zenon
  <1>3. \A i \in Targets : Chain(Downstream[i]) = PagesIn(Owned(i))
    BY <1>0, <1>2, WholeChain, Zenon
  <1>4. \A e \in Range(Upstream) : Chain(e) = {}
    <2>1. \A e \in Range(Upstream) : head[e] = Null
      BY <1>0, Zenon DEF Cleared, RoutedUpstream
    <2> QED BY <2>1, NoChain, Zenon
  <1>5. PICK j \in DOMAIN before[s] : p = <<s, j>>
    <2>1. PICK j \in DOMAIN before[s] : p = before[s][j]
      BY Zenon DEF Range
    <2> QED BY <1>0, <2>1, PageFacts, Zenon
  <1>6. ASSUME NEW i \in Targets PROVE p \in PagesIn(Owned(i)) <=> s \in Range(Owned(i))
    <2>1. \A k \in DOMAIN Owned(i) : Owned(i)[k] \in Slots
      BY <1>2, Zenon DEF Whole
    <2>2. /\ \A k \in DOMAIN Owned(i) : \A x \in DOMAIN before[Owned(i)[k]] : <<Owned(i)[k], x>> \in PagesIn(Owned(i))
          /\ \A q \in PagesIn(Owned(i)) : \E k \in DOMAIN Owned(i) : \E x \in DOMAIN before[Owned(i)[k]] : q = <<Owned(i)[k], x>>
      BY <1>0, <2>1, PagesInAre, Zenon
    <2>3. ASSUME s \in Range(Owned(i)) PROVE p \in PagesIn(Owned(i))
      <3>1. PICK k \in DOMAIN Owned(i) : s = Owned(i)[k]
        BY <2>3, Zenon DEF Range
      <3> QED BY <1>5, <2>2, <3>1, Zenon
    <2>4. ASSUME p \in PagesIn(Owned(i)) PROVE s \in Range(Owned(i))
      <3>1. PICK k \in DOMAIN Owned(i) : \E x \in DOMAIN before[Owned(i)[k]] : p = <<Owned(i)[k], x>>
        BY <2>2, <2>4, Zenon
      <3>2. s = Owned(i)[k]
        BY <1>5, <3>1
      <3> QED BY <3>2, Zenon DEF Range
    <2> QED BY <2>3, <2>4, Zenon
  <1>7. PICK i \in Targets : /\ s \in Range(Owned(i))
                             /\ \A x \in Targets : s \in Range(Owned(x)) => x = i
    BY <1>0, OneOwner, Zenon
  <1>8. p \in Chain(Downstream[i])
    BY <1>3, <1>6, <1>7, Zenon
  <1>9. ASSUME NEW e \in Slots, p \in Chain(e) PROVE e = Downstream[i]
    <2>1. e \in Range(Downstream)
      BY <1>4, <1>9, Zenon DEF Slots
    <2>2. PICK x \in Targets : e = Downstream[x]
      BY <2>1, Zenon DEF Range, Targets
    <2> QED BY <1>3, <1>6, <1>7, <1>9, <2>2, Zenon
  <1> QED BY <1>a, <1>8, <1>9, Zenon

(* The tail of a slot that no merge works on is the end of its chain.      *)
LEMMA TailEndsChain ==
  ASSUME RoutingInv, NEW s \in Slots, \A i \in DOMAIN merge : Downstream[i] # s,
         s \in Range(Downstream) \/ stage = "done"
  PROVE  \/ head[s] = Null /\ tail[s] = Null
         \/ tail[s] \in Chain(s) /\ next[tail[s]] = Null
  <1>0. Types /\ Inside /\ node \in Nodes /\ Cleared
    BY Zenon DEF RoutingInv, BridgeInv, Inv, Types
  <1>1. CASE stage = "done" /\ s \in RoutedUpstream
    BY <1>0, <1>1, Zenon DEF Cleared
  <1>2. CASE kind = "Bridge" /\ ~ (stage = "done" /\ s \in RoutedUpstream)
    <2>0. BridgeInv
      BY <1>2, Zenon DEF RoutingInv
    <2>1. \E u \in Slots : Whole(s, <<u>>)
      <3>1. CASE s = Downstream[1]
        BY <2>0, <3>1, BridgeWhole, Zenon
      <3>2. CASE s # Downstream[1]
        <4>1. s = Upstream[1] => stage # "done"
          BY <1>2, Zenon DEF RoutedUpstream
        <4>2. Holds(s, s) /\ Ended(s)
          BY <2>0, <3>2, <4>1, Zenon DEF BridgeInv
        <4> QED BY <4>2, HoldsWhole, Zenon
      <3> QED BY <3>1, <3>2, Zenon
    <2>2. PICK u \in Slots : Whole(s, <<u>>)
      BY <2>1, Zenon
    <2> QED BY <1>0, <2>2, WholeChain, Zenon
  <1>3. CASE kind # "Bridge" /\ ~ (stage = "done" /\ s \in RoutedUpstream)
    <2>0. Inv /\ Untouched
      BY <1>3, Zenon DEF RoutingInv
    <2>1. s \in Range(Downstream)
      BY <1>3, Zenon DEF RoutedUpstream, Slots
    <2>2. PICK i \in Targets : s = Downstream[i]
      BY <2>1, Zenon DEF Range, Targets
    <2>3. \E L : Whole(s, L)
      <3>1. CASE i \in waiting \/ i \notin Merges
        <4>1. Holds(s, s) /\ Ended(s)
          BY <2>0, <2>2, <3>1, Zenon DEF Untouched
        <4> QED BY <4>1, HoldsWhole, Zenon
      <3>2. CASE ~ (i \in waiting \/ i \notin Merges)
        <4>1. i \notin DOMAIN merge
          BY <2>2, Zenon
        <4> QED BY <2>0, <2>2, <3>2, <4>1, EndedWhole, Zenon
      <3> QED BY <3>1, <3>2, Zenon
    <2>4. PICK L : Whole(s, L)
      BY <2>3, Zenon
    <2> QED BY <1>0, <2>4, WholeChain, Zenon
  <1> QED BY <1>1, <1>2, <1>3, Zenon

(* The metadata-only clear is right for every node whose policy keeps to   *)
(* its range: no page is lost, none has two owners, and the tail of a slot *)
(* is the end of its chain.                                                *)
THEOREM RoutingKeepsPages ==
  ASSUME Narrow, TablesInRange
  PROVE  Spec => []PagesKept
  <1>1. RoutingInv => PagesKept
    <2> SUFFICES ASSUME RoutingInv PROVE PagesKept
      OBVIOUS
    <2>1. ASSUME stage = "done", kind \notin {"Broadcast", "Bridge"}, NEW s \in Slots,
                 NEW p \in Range(before[s])
          PROVE  \E d \in Slots : {e \in Slots : p \in Chain(e)} = {d}
      <3>1. Inv /\ Untouched /\ Cleared /\ kind # "Broadcast"
        BY <2>1, Zenon DEF RoutingInv
      <3> QED BY <2>1, <3>1, OneChain, Zenon
    <2>2. \A s \in Slots :
            /\ \A i \in DOMAIN merge : Downstream[i] # s
            /\ s \in Range(Downstream) \/ stage = "done"
            => \/ head[s] = Null /\ tail[s] = Null
               \/ tail[s] \in Chain(s) /\ next[tail[s]] = Null
      BY TailEndsChain, Zenon
    <2> QED BY <2>1, <2>2, Zenon DEF PagesKept
  <1> QED BY <1>1, RoutingInvariant, PTL
=============================================================================
