--------------------------- MODULE DagPlanProofs ----------------------------
(***************************************************************************)
(* The plan of a DAG is right, for every DAG: Kahn's algorithm refuses it  *)
(* exactly when it has a cycle, the waves respect the dependencies and no  *)
(* node waits longer than it must, and every barrier group of a DAG that   *)
(* is accepted can meet.                                                   *)
(*                                                                         *)
(* Then what follows from a plan for a runner that takes it wave by wave:  *)
(* whom it has to join when, and what its counters of readers count.  The  *)
(* operators and lemmas of that part take the runner's state as arguments; *)
(* DagRunnerProofs has the steps of run_dag.                               *)
(***************************************************************************)
EXTENDS DagTables, FiniteSetTheorems, SequenceTheorems, WellFoundedInduction, TLAPS

-----------------------------------------------------------------------------
(* Numbers and finite sets                                                 *)

(* A set of naturals that has an element has a least one.                  *)
LEMMA LeastNumber ==
  ASSUME NEW T \in SUBSET Nat, T # {}
  PROVE  \E x \in T : \A y \in T : x <= y
  <1>1. PICK x \in T : \A y \in T : ~ (<<y, x>> \in OpToRel(<, Nat))
    BY NatLessThanWellFounded, WFMin, Zenon
  <1>2. \A y \in T : ~ (y < x)
    BY <1>1, Zenon DEF OpToRel
  <1> QED BY <1>2

(* Induction over the naturals, about a set of them.                       *)
LEMMA AllNumbers ==
  ASSUME NEW T, 0 \in T, \A n \in Nat : n \in T => n + 1 \in T
  PROVE  Nat \subseteq T
  <1> SUFFICES ASSUME Nat \ T # {} PROVE FALSE
    BY Zenon
  <1>1. PICK x \in Nat \ T : \A y \in Nat \ T : x <= y
    BY LeastNumber, Zenon
  <1>2. x # 0 /\ x - 1 \in Nat /\ x - 1 \in T
    BY <1>1
  <1> QED BY <1>1, <1>2

(* Taking an element out of a finite set.                                  *)
LEMMA TakeOut ==
  ASSUME NEW S, IsFiniteSet(S), NEW x \in S
  PROVE  IsFiniteSet(S \ {x}) /\ Cardinality(S \ {x}) = Cardinality(S) - 1
  BY FS_RemoveElement, Zenon

(* A finite set of naturals with an element has a largest one, Max.        *)
LEMMA Largest ==
  ASSUME NEW S \in SUBSET Nat, IsFiniteSet(S), S # {}
  PROVE  Max(S) \in S /\ \A y \in S : y <= Max(S)
  <1> DEFINE Has(k) == \A R \in SUBSET Nat : IsFiniteSet(R) /\ Cardinality(R) = k /\ R # {} =>
                          \E x \in R : \A y \in R : y <= x
             T == {k \in Nat : Has(k)}
  <1>1. 0 \in T
    BY FS_EmptySet, Zenon
  <1>2. ASSUME NEW k \in Nat, k \in T PROVE k + 1 \in T
    <2> SUFFICES ASSUME NEW R \in SUBSET Nat, IsFiniteSet(R), Cardinality(R) = k + 1, R # {}
                 PROVE  \E x \in R : \A y \in R : y <= x
      OBVIOUS
    <2>1. PICK r \in R : TRUE
      BY Zenon
    <2>a. IsFiniteSet(R \ {r}) /\ Cardinality(R \ {r}) = Cardinality(R) - 1
      BY <2>1, TakeOut, Zenon
    <2>2. IsFiniteSet(R \ {r}) /\ Cardinality(R \ {r}) = k
      BY <2>a
    <2>3. CASE R \ {r} = {}
      BY <2>1, <2>3
    <2>4. CASE R \ {r} # {}
      <3>1. PICK x \in R \ {r} : \A y \in R \ {r} : y <= x
        BY <1>2, <2>2, <2>4, Zenon
      <3>2. r <= x \/ x <= r
        OBVIOUS
      <3> QED BY <2>1, <3>1, <3>2
    <2> QED BY <2>3, <2>4, Zenon
  <1>3. Nat \subseteq T
    <2> HIDE DEF T
    <2> QED BY <1>1, <1>2, AllNumbers, Zenon
  <1>4. Cardinality(S) \in T
    BY <1>3, FS_CardinalityType, Zenon
  <1>5. PICK x \in S : \A y \in S : y <= x
    BY <1>4, Zenon
  <1>6. \A y \in S : x >= y
    BY <1>5, Zenon
  <1>7. Max(S) \in S /\ \A y \in S : Max(S) >= y
    BY <1>6, Zenon DEF Max
  <1> QED BY <1>7, Zenon

-----------------------------------------------------------------------------
(* Sequences of distinct elements                                          *)

(* s lists the elements of S, each once.                                   *)
Lists(s, S) ==
    /\ s \in Seq(S)
    /\ \A x \in S : \E i \in 1..Len(s) : s[i] = x
    /\ \A i, j \in 1..Len(s) : s[i] = s[j] => i = j

(* What a listing of S ranges over.                                        *)
LEMMA ListsRange ==
  ASSUME NEW S, NEW s, Lists(s, S)
  PROVE  Range(s) = S
  BY DEF Lists, Range

(* A listing of a set is as long as the set is large.                      *)
LEMMA ListsLength ==
  ASSUME NEW S, NEW s, Lists(s, S)
  PROVE  IsFiniteSet(S) /\ Cardinality(S) = Len(s)
  <1>1. Len(s) \in Nat /\ s \in [1..Len(s) -> S]
    BY DEF Lists
  <1>2. s \in Bijection(1..Len(s), S)
    BY <1>1, Zenon DEF Lists, Bijection, Injection, Surjection, IsInjective
  <1>3. ExistsBijection(1..Len(s), S)
    BY <1>2, Zenon DEF ExistsBijection
  <1>4. Cardinality(S) = Len(s)
    BY <1>1, <1>3, FS_CountingElements, Zenon
  <1>5. IsFiniteSet(1..Len(s))
    BY <1>1, FS_Interval
  <1> QED BY <1>3, <1>4, <1>5, FS_Bijection, Zenon

(* The empty sequence lists the empty set, and nothing else does.          *)
LEMMA ListsEmpty ==
  Lists(<<>>, {}) /\ \A S, s : Lists(s, S) => (s = <<>> <=> S = {})
  BY DEF Lists

(* Append to a listing.                                                    *)
LEMMA ListsAppend ==
  ASSUME NEW S, NEW s, Lists(s, S), NEW x, x \notin S
  PROVE  Lists(Append(s, x), S \union {x})
  BY DEF Lists

(* Head and tail of a listing.                                             *)
LEMMA ListsTail ==
  ASSUME NEW S, NEW s, Lists(s, S), s # <<>>
  PROVE  Head(s) \in S /\ Lists(Tail(s), S \ {Head(s)})
  <1> DEFINE t == Tail(s)
  <1>1. s \in Seq(S) /\ Len(s) \in Nat /\ Len(s) > 0 /\ Head(s) = s[1] /\ s[1] \in S
    BY DEF Lists
  <1>2. Len(t) = Len(s) - 1 /\ t \in Seq(S) /\ \A i \in 1..Len(t) : t[i] = s[i + 1]
    BY <1>1
  <1>3. \A i \in 1..Len(t) : t[i] \in S /\ t[i] # s[1] /\ i + 1 \in 1..Len(s)
    BY <1>1, <1>2 DEF Lists
  <1>4. t \in Seq(S \ {s[1]})
    <2> HIDE DEF t
    <2>1. t = [i \in 1..Len(t) |-> t[i]]
      BY <1>2
    <2>2. [i \in 1..Len(t) |-> t[i]] \in Seq(S \ {s[1]})
      BY <1>1, <1>2, <1>3
    <2> QED BY <2>1, <2>2, Zenon
  <1>5. ASSUME NEW x \in S \ {s[1]} PROVE \E i \in 1..Len(t) : t[i] = x
    <2>1. PICK i \in 1..Len(s) : s[i] = x
      BY Zenon DEF Lists
    <2>2. i - 1 \in 1..Len(t) /\ t[i - 1] = x
      BY <1>1, <1>2, <2>1
    <2> QED BY <2>2, Zenon
  <1>6. ASSUME NEW i \in 1..Len(t), NEW j \in 1..Len(t), t[i] = t[j] PROVE i = j
    <2>1. s[i + 1] = s[j + 1] /\ i + 1 \in 1..Len(s) /\ j + 1 \in 1..Len(s)
      BY <1>2, <1>3, <1>6, Zenon
    <2>2. i + 1 = j + 1
      BY <2>1, Zenon DEF Lists
    <2> QED BY <1>1, <1>2, <2>2
  <1> HIDE DEF t
  <1>7. Lists(t, S \ {s[1]})
    BY <1>4, <1>5, <1>6, Zenon DEF Lists
  <1> QED BY <1>1, <1>7, Zenon DEF t

(* Two listings one after the other.                                       *)
LEMMA ListsConcat ==
  ASSUME NEW S, NEW s, Lists(s, S), NEW T, NEW t, Lists(t, T), S \intersect T = {}
  PROVE  Lists(s \o t, S \union T)
  <1> DEFINE u == s \o t
  <1>1. s \in Seq(S) /\ t \in Seq(T) /\ Len(s) \in Nat /\ Len(t) \in Nat
    BY DEF Lists
  <1>2. u \in Seq(S \union T) /\ Len(u) = Len(s) + Len(t)
    BY <1>1
  <1>3. \A i \in 1..Len(s) : u[i] = s[i] /\ u[i] \in S
    BY <1>1
  <1>4. \A i \in 1..Len(t) : u[Len(s) + i] = t[i] /\ t[i] \in T
    BY <1>1
  <1>5. \A i \in 1..Len(u) : i \in 1..Len(s) \/ (i - Len(s) \in 1..Len(t) /\ u[i] = t[i - Len(s)])
    BY <1>1, <1>2, <1>4
  <1> HIDE DEF u
  <1>6. ASSUME NEW x \in S \union T PROVE \E i \in 1..Len(u) : u[i] = x
    <2>1. CASE x \in S
      <3>1. PICK i \in 1..Len(s) : s[i] = x
        BY <2>1, Zenon DEF Lists
      <3>2. i \in 1..Len(u) /\ u[i] = x
        BY <1>1, <1>2, <1>3, <3>1
      <3> QED BY <3>2, Zenon
    <2>2. CASE x \in T
      <3>1. PICK i \in 1..Len(t) : t[i] = x
        BY <2>2, Zenon DEF Lists
      <3>2. Len(s) + i \in 1..Len(u) /\ u[Len(s) + i] = x
        BY <1>1, <1>2, <1>4, <3>1
      <3> QED BY <3>2, Zenon
    <2> QED BY <2>1, <2>2, Zenon
  <1>7. ASSUME NEW i \in 1..Len(u), NEW j \in 1..Len(u), u[i] = u[j] PROVE i = j
    <2>1. CASE i \in 1..Len(s) /\ j \in 1..Len(s)
      BY <1>3, <1>7, <2>1, Zenon DEF Lists
    <2>2. CASE i \notin 1..Len(s) /\ j \notin 1..Len(s)
      <3>1. i - Len(s) \in 1..Len(t) /\ j - Len(s) \in 1..Len(t) /\ t[i - Len(s)] = t[j - Len(s)]
        BY <1>5, <1>7, <2>2, Zenon
      <3>2. i - Len(s) = j - Len(s)
        BY <3>1, Zenon DEF Lists
      <3> QED BY <1>1, <1>2, <3>2
    <2>4. \A k \in 1..Len(s) : u[k] \in S
      BY <1>3, Zenon
    <2>5. \A k \in 1..Len(u) : k \notin 1..Len(s) => u[k] \in T
      BY <1>4, <1>5, Zenon
    <2>6. CASE i \in 1..Len(s) /\ j \notin 1..Len(s)
      BY <1>7, <2>4, <2>5, <2>6, Zenon
    <2>7. CASE i \notin 1..Len(s) /\ j \in 1..Len(s)
      BY <1>7, <2>4, <2>5, <2>7, Zenon
    <2> QED BY <2>1, <2>2, <2>6, <2>7, Zenon
  <1>8. Lists(u, S \union T)
    BY <1>2, <1>6, <1>7, Zenon DEF Lists
  <1> QED BY <1>8, Zenon DEF u

(* How many elements of S are smaller than n.                              *)
Rank(S, n) == Cardinality({m \in S : m < n})

(* A rank is below the number of elements, and two elements differ in it.  *)
LEMMA Ranks ==
  ASSUME NEW S \in SUBSET Nat, IsFiniteSet(S)
  PROVE  /\ \A n \in S : Rank(S, n) \in 0..(Cardinality(S) - 1)
         /\ \A n, k \in S : Rank(S, n) = Rank(S, k) => n = k
  <1> DEFINE Below(n) == {m \in S : m < n}
  <1>0. Cardinality(S) \in Nat
    BY FS_CardinalityType, Zenon
  <1>1. ASSUME NEW n \in S
        PROVE  IsFiniteSet(Below(n)) /\ Cardinality(Below(n)) \in Nat /\ n \notin Below(n)
    BY FS_Subset, FS_CardinalityType
  <1>2. ASSUME NEW n \in S, NEW B \in SUBSET S, Below(n) \subseteq B, n \in B
        PROVE  Cardinality(Below(n)) < Cardinality(B) /\ Cardinality(B) \in Nat
    <2>1. IsFiniteSet(B) /\ Cardinality(B) \in Nat
      BY FS_Subset, FS_CardinalityType, Zenon
    <2>2. IsFiniteSet(B \ {n}) /\ Cardinality(B \ {n}) = Cardinality(B) - 1
      BY <1>2, <2>1, TakeOut, Zenon
    <2>3. Below(n) \in SUBSET (B \ {n})
      BY <1>1, <1>2, Zenon
    <2>4. Cardinality(Below(n)) <= Cardinality(B \ {n})
      BY <2>2, <2>3, FS_Subset, Zenon
    <2> HIDE DEF Below
    <2> QED BY <1>1, <2>1, <2>2, <2>4
  <1>3. ASSUME NEW n \in S PROVE Rank(S, n) \in 0..(Cardinality(S) - 1)
    <2>1. Cardinality(Below(n)) < Cardinality(S)
      BY <1>2, Zenon
    <2>2. Cardinality(Below(n)) \in Nat
      BY <1>1, Zenon
    <2> HIDE DEF Below
    <2>3. Cardinality(Below(n)) \in 0..(Cardinality(S) - 1)
      BY <1>0, <2>1, <2>2
    <2> QED BY <2>3, Zenon DEF Rank, Below
  <1>4. ASSUME NEW n \in S, NEW k \in S, n < k PROVE Rank(S, n) # Rank(S, k)
    <2>a. \A m \in S : m < n => m < k
      BY <1>4
    <2>1. Below(n) \subseteq Below(k) /\ n \in Below(k) /\ Below(k) \in SUBSET S
      BY <1>4, <2>a, Zenon
    <2>2. Cardinality(Below(n)) < Cardinality(Below(k))
      BY <1>2, <2>1, Zenon
    <2>3. Cardinality(Below(n)) \in Nat /\ Cardinality(Below(k)) \in Nat
      BY <1>1, Zenon
    <2> HIDE DEF Below
    <2>4. Cardinality(Below(n)) # Cardinality(Below(k))
      BY <2>2, <2>3
    <2> QED BY <2>4, Zenon DEF Rank, Below
  <1>5. \A n, k \in S : n < k \/ k < n \/ n = k
    OBVIOUS
  <1> QED BY <1>3, <1>4, <1>5, Zenon

(* Ascending lists a set of indices: nothing is lost, nothing comes twice. *)
LEMMA AscendingLists ==
  ASSUME NEW S \in SUBSET Nat, IsFiniteSet(S)
  PROVE  Lists(Ascending(S), S)
  <1> DEFINE N == Cardinality(S)
             r == [n \in S |-> Rank(S, n)]
             Nth(i) == CHOOSE n \in S : Rank(S, n) = i - 1
             a == [i \in 1..N |-> Nth(i)]
  <1>0. N \in Nat
    BY FS_CardinalityType, Zenon
  <1>1. r \in Injection(S, 0..(N - 1))
    BY Ranks, Zenon DEF Injection, IsInjective
  <1>2. Ascending(S) = a
    BY Zenon DEF Ascending, Rank
  <1>3. /\ \A x \in S : Rank(S, x) \in 0..(N - 1)
        /\ \A n, k \in S : Rank(S, n) = Rank(S, k) => n = k
    BY Ranks, Zenon
  <1> HIDE DEF r, N
  <1>4. r \in Surjection(S, 0..(N - 1))
    <2>1. IsFiniteSet(0..(N - 1)) /\ Cardinality(0..(N - 1)) = N
      BY <1>0, FS_Interval
    <2> QED BY <1>1, <2>1, FS_Injection, Zenon DEF N
  <1>5. \A j \in 0..(N - 1) : \E n \in S : Rank(S, n) = j
    BY <1>4, Zenon DEF Surjection, r
  <1>6. ASSUME NEW i \in 1..N PROVE Nth(i) \in S /\ Rank(S, Nth(i)) = i - 1
    <2>1. i - 1 \in 0..(N - 1)
      BY <1>0
    <2>2. \E n \in S : Rank(S, n) = i - 1
      BY <1>5, <2>1, Zenon
    <2> QED BY <2>2, Zenon
  <1> HIDE DEF Nth
  <1>7. a \in Seq(S) /\ Len(a) = N /\ \A i \in 1..N : a[i] = Nth(i)
    BY <1>0, <1>6
  <1> HIDE DEF a
  <1>8. ASSUME NEW x \in S PROVE \E i \in 1..N : a[i] = x
    <2>1. PICK k \in 0..(N - 1) : k = Rank(S, x)
      BY <1>3, Zenon
    <2>2. PICK i \in 1..N : i - 1 = k
      <3>1. k + 1 \in 1..N /\ k + 1 - 1 = k
        BY <1>0
      <3> QED BY <3>1
    <2>3. a[i] \in S /\ Rank(S, a[i]) = Rank(S, x)
      BY <1>6, <1>7, <2>1, <2>2, Zenon
    <2>4. a[i] = x
      BY <1>3, <2>3, Zenon
    <2> QED BY <2>4, Zenon
  <1>9. ASSUME NEW i \in 1..N, NEW j \in 1..N, a[i] = a[j] PROVE i = j
    <2>1. i - 1 = j - 1
      BY <1>6, <1>7, <1>9, Zenon
    <2> QED BY <1>0, <2>1
  <1>10. Lists(a, S)
    BY <1>7, <1>8, <1>9, Zenon DEF Lists
  <1> QED BY <1>2, <1>10, Zenon

-----------------------------------------------------------------------------
(* The plan: the invariant                                                 *)

(* What the sort has put into order comes after its dependencies.          *)
Ordered ==
    /\ Lists(order, Range(order)) /\ Range(order) \subseteq Nodes
    /\ \A i \in 1..Len(order) : Deps(order[i]) \subseteq {order[j] : j \in 1..(i - 1)}

(* The nodes that can come next once those in R are sorted.                *)
Free(R) == {m \in Nodes \ R : Deps(m) \subseteq R}

(* topo_sort: the queue holds these nodes, and a degree counts what a node *)
(* still waits for.                                                        *)
Sorting ==
    /\ Lists(queue, Free(Range(order)))
    /\ degree = [m \in Nodes |-> Cardinality(Deps(m) \ Range(order))]

Cyclic == \E n \in Nodes : n \in Ancestors(n)

(* build_waves goes through the order: the queue is the rest of it.        *)
Rest ==
    /\ Range(order) = Nodes
    /\ Lists(queue, Range(queue)) /\ Len(queue) <= Len(order)
    /\ \A i \in 1..Len(queue) : queue[i] = order[Len(order) - Len(queue) + i]

(* The level of a node is one above the highest of its dependencies.       *)
LevelRight(n) ==
    /\ \A d \in Deps(n) : level[d] < level[n]
    /\ level[n] = 0 \/ \E d \in Deps(n) : level[n] = level[d] + 1

Levelling == level \in [Nodes -> Nat] /\ \A n \in Nodes \ Range(queue) : LevelRight(n)

Distinct(s) == \A i, j \in 1..Len(s) : s[i] = s[j] => i = j

(* The nodes that are not in the queue any more are in their waves, once.  *)
Filling ==
    /\ level \in [Nodes -> Nat]
    /\ \A n \in Nodes : LevelRight(n) /\ level[n] < Len(waves)
    /\ waves \in Seq(Seq(Nodes)) /\ waves # <<>>
    /\ \A w \in 1..Len(waves) :
         Range(waves[w]) = {n \in Nodes \ Range(queue) : level[n] + 1 = w}
    /\ \A w \in 1..Len(waves) : Distinct(waves[w])

Unassigned == barriers = [id |-> <<>>, count |-> <<>>, reset |-> <<>>]

Party(g) == {n \in Nodes : dag.group[n] = g}

(* Every group is in one wave.                                             *)
Together == \A g \in Groups : \E w \in 1..Len(waves) : Party(g) \subseteq Range(waves[w])

(* The groups of I have barriers of their own, for as many parties as they *)
(* have members, which are reset before the wave of the group.             *)
BarrierSlots(I, C, R) ==
    /\ DOMAIN C = DOMAIN I /\ IsFiniteSet(DOMAIN I) /\ Cardinality(DOMAIN I) <= BarrierCount
    /\ \A g \in DOMAIN I :
         /\ g \in Groups
         /\ I[g] \in 0..(Cardinality(DOMAIN I) - 1)
         /\ C[g] = Cardinality(Party(g))
         /\ \E w \in 1..Len(R) : Party(g) \subseteq Range(waves[w]) /\ I[g] \in R[w]
    /\ \A g, h \in DOMAIN I : I[g] = I[h] => g = h

(* The groups of the waves up to v have a barrier.                         *)
Covered(I, v) == \A w \in 1..v : \A g \in Groups : Members(g, w) # {} => g \in DOMAIN I

(* build_barrier_assignments, in the wave Len(barriers.reset).             *)
Assigning ==
    /\ barriers = [id |-> barriers.id, count |-> barriers.count, reset |-> barriers.reset]
    /\ Together
    /\ barriers.reset \in Seq(SUBSET Nat) /\ Len(barriers.reset) <= Len(waves)
    /\ BarrierSlots(barriers.id, barriers.count, barriers.reset)
    /\ Covered(barriers.id, Len(barriers.reset) - 1)

(* Where the planning is, and what holds there.                            *)
PlanInv ==
    /\ dag \in Dags
    /\ \/ phase = "sort" /\ waves = <<>> /\ Unassigned /\ Ordered /\ Sorting
             /\ level = [n \in Nodes |-> 0]
       \/ phase = "error" /\ waves = <<>> /\ Cyclic
       \/ phase = "level" /\ waves = <<>> /\ Unassigned /\ Ordered /\ Rest /\ Levelling
       \/ phase = "fill" /\ Unassigned /\ Ordered /\ Rest /\ Filling
       \/ phase = "error" /\ queue = <<>> /\ Filling
       \/ phase = "assign" /\ queue = <<>> /\ Filling /\ Assigning
       \/ phase = "ready" /\ queue = <<>> /\ Filling /\ Assigning /\ Groups \subseteq DOMAIN barriers.id

-----------------------------------------------------------------------------
(* The DAG                                                                 *)

(* Nodes are finitely many indices, and dependencies are nodes.            *)
LEMMA DagFacts ==
  ASSUME dag \in Dags
  PROVE  /\ Nodes \in SUBSET Nat /\ IsFiniteSet(Nodes)
         /\ \A n \in Nodes : Deps(n) \in SUBSET Nodes /\ IsFiniteSet(Deps(n))
         /\ DOMAIN dag.group = Nodes
         /\ BarrierCount \in Nat
  <1>1. /\ Nodes \in SUBSET Nat /\ IsFiniteSet(Nodes) /\ DOMAIN dag.group = Nodes
        /\ \A n \in Nodes : Deps(n) \in SUBSET Nodes
        /\ BarrierCount \in Nat
    BY PlanAssumption, Zenon DEF Nodes, Deps
  <1>2. \A n \in Nodes : IsFiniteSet(Deps(n))
    BY <1>1, FS_Subset, Zenon
  <1> QED BY <1>1, <1>2, Zenon

(* The ancestors of a node have its dependencies and those of ancestors.   *)
LEMMA AncestorsClosed ==
  ASSUME dag \in Dags, NEW n \in Nodes
  PROVE  /\ Ancestors(n) \in SUBSET Nodes
         /\ Deps(n) \subseteq Ancestors(n)
         /\ \A m \in Ancestors(n) : Deps(m) \subseteq Ancestors(n)
  <1>1. \A m \in Nodes : Deps(m) \in SUBSET Nodes
    BY DagFacts, Zenon
  <1> QED BY <1>1, Zenon DEF Ancestors

(* They are in every set that has the dependencies of n and is closed.     *)
LEMMA AncestorsLeast ==
  ASSUME NEW n \in Nodes, NEW S \in SUBSET Nodes, Deps(n) \subseteq S,
         \A m \in S : Deps(m) \subseteq S
  PROVE  Ancestors(n) \subseteq S
  BY Zenon DEF Ancestors

(* Nodes that all depend on one another are on a cycle or behind one.      *)
LEMMA CycleLeft ==
  ASSUME dag \in Dags, NEW L \in SUBSET Nodes, L # {},
         \A n \in L : Deps(n) \intersect L # {}
  PROVE  Cyclic
  <1> SUFFICES ASSUME \A n \in Nodes : n \notin Ancestors(n) PROVE FALSE
    BY Zenon DEF Cyclic
  <1> DEFINE Size(n) == Cardinality(Ancestors(n))
             T == {Size(n) : n \in L}
  <1>1. \A n \in Nodes : IsFiniteSet(Ancestors(n)) /\ Size(n) \in Nat
    BY AncestorsClosed, DagFacts, FS_Subset, FS_CardinalityType, Zenon
  <1>2. T \in SUBSET Nat /\ T # {}
    BY <1>1, Zenon
  <1>3. PICK k \in T : \A y \in T : k <= y
    BY <1>2, LeastNumber, Zenon
  <1>4. PICK n \in L : \A m \in L : Size(n) <= Size(m)
    BY <1>3, Zenon
  <1>5. PICK d \in L : d \in Deps(n)
    BY Zenon
  <1>6. d \in Ancestors(n) /\ Ancestors(d) \subseteq Ancestors(n)
    BY <1>5, AncestorsClosed, AncestorsLeast, Zenon
  <1>7. Ancestors(d) \in SUBSET (Ancestors(n) \ {d})
    BY <1>6, Zenon
  <1>8. /\ IsFiniteSet(Ancestors(n) \ {d})
        /\ Cardinality(Ancestors(n) \ {d}) = Cardinality(Ancestors(n)) - 1
    BY <1>1, <1>6, TakeOut, Zenon
  <1>9. Cardinality(Ancestors(d)) <= Cardinality(Ancestors(n) \ {d})
    BY <1>7, <1>8, FS_Subset, Zenon
  <1>10. Size(n) <= Size(d) /\ Size(n) \in Nat /\ Size(d) \in Nat
    BY <1>1, <1>4, Zenon
  <1>11. Size(d) <= Size(n) - 1
    BY <1>8, <1>9, Zenon
  <1> HIDE DEF Size
  <1> QED BY <1>10, <1>11

-----------------------------------------------------------------------------
(* What the invariant gives                                                *)

(* Once the queue is empty a node is in the wave of its level only.        *)
LEMMA OneWave ==
  ASSUME dag \in Dags, Filling, queue = <<>>, NEW n \in Nodes
  PROVE  level[n] \in Nat /\ InWaves(n) = {level[n] + 1}
  <1>1. Range(queue) = {}
    BY DEF Range
  <1>2. DOMAIN waves = 1..Len(waves) /\ level[n] \in Nat /\ level[n] + 1 \in 1..Len(waves)
    BY DEF Filling
  <1>3. \A w \in 1..Len(waves) : n \in Range(waves[w]) <=> level[n] + 1 = w
    BY <1>1, Zenon DEF Filling
  <1> QED BY <1>2, <1>3, Zenon DEF InWaves

(* What a node depends on has a lower level, however far it is.            *)
LEMMA AncestorsLower ==
  ASSUME dag \in Dags, Filling, NEW n \in Nodes, NEW d \in Ancestors(n)
  PROVE  d \in Nodes /\ level[d] < level[n]
  <1> DEFINE S == {m \in Nodes : level[m] < level[n]}
  <1>0. \A m \in Nodes : level[m] \in Nat /\ Deps(m) \subseteq Nodes
                         /\ \A e \in Deps(m) : level[e] < level[m]
    BY DagFacts, Zenon DEF Filling, LevelRight
  <1>1. S \in SUBSET Nodes /\ Deps(n) \subseteq S
    BY <1>0, Zenon
  <1>2. \A m \in S : Deps(m) \subseteq S
    BY <1>0
  <1>3. Ancestors(n) \subseteq S
    <2> HIDE DEF S
    <2> QED BY <1>1, <1>2, AncestorsLeast, Zenon
  <1> QED BY <1>3, Zenon

(* The waves are right once they are filled.                               *)
LEMMA FilledRight ==
  ASSUME dag \in Dags, Filling, queue = <<>>
  PROVE  \A n \in Nodes : \E w \in InWaves(n) :
            /\ InWaves(n) = {w}
            /\ \A d \in Ancestors(n) : \E v \in InWaves(d) : v < w
            /\ w = 1 \/ \E d \in Deps(n) : w - 1 \in InWaves(d)
  <1> SUFFICES ASSUME NEW n \in Nodes
               PROVE  \E w \in InWaves(n) :
                         /\ InWaves(n) = {w}
                         /\ \A d \in Ancestors(n) : \E v \in InWaves(d) : v < w
                         /\ w = 1 \/ \E d \in Deps(n) : w - 1 \in InWaves(d)
    BY Zenon
  <1>1. \A m \in Nodes : level[m] \in Nat /\ InWaves(m) = {level[m] + 1}
    BY OneWave, Zenon
  <1>2. ASSUME NEW d \in Ancestors(n) PROVE \E v \in InWaves(d) : v < level[n] + 1
    <2>1. d \in Nodes /\ level[d] < level[n]
      BY AncestorsLower, Zenon
    <2>2. level[d] + 1 \in InWaves(d) /\ level[d] + 1 < level[n] + 1
      BY <1>1, <2>1
    <2> QED BY <2>2, Zenon
  <1>3. level[n] = 0 \/ \E d \in Deps(n) : level[n] \in InWaves(d)
    <2>1. CASE level[n] = 0
      BY <2>1, Zenon
    <2>2. CASE level[n] # 0
      <3>1. PICK d \in Deps(n) : level[n] = level[d] + 1
        BY <2>2, Zenon DEF Filling, LevelRight
      <3>2. d \in Nodes
        BY <3>1, DagFacts, Zenon
      <3>3. level[n] \in InWaves(d)
        BY <1>1, <3>1, <3>2, Zenon
      <3> QED BY <3>3, Zenon
    <2> QED BY <2>1, <2>2, Zenon
  <1>4. PICK w : w = level[n] + 1
    BY Zenon
  <1>5. w \in InWaves(n) /\ InWaves(n) = {w}
    BY <1>1, <1>4, Zenon
  <1>6. \A d \in Ancestors(n) : \E v \in InWaves(d) : v < w
    BY <1>2, <1>4, Zenon
  <1>7. w = 1 \/ \E d \in Deps(n) : w - 1 \in InWaves(d)
    <2>1. w - 1 = level[n] /\ (level[n] = 0 => w = 1)
      BY <1>1, <1>4
    <2> QED BY <1>3, <2>1, Zenon
  <1> QED BY <1>5, <1>6, <1>7, Zenon

(* The invariant is what WavesRight and BarriersRight ask for.             *)
LEMMA InvRight ==
  ASSUME PlanInv
  PROVE  PlanRight
  <1>0. dag \in Dags
    BY Zenon DEF PlanInv
  <1>1. WavesRight
    <2>1. phase = "error" /\ waves = <<>> => Cyclic
      BY Zenon DEF PlanInv, Filling
    <2>2. waves # <<>> /\ queue = <<>> => Filling
      BY Zenon DEF PlanInv
    <2> QED BY <1>0, <2>1, <2>2, FilledRight, Zenon DEF WavesRight, Cyclic
  <1>2. BarriersRight
    <2> SUFFICES ASSUME phase = "ready", NEW g \in Groups
                 PROVE  /\ barriers.count[g] = Cardinality(Party(g))
                        /\ barriers.id[g] \in 0..(BarrierCount - 1)
                        /\ \A h \in Groups \ {g} : barriers.id[h] # barriers.id[g]
                        /\ \E w \in DOMAIN waves : Party(g) \subseteq Range(waves[w])
                                                   /\ barriers.id[g] \in barriers.reset[w]
      BY Zenon DEF BarriersRight, Party
    <2>1. Filling /\ Assigning /\ Groups \subseteq DOMAIN barriers.id
      BY Zenon DEF PlanInv
    <2>2. BarrierCount \in Nat
      BY <1>0, DagFacts, Zenon
    <2>a. BarrierSlots(barriers.id, barriers.count, barriers.reset)
      BY <2>1, Zenon DEF Assigning
    <2>3. /\ barriers.count[g] = Cardinality(Party(g))
          /\ barriers.id[g] \in 0..(Cardinality(DOMAIN barriers.id) - 1)
          /\ Cardinality(DOMAIN barriers.id) <= BarrierCount
          /\ \A h \in Groups \ {g} : barriers.id[h] # barriers.id[g]
      BY <2>1, <2>a, Zenon DEF BarrierSlots
    <2>4. Cardinality(DOMAIN barriers.id) \in Nat
      BY <2>a, FS_CardinalityType, Zenon DEF BarrierSlots
    <2>5. barriers.id[g] \in 0..(BarrierCount - 1)
      BY <2>2, <2>3, <2>4
    <2>6. PICK w \in 1..Len(barriers.reset) :
             Party(g) \subseteq Range(waves[w]) /\ barriers.id[g] \in barriers.reset[w]
      BY <2>1, <2>a, Zenon DEF BarrierSlots
    <2>7. w \in DOMAIN waves
      <3>1. DOMAIN waves = 1..Len(waves) /\ Len(waves) \in Nat
        BY <2>1 DEF Filling
      <3>2. Len(barriers.reset) <= Len(waves) /\ Len(barriers.reset) \in Nat
        BY <2>1 DEF Assigning
      <3> QED BY <2>6, <3>1, <3>2
    <2> QED BY <2>3, <2>5, <2>6, <2>7, Zenon
  <1> QED BY <1>1, <1>2, Zenon DEF PlanRight

-----------------------------------------------------------------------------
(* topo_sort                                                               *)

(* The definitions that depend on the DAG only.                            *)
LEMMA SameDag ==
  ASSUME dag' = dag
  PROVE  /\ Nodes' = Nodes
         /\ \A n : Deps(n)' = Deps(n)
         /\ \A R : Free(R)' = Free(R)
         /\ Cyclic' = Cyclic
         /\ Groups' = Groups
         /\ \A g : Party(g)' = Party(g)
  BY Zenon DEF Nodes, Deps, Free, Cyclic, Ancestors, Groups, Party

(* Kahn's step: with n, free in R, the nodes free in R and n are those     *)
(* free in R but n, and those that lacked n only.                          *)
LEMMA FreeStep ==
  ASSUME dag \in Dags, NEW R \in SUBSET Nodes, \A m \in R : Deps(m) \subseteq R,
         NEW n \in Free(R)
  PROVE  LET New == {m \in Users(n) : Cardinality(Deps(m) \ R) = 1} IN
         /\ Free(R \union {n}) = (Free(R) \ {n}) \union New
         /\ (Free(R) \ {n}) \intersect New = {}
         /\ New \in SUBSET Nat /\ IsFiniteSet(New)
         /\ \A m \in Nodes : Cardinality(Deps(m) \ (R \union {n})) =
               IF m \in Users(n) THEN Cardinality(Deps(m) \ R) - 1 ELSE Cardinality(Deps(m) \ R)
  <1> DEFINE New == {m \in Users(n) : Cardinality(Deps(m) \ R) = 1}
  <1>0. n \in Nodes /\ n \notin R /\ Deps(n) \subseteq R
    BY Zenon DEF Free
  <1>1. \A m \in Nodes : Deps(m) \in SUBSET Nodes /\ IsFiniteSet(Deps(m) \ R)
    BY DagFacts, FS_Difference, Zenon
  <1>2. Users(n) \in SUBSET Nodes /\ \A m \in Nodes : m \in Users(n) <=> n \in Deps(m)
    BY Zenon DEF Users
  <1>3. ASSUME NEW m \in Users(n) PROVE Cardinality(Deps(m) \ R) = 1 <=> Deps(m) \ R = {n}
    <2>1. m \in Nodes /\ n \in Deps(m) \ R
      BY <1>0, <1>2, Zenon
    <2>2. Cardinality(Deps(m) \ R) = 1 <=> \E x : Deps(m) \ R = {x}
      BY <1>1, <2>1, FS_Singleton, Zenon
    <2> QED BY <2>1, <2>2, Zenon
  <1>4. \A m \in New : m \in Nodes /\ Deps(m) \ R = {n} /\ m \notin R /\ m # n
    <2> SUFFICES ASSUME NEW m \in New
                 PROVE  m \in Nodes /\ Deps(m) \ R = {n} /\ m \notin R /\ m # n
      BY Zenon
    <2>1. m \in Users(n) /\ m \in Nodes /\ n \in Deps(m)
      BY <1>2, Zenon
    <2>2. Deps(m) \ R = {n}
      BY <1>3, <2>1, Zenon
    <2> QED BY <1>0, <2>1, <2>2, Zenon
  <1>5. \A m \in Nodes : Deps(m) \ R = {n} => m \in New
    BY <1>2, <1>3, Zenon
  <1>6. Free(R \union {n}) \subseteq (Free(R) \ {n}) \union New
    <2> SUFFICES ASSUME NEW m \in Nodes, m \notin R, m # n, Deps(m) \subseteq R \union {n}, m \notin New
                 PROVE  Deps(m) \subseteq R
      BY Zenon DEF Free
    <2> HIDE DEF New
    <2>1. Deps(m) \ R # {n}
      BY <1>5, Zenon
    <2> QED BY <2>1, Zenon
  <1>7. (Free(R) \ {n}) \union New \subseteq Free(R \union {n})
    <2> HIDE DEF New
    <2> QED BY <1>4, Zenon DEF Free
  <1>8. (Free(R) \ {n}) \intersect New = {}
    <2> HIDE DEF New
    <2> SUFFICES ASSUME NEW m \in Free(R), m \in New PROVE FALSE
      BY Zenon
    <2>1. Deps(m) \subseteq R
      BY Zenon DEF Free
    <2>2. n \in Deps(m) \ R
      BY <1>4, Zenon
    <2> QED BY <2>1, <2>2, Zenon
  <1>9. New \in SUBSET Nat /\ IsFiniteSet(New)
    <2>1. New \in SUBSET Nodes
      BY <1>2, Zenon
    <2> HIDE DEF New
    <2> QED BY <2>1, DagFacts, FS_Subset, Zenon
  <1>10. ASSUME NEW m \in Nodes
         PROVE  Cardinality(Deps(m) \ (R \union {n})) =
                  IF m \in Users(n) THEN Cardinality(Deps(m) \ R) - 1 ELSE Cardinality(Deps(m) \ R)
    <2>1. Deps(m) \ (R \union {n}) = (Deps(m) \ R) \ {n}
      BY Zenon
    <2>2. CASE m \in Users(n)
      <3>1. n \in Deps(m) \ R
        BY <1>0, <1>2, <2>2, Zenon
      <3> QED BY <1>1, <2>1, <2>2, <3>1, TakeOut, Zenon
    <2>3. CASE m \notin Users(n)
      <3>1. (Deps(m) \ R) \ {n} = Deps(m) \ R
        BY <1>2, <2>3, Zenon
      <3> QED BY <2>1, <2>3, <3>1, Zenon
    <2> QED BY <2>2, <2>3, Zenon
  <1> QED BY <1>6, <1>7, <1>8, <1>9, <1>10, Zenon

(* The nodes in order have their dependencies in order.                    *)
LEMMA OrderClosed ==
  ASSUME Ordered
  PROVE  Range(order) \in SUBSET Nodes /\ \A m \in Range(order) : Deps(m) \subseteq Range(order)
  <1>1. order \in Seq(Range(order)) /\ Len(order) \in Nat
    BY DEF Ordered, Lists
  <1>2. \A m \in Range(order) : \E i \in 1..Len(order) : order[i] = m
    BY Zenon DEF Ordered, Lists
  <1>3. \A i \in 1..Len(order) : \A j \in 1..(i - 1) : order[j] \in Range(order)
    BY <1>1
  <1>4. ASSUME NEW m \in Range(order) PROVE Deps(m) \subseteq Range(order)
    <2>1. PICK i \in 1..Len(order) : order[i] = m
      BY <1>2, Zenon
    <2>2. Deps(m) \subseteq {order[j] : j \in 1..(i - 1)}
      BY <2>1, Zenon DEF Ordered
    <2> QED BY <1>3, <2>2, Zenon
  <1> QED BY <1>4, Zenon DEF Ordered

(* Sort keeps the order topological.                                       *)
LEMMA OrderedAppend ==
  ASSUME dag \in Dags, Ordered, NEW n \in Free(Range(order)),
         order' = Append(order, n), dag' = dag
  PROVE  Ordered' /\ Range(order)' = Range(order) \union {n}
  <1>1. Lists(order, Range(order)) /\ n \notin Range(order) /\ n \in Nodes
    BY Zenon DEF Ordered, Free
  <1>2. Lists(order', Range(order) \union {n})
    BY <1>1, ListsAppend, Zenon
  <1>3. Range(order)' = Range(order) \union {n}
    BY <1>2, ListsRange, Zenon
  <1>4. order \in Seq(Range(order)) /\ Len(order) \in Nat
    BY <1>1 DEF Lists
  <1>5. Len(order') = Len(order) + 1 /\ order'[Len(order) + 1] = n
        /\ \A i \in 1..Len(order) : order'[i] = order[i]
    BY <1>4
  <1>6. ASSUME NEW i \in 1..Len(order') PROVE Deps(order'[i]) \subseteq {order'[j] : j \in 1..(i - 1)}
    <2>1. CASE i \in 1..Len(order)
      <3>1. Deps(order[i]) \subseteq {order[j] : j \in 1..(i - 1)} /\ order'[i] = order[i]
        BY <1>5, <2>1, Zenon DEF Ordered
      <3>2. \A j \in 1..(i - 1) : order[j] = order'[j]
        BY <1>4, <1>5, <2>1
      <3> QED BY <3>1, <3>2, Zenon
    <2>2. CASE i = Len(order) + 1
      <3>1. Deps(n) \subseteq Range(order) /\ order'[i] = n
        BY <1>5, <2>2, Zenon DEF Free
      <3>2. \A m \in Range(order) : \E j \in 1..Len(order) : m = order'[j]
        <4>1. \A m \in Range(order) : \E j \in 1..Len(order) : m = order[j]
          BY <1>1, Zenon DEF Lists
        <4> QED BY <1>5, <4>1, Zenon
      <3>3. 1..(i - 1) = 1..Len(order)
        BY <1>4, <2>2
      <3> QED BY <3>1, <3>2, <3>3, Zenon
    <2>3. i \in 1..Len(order) \/ i = Len(order) + 1
      BY <1>4, <1>5
    <2> QED BY <2>1, <2>2, <2>3, Zenon
  <1>7. Range(order)' \subseteq Nodes'
    BY <1>1, <1>3, SameDag, Zenon DEF Ordered
  <1>8. (\A i \in 1..Len(order) : Deps(order[i]) \subseteq {order[j] : j \in 1..(i - 1)})'
    BY <1>6, Zenon DEF Deps
  <1>9. Lists(order, Range(order))'
    BY <1>2, <1>3, Zenon DEF Lists
  <1> QED BY <1>3, <1>7, <1>8, <1>9, Zenon DEF Ordered

(* A step of topo_sort.                                                    *)
LEMMA SortStep ==
  ASSUME dag \in Dags, Ordered, Sorting, Sort
  PROVE  Ordered' /\ Sorting'
  <1> DEFINE R == Range(order)
             n == Head(queue)
             New == {m \in Users(n) : Cardinality(Deps(m) \ R) = 1}
  <1>1. Lists(queue, Free(R)) /\ queue # <<>> /\ dag' = dag
    BY Zenon DEF Sorting, Sort
  <1>2. n \in Free(R) /\ Lists(Tail(queue), Free(R) \ {n})
    BY <1>1, ListsTail, Zenon
  <1>3. R \in SUBSET Nodes /\ \A m \in R : Deps(m) \subseteq R
    BY OrderClosed, Zenon
  <1>4. order' = Append(order, n)
    BY Zenon DEF Sort
  <1>5. Ordered' /\ R' = R \union {n}
    BY <1>1, <1>2, <1>4, OrderedAppend, Zenon
  <1>6. /\ Free(R \union {n}) = (Free(R) \ {n}) \union New
        /\ (Free(R) \ {n}) \intersect New = {}
        /\ New \in SUBSET Nat /\ IsFiniteSet(New)
        /\ \A m \in Nodes : Cardinality(Deps(m) \ (R \union {n})) =
               IF m \in Users(n) THEN Cardinality(Deps(m) \ R) - 1 ELSE Cardinality(Deps(m) \ R)
    BY <1>2, <1>3, FreeStep, Zenon
  <1>7. \A m \in Nodes : degree[m] = Cardinality(Deps(m) \ R)
    BY Zenon DEF Sorting
  <1>8. queue' = Tail(queue) \o Ascending(New)
    <2>1. {m \in Users(n) : degree[m] = 1} = New
      BY <1>7, Zenon DEF Users
    <2> QED BY <2>1, Zenon DEF Sort
  <1>9. Lists(Ascending(New), New)
    <2> HIDE DEF New
    <2> QED BY <1>6, AscendingLists, Zenon
  <1>10. Lists(queue', Free(R \union {n}))
    <2> HIDE DEF New, R, n
    <2>1. Lists(Tail(queue) \o Ascending(New), (Free(R) \ {n}) \union New)
      BY <1>2, <1>6, <1>9, ListsConcat, Zenon
    <2> QED BY <1>6, <1>8, <2>1, Zenon
  <1>11. degree' = [m \in Nodes |-> Cardinality(Deps(m) \ (R \union {n}))]
    <2>1. degree' = [m \in Nodes |-> IF m \in Users(n) THEN degree[m] - 1 ELSE degree[m]]
      BY Zenon DEF Sort
    <2>2. \A m \in Nodes : Cardinality(Deps(m) \ (R \union {n})) =
                              IF m \in Users(n) THEN degree[m] - 1 ELSE degree[m]
      BY <1>6, <1>7, Zenon
    <2> QED BY <2>1, <2>2, Zenon
  <1> HIDE DEF n, New
  <1>12. Free(Range(order))' = Free(R \union {n})
    BY <1>1, <1>5, Zenon DEF Free, Nodes, Deps
  <1>13. Lists(queue, Free(Range(order)))'
    BY <1>10, <1>12, Zenon
  <1>14. (degree = [m \in Nodes |-> Cardinality(Deps(m) \ Range(order))])'
    BY <1>1, <1>5, <1>11, Zenon DEF Nodes, Deps
  <1> QED BY <1>5, <1>13, <1>14, Zenon DEF Sorting

(* No later step changes the order.                                        *)
LEMMA OrderedStays ==
  ASSUME Ordered, order' = order, dag' = dag
  PROVE  Ordered'
  <1>1. (Lists(order, Range(order)) /\ Range(order) \subseteq Nodes)'
    BY Zenon DEF Ordered, Nodes
  <1>2. \A i \in 1..Len(order) : Deps(order[i]) \subseteq {order[j] : j \in 1..(i - 1)}
    BY Zenon DEF Ordered
  <1>3. (\A i \in 1..Len(order) : Deps(order[i]) \subseteq {order[j] : j \in 1..(i - 1)})'
    BY <1>2 DEF Deps
  <1> QED BY <1>1, <1>3, Zenon DEF Ordered

(* When the queue is empty, what is not sorted is on a cycle or behind     *)
(* one; otherwise the order has every node.                                *)
LEMMA EndSortStep ==
  ASSUME dag \in Dags, Ordered, Sorting, EndSort, level = [n \in Nodes |-> 0]
  PROVE  /\ dag' = dag /\ order' = order /\ level' = level
         /\ \/ phase' = "error" /\ Cyclic
            \/ phase' = "level" /\ Ordered' /\ Rest' /\ Levelling'
  <1> DEFINE R == Range(order)
  <1>0. dag' = dag /\ order' = order /\ level' = level
    BY Zenon DEF EndSort
  <1>1. Lists(order, R) /\ R \in SUBSET Nodes /\ IsFiniteSet(Nodes)
    BY DagFacts, Zenon DEF Ordered
  <1>2. Cardinality(R) = Len(order)
    BY <1>1, ListsLength, Zenon
  <1>3. CASE Len(order) # Cardinality(Nodes)
    <2>1. phase' = "error"
      BY <1>3, Zenon DEF EndSort
    <2>2. Nodes \ R # {}
      <3> SUFFICES ASSUME Nodes \ R = {} PROVE FALSE
        BY Zenon
      <3>1. Nodes = R
        BY <1>1, Zenon
      <3> QED BY <1>2, <1>3, <3>1, Zenon
    <2>3. Free(R) = {}
      BY ListsEmpty, Zenon DEF EndSort, Sorting
    <2>4. \A n \in Nodes \ R : Deps(n) \intersect (Nodes \ R) # {}
      BY <2>3, DagFacts, Zenon DEF Free
    <2>5. Cyclic
      BY <2>2, <2>4, CycleLeft, Zenon
    <2> QED BY <1>0, <2>1, <2>5, Zenon
  <1>4. CASE Len(order) = Cardinality(Nodes)
    <2>1. phase' = "level" /\ queue' = order
      BY <1>4, Zenon DEF EndSort
    <2>2. R = Nodes
      BY <1>1, <1>2, <1>4, FS_Subset, Zenon
    <2>3. Ordered'
      BY <1>0, OrderedStays, Zenon
    <2>4. Len(order) \in Nat
      BY <1>1 DEF Lists
    <2>5. \A i \in 1..Len(order) : order[i] = order[Len(order) - Len(order) + i]
      BY <2>4
    <2>6. Rest'
      BY <1>0, <1>1, <2>1, <2>2, <2>4, <2>5 DEF Rest, Nodes
    <2>7. Levelling'
      BY <1>0, <2>1, <2>2, Zenon DEF Levelling, Nodes
    <2> QED BY <1>0, <2>1, <2>3, <2>6, <2>7, Zenon
  <1> QED BY <1>3, <1>4, Zenon

-----------------------------------------------------------------------------
(* build_waves                                                             *)

(* The loop's next node waits for nodes that are done only, and so do the  *)
(* nodes that are done.                                                    *)
LEMMA RestHead ==
  ASSUME dag \in Dags, Ordered, Rest, queue # <<>>
  PROVE  /\ Head(queue) \in Range(queue) /\ Head(queue) \in Nodes
         /\ Lists(Tail(queue), Range(queue) \ {Head(queue)})
         /\ \A n \in (Nodes \ Range(queue)) \union {Head(queue)} :
               Deps(n) \subseteq Nodes \ Range(queue)
  <1> DEFINE K == Len(order) - Len(queue)
  <1>1. Lists(queue, Range(queue)) /\ Lists(order, Nodes)
    BY Zenon DEF Rest, Ordered
  <1>a. queue \in Seq(Range(queue)) /\ order \in Seq(Nodes) /\ Len(queue) <= Len(order)
    BY <1>1, Zenon DEF Rest, Lists
  <1>2. Len(queue) \in Nat /\ Len(order) \in Nat /\ K \in Nat /\ Len(queue) > 0
    BY <1>a
  <1>3. Head(queue) \in Range(queue) /\ Lists(Tail(queue), Range(queue) \ {Head(queue)})
    BY <1>1, ListsTail, Zenon
  <1>4. Head(queue) = order[K + 1] /\ K + 1 \in 1..Len(order)
    <2>1. Head(queue) = queue[1] /\ 1 \in 1..Len(queue)
      BY <1>1, <1>2 DEF Lists
    <2>2. queue[1] = order[K + 1]
      BY <2>1, Zenon DEF Rest
    <2>3. K + 1 \in 1..Len(order)
      BY <1>2 DEF Rest
    <2> QED BY <2>1, <2>2, <2>3, Zenon
  <1>5. ASSUME NEW j \in 1..K PROVE order[j] \in Nodes \ Range(queue)
    <2>1. j \in 1..Len(order) /\ order[j] \in Nodes
      BY <1>a, <1>2
    <2>2. ASSUME order[j] \in Range(queue) PROVE FALSE
      <3>1. PICK i \in 1..Len(queue) : queue[i] = order[j]
        BY <1>1, <2>2, Zenon DEF Lists
      <3>2. order[K + i] = order[j] /\ K + i \in 1..Len(order)
        BY <1>2, <3>1 DEF Rest
      <3>3. K + i = j
        BY <1>1, <2>1, <3>2, Zenon DEF Lists
      <3> QED BY <1>2, <3>3
    <2> QED BY <2>1, <2>2, Zenon
  <1>6. ASSUME NEW k \in 1..(K + 1) PROVE Deps(order[k]) \subseteq Nodes \ Range(queue)
    <2>1. k \in 1..Len(order)
      BY <1>2, <1>4
    <2>2. Deps(order[k]) \subseteq {order[j] : j \in 1..(k - 1)}
      BY <2>1, Zenon DEF Ordered
    <2>3. 1..(k - 1) \subseteq 1..K
      BY <1>2
    <2> HIDE DEF K
    <2> QED BY <1>5, <2>2, <2>3, Zenon
  <1>7. ASSUME NEW n \in Nodes \ Range(queue) PROVE \E k \in 1..K : n = order[k]
    <2>1. PICK k \in 1..Len(order) : order[k] = n
      BY <1>1, Zenon DEF Lists
    <2>2. ASSUME k > K PROVE FALSE
      <3>1. k - K \in 1..Len(queue) /\ K + (k - K) = k
        BY <1>2, <2>2
      <3>2. queue[k - K] = order[K + (k - K)]
        BY <3>1, Zenon DEF Rest
      <3>3. queue[k - K] \in Range(queue)
        BY <1>1, <3>1 DEF Lists
      <3> QED BY <2>1, <3>1, <3>2, <3>3, Zenon
    <2>3. k \in 1..K
      BY <1>2, <2>2
    <2> QED BY <2>1, <2>3, Zenon
  <1>8. ASSUME NEW n \in (Nodes \ Range(queue)) \union {Head(queue)}
        PROVE  Deps(n) \subseteq Nodes \ Range(queue)
    <2>1. CASE n = Head(queue)
      <3>1. K + 1 \in 1..(K + 1)
        BY <1>2
      <3> HIDE DEF K
      <3> QED BY <1>4, <1>6, <2>1, <3>1, Zenon
    <2>2. CASE n \in Nodes \ Range(queue)
      <3>1. PICK k \in 1..K : n = order[k]
        BY <1>7, <2>2, Zenon
      <3>2. k \in 1..(K + 1)
        BY <1>2
      <3> HIDE DEF K
      <3> QED BY <1>6, <3>1, <3>2, Zenon
    <2> QED BY <2>1, <2>2, Zenon
  <1>9. Head(queue) \in Nodes
    <2> HIDE DEF K
    <2> QED BY <1>a, <1>4
  <1> QED BY <1>3, <1>8, <1>9, Zenon

(* A turn of a loop over the order leaves the rest of the order.           *)
LEMMA RestTail ==
  ASSUME dag \in Dags, Ordered, Rest, queue # <<>>,
         queue' = Tail(queue), order' = order, dag' = dag
  PROVE  Rest' /\ Range(queue)' = Range(queue) \ {Head(queue)}
  <1>1. Lists(queue', Range(queue) \ {Head(queue)})
    BY RestHead, Zenon
  <1>2. Range(queue)' = Range(queue) \ {Head(queue)}
    BY <1>1, ListsRange, Zenon
  <1>3. queue \in Seq(Range(queue)) /\ order \in Seq(Range(order)) /\ Len(queue) <= Len(order)
    BY Zenon DEF Rest, Ordered, Lists
  <1>4. /\ Len(queue') = Len(queue) - 1 /\ Len(queue) \in Nat /\ Len(queue) > 0
        /\ Len(order) \in Nat
        /\ \A i \in 1..Len(queue') : queue'[i] = queue[i + 1] /\ i + 1 \in 1..Len(queue)
    BY <1>3
  <1>5. ASSUME NEW i \in 1..Len(queue') PROVE queue'[i] = order[Len(order) - Len(queue') + i]
    <2>1. queue[i + 1] = order[Len(order) - Len(queue) + (i + 1)]
      BY <1>4, Zenon DEF Rest
    <2>2. Len(order) - Len(queue) + (i + 1) = Len(order) - Len(queue') + i
      BY <1>4
    <2> QED BY <1>4, <2>1, <2>2, Zenon
  <1>6. Len(queue') <= Len(order')
    BY <1>3, <1>4
  <1>7. (Range(order) = Nodes)'
    BY Zenon DEF Rest, Nodes
  <1>8. Lists(queue, Range(queue))'
    BY <1>1, <1>2, Zenon
  <1>9. (\A i \in 1..Len(queue) : queue[i] = order[Len(order) - Len(queue) + i])'
    BY <1>5, Zenon
  <1> QED BY <1>2, <1>6, <1>7, <1>8, <1>9, Zenon DEF Rest

(* The values of a function on a finite set are finitely many.             *)
LEMMA FiniteRange ==
  ASSUME NEW D, IsFiniteSet(D), NEW T, NEW f \in [D -> T]
  PROVE  IsFiniteSet(Range(f))
  <1>1. f \in Surjection(D, Range(f))
    BY Zenon DEF Surjection, Range
  <1> QED BY <1>1, FS_Surjection, Zenon

(* One above the highest of the levels of D.                               *)
LEMMA LevelOf ==
  ASSUME NEW D, IsFiniteSet(D), NEW lv, \A d \in D : lv[d] \in Nat
  PROVE  LET l == Max({0} \union {lv[d] + 1 : d \in D}) IN
         /\ l \in Nat
         /\ \A d \in D : lv[d] < l
         /\ l = 0 \/ \E d \in D : l = lv[d] + 1
  <1> DEFINE f == [d \in D |-> lv[d] + 1]
             S == {0} \union {lv[d] + 1 : d \in D}
  <1>1. f \in [D -> Nat] /\ Range(f) = {lv[d] + 1 : d \in D}
    BY DEF Range
  <1>2. IsFiniteSet({lv[d] + 1 : d \in D})
    <2>1. IsFiniteSet(Range(f))
      <3> HIDE DEF f
      <3> QED BY <1>1, FiniteRange, Zenon
    <2> QED BY <1>1, <2>1, Zenon
  <1>3. S \in SUBSET Nat /\ S # {}
    OBVIOUS
  <1>4. IsFiniteSet(S)
    <2>1. IsFiniteSet({0})
      BY FS_Singleton, Zenon
    <2> QED BY <1>2, <2>1, FS_Union, Zenon
  <1>5. Max(S) \in S /\ \A y \in S : y <= Max(S)
    <2> HIDE DEF S
    <2> QED BY <1>3, <1>4, Largest, Zenon
  <1>6. PICK l : l = Max(S)
    BY Zenon
  <1>7. l \in Nat /\ (l = 0 \/ \E d \in D : l = lv[d] + 1)
    BY <1>3, <1>5, <1>6, Zenon
  <1>8. \A d \in D : lv[d] + 1 <= l
    BY <1>5, <1>6, Zenon
  <1>9. \A d \in D : lv[d] < l
    BY <1>7, <1>8
  <1> QED BY <1>6, <1>7, <1>9, Zenon

(* A turn of the loop that sets the levels.                                *)
LEMMA LevelStep ==
  ASSUME dag \in Dags, Ordered, Rest, Levelling, Level
  PROVE  Ordered' /\ Rest' /\ Levelling'
  <1>0. /\ dag' = dag /\ order' = order /\ queue # <<>> /\ queue' = Tail(queue)
    BY Zenon DEF Level, SetLevel
  <1>1. Ordered' /\ Rest' /\ Range(queue)' = Range(queue) \ {Head(queue)}
    BY <1>0, OrderedStays, RestTail, Zenon
  <1>2. PICK h : h = Head(queue)
    BY Zenon
  <1>3. /\ h \in Range(queue) /\ h \in Nodes
        /\ \A n \in (Nodes \ Range(queue)) \union {h} : Deps(n) \subseteq Nodes \ Range(queue)
    BY <1>0, <1>2, RestHead, Zenon
  <1>4. level \in [Nodes -> Nat] /\ \A n \in Nodes \ Range(queue) : LevelRight(n)
    BY Zenon DEF Levelling
  <1>5. IsFiniteSet(Deps(h)) /\ \A d \in Deps(h) : level[d] \in Nat
    BY <1>3, <1>4, DagFacts, Zenon
  <1>6. PICK l : l = Max({0} \union {level[d] + 1 : d \in Deps(h)})
    BY Zenon
  <1>7. l \in Nat /\ (\A d \in Deps(h) : level[d] < l) /\ (l = 0 \/ \E d \in Deps(h) : l = level[d] + 1)
    BY <1>5, <1>6, LevelOf, Zenon
  <1>8. level' = [level EXCEPT ![h] = l]
    BY <1>2, <1>6, Zenon DEF Level, SetLevel
  <1>9. level' \in [Nodes -> Nat] /\ level'[h] = l /\ \A n \in Nodes \ {h} : level'[n] = level[n]
    BY <1>3, <1>4, <1>7, <1>8, Zenon
  <1>10. ASSUME NEW n \in (Nodes \ Range(queue)) \union {h}, NEW d \in Deps(n)
         PROVE  level'[d] = level[d]
    BY <1>3, <1>9, Zenon
  <1>11. ASSUME NEW n \in (Nodes \ Range(queue)) \union {h} PROVE LevelRight(n)'
    <2>1. /\ \A d \in Deps(n) : level'[d] < level'[n]
          /\ level'[n] = 0 \/ \E d \in Deps(n) : level'[n] = level'[d] + 1
      <3>1. CASE n = h
        BY <1>7, <1>9, <1>10, <3>1, Zenon
      <3>2. CASE n # h
        <4>1. n \in Nodes \ Range(queue) /\ level'[n] = level[n]
          BY <1>9, <3>2, Zenon
        <4> QED BY <1>4, <1>10, <4>1, Zenon DEF LevelRight
      <3> QED BY <3>1, <3>2, Zenon
    <2> QED BY <1>0, <2>1, Zenon DEF LevelRight, Deps
  <1>12. Nodes' \ Range(queue)' \subseteq (Nodes \ Range(queue)) \union {h}
    BY <1>0, <1>1, <1>2, Zenon DEF Nodes
  <1>13. (\A n \in Nodes \ Range(queue) : LevelRight(n))'
    BY <1>11, <1>12, Zenon
  <1>14. (level \in [Nodes -> Nat])'
    BY <1>0, <1>9, Zenon DEF Nodes
  <1> QED BY <1>1, <1>13, <1>14, Zenon DEF Levelling

(* The highest level is the last wave, and there is one at least.          *)
LEMMA EndLevelStep ==
  ASSUME dag \in Dags, Ordered, Rest, Levelling, EndLevel
  PROVE  Ordered' /\ Rest' /\ Filling'
  <1>0. /\ dag' = dag /\ order' = order /\ level' = level /\ queue = <<>> /\ queue' = order
    BY Zenon DEF EndLevel
  <1>1. Ordered'
    BY <1>0, OrderedStays, Zenon
  <1>2. Range(order) = Nodes /\ Lists(order, Nodes) /\ order \in Seq(Nodes) /\ Len(order) \in Nat
    BY DEF Rest, Ordered, Lists
  <1>3. \A i \in 1..Len(order) : order[i] = order[Len(order) - Len(order) + i]
    BY <1>2
  <1>4. Rest'
    BY <1>0, <1>2, <1>3 DEF Rest, Nodes
  <1>5. level \in [Nodes -> Nat] /\ \A n \in Nodes : LevelRight(n)
    <2>1. Range(queue) = {}
      BY <1>0 DEF Range
    <2> QED BY <2>1, Zenon DEF Levelling
  <1> DEFINE S == {0} \union Range(level)
  <1>6. S \in SUBSET Nat /\ S # {} /\ \A n \in Nodes : level[n] \in S
    BY <1>5 DEF Range
  <1>7. IsFiniteSet(S)
    <2>1. IsFiniteSet({0})
      BY FS_Singleton, Zenon
    <2>2. IsFiniteSet(Range(level))
      BY <1>5, DagFacts, FiniteRange, Zenon
    <2> QED BY <2>1, <2>2, FS_Union, Zenon
  <1>8. PICK M : M = Max(S)
    BY Zenon
  <1>9. M \in Nat /\ \A n \in Nodes : level[n] <= M
    <2> HIDE DEF S
    <2>1. Max(S) \in S /\ \A y \in S : y <= Max(S)
      BY <1>6, <1>7, Largest, Zenon
    <2> QED BY <1>6, <1>8, <2>1, Zenon
  <1>10. waves' = [w \in 1..(M + 1) |-> <<>>]
    BY <1>8, Zenon DEF EndLevel
  <1> HIDE DEF S
  <1>11. waves' \in Seq(Seq(Nodes)) /\ Len(waves') = M + 1 /\ \A w \in 1..Len(waves') : waves'[w] = <<>>
    BY <1>9, <1>10
  <1>12. waves' # <<>>
    BY <1>9, <1>11
  <1>13. \A n \in Nodes : level[n] < Len(waves')
    BY <1>5, <1>9, <1>11
  <1>14. Range(queue)' = Nodes
    BY <1>0, <1>2, Zenon
  <1>15. \A w \in 1..Len(waves') :
            Range(waves'[w]) = {n \in Nodes \ Range(queue)' : level[n] + 1 = w}
    BY <1>11, <1>14 DEF Range
  <1>16. \A n \in Nodes : LevelRight(n)'
    BY <1>0, <1>5, Zenon DEF LevelRight, Deps
  <1>17. Nodes' = Nodes
    BY <1>0, Zenon DEF Nodes
  <1>18. (\A n \in Nodes : LevelRight(n) /\ level[n] < Len(waves))'
    BY <1>0, <1>13, <1>16, <1>17, Zenon
  <1>19. (\A w \in 1..Len(waves) :
             Range(waves[w]) = {n \in Nodes \ Range(queue) : level[n] + 1 = w})'
    BY <1>0, <1>15, <1>17, Zenon
  <1>20. (level \in [Nodes -> Nat] /\ waves \in Seq(Seq(Nodes)) /\ waves # <<>>)'
    BY <1>0, <1>5, <1>11, <1>12, <1>17, Zenon
  <1>21. Distinct(<<>>)
    BY DEF Distinct
  <1>22. (\A w \in 1..Len(waves) : Distinct(waves[w]))'
    BY <1>11, <1>21, Zenon DEF Distinct
  <1>23. Filling'
    BY <1>18, <1>19, <1>20, <1>22, Zenon DEF Filling
  <1> QED BY <1>1, <1>4, <1>23, Zenon

(* What an appended sequence ranges over.                                  *)
LEMMA AppendRange ==
  ASSUME NEW S, NEW s \in Seq(S), NEW x \in S
  PROVE  Append(s, x) \in Seq(S) /\ Range(Append(s, x)) = Range(s) \union {x}
  <1>1. Append(s, x) \in Seq(S)
    OBVIOUS
  <1>2. /\ Len(Append(s, x)) = Len(s) + 1 /\ Len(s) \in Nat
        /\ Append(s, x)[Len(s) + 1] = x
        /\ \A i \in 1..Len(s) : Append(s, x)[i] = s[i]
        /\ DOMAIN Append(s, x) = 1..(Len(s) + 1) /\ DOMAIN s = 1..Len(s)
    OBVIOUS
  <1>3. PICK t : t = Append(s, x)
    BY Zenon
  <1>4. 1..(Len(s) + 1) = (1..Len(s)) \union {Len(s) + 1}
    BY <1>2
  <1>5. Range(t) = Range(s) \union {x}
    BY <1>2, <1>3, <1>4 DEF Range
  <1> QED BY <1>1, <1>3, <1>5, Zenon

(* A sequence stays free of repetitions when a new element is appended.    *)
LEMMA AppendDistinct ==
  ASSUME NEW S, NEW s \in Seq(S), NEW x \in S, Distinct(s), x \notin Range(s)
  PROVE  Distinct(Append(s, x))
  <1>1. \A i \in 1..Len(s) : s[i] # x
    BY DEF Range
  <1> QED BY <1>1 DEF Distinct

(* A node goes to the wave of its level.                                   *)
LEMMA FillStep ==
  ASSUME dag \in Dags, Ordered, Rest, Filling, Fill
  PROVE  Ordered' /\ Rest' /\ Filling'
  <1>0. dag' = dag /\ order' = order /\ level' = level /\ queue # <<>> /\ queue' = Tail(queue)
    BY Zenon DEF Fill
  <1>1. Ordered' /\ Rest' /\ Range(queue)' = Range(queue) \ {Head(queue)}
    BY <1>0, OrderedStays, RestTail, Zenon
  <1>2. PICK h : h = Head(queue)
    BY Zenon
  <1>3. h \in Range(queue) /\ h \in Nodes
    BY <1>0, <1>2, RestHead, Zenon
  <1>4. /\ level \in [Nodes -> Nat] /\ waves \in Seq(Seq(Nodes)) /\ waves # <<>>
        /\ \A n \in Nodes : LevelRight(n) /\ level[n] < Len(waves)
        /\ \A w \in 1..Len(waves) :
              Range(waves[w]) = {n \in Nodes \ Range(queue) : level[n] + 1 = w}
        /\ \A w \in 1..Len(waves) : Distinct(waves[w])
    BY Zenon DEF Filling
  <1>5. PICK k : k = level[h] + 1
    BY Zenon
  <1>6. k \in 1..Len(waves)
    BY <1>3, <1>4, <1>5
  <1>7. waves' = [waves EXCEPT ![k] = Append(waves[k], h)]
    BY <1>2, <1>5, Zenon DEF Fill
  <1>8. /\ Append(waves[k], h) \in Seq(Nodes)
        /\ Range(Append(waves[k], h)) = Range(waves[k]) \union {h}
    BY <1>3, <1>4, <1>6, AppendRange
  <1>9. /\ waves' \in Seq(Seq(Nodes)) /\ Len(waves') = Len(waves)
        /\ waves'[k] = Append(waves[k], h)
        /\ \A w \in 1..Len(waves) : w # k => waves'[w] = waves[w]
    BY <1>4, <1>6, <1>7, <1>8
  <1>10. waves' # <<>>
    BY <1>4, <1>9
  <1>11. ASSUME NEW w \in 1..Len(waves)
         PROVE  Range(waves'[w]) = {n \in Nodes \ Range(queue)' : level[n] + 1 = w}
    <2>1. CASE w = k
      <3>1. Range(waves'[w]) = {n \in Nodes \ Range(queue) : level[n] + 1 = w} \union {h}
        BY <1>4, <1>8, <1>9, <2>1, Zenon
      <3> QED BY <1>1, <1>2, <1>3, <1>5, <2>1, <3>1, Zenon
    <2>2. CASE w # k
      BY <1>1, <1>2, <1>3, <1>4, <1>5, <1>9, <2>2, Zenon
    <2> QED BY <2>1, <2>2, Zenon
  <1>12. \A n \in Nodes : LevelRight(n)'
    BY <1>0, <1>4, Zenon DEF LevelRight, Deps
  <1>13. Nodes' = Nodes
    BY <1>0, Zenon DEF Nodes
  <1>14. (\A n \in Nodes : LevelRight(n) /\ level[n] < Len(waves))'
    BY <1>0, <1>4, <1>9, <1>12, <1>13, Zenon
  <1>15. (\A w \in 1..Len(waves) :
             Range(waves[w]) = {n \in Nodes \ Range(queue) : level[n] + 1 = w})'
    BY <1>0, <1>9, <1>11, <1>13, Zenon
  <1>16. (level \in [Nodes -> Nat] /\ waves \in Seq(Seq(Nodes)) /\ waves # <<>>)'
    BY <1>0, <1>4, <1>9, <1>10, <1>13, Zenon
  <1>17. ASSUME NEW w \in 1..Len(waves) PROVE Distinct(waves'[w])
    <2>1. CASE w = k
      <3>1. h \notin Range(waves[k]) /\ waves[k] \in Seq(Nodes) /\ Distinct(waves[k])
        BY <1>3, <1>4, <1>6
      <3>2. Distinct(Append(waves[k], h))
        BY <1>3, <3>1, AppendDistinct, Zenon
      <3> QED BY <1>9, <2>1, <3>2, Zenon
    <2>2. CASE w # k
      BY <1>4, <1>9, <2>2, Zenon
    <2> QED BY <2>1, <2>2, Zenon
  <1>18. (\A w \in 1..Len(waves) : Distinct(waves[w]))'
    BY <1>9, <1>17, Zenon DEF Distinct
  <1>19. Filling'
    BY <1>14, <1>15, <1>16, <1>18, Zenon DEF Filling
  <1> QED BY <1>1, <1>19, Zenon

-----------------------------------------------------------------------------
(* The barrier groups                                                      *)

(* Nothing changes the waves once they are filled.                         *)
LEMMA FillingStays ==
  ASSUME Filling, UNCHANGED <<dag, level, waves, queue>>
  PROVE  Filling'
  <1>1. \A n \in Nodes : LevelRight(n)'
    BY Zenon DEF Filling, LevelRight, Deps
  <1>2. Nodes' = Nodes
    BY Zenon DEF Nodes
  <1>3. (\A n \in Nodes : LevelRight(n) /\ level[n] < Len(waves))'
    BY <1>1, <1>2, Zenon DEF Filling
  <1>4. \A w \in 1..Len(waves) :
           Range(waves[w]) = {n \in Nodes \ Range(queue) : level[n] + 1 = w}
    BY Zenon DEF Filling
  <1>5. (\A w \in 1..Len(waves) :
             Range(waves[w]) = {n \in Nodes \ Range(queue) : level[n] + 1 = w})'
    BY <1>2, <1>4, Zenon
  <1>6. (level \in [Nodes -> Nat] /\ waves \in Seq(Seq(Nodes)) /\ waves # <<>>)'
    BY <1>2, Zenon DEF Filling
  <1>7. (\A w \in 1..Len(waves) : Distinct(waves[w]))'
    <2>1. \A w \in 1..Len(waves) : Distinct(waves[w])
      BY Zenon DEF Filling
    <2>2. waves' = waves
      BY Zenon
    <2> QED BY <2>1, <2>2, Zenon DEF Distinct
  <1> QED BY <1>3, <1>5, <1>6, <1>7, Zenon DEF Filling

(* A wave with a member of a group that is together has all its members.   *)
LEMMA MembersAll ==
  ASSUME Filling, Together, NEW g \in Groups, NEW w \in 1..Len(waves), Members(g, w) # {}
  PROVE  Members(g, w) = Party(g)
  <1>1. PICK v \in 1..Len(waves) : Party(g) \subseteq Range(waves[v])
    BY Zenon DEF Together
  <1>2. \A u \in 1..Len(waves) : \A n \in Range(waves[u]) : n \in Nodes /\ level[n] + 1 = u
    BY Zenon DEF Filling
  <1>3. PICK n \in Range(waves[w]) : n \in Party(g)
    BY <1>2, Zenon DEF Members, Party
  <1>4. v = w
    BY <1>1, <1>2, <1>3, Zenon
  <1> QED BY <1>1, <1>2, <1>4, Zenon DEF Members, Party

(* A group has a member, in one of the waves.                              *)
LEMMA GroupsHaveMembers ==
  ASSUME dag \in Dags, Filling, queue = <<>>, NEW g \in Groups
  PROVE  \E n \in Party(g) : level[n] + 1 \in 1..Len(waves) /\ n \in Members(g, level[n] + 1)
  <1>1. PICK n \in Nodes : dag.group[n] = g
    BY DagFacts, Zenon DEF Groups, Range
  <1>2. level[n] + 1 \in 1..Len(waves)
    BY DEF Filling
  <1>3. Range(queue) = {}
    BY DEF Range
  <1>4. n \in Range(waves[level[n] + 1])
    BY <1>2, <1>3, Zenon DEF Filling
  <1> QED BY <1>1, <1>2, <1>4, Zenon DEF Members, Party

(* validate_barrier_groups accepts groups that are each in one wave.       *)
LEMMA ValidateStep ==
  ASSUME dag \in Dags, Filling, Unassigned, Validate
  PROVE  /\ queue = <<>> /\ queue' = <<>> /\ Filling'
         /\ phase' = "error" \/ (phase' = "assign" /\ Assigning')
  <1>0. queue = <<>> /\ UNCHANGED <<dag, order, degree, queue, level, waves, barriers>>
    BY Zenon DEF Validate, Accept
  <1>1. Filling'
    BY <1>0, FillingStays, Zenon
  <1>2. ASSUME phase' # "error" PROVE phase' = "assign" /\ Assigning'
    <2>1. /\ \A g \in Groups : Cardinality({w \in DOMAIN waves : Members(g, w) # {}}) = 1
          /\ phase' = "assign"
      BY <1>2, Zenon DEF Validate, Accept
    <2>2. DOMAIN waves = 1..Len(waves) /\ Len(waves) \in Nat
      BY DEF Filling
    <2>3. ASSUME NEW g \in Groups PROVE \E w \in 1..Len(waves) : Party(g) \subseteq Range(waves[w])
      <3> DEFINE W == {w \in 1..Len(waves) : Members(g, w) # {}}
      <3>1. IsFiniteSet(1..Len(waves)) /\ W \in SUBSET (1..Len(waves))
        BY <2>2, FS_Interval
      <3>2. IsFiniteSet(W) /\ Cardinality(W) = 1
        <4>1. IsFiniteSet(W)
          <5> HIDE DEF W
          <5> QED BY <3>1, FS_Subset, Zenon
        <4> QED BY <2>1, <2>2, <4>1, Zenon
      <3>3. PICK w : W = {w}
        <4> HIDE DEF W
        <4> QED BY <3>2, FS_Singleton, Zenon
      <3>4. w \in 1..Len(waves)
        BY <3>3, Zenon
      <3>5. ASSUME NEW n \in Party(g) PROVE n \in Range(waves[w])
        <4>1. n \in Nodes /\ dag.group[n] = g
          BY Zenon DEF Party
        <4>2. level[n] + 1 \in 1..Len(waves)
          BY <4>1 DEF Filling
        <4>3. Range(queue) = {}
          BY <1>0 DEF Range
        <4>4. n \in Range(waves[level[n] + 1])
          BY <4>1, <4>2, <4>3, Zenon DEF Filling
        <4>5. level[n] + 1 \in W
          BY <4>1, <4>2, <4>4, Zenon DEF Members
        <4> QED BY <3>3, <4>4, <4>5, Zenon
      <3> QED BY <3>4, <3>5, Zenon
    <2>4. Together'
      BY <1>0, <2>3 DEF Together, Groups, Party, Nodes
    <2>5. barriers' = [id |-> <<>>, count |-> <<>>, reset |-> <<>>]
      BY <1>0, Zenon DEF Unassigned
    <2>6. /\ barriers'.id = <<>> /\ barriers'.count = <<>> /\ barriers'.reset = <<>>
          /\ barriers' = [id |-> barriers'.id, count |-> barriers'.count, reset |-> barriers'.reset]
      BY <2>5, Zenon
    <2>7. barriers'.reset \in Seq(SUBSET Nat) /\ Len(barriers'.reset) = 0
      BY <2>6
    <2>8. BarrierSlots(barriers.id, barriers.count, barriers.reset)'
      <3>1. DOMAIN barriers'.id = {} /\ DOMAIN barriers'.count = {}
        BY <2>6
      <3>2. IsFiniteSet({}) /\ Cardinality({}) = 0
        BY FS_EmptySet, Zenon
      <3>3. 0 <= BarrierCount
        BY DagFacts
      <3> QED BY <3>1, <3>2, <3>3, Zenon DEF BarrierSlots
    <2>9. Covered(barriers.id, Len(barriers.reset) - 1)'
      BY <2>7 DEF Covered
    <2>10. Len(barriers'.reset) <= Len(waves')
      BY <1>0, <2>2, <2>7
    <2>11. Assigning'
      BY <2>4, <2>6, <2>7, <2>8, <2>9, <2>10, Zenon DEF Assigning
    <2> QED BY <2>1, <2>11, Zenon
  <1> QED BY <1>0, <1>1, <1>2, Zenon

(* The definitions that the assignment of barriers leaves alone.           *)
LEMMA SameWaves ==
  ASSUME dag' = dag, waves' = waves, Together
  PROVE  /\ Together' /\ Groups' = Groups
         /\ \A g, w : Members(g, w)' = Members(g, w)
         /\ \A I, C, R : BarrierSlots(I, C, R)' <=> BarrierSlots(I, C, R)
         /\ \A I, v : Covered(I, v)' <=> Covered(I, v)
  BY DEF Together, Groups, Members, BarrierSlots, Covered, Party, Nodes

(* The next barrier goes to a group of the wave.                           *)
LEMMA SlotsInsert ==
  ASSUME dag \in Dags, Filling, Together, NEW I, NEW C, NEW R, BarrierSlots(I, C, R),
         R \in Seq(SUBSET Nat), Len(R) > 0, Len(R) <= Len(waves),
         NEW g \in Groups, g \notin DOMAIN I, Members(g, Len(R)) # {},
         NEW k, k = Cardinality(DOMAIN I), k < BarrierCount,
         NEW Q, Q = [R EXCEPT ![Len(R)] = R[Len(R)] \union {k}]
  PROVE  /\ BarrierSlots(Insert(I, g, k), Insert(C, g, Cardinality(Members(g, Len(R)))), Q)
         /\ Q \in Seq(SUBSET Nat) /\ Len(Q) = Len(R)
  <1>1. PICK J : J = Insert(I, g, k)
    BY Zenon
  <1>2. PICK E : E = Insert(C, g, Cardinality(Members(g, Len(R))))
    BY Zenon
  <1>3. /\ DOMAIN C = DOMAIN I /\ IsFiniteSet(DOMAIN I)
        /\ \A h \in DOMAIN I : /\ h \in Groups /\ I[h] \in 0..(k - 1)
                               /\ C[h] = Cardinality(Party(h))
                               /\ \E w \in 1..Len(R) : Party(h) \subseteq Range(waves[w]) /\ I[h] \in R[w]
        /\ \A h, j \in DOMAIN I : I[h] = I[j] => h = j
    BY Zenon DEF BarrierSlots
  <1>4. k \in Nat /\ BarrierCount \in Nat /\ Len(R) \in Nat /\ Len(waves) \in Nat
    BY <1>3, FS_CardinalityType, DagFacts DEF Filling
  <1>5. Len(R) \in 1..Len(waves) /\ Len(R) \in 1..Len(R)
    BY <1>4
  <1>6. Members(g, Len(R)) = Party(g) /\ Party(g) \subseteq Range(waves[Len(R)])
    <2>1. Members(g, Len(R)) = Party(g)
      BY <1>5, MembersAll, Zenon
    <2> QED BY <2>1, Zenon DEF Members
  <1>7. /\ DOMAIN J = DOMAIN I \union {g} /\ J[g] = k /\ \A h \in DOMAIN I : J[h] = I[h]
        /\ DOMAIN E = DOMAIN I \union {g} /\ E[g] = Cardinality(Party(g))
        /\ \A h \in DOMAIN I : E[h] = C[h]
    BY <1>1, <1>2, <1>3, <1>6, Zenon DEF Insert
  <1>8. IsFiniteSet(DOMAIN J) /\ Cardinality(DOMAIN J) = k + 1
    BY <1>3, <1>7, FS_AddElement
  <1>9. /\ Q \in Seq(SUBSET Nat) /\ Len(Q) = Len(R)
        /\ k \in Q[Len(R)] /\ \A w \in 1..Len(R) : R[w] \subseteq Q[w]
    BY <1>4, <1>5
  <1>10. Cardinality(DOMAIN J) <= BarrierCount
    BY <1>4, <1>8
  <1>11. ASSUME NEW h \in DOMAIN J
         PROVE  /\ h \in Groups /\ J[h] \in 0..k /\ E[h] = Cardinality(Party(h))
                /\ \E w \in 1..Len(Q) : Party(h) \subseteq Range(waves[w]) /\ J[h] \in Q[w]
    <2>1. CASE h = g
      <3>1. Party(h) \subseteq Range(waves[Len(R)]) /\ J[h] \in Q[Len(R)] /\ Len(R) \in 1..Len(Q)
        BY <1>5, <1>6, <1>7, <1>9, <2>1, Zenon
      <3>2. J[h] \in 0..k
        BY <1>4, <1>7, <2>1
      <3> QED BY <1>7, <2>1, <3>1, <3>2, Zenon
    <2>2. CASE h \in DOMAIN I
      <3>1. PICK w \in 1..Len(R) : Party(h) \subseteq Range(waves[w]) /\ I[h] \in R[w]
        BY <1>3, <2>2, Zenon
      <3>2. w \in 1..Len(Q) /\ Party(h) \subseteq Range(waves[w]) /\ J[h] \in Q[w]
        BY <1>7, <1>9, <2>2, <3>1, Zenon
      <3>3. J[h] \in 0..k
        BY <1>3, <1>4, <1>7, <2>2
      <3> QED BY <1>3, <1>7, <2>2, <3>2, <3>3, Zenon
    <2> QED BY <1>7, <2>1, <2>2, Zenon
  <1>12. ASSUME NEW h \in DOMAIN J, NEW j \in DOMAIN J, J[h] = J[j] PROVE h = j
    <2>1. \A i \in DOMAIN I : J[i] # k
      BY <1>3, <1>4, <1>7
    <2> QED BY <1>3, <1>7, <1>12, <2>1, Zenon
  <1>13. Cardinality(DOMAIN J) - 1 = k
    BY <1>4, <1>8
  <1>14. BarrierSlots(J, E, Q)
    BY <1>7, <1>8, <1>10, <1>11, <1>12, <1>13, Zenon DEF BarrierSlots
  <1> QED BY <1>1, <1>2, <1>9, <1>14, Zenon

(* A step of the assignment that gives a barrier, or finds none left.      *)
LEMMA AssignStep ==
  ASSUME dag \in Dags, Filling, Assigning, NEW g \in Groups, AssignBarrier(g)
  PROVE  /\ UNCHANGED <<dag, queue, level, waves>>
         /\ phase' = "error" \/ (phase' = phase /\ Assigning')
  <1>0. UNCHANGED <<dag, queue, level, waves>>
    BY Zenon DEF AssignBarrier
  <1>1. PICK I, C, R, k :
           I = barriers.id /\ C = barriers.count /\ R = barriers.reset /\ k = Cardinality(DOMAIN I)
    BY Zenon
  <1>2. /\ Together /\ BarrierSlots(I, C, R) /\ Covered(I, Len(R) - 1)
        /\ R \in Seq(SUBSET Nat) /\ Len(R) <= Len(waves)
    BY <1>1, Zenon DEF Assigning
  <1>3. Len(R) > 0 /\ Members(g, Len(R)) # {} /\ g \notin DOMAIN I
    BY <1>1, Zenon DEF AssignBarrier
  <1>4. CASE k >= BarrierCount
    BY <1>0, <1>1, <1>4, Zenon DEF AssignBarrier
  <1>5. CASE ~ (k >= BarrierCount)
    <2>1. PICK J, E, Q : /\ J = Insert(I, g, k)
                         /\ E = Insert(C, g, Cardinality(Members(g, Len(R))))
                         /\ Q = [R EXCEPT ![Len(R)] = R[Len(R)] \union {k}]
      BY Zenon
    <2>2. barriers' = [id |-> J, count |-> E, reset |-> Q] /\ phase' = phase
      BY <1>1, <1>5, <2>1, Zenon DEF AssignBarrier
    <2>3. k < BarrierCount
      <3>1. k \in Nat /\ BarrierCount \in Nat
        BY <1>1, <1>2, FS_CardinalityType, DagFacts, Zenon DEF BarrierSlots
      <3> QED BY <1>5, <3>1
    <2>4. BarrierSlots(J, E, Q) /\ Q \in Seq(SUBSET Nat) /\ Len(Q) = Len(R)
      BY <1>1, <1>2, <1>3, <2>1, <2>3, SlotsInsert
    <2>5. Covered(J, Len(Q) - 1)
      <3>1. DOMAIN I \subseteq DOMAIN J
        BY <2>1, Zenon DEF Insert
      <3> QED BY <1>2, <2>4, <3>1, Zenon DEF Covered
    <2>6. barriers'.id = J /\ barriers'.count = E /\ barriers'.reset = Q
      BY <2>2, Zenon
    <2>7. Together'
      BY <1>0, <1>2, SameWaves, Zenon
    <2>8. BarrierSlots(barriers.id, barriers.count, barriers.reset)'
      BY <1>0, <2>4, <2>6 DEF BarrierSlots, Groups, Party, Nodes
    <2>9. Covered(barriers.id, Len(barriers.reset) - 1)'
      BY <1>0, <2>5, <2>6, Zenon DEF Covered, Groups, Members
    <2>10. Len(barriers'.reset) <= Len(waves') /\ barriers'.reset \in Seq(SUBSET Nat)
      BY <1>0, <1>2, <2>4, <2>6, Zenon
    <2>11. Assigning'
      BY <2>2, <2>6, <2>7, <2>8, <2>9, <2>10, Zenon DEF Assigning
    <2> QED BY <1>0, <2>2, <2>11, Zenon
  <1> QED BY <1>4, <1>5, Zenon

(* On to the next wave when the groups of this one have barriers.          *)
LEMMA NextWaveStep ==
  ASSUME dag \in Dags, Filling, queue = <<>>, Assigning, NextWaveGroups
  PROVE  /\ UNCHANGED <<dag, queue, level, waves>> /\ Assigning'
         /\ phase' = phase \/ (phase' = "ready" /\ Groups' \subseteq DOMAIN barriers'.id)
  <1>0. UNCHANGED <<dag, queue, level, waves>>
    BY Zenon DEF NextWaveGroups
  <1>1. PICK I, C, R : I = barriers.id /\ C = barriers.count /\ R = barriers.reset
    BY Zenon
  <1>2. /\ Together /\ BarrierSlots(I, C, R) /\ Covered(I, Len(R) - 1)
        /\ R \in Seq(SUBSET Nat) /\ Len(R) <= Len(waves)
        /\ barriers = [id |-> I, count |-> C, reset |-> R]
    BY <1>1, Zenon DEF Assigning
  <1>3. Len(R) \in Nat /\ Len(waves) \in Nat
    BY <1>2 DEF Filling
  <1>4. Covered(I, Len(R))
    <2> SUFFICES ASSUME NEW w \in 1..Len(R), NEW g \in Groups, Members(g, w) # {}
                 PROVE  g \in DOMAIN I
      BY Zenon DEF Covered
    <2>1. CASE w = Len(R)
      <3>1. Len(R) > 0 => \A h \in Groups : Members(h, Len(R)) # {} => h \in DOMAIN I
        BY <1>1, Zenon DEF NextWaveGroups
      <3> QED BY <1>3, <2>1, <3>1
    <2>2. CASE w # Len(R)
      <3>1. w \in 1..(Len(R) - 1)
        BY <1>3, <2>2
      <3> QED BY <1>2, <3>1, Zenon DEF Covered
    <2> QED BY <2>1, <2>2, Zenon
  <1>5. Together'
    BY <1>0, <1>2, SameWaves, Zenon
  <1>6. CASE Len(R) < Len(waves)
    <2>1. PICK Q : Q = Append(R, {})
      BY Zenon
    <2>2. barriers' = [id |-> I, count |-> C, reset |-> Q] /\ phase' = phase
      BY <1>1, <1>2, <1>6, <2>1, Zenon DEF NextWaveGroups
    <2>3. /\ Q \in Seq(SUBSET Nat) /\ Len(Q) = Len(R) + 1
          /\ \A w \in 1..Len(R) : Q[w] = R[w] /\ w \in 1..Len(Q)
      BY <1>2, <2>1
    <2>4. BarrierSlots(I, C, Q)
      <3>1. \A g \in DOMAIN I : \E w \in 1..Len(Q) :
               Party(g) \subseteq Range(waves[w]) /\ I[g] \in Q[w]
        BY <1>2, <2>3, Zenon DEF BarrierSlots
      <3> QED BY <1>2, <3>1, Zenon DEF BarrierSlots
    <2>5. Covered(I, Len(Q) - 1)
      <3>1. Len(Q) - 1 = Len(R)
        BY <1>3, <2>3
      <3> QED BY <1>4, <3>1, Zenon
    <2>6. barriers'.id = I /\ barriers'.count = C /\ barriers'.reset = Q
      BY <2>2, Zenon
    <2>7. BarrierSlots(barriers.id, barriers.count, barriers.reset)'
      BY <1>0, <2>4, <2>6 DEF BarrierSlots, Groups, Party, Nodes
    <2>8. Covered(barriers.id, Len(barriers.reset) - 1)'
      BY <1>0, <2>5, <2>6, Zenon DEF Covered, Groups, Members
    <2>9. Len(barriers'.reset) <= Len(waves') /\ barriers'.reset \in Seq(SUBSET Nat)
      BY <1>0, <1>3, <1>6, <2>3, <2>6
    <2>10. Assigning'
      BY <1>5, <2>2, <2>6, <2>7, <2>8, <2>9, Zenon DEF Assigning
    <2> QED BY <1>0, <2>2, <2>10, Zenon
  <1>7. CASE ~ (Len(R) < Len(waves))
    <2>1. phase' = "ready" /\ barriers' = barriers
      BY <1>1, <1>7, Zenon DEF NextWaveGroups
    <2>2. Len(R) = Len(waves)
      BY <1>2, <1>3, <1>7
    <2>3. ASSUME NEW g \in Groups PROVE g \in DOMAIN I
      <3>1. PICK n \in Party(g) : level[n] + 1 \in 1..Len(waves) /\ n \in Members(g, level[n] + 1)
        BY GroupsHaveMembers, Zenon
      <3> QED BY <1>4, <2>2, <3>1, Zenon DEF Covered
    <2>4. BarrierSlots(barriers.id, barriers.count, barriers.reset)'
      BY <1>0, <1>1, <1>2, <2>1 DEF BarrierSlots, Groups, Party, Nodes
    <2>5. Covered(barriers.id, Len(barriers.reset) - 1)'
      BY <1>0, <1>1, <1>2, <2>1, Zenon DEF Covered, Groups, Members
    <2>6. Assigning'
      BY <1>0, <1>5, <2>1, <2>4, <2>5, Zenon DEF Assigning
    <2>7. Groups' \subseteq DOMAIN barriers'.id
      BY <1>0, <1>1, <2>1, <2>3, Zenon DEF Groups
    <2> QED BY <1>0, <2>1, <2>6, <2>7, Zenon
  <1> QED BY <1>6, <1>7, Zenon

-----------------------------------------------------------------------------
(* The planning as a whole                                                 *)

(* topo_sort starts with the nodes that wait for nothing.                  *)
LEMMA InitInv ==
  ASSUME PlanInit
  PROVE  PlanInv
  <1>1. /\ dag \in Dags /\ phase = "sort" /\ order = <<>> /\ waves = <<>> /\ Unassigned
        /\ level = [n \in Nodes |-> 0]
    BY Zenon DEF PlanInit, Unassigned
  <1>2. Range(order) = {} /\ Lists(order, {}) /\ Len(order) = 0
    BY <1>1, ListsEmpty DEF Range
  <1>3. Ordered
    BY <1>2 DEF Ordered
  <1>4. Free({}) = {n \in Nodes : Deps(n) = {}}
    BY Zenon DEF Free
  <1>5. Free({}) \in SUBSET Nat /\ IsFiniteSet(Free({}))
    BY <1>1, <1>4, DagFacts, FS_Subset, Zenon
  <1>6. Lists(queue, Free({}))
    BY <1>4, <1>5, AscendingLists, Zenon DEF PlanInit
  <1>7. degree = [n \in Nodes |-> Cardinality(Deps(n) \ {})]
    <2>1. \A n \in Nodes : Deps(n) \ {} = Deps(n)
      BY Zenon
    <2> QED BY <2>1, Zenon DEF PlanInit
  <1>8. Sorting
    BY <1>2, <1>6, <1>7, Zenon DEF Sorting
  <1> QED BY <1>1, <1>3, <1>8, Zenon DEF PlanInv

(* Stuttering steps.                                                       *)
LEMMA StutterInv ==
  ASSUME PlanInv, UNCHANGED planVars
  PROVE  PlanInv'
  <1> USE DEF planVars
  <1>1. (Ordered => Ordered') /\ (Filling => Filling')
    BY OrderedStays, FillingStays, Zenon
  <1>2. Sorting => Sorting'
    BY Zenon DEF Sorting, Free, Nodes, Deps
  <1>3. Rest => Rest'
    BY Zenon DEF Rest, Nodes
  <1>4. Levelling => Levelling'
    BY Zenon DEF Levelling, LevelRight, Nodes, Deps
  <1>5. Assigning => Assigning'
    <2> SUFFICES ASSUME Assigning PROVE Assigning'
      BY Zenon
    <2>1. Together'
      BY SameWaves, Zenon DEF Assigning
    <2>2. BarrierSlots(barriers.id, barriers.count, barriers.reset)'
      BY DEF Assigning, BarrierSlots, Groups, Party, Nodes
    <2>3. Covered(barriers.id, Len(barriers.reset) - 1)'
      BY Zenon DEF Assigning, Covered, Groups, Members
    <2> QED BY <2>1, <2>2, <2>3, Zenon DEF Assigning
  <1>6. (Unassigned => Unassigned') /\ Groups' = Groups /\ Cyclic' = Cyclic /\ Nodes' = Nodes
    BY SameDag, Zenon DEF Unassigned
  <1> QED BY <1>1, <1>2, <1>3, <1>4, <1>5, <1>6, Zenon DEF PlanInv

(* Every step of the planning keeps the invariant.                         *)
LEMMA StepInv ==
  ASSUME PlanInv, [PlanNext]_planVars
  PROVE  PlanInv'
  <1>0. dag \in Dags
    BY Zenon DEF PlanInv
  <1>1. CASE Sort
    <2>1. /\ phase = "sort" /\ UNCHANGED <<dag, phase, level, waves, barriers>>
      BY <1>1, Zenon DEF Sort
    <2>2. waves = <<>> /\ Unassigned /\ Ordered /\ Sorting /\ level = [n \in Nodes |-> 0]
      BY <2>1, Zenon DEF PlanInv
    <2>3. Ordered' /\ Sorting'
      BY <1>0, <1>1, <2>2, SortStep, Zenon
    <2>4. Unassigned' /\ (level = [n \in Nodes |-> 0])'
      BY <2>1, <2>2, Zenon DEF Unassigned, Nodes
    <2> QED BY <1>0, <2>1, <2>2, <2>3, <2>4, Zenon DEF PlanInv
  <1>2. CASE EndSort
    <2>1. phase = "sort" /\ UNCHANGED <<dag, waves, barriers>>
      BY <1>2, Zenon DEF EndSort
    <2>2. waves = <<>> /\ Unassigned /\ Ordered /\ Sorting /\ level = [n \in Nodes |-> 0]
      BY <2>1, Zenon DEF PlanInv
    <2>3. \/ phase' = "error" /\ Cyclic
          \/ phase' = "level" /\ Ordered' /\ Rest' /\ Levelling'
      BY <1>0, <1>2, <2>2, EndSortStep, Zenon
    <2>4. Unassigned' /\ Cyclic' = Cyclic
      BY <2>1, <2>2, SameDag, Zenon DEF Unassigned
    <2> QED BY <1>0, <2>1, <2>2, <2>3, <2>4, Zenon DEF PlanInv
  <1>3. CASE Level
    <2>1. phase = "level" /\ UNCHANGED <<dag, phase, waves, barriers>>
      BY <1>3, Zenon DEF Level, SetLevel
    <2>2. waves = <<>> /\ Unassigned /\ Ordered /\ Rest /\ Levelling
      BY <2>1, Zenon DEF PlanInv
    <2>3. Ordered' /\ Rest' /\ Levelling' /\ Unassigned'
      BY <1>0, <1>3, <2>1, <2>2, LevelStep, Zenon DEF Unassigned
    <2> QED BY <1>0, <2>1, <2>2, <2>3, Zenon DEF PlanInv
  <1>4. CASE EndLevel
    <2>1. phase = "level" /\ phase' = "fill" /\ UNCHANGED <<dag, barriers>>
      BY <1>4, Zenon DEF EndLevel
    <2>2. Unassigned /\ Ordered /\ Rest /\ Levelling
      BY <2>1, Zenon DEF PlanInv
    <2>3. Ordered' /\ Rest' /\ Filling' /\ Unassigned'
      BY <1>0, <1>4, <2>1, <2>2, EndLevelStep, Zenon DEF Unassigned
    <2> QED BY <1>0, <2>1, <2>3, Zenon DEF PlanInv
  <1>5. CASE Fill
    <2>1. phase = "fill" /\ UNCHANGED <<dag, phase, barriers>>
      BY <1>5, Zenon DEF Fill
    <2>2. Unassigned /\ Ordered /\ Rest /\ Filling
      BY <2>1, Zenon DEF PlanInv
    <2>3. Ordered' /\ Rest' /\ Filling' /\ Unassigned'
      BY <1>0, <1>5, <2>1, <2>2, FillStep, Zenon DEF Unassigned
    <2> QED BY <1>0, <2>1, <2>3, Zenon DEF PlanInv
  <1>6. CASE Validate
    <2>1. phase = "fill" /\ UNCHANGED dag
      BY <1>6, Zenon DEF Validate, Accept
    <2>2. Unassigned /\ Filling
      BY <2>1, Zenon DEF PlanInv
    <2>3. /\ queue' = <<>> /\ Filling'
          /\ phase' = "error" \/ (phase' = "assign" /\ Assigning')
      BY <1>0, <1>6, <2>2, ValidateStep, Zenon
    <2> QED BY <1>0, <2>1, <2>3, Zenon DEF PlanInv
  <1>7. ASSUME NEW g \in Groups, AssignBarrier(g) PROVE PlanInv'
    <2>1. phase = "assign"
      BY <1>7, Zenon DEF AssignBarrier
    <2>2. queue = <<>> /\ Filling /\ Assigning
      BY <2>1, Zenon DEF PlanInv
    <2>3. /\ UNCHANGED <<dag, queue, level, waves>>
          /\ phase' = "error" \/ (phase' = phase /\ Assigning')
      BY <1>0, <1>7, <2>2, AssignStep, Zenon
    <2>4. Filling'
      BY <2>2, <2>3, FillingStays, Zenon
    <2> QED BY <1>0, <2>1, <2>2, <2>3, <2>4, Zenon DEF PlanInv
  <1>8. CASE NextWaveGroups
    <2>1. phase = "assign"
      BY <1>8, Zenon DEF NextWaveGroups
    <2>2. queue = <<>> /\ Filling /\ Assigning
      BY <2>1, Zenon DEF PlanInv
    <2>3. /\ UNCHANGED <<dag, queue, level, waves>> /\ Assigning'
          /\ phase' = phase \/ (phase' = "ready" /\ Groups' \subseteq DOMAIN barriers'.id)
      BY <1>0, <1>8, <2>2, NextWaveStep, Zenon
    <2>4. Filling'
      BY <2>2, <2>3, FillingStays, Zenon
    <2> QED BY <1>0, <2>1, <2>2, <2>3, <2>4, Zenon DEF PlanInv
  <1>9. CASE UNCHANGED planVars
    BY <1>9, StutterInv, Zenon
  <1> QED BY <1>1, <1>2, <1>3, <1>4, <1>5, <1>6, <1>7, <1>8, <1>9, Zenon DEF PlanNext

(* For every DAG: topo_sort refuses it only if it has a cycle; if it does  *)
(* not, every node comes once, after all that it depends on, however far,  *)
(* and no later than it must; and if the barrier groups are accepted each  *)
(* has a barrier of its own that counts its members, in the one wave they  *)
(* are in.                                                                 *)
THEOREM EveryPlanRight == PlanSpec => []PlanRight
  <1>1. PlanInit => PlanInv
    BY InitInv, Zenon
  <1>2. PlanInv /\ [PlanNext]_planVars => PlanInv'
    BY StepInv, Zenon
  <1>3. PlanInv => PlanRight
    BY InvRight, Zenon
  <1> QED BY <1>1, <1>2, <1>3, PTL DEF PlanSpec

-----------------------------------------------------------------------------
(* A runner that takes the plan wave by wave: the invariant                *)

(* The nodes of the waves before w, and of wave w.                         *)
Earlier(w) == {n \in Nodes : level[n] + 1 < w}
Current(w) == {n \in Nodes : level[n] + 1 = w}

(* Threads whose join waits for a consumer.                                *)
Late(n) == HasConsumer(n) \/ Kind(n) = "Prefetch"

(* Threads of the waves whose nodes are B, all of which have been started; *)
(* the waves whose nodes are O have been joined.  W has the threads that   *)
(* are still to be joined.  A prefetch that nobody waits for may fail.     *)
Threads(B, O, st, W) ==
    \A n \in Nodes :
        /\ ~ Concurrent(n) \/ n \notin B => st[n] = "none"
        /\ n \in W => Late(n) /\ st[n] # "none"
        /\ n \in O /\ Concurrent(n) =>
              \/ st[n] = "ended"
              \/ Late(n) /\ n \in W
              \/ Kind(n) = "Prefetch" /\ Users(n) = {} /\ st[n] = "failed"
        /\ n \in B => Deps(n) \intersect W = {}

(* The host nodes td of wave w are still to be executed.                   *)
Serving(w, td, st, pf) ==
    /\ td \in Seq({n \in Current(w) : IsSerial(n)})
    /\ \A n \in Current(w) :
         /\ ~ IsSerial(n) => st[n] # "none"
         /\ Kind(n) = "Prefetch" => n \in pf \/ n \in Range(td)

(* The guests and threads td of wave w are still to be joined.             *)
Joining(w, td, st, W) ==
    /\ td \in Seq({n \in Current(w) : ~ IsSerial(n)})
    /\ \A n \in Current(w) : Concurrent(n) =>
         /\ st[n] # "none"
         /\ Late(n) => n \in W
         /\ ~ Late(n) => n \in Range(td) \/ st[n] = "ended"

(* What the guests and threads are at in each step of run_dag.             *)
At(stp, w, td, st, pf, pd) ==
    /\ stp \in {"begin", "load", "done"} =>
         pf \union pd = {} /\ \A n \in Nodes : st[n] \notin {"running", "read"}
    /\ stp = "load" => \A n \in Nodes : st[n] = "none"
    /\ stp = "prejoin" =>
         /\ Threads(Earlier(w), Earlier(w), st, pf \union pd)
         /\ Lists(td, (pf \union pd) \intersect Needed(w))
    /\ stp = "serial" =>
         /\ Threads(Earlier(w) \union Current(w), Earlier(w), st, pf \union pd)
         /\ Serving(w, td, st, pf)
    /\ stp = "join" =>
         /\ Threads(Earlier(w) \union Current(w), Earlier(w), st, pf \union pd)
         /\ Joining(w, td, st, pf \union pd)
    /\ stp = "reclaim" =>
         Threads(Earlier(w) \union Current(w), Earlier(w) \union Current(w), st, pf \union pd)
    /\ stp = "drain" =>
         Threads(Nodes, Nodes, st, pf) /\ Lists(td, pf) /\ pd = {}

(* The nodes that are still to be reclaimed in this run.                   *)
Left(stp, w, td) ==
    IF stp = "load" THEN Nodes
    ELSE IF stp = "reclaim" THEN (Nodes \ (Earlier(w) \union Current(w))) \union Range(td)
    ELSE Nodes \ Earlier(w)

(* The counters count the nodes of L that own a slot, or use an input or a *)
(* receive.                                                                *)
Exact(L, rc, il, rl) ==
    /\ \A s \in Slots : rc[s] = Cardinality({n \in L : s \in OwnedSlots(n)})
    /\ \A d \in DOMAIN il : il[d] = Cardinality({n \in L : d \in Deps(n)})
    /\ \A d \in DOMAIN rl : rl[d] = Cardinality({n \in L : d \in Deps(n)})

Counting(stp, w, td, rc, il, rl) ==
    /\ stp \in {"load", "prejoin", "serial", "join", "reclaim"} => Exact(Left(stp, w, td), rc, il, rl)
    /\ stp = "reclaim" => Distinct(td) /\ Range(td) \subseteq Current(w)

ThreadStates == {"none", "running", "read", "ended", "failed"}
Steps == {"begin", "load", "prejoin", "serial", "join", "reclaim", "drain", "done", "error"}
Looping == {"prejoin", "serial", "join", "reclaim", "drain"}

Typed(stp, r, td, w, st, pf, pd) ==
    /\ stp \in Steps /\ r \in Nat /\ td \in Seq(Nodes)
    /\ w \in 0..Len(waves) /\ (stp \in Looping => w \in 1..Len(waves))
    /\ phase # "ready" => stp = "begin" /\ w = 0
    /\ st \in [Nodes -> ThreadStates]
    /\ pf \subseteq {n \in Nodes : Kind(n) = "Prefetch"}
    /\ pd \subseteq {n \in Nodes : HasConsumer(n)}

Counted(rc, il, rl) ==
    /\ rc \in [Slots -> Nat]
    /\ il \in [{n \in Nodes : IsInput(n)} -> Nat]
    /\ rl \in [{n \in Nodes : Kind(n) = "Recv" /\ \A s \in Outs(n) : s[1] = "io"} -> Nat]

-----------------------------------------------------------------------------
(* The waves of a plan that is ready                                       *)

(* A plan that was accepted.                                              *)
Ready == dag \in Dags /\ queue = <<>> /\ Filling

(* A plan that is accepted has its waves filled.                           *)
LEMMA PlanReady ==
  ASSUME PlanInv, phase = "ready"
  PROVE  Ready
  BY Zenon DEF PlanInv, Ready

(* Wave after wave every node comes, after what it depends on.             *)
LEMMA WaveFacts ==
  ASSUME Ready, NEW w \in 1..Len(waves)
  PROVE  /\ waves[w] \in Seq(Nodes) /\ Distinct(waves[w]) /\ Range(waves[w]) = Current(w)
         /\ Earlier(1) = {}
         /\ Earlier(w + 1) = Earlier(w) \union Current(w)
         /\ Earlier(w) \intersect Current(w) = {}
         /\ w = Len(waves) => Earlier(w) \union Current(w) = Nodes
         /\ Len(waves) \in Nat
  <1>1. /\ level \in [Nodes -> Nat] /\ waves \in Seq(Seq(Nodes)) /\ Len(waves) \in Nat
        /\ \A n \in Nodes : level[n] < Len(waves)
        /\ Range(waves[w]) = {n \in Nodes \ Range(queue) : level[n] + 1 = w}
        /\ Distinct(waves[w])
    <2>1. waves \in Seq(Seq(Nodes))
      BY Zenon DEF Ready, Filling
    <2>2. Len(waves) \in Nat
      BY <2>1
    <2> QED BY <2>1, <2>2, Zenon DEF Ready, Filling
  <1>2. Range(queue) = {}
    BY DEF Ready, Range
  <1>3. waves[w] \in Seq(Nodes)
    BY <1>1
  <1>4. Range(waves[w]) = Current(w)
    BY <1>1, <1>2, Zenon DEF Current
  <1>5. Earlier(1) = {}
    BY <1>1 DEF Earlier
  <1>6. Earlier(w + 1) = Earlier(w) \union Current(w)
    <2>1. \A n \in Nodes : level[n] + 1 < w + 1 <=> level[n] + 1 < w \/ level[n] + 1 = w
      BY <1>1
    <2> QED BY <2>1, Zenon DEF Earlier, Current
  <1>7. Earlier(w) \intersect Current(w) = {}
    <2>1. \A n \in Nodes : ~ (level[n] + 1 < w /\ level[n] + 1 = w)
      BY <1>1
    <2> QED BY <2>1, Zenon DEF Earlier, Current
  <1>8. ASSUME w = Len(waves) PROVE Earlier(w) \union Current(w) = Nodes
    <2>1. \A n \in Nodes : level[n] + 1 < w \/ level[n] + 1 = w
      BY <1>1, <1>8
    <2>2. \A n \in Nodes : n \in Earlier(w) \/ n \in Current(w)
      BY <2>1, Zenon DEF Earlier, Current
    <2>3. \A n : n \in Earlier(w) \/ n \in Current(w) => n \in Nodes
      BY Zenon DEF Earlier, Current
    <2> QED BY <2>2, <2>3, Zenon
  <1> QED BY <1>1, <1>3, <1>4, <1>5, <1>6, <1>7, <1>8, Zenon

(* A dependency is in a wave before.                                       *)
LEMMA DepsEarlier ==
  ASSUME Ready, NEW w \in 1..Len(waves), NEW n \in Earlier(w) \union Current(w), NEW d \in Deps(n)
  PROVE  d \in Earlier(w) /\ d \notin Current(w) /\ n \in Users(d) /\ n \in Nodes /\ d \in Nodes
  <1>1. n \in Nodes /\ (level[n] + 1 < w \/ level[n] + 1 = w)
    BY Zenon DEF Earlier, Current
  <1>2. level \in [Nodes -> Nat] /\ waves \in Seq(Seq(Nodes)) /\ LevelRight(n)
    BY <1>1, Zenon DEF Ready, Filling
  <1>3. d \in Nodes
    BY <1>1, DagFacts, Zenon DEF Ready
  <1>4. level[d] < level[n] /\ level[d] \in Nat /\ level[n] \in Nat
    BY <1>1, <1>2, <1>3, Zenon DEF LevelRight
  <1>5. w \in Nat
    BY <1>2
  <1>6. level[d] + 1 < w /\ level[d] + 1 # w
    BY <1>1, <1>4, <1>5
  <1> QED BY <1>1, <1>3, <1>6, Zenon DEF Earlier, Current, Users

(* The nodes of a wave that are in S.                                      *)
LEMMA InWaveLists ==
  ASSUME Ready, NEW w \in 1..Len(waves), NEW S
  PROVE  InWave(w, S) \in Seq(Current(w) \intersect S) /\ Range(InWave(w, S)) = Current(w) \intersect S
  <1>1. PICK u : u = waves[w]
    BY Zenon
  <1>2. u \in Seq(Nodes) /\ Range(u) = Current(w)
    BY <1>1, WaveFacts, Zenon
  <1>3. Len(u) \in Nat /\ DOMAIN u = 1..Len(u)
    BY <1>2
  <1>4. PICK I : I = {i \in DOMAIN u : u[i] \in S}
    BY Zenon
  <1>5. PICK r : r = Ascending(I)
    BY Zenon
  <1>6. Lists(r, I)
    <2>1. I \in SUBSET (1..Len(u)) /\ I \in SUBSET Nat
      BY <1>3, <1>4
    <2>2. 1 \in Int /\ Len(u) \in Int
      BY <1>3
    <2>3. IsFiniteSet(1..Len(u))
      BY <2>2, FS_Interval, Zenon
    <2>4. IsFiniteSet(I)
      BY <2>1, <2>3, FS_Subset, Zenon
    <2> QED BY <1>5, <2>1, <2>4, AscendingLists, Zenon
  <1>7. PICK t : t = InWave(w, S)
    BY Zenon
  <1>8. t = [k \in DOMAIN r |-> u[r[k]]]
    BY <1>1, <1>4, <1>5, <1>7, Zenon DEF InWave
  <1>9. /\ Len(r) \in Nat /\ DOMAIN r = 1..Len(r) /\ \A k \in DOMAIN r : r[k] \in I
        /\ \A i \in I : \E k \in DOMAIN r : r[k] = i
    <2>1. r \in Seq(I) /\ \A i \in I : \E k \in 1..Len(r) : r[k] = i
      BY <1>6, Zenon DEF Lists
    <2>2. Len(r) \in Nat /\ DOMAIN r = 1..Len(r) /\ \A k \in DOMAIN r : r[k] \in I
      BY <2>1
    <2> QED BY <2>1, <2>2, Zenon
  <1>10. \A i \in I : u[i] \in Current(w) \intersect S
    BY <1>2, <1>4, Zenon DEF Range
  <1>11. \A x \in Current(w) \intersect S : \E i \in I : u[i] = x
    BY <1>2, <1>4, Zenon DEF Range
  <1>12. Range(t) = Current(w) \intersect S
    BY <1>8, <1>9, <1>10, <1>11, Zenon DEF Range
  <1>13. t \in [1..Len(r) -> Current(w) \intersect S]
    BY <1>8, <1>9, <1>10, Zenon
  <1>14. t \in Seq(Current(w) \intersect S)
    BY <1>9, <1>13
  <1> QED BY <1>7, <1>12, <1>14, Zenon

(* The head of a sequence, and the rest.                                   *)
LEMMA TakeHead ==
  ASSUME NEW S, NEW s \in Seq(S), s # <<>>
  PROVE  /\ Head(s) \in S /\ Head(s) \in Range(s) /\ Tail(s) \in Seq(S)
         /\ Range(s) = Range(Tail(s)) \union {Head(s)}
  <1>1. PICK t, h : t = Tail(s) /\ h = Head(s)
    BY Zenon
  <1>2. /\ Len(s) \in Nat /\ Len(s) > 0 /\ DOMAIN s = 1..Len(s) /\ h = s[1] /\ h \in S
        /\ t \in Seq(S) /\ Len(t) = Len(s) - 1 /\ DOMAIN t = 1..Len(t)
        /\ \A i \in 1..Len(t) : t[i] = s[i + 1]
    BY <1>1
  <1>3. \A i \in 1..Len(s) : i = 1 \/ (i - 1 \in 1..Len(t) /\ t[i - 1] = s[i])
    BY <1>2
  <1>4. 1 \in DOMAIN s /\ \A i \in 1..Len(t) : i + 1 \in DOMAIN s
    BY <1>2
  <1>5. Range(s) = Range(t) \union {h}
    <2>1. ASSUME NEW x \in Range(s) PROVE x \in Range(t) \union {h}
      <3>1. PICK i \in DOMAIN s : x = s[i]
        BY Zenon DEF Range
      <3> QED BY <1>2, <1>3, <3>1, Zenon DEF Range
    <2>2. ASSUME NEW x \in Range(t) PROVE x \in Range(s)
      <3>1. PICK i \in DOMAIN t : x = t[i]
        BY Zenon DEF Range
      <3> QED BY <1>2, <1>4, <3>1, Zenon DEF Range
    <2>3. h \in Range(s)
      BY <1>2, <1>4, Zenon DEF Range
    <2> QED BY <2>1, <2>2, <2>3, Zenon
  <1> QED BY <1>1, <1>2, <1>5, Zenon

(* A sequence over a set is one over any larger set.                       *)
LEMMA SeqIn ==
  ASSUME NEW S, NEW T, S \subseteq T, NEW s \in Seq(S)
  PROVE  s \in Seq(T)
  OBVIOUS

(* One sequence behind another.                                            *)
LEMMA Concat ==
  ASSUME NEW S, NEW a \in Seq(S), NEW b \in Seq(S)
  PROVE  a \o b \in Seq(S) /\ Range(a \o b) = Range(a) \union Range(b)
  <1>1. PICK c : c = a \o b
    BY Zenon
  <1>2. /\ c \in Seq(S) /\ Len(a) \in Nat /\ Len(b) \in Nat /\ Len(c) = Len(a) + Len(b)
        /\ DOMAIN a = 1..Len(a) /\ DOMAIN b = 1..Len(b) /\ DOMAIN c = 1..Len(c)
    BY <1>1
  <1>3. \A i \in 1..Len(c) : c[i] = IF i <= Len(a) THEN a[i] ELSE b[i - Len(a)]
    BY <1>1, <1>2
  <1>4. \A x \in Range(c) : x \in Range(a) \/ x \in Range(b)
    <2> SUFFICES ASSUME NEW i \in DOMAIN c PROVE c[i] \in Range(a) \/ c[i] \in Range(b)
      BY Zenon DEF Range
    <2>1. CASE i <= Len(a)
      <3>1. i \in DOMAIN a /\ c[i] = a[i]
        BY <1>2, <1>3, <2>1
      <3> QED BY <3>1, Zenon DEF Range
    <2>2. CASE ~ (i <= Len(a))
      <3>1. i - Len(a) \in DOMAIN b /\ c[i] = b[i - Len(a)]
        BY <1>2, <1>3, <2>2
      <3> QED BY <3>1, Zenon DEF Range
    <2> QED BY <2>1, <2>2, Zenon
  <1>5. \A x \in Range(a) : x \in Range(c)
    <2>1. \A i \in DOMAIN a : i \in DOMAIN c /\ c[i] = a[i]
      BY <1>2, <1>3
    <2> QED BY <2>1, Zenon DEF Range
  <1>6. \A x \in Range(b) : x \in Range(c)
    <2>1. \A i \in DOMAIN b : i + Len(a) \in DOMAIN c /\ c[i + Len(a)] = b[i]
      BY <1>2, <1>3
    <2> QED BY <2>1, Zenon DEF Range
  <1> QED BY <1>1, <1>2, <1>4, <1>5, <1>6, Zenon

(* The rest of a sequence without repetitions.                             *)
LEMMA DistinctTail ==
  ASSUME NEW S, NEW s \in Seq(S), s # <<>>, Distinct(s)
  PROVE  /\ Distinct(Tail(s)) /\ Head(s) \notin Range(Tail(s))
  <1>1. PICK t : t = Tail(s)
    BY Zenon
  <1>2. /\ Len(s) \in Nat /\ Len(t) = Len(s) - 1 /\ DOMAIN t = 1..Len(t) /\ Head(s) = s[1]
        /\ \A i \in 1..Len(t) : t[i] = s[i + 1]
    BY <1>1
  <1>3. \A i \in 1..Len(t) : i + 1 \in 1..Len(s) /\ 1 \in 1..Len(s) /\ i + 1 # 1
    BY <1>2
  <1>4. ASSUME Head(s) \in Range(t) PROVE FALSE
    <2>1. PICK i \in 1..Len(t) : s[1] = s[i + 1]
      BY <1>2, <1>4, Zenon DEF Range
    <2>2. i + 1 = 1
      BY <1>3, <2>1, Zenon DEF Distinct
    <2> QED BY <1>3, <2>2, Zenon
  <1>5. Distinct(t)
    <2> SUFFICES ASSUME NEW i \in 1..Len(t), NEW j \in 1..Len(t), t[i] = t[j] PROVE i = j
      BY Zenon DEF Distinct
    <2>1. i + 1 = j + 1
      BY <1>2, <1>3, Zenon DEF Distinct
    <2> QED BY <1>2, <2>1
  <1> QED BY <1>1, <1>4, <1>5, Zenon

(* There is a first wave.                                                  *)
LEMMA FirstWave ==
  ASSUME Ready
  PROVE  1 \in 1..Len(waves) /\ Len(waves) \in Nat
  <1>1. waves \in Seq(Seq(Nodes)) /\ waves # <<>>
    BY Zenon DEF Ready, Filling
  <1> QED BY <1>1

-----------------------------------------------------------------------------
(* The threads, step by step                                               *)

(* Nothing runs before the first wave.                                     *)
LEMMA NoThreads ==
  ASSUME NEW st, \A n \in Nodes : st[n] = "none"
  PROVE  Threads({}, {}, st, {})
  BY Zenon DEF Threads

(* A thread that has ended is joined.                                      *)
LEMMA JoinLate ==
  ASSUME NEW B, NEW O, NEW st, NEW W, Threads(B, O, st, W), NEW h, st[h] = "ended"
  PROVE  Threads(B, O, st, W \ {h})
  BY Zenon DEF Threads

(* The guests and threads of a wave are started, after the late threads    *)
(* that it needs have been joined.                                         *)
LEMMA SpawnThreads ==
  ASSUME Ready, NEW w \in 1..Len(waves), NEW st, NEW W,
         Threads(Earlier(w), Earlier(w), st, W), W \intersect Needed(w) = {},
         NEW S, S = {n \in Current(w) : ~ IsSerial(n)},
         NEW sn, \A n \in Nodes : (n \in S => sn[n] = "running") /\ (n \notin S => sn[n] = st[n])
  PROVE  Threads(Earlier(w) \union Current(w), Earlier(w), sn, W)
  <1> SUFFICES ASSUME NEW n \in Nodes
               PROVE  /\ ~ Concurrent(n) \/ n \notin Earlier(w) \union Current(w) => sn[n] = "none"
                      /\ n \in W => Late(n) /\ sn[n] # "none"
                      /\ n \in Earlier(w) /\ Concurrent(n) =>
                            \/ sn[n] = "ended"
                            \/ Late(n) /\ n \in W
                            \/ Kind(n) = "Prefetch" /\ Users(n) = {} /\ sn[n] = "failed"
                      /\ n \in Earlier(w) \union Current(w) => Deps(n) \intersect W = {}
    BY Zenon DEF Threads
  <1>1. ~ Concurrent(n) \/ n \notin Earlier(w) \union Current(w) => sn[n] = "none"
    BY Zenon DEF Threads, Concurrent
  <1>2. n \in W => Late(n) /\ sn[n] # "none"
    BY Zenon DEF Threads
  <1>3. n \in Earlier(w) => sn[n] = st[n]
    BY WaveFacts, Zenon
  <1>4. n \in Earlier(w) /\ Concurrent(n) =>
           \/ sn[n] = "ended"
           \/ Late(n) /\ n \in W
           \/ Kind(n) = "Prefetch" /\ Users(n) = {} /\ sn[n] = "failed"
    BY <1>3, Zenon DEF Threads
  <1>5. n \in Current(w) => Deps(n) \intersect W = {}
    <2>1. Range(waves[w]) = Current(w)
      BY WaveFacts, Zenon
    <2>2. n \in Current(w) => Deps(n) \subseteq Needed(w)
      BY <2>1, Zenon DEF Needed
    <2> QED BY <2>2, Zenon
  <1>6. n \in Earlier(w) => Deps(n) \intersect W = {}
    BY Zenon DEF Threads
  <1> QED BY <1>1, <1>2, <1>4, <1>5, <1>6, Zenon

(* Threads of the current wave are put off: nobody waits for them yet.     *)
LEMMA PutOff ==
  ASSUME Ready, NEW w \in 1..Len(waves), NEW st, NEW W,
         Threads(Earlier(w) \union Current(w), Earlier(w), st, W),
         NEW S \in SUBSET Current(w), \A n \in S : Late(n) /\ st[n] # "none"
  PROVE  Threads(Earlier(w) \union Current(w), Earlier(w), st, W \union S)
  <1>1. ASSUME NEW n \in Earlier(w) \union Current(w) PROVE Deps(n) \intersect S = {}
    BY DepsEarlier, Zenon
  <1> QED BY <1>1, Zenon DEF Threads

(* A prefetch of the current wave is started.                              *)
LEMMA StartPrefetch ==
  ASSUME Ready, NEW w \in 1..Len(waves), NEW st, NEW W,
         Threads(Earlier(w) \union Current(w), Earlier(w), st, W),
         NEW h \in Current(w), Kind(h) = "Prefetch",
         NEW sn, sn[h] = "running", \A n \in Nodes : n # h => sn[n] = st[n]
  PROVE  Threads(Earlier(w) \union Current(w), Earlier(w), sn, W \union {h})
  <1>1. Threads(Earlier(w) \union Current(w), Earlier(w), sn, W)
    <2> SUFFICES ASSUME NEW n \in Nodes
                 PROVE  /\ ~ Concurrent(n) \/ n \notin Earlier(w) \union Current(w) => sn[n] = "none"
                        /\ n \in W => Late(n) /\ sn[n] # "none"
                        /\ n \in Earlier(w) /\ Concurrent(n) =>
                              \/ sn[n] = "ended"
                              \/ Late(n) /\ n \in W
                              \/ Kind(n) = "Prefetch" /\ Users(n) = {} /\ sn[n] = "failed"
                        /\ n \in Earlier(w) \union Current(w) => Deps(n) \intersect W = {}
      BY Zenon DEF Threads
    <2>1. CASE n = h
      <3>1. h \notin Earlier(w) /\ Concurrent(h)
        BY WaveFacts, Zenon DEF Concurrent
      <3>2. Late(h) /\ Deps(h) \intersect W = {}
        BY <2>1, Zenon DEF Threads, Late
      <3> QED BY <2>1, <3>1, <3>2, Zenon
    <2>2. CASE n # h
      BY <2>2, Zenon DEF Threads
    <2> QED BY <2>1, <2>2, Zenon
  <1>2. \A n \in {h} : Late(n) /\ sn[n] # "none"
    BY Zenon DEF Late
  <1>3. {h} \in SUBSET Current(w)
    BY Zenon
  <1> QED BY <1>1, <1>2, <1>3, PutOff, Zenon

(* The guests and threads of a wave that are not put off have been joined. *)
LEMMA WaveOver ==
  ASSUME NEW w, NEW st, NEW W, Threads(Earlier(w) \union Current(w), Earlier(w), st, W),
         NEW td, td = <<>>, Joining(w, td, st, W)
  PROVE  Threads(Earlier(w) \union Current(w), Earlier(w) \union Current(w), st, W)
  <1>1. Range(td) = {}
    BY DEF Range
  <1>2. \A n \in Current(w) : Concurrent(n) => st[n] = "ended" \/ (Late(n) /\ n \in W)
    BY <1>1, Zenon DEF Joining
  <1> QED BY <1>2, Zenon DEF Threads

(* After the last wave nobody waits for a thread any more.                 *)
LEMMA NobodyWaits ==
  ASSUME dag \in Dags, NEW O, NEW st, NEW W, Threads(Nodes, O, st, W), NEW h \in W
  PROVE  Users(h) = {} /\ ~ HasConsumer(h)
  BY Zenon DEF Threads, Users, HasConsumer

(* The drain joins a prefetch, even one that has failed.                   *)
LEMMA DrainOne ==
  ASSUME dag \in Dags, NEW st, NEW W, Threads(Nodes, Nodes, st, W),
         NEW h \in W, Kind(h) = "Prefetch", st[h] \in {"ended", "failed"}
  PROVE  Threads(Nodes, Nodes, st, W \ {h})
  <1>1. Users(h) = {}
    BY NobodyWaits, Zenon
  <1> QED BY <1>1, Zenon DEF Threads

(* A guest or a thread goes on: h.                                         *)
Moved(st, sn, h) ==
    /\ st[h] \in {"running", "read"} /\ sn[h] \in {"read", "ended", "failed"}
    /\ \A n \in Nodes : n # h => sn[n] = st[n]

(* It breaks nothing that is said of the threads.                          *)
LEMMA ThreadMoves ==
  ASSUME NEW B, NEW O, NEW st, NEW W, Threads(B, O, st, W),
         NEW h \in Nodes, NEW sn, Moved(st, sn, h)
  PROVE  Threads(B, O, sn, W)
  <1> SUFFICES ASSUME NEW n \in Nodes
               PROVE  /\ ~ Concurrent(n) \/ n \notin B => sn[n] = "none"
                      /\ n \in W => Late(n) /\ sn[n] # "none"
                      /\ n \in O /\ Concurrent(n) =>
                            \/ sn[n] = "ended"
                            \/ Late(n) /\ n \in W
                            \/ Kind(n) = "Prefetch" /\ Users(n) = {} /\ sn[n] = "failed"
                      /\ n \in B => Deps(n) \intersect W = {}
    BY Zenon DEF Threads
  <1>1. CASE n = h
    <2>1. st[n] # "none" /\ st[n] # "ended" /\ st[n] # "failed" /\ sn[n] # "none"
      BY <1>1, Zenon DEF Moved
    <2>2. /\ ~ Concurrent(n) \/ n \notin B => st[n] = "none"
          /\ n \in W => Late(n)
      BY Zenon DEF Threads
    <2>3. n \in O /\ Concurrent(n) => st[n] = "ended" \/ (Late(n) /\ n \in W) \/ st[n] = "failed"
      BY Zenon DEF Threads
    <2>4. n \in B => Deps(n) \intersect W = {}
      BY Zenon DEF Threads
    <2> QED BY <2>1, <2>2, <2>3, <2>4, Zenon
  <1>2. CASE n # h
    BY <1>2, Zenon DEF Threads, Moved
  <1> QED BY <1>1, <1>2, Zenon

(* The threads to be joined before a wave are listed once.                 *)
LEMMA AwaitedLists ==
  ASSUME Ready, NEW w, NEW W \in SUBSET Nodes
  PROVE  /\ Lists(Ascending(W \intersect Needed(w)), W \intersect Needed(w))
         /\ Ascending(W \intersect Needed(w)) \in Seq(Nodes)
  <1>1. PICK S : S = W \intersect Needed(w)
    BY Zenon
  <1>2. S \in SUBSET Nodes /\ S \in SUBSET Nat /\ IsFiniteSet(S)
    BY <1>1, DagFacts, FS_Subset, Zenon DEF Ready
  <1>3. Lists(Ascending(S), S)
    BY <1>2, AscendingLists, Zenon
  <1>4. Ascending(S) \in Seq(Nodes)
    BY <1>2, <1>3, SeqIn, Zenon DEF Lists
  <1> QED BY <1>1, <1>3, <1>4, Zenon

(* One of them is joined.                                                  *)
LEMMA PreJoinKeeps ==
  ASSUME NEW w, NEW st, NEW W, Threads(Earlier(w), Earlier(w), st, W),
         NEW td, td # <<>>, Lists(td, W \intersect Needed(w)),
         NEW h, h = Head(td), st[h] = "ended"
  PROVE  /\ Threads(Earlier(w), Earlier(w), st, W \ {h})
         /\ Lists(Tail(td), (W \ {h}) \intersect Needed(w))
  <1>1. Threads(Earlier(w), Earlier(w), st, W \ {h})
    BY JoinLate, Zenon
  <1>2. PICK S : S = W \intersect Needed(w)
    BY Zenon
  <1>3. Lists(Tail(td), S \ {h})
    BY <1>2, ListsTail, Zenon
  <1>4. S \ {h} = (W \ {h}) \intersect Needed(w)
    BY <1>2, Zenon
  <1> QED BY <1>1, <1>3, <1>4, Zenon

(* The guests and RDMA threads of wave w are started; the host nodes of    *)
(* the wave come next.                                                     *)
Started(w, st, sn) ==
    sn = [n \in Nodes |->
            IF n \in {m \in Range(waves[w]) : IsFunc(m) \/ IsThread(m)} THEN "running" ELSE st[n]]
HostNodes(w, td) == td = InWave(w, {n \in Nodes : IsSerial(n)})

(* All that the wave needs has been joined.                                *)
LEMMA SpawnKeeps ==
  ASSUME Ready, NEW w \in 1..Len(waves), NEW st \in [Nodes -> ThreadStates], NEW W, NEW pf,
         Threads(Earlier(w), Earlier(w), st, W),
         NEW td, td = <<>>, Lists(td, W \intersect Needed(w)),
         NEW sn, Started(w, st, sn), NEW tn, HostNodes(w, tn)
  PROVE  /\ Threads(Earlier(w) \union Current(w), Earlier(w), sn, W)
         /\ Serving(w, tn, sn, pf)
         /\ tn \in Seq(Nodes) /\ sn \in [Nodes -> ThreadStates]
  <1>1. PICK R : R = {n \in Current(w) : ~ IsSerial(n)}
    BY Zenon
  <1>2. R = {m \in Range(waves[w]) : IsFunc(m) \/ IsThread(m)}
    <2>1. Range(waves[w]) = Current(w)
      BY WaveFacts, Zenon
    <2> QED BY <1>1, <2>1, Zenon DEF IsSerial
  <1>3. sn = [n \in Nodes |-> IF n \in R THEN "running" ELSE st[n]]
    BY <1>2, Zenon DEF Started
  <1>4. sn \in [Nodes -> ThreadStates]
    BY <1>3 DEF ThreadStates
  <1>5. \A n \in Nodes : (n \in R => sn[n] = "running") /\ (n \notin R => sn[n] = st[n])
    BY <1>3, Zenon
  <1>6. W \intersect Needed(w) = {}
    BY ListsEmpty, Zenon
  <1>7. Threads(Earlier(w) \union Current(w), Earlier(w), sn, W)
    BY <1>1, <1>5, <1>6, SpawnThreads, Zenon
  <1>8. PICK H : H = {n \in Nodes : IsSerial(n)}
    BY Zenon
  <1>9. tn \in Seq(Current(w) \intersect H) /\ Range(tn) = Current(w) \intersect H
    BY <1>8, InWaveLists, Zenon DEF HostNodes
  <1>10. /\ Current(w) \subseteq Nodes
         /\ Current(w) \intersect H = {n \in Current(w) : IsSerial(n)}
    BY <1>8, Zenon DEF Current
  <1>11. tn \in Seq(Nodes)
    BY <1>9, <1>10, SeqIn, Zenon
  <1>12. ASSUME NEW n \in Current(w)
         PROVE  /\ ~ IsSerial(n) => sn[n] # "none"
                /\ Kind(n) = "Prefetch" => n \in pf \/ n \in Range(tn)
    <2>1. ~ IsSerial(n) => sn[n] = "running"
      BY <1>1, <1>5, <1>10, Zenon
    <2>2. Kind(n) = "Prefetch" => IsSerial(n)
      BY Zenon DEF IsSerial, IsFunc, IsThread
    <2> QED BY <1>9, <1>10, <2>1, <2>2, Zenon
  <1>13. Serving(w, tn, sn, pf)
    BY <1>9, <1>10, <1>12, Zenon DEF Serving
  <1> QED BY <1>4, <1>7, <1>11, <1>13, Zenon

(* A host node that starts no thread.                                      *)
LEMMA HostKeeps ==
  ASSUME NEW w, NEW st, NEW pf, NEW td, td # <<>>, Serving(w, td, st, pf),
         Kind(Head(td)) # "Prefetch"
  PROVE  Serving(w, Tail(td), st, pf)
  <1>1. PICK C : C = {n \in Current(w) : IsSerial(n)}
    BY Zenon
  <1>2. td \in Seq(C)
    BY <1>1, Zenon DEF Serving
  <1>3. Tail(td) \in Seq(C) /\ Range(td) = Range(Tail(td)) \union {Head(td)}
    BY <1>2, TakeHead, Zenon
  <1> QED BY <1>1, <1>3, Zenon DEF Serving

(* The status of n becomes v.                                              *)
Sets(st, sn, n, v) == sn = [st EXCEPT ![n] = v]

(* A prefetch of the wave is started and its handle kept.                  *)
LEMMA PrefetchKeeps ==
  ASSUME Ready, NEW w \in 1..Len(waves), NEW st \in [Nodes -> ThreadStates], NEW W, NEW pf,
         Threads(Earlier(w) \union Current(w), Earlier(w), st, W),
         NEW td, td # <<>>, Serving(w, td, st, pf), NEW h, h = Head(td), Kind(h) = "Prefetch",
         NEW sn, Sets(st, sn, h, "running")
  PROVE  /\ Threads(Earlier(w) \union Current(w), Earlier(w), sn, W \union {h})
         /\ Serving(w, Tail(td), sn, pf \union {h})
         /\ sn \in [Nodes -> ThreadStates]
  <1>1. PICK C : C = {m \in Current(w) : IsSerial(m)}
    BY Zenon
  <1>2. td \in Seq(C)
    BY <1>1, Zenon DEF Serving
  <1>3. h \in C /\ Tail(td) \in Seq(C) /\ Range(td) = Range(Tail(td)) \union {h}
    BY <1>2, TakeHead, Zenon
  <1>4. \A m \in Current(w) : m \in Nodes
    BY Zenon DEF Current
  <1>5. h \in Nodes /\ h \in Current(w)
    BY <1>1, <1>3, <1>4, Zenon
  <1>6. /\ sn \in [Nodes -> ThreadStates]
        /\ sn[h] = "running" /\ \A m \in Nodes : m # h => sn[m] = st[m]
    BY <1>5 DEF Sets, ThreadStates
  <1>7. Threads(Earlier(w) \union Current(w), Earlier(w), sn, W \union {h})
    BY <1>5, <1>6, StartPrefetch, Zenon
  <1>8. ASSUME NEW m \in Current(w)
        PROVE  /\ ~ IsSerial(m) => sn[m] # "none"
               /\ Kind(m) = "Prefetch" => m \in pf \union {h} \/ m \in Range(Tail(td))
    <2>1. CASE m = h
      BY <1>6, <2>1, Zenon
    <2>2. CASE m # h
      BY <1>3, <1>4, <1>6, <2>2, Zenon DEF Serving
    <2> QED BY <2>1, <2>2, Zenon
  <1>9. Serving(w, Tail(td), sn, pf \union {h})
    BY <1>1, <1>3, <1>8, Zenon DEF Serving
  <1> QED BY <1>6, <1>7, <1>9, Zenon

(* Receives of wave w with a consumer are put off: S.  The other threads   *)
(* and the guests of the wave are to be joined: td.                        *)
PutsOff(w, S, td) ==
    /\ S = {n \in Range(waves[w]) : HasConsumer(n)}
    /\ td = InWave(w, {n \in Nodes : IsThread(n)} \ S) \o InWave(w, {n \in Nodes : IsFunc(n)})

(* Nobody who reads, and nobody without a consumer, is put off.            *)
LEMMA DeferKeeps ==
  ASSUME Ready, NEW w \in 1..Len(waves), NEW st, NEW W, NEW pf, pf \subseteq W,
         Threads(Earlier(w) \union Current(w), Earlier(w), st, W),
         NEW td, td = <<>>, Serving(w, td, st, pf),
         NEW S, NEW tn, PutsOff(w, S, tn)
  PROVE  /\ Threads(Earlier(w) \union Current(w), Earlier(w), st, W \union S)
         /\ Joining(w, tn, st, W \union S)
         /\ tn \in Seq(Nodes) /\ S \subseteq {n \in Nodes : HasConsumer(n)}
  <1>1. PICK R, F : R = {n \in Nodes : IsThread(n)} \ S /\ F = {n \in Nodes : IsFunc(n)}
    BY Zenon
  <1>2. S = {n \in Current(w) : HasConsumer(n)} /\ Current(w) \subseteq Nodes
    BY WaveFacts, Zenon DEF Current, PutsOff
  <1>3. \A n \in S : Late(n) /\ st[n] # "none"
    BY <1>2, Zenon DEF Late, HasConsumer, Serving, IsSerial, IsThread
  <1>4. Threads(Earlier(w) \union Current(w), Earlier(w), st, W \union S)
    BY <1>2, <1>3, PutOff, Zenon
  <1>5. PICK C : C = {n \in Current(w) : ~ IsSerial(n)}
    BY Zenon
  <1>6. /\ Current(w) \intersect R \subseteq C /\ Current(w) \intersect F \subseteq C
        /\ \A n \in C : n \in S \/ n \in Current(w) \intersect R \/ n \in Current(w) \intersect F
    BY <1>1, <1>2, <1>5, Zenon DEF IsSerial
  <1>7. PICK a, b : a = InWave(w, R) /\ b = InWave(w, F)
    BY Zenon
  <1>8. /\ a \in Seq(Current(w) \intersect R) /\ Range(a) = Current(w) \intersect R
        /\ b \in Seq(Current(w) \intersect F) /\ Range(b) = Current(w) \intersect F
    BY <1>7, InWaveLists, Zenon
  <1>9. a \in Seq(C) /\ b \in Seq(C)
    BY <1>6, <1>8, SeqIn, Zenon
  <1>10. tn = a \o b
    BY <1>1, <1>7, Zenon DEF PutsOff
  <1>11. tn \in Seq(C) /\ Range(tn) = Range(a) \union Range(b)
    <2>1. a \o b \in Seq(C) /\ Range(a \o b) = Range(a) \union Range(b)
      BY <1>9, Concat, Zenon
    <2> QED BY <1>10, <2>1, Zenon
  <1>12. C \subseteq Nodes
    BY <1>2, <1>5, Zenon
  <1>13. tn \in Seq(Nodes)
    BY <1>11, <1>12, SeqIn, Zenon
  <1>14. Range(td) = {}
    BY DEF Range
  <1>15. ASSUME NEW n \in Current(w), Concurrent(n)
         PROVE  /\ st[n] # "none"
                /\ Late(n) => n \in W \union S
                /\ ~ Late(n) => n \in Range(tn) \/ st[n] = "ended"
    <2>1. CASE Kind(n) = "Prefetch"
      <3>1. n \in W /\ Late(n) /\ n \in Nodes
        BY <1>2, <1>14, <2>1, Zenon DEF Serving, Late
      <3> QED BY <3>1, Zenon DEF Threads
    <2>2. CASE Kind(n) # "Prefetch"
      <3>1. ~ IsSerial(n) /\ n \in C /\ (Late(n) <=> n \in S)
        BY <1>2, <1>5, <1>15, <2>2, Zenon DEF Concurrent, Late
      <3>2. st[n] # "none"
        BY <3>1, Zenon DEF Serving
      <3> QED BY <1>6, <1>8, <1>11, <3>1, <3>2, Zenon
    <2> QED BY <2>1, <2>2, Zenon
  <1>16. Joining(w, tn, st, W \union S)
    BY <1>5, <1>11, <1>15, Zenon DEF Joining
  <1> QED BY <1>2, <1>4, <1>13, <1>16, Zenon

(* A guest or a thread of the wave is joined.                              *)
LEMMA JoinKeeps ==
  ASSUME NEW w, NEW st, NEW W, NEW td, td # <<>>, Joining(w, td, st, W), st[Head(td)] = "ended"
  PROVE  Joining(w, Tail(td), st, W)
  <1>1. PICK C : C = {n \in Current(w) : ~ IsSerial(n)}
    BY Zenon
  <1>2. td \in Seq(C)
    BY <1>1, Zenon DEF Joining
  <1>3. Tail(td) \in Seq(C) /\ Range(td) = Range(Tail(td)) \union {Head(td)}
    BY <1>2, TakeHead, Zenon
  <1> QED BY <1>1, <1>3, Zenon DEF Joining

(* After the last wave only prefetches that nobody uses are left for the   *)
(* drain.                                                                  *)
LEMMA LastWaveOver ==
  ASSUME Ready, NEW st, NEW pf \in SUBSET Nodes, NEW pd, \A h \in pd : HasConsumer(h),
         Threads(Nodes, Nodes, st, pf \union pd)
  PROVE  /\ pd = {} /\ Threads(Nodes, Nodes, st, pf)
         /\ Lists(Ascending(pf) \o Ascending(pd), pf)
         /\ Ascending(pf) \o Ascending(pd) \in Seq(Nodes)
  <1>1. PICK W : W = pf \union pd
    BY Zenon
  <1>2. Threads(Nodes, Nodes, st, W) /\ dag \in Dags /\ \A h \in pd : h \in W
    BY <1>1, Zenon DEF Ready
  <1>3. pd = {}
    BY <1>2, NobodyWaits, Zenon
  <1>4. pf \union pd = pf
    BY <1>3, Zenon
  <1>5. pf \in SUBSET Nat /\ IsFiniteSet(pf)
    BY <1>2, DagFacts, FS_Subset, Zenon
  <1>6. pd \in SUBSET Nat /\ IsFiniteSet(pd)
    BY <1>3, FS_EmptySet, Zenon
  <1>7. PICK a, b : a = Ascending(pf) /\ b = Ascending(pd)
    BY Zenon
  <1>8. Lists(a, pf) /\ Lists(b, pd) /\ pf \intersect pd = {}
    BY <1>3, <1>5, <1>6, <1>7, AscendingLists, Zenon
  <1>9. Lists(a \o b, pf)
    <2>1. Lists(a \o b, pf \union pd)
      BY <1>8, ListsConcat, Zenon
    <2> QED BY <1>4, <2>1, Zenon
  <1>10. a \o b \in Seq(Nodes)
    BY <1>9, SeqIn, Zenon DEF Lists
  <1> QED BY <1>1, <1>2, <1>3, <1>4, <1>7, <1>9, <1>10, Zenon

(* A run is over: nobody is at work.                                       *)
LEMMA RunOver ==
  ASSUME NEW st, NEW pf, Threads(Nodes, Nodes, st, pf), NEW td, td = <<>>, Lists(td, pf)
  PROVE  pf = {} /\ \A n \in Nodes : st[n] \notin {"running", "read"}
  <1>1. pf = {}
    BY ListsEmpty, Zenon
  <1> QED BY <1>1, Zenon DEF Threads

(* A guest or a thread goes on: n.                                         *)
Goes(st, sn, n) ==
    /\ st[n] \in {"running", "read"}
    /\ \E v \in {"read", "ended", "failed"} : sn = [st EXCEPT ![n] = v]

(* A guest or a thread goes on: what is said of the step of run_dag stays  *)
(* true, and run_dag is in one in which somebody may be at work.           *)
LEMMA MoveKeeps ==
  ASSUME NEW stp, NEW w, NEW td, NEW st \in [Nodes -> ThreadStates], NEW pf, NEW pd,
         At(stp, w, td, st, pf, pd), NEW h \in Nodes, NEW sn, Goes(st, sn, h)
  PROVE  /\ At(stp, w, td, sn, pf, pd) /\ stp \notin {"begin", "load", "done"}
         /\ sn \in [Nodes -> ThreadStates]
  <1>1. /\ sn \in [Nodes -> ThreadStates] /\ sn[h] \in {"read", "ended", "failed"}
        /\ st[h] \in {"running", "read"} /\ \A m \in Nodes : m # h => sn[m] = st[m]
    BY DEF Goes, ThreadStates
  <1>2. \A B, O, W : Threads(B, O, st, W) => Threads(B, O, sn, W)
    <2>1. Moved(st, sn, h)
      BY <1>1, Zenon DEF Moved
    <2> QED BY <2>1, ThreadMoves, Zenon
  <1>3. \A m \in Nodes : /\ st[m] # "none" => sn[m] # "none"
                         /\ st[m] = "ended" => sn[m] = "ended"
    <2>1. st[h] # "none" /\ st[h] # "ended" /\ sn[h] # "none"
      BY <1>1, Zenon
    <2> QED BY <1>1, <2>1, Zenon
  <1>4. Current(w) \subseteq Nodes
    BY Zenon DEF Current
  <1>5. Serving(w, td, st, pf) => Serving(w, td, sn, pf)
    BY <1>3, <1>4, Zenon DEF Serving
  <1>6. \A W : Joining(w, td, st, W) => Joining(w, td, sn, W)
    BY <1>3, <1>4, Zenon DEF Joining
  <1>7. stp \notin {"begin", "load", "done"}
    BY <1>1, Zenon DEF At
  <1>8. At(stp, w, td, sn, pf, pd)
    BY <1>2, <1>5, <1>6, <1>7, Zenon DEF At
  <1> QED BY <1>1, <1>7, <1>8, Zenon

(* What a wave of nodes B depends on has ended, if it was joined.          *)
LEMMA DepsEnded ==
  ASSUME Ready, NEW w \in 1..Len(waves), NEW O, Earlier(w) \subseteq O, NEW st, NEW W,
         Threads(Earlier(w) \union Current(w), O, st, W)
  PROVE  \A n \in Range(waves[w]) : \A d \in Deps(n) : Concurrent(d) => st[d] = "ended"
  <1> SUFFICES ASSUME NEW n \in Range(waves[w]), NEW d \in Deps(n), Concurrent(d)
               PROVE  st[d] = "ended"
    BY Zenon
  <1>1. n \in Current(w)
    BY WaveFacts, Zenon
  <1>2. d \in Earlier(w) /\ n \in Users(d) /\ n \in Nodes /\ d \in Nodes
    BY <1>1, DepsEarlier, Zenon
  <1>3. d \notin W
    BY <1>1, <1>2, Zenon DEF Threads
  <1>4. Users(d) # {}
    BY <1>2, Zenon
  <1> QED BY <1>2, <1>3, <1>4, Zenon DEF Threads

(* A wave that was joined: nobody in it reads any more.                    *)
LEMMA ReadersEnded ==
  ASSUME NEW B, NEW st, NEW W, Threads(B, B, st, W),
         NEW n \in Nodes, Kind(n) \in {"Func", "Send"}
  PROVE  st[n] \notin {"running", "read"}
  <1>1. ~ Late(n) /\ Concurrent(n)
    BY DEF Late, HasConsumer, Concurrent, IsSerial, IsFunc, IsThread
  <1>2. CASE n \in B
    <2>1. st[n] = "ended" \/ st[n] = "failed"
      BY <1>1, <1>2, Zenon DEF Threads
    <2> QED BY <2>1, Zenon
  <1>3. CASE n \notin B
    <2>1. st[n] = "none"
      BY <1>3, Zenon DEF Threads
    <2> QED BY <2>1, Zenon
  <1> QED BY <1>2, <1>3, Zenon

(* What run_dag waits for has been started.                                *)
LEMMA WaitsForStarted ==
  ASSUME NEW stp \in {"prejoin", "join", "drain"}, NEW w, NEW td, NEW st,
         NEW pf \in SUBSET Nodes, NEW pd \in SUBSET Nodes, At(stp, w, td, st, pf, pd)
  PROVE  \A n \in Range(td) : st[n] # "none"
  <1>1. PICK W : W = pf \union pd
    BY Zenon
  <1>2. CASE stp = "prejoin"
    <2>1. Threads(Earlier(w), Earlier(w), st, W) /\ Range(td) = W \intersect Needed(w)
      BY <1>1, <1>2, ListsRange, Zenon DEF At
    <2>2. W \subseteq Nodes
      BY <1>1, Zenon
    <2> QED BY <2>1, <2>2, Zenon DEF Threads
  <1>3. CASE stp = "join"
    <2>1. Joining(w, td, st, W)
      BY <1>1, <1>3, Zenon DEF At
    <2>2. PICK C : C = {n \in Current(w) : ~ IsSerial(n)}
      BY Zenon
    <2>3. td \in Seq(C)
      BY <2>1, <2>2, Zenon DEF Joining
    <2>4. Range(td) \subseteq C
      BY <2>3 DEF Range
    <2> QED BY <2>1, <2>2, <2>4, Zenon DEF Joining, Concurrent
  <1>4. CASE stp = "drain"
    <2>1. Threads(Nodes, Nodes, st, pf) /\ Range(td) = pf
      BY <1>4, ListsRange, Zenon DEF At
    <2> QED BY <2>1, Zenon DEF Threads
  <1> QED BY <1>2, <1>3, <1>4, Zenon

(* While slots are reclaimed and in the drain nobody reads.                *)
LEMMA NobodyReads ==
  ASSUME NEW stp \in {"reclaim", "drain"}, NEW w, NEW td, NEW st, NEW pf, NEW pd,
         At(stp, w, td, st, pf, pd), NEW n \in Nodes, Kind(n) \in {"Func", "Send"}
  PROVE  st[n] \notin {"running", "read"}
  <1>1. PICK W, B : W = pf \union pd /\ B = Earlier(w) \union Current(w)
    BY Zenon
  <1>2. CASE stp = "reclaim"
    <2>1. Threads(B, B, st, W)
      BY <1>1, <1>2, Zenon DEF At
    <2> QED BY <2>1, ReadersEnded, Zenon
  <1>3. CASE stp = "drain"
    <2>1. Threads(Nodes, Nodes, st, pf)
      BY <1>3, Zenon DEF At
    <2> QED BY <2>1, ReadersEnded, Zenon
  <1> QED BY <1>2, <1>3, Zenon

(* While a wave runs, what its nodes depend on has ended.                  *)
LEMMA DepsJoined ==
  ASSUME Ready, NEW w \in 1..Len(waves), NEW stp, NEW td, NEW st, NEW pf, NEW pd,
         At(stp, w, td, st, pf, pd)
  PROVE  stp \in {"serial", "join", "reclaim"} =>
            \A n \in Range(waves[w]) : \A d \in Deps(n) : Concurrent(d) => st[d] = "ended"
  <1> SUFFICES ASSUME stp \in {"serial", "join", "reclaim"}
               PROVE  \A n \in Range(waves[w]) : \A d \in Deps(n) :
                         Concurrent(d) => st[d] = "ended"
    BY Zenon
  <1>1. PICK O, W : /\ Earlier(w) \subseteq O
                    /\ Threads(Earlier(w) \union Current(w), O, st, W)
    BY Zenon DEF At
  <1> QED BY <1>1, DepsEnded, Zenon

-----------------------------------------------------------------------------
(* The counters                                                            *)

(* The tables that run_dag builds for a run count all nodes.               *)
LEMMA FreshCounts ==
  ASSUME dag \in Dags
  PROVE  /\ Counted(SlotRefcounts, InputDepCounts, RecvDepCounts)
         /\ Exact(Nodes, SlotRefcounts, InputDepCounts, RecvDepCounts)
  <1>1. IsFiniteSet(Nodes)
    BY DagFacts, Zenon
  <1>2. ASSUME NEW X \in SUBSET Nodes PROVE Cardinality(X) \in Nat
    BY <1>1, FS_Subset, FS_CardinalityType, Zenon
  <1>3. /\ \A s : Cardinality({n \in Nodes : s \in OwnedSlots(n)}) \in Nat
        /\ \A n : Cardinality(Users(n)) \in Nat
    BY <1>2, Zenon DEF Users
  <1>4. Counted(SlotRefcounts, InputDepCounts, RecvDepCounts)
    BY <1>3, Zenon DEF Counted, SlotRefcounts, InputDepCounts, RecvDepCounts
  <1>5. Exact(Nodes, SlotRefcounts, InputDepCounts, RecvDepCounts)
    BY Zenon DEF Exact, SlotRefcounts, InputDepCounts, RecvDepCounts, Users
  <1> QED BY <1>4, <1>5, Zenon

(* One element less.                                                       *)
LEMMA OneLess ==
  ASSUME NEW X, IsFiniteSet(X), NEW h, NEW c, c = Cardinality(X)
  PROVE  c - (IF h \in X THEN 1 ELSE 0) \in Nat /\ Cardinality(X \ {h}) = c - (IF h \in X THEN 1 ELSE 0)
  <1>1. /\ IsFiniteSet(X \ {h})
        /\ Cardinality(X \ {h}) = IF h \in X THEN Cardinality(X) - 1 ELSE Cardinality(X)
    BY FS_RemoveElement, Zenon
  <1>2. Cardinality(X \ {h}) \in Nat /\ Cardinality(X) \in Nat
    BY <1>1, FS_CardinalityType, Zenon
  <1> QED BY <1>1, <1>2

(* f counts the users in L; g is f when h has been reclaimed.              *)
CountsUsers(L, f) == \A d \in DOMAIN f : f[d] = Cardinality({n \in L : d \in Deps(n)})
Lowered(f, g, h) == g = [d \in DOMAIN f |-> f[d] - (IF d \in Deps(h) THEN 1 ELSE 0)]
Released(f, g, h) == g = [s \in Slots |-> f[s] - (IF s \in OwnedSlots(h) THEN 1 ELSE 0)]

(* The same for the counters of one kind.                                  *)
LEMMA UsersLess ==
  ASSUME NEW L, IsFiniteSet(L), NEW h \in L, NEW f, CountsUsers(L, f), NEW g, Lowered(f, g, h)
  PROVE  CountsUsers(L \ {h}, g) /\ \A d \in DOMAIN g : g[d] \in Nat
  <1>1. ASSUME NEW d \in DOMAIN g
        PROVE  g[d] \in Nat /\ g[d] = Cardinality({n \in L \ {h} : d \in Deps(n)})
    <2>1. PICK X : X = {n \in L : d \in Deps(n)}
      BY Zenon
    <2>2. d \in DOMAIN f
      BY Zenon DEF Lowered
    <2>3. IsFiniteSet(X) /\ f[d] = Cardinality(X)
      BY <2>1, <2>2, FS_Subset, Zenon DEF CountsUsers
    <2>4. h \in X <=> d \in Deps(h)
      BY <2>1, Zenon
    <2>5. {n \in L \ {h} : d \in Deps(n)} = X \ {h}
      BY <2>1, Zenon
    <2>6. PICK c : c = f[d]
      BY Zenon
    <2>7. c - (IF h \in X THEN 1 ELSE 0) \in Nat /\ Cardinality(X \ {h}) = c - (IF h \in X THEN 1 ELSE 0)
      BY <2>3, <2>6, OneLess, Zenon
    <2>8. g[d] = c - (IF h \in X THEN 1 ELSE 0)
      BY <2>2, <2>4, <2>6, Zenon DEF Lowered
    <2> QED BY <2>5, <2>7, <2>8, Zenon
  <1> QED BY <1>1, Zenon DEF CountsUsers

(* A node is reclaimed: it is counted no more, and no counter falls below  *)
(* zero.                                                                   *)
LEMMA CountOff ==
  ASSUME dag \in Dags, NEW L \in SUBSET Nodes, NEW h \in L,
         NEW rc, NEW il, NEW rl, Exact(L, rc, il, rl), Counted(rc, il, rl),
         NEW rn, Released(rc, rn, h),
         NEW in, Lowered(il, in, h), NEW ln, Lowered(rl, ln, h)
  PROVE  Exact(L \ {h}, rn, in, ln) /\ Counted(rn, in, ln)
  <1>1. IsFiniteSet(L)
    BY DagFacts, FS_Subset, Zenon
  <1>2. ASSUME NEW s \in Slots
        PROVE  rn[s] \in Nat /\ rn[s] = Cardinality({n \in L \ {h} : s \in OwnedSlots(n)})
    <2>1. PICK X : X = {n \in L : s \in OwnedSlots(n)}
      BY Zenon
    <2>2. IsFiniteSet(X) /\ rc[s] = Cardinality(X)
      BY <1>1, <2>1, FS_Subset, Zenon DEF Exact
    <2>3. h \in X <=> s \in OwnedSlots(h)
      BY <2>1, Zenon
    <2>4. {n \in L \ {h} : s \in OwnedSlots(n)} = X \ {h}
      BY <2>1, Zenon
    <2>5. PICK c : c = rc[s]
      BY Zenon
    <2>6. c - (IF h \in X THEN 1 ELSE 0) \in Nat /\ Cardinality(X \ {h}) = c - (IF h \in X THEN 1 ELSE 0)
      BY <2>2, <2>5, OneLess, Zenon
    <2>7. rn[s] = c - (IF h \in X THEN 1 ELSE 0)
      BY <2>3, <2>5, Zenon DEF Released
    <2> QED BY <2>4, <2>6, <2>7, Zenon
  <1>3. CountsUsers(L, il) /\ CountsUsers(L, rl)
    BY Zenon DEF Exact, CountsUsers
  <1>4. CountsUsers(L \ {h}, in) /\ \A d \in DOMAIN in : in[d] \in Nat
    BY <1>1, <1>3, UsersLess, Zenon
  <1>5. CountsUsers(L \ {h}, ln) /\ \A d \in DOMAIN ln : ln[d] \in Nat
    BY <1>1, <1>3, UsersLess, Zenon
  <1>6. Exact(L \ {h}, rn, in, ln)
    BY <1>2, <1>4, <1>5, Zenon DEF Exact, CountsUsers
  <1>7. Counted(rn, in, ln)
    BY <1>2, <1>4, <1>5, Zenon DEF Counted, Lowered, Released
  <1> QED BY <1>6, <1>7, Zenon

(* A counter of a set that n is in is one when n is the only one.          *)
LEMMA OneLeft ==
  ASSUME NEW X, IsFiniteSet(X), NEW n \in X, NEW c, c = Cardinality(X)
  PROVE  c = 1 <=> X = {n}
  <1>1. ASSUME c = 1 PROVE X = {n}
    <2>1. PICK x : X = {x}
      BY <1>1, FS_Singleton, Zenon
    <2> QED BY <2>1, Zenon
  <1>2. ASSUME X = {n} PROVE c = 1
    BY <1>2, FS_Singleton, Zenon
  <1> QED BY <1>1, <1>2, Zenon

(* A wave whose nodes are all to be reclaimed.                             *)
LEMMA WholeWaveLeft ==
  ASSUME Ready, NEW w \in 1..Len(waves)
  PROVE  Left("reclaim", w, waves[w]) = Nodes \ Earlier(w)
  <1>1. Range(waves[w]) = Current(w) /\ Earlier(w) \intersect Current(w) = {}
    BY WaveFacts, Zenon
  <1>2. Left("reclaim", w, waves[w]) = (Nodes \ (Earlier(w) \union Current(w))) \union Current(w)
    BY <1>1 DEF Left
  <1> QED BY <1>1, <1>2, Zenon DEF Current

(* A wave whose nodes have all been reclaimed.                             *)
LEMMA NextWaveLeft ==
  ASSUME Ready, NEW w \in 1..Len(waves), NEW td, td = <<>>
  PROVE  Left("reclaim", w, td) = Nodes \ Earlier(w + 1)
  <1>1. Earlier(w + 1) = Earlier(w) \union Current(w)
    BY WaveFacts, Zenon
  <1>2. Range(td) = {}
    BY DEF Range
  <1>3. Left("reclaim", w, td) = (Nodes \ (Earlier(w) \union Current(w))) \union Range(td)
    BY DEF Left
  <1> QED BY <1>1, <1>2, <1>3, Zenon

(* A node is reclaimed and counted off what it owns and uses.              *)
LEMMA ReclaimKeeps ==
  ASSUME dag \in Dags, NEW w, NEW td \in Seq(Nodes), td # <<>>, NEW h, h = Head(td),
         NEW rc, NEW il, NEW rl, Counted(rc, il, rl), Counting("reclaim", w, td, rc, il, rl),
         NEW rn, Released(rc, rn, h),
         NEW in, Lowered(il, in, h), NEW ln, Lowered(rl, ln, h)
  PROVE  Counting("reclaim", w, Tail(td), rn, in, ln) /\ Counted(rn, in, ln)
  <1>1. PICK L, t : L = Left("reclaim", w, td) /\ t = Tail(td)
    BY Zenon
  <1>2. Distinct(td) /\ Range(td) \subseteq Current(w) /\ Exact(L, rc, il, rl)
    BY <1>1, Zenon DEF Counting
  <1>3. Range(td) = Range(t) \union {h} /\ Distinct(t) /\ h \notin Range(t)
    BY <1>1, <1>2, TakeHead, DistinctTail, Zenon
  <1>4. /\ L = (Nodes \ (Earlier(w) \union Current(w))) \union Range(td)
        /\ Left("reclaim", w, t) = (Nodes \ (Earlier(w) \union Current(w))) \union Range(t)
    BY <1>1 DEF Left
  <1>5. L \in SUBSET Nodes /\ h \in L
    BY <1>2, <1>3, <1>4, Zenon DEF Current
  <1>6. Exact(L \ {h}, rn, in, ln) /\ Counted(rn, in, ln)
    BY <1>2, <1>5, CountOff, Zenon
  <1>7. Left("reclaim", w, t) = L \ {h}
    BY <1>2, <1>3, <1>4, Zenon
  <1>8. Counting("reclaim", w, t, rn, in, ln)
    BY <1>2, <1>3, <1>6, <1>7, Zenon DEF Counting
  <1> QED BY <1>1, <1>6, <1>8, Zenon

(* The nodes of a run that reclamation has not come to.                    *)
LEMMA NotReclaimed ==
  ASSUME Ready, NEW w \in 1..Len(waves), NEW td
  PROVE  Left("reclaim", w, td) = {n \in Nodes : level[n] >= w} \union Range(td)
  <1>1. level \in [Nodes -> Nat] /\ waves \in Seq(Seq(Nodes))
    BY Zenon DEF Ready, Filling
  <1>2. \A n \in Nodes : level[n] >= w <=> ~ (level[n] + 1 < w) /\ ~ (level[n] + 1 = w)
    BY <1>1
  <1>3. \A n \in Nodes : level[n] >= w <=> n \notin Earlier(w) \union Current(w)
    BY <1>2, Zenon DEF Earlier, Current
  <1>4. Left("reclaim", w, td) = (Nodes \ (Earlier(w) \union Current(w))) \union Range(td)
    BY DEF Left
  <1> QED BY <1>3, <1>4, Zenon

(* A counter of what h owns or uses is one when h is the last of L.        *)
TellLast(L, h, rc, il, rl) ==
    /\ \A s \in Slots : s \in OwnedSlots(h) =>
         (rc[s] = 1 <=> {m \in L : s \in OwnedSlots(m)} = {h})
    /\ \A d \in Deps(h) \intersect DOMAIN il : il[d] = 1 <=> Users(d) \intersect L = {h}
    /\ \A d \in Deps(h) \intersect DOMAIN rl : rl[d] = 1 <=> Users(d) \intersect L = {h}

(* Exact counters tell the last reader.                                    *)
LEMMA LastOfAll ==
  ASSUME Ready, NEW w \in 1..Len(waves), NEW td \in Seq(Nodes), td # <<>>, NEW h, h = Head(td),
         NEW rc, NEW il, NEW rl, Counting("reclaim", w, td, rc, il, rl),
         NEW L, L = Left("reclaim", w, td)
  PROVE  TellLast(L, h, rc, il, rl)
  <1>1. L = (Nodes \ (Earlier(w) \union Current(w))) \union Range(td)
    BY DEF Left
  <1>2. Exact(L, rc, il, rl) /\ Range(td) \subseteq Current(w)
    BY Zenon DEF Counting
  <1>3. h \in L /\ L \subseteq Nodes
    BY <1>1, <1>2, TakeHead, Zenon DEF Current
  <1>4. IsFiniteSet(L)
    BY <1>3, DagFacts, FS_Subset, Zenon DEF Ready
  <1>5. ASSUME NEW s \in Slots, s \in OwnedSlots(h)
        PROVE  rc[s] = 1 <=> {m \in L : s \in OwnedSlots(m)} = {h}
    <2>1. PICK X : X = {m \in L : s \in OwnedSlots(m)}
      BY Zenon
    <2>2. IsFiniteSet(X) /\ h \in X /\ rc[s] = Cardinality(X)
      BY <1>2, <1>3, <1>4, <1>5, <2>1, FS_Subset, Zenon DEF Exact
    <2> QED BY <2>1, <2>2, OneLeft, Zenon
  <1>6. ASSUME NEW d \in Deps(h), NEW f, CountsUsers(L, f), d \in DOMAIN f
        PROVE  f[d] = 1 <=> Users(d) \intersect L = {h}
    <2>1. PICK X : X = {m \in L : d \in Deps(m)}
      BY Zenon
    <2>2. IsFiniteSet(X) /\ h \in X /\ f[d] = Cardinality(X)
      BY <1>3, <1>4, <1>6, <2>1, FS_Subset, Zenon DEF CountsUsers
    <2>3. Users(d) \intersect L = X
      BY <1>3, <2>1, Zenon DEF Users
    <2> QED BY <2>2, <2>3, OneLeft, Zenon
  <1>7. CountsUsers(L, il) /\ CountsUsers(L, rl)
    BY <1>2, Zenon DEF Exact, CountsUsers
  <1> QED BY <1>5, <1>6, <1>7, Zenon DEF TellLast
=============================================================================
