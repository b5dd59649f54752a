--------------------------- MODULE PagePoolProofs ---------------------------
(***************************************************************************)
(* Single ownership of pages, proved for every number of pages, shards and *)
(* guests, for the schedules in which slots are freed only between waves;  *)
(* then that nothing is lost, and that the pool implements PageOwnership.  *)
(*                                                                         *)
(* The invariant follows no chain of links.  A free list and a slot's      *)
(* chain are described by facts about single links (each link stays inside *)
(* the set, no two links meet, none leads back to the head), which is what *)
(* a pop, an append and a push preserve.                                   *)
(***************************************************************************)
EXTENDS PagePool, TLAPS

(* The DAG runs no prefetch, deferred receive, FreeSlots node or pipeline. *)
Phased == Background = {} /\ WaveFreers = {}

(* Pages the bump pointer has not reached are untouched.                   *)
Fresh ==
    /\ \A sh \in Shard : \A p \in freeOn[sh] : p < bump
    /\ \A t \in Threads : \A p \in held[t] : p < bump
    /\ \A s \in Allocators : \A p \in chain[s] : p < bump
    /\ \A p \in Page : p >= bump => next[p] = Null

(* SingleOwner, page by page.                                              *)
Owned ==
    /\ \A t, u \in Threads : \A p \in held[t] : p \in held[u] => t = u
    /\ \A s, r \in Allocators : \A p \in chain[s] : p \in chain[r] => s = r
    /\ \A a, b \in Shard : \A p \in freeOn[a] : p \in freeOn[b] => a = b
    /\ \A t \in Threads, s \in Allocators : \A p \in held[t] : p \notin chain[s]
    /\ \A t \in Threads, a \in Shard : \A p \in held[t] : p \notin freeOn[a]
    /\ \A s \in Allocators, a \in Shard : \A p \in chain[s] : p \notin freeOn[a]

(* S is linked from h: links stay in S, do not meet and do not reach h.    *)
IsList(h, S) ==
    /\ h # Null => h \in S
    /\ \A p \in S : next[p] # Null => next[p] \in S /\ next[p] # h
    /\ \A p, q \in S : next[p] = next[q] /\ next[p] # Null => p = q

(* The same for a chain from h to t; the link of t is not constrained.     *)
IsChain(h, t, S) ==
    /\ h \in S /\ t \in S
    /\ \A p \in S : p # t => next[p] \in S /\ next[p] # h
    /\ \A p, q \in S : p # t /\ q # t /\ next[p] = next[q] => p = q

FreeLists == \A sh \in Shard : IsList(heads[sh], freeOn[sh])

Slots ==
    \A s \in Allocators :
        \/ slotHead[s] = Null /\ slotTail[s] = Null /\ chain[s] = {}
        \/ /\ IsChain(slotHead[s], slotTail[s], chain[s])
           /\ next[slotTail[s]] = Null

(* The runner and the guests are never active together.                    *)
Phases ==
    /\ pc[Host] # "idle" => phase = "reclaim"
    /\ phase = "reclaim" => \A t \in Allocators : pc[t] = "idle"

(* A guest in the middle of a pop: the head it loaded is still the head,   *)
(* or has left the free lists and cannot come back during the wave.        *)
GuestOK(t) ==
    /\ pc[t] \in {"idle", "load", "next", "cas", "reset", "bump", "link"}
    /\ pc[t] \in {"idle", "load", "next", "cas", "bump"} => held[t] = {}
    /\ pc[t] \in {"reset", "link"} => hd[t] \in Page /\ held[t] = {hd[t]}
    /\ pc[t] = "link" => next[hd[t]] = Null
    /\ pc[t] \in {"next", "cas"} =>
        /\ hd[t] \in Page
        /\ hd[t] = heads[ScanShard(t)] \/ \A sh \in Shard : hd[t] \notin freeOn[sh]
    /\ pc[t] = "cas" /\ hd[t] = heads[ScanShard(t)] => nx[t] = next[hd[t]]

HostOK ==
    /\ pc[Host] \in {"idle", "load", "next", "cas",
                     "walk", "pushload", "pushstore", "pushcas"}
    /\ pc[Host] \in {"idle", "load", "next", "cas"} => held[Host] = {}
    /\ pc[Host] \in {"next", "cas"} =>
        hd[Host] \in Page /\ hd[Host] = heads[ScanShard(Host)]
    /\ pc[Host] = "cas" => nx[Host] = next[hd[Host]]
    /\ pc[Host] = "walk" =>
        /\ tl[Host] \in held[Host]
        /\ \E t \in held[Host] : IsChain(hd[Host], t, held[Host]) /\ next[t] = Null
    /\ pc[Host] \in {"pushload", "pushstore", "pushcas"} =>
        IsChain(hd[Host], tl[Host], held[Host])
    /\ pc[Host] \in {"pushstore", "pushcas"} => nx[Host] = heads[ShardOf(hd[Host])]
    /\ pc[Host] = "pushcas" => next[tl[Host]] = nx[Host]

Inv ==
    /\ TypeOK
    /\ Fresh
    /\ Owned
    /\ FreeLists
    /\ Slots
    /\ Phases
    /\ \A t \in Allocators : GuestOK(t)
    /\ HostOK

(***************************************************************************)
(* Constants                                                               *)
(***************************************************************************)

(* Every shard index the code computes is a shard.                         *)
LEMMA ModShard == \A n \in Nat : n % NShards \in Shard
  BY PoolAssumption DEF Shard

(* The shard a scan looks at is one of the free-list shards.               *)
LEMMA ScanShardType ==
  ASSUME TypeOK, NEW t \in Threads PROVE ScanShard(t) \in Shard
  <1>1. start[t] + tried[t] \in Nat
    BY PoolAssumption DEF TypeOK, Shard
  <1> QED BY <1>1, ModShard, Zenon DEF ScanShard

(* The shard a page returns to is one of the free-list shards.             *)
LEMMA ShardOfType == \A p \in Page : ShardOf(p) \in Shard
  BY ModShard DEF ShardOf, Page

(* Where the constants live; keeps arithmetic out of the proofs below.     *)
LEMMA ConstantTypes ==
  /\ Null \in Link /\ Null \notin Page /\ Page \subseteq Link
  /\ \A p \in Link : p # Null => p \in Page
  /\ 0 \in Shard /\ 0 \in 0 .. NShards
  BY PoolAssumption DEF Link, Null, Page, Shard

(* In a phased run the threads are the guests and the runner.              *)
LEMMA ThreadSets ==
  ASSUME Phased
  PROVE  /\ Host \in Threads /\ Host \notin Allocators /\ Host \notin WaveFreers
         /\ \A t \in Allocators : t \in Threads /\ t \in Guests /\ t \notin Background
         /\ \A t \in Threads : t \in Allocators \/ t = Host
         /\ \A f \in Freers : f = Host
  BY PoolAssumption, Zenon DEF Phased, Allocators, Freers, Threads

(***************************************************************************)
(* What a step that leaves something alone does to the invariant           *)
(***************************************************************************)

(* Steps on registers only keep what the invariant says of the memory.     *)
LEMMA MemoryUnchanged ==
  ASSUME Inv, UNCHANGED <<heads, next, bump, slotHead, slotTail, freeOn, held, chain>>
  PROVE  Fresh' /\ Owned' /\ FreeLists' /\ Slots'
  <1>1. Fresh' BY Zenon DEF Inv, Fresh
  <1>2. Owned' BY Zenon DEF Inv, Owned
  <1>3. FreeLists' BY Zenon DEF Inv, FreeLists, IsList
  <1>4. Slots' BY Zenon DEF Inv, Slots, IsChain
  <1> QED BY <1>1, <1>2, <1>3, <1>4, Zenon

(* Ownership facts when the links of no owned page and no head change.     *)
LEMMA ListsUnchanged ==
  ASSUME FreeLists, heads' = heads, freeOn' = freeOn,
         \A sh \in Shard : \A p \in freeOn[sh] : next'[p] = next[p]
  PROVE  FreeLists'
  BY DEF FreeLists, IsList

(* The chain of a slot when neither its ends nor the links of its pages    *)
(* change.                                                                 *)
LEMMA SlotUnchanged ==
  ASSUME Slots, NEW s \in Allocators, \A p \in chain[s] : next'[p] = next[p],
         slotHead'[s] = slotHead[s], slotTail'[s] = slotTail[s], chain'[s] = chain[s]
  PROVE  \/ slotHead'[s] = Null /\ slotTail'[s] = Null /\ chain'[s] = {}
         \/ /\ IsChain(slotHead[s], slotTail[s], chain[s])'
            /\ next'[slotTail'[s]] = Null
  <1>1. \/ slotHead[s] = Null /\ slotTail[s] = Null /\ chain[s] = {}
        \/ IsChain(slotHead[s], slotTail[s], chain[s]) /\ next[slotTail[s]] = Null
    BY Zenon DEF Slots
  <1> QED BY <1>1, Zenon DEF IsChain

(* While guests run, the runner sleeps.                                    *)
LEMMA RunnerAsleep ==
  ASSUME Phased, Inv, NEW t \in Allocators, pc[t] # "idle",
         pc'[Host] = pc[Host], held'[Host] = held[Host]
  PROVE  pc[Host] = "idle" /\ HostOK'
  <1>1. pc[Host] = "idle"
    BY Zenon DEF Inv, Phases
  <1> QED BY <1>1, Zenon DEF Inv, HostOK

(* While the runner reclaims, no guest runs.                               *)
LEMMA GuestsAsleep ==
  ASSUME Phased, Inv, phase = "reclaim",
         \A t \in Allocators : pc'[t] = pc[t] /\ held'[t] = held[t]
  PROVE  \A t \in Allocators : pc[t] = "idle" /\ GuestOK(t)'
  <1>1. \A t \in Allocators : pc[t] = "idle"
    BY Zenon DEF Inv, Phases
  <1> QED BY <1>1, Zenon DEF Inv, GuestOK

(* A guest whose registers and loaded head are left alone.                 *)
LEMMA GuestUnchanged ==
  ASSUME NEW t \in Allocators, GuestOK(t),
         pc'[t] = pc[t], hd'[t] = hd[t], nx'[t] = nx[t], held'[t] = held[t],
         start'[t] = start[t], tried'[t] = tried[t], heads' = heads, freeOn' = freeOn,
         pc[t] \in {"cas", "link"} => next'[hd[t]] = next[hd[t]]
  PROVE  GuestOK(t)'
  <1>1. ScanShard(t)' = ScanShard(t)
    BY Zenon DEF ScanShard
  <1> QED BY <1>1, Zenon DEF GuestOK

(* A page a thread holds is in no list, chain or other hand.               *)
LEMMA HeldAlone ==
  ASSUME Owned, NEW t \in Threads, NEW p \in held[t]
  PROVE  /\ \A u \in Threads : u # t => p \notin held[u]
         /\ \A s \in Allocators : p \notin chain[s]
         /\ \A a \in Shard : p \notin freeOn[a]
  BY Zenon DEF Owned

(***************************************************************************)
(* Allocation                                                              *)
(***************************************************************************)

(* Starting an allocation keeps the invariant.                             *)
LEMMA StartAllocStep ==
  ASSUME Phased, Inv, NEW t \in Allocators, StartAlloc(t)
  PROVE  Inv'
  <1>a. /\ phase = "wave" /\ pc[t] = "idle" /\ pc' = [pc EXCEPT ![t] = "load"]
        /\ UNCHANGED <<shared, phase, hd, nx, tl, ghosts>>
    BY ThreadSets, Zenon DEF StartAlloc, Goto
  <1>b. /\ pc'[t] = "load" /\ \A u \in Threads : u # t => pc'[u] = pc[u]
        /\ \A u \in Threads : u # t => start'[u] = start[u] /\ tried'[u] = tried[u]
    BY ThreadSets, <1>a, Zenon DEF StartAlloc, Inv, TypeOK
  <1>1. TypeOK'
    BY ThreadSets, ConstantTypes DEF StartAlloc, Goto, shared, ghosts, Inv, TypeOK, Labels
  <1>2. Fresh' /\ Owned' /\ FreeLists' /\ Slots'
    BY <1>a, MemoryUnchanged, Zenon DEF shared, ghosts
  <1>6. Phases'
    BY <1>a, <1>b, ThreadSets, Zenon DEF Inv, Phases
  <1>7. \A u \in Allocators : GuestOK(u)'
    <2> SUFFICES ASSUME NEW u \in Allocators PROVE GuestOK(u)'
      BY Zenon
    <2>1. CASE u = t
      BY <2>1, <1>a, <1>b, Zenon DEF Inv, GuestOK, ghosts
    <2>2. CASE u # t
      BY <2>2, <1>a, <1>b, ThreadSets, GuestUnchanged, Zenon DEF Inv, shared, ghosts
    <2> QED BY <2>1, <2>2, Zenon
  <1>8. HostOK'
    <2>1. pc[Host] = "idle"
      BY <1>a, Zenon DEF Inv, Phases
    <2> QED BY <2>1, <1>a, <1>b, ThreadSets, Zenon DEF Inv, HostOK, ghosts
  <1> QED BY <1>1, <1>2, <1>6, <1>7, <1>8, Zenon DEF Inv

(* Loading a head keeps the invariant: it is the head now.                 *)
LEMMA LoadHeadStep ==
  ASSUME Phased, Inv, NEW t \in Allocators \union {Host}, LoadHead(t)
  PROVE  Inv'
  <1>a. t \in Threads /\ ScanShard(t) \in Shard /\ heads[ScanShard(t)] \in Link
    BY ThreadSets, ScanShardType, Zenon DEF Inv, TypeOK
  <1>b. /\ pc[t] = "load" /\ hd'[t] = heads[ScanShard(t)]
        /\ \/ pc'[t] = "next" /\ hd'[t] # Null /\ start' = start /\ tried' = tried
           \/ pc'[t] = "load"
           \/ pc'[t] = IF t = Host THEN "idle" ELSE "bump"
        /\ \A u \in Threads : u # t => /\ pc'[u] = pc[u] /\ hd'[u] = hd[u]
                                       /\ start'[u] = start[u] /\ tried'[u] = tried[u]
        /\ UNCHANGED <<shared, phase, nx, tl, ghosts>>
    BY <1>a, Zenon DEF LoadHead, Goto, EndScan, Inv, TypeOK
  <1>1. TypeOK'
    <2>1. hd' \in [Threads -> Link]
      BY <1>a, Zenon DEF LoadHead, Inv, TypeOK
    <2>2. pc' \in [Threads -> Labels]
      BY Zenon DEF LoadHead, Goto, Inv, TypeOK, Labels
    <2>3. tried[t] + 1 < NShards => tried[t] + 1 \in 0 .. NShards
      BY <1>a, PoolAssumption DEF Inv, TypeOK
    <2>4. start' \in [Threads -> Shard] /\ tried' \in [Threads -> 0 .. NShards]
      BY <2>3, ConstantTypes DEF LoadHead, EndScan, Inv, TypeOK
    <2> QED BY <1>b, <2>1, <2>2, <2>4, Zenon DEF Inv, TypeOK, shared, ghosts
  <1>2. Fresh' /\ Owned' /\ FreeLists' /\ Slots'
    BY <1>b, MemoryUnchanged, Zenon DEF shared, ghosts
  <1>6. Phases'
    BY <1>a, <1>b, ThreadSets, Zenon DEF Inv, Phases
  <1>7. \A u \in Allocators : GuestOK(u)'
    <2> SUFFICES ASSUME NEW u \in Allocators PROVE GuestOK(u)'
      BY Zenon
    <2>1. CASE u = t
      <3>1. pc'[t] = "next" => hd'[t] \in Page /\ ScanShard(t)' = ScanShard(t)
        BY <1>a, <1>b, ConstantTypes, Zenon DEF ScanShard
      <3>2. held'[t] = {} /\ heads' = heads
        BY <2>1, <1>b, Zenon DEF Inv, GuestOK, shared, ghosts
      <3> QED BY <2>1, <1>b, <3>1, <3>2, ThreadSets, Zenon DEF GuestOK
    <2>2. CASE u # t
      BY <2>2, <1>b, ThreadSets, GuestUnchanged, Zenon DEF Inv, shared, ghosts
    <2> QED BY <2>1, <2>2, Zenon
  <1>8. HostOK'
    <2>1. CASE t = Host
      <3>1. pc'[t] = "next" => hd'[t] \in Page /\ ScanShard(t)' = ScanShard(t)
        BY <1>a, <1>b, ConstantTypes, Zenon DEF ScanShard
      <3>2. held'[t] = {} /\ heads' = heads
        BY <2>1, <1>b, Zenon DEF Inv, HostOK, shared, ghosts
      <3> QED BY <2>1, <1>b, <3>1, <3>2, Zenon DEF HostOK
    <2>2. CASE t # Host
      BY <2>2, <1>b, ThreadSets, RunnerAsleep, Zenon DEF ghosts
    <2> QED BY <2>1, <2>2, Zenon
  <1> QED BY <1>1, <1>2, <1>6, <1>7, <1>8, Zenon DEF Inv

(* Loading the successor of the loaded head keeps the invariant.           *)
LEMMA LoadNextStep ==
  ASSUME Phased, Inv, NEW t \in Allocators \union {Host}, LoadNext(t)
  PROVE  Inv'
  <1>a. t \in Threads /\ hd[t] \in Page
    BY ThreadSets, Zenon DEF LoadNext, Inv, GuestOK, HostOK
  <1>b. /\ pc[t] = "next" /\ pc'[t] = "cas" /\ nx'[t] = next[hd[t]]
        /\ \A u \in Threads : u # t => pc'[u] = pc[u] /\ nx'[u] = nx[u]
        /\ UNCHANGED <<shared, phase, start, tried, hd, tl, ghosts>>
    BY <1>a, Zenon DEF LoadNext, Goto, Inv, TypeOK
  <1>c. ScanShard(t)' = ScanShard(t)
    BY <1>b, Zenon DEF ScanShard
  <1>1. TypeOK'
    BY <1>a, Zenon DEF LoadNext, Goto, Inv, TypeOK, Labels, shared, ghosts
  <1>2. Fresh' /\ Owned' /\ FreeLists' /\ Slots'
    BY <1>b, MemoryUnchanged, Zenon DEF shared, ghosts
  <1>6. Phases'
    BY <1>a, <1>b, ThreadSets, Zenon DEF Inv, Phases
  <1>7. \A u \in Allocators : GuestOK(u)'
    <2> SUFFICES ASSUME NEW u \in Allocators PROVE GuestOK(u)'
      OBVIOUS
    <2>1. CASE u = t
      BY <2>1, <1>b, <1>c, Zenon DEF Inv, GuestOK, shared, ghosts
    <2>2. CASE u # t
      BY <2>2, <1>b, ThreadSets, GuestUnchanged, Zenon DEF Inv, shared, ghosts
    <2> QED BY <2>1, <2>2
  <1>8. HostOK'
    <2>1. CASE t = Host
      BY <2>1, <1>b, <1>c, Zenon DEF Inv, HostOK, shared, ghosts
    <2>2. CASE t # Host
      BY <2>2, <1>b, ThreadSets, RunnerAsleep, Zenon DEF ghosts
    <2> QED BY <2>1, <2>2
  <1> QED BY <1>1, <1>2, <1>6, <1>7, <1>8 DEF Inv

(* A pop that loses the race only forgets what it loaded.                  *)
LEMMA PopFailStep ==
  ASSUME Phased, Inv, NEW t \in Allocators \union {Host}, PopCas(t),
         heads[ScanShard(t)] # hd[t]
  PROVE  Inv'
  <1>a. /\ t \in Threads /\ pc[t] = "cas" /\ pc'[t] = "load" /\ hd'[t] = Null
        /\ \A u \in Threads : u # t => pc'[u] = pc[u] /\ hd'[u] = hd[u] /\ nx'[u] = nx[u]
        /\ UNCHANGED <<shared, phase, start, tried, tl, ghosts>>
    BY ThreadSets, Zenon DEF PopCas, Goto, Inv, TypeOK, shared, ghosts
  <1>1. TypeOK'
    <2>1. hd' \in [Threads -> Link] /\ nx' \in [Threads -> Link]
      BY ConstantTypes, Zenon DEF PopCas, Inv, TypeOK
    <2>2. pc' \in [Threads -> Labels]
      BY Zenon DEF PopCas, Goto, Inv, TypeOK, Labels
    <2> QED BY <1>a, <2>1, <2>2, Zenon DEF Inv, TypeOK, shared, ghosts
  <1>2. Fresh' /\ Owned' /\ FreeLists' /\ Slots'
    BY <1>a, MemoryUnchanged, Zenon DEF shared, ghosts
  <1>6. Phases'
    BY <1>a, ThreadSets, Zenon DEF Inv, Phases
  <1>7. \A u \in Allocators : GuestOK(u)'
    <2> SUFFICES ASSUME NEW u \in Allocators PROVE GuestOK(u)'
      BY Zenon
    <2>1. CASE u = t
      BY <2>1, <1>a, Zenon DEF Inv, GuestOK, ghosts
    <2>2. CASE u # t
      BY <2>2, <1>a, ThreadSets, GuestUnchanged, Zenon DEF Inv, shared, ghosts
    <2> QED BY <2>1, <2>2, Zenon
  <1>8. HostOK'
    <2>1. CASE t = Host
      BY <2>1, <1>a, Zenon DEF Inv, HostOK, ghosts
    <2>2. CASE t # Host
      BY <2>2, <1>a, ThreadSets, RunnerAsleep, Zenon DEF ghosts
    <2> QED BY <2>1, <2>2, Zenon
  <1> QED BY <1>1, <1>2, <1>6, <1>7, <1>8, Zenon DEF Inv

(* A pop that wins takes the head, and the successor it loaded is current. *)
LEMMA PopWinStep ==
  ASSUME Phased, Inv, NEW t \in Allocators \union {Host}, PopCas(t),
         heads[ScanShard(t)] = hd[t]
  PROVE  Inv'
  <1> DEFINE sh == ScanShard(t)
  <1>a. t \in Threads /\ sh \in Shard /\ hd[t] \in Page /\ held[t] = {} /\ pc[t] = "cas"
    BY ThreadSets, ScanShardType, Zenon DEF PopCas, Inv, GuestOK, HostOK
  <1>b. hd[t] \in freeOn[sh] /\ nx[t] = next[hd[t]] /\ IsList(hd[t], freeOn[sh])
    BY <1>a, ConstantTypes DEF PopCas, Inv, FreeLists, IsList, GuestOK, HostOK
  <1>c. /\ heads' = [heads EXCEPT ![sh] = nx[t]]
        /\ freeOn' = [freeOn EXCEPT ![sh] = @ \ {hd[t]}]
        /\ held' = [held EXCEPT ![t] = {hd[t]}]
        /\ pc' = [pc EXCEPT ![t] = IF t = Host THEN "pushload" ELSE "reset"]
        /\ nx' = [nx EXCEPT ![t] = Null]
        /\ tl' = [tl EXCEPT ![t] = IF t = Host THEN hd[t] ELSE Null]
        /\ start' = [start EXCEPT ![t] = 0] /\ tried' = [tried EXCEPT ![t] = 0]
        /\ UNCHANGED <<hd, next, bump, slotHead, slotTail, phase, chain>>
    BY Zenon DEF PopCas, Goto, EndScan
  <1> HIDE DEF sh
  <1>d. /\ held'[t] = {hd[t]} /\ \A u \in Threads : u # t => held'[u] = held[u]
        /\ freeOn'[sh] = freeOn[sh] \ {hd[t]}
        /\ \A a \in Shard : a # sh => freeOn'[a] = freeOn[a]
        /\ heads'[sh] = nx[t] /\ \A a \in Shard : a # sh => heads'[a] = heads[a]
    BY <1>a, <1>c, Zenon DEF Inv, TypeOK
  <1>e. /\ pc'[t] = IF t = Host THEN "pushload" ELSE "reset"
        /\ t = Host => tl'[t] = hd[t]
        /\ \A u \in Threads : u # t =>
             /\ pc'[u] = pc[u] /\ nx'[u] = nx[u]
             /\ start'[u] = start[u] /\ tried'[u] = tried[u]
    BY <1>a, <1>c, Zenon DEF Inv, TypeOK
  <1>f. /\ \A u \in Threads : hd[t] \notin held[u]
        /\ \A s \in Allocators : hd[t] \notin chain[s]
        /\ \A a \in Shard : a # sh => hd[t] \notin freeOn[a]
    BY <1>a, <1>b, Zenon DEF Inv, Owned
  <1>1. TypeOK'
    <2>1. heads' \in [Shard -> Link]
      BY <1>a, <1>c, Zenon DEF Inv, TypeOK
    <2>2. freeOn' \in [Shard -> SUBSET Page]
      BY <1>a, <1>c, Zenon DEF Inv, TypeOK
    <2>3. held' \in [Threads -> SUBSET Page]
      BY <1>a, <1>c, Zenon DEF Inv, TypeOK
    <2>4. (IF t = Host THEN hd[t] ELSE Null) \in Link
      BY <1>a, ConstantTypes, Zenon
    <2>5. tl' \in [Threads -> Link] /\ nx' \in [Threads -> Link]
      BY <1>c, <2>4, ConstantTypes, Zenon DEF Inv, TypeOK
    <2>6. start' \in [Threads -> Shard] /\ tried' \in [Threads -> 0 .. NShards]
      BY <1>c, ConstantTypes, Zenon DEF Inv, TypeOK
    <2>7. pc' \in [Threads -> Labels]
      BY <1>c, Zenon DEF Inv, TypeOK, Labels
    <2> QED BY <1>c, <2>1, <2>2, <2>3, <2>5, <2>6, <2>7, Zenon DEF Inv, TypeOK
  <1>2. Fresh'
    BY <1>a, <1>b, <1>c, <1>d DEF Inv, Fresh
  <1>3. Owned'
    <2>1. \A u, v \in Threads : \A p \in held'[u] : p \in held'[v] => u = v
      BY <1>a, <1>c, <1>d, <1>f DEF Inv, Owned
    <2>2. \A r, q \in Allocators : \A p \in chain'[r] : p \in chain'[q] => r = q
      BY <1>a, <1>c, <1>d, <1>f, Zenon DEF Inv, Owned
    <2>3. \A a, b \in Shard : \A p \in freeOn'[a] : p \in freeOn'[b] => a = b
      BY <1>a, <1>c, <1>d, <1>f, Zenon DEF Inv, Owned
    <2>4. \A u \in Threads, r \in Allocators : \A p \in held'[u] : p \notin chain'[r]
      BY <1>a, <1>c, <1>d, <1>f DEF Inv, Owned
    <2>5. \A u \in Threads, a \in Shard : \A p \in held'[u] : p \notin freeOn'[a]
      BY <1>a, <1>c, <1>d, <1>f DEF Inv, Owned
    <2>6. \A r \in Allocators, a \in Shard : \A p \in chain'[r] : p \notin freeOn'[a]
      BY <1>a, <1>c, <1>d, <1>f DEF Inv, Owned
    <2> QED BY <2>1, <2>2, <2>3, <2>4, <2>5, <2>6, Zenon DEF Owned
  <1>4. FreeLists'
    <2> SUFFICES ASSUME NEW a \in Shard PROVE IsList(heads[a], freeOn[a])'
      BY Zenon DEF FreeLists, IsList
    <2>1. CASE a # sh
      BY <2>1, <1>c, <1>d DEF Inv, FreeLists, IsList
    <2>2. CASE a = sh
      BY <2>2, <1>a, <1>b, <1>c, <1>d, ConstantTypes DEF IsList
    <2> QED BY <2>1, <2>2, Zenon
  <1>5. Slots'
    BY <1>c, Zenon DEF Inv, Slots, IsChain
  <1>6. Phases'
    BY <1>a, <1>c, <1>e, ThreadSets, Zenon DEF Inv, Phases
  <1>7. \A u \in Allocators : GuestOK(u)'
    <2> SUFFICES ASSUME NEW u \in Allocators PROVE GuestOK(u)'
      BY Zenon
    <2>1. CASE u = t
      BY <2>1, <1>a, <1>c, <1>d, <1>e, ThreadSets DEF GuestOK
    <2>2. CASE u # t /\ t = Host
      <3>1. pc[u] = "idle" /\ pc'[u] = "idle" /\ held'[u] = held[u]
        BY <2>2, <1>a, <1>d, <1>e, ThreadSets, Zenon DEF Inv, Phases
      <3> QED BY <3>1, Zenon DEF Inv, GuestOK
    <2>3. CASE u # t /\ t # Host
      <3> DEFINE su == ScanShard(u)
      <3>1. ScanShard(u)' = su /\ su \in Shard
        BY <2>3, <1>e, ThreadSets, ScanShardType, Zenon DEF ScanShard, Inv
      <3> HIDE DEF su
      <3>2. GuestOK(u) /\ u \in Threads
        BY ThreadSets, Zenon DEF Inv
      <3>3. nx[t] # Null => nx[t] \in freeOn[sh]
        BY <1>b, Zenon DEF IsList
      <3>4. pc[u] \in {"next", "cas"} => hd[u] # nx[t] \/ su # sh
        <4>1. pc[u] \in {"next", "cas"} =>
                /\ hd[u] \in Page
                /\ hd[u] = heads[su] \/ \A a \in Shard : hd[u] \notin freeOn[a]
          BY <3>2, Zenon DEF GuestOK, su
        <4>2. nx[t] # hd[t] /\ heads[sh] = hd[t]
          BY <1>a, <1>b, ConstantTypes, Zenon DEF IsList, sh
        <4> QED BY <4>1, <4>2, <3>3, <1>a, ConstantTypes, Zenon
      <3>5. pc[u] \in {"next", "cas"} =>
              \/ hd[u] = heads'[su] /\ hd[u] = heads[su]
              \/ hd[u] # heads'[su] /\ \A a \in Shard : hd[u] \notin freeOn'[a]
        <4>1. CASE su # sh
          BY <4>1, <3>1, <3>2, <1>a, <1>d DEF GuestOK, Inv, FreeLists, IsList, su
        <4>2. CASE su = sh
          <5>1. pc[u] \in {"next", "cas"} =>
                  hd[u] = hd[t] \/ \A a \in Shard : hd[u] \notin freeOn[a]
            BY <4>2, <3>2, Zenon DEF GuestOK, su, sh
          <5>2. \A a \in Shard : freeOn'[a] \subseteq freeOn[a] /\ hd[t] \notin freeOn'[a]
            BY <1>d, <1>f, Zenon
          <5> QED BY <4>2, <3>4, <5>1, <5>2, <1>d, Zenon
        <4> QED BY <4>1, <4>2, Zenon
      <3> QED BY <2>3, <3>1, <3>2, <3>5, <1>c, <1>d, <1>e, Zenon DEF GuestOK, su
    <2> QED BY <2>1, <2>2, <2>3, Zenon
  <1>8. HostOK'
    <2>1. CASE t = Host
      BY <2>1, <1>c, <1>d, <1>e DEF HostOK, IsChain
    <2>2. CASE t # Host
      BY <2>2, <1>a, <1>d, <1>e, ThreadSets, RunnerAsleep, Zenon
    <2> QED BY <2>1, <2>2, Zenon
  <1> QED BY <1>1, <1>2, <1>3, <1>4, <1>5, <1>6, <1>7, <1>8, Zenon DEF Inv

(* Resetting a popped page keeps the invariant: nobody else can reach it.  *)
LEMMA ResetPageStep ==
  ASSUME Phased, Inv, NEW t \in Allocators, ResetPage(t)
  PROVE  Inv'
  <1>a. t \in Threads /\ hd[t] \in Page /\ held[t] = {hd[t]} /\ pc[t] = "reset"
    BY ThreadSets, Zenon DEF ResetPage, Inv, GuestOK
  <1>b. /\ \A u \in Threads : u # t => hd[t] \notin held[u]
        /\ \A s \in Allocators : hd[t] \notin chain[s]
        /\ \A a \in Shard : hd[t] \notin freeOn[a]
    BY <1>a, HeldAlone, Zenon DEF Inv
  <1>c. /\ pc'[t] = "link" /\ \A u \in Threads : u # t => pc'[u] = pc[u]
        /\ next'[hd[t]] = Null /\ \A p \in Page : p # hd[t] => next'[p] = next[p]
        /\ UNCHANGED <<heads, bump, slotHead, slotTail, phase, regs, ghosts>>
    BY <1>a, Zenon DEF ResetPage, Goto, Inv, TypeOK
  <1>1. TypeOK'
    BY <1>a, ConstantTypes, Zenon DEF ResetPage, Goto, regs, ghosts, Inv, TypeOK, Labels
  <1>2. Fresh'
    BY <1>c, Zenon DEF Inv, Fresh, ghosts
  <1>3. Owned'
    BY <1>c, Zenon DEF Inv, Owned, ghosts
  <1>4. FreeLists'
    <2>1. \A a \in Shard : \A p \in freeOn[a] : next'[p] = next[p]
      BY <1>b, <1>c, Zenon DEF Inv, TypeOK
    <2> QED BY <2>1, <1>c, ListsUnchanged, Zenon DEF Inv, ghosts
  <1>5. Slots'
    <2>1. \A s \in Allocators : \A p \in chain[s] : next'[p] = next[p]
      BY <1>b, <1>c, Zenon DEF Inv, TypeOK
    <2> QED BY <2>1, <1>c, SlotUnchanged, Zenon DEF Inv, ghosts, Slots
  <1>6. Phases'
    BY <1>a, <1>c, ThreadSets, Zenon DEF Inv, Phases
  <1>7. \A u \in Allocators : GuestOK(u)'
    <2> SUFFICES ASSUME NEW u \in Allocators PROVE GuestOK(u)'
      OBVIOUS
    <2>1. CASE u = t
      BY <2>1, <1>a, <1>c, Zenon DEF GuestOK, regs, ghosts
    <2>2. CASE u # t
      <3>1. pc[u] = "cas" /\ hd[u] = heads[ScanShard(u)] => hd[u] # hd[t] /\ hd[u] \in Page
        BY <1>b, ThreadSets, ScanShardType, ConstantTypes DEF Inv, GuestOK, FreeLists, IsList
      <3>2. pc[u] = "link" => hd[u] # hd[t] /\ hd[u] \in Page
        BY <2>2, <1>b, ThreadSets, Zenon DEF Inv, GuestOK
      <3>3. ScanShard(u)' = ScanShard(u)
        BY <1>c, Zenon DEF ScanShard, regs
      <3> QED BY <2>2, <1>c, <3>1, <3>2, <3>3, ThreadSets, Zenon DEF Inv, GuestOK, regs, ghosts
    <2> QED BY <2>1, <2>2
  <1>8. HostOK'
    BY <1>a, <1>c, ThreadSets, RunnerAsleep, Zenon DEF ghosts
  <1> QED BY <1>1, <1>2, <1>3, <1>4, <1>5, <1>6, <1>7, <1>8, Zenon DEF Inv

(* Claiming a fresh page keeps the invariant.                              *)
LEMMA BumpAllocStep ==
  ASSUME Phased, Inv, NEW t \in Allocators, BumpAlloc(t)
  PROVE  Inv'
  <1>a. /\ t \in Threads /\ pc[t] = "bump" /\ held[t] = {}
        /\ bump \in Page /\ bump + 1 \in 1 .. NPages + 1 /\ next[bump] = Null
    BY ThreadSets, PoolAssumption DEF BumpAlloc, Inv, TypeOK, Fresh, Page, GuestOK
  <1>b. /\ \A u \in Threads : bump \notin held[u]
        /\ \A s \in Allocators : bump \notin chain[s]
        /\ \A a \in Shard : bump \notin freeOn[a]
    BY <1>a DEF Inv, Fresh, TypeOK
  <1>c. /\ pc'[t] = "link" /\ \A u \in Threads : u # t => pc'[u] = pc[u]
        /\ hd'[t] = bump /\ \A u \in Threads : u # t => hd'[u] = hd[u]
        /\ held'[t] = {bump} /\ \A u \in Threads : u # t => held'[u] = held[u]
        /\ bump' = bump + 1
        /\ UNCHANGED <<heads, next, slotHead, slotTail, phase, start, tried, nx, tl, freeOn, chain>>
    BY <1>a, Zenon DEF BumpAlloc, Goto, Inv, TypeOK
  <1>1. TypeOK'
    <2>1. held' \in [Threads -> SUBSET Page] /\ hd' \in [Threads -> Link]
      BY <1>a, ConstantTypes, Zenon DEF BumpAlloc, Inv, TypeOK
    <2>2. pc' \in [Threads -> Labels]
      BY Zenon DEF BumpAlloc, Goto, Inv, TypeOK, Labels
    <2> QED BY <1>a, <1>c, <2>1, <2>2, Zenon DEF Inv, TypeOK
  <1>2. Fresh'
    <2>1. \A p \in Page : p < bump => p < bump'
      BY <1>a, <1>c DEF Page
    <2>2. \A p \in Page : p >= bump' => p >= bump
      BY <1>a, <1>c DEF Page
    <2>3. bump < bump'
      BY <1>a, <1>c DEF Page
    <2> QED BY <1>a, <1>c, <2>1, <2>2, <2>3 DEF Inv, Fresh, TypeOK
  <1>3. Owned'
    <2>1. \A u, v \in Threads : \A p \in held'[u] : p \in held'[v] => u = v
      BY <1>b, <1>c DEF Inv, Owned
    <2>2. \A r, q \in Allocators : \A p \in chain'[r] : p \in chain'[q] => r = q
      BY <1>b, <1>c, Zenon DEF Inv, Owned
    <2>3. \A a, b \in Shard : \A p \in freeOn'[a] : p \in freeOn'[b] => a = b
      BY <1>b, <1>c, Zenon DEF Inv, Owned
    <2>4. \A u \in Threads, r \in Allocators : \A p \in held'[u] : p \notin chain'[r]
      BY <1>b, <1>c DEF Inv, Owned
    <2>5. \A u \in Threads, a \in Shard : \A p \in held'[u] : p \notin freeOn'[a]
      BY <1>b, <1>c DEF Inv, Owned
    <2>6. \A r \in Allocators, a \in Shard : \A p \in chain'[r] : p \notin freeOn'[a]
      BY <1>b, <1>c, Zenon DEF Inv, Owned
    <2> QED BY <2>1, <2>2, <2>3, <2>4, <2>5, <2>6, Zenon DEF Owned
  <1>4. FreeLists'
    BY <1>c, Zenon DEF Inv, FreeLists, IsList
  <1>5. Slots'
    BY <1>c, Zenon DEF Inv, Slots, IsChain
  <1>6. Phases'
    BY <1>a, <1>c, ThreadSets, Zenon DEF Inv, Phases
  <1>7. \A u \in Allocators : GuestOK(u)'
    <2> SUFFICES ASSUME NEW u \in Allocators PROVE GuestOK(u)'
      OBVIOUS
    <2>1. CASE u = t
      BY <2>1, <1>a, <1>c, Zenon DEF GuestOK
    <2>2. CASE u # t
      BY <2>2, <1>c, ThreadSets, GuestUnchanged, Zenon DEF Inv
    <2> QED BY <2>1, <2>2
  <1>8. HostOK'
    BY <1>a, <1>c, ThreadSets, RunnerAsleep, Zenon
  <1> QED BY <1>1, <1>2, <1>3, <1>4, <1>5, <1>6, <1>7, <1>8 DEF Inv

(* A failed allocation keeps the invariant.                                *)
LEMMA OutOfPagesStep ==
  ASSUME Phased, Inv, NEW t \in Allocators, OutOfPages(t)
  PROVE  Inv'
  <1>a. /\ t \in Threads /\ pc[t] = "bump" /\ pc'[t] = "idle" /\ phase' = "aborted"
        /\ \A u \in Threads : u # t => pc'[u] = pc[u]
        /\ UNCHANGED <<shared, regs, ghosts>>
    BY ThreadSets, Zenon DEF OutOfPages, Goto, Inv, TypeOK
  <1>1. TypeOK'
    BY ThreadSets, Zenon DEF OutOfPages, Goto, Inv, TypeOK, Labels, shared, regs, ghosts
  <1>2. Fresh' /\ Owned' /\ FreeLists' /\ Slots'
    BY <1>a, MemoryUnchanged, Zenon DEF shared, ghosts
  <1>8. pc[Host] = "idle" /\ HostOK'
    BY <1>a, ThreadSets, RunnerAsleep, Zenon DEF ghosts
  <1>6. Phases'
    BY <1>a, <1>8, ThreadSets, Zenon DEF Phases
  <1>7. \A u \in Allocators : GuestOK(u)'
    <2> SUFFICES ASSUME NEW u \in Allocators PROVE GuestOK(u)'
      OBVIOUS
    <2>1. CASE u = t
      BY <2>1, <1>a, Zenon DEF Inv, GuestOK, ghosts
    <2>2. CASE u # t
      BY <2>2, <1>a, ThreadSets, GuestUnchanged, Zenon DEF Inv, shared, regs, ghosts
    <2> QED BY <2>1, <2>2
  <1> QED BY <1>1, <1>2, <1>6, <1>7, <1>8, Zenon DEF Inv

(* Appending a page to its slot keeps the invariant.                       *)
LEMMA LinkPageStep ==
  ASSUME Phased, Inv, NEW t \in Allocators, LinkPage(t)
  PROVE  Inv'
  <1>a. /\ t \in Threads /\ hd[t] \in Page /\ held[t] = {hd[t]} /\ next[hd[t]] = Null
        /\ pc[t] = "link"
    BY ThreadSets, Zenon DEF LinkPage, Inv, GuestOK
  <1>b. /\ \A u \in Threads : u # t => hd[t] \notin held[u]
        /\ \A s \in Allocators : hd[t] \notin chain[s]
        /\ \A a \in Shard : hd[t] \notin freeOn[a]
    BY <1>a, HeldAlone, Zenon DEF Inv
  <1>c. /\ pc'[t] = "idle" /\ \A u \in Threads : u # t => pc'[u] = pc[u]
        /\ \A u \in Threads : u # t => hd'[u] = hd[u]
        /\ held'[t] = {} /\ \A u \in Threads : u # t => held'[u] = held[u]
        /\ chain'[t] = chain[t] \union {hd[t]}
        /\ \A s \in Allocators : s # t => chain'[s] = chain[s]
        /\ slotTail'[t] = hd[t] /\ \A s \in Allocators : s # t => slotTail'[s] = slotTail[s]
        /\ UNCHANGED <<heads, bump, phase, start, tried, nx, tl, freeOn>>
    BY <1>a, Zenon DEF LinkPage, Goto, Inv, TypeOK
  <1>d. /\ \A s \in Allocators : s # t => slotHead'[s] = slotHead[s]
        /\ slotTail[t] = Null => slotHead'[t] = hd[t] /\ next' = next
        /\ slotTail[t] # Null => slotHead'[t] = slotHead[t] /\ next'[slotTail[t]] = hd[t]
        /\ \A p \in Page : p # slotTail[t] => next'[p] = next[p]
    BY <1>a, ConstantTypes, Zenon DEF LinkPage, Inv, TypeOK
  <1>e. \/ slotTail[t] = Null /\ chain[t] = {}
        \/ /\ slotTail[t] \in chain[t] /\ slotTail[t] \in Page
           /\ IsChain(slotHead[t], slotTail[t], chain[t])
    BY Zenon DEF Inv, Slots, IsChain, TypeOK
  <1>f. \A p : (/\ p \in Page
                /\ \/ \E u \in Threads : p \in held[u]
                   \/ \E a \in Shard : p \in freeOn[a]
                   \/ \E s \in Allocators : s # t /\ p \in chain[s]
                   \/ p >= bump)
               => next'[p] = next[p]
    <2>1. CASE slotTail[t] = Null
      BY <2>1, <1>d, Zenon
    <2>2. CASE slotTail[t] \in chain[t] /\ slotTail[t] \in Page
      <3>1. /\ \A u \in Threads : slotTail[t] \notin held[u]
            /\ \A a \in Shard : slotTail[t] \notin freeOn[a]
            /\ \A s \in Allocators : s # t => slotTail[t] \notin chain[s]
        BY <2>2, Zenon DEF Inv, Owned
      <3>2. ~ (slotTail[t] >= bump)
        BY <2>2 DEF Inv, Fresh, TypeOK, Page
      <3> QED BY <3>1, <3>2, <1>d, Zenon
    <2> QED BY <2>1, <2>2, <1>e, Zenon
  <1>1. TypeOK'
    <2>1. next' \in [Page -> Link] /\ slotHead' \in [Allocators -> Link]
      BY <1>a, <1>e, ConstantTypes, Zenon DEF LinkPage, Inv, TypeOK
    <2>2. slotTail' \in [Allocators -> Link] /\ hd' \in [Threads -> Link]
      BY <1>a, ConstantTypes, Zenon DEF LinkPage, Inv, TypeOK
    <2>3. held' \in [Threads -> SUBSET Page] /\ chain' \in [Allocators -> SUBSET Page]
      BY <1>a, Zenon DEF LinkPage, Inv, TypeOK
    <2>4. pc' \in [Threads -> Labels]
      BY Zenon DEF LinkPage, Goto, Inv, TypeOK, Labels
    <2> QED BY <1>c, <2>1, <2>2, <2>3, <2>4, Zenon DEF Inv, TypeOK
  <1>2. Fresh'
    <2>1. \A s \in Allocators : \A p \in chain'[s] : p < bump'
      BY <1>a, <1>c, Zenon DEF Inv, Fresh
    <2>2. \A p \in Page : p >= bump => next'[p] = Null
      BY <1>f, Zenon DEF Inv, Fresh
    <2> QED BY <1>c, <2>1, <2>2, Zenon DEF Inv, Fresh
  <1>3. Owned'
    <2>1. \A u, v \in Threads : \A p \in held'[u] : p \in held'[v] => u = v
      BY <1>b, <1>c, Zenon DEF Inv, Owned
    <2>2. \A r, q \in Allocators : \A p \in chain'[r] : p \in chain'[q] => r = q
      BY <1>b, <1>c DEF Inv, Owned
    <2>3. \A a, b \in Shard : \A p \in freeOn'[a] : p \in freeOn'[b] => a = b
      BY <1>b, <1>c, Zenon DEF Inv, Owned
    <2>4. \A u \in Threads, r \in Allocators : \A p \in held'[u] : p \notin chain'[r]
      BY <1>b, <1>c DEF Inv, Owned
    <2>5. \A u \in Threads, a \in Shard : \A p \in held'[u] : p \notin freeOn'[a]
      BY <1>b, <1>c, Zenon DEF Inv, Owned
    <2>6. \A r \in Allocators, a \in Shard : \A p \in chain'[r] : p \notin freeOn'[a]
      BY <1>b, <1>c DEF Inv, Owned
    <2> QED BY <2>1, <2>2, <2>3, <2>4, <2>5, <2>6 DEF Owned
  <1>4. FreeLists'
    <2>1. \A a \in Shard : \A p \in freeOn[a] : next'[p] = next[p]
      BY <1>f, Zenon DEF Inv, TypeOK
    <2> QED BY <2>1, <1>c, ListsUnchanged, Zenon DEF Inv
  <1>5. Slots'
    <2> SUFFICES ASSUME NEW s \in Allocators
                 PROVE \/ slotHead'[s] = Null /\ slotTail'[s] = Null /\ chain'[s] = {}
                       \/ /\ IsChain(slotHead[s], slotTail[s], chain[s])'
                          /\ next'[slotTail'[s]] = Null
      BY Zenon DEF Slots
    <2>1. CASE s # t
      <3>1. \A p \in chain[s] : next'[p] = next[p]
        BY <2>1, <1>f, Zenon DEF Inv, TypeOK
      <3> QED BY <2>1, <3>1, <1>c, <1>d, SlotUnchanged, Zenon DEF Inv
    <2>2. CASE s = t /\ slotTail[t] = Null
      BY <2>2, <1>a, <1>c, <1>d, <1>e, ConstantTypes, Zenon DEF IsChain
    <2>3. CASE s = t /\ slotTail[t] # Null
      <3>1. /\ slotHead'[t] = slotHead[t] /\ slotTail'[t] = hd[t]
            /\ chain'[t] = chain[t] \union {hd[t]} /\ next'[slotTail[t]] = hd[t]
            /\ \A p \in chain[t] : p # slotTail[t] => next'[p] = next[p]
        BY <2>3, <1>c, <1>d, Zenon DEF Inv, TypeOK
      <3>2. hd[t] \notin chain[t] /\ IsChain(slotHead[t], slotTail[t], chain[t])
        BY <2>3, <1>b, <1>e, Zenon
      <3>3. next'[hd[t]] = Null
        BY <1>a, <1>f, Zenon
      <3>4. \A p \in chain'[t] : p # hd[t] => next'[p] \in chain'[t] /\ next'[p] # slotHead[t]
        BY <3>1, <3>2, Zenon DEF IsChain
      <3>5. \A p, q \in chain'[t] :
              p # hd[t] /\ q # hd[t] /\ next'[p] = next'[q] => p = q
        BY <3>1, <3>2 DEF IsChain
      <3> QED BY <2>3, <3>1, <3>2, <3>3, <3>4, <3>5 DEF IsChain
    <2> QED BY <2>1, <2>2, <2>3, Zenon
  <1>6. Phases'
    BY <1>a, <1>c, ThreadSets, Zenon DEF Inv, Phases
  <1>7. \A u \in Allocators : GuestOK(u)'
    <2> SUFFICES ASSUME NEW u \in Allocators PROVE GuestOK(u)'
      OBVIOUS
    <2>1. CASE u = t
      BY <2>1, <1>c, Zenon DEF GuestOK
    <2>2. CASE u # t
      <3>1. ASSUME pc[u] = "cas", hd[u] = heads[ScanShard(u)] PROVE next'[hd[u]] = next[hd[u]]
        <4>1. ScanShard(u) \in Shard
          BY ThreadSets, ScanShardType, Zenon DEF Inv
        <4>2. hd[u] \in Page /\ hd[u] # Null
          BY <3>1, ConstantTypes, Zenon DEF Inv, GuestOK
        <4>3. IsList(heads[ScanShard(u)], freeOn[ScanShard(u)])
          BY <4>1, Zenon DEF Inv, FreeLists
        <4>4. hd[u] \in freeOn[ScanShard(u)]
          BY <3>1, <4>2, <4>3, Zenon DEF IsList
        <4> QED BY <4>1, <4>2, <4>4, <1>f, Zenon
      <3>2. pc[u] = "link" => next'[hd[u]] = next[hd[u]]
        BY <1>f, ThreadSets, Zenon DEF Inv, GuestOK
      <3>3. ScanShard(u)' = ScanShard(u)
        BY <1>c, Zenon DEF ScanShard
      <3> QED BY <2>2, <1>c, <3>1, <3>2, <3>3, ThreadSets DEF Inv, GuestOK
    <2> QED BY <2>1, <2>2
  <1>8. HostOK'
    BY <1>a, <1>c, ThreadSets, RunnerAsleep, Zenon
  <1> QED BY <1>1, <1>2, <1>3, <1>4, <1>5, <1>6, <1>7, <1>8 DEF Inv

(***************************************************************************)
(* The steps of the runner between waves                                   *)
(***************************************************************************)

(***************************************************************************)
(* Reclamation                                                             *)
(***************************************************************************)

(* Detaching a slot keeps the invariant: its chain moves to the hand of    *)
(* the runner.                                                             *)
LEMMA DetachStep ==
  ASSUME Phased, Inv, NEW s \in Allocators, Detach(Host, s)
  PROVE  Inv'
  <1>a. /\ phase = "reclaim" /\ pc[Host] = "idle" /\ held[Host] = {} /\ Host \in Threads
        /\ slotHead[s] # Null
    BY ThreadSets, Zenon DEF Detach, MayFree, Inv, HostOK
  <1>b. /\ IsChain(slotHead[s], slotTail[s], chain[s]) /\ next[slotTail[s]] = Null
        /\ slotHead[s] \in Page
    BY <1>a, Zenon DEF Inv, Slots, IsChain, TypeOK
  <1>c. /\ pc'[Host] = "walk" /\ \A u \in Threads : u # Host => pc'[u] = pc[u]
        /\ hd'[Host] = slotHead[s] /\ tl'[Host] = slotHead[s]
        /\ held'[Host] = chain[s] /\ \A u \in Threads : u # Host => held'[u] = held[u]
        /\ chain'[s] = {} /\ \A r \in Allocators : r # s => chain'[r] = chain[r]
        /\ slotHead'[s] = Null /\ slotTail'[s] = Null
        /\ \A r \in Allocators : r # s => slotHead'[r] = slotHead[r] /\ slotTail'[r] = slotTail[r]
        /\ UNCHANGED <<heads, next, bump, phase, start, tried, nx, freeOn>>
    BY <1>a, Zenon DEF Detach, Goto, Inv, TypeOK
  <1>1. TypeOK'
    <2>1. hd' \in [Threads -> Link] /\ tl' \in [Threads -> Link]
      BY <1>b, ConstantTypes, Zenon DEF Detach, Inv, TypeOK
    <2>2. slotHead' \in [Allocators -> Link] /\ slotTail' \in [Allocators -> Link]
      BY ConstantTypes, Zenon DEF Detach, Inv, TypeOK
    <2>3. held' \in [Threads -> SUBSET Page] /\ chain' \in [Allocators -> SUBSET Page]
      BY Zenon DEF Detach, Inv, TypeOK
    <2>4. pc' \in [Threads -> Labels]
      BY Zenon DEF Detach, Goto, Inv, TypeOK, Labels
    <2> QED BY <1>c, <2>1, <2>2, <2>3, <2>4, Zenon DEF Inv, TypeOK
  <1>2. Fresh'
    BY <1>c, Zenon DEF Inv, Fresh
  <1>3. Owned'
    <2>1. \A u, v \in Threads : \A p \in held'[u] : p \in held'[v] => u = v
      BY <1>c DEF Inv, Owned
    <2>2. \A r, q \in Allocators : \A p \in chain'[r] : p \in chain'[q] => r = q
      BY <1>c, Zenon DEF Inv, Owned
    <2>3. \A a, b \in Shard : \A p \in freeOn'[a] : p \in freeOn'[b] => a = b
      BY <1>c, Zenon DEF Inv, Owned
    <2>4. \A u \in Threads, r \in Allocators : \A p \in held'[u] : p \notin chain'[r]
      BY <1>c DEF Inv, Owned
    <2>5. \A u \in Threads, a \in Shard : \A p \in held'[u] : p \notin freeOn'[a]
      BY <1>c DEF Inv, Owned
    <2>6. \A r \in Allocators, a \in Shard : \A p \in chain'[r] : p \notin freeOn'[a]
      BY <1>c, Zenon DEF Inv, Owned
    <2> QED BY <2>1, <2>2, <2>3, <2>4, <2>5, <2>6, Zenon DEF Owned
  <1>4. FreeLists'
    BY <1>c DEF Inv, FreeLists, IsList
  <1>5. Slots'
    BY <1>c, SlotUnchanged, Zenon DEF Inv, Slots
  <1>6. Phases'
    BY <1>a, <1>c, ThreadSets, Zenon DEF Inv, Phases
  <1>7. \A u \in Allocators : GuestOK(u)'
    BY <1>a, <1>c, ThreadSets, GuestsAsleep, Zenon
  <1>8. HostOK'
    <2>1. PICK q \in chain[s] : IsChain(slotHead[s], q, chain[s]) /\ next[q] = Null
      BY <1>b, Zenon DEF IsChain
    <2>2. q \in held'[Host] /\ IsChain(hd[Host], q, held[Host])' /\ next'[q] = Null
      BY <2>1, <1>c, Zenon DEF IsChain
    <2>3. tl'[Host] \in held'[Host]
      BY <1>b, <1>c, Zenon DEF IsChain
    <2> QED BY <2>2, <2>3, <1>c, Zenon DEF HostOK
  <1> QED BY <1>1, <1>2, <1>3, <1>4, <1>5, <1>6, <1>7, <1>8, Zenon DEF Inv

(* Walking a chain keeps the invariant: only its tail has no successor.    *)
LEMMA WalkStep ==
  ASSUME Phased, Inv, Walk(Host)
  PROVE  Inv'
  <1>a. /\ Host \in Threads /\ pc[Host] = "walk" /\ phase = "reclaim"
        /\ tl[Host] \in held[Host] /\ tl[Host] \in Page
    BY ThreadSets, Zenon DEF Walk, Inv, HostOK, Phases, TypeOK
  <1>b. PICK q \in held[Host] : IsChain(hd[Host], q, held[Host]) /\ next[q] = Null
    BY <1>a, Zenon DEF Inv, HostOK
  <1>c. /\ \A u \in Threads : u # Host => pc'[u] = pc[u]
        /\ \/ next[tl[Host]] # Null /\ tl'[Host] = next[tl[Host]] /\ pc'[Host] = "walk"
           \/ next[tl[Host]] = Null /\ tl'[Host] = tl[Host] /\ pc'[Host] = "pushload"
        /\ UNCHANGED <<shared, phase, start, tried, hd, nx, ghosts>>
    BY <1>a, Zenon DEF Walk, Goto, Inv, TypeOK
  <1>1. TypeOK'
    <2>1. tl' \in [Threads -> Link]
      BY <1>a, Zenon DEF Walk, Inv, TypeOK
    <2>2. pc' \in [Threads -> Labels]
      BY Zenon DEF Walk, Goto, Inv, TypeOK, Labels
    <2> QED BY <1>c, <2>1, <2>2, Zenon DEF Inv, TypeOK, shared, ghosts
  <1>2. Fresh' /\ Owned' /\ FreeLists' /\ Slots'
    BY <1>c, MemoryUnchanged, Zenon DEF shared, ghosts
  <1>6. Phases'
    BY <1>a, <1>c, ThreadSets, Zenon DEF Inv, Phases
  <1>7. \A u \in Allocators : GuestOK(u)'
    BY <1>a, <1>c, ThreadSets, GuestsAsleep, Zenon DEF ghosts
  <1>8. HostOK'
    <2>1. held' = held /\ hd' = hd /\ next' = next
      BY <1>c, Zenon DEF shared, ghosts
    <2>2. CASE next[tl[Host]] # Null
      <3>1. tl'[Host] \in held'[Host]
        BY <2>1, <2>2, <1>a, <1>b, <1>c, Zenon DEF IsChain
      <3>2. q \in held'[Host] /\ IsChain(hd[Host], q, held[Host])' /\ next'[q] = Null
        BY <2>1, <1>b, Zenon DEF IsChain
      <3> QED BY <2>2, <3>1, <3>2, <1>c, Zenon DEF HostOK
    <2>3. CASE next[tl[Host]] = Null
      <3>1. tl[Host] = q
        <4>1. \A p \in held[Host] : p # Null
          BY <1>a, ConstantTypes, Zenon DEF Inv, TypeOK
        <4> QED BY <2>3, <4>1, <1>a, <1>b, Zenon DEF IsChain
      <3>2. IsChain(hd[Host], tl[Host], held[Host])'
        BY <2>1, <2>3, <3>1, <1>b, <1>c, Zenon DEF IsChain
      <3> QED BY <2>3, <3>2, <1>c, Zenon DEF HostOK
    <2> QED BY <2>2, <2>3, Zenon
  <1> QED BY <1>1, <1>2, <1>6, <1>7, <1>8, Zenon DEF Inv

(* Loading the head to push in front of keeps the invariant.               *)
LEMMA PushLoadStep ==
  ASSUME Phased, Inv, PushLoad(Host)
  PROVE  Inv'
  <1>a. /\ Host \in Threads /\ pc[Host] = "pushload" /\ phase = "reclaim"
        /\ IsChain(hd[Host], tl[Host], held[Host])
    BY ThreadSets, Zenon DEF PushLoad, Inv, HostOK, Phases
  <1>b. ShardOf(hd[Host]) \in Shard
    BY <1>a, ShardOfType, Zenon DEF IsChain, Inv, TypeOK
  <1>c. /\ pc'[Host] = "pushstore" /\ \A u \in Threads : u # Host => pc'[u] = pc[u]
        /\ nx'[Host] = heads[ShardOf(hd[Host])]
        /\ UNCHANGED <<shared, phase, start, tried, hd, tl, ghosts>>
    BY <1>a, Zenon DEF PushLoad, Goto, Inv, TypeOK
  <1>1. TypeOK'
    <2>1. nx' \in [Threads -> Link]
      BY <1>b, Zenon DEF PushLoad, Inv, TypeOK
    <2>2. pc' \in [Threads -> Labels]
      BY Zenon DEF PushLoad, Goto, Inv, TypeOK, Labels
    <2> QED BY <1>c, <2>1, <2>2, Zenon DEF Inv, TypeOK, shared, ghosts
  <1>2. Fresh' /\ Owned' /\ FreeLists' /\ Slots'
    BY <1>c, MemoryUnchanged, Zenon DEF shared, ghosts
  <1>6. Phases'
    BY <1>a, <1>c, ThreadSets, Zenon DEF Inv, Phases
  <1>7. \A u \in Allocators : GuestOK(u)'
    BY <1>a, <1>c, ThreadSets, GuestsAsleep, Zenon DEF ghosts
  <1>8. HostOK'
    BY <1>a, <1>c, Zenon DEF HostOK, IsChain, shared, ghosts
  <1> QED BY <1>1, <1>2, <1>6, <1>7, <1>8, Zenon DEF Inv

(* Linking the detached chain to the list keeps the invariant.             *)
LEMMA PushStoreStep ==
  ASSUME Phased, Inv, PushStore(Host)
  PROVE  Inv'
  <1>a. /\ Host \in Threads /\ pc[Host] = "pushstore" /\ phase = "reclaim"
        /\ IsChain(hd[Host], tl[Host], held[Host]) /\ nx[Host] = heads[ShardOf(hd[Host])]
    BY ThreadSets, Zenon DEF PushStore, Inv, HostOK, Phases
  <1>b. /\ tl[Host] \in held[Host] /\ tl[Host] \in Page /\ tl[Host] < bump
        /\ \A s \in Allocators : tl[Host] \notin chain[s]
        /\ \A a \in Shard : tl[Host] \notin freeOn[a]
    BY <1>a, HeldAlone, Zenon DEF IsChain, Inv, Fresh, TypeOK
  <1>c. /\ pc'[Host] = "pushcas" /\ \A u \in Threads : u # Host => pc'[u] = pc[u]
        /\ next'[tl[Host]] = nx[Host] /\ \A p \in Page : p # tl[Host] => next'[p] = next[p]
        /\ UNCHANGED <<heads, bump, slotHead, slotTail, phase, regs, ghosts>>
    BY <1>a, <1>b, Zenon DEF PushStore, Goto, Inv, TypeOK
  <1>1. TypeOK'
    <2>1. next' \in [Page -> Link]
      BY <1>a, <1>b, Zenon DEF PushStore, Inv, TypeOK
    <2>2. pc' \in [Threads -> Labels]
      BY Zenon DEF PushStore, Goto, Inv, TypeOK, Labels
    <2> QED BY <1>c, <2>1, <2>2, Zenon DEF Inv, TypeOK, regs, ghosts
  <1>2. Fresh'
    <2>1. \A p \in Page : p >= bump => p # tl[Host]
      BY <1>b DEF Inv, TypeOK, Page
    <2> QED BY <2>1, <1>c, Zenon DEF Inv, Fresh, ghosts
  <1>3. Owned'
    BY <1>c, Zenon DEF Inv, Owned, ghosts
  <1>4. FreeLists'
    <2>1. \A a \in Shard : \A p \in freeOn[a] : next'[p] = next[p]
      BY <1>b, <1>c, Zenon DEF Inv, TypeOK
    <2> QED BY <2>1, <1>c, ListsUnchanged, Zenon DEF Inv, ghosts
  <1>5. Slots'
    <2>1. \A s \in Allocators : \A p \in chain[s] : next'[p] = next[p]
      BY <1>b, <1>c, Zenon DEF Inv, TypeOK
    <2> QED BY <2>1, <1>c, SlotUnchanged, Zenon DEF Inv, ghosts, Slots
  <1>6. Phases'
    BY <1>a, <1>c, ThreadSets, Zenon DEF Inv, Phases
  <1>7. \A u \in Allocators : GuestOK(u)'
    BY <1>a, <1>c, ThreadSets, GuestsAsleep, Zenon DEF ghosts
  <1>8. HostOK'
    <2>1. \A p \in held[Host] : p # tl[Host] => next'[p] = next[p]
      BY <1>a, <1>c, Zenon DEF Inv, TypeOK
    <2>2. IsChain(hd[Host], tl[Host], held[Host])'
      BY <2>1, <1>a, <1>c DEF IsChain, regs, ghosts
    <2> QED BY <2>2, <1>a, <1>c, Zenon DEF HostOK, regs
  <1> QED BY <1>1, <1>2, <1>3, <1>4, <1>5, <1>6, <1>7, <1>8, Zenon DEF Inv

(* Publishing the chain keeps the invariant: the shard now lists both      *)
(* parts.                                                                  *)
LEMMA PushCasStep ==
  ASSUME Phased, Inv, PushCas(Host)
  PROVE  Inv'
  <1> DEFINE sh == ShardOf(hd[Host])
  <1>a. /\ Host \in Threads /\ pc[Host] = "pushcas" /\ phase = "reclaim"
        /\ IsChain(hd[Host], tl[Host], held[Host])
        /\ nx[Host] = heads[sh] /\ next[tl[Host]] = heads[sh]
    BY ThreadSets, Zenon DEF PushCas, Inv, HostOK, Phases
  <1>b. hd[Host] \in Page /\ sh \in Shard
    BY <1>a, ShardOfType, Zenon DEF IsChain, Inv, TypeOK
  <1>c. /\ heads' = [heads EXCEPT ![sh] = hd[Host]]
        /\ freeOn' = [freeOn EXCEPT ![sh] = @ \union held[Host]]
        /\ held' = [held EXCEPT ![Host] = {}] /\ pc' = [pc EXCEPT ![Host] = "idle"]
        /\ hd' = [hd EXCEPT ![Host] = Null] /\ tl' = [tl EXCEPT ![Host] = Null]
        /\ nx' = [nx EXCEPT ![Host] = Null]
        /\ UNCHANGED <<next, bump, slotHead, slotTail, phase, start, tried, chain>>
    BY <1>a, Zenon DEF PushCas, Goto
  <1> HIDE DEF sh
  <1>d. /\ held'[Host] = {} /\ \A u \in Threads : u # Host => held'[u] = held[u]
        /\ freeOn'[sh] = freeOn[sh] \union held[Host]
        /\ \A a \in Shard : a # sh => freeOn'[a] = freeOn[a]
        /\ heads'[sh] = hd[Host] /\ \A a \in Shard : a # sh => heads'[a] = heads[a]
        /\ pc'[Host] = "idle" /\ \A u \in Threads : u # Host => pc'[u] = pc[u]
    BY <1>a, <1>b, <1>c, Zenon DEF Inv, TypeOK
  <1>1. TypeOK'
    <2>1. heads' \in [Shard -> Link] /\ freeOn' \in [Shard -> SUBSET Page]
      BY <1>a, <1>b, <1>c, ConstantTypes, Zenon DEF Inv, TypeOK
    <2>2. /\ hd' \in [Threads -> Link] /\ tl' \in [Threads -> Link] /\ nx' \in [Threads -> Link]
          /\ held' \in [Threads -> SUBSET Page]
      BY <1>c, ConstantTypes, Zenon DEF Inv, TypeOK
    <2>3. pc' \in [Threads -> Labels]
      BY <1>c, Zenon DEF Inv, TypeOK, Labels
    <2> QED BY <1>c, <2>1, <2>2, <2>3, Zenon DEF Inv, TypeOK
  <1>2. Fresh'
    BY <1>a, <1>c, <1>d, Zenon DEF Inv, Fresh
  <1>3. Owned'
    <2>1. \A u, v \in Threads : \A p \in held'[u] : p \in held'[v] => u = v
      BY <1>a, <1>b, <1>c, <1>d, Zenon DEF Inv, Owned
    <2>2. \A r, q \in Allocators : \A p \in chain'[r] : p \in chain'[q] => r = q
      BY <1>a, <1>b, <1>c, <1>d, Zenon DEF Inv, Owned
    <2>3. \A a, b \in Shard : \A p \in freeOn'[a] : p \in freeOn'[b] => a = b
      BY <1>a, <1>b, <1>c, <1>d DEF Inv, Owned
    <2>4. \A u \in Threads, r \in Allocators : \A p \in held'[u] : p \notin chain'[r]
      BY <1>a, <1>b, <1>c, <1>d, Zenon DEF Inv, Owned
    <2>5. \A u \in Threads, a \in Shard : \A p \in held'[u] : p \notin freeOn'[a]
      BY <1>a, <1>b, <1>c, <1>d DEF Inv, Owned
    <2>6. \A r \in Allocators, a \in Shard : \A p \in chain'[r] : p \notin freeOn'[a]
      BY <1>a, <1>b, <1>c, <1>d DEF Inv, Owned
    <2> QED BY <2>1, <2>2, <2>3, <2>4, <2>5, <2>6, Zenon DEF Owned
  <1>4. FreeLists'
    <2> SUFFICES ASSUME NEW a \in Shard PROVE IsList(heads[a], freeOn[a])'
      BY Zenon DEF FreeLists, IsList
    <2>1. CASE a # sh
      <3>1. heads'[a] = heads[a] /\ freeOn'[a] = freeOn[a] /\ next' = next
        BY <2>1, <1>c, <1>d, Zenon
      <3> QED BY <3>1, Zenon DEF Inv, FreeLists, IsList
    <2>2. CASE a = sh
      <3>1. IsList(heads[sh], freeOn[sh]) /\ \A p \in held[Host] : p \notin freeOn[sh] /\ p # Null
        BY <1>a, <1>b, ConstantTypes, Zenon DEF Inv, FreeLists, Owned, TypeOK
      <3>2. \A p \in freeOn'[sh] : next'[p] # Null =>
              next'[p] \in freeOn'[sh] /\ next'[p] # hd[Host]
        BY <3>1, <1>a, <1>c, <1>d DEF IsList, IsChain
      <3>3. \A p, q \in freeOn'[sh] : next'[p] = next'[q] /\ next'[p] # Null => p = q
        BY <3>1, <1>a, <1>c, <1>d DEF IsList, IsChain
      <3> QED BY <2>2, <3>2, <3>3, <1>a, <1>d DEF IsList, IsChain
    <2> QED BY <2>1, <2>2, Zenon
  <1>5. Slots'
    BY <1>c, Zenon DEF Inv, Slots, IsChain
  <1>6. Phases'
    BY <1>a, <1>c, <1>d, ThreadSets, Zenon DEF Inv, Phases
  <1>7. \A u \in Allocators : GuestOK(u)'
    BY <1>a, <1>d, ThreadSets, GuestsAsleep, Zenon
  <1>8. HostOK'
    BY <1>d, Zenon DEF HostOK
  <1> QED BY <1>1, <1>2, <1>3, <1>4, <1>5, <1>6, <1>7, <1>8 DEF Inv

(* Starting a trim keeps the invariant.                                    *)
LEMMA StartTrimStep ==
  ASSUME Phased, Inv, StartTrim
  PROVE  Inv'
  <1>a. /\ Host \in Threads /\ pc[Host] = "idle" /\ phase = "reclaim" /\ held[Host] = {}
        /\ pc'[Host] = "load" /\ \A u \in Threads : u # Host => pc'[u] = pc[u]
        /\ UNCHANGED <<shared, phase, hd, nx, tl, ghosts>>
    BY ThreadSets, Zenon DEF StartTrim, Goto, Inv, TypeOK, HostOK
  <1>1. TypeOK'
    BY ConstantTypes, Zenon DEF StartTrim, Goto, Inv, TypeOK, Labels, shared, ghosts
  <1>2. Fresh' /\ Owned' /\ FreeLists' /\ Slots'
    BY <1>a, MemoryUnchanged, Zenon DEF shared, ghosts
  <1>6. Phases'
    BY <1>a, ThreadSets, Zenon DEF Inv, Phases
  <1>7. \A u \in Allocators : GuestOK(u)'
    BY <1>a, ThreadSets, GuestsAsleep, Zenon DEF ghosts
  <1>8. HostOK'
    BY <1>a, Zenon DEF HostOK, ghosts
  <1> QED BY <1>1, <1>2, <1>6, <1>7, <1>8, Zenon DEF Inv

(* The end of a wave and the start of the next one keep the invariant.     *)
LEMMA PhaseStep ==
  ASSUME Phased, Inv, EndWave \/ NextWave
  PROVE  Inv'
  <1>a. /\ UNCHANGED <<shared, pc, regs, ghosts>>
        /\ \/ phase' = "reclaim" /\ \A u \in Allocators : pc[u] = "idle"
           \/ phase' = "wave" /\ pc[Host] = "idle"
    BY ThreadSets, Zenon DEF EndWave, NextWave
  <1>1. TypeOK'
    BY <1>a, Zenon DEF Inv, TypeOK, shared, regs, ghosts
  <1>2. Fresh' /\ Owned' /\ FreeLists' /\ Slots'
    BY <1>a, MemoryUnchanged, Zenon DEF shared, ghosts
  <1>6. Phases'
    BY <1>a, Zenon DEF EndWave, NextWave, Inv, Phases
  <1>7. \A u \in Allocators : GuestOK(u)'
    BY <1>a, GuestUnchanged, Zenon DEF Inv, shared, regs, ghosts
  <1>8. HostOK'
    BY <1>a, Zenon DEF Inv, HostOK, ScanShard, IsChain, shared, regs, ghosts
  <1> QED BY <1>1, <1>2, <1>6, <1>7, <1>8, Zenon DEF Inv

(***************************************************************************)
(* The theorems                                                            *)
(***************************************************************************)

(* The invariant holds initially.                                          *)
LEMMA InitInv == ASSUME Phased, Init PROVE Inv
  <1> USE ThreadSets DEF Init
  <1>1. TypeOK BY ConstantTypes, PoolAssumption DEF TypeOK, Labels
  <1>2. Fresh BY Zenon DEF Fresh
  <1>3. Owned BY Zenon DEF Owned
  <1>4. FreeLists BY Zenon DEF FreeLists, IsList
  <1>5. Slots BY Zenon DEF Slots
  <1>6. Phases BY Zenon DEF Phases
  <1>7. \A t \in Allocators : GuestOK(t) BY Zenon DEF GuestOK
  <1>8. HostOK BY Zenon DEF HostOK
  <1> QED BY <1>1, <1>2, <1>3, <1>4, <1>5, <1>6, <1>7, <1>8, Zenon DEF Inv

(* Every step keeps the invariant.                                         *)
LEMMA NextInv == ASSUME Phased, Inv, [Next]_vars PROVE Inv'
  <1>1. ASSUME NEW t \in Allocators, AllocStep(t) PROVE Inv'
    BY <1>1, StartAllocStep, BumpAllocStep, OutOfPagesStep, ResetPageStep, LinkPageStep, Zenon
       DEF AllocStep
  <1>2. ASSUME NEW t \in Allocators \union {Host}, PopStep(t) PROVE Inv'
    BY <1>2, LoadHeadStep, LoadNextStep, PopFailStep, PopWinStep, Zenon DEF PopStep
  <1>3. ASSUME NEW f \in Freers, FreeStep(f) PROVE Inv'
    <2>1. FreeStep(Host)
      BY <1>3, ThreadSets, Zenon
    <2> QED BY <2>1, DetachStep, WalkStep, PushLoadStep, PushStoreStep, PushCasStep, Zenon
        DEF FreeStep
  <1>4. CASE StartTrim \/ EndWave \/ NextWave
    BY <1>4, StartTrimStep, PhaseStep, Zenon
  <1>5. CASE UNCHANGED vars
    <2> USE <1>5 DEF vars, shared, regs, ghosts
    <2>1. TypeOK' BY Zenon DEF Inv, TypeOK
    <2>2. Fresh' /\ Owned' /\ FreeLists' /\ Slots' BY MemoryUnchanged, Zenon
    <2>3. Phases' BY Zenon DEF Inv, Phases
    <2>4. \A t \in Allocators : GuestOK(t)' BY GuestUnchanged, Zenon DEF Inv
    <2>5. HostOK' BY Zenon DEF Inv, HostOK, ScanShard, IsChain
    <2> QED BY <2>1, <2>2, <2>3, <2>4, <2>5, Zenon DEF Inv
  <1> QED BY <1>1, <1>2, <1>3, <1>4, <1>5, Zenon DEF Next

(* The inductive invariant holds in every phased run.                      *)
THEOREM PhasedInvariant == ASSUME Phased PROVE Spec => []Inv
  <1>1. Init => Inv BY InitInv, Zenon
  <1>2. Inv /\ [Next]_vars => Inv' BY NextInv, Zenon
  <1> QED BY <1>1, <1>2, PTL DEF Spec

(* Types: the model's variables keep their types in every phased run.      *)
THEOREM PhasedTypes == ASSUME Phased PROVE Spec => []TypeOK
  <1>1. Inv => TypeOK BY Zenon DEF Inv
  <1> QED BY <1>1, PhasedInvariant, PTL

(* alloc_page, try_allocate_page and free_page_chain never give a page two *)
(* owners, for any number of guests, pages and shards, as long as slots    *)
(* are freed by the runner between waves only.                             *)
THEOREM PhasedSingleOwner == ASSUME Phased PROVE Spec => []SingleOwner
  <1>1. Inv => SingleOwner BY Zenon DEF Inv, Owned, SingleOwner
  <1> QED BY <1>1, PhasedInvariant, PTL

(***************************************************************************)
(* What the pages of a list are.  The facts about single links leave room  *)
(* for pages on a cycle of their own, which no walk reaches.  Linked rules *)
(* that out without following a chain: a subset that holds the head and is *)
(* closed under the links is the whole list.                               *)
(***************************************************************************)

(* Following f from h inside S visits all of S.                            *)
Connected(f, h, S) ==
    \A T \in SUBSET S :
        (h \in S => h \in T) /\ (\A r \in T : f[r] \in S => f[r] \in T) => S \subseteq T

(* Links outside S do not matter.                                         *)
LEMMA ConnectedSame ==
  ASSUME NEW f, NEW g, NEW h, NEW S, Connected(f, h, S), \A p \in S : g[p] = f[p]
  PROVE  Connected(g, h, S)
  BY Zenon DEF Connected

(* A single page is connected.                                             *)
LEMMA ConnectedOne ==
  ASSUME NEW f, NEW h PROVE Connected(f, h, {h})
  BY Zenon DEF Connected

(* Without its head a connected list is connected from the successor.     *)
LEMMA ConnectedPop ==
  ASSUME NEW f, NEW h, NEW S, Connected(f, h, S), h \in S, f[h] # h
  PROVE  Connected(f, f[h], S \ {h})
  <1> SUFFICES ASSUME NEW T \in SUBSET (S \ {h}), f[h] \in S \ {h} => f[h] \in T,
                      \A r \in T : f[r] \in S \ {h} => f[r] \in T
               PROVE  S \ {h} \subseteq T
    BY Zenon DEF Connected
  <1>1. T \union {h} \in SUBSET S
    BY Zenon
  <1>2. \A r \in T \union {h} : f[r] \in S => f[r] \in T \union {h}
    BY Zenon
  <1>3. S \subseteq T \union {h}
    BY <1>1, <1>2, Zenon DEF Connected
  <1> QED BY <1>3, Zenon

(* A page appended to the tail is connected too.                           *)
LEMMA ConnectedAppend ==
  ASSUME NEW f, NEW g, NEW h, NEW S, Connected(f, h, S), h \in S,
         NEW t \in S, NEW n, n \notin S, f[t] \notin S, g[t] = n,
         \A p \in S : p # t => g[p] = f[p]
  PROVE  Connected(g, h, S \union {n})
  <1> SUFFICES ASSUME NEW T \in SUBSET (S \union {n}), h \in T,
                      \A r \in T : g[r] \in S \union {n} => g[r] \in T
               PROVE  S \union {n} \subseteq T
    BY Zenon DEF Connected
  <1>1. \A r \in T \intersect S : f[r] \in S => f[r] \in T \intersect S
    BY Zenon
  <1>2. S \subseteq T \intersect S
    BY <1>1, T \intersect S \in SUBSET S, Zenon DEF Connected
  <1> QED BY <1>2, Zenon

(* A chain whose tail is linked to a connected list is connected with it.  *)
LEMMA ConnectedJoin ==
  ASSUME NEW f, NEW h, NEW C, NEW k, NEW S, Connected(f, h, C), Connected(f, k, S),
         h \in C, NEW t \in C, f[t] = k
  PROVE  Connected(f, h, C \union S)
  <1> SUFFICES ASSUME NEW T \in SUBSET (C \union S), h \in T,
                      \A r \in T : f[r] \in C \union S => f[r] \in T
               PROVE  C \union S \subseteq T
    BY Zenon DEF Connected
  <1>1. C \subseteq T \intersect C
    BY T \intersect C \in SUBSET C, Zenon DEF Connected
  <1>2. k \in S => k \in T
    BY <1>1, Zenon
  <1>3. S \subseteq T \intersect S
    BY <1>2, T \intersect S \in SUBSET S, Zenon DEF Connected
  <1> QED BY <1>1, <1>3, Zenon

(* What is reached from the head of a connected list is the list.          *)
LEMMA ReachList ==
  ASSUME TypeOK, NEW h, NEW S \in SUBSET Page, IsList(h, S), Connected(next, h, S)
  PROVE  Reach(h) = S
  <1> DEFINE Closed(T) == /\ h # Null => h \in T
                          /\ \A q \in T : next[q] # Null => next[q] \in T
  <1>1. Reach(h) = {q \in Page : \A T \in SUBSET Page : Closed(T) => q \in T}
    BY Zenon DEF Reach
  <1>2. Closed(S)
    BY Zenon DEF IsList
  <1>3. Reach(h) \subseteq S
    BY <1>1, <1>2, Zenon
  <1>4. ASSUME NEW T \in SUBSET Page, Closed(T) PROVE S \subseteq T
    <2>1. h \in S => h \in T \intersect S
      BY <1>4, ConstantTypes, Zenon DEF IsList
    <2>2. \A r \in T \intersect S : next[r] \in S => next[r] \in T \intersect S
      BY <1>4, ConstantTypes, Zenon DEF IsList
    <2>3. S \subseteq T \intersect S
      BY <2>1, <2>2, T \intersect S \in SUBSET S, Zenon DEF Connected
    <2> QED BY <2>3, Zenon
  <1> HIDE DEF Closed
  <1> QED BY <1>1, <1>3, <1>4, Zenon

(* Every list and chain is connected, the one the runner is moving         *)
(* included, and every page claimed so far is in one of them or in a hand. *)
Linked ==
    /\ \A sh \in Shard : Connected(next, heads[sh], freeOn[sh])
    /\ \A s \in Allocators : Connected(next, slotHead[s], chain[s])
    /\ pc[Host] \in {"walk", "pushload", "pushstore", "pushcas"} =>
         Connected(next, hd[Host], held[Host])
    /\ pc[Host] \in {"pushload", "pushstore"} => next[tl[Host]] \notin held[Host]
    /\ \A p \in Page : p < bump =>
         \/ \E sh \in Shard : p \in freeOn[sh]
         \/ \E t \in Threads : p \in held[t]
         \/ \E s \in Allocators : p \in chain[s]

(* Steps on registers only keep the lists connected, and the chain of the  *)
(* runner as long as it is the same one.                                   *)
LEMMA LinkedSame ==
  ASSUME Linked, UNCHANGED <<heads, next, bump, slotHead, freeOn, held, chain>>,
         pc'[Host] \in {"walk", "pushload", "pushstore", "pushcas"} =>
            /\ pc[Host] \in {"walk", "pushload", "pushstore", "pushcas"}
            /\ hd'[Host] = hd[Host],
         pc'[Host] \in {"pushload", "pushstore"} => next[tl'[Host]] \notin held[Host]
  PROVE  Linked'
  BY Zenon DEF Linked

(* Every register step of an allocator or of the runner is such a step.    *)
LEMMA LinkedRegisters ==
  ASSUME Phased, Inv, Linked,
         \/ \E t \in Allocators : StartAlloc(t) \/ OutOfPages(t)
         \/ \E t \in Allocators \union {Host} : LoadHead(t) \/ LoadNext(t)
         \/ Walk(Host) \/ PushLoad(Host) \/ StartTrim \/ EndWave \/ NextWave
         \/ UNCHANGED vars
  PROVE  Linked'
  <1> USE ThreadSets DEF shared, ghosts, regs, vars
  <1>1. ASSUME NEW t \in Allocators, StartAlloc(t) \/ OutOfPages(t) PROVE Linked'
    BY <1>1, LinkedSame, Zenon DEF StartAlloc, OutOfPages, Goto, Inv, TypeOK, Linked
  <1>2. ASSUME NEW t \in Allocators \union {Host}, LoadHead(t) \/ LoadNext(t) PROVE Linked'
    <2>1. t \in Threads /\ UNCHANGED <<shared, tl, ghosts>>
      BY <1>2, Zenon DEF LoadHead, LoadNext
    <2>2. pc'[t] \in {"next", "cas", "load", "bump", "idle"}
      BY <1>2, <2>1, Zenon DEF LoadHead, LoadNext, Goto, Inv, TypeOK
    <2>3. \A u \in Threads : u # t => pc'[u] = pc[u] /\ hd'[u] = hd[u]
      BY <1>2, <2>1, Zenon DEF LoadHead, LoadNext, Goto, Inv, TypeOK
    <2> QED BY <2>1, <2>2, <2>3, LinkedSame, Zenon DEF Linked
  <1>3. CASE Walk(Host)
    <2>1. pc[Host] = "walk" /\ UNCHANGED <<shared, hd, ghosts>>
      BY <1>3, Zenon DEF Walk
    <2>2. pc'[Host] = "walk" \/ (tl' = tl /\ next[tl[Host]] = Null)
      BY <1>3, Zenon DEF Walk, Goto
    <2>3. Null \notin held[Host]
      BY ConstantTypes, Zenon DEF Inv, TypeOK
    <2> QED BY <2>1, <2>2, <2>3, LinkedSame, Zenon
  <1>4. CASE PushLoad(Host)
    <2>1. pc[Host] = "pushload" /\ UNCHANGED <<shared, hd, tl, ghosts>>
      BY <1>4, Zenon DEF PushLoad
    <2> QED BY <2>1, LinkedSame, Zenon DEF Linked
  <1>5. CASE StartTrim
    <2>1. pc'[Host] = "load" /\ UNCHANGED <<shared, ghosts>>
      BY <1>5, Zenon DEF StartTrim, Goto, Inv, TypeOK
    <2> QED BY <2>1, LinkedSame, Zenon
  <1>6. CASE EndWave \/ NextWave \/ UNCHANGED vars
    <2>1. UNCHANGED <<shared, pc, regs, ghosts>>
      BY <1>6, Zenon DEF EndWave, NextWave
    <2> QED BY <2>1, LinkedSame, Zenon DEF Linked
  <1> QED BY <1>1, <1>2, <1>3, <1>4, <1>5, <1>6, Zenon

(* A winning pop keeps the rest of the list connected.                     *)
LEMMA LinkedPop ==
  ASSUME Phased, Inv, Linked, NEW t \in Allocators \union {Host}, PopCas(t)
  PROVE  Linked'
  <1> DEFINE sh == ScanShard(t)
  <1>a. t \in Threads /\ sh \in Shard /\ hd[t] \in Page /\ pc[t] = "cas" /\ held[t] = {}
    BY ThreadSets, ScanShardType, Zenon DEF PopCas, Inv, GuestOK, HostOK
  <1>1. CASE heads[sh] # hd[t]
    <2>1. /\ UNCHANGED <<heads, next, bump, slotHead, freeOn, held, chain, tl>>
          /\ pc'[t] = "load" /\ \A u \in Threads : u # t => pc'[u] = pc[u] /\ hd'[u] = hd[u]
      BY <1>1, <1>a, Zenon DEF PopCas, Goto, Inv, TypeOK
    <2> QED BY <2>1, <1>a, ThreadSets, LinkedSame, Zenon DEF Linked
  <1>2. CASE heads[sh] = hd[t]
    <2>1. hd[t] \in freeOn[sh] /\ nx[t] = next[hd[t]] /\ IsList(hd[t], freeOn[sh])
      BY <1>2, <1>a, ConstantTypes DEF PopCas, Inv, FreeLists, IsList, GuestOK, HostOK
    <2>2. /\ heads'[sh] = nx[t] /\ \A a \in Shard : a # sh => heads'[a] = heads[a]
          /\ freeOn'[sh] = freeOn[sh] \ {hd[t]}
          /\ \A a \in Shard : a # sh => freeOn'[a] = freeOn[a]
          /\ held'[t] = {hd[t]} /\ \A u \in Threads : u # t => held'[u] = held[u]
          /\ UNCHANGED <<next, bump, slotHead, chain, hd>>
      BY <1>2, <1>a, Zenon DEF PopCas, Goto, Inv, TypeOK
    <2>3. /\ pc'[t] = IF t = Host THEN "pushload" ELSE "reset"
          /\ t = Host => tl'[t] = hd[t]
          /\ \A u \in Threads : u # t => pc'[u] = pc[u] /\ tl'[u] = tl[u]
      BY <1>2, <1>a, Zenon DEF PopCas, Goto, Inv, TypeOK
    <2>4. next[hd[t]] # hd[t]
      BY <2>1, <1>a, ConstantTypes, Zenon DEF IsList
    <2>5. Connected(next, nx[t], freeOn[sh] \ {hd[t]})
      BY <1>2, <1>a, <2>1, <2>4, ConnectedPop, Zenon DEF Linked
    <2> HIDE DEF sh
    <2>6. \A a \in Shard : Connected(next', heads'[a], freeOn'[a])
      BY <2>2, <2>5, Zenon DEF Linked
    <2>7. \A s \in Allocators : Connected(next', slotHead'[s], chain'[s])
      BY <2>2, Zenon DEF Linked
    <2>8. pc'[Host] \in {"walk", "pushload", "pushstore", "pushcas"} =>
            Connected(next', hd'[Host], held'[Host])
      BY <2>2, <2>3, ThreadSets, ConnectedOne DEF Linked
    <2>9. pc'[Host] \in {"pushload", "pushstore"} => next'[tl'[Host]] \notin held'[Host]
      BY <2>2, <2>3, <2>4, ThreadSets DEF Linked
    <2>10. \A p \in Page : p < bump' =>
             \/ \E a \in Shard : p \in freeOn'[a]
             \/ \E u \in Threads : p \in held'[u]
             \/ \E s \in Allocators : p \in chain'[s]
      <3> SUFFICES ASSUME NEW p \in Page, p < bump, p # hd[t]
                   PROVE  \/ \E a \in Shard : p \in freeOn'[a]
                          \/ \E u \in Threads : p \in held'[u]
                          \/ \E s \in Allocators : p \in chain'[s]
        BY <1>a, <2>2, Zenon
      <3>1. CASE \E a \in Shard : p \in freeOn[a]
        BY <3>1, <2>2, Zenon
      <3>2. CASE \E u \in Threads : p \in held[u]
        BY <3>2, <1>a, <2>2, Zenon
      <3>3. CASE \E s \in Allocators : p \in chain[s]
        BY <3>3, <2>2, Zenon
      <3> QED BY <3>1, <3>2, <3>3, Zenon DEF Linked
    <2> QED BY <2>6, <2>7, <2>8, <2>9, <2>10, Zenon DEF Linked
  <1> QED BY <1>1, <1>2, Zenon

(* Resetting a page in a hand touches no list, chain or claimed page.      *)
LEMMA LinkedReset ==
  ASSUME Phased, Inv, Linked, NEW t \in Allocators, ResetPage(t)
  PROVE  Linked'
  <1>1. t \in Threads /\ hd[t] \in Page /\ held[t] = {hd[t]} /\ pc[t] = "reset"
    BY ThreadSets, Zenon DEF ResetPage, Inv, GuestOK
  <1>2. /\ \A s \in Allocators : hd[t] \notin chain[s]
        /\ \A a \in Shard : hd[t] \notin freeOn[a]
    BY <1>1, HeldAlone, Zenon DEF Inv
  <1>3. /\ \A p \in Page : p # hd[t] => next'[p] = next[p]
        /\ UNCHANGED <<heads, bump, slotHead, hd, tl, ghosts>>
        /\ pc'[Host] = pc[Host] /\ pc[Host] = "idle"
    BY <1>1, ThreadSets, Zenon DEF ResetPage, Goto, Inv, TypeOK, Phases, regs
  <1>4. \A a \in Shard : \A p \in freeOn[a] : next'[p] = next[p]
    BY <1>2, <1>3, Zenon DEF Inv, TypeOK
  <1>5. \A s \in Allocators : \A p \in chain[s] : next'[p] = next[p]
    BY <1>2, <1>3, Zenon DEF Inv, TypeOK
  <1>6. \A a \in Shard : Connected(next', heads'[a], freeOn'[a])
    BY <1>3, <1>4, ConnectedSame, Zenon DEF Linked, ghosts
  <1>7. \A s \in Allocators : Connected(next', slotHead'[s], chain'[s])
    BY <1>3, <1>5, ConnectedSame, Zenon DEF Linked, ghosts
  <1> QED BY <1>3, <1>6, <1>7, Zenon DEF Linked, ghosts

(* A fresh page is claimed into the hand of its allocator.                 *)
LEMMA LinkedBump ==
  ASSUME Phased, Inv, Linked, NEW t \in Allocators, BumpAlloc(t)
  PROVE  Linked'
  <1>1. /\ t \in Threads /\ held[t] = {} /\ pc[t] = "bump" /\ bump \in Nat
        /\ held'[t] = {bump} /\ \A u \in Threads : u # t => held'[u] = held[u]
        /\ bump' = bump + 1
        /\ pc'[Host] = pc[Host] /\ pc[Host] = "idle"
        /\ UNCHANGED <<heads, next, slotHead, freeOn, chain>>
    BY ThreadSets DEF BumpAlloc, Goto, Inv, TypeOK, GuestOK, Phases
  <1>2. \A p \in Page : p < bump' => p < bump \/ p \in held'[t]
    BY <1>1 DEF Page
  <1>3. \A p \in Page : p < bump =>
          \/ \E a \in Shard : p \in freeOn'[a]
          \/ \E u \in Threads : p \in held'[u]
          \/ \E s \in Allocators : p \in chain'[s]
    BY <1>1, Zenon DEF Linked
  <1> QED BY <1>1, <1>2, <1>3, Zenon DEF Linked

(* Appending a page extends the chain of its slot.                         *)
LEMMA LinkedLinkPage ==
  ASSUME Phased, Inv, Linked, NEW t \in Allocators, LinkPage(t)
  PROVE  Linked'
  <1>a. t \in Threads /\ hd[t] \in Page /\ held[t] = {hd[t]} /\ pc[t] = "link"
    BY ThreadSets, Zenon DEF LinkPage, Inv, GuestOK
  <1>b. /\ \A s \in Allocators : hd[t] \notin chain[s]
        /\ \A a \in Shard : hd[t] \notin freeOn[a]
    BY <1>a, HeldAlone, Zenon DEF Inv
  <1>c. /\ held'[t] = {} /\ \A u \in Threads : u # t => held'[u] = held[u]
        /\ chain'[t] = chain[t] \union {hd[t]}
        /\ \A s \in Allocators : s # t => chain'[s] = chain[s]
        /\ pc'[Host] = pc[Host] /\ pc[Host] = "idle"
        /\ UNCHANGED <<heads, bump, freeOn>>
    BY <1>a, ThreadSets DEF LinkPage, Goto, Inv, TypeOK, Phases
  <1>d. /\ \A s \in Allocators : s # t => slotHead'[s] = slotHead[s]
        /\ slotTail[t] = Null => slotHead'[t] = hd[t] /\ next' = next
        /\ slotTail[t] # Null => slotHead'[t] = slotHead[t] /\ next'[slotTail[t]] = hd[t]
        /\ \A p \in Page : p # slotTail[t] => next'[p] = next[p]
    BY <1>a, ConstantTypes, Zenon DEF LinkPage, Inv, TypeOK
  <1>e. \/ slotTail[t] = Null /\ chain[t] = {}
        \/ /\ slotTail[t] \in chain[t] /\ slotHead[t] \in chain[t]
           /\ next[slotTail[t]] = Null /\ slotTail[t] # Null
    BY ConstantTypes DEF Inv, Slots, IsChain, TypeOK
  <1>1. \A a \in Shard : Connected(next', heads'[a], freeOn'[a])
    <2>1. \A a \in Shard : \A p \in freeOn[a] : next'[p] = next[p]
      BY <1>d, <1>e, ConstantTypes, Zenon DEF Inv, TypeOK, Owned
    <2> QED BY <2>1, <1>c, ConnectedSame DEF Linked
  <1>2. ASSUME NEW s \in Allocators PROVE Connected(next', slotHead'[s], chain'[s])
    <2>1. CASE s # t
      <3>1. \A p \in chain[s] : next'[p] = next[p]
        BY <2>1, <1>d, <1>e, ConstantTypes, Zenon DEF Inv, TypeOK, Owned
      <3> QED BY <2>1, <3>1, <1>c, <1>d, ConnectedSame DEF Linked
    <2>2. CASE s = t /\ chain[t] = {} /\ slotTail[t] = Null
      <3>1. chain'[t] = {hd[t]}
        BY <2>2, <1>c, Zenon
      <3> QED BY <2>2, <3>1, <1>d, ConnectedOne
    <2>3. CASE s = t /\ slotTail[t] \in chain[t] /\ slotTail[t] # Null
      <3>1. \A p \in chain[t] : p # slotTail[t] => next'[p] = next[p]
        BY <1>d, Zenon DEF Inv, TypeOK
      <3>2. next[slotTail[t]] \notin chain[t] /\ slotHead[t] \in chain[t]
        BY <2>3, <1>e, ConstantTypes, Zenon DEF Inv, TypeOK
      <3>3. Connected(next, slotHead[t], chain[t]) /\ hd[t] \notin chain[t]
        BY <1>b, Zenon DEF Linked
      <3>4. Connected(next', slotHead[t], chain[t] \union {hd[t]})
        BY <2>3, <3>1, <3>2, <3>3, <1>d, ConnectedAppend
      <3> QED BY <2>3, <3>4, <1>c, <1>d, Zenon
    <2> QED BY <2>1, <2>2, <2>3, <1>e, Zenon
  <1>3. \A p \in Page : p < bump =>
          \/ \E a \in Shard : p \in freeOn'[a]
          \/ \E u \in Threads : p \in held'[u]
          \/ \E s \in Allocators : p \in chain'[s]
    <2> SUFFICES ASSUME NEW p \in Page, p < bump, p # hd[t]
                 PROVE  \/ \E a \in Shard : p \in freeOn'[a]
                        \/ \E u \in Threads : p \in held'[u]
                        \/ \E s \in Allocators : p \in chain'[s]
      BY <1>c, Zenon
    <2>1. CASE \E a \in Shard : p \in freeOn[a]
      BY <2>1, <1>c, Zenon
    <2>2. CASE \E u \in Threads : p \in held[u]
      BY <2>2, <1>a, <1>c, Zenon
    <2>3. CASE \E s \in Allocators : p \in chain[s]
      BY <2>3, <1>c, Zenon
    <2> QED BY <2>1, <2>2, <2>3, Zenon DEF Linked
  <1> QED BY <1>1, <1>2, <1>3, <1>c, Zenon DEF Linked

(* Detaching a slot hands its whole chain to the runner.                   *)
LEMMA LinkedDetach ==
  ASSUME Phased, Inv, Linked, NEW s \in Allocators, Detach(Host, s)
  PROVE  Linked'
  <1>1. /\ Host \in Threads /\ pc[Host] = "idle" /\ held[Host] = {}
        /\ pc'[Host] = "walk" /\ hd'[Host] = slotHead[s]
        /\ held'[Host] = chain[s] /\ \A u \in Threads : u # Host => held'[u] = held[u]
        /\ chain'[s] = {} /\ \A r \in Allocators : r # s => chain'[r] = chain[r]
        /\ \A r \in Allocators : r # s => slotHead'[r] = slotHead[r]
        /\ UNCHANGED <<heads, next, bump, freeOn>>
    BY ThreadSets, Zenon DEF Detach, Goto, Inv, TypeOK, HostOK
  <1>2. Connected(next', hd'[Host], held'[Host])
    BY <1>1, Zenon DEF Linked
  <1>3. Connected(next', slotHead'[s], chain'[s])
    BY <1>1, Zenon DEF Connected
  <1>4. \A r \in Allocators : Connected(next', slotHead'[r], chain'[r])
    BY <1>1, <1>3, Zenon DEF Linked
  <1>5. ASSUME NEW p \in Page, p < bump
        PROVE  \/ \E a \in Shard : p \in freeOn'[a]
               \/ \E u \in Threads : p \in held'[u]
               \/ \E r \in Allocators : p \in chain'[r]
    <2>1. CASE \E a \in Shard : p \in freeOn[a]
      BY <2>1, <1>1, Zenon
    <2>2. CASE \E u \in Threads : p \in held[u]
      BY <2>2, <1>1, Zenon
    <2>3. CASE \E r \in Allocators : p \in chain[r]
      BY <2>3, <1>1, Zenon
    <2> QED BY <1>5, <2>1, <2>2, <2>3, Zenon DEF Linked
  <1> QED BY <1>1, <1>2, <1>4, <1>5, Zenon DEF Linked

(* Linking the detached chain to the list changes the link of its tail.    *)
LEMMA LinkedPushStore ==
  ASSUME Phased, Inv, Linked, PushStore(Host)
  PROVE  Linked'
  <1>1. /\ Host \in Threads /\ pc[Host] = "pushstore"
        /\ tl[Host] \in held[Host] /\ tl[Host] \in Page
        /\ nx[Host] = heads[ShardOf(hd[Host])] /\ ShardOf(hd[Host]) \in Shard
    BY ThreadSets, ShardOfType, Zenon DEF PushStore, Inv, HostOK, IsChain, TypeOK
  <1>2. /\ \A r \in Allocators : tl[Host] \notin chain[r]
        /\ \A a \in Shard : tl[Host] \notin freeOn[a]
    BY <1>1, HeldAlone, Zenon DEF Inv
  <1>3. /\ next'[tl[Host]] = nx[Host] /\ \A p \in Page : p # tl[Host] => next'[p] = next[p]
        /\ pc'[Host] = "pushcas" /\ UNCHANGED <<heads, bump, slotHead, hd, tl, ghosts>>
    BY <1>1, Zenon DEF PushStore, Goto, Inv, TypeOK, regs
  <1>4. \A a \in Shard : Connected(next', heads'[a], freeOn'[a])
    <2>1. \A a \in Shard : \A p \in freeOn[a] : next'[p] = next[p]
      BY <1>2, <1>3, Zenon DEF Inv, TypeOK
    <2> QED BY <2>1, <1>3, ConnectedSame, Zenon DEF Linked, ghosts
  <1>5. \A s \in Allocators : Connected(next', slotHead'[s], chain'[s])
    <2>1. \A s \in Allocators : \A p \in chain[s] : next'[p] = next[p]
      BY <1>2, <1>3, Zenon DEF Inv, TypeOK
    <2> QED BY <2>1, <1>3, ConnectedSame, Zenon DEF Linked, ghosts
  <1>6. Connected(next', hd'[Host], held'[Host])
    <2>1. Connected(next, hd[Host], held[Host]) /\ next[tl[Host]] \notin held[Host]
      BY <1>1, Zenon DEF Linked
    <2>2. \A p \in held[Host] : p # tl[Host] => next'[p] = next[p]
      BY <1>1, <1>3, Zenon DEF Inv, TypeOK
    <2>3. ASSUME NEW T \in SUBSET held[Host], hd[Host] \in held[Host] => hd[Host] \in T,
                 \A r \in T : next'[r] \in held[Host] => next'[r] \in T
          PROVE  held[Host] \subseteq T
      <3>1. \A r \in T : next[r] \in held[Host] => next[r] \in T
        BY <2>1, <2>2, <2>3, Zenon
      <3> QED BY <2>1, <2>3, <3>1, Zenon DEF Connected
    <2> QED BY <2>3, <1>3, Zenon DEF Connected, ghosts
  <1> QED BY <1>3, <1>4, <1>5, <1>6, Zenon DEF Linked, ghosts

(* Publishing the chain puts it in front of the list of its shard.         *)
LEMMA LinkedPushCas ==
  ASSUME Phased, Inv, Linked, PushCas(Host)
  PROVE  Linked'
  <1> DEFINE sh == ShardOf(hd[Host])
  <1>a. /\ Host \in Threads /\ pc[Host] = "pushcas"
        /\ hd[Host] \in held[Host] /\ tl[Host] \in held[Host] /\ hd[Host] \in Page
        /\ nx[Host] = heads[sh] /\ next[tl[Host]] = heads[sh] /\ sh \in Shard
    BY ThreadSets, ShardOfType, Zenon DEF PushCas, Inv, HostOK, IsChain, TypeOK
  <1>b. /\ heads'[sh] = hd[Host] /\ \A a \in Shard : a # sh => heads'[a] = heads[a]
        /\ freeOn'[sh] = freeOn[sh] \union held[Host]
        /\ \A a \in Shard : a # sh => freeOn'[a] = freeOn[a]
        /\ held'[Host] = {} /\ \A u \in Threads : u # Host => held'[u] = held[u]
        /\ pc'[Host] = "idle" /\ UNCHANGED <<next, bump, slotHead, chain>>
    BY <1>a, Zenon DEF PushCas, Goto, Inv, TypeOK
  <1> HIDE DEF sh
  <1>1. Connected(next, hd[Host], held[Host] \union freeOn[sh])
    BY <1>a, ConnectedJoin, Zenon DEF Linked
  <1>2. \A a \in Shard : Connected(next', heads'[a], freeOn'[a])
    <2>1. freeOn'[sh] = held[Host] \union freeOn[sh]
      BY <1>b, Zenon
    <2> QED BY <2>1, <1>1, <1>b, Zenon DEF Linked
  <1>3. ASSUME NEW p \in Page, p < bump
        PROVE  \/ \E a \in Shard : p \in freeOn'[a]
               \/ \E u \in Threads : p \in held'[u]
               \/ \E r \in Allocators : p \in chain'[r]
    <2>1. CASE \E a \in Shard : p \in freeOn[a]
      BY <2>1, <1>b, Zenon
    <2>2. CASE \E u \in Threads : p \in held[u]
      BY <2>2, <1>a, <1>b, Zenon
    <2>3. CASE \E r \in Allocators : p \in chain[r]
      BY <2>3, <1>b, Zenon
    <2> QED BY <1>3, <2>1, <2>2, <2>3, Zenon DEF Linked
  <1> QED BY <1>2, <1>3, <1>b, Zenon DEF Linked

(***************************************************************************)
(* Theorems                                                                *)
(***************************************************************************)

(* Initially every list and chain is empty and no page has been claimed.   *)
LEMMA LinkedInit == ASSUME Phased, Init PROVE Linked
  BY ThreadSets DEF Init, Linked, Connected, Page

(* Every step keeps the lists connected.                                   *)
LEMMA LinkedNext == ASSUME Phased, Inv, Linked, [Next]_vars PROVE Linked'
  <1>1. ASSUME NEW t \in Allocators, AllocStep(t) PROVE Linked'
    BY <1>1, LinkedRegisters, LinkedBump, LinkedReset, LinkedLinkPage, Zenon DEF AllocStep
  <1>2. ASSUME NEW t \in Allocators \union {Host}, PopStep(t) PROVE Linked'
    BY <1>2, LinkedRegisters, LinkedPop, Zenon DEF PopStep
  <1>3. ASSUME NEW f \in Freers, FreeStep(f) PROVE Linked'
    <2>1. FreeStep(Host)
      BY <1>3, ThreadSets, Zenon
    <2> QED BY <2>1, LinkedDetach, LinkedRegisters, LinkedPushStore, LinkedPushCas, Zenon
        DEF FreeStep
  <1>4. CASE StartTrim \/ EndWave \/ NextWave \/ UNCHANGED vars
    BY <1>4, LinkedRegisters, Zenon
  <1> QED BY <1>1, <1>2, <1>3, <1>4, Zenon DEF Next

(* The chain of a slot is what a walk from its head visits.                *)
LEMMA SlotIsList ==
  ASSUME Inv, NEW s \in Allocators PROVE IsList(slotHead[s], chain[s])
  <1>1. CASE slotHead[s] = Null /\ chain[s] = {}
    BY <1>1, Zenon DEF IsList
  <1>2. CASE IsChain(slotHead[s], slotTail[s], chain[s]) /\ next[slotTail[s]] = Null
    BY <1>2, Zenon DEF IsList, IsChain
  <1> QED BY <1>1, <1>2, Zenon DEF Inv, Slots

(* What the invariants say of the pages is NothingLost.                    *)
LEMMA LinkedNothingLost == ASSUME Phased, Inv, Linked PROVE NothingLost
  <1>1. \A sh \in Shard : Reach(heads[sh]) = freeOn[sh]
    BY ReachList DEF Inv, FreeLists, TypeOK, Linked
  <1>2. \A s \in Allocators : Reach(slotHead[s]) = chain[s]
    BY ReachList, SlotIsList, SMTT(20) DEF Inv, TypeOK, Linked
  <1> DEFINE owned == (UNION {freeOn[sh] : sh \in Shard})
                          \union (UNION {held[t] : t \in Threads})
                          \union (UNION {chain[s] : s \in Allocators})
  <1>3. owned \subseteq 1 .. bump - 1
    BY DEF Inv, Fresh, TypeOK, Page
  <1>4. 1 .. bump - 1 \subseteq owned
    <2>1. \A p \in 1 .. bump - 1 : p \in Page /\ p < bump
      BY PoolAssumption DEF Inv, TypeOK, Page
    <2> QED BY <2>1, Zenon DEF Linked
  <1> QED BY <1>1, <1>2, <1>3, <1>4, Zenon DEF NothingLost

(* No page is lost or smuggled in, for any number of guests, pages and     *)
(* shards: a walk along next_offset from a free-list head or a slot head   *)
(* visits exactly the pages that the pops, appends and pushes left there,  *)
(* and every page the bump pointer has passed is in a list, in a chain or  *)
(* in a hand.  Slots are freed by the runner between waves only.           *)
THEOREM PhasedNothingLost == ASSUME Phased PROVE Spec => []NothingLost
  <1>1. Init => Inv /\ Linked
    BY InitInv, LinkedInit, Zenon
  <1>2. Inv /\ Linked /\ [Next]_vars => Inv' /\ Linked'
    BY NextInv, LinkedNext, Zenon
  <1>3. Inv /\ Linked => NothingLost
    BY LinkedNothingLost, Zenon
  <1> QED BY <1>1, <1>2, <1>3, PTL DEF Spec

(***************************************************************************)
(* The pool implements PageOwnership                                       *)
(***************************************************************************)

Avail == (bump .. NPages) \union (UNION {freeOn[sh] : sh \in Shard})

(* A page that leaves the bump region or a free list goes to one hand.     *)
LEMMA TakeRefined ==
  ASSUME Inv, NEW t \in Threads, held[t] = {}, NEW p \in Avail,
         Avail' = Avail \ {p}, held' = [held EXCEPT ![t] = {p}], chain' = chain
  PROVE  Ownership!Next
  <1>1. Ownership!Take(t)
    BY Zenon DEF Ownership!Take, Avail
  <1> QED BY <1>1, Zenon DEF Ownership!Next, Threads

(* A winning pop takes the head of a free list.                            *)
LEMMA PopRefined ==
  ASSUME Phased, Inv, NEW t \in Allocators \union {Host}, PopCas(t)
  PROVE  Ownership!Next \/ UNCHANGED <<Avail, held, chain>>
  <1> DEFINE sh == ScanShard(t)
  <1>a. t \in Threads /\ sh \in Shard /\ hd[t] \in Page /\ pc[t] = "cas" /\ held[t] = {}
    BY ThreadSets, ScanShardType, Zenon DEF PopCas, Inv, GuestOK, HostOK
  <1>1. CASE heads[sh] # hd[t]
    <2>1. UNCHANGED <<bump, freeOn, held, chain>>
      BY <1>1, Zenon DEF PopCas
    <2> QED BY <2>1, Zenon DEF Avail
  <1>2. CASE heads[sh] = hd[t]
    <2>1. hd[t] \in freeOn[sh]
      <3>1. IsList(heads[sh], freeOn[sh])
        BY <1>a, Zenon DEF Inv, FreeLists
      <3>2. hd[t] # Null
        BY <1>a, ConstantTypes, Zenon
      <3> QED BY <1>2, <3>1, <3>2, Zenon DEF IsList
    <2>2. /\ freeOn'[sh] = freeOn[sh] \ {hd[t]}
          /\ \A a \in Shard : a # sh => freeOn'[a] = freeOn[a]
          /\ held' = [held EXCEPT ![t] = {hd[t]}] /\ bump' = bump /\ chain' = chain
      BY <1>2, <1>a, SMTT(20) DEF PopCas, Inv, TypeOK
    <2> HIDE DEF sh
    <2>3. \A a \in Shard : a # sh => hd[t] \notin freeOn[a]
      BY <1>a, <2>1, Zenon DEF Inv, Owned
    <2>4. hd[t] \notin bump .. NPages
      BY <1>a, <2>1, SMTT(20) DEF Inv, Fresh, TypeOK, Page
    <2>5. hd[t] \in Avail /\ Avail' = Avail \ {hd[t]}
      BY <1>a, <2>1, <2>2, <2>3, <2>4 DEF Avail
    <2> QED BY <1>a, <2>2, <2>5, TakeRefined, Zenon
  <1> QED BY <1>1, <1>2, SMTT(20)

(* The bump pointer gives out the first page it has not reached.           *)
LEMMA BumpRefined ==
  ASSUME Phased, Inv, NEW t \in Allocators, BumpAlloc(t)
  PROVE  Ownership!Next
  <1>1. /\ t \in Threads /\ held[t] = {} /\ bump \in 1 .. NPages /\ bump' = bump + 1
        /\ held' = [held EXCEPT ![t] = {bump}] /\ freeOn' = freeOn /\ chain' = chain
    BY ThreadSets, PoolAssumption DEF BumpAlloc, Inv, TypeOK, GuestOK
  <1>2. \A a \in Shard : bump \notin freeOn[a]
    BY <1>1 DEF Inv, Fresh
  <1>3. bump' .. NPages = (bump .. NPages) \ {bump} /\ bump \in bump .. NPages
    BY <1>1, PoolAssumption
  <1>4. bump \in Avail /\ Avail' = Avail \ {bump}
    BY <1>1, <1>2, <1>3, Zenon DEF Avail
  <1> QED BY <1>1, <1>4, TakeRefined, Zenon

(* Appending the held page, detaching a slot and publishing its chain are  *)
(* the attach, detach and return of the abstract specification.            *)
LEMMA MoveRefined ==
  ASSUME Phased, Inv,
         \/ \E t \in Allocators : LinkPage(t)
         \/ \E s \in Allocators : Detach(Host, s)
         \/ PushCas(Host)
  PROVE  Ownership!Next
  <1>1. ASSUME NEW t \in Allocators, LinkPage(t) PROVE Ownership!Next
    <2>1. /\ pc[t] = "link" /\ held' = [held EXCEPT ![t] = {}]
          /\ chain' = [chain EXCEPT ![t] = @ \union {hd[t]}] /\ UNCHANGED <<bump, freeOn>>
      BY <1>1, Zenon DEF LinkPage
    <2>2. held[t] = {hd[t]}
      BY <2>1, Zenon DEF Inv, GuestOK
    <2>3. Ownership!Attach(t)
      BY <2>1, <2>2, Zenon DEF Ownership!Attach
    <2> QED BY <2>3, Zenon DEF Ownership!Next
  <1>2. ASSUME NEW s \in Allocators, Detach(Host, s) PROVE Ownership!Next
    <2>1. pc[Host] = "idle" /\ slotHead[s] # Null /\ UNCHANGED <<bump, freeOn>>
      BY <1>2, Zenon DEF Detach
    <2>2. held[Host] = {}
      BY <2>1, Zenon DEF Inv, HostOK
    <2>3. chain[s] # {}
      BY <2>1, SlotIsList, Zenon DEF IsList
    <2>4. Ownership!Detach(Host, s)
      BY <1>2, <2>1, <2>2, <2>3, Zenon DEF Detach, Ownership!Detach
    <2> QED BY <2>4, Zenon DEF Ownership!Next, Freers
  <1>3. CASE PushCas(Host)
    <2> DEFINE sh == ShardOf(hd[Host])
    <2>1. /\ held[Host] # {} /\ nx[Host] = heads[sh] /\ sh \in Shard
      BY <1>3, ThreadSets, ShardOfType, Zenon DEF PushCas, Inv, HostOK, IsChain, TypeOK
    <2>2. /\ held' = [held EXCEPT ![Host] = {}] /\ UNCHANGED <<bump, chain>>
          /\ freeOn'[sh] = freeOn[sh] \union held[Host]
          /\ \A a \in Shard : a # sh => freeOn'[a] = freeOn[a]
      BY <1>3, <2>1, Zenon DEF PushCas, Inv, TypeOK
    <2> HIDE DEF sh
    <2>3. Avail' = Avail \union held[Host]
      BY <2>1, <2>2, Zenon DEF Avail
    <2>4. Ownership!Return(Host)
      BY <2>1, <2>2, <2>3, Zenon DEF Ownership!Return, Avail
    <2> QED BY <2>4, Zenon DEF Ownership!Next, Freers
  <1> QED BY <1>1, <1>2, <1>3, Zenon

(* Every other step is invisible to the abstract specification.            *)
LEMMA OtherStepsRefined ==
  ASSUME \/ \E t \in Threads : StartAlloc(t) \/ OutOfPages(t) \/ ResetPage(t)
                                 \/ LoadHead(t) \/ LoadNext(t)
         \/ Walk(Host) \/ PushLoad(Host) \/ PushStore(Host)
         \/ StartTrim \/ EndWave \/ NextWave \/ UNCHANGED vars
  PROVE  UNCHANGED <<Avail, held, chain>>
  <1>1. UNCHANGED <<bump, freeOn, held, chain>>
    BY Zenon DEF StartAlloc, OutOfPages, ResetPage, LoadHead, LoadNext, Walk, PushLoad, PushStore,
       StartTrim, EndWave, NextWave, vars, shared, regs, ghosts
  <1> QED BY <1>1, Zenon DEF Avail

(* Every step of the pool is a step of PageOwnership or invisible to it.   *)
LEMMA NextRefined ==
  ASSUME Phased, Inv, [Next]_vars PROVE [Ownership!Next]_(Ownership!vars)
  <1> SUFFICES Ownership!Next \/ UNCHANGED <<Avail, held, chain>>
    BY Zenon DEF Ownership!vars, Avail
  <1>1. ASSUME NEW t \in Allocators, AllocStep(t)
        PROVE  Ownership!Next \/ UNCHANGED <<Avail, held, chain>>
    BY <1>1, ThreadSets, BumpRefined, MoveRefined, OtherStepsRefined, Zenon DEF AllocStep
  <1>2. ASSUME NEW t \in Allocators \union {Host}, PopStep(t)
        PROVE  Ownership!Next \/ UNCHANGED <<Avail, held, chain>>
    BY <1>2, ThreadSets, PopRefined, OtherStepsRefined, Zenon DEF PopStep
  <1>3. ASSUME NEW f \in Freers, FreeStep(f)
        PROVE  Ownership!Next \/ UNCHANGED <<Avail, held, chain>>
    <2>1. FreeStep(Host)
      BY <1>3, ThreadSets, Zenon
    <2> QED BY <2>1, MoveRefined, OtherStepsRefined, Zenon DEF FreeStep
  <1>4. CASE StartTrim \/ EndWave \/ NextWave \/ UNCHANGED vars
    BY <1>4, OtherStepsRefined, Zenon
  <1> QED BY <1>1, <1>2, <1>3, <1>4, Zenon DEF Next

(* The free lists, the bump pointer and the slots together implement the   *)
(* single ownership of pages that PageOwnership states, for any number of  *)
(* guests, pages and shards, in runs that free slots between waves only.   *)
THEOREM PhasedImplementsOwnership == ASSUME Phased PROVE Spec => ImplementsOwnership
  <1>1. Init => Ownership!Init
    BY PoolAssumption DEF Init, Ownership!Init, Page, Threads
  <1>2. Inv /\ [Next]_vars => [Ownership!Next]_(Ownership!vars)
    BY NextRefined, Zenon
  <1> QED BY <1>1, <1>2, PhasedInvariant, PTL DEF Spec, ImplementsOwnership, Ownership!Spec
=============================================================================
