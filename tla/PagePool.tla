------------------------------ MODULE PagePool ------------------------------
(***************************************************************************)
(* The shared page pool of one SHM file: the sharded Treiber-stack free    *)
(* lists and the bump pointer of the superblock, used concurrently by WASM *)
(* guests (guest/src/api/page_allocator.rs) and by host threads            *)
(* (host/src/runtime/mem_operation/reclaimer.rs), and the page chains of   *)
(* the slots the pages end up in.                                          *)
(*                                                                         *)
(* Every load, store and compare-exchange on a word that another process   *)
(* may touch is a step of its own; steps on words only the caller can      *)
(* reach are merged with the access before them.                           *)
(*                                                                         *)
(* Who runs when is decided by the DAG runner: guests allocate during a    *)
(* wave, the runner frees slots and trims the free list in the reclamation *)
(* that follows, when every guest of the wave has exited.  Two kinds of    *)
(* thread cross that line: Background allocators (input prefetch threads   *)
(* and deferred RemoteRecv threads, which call alloc_page in any phase)    *)
(* and WaveFreers, which free a slot while guests of the wave run (a       *)
(* FreeSlots node, executed after the wave's children were spawned; the    *)
(* RDMA threads of a stream pipeline).                                     *)
(*                                                                         *)
(* freeOn, held and chain are history variables: they record where each    *)
(* page went, no guard of an action that models code reads them.           *)
(***************************************************************************)
EXTENDS Naturals, FiniteSets

CONSTANTS
    NPages,      \* pages of the direct window; page 0 stands for the offset 0
    NShards,     \* FREE_LIST_SHARD_COUNT
    Guests,      \* WASM guest processes of a wave
    Background,  \* host threads that allocate in any phase
    WaveFreers,  \* host threads that free a slot during a wave
    Host         \* the DAG runner's own thread

ASSUME PoolAssumption ==
    /\ NPages \in Nat \ {0}
    /\ NShards \in Nat \ {0}
    /\ Host \notin Guests \union Background \union WaveFreers
    /\ Guests \intersect Background = {}
    /\ WaveFreers \intersect (Guests \union Background) = {}

Page == 1 .. NPages
Null == 0
Link == Page \union {Null}
Shard == 0 .. NShards - 1
Allocators == Guests \union Background
Freers == WaveFreers \union {Host}
Threads == Allocators \union Freers

VARIABLES
    heads,      \* free_list_heads
    next,       \* next_offset of every page
    bump,       \* bump_allocator, in pages: the first page never handed out
    slotHead,   \* writer_heads / io_heads: one slot per allocator
    slotTail,   \* writer_tails / io_tails
    phase,      \* "wave", "reclaim", or "aborted" after a failed allocation
    pc,
    start,      \* shard the scan of an allocation began with
    tried,      \* shards found empty so far
    hd,         \* register: head of the shard, or of the chain to push
    nx,         \* register: successor of hd, or the head to push in front of
    tl,         \* register: tail of the chain to push
    freeOn,     \* history: pages of every free-list shard
    held,       \* history: pages in the hand of every thread
    chain       \* history: pages of every slot

shared == <<heads, next, bump, slotHead, slotTail>>
regs == <<start, tried, hd, nx, tl>>
ghosts == <<freeOn, held, chain>>
vars == <<shared, phase, pc, regs, ghosts>>

Init ==
    /\ heads = [sh \in Shard |-> Null]
    /\ next = [p \in Page |-> Null]
    /\ bump = 1
    /\ slotHead = [s \in Allocators |-> Null]
    /\ slotTail = [s \in Allocators |-> Null]
    /\ phase = "wave"
    /\ pc = [t \in Threads |-> "idle"]
    /\ start = [t \in Threads |-> 0]
    /\ tried = [t \in Threads |-> 0]
    /\ hd = [t \in Threads |-> Null]
    /\ nx = [t \in Threads |-> Null]
    /\ tl = [t \in Threads |-> Null]
    /\ freeOn = [sh \in Shard |-> {}]
    /\ held = [t \in Threads |-> {}]
    /\ chain = [s \in Allocators |-> {}]

Goto(t, l) == pc' = [pc EXCEPT ![t] = l]

(* The shard a scan looks at, and the shard a page or chain returns to.    *)
ScanShard(t) == (start[t] + tried[t]) % NShards
ShardOf(p) == p % NShards

(* The locals of a scan are dead once it has ended.                        *)
EndScan(t) ==
    /\ start' = [start EXCEPT ![t] = 0]
    /\ tried' = [tried EXCEPT ![t] = 0]

(***************************************************************************)
(* Allocation: try_allocate_page (guest) and alloc_page (host).            *)
(***************************************************************************)

(* A writer needs a page: the round-robin counter picks the first shard.   *)
(* The counter is shared by all callers, so any shard may come out.        *)
StartAlloc(t) ==
    /\ pc[t] = "idle"
    /\ \/ t \in Guests /\ phase = "wave"
       \/ t \in Background /\ phase # "aborted"
    /\ \E sh \in Shard : start' = [start EXCEPT ![t] = sh]
    /\ tried' = [tried EXCEPT ![t] = 0]
    /\ Goto(t, "load")
    /\ UNCHANGED <<shared, phase, hd, nx, tl, ghosts>>

(* Bug: after the last shard the scan starts over instead of bumping.      *)
LoadHeadRescan(t) ==
    /\ pc[t] = "load"
    /\ hd' = [hd EXCEPT ![t] = heads[ScanShard(t)]]
    /\ \/ /\ heads[ScanShard(t)] # Null
          /\ Goto(t, "next")
          /\ UNCHANGED tried
       \/ /\ heads[ScanShard(t)] = Null
          /\ tried' = [tried EXCEPT ![t] = (@ + 1) % NShards]
          /\ UNCHANGED pc
    /\ UNCHANGED <<shared, phase, start, nx, tl, ghosts>>

(* Load the head of the shard; an empty shard sends the scan to the next   *)
(* one, and after the last one to the bump pointer.  The trimming host     *)
(* thread gives up instead (pop_one_free_page returns None).               *)
LoadHead(t) ==
    /\ pc[t] = "load"
    /\ hd' = [hd EXCEPT ![t] = heads[ScanShard(t)]]
    /\ \/ /\ heads[ScanShard(t)] # Null
          /\ Goto(t, "next")
          /\ UNCHANGED <<start, tried>>
       \/ /\ heads[ScanShard(t)] = Null
          /\ tried[t] + 1 < NShards
          /\ tried' = [tried EXCEPT ![t] = @ + 1]
          /\ UNCHANGED <<pc, start>>
       \/ /\ heads[ScanShard(t)] = Null
          /\ tried[t] + 1 = NShards
          /\ EndScan(t)
          /\ Goto(t, IF t = Host THEN "idle" ELSE "bump")
    /\ UNCHANGED <<shared, phase, nx, tl, ghosts>>

LoadNext(t) ==
    /\ pc[t] = "next"
    /\ nx' = [nx EXCEPT ![t] = next[hd[t]]]
    /\ Goto(t, "cas")
    /\ UNCHANGED <<shared, phase, start, tried, hd, tl, ghosts>>

(* Bug: the head is stored without comparing it.                           *)
PopBlind(t) ==
    /\ pc[t] = "cas"
    /\ heads' = [heads EXCEPT ![ScanShard(t)] = nx[t]]
    /\ freeOn' = [freeOn EXCEPT ![ScanShard(t)] = @ \ {hd[t]}]
    /\ held' = [held EXCEPT ![t] = {hd[t]}]
    /\ tl' = [tl EXCEPT ![t] = IF t = Host THEN hd[t] ELSE Null]
    /\ EndScan(t)
    /\ Goto(t, IF t = Host THEN "pushload" ELSE "reset")
    /\ nx' = [nx EXCEPT ![t] = Null]
    /\ UNCHANGED <<next, bump, slotHead, slotTail, phase, hd, chain>>

(* The compare-exchange of the pop.  On success the page is the caller's;  *)
(* on failure the same shard is tried again.                               *)
PopCas(t) ==
    /\ pc[t] = "cas"
    /\ LET sh == ScanShard(t) IN
        \/ /\ heads[sh] = hd[t]
           /\ heads' = [heads EXCEPT ![sh] = nx[t]]
           /\ freeOn' = [freeOn EXCEPT ![sh] = @ \ {hd[t]}]
           /\ held' = [held EXCEPT ![t] = {hd[t]}]
           /\ tl' = [tl EXCEPT ![t] = IF t = Host THEN hd[t] ELSE Null]
           /\ EndScan(t)
           /\ Goto(t, IF t = Host THEN "pushload" ELSE "reset")
           /\ UNCHANGED hd
        \/ /\ heads[sh] # hd[t]
           /\ hd' = [hd EXCEPT ![t] = Null]
           /\ Goto(t, "load")
           /\ UNCHANGED <<heads, freeOn, held, start, tried, tl>>
    /\ nx' = [nx EXCEPT ![t] = Null]
    /\ UNCHANGED <<next, bump, slotHead, slotTail, phase, chain>>

(* The popped page gets next_offset = 0 (and cursor = 0).                  *)
ResetPage(t) ==
    /\ pc[t] = "reset"
    /\ next' = [next EXCEPT ![hd[t]] = Null]
    /\ Goto(t, "link")
    /\ UNCHANGED <<heads, bump, slotHead, slotTail, phase, regs, ghosts>>

(* Bug: the limit of the window is not checked.                            *)
BumpUnchecked(t) ==
    /\ pc[t] = "bump"
    /\ hd' = [hd EXCEPT ![t] = bump]
    /\ bump' = bump + 1
    /\ held' = [held EXCEPT ![t] = {bump}]
    /\ Goto(t, "link")
    /\ UNCHANGED <<heads, next, slotHead, slotTail, phase, start, tried, nx, tl, freeOn, chain>>

(* All shards were empty: claim the next fresh page.  Guest compare-       *)
(* exchange and host fetch_add are both one atomic step when they succeed; *)
(* growth of the window is the business of BumpHeap.                       *)
BumpAlloc(t) ==
    /\ pc[t] = "bump"
    /\ bump <= NPages
    /\ hd' = [hd EXCEPT ![t] = bump]
    /\ bump' = bump + 1
    /\ held' = [held EXCEPT ![t] = {bump}]
    /\ Goto(t, "link")
    /\ UNCHANGED <<heads, next, slotHead, slotTail, phase, start, tried, nx, tl, freeOn, chain>>

(* No fresh page left: the guest panics, the host returns an error, and in *)
(* both cases run_dag ends.                                                *)
OutOfPages(t) ==
    /\ pc[t] = "bump"
    /\ bump > NPages
    /\ phase' = "aborted"
    /\ Goto(t, "idle")
    /\ UNCHANGED <<shared, regs, ghosts>>

(* The writer appends the page to its slot.                                *)
LinkPage(t) ==
    /\ pc[t] = "link"
    /\ \/ /\ slotTail[t] = Null
          /\ slotHead' = [slotHead EXCEPT ![t] = hd[t]]
          /\ UNCHANGED next
       \/ /\ slotTail[t] # Null
          /\ next' = [next EXCEPT ![slotTail[t]] = hd[t]]
          /\ UNCHANGED slotHead
    /\ slotTail' = [slotTail EXCEPT ![t] = hd[t]]
    /\ held' = [held EXCEPT ![t] = {}]
    /\ chain' = [chain EXCEPT ![t] = @ \union {hd[t]}]
    /\ hd' = [hd EXCEPT ![t] = Null]
    /\ Goto(t, "idle")
    /\ UNCHANGED <<heads, bump, phase, start, tried, nx, tl, freeOn>>

(***************************************************************************)
(* Reclamation: free_stream_slot / free_io_slot, free_page_chain.          *)
(***************************************************************************)

MayFree(f) == (f = Host /\ phase = "reclaim") \/ (f \in WaveFreers /\ phase = "wave")

(* Bug: the head is loaded, not swapped: the slot keeps its chain.         *)
DetachByLoad(f, s) ==
    /\ pc[f] = "idle"
    /\ MayFree(f)
    /\ pc[s] = "idle"
    /\ slotHead[s] # Null
    /\ hd' = [hd EXCEPT ![f] = slotHead[s]]
    /\ tl' = [tl EXCEPT ![f] = slotHead[s]]
    /\ held' = [held EXCEPT ![f] = chain[s]]
    /\ Goto(f, "walk")
    /\ UNCHANGED <<shared, phase, start, tried, nx, freeOn, chain>>

(* Swap the slot's head to 0 and zero its tail.  The slot's writer has     *)
(* finished its turn: the runner waited for it.                            *)
Detach(f, s) ==
    /\ pc[f] = "idle"
    /\ MayFree(f)
    /\ pc[s] = "idle"
    /\ slotHead[s] # Null
    /\ hd' = [hd EXCEPT ![f] = slotHead[s]]
    /\ tl' = [tl EXCEPT ![f] = slotHead[s]]
    /\ slotHead' = [slotHead EXCEPT ![s] = Null]
    /\ slotTail' = [slotTail EXCEPT ![s] = Null]
    /\ held' = [held EXCEPT ![f] = chain[s]]
    /\ chain' = [chain EXCEPT ![s] = {}]
    /\ Goto(f, "walk")
    /\ UNCHANGED <<heads, next, bump, phase, start, tried, nx, freeOn>>

(* Walk to the tail of the detached chain.                                 *)
Walk(f) ==
    /\ pc[f] = "walk"
    /\ \/ /\ next[tl[f]] # Null
          /\ tl' = [tl EXCEPT ![f] = next[tl[f]]]
          /\ UNCHANGED pc
       \/ /\ next[tl[f]] = Null
          /\ Goto(f, "pushload")
          /\ UNCHANGED tl
    /\ UNCHANGED <<shared, phase, start, tried, hd, nx, ghosts>>

(* Treiber push of the chain hd .. tl onto the shard of its head.          *)
PushLoad(f) ==
    /\ pc[f] = "pushload"
    /\ nx' = [nx EXCEPT ![f] = heads[ShardOf(hd[f])]]
    /\ Goto(f, "pushstore")
    /\ UNCHANGED <<shared, phase, start, tried, hd, tl, ghosts>>

(* Bug: the tail is not linked to the old head.                            *)
PushStoreSkip(f) ==
    /\ pc[f] = "pushstore"
    /\ Goto(f, "pushcas")
    /\ UNCHANGED <<shared, phase, regs, ghosts>>

PushStore(f) ==
    /\ pc[f] = "pushstore"
    /\ next' = [next EXCEPT ![tl[f]] = nx[f]]
    /\ Goto(f, "pushcas")
    /\ UNCHANGED <<heads, bump, slotHead, slotTail, phase, regs, ghosts>>

PushCas(f) ==
    /\ pc[f] = "pushcas"
    /\ LET sh == ShardOf(hd[f]) IN
        \/ /\ heads[sh] = nx[f]
           /\ heads' = [heads EXCEPT ![sh] = hd[f]]
           /\ freeOn' = [freeOn EXCEPT ![sh] = @ \union held[f]]
           /\ held' = [held EXCEPT ![f] = {}]
           /\ hd' = [hd EXCEPT ![f] = Null]
           /\ tl' = [tl EXCEPT ![f] = Null]
           /\ Goto(f, "idle")
        \/ /\ heads[sh] # nx[f]
           /\ Goto(f, "pushload")
           /\ UNCHANGED <<heads, freeOn, held, hd, tl>>
    /\ nx' = [nx EXCEPT ![f] = Null]
    /\ UNCHANGED <<next, bump, slotHead, slotTail, phase, start, tried, chain>>

(* trim_free_list: pop a page, release its physical memory, push it back.  *)
(* pop_one_free_page always scans from shard 0.                            *)
StartTrim ==
    /\ pc[Host] = "idle"
    /\ phase = "reclaim"
    /\ start' = [start EXCEPT ![Host] = 0]
    /\ tried' = [tried EXCEPT ![Host] = 0]
    /\ Goto(Host, "load")
    /\ UNCHANGED <<shared, phase, hd, nx, tl, ghosts>>

(***************************************************************************)
(* The DAG runner's phases.                                                *)
(***************************************************************************)

(* Every child of the wave, and every thread joined with it, has ended.    *)
EndWave ==
    /\ phase = "wave"
    /\ \A t \in Guests \union WaveFreers : pc[t] = "idle"
    /\ phase' = "reclaim"
    /\ UNCHANGED <<shared, pc, regs, ghosts>>

NextWave ==
    /\ phase = "reclaim"
    /\ pc[Host] = "idle"
    /\ phase' = "wave"
    /\ UNCHANGED <<shared, pc, regs, ghosts>>

AllocStep(t) ==
    \/ StartAlloc(t)
    \/ BumpAlloc(t)
    \/ OutOfPages(t)
    \/ ResetPage(t)
    \/ LinkPage(t)

PopStep(t) ==
    \/ LoadHead(t)
    \/ LoadNext(t)
    \/ PopCas(t)

FreeStep(f) ==
    \/ \E s \in Allocators : Detach(f, s)
    \/ Walk(f)
    \/ PushLoad(f)
    \/ PushStore(f)
    \/ PushCas(f)

Next ==
    \/ \E t \in Allocators : AllocStep(t)
    \/ \E t \in Allocators \union {Host} : PopStep(t)
    \/ \E f \in Freers : FreeStep(f)
    \/ StartTrim
    \/ EndWave
    \/ NextWave

Spec == Init /\ [][Next]_vars

(* Scheduling: a thread inside an operation is not suspended for ever; no  *)
(* thread has to start one.                                                *)
Continue(t) ==
    \/ LoadHead(t) \/ LoadNext(t) \/ PopCas(t) \/ ResetPage(t)
    \/ BumpAlloc(t) \/ OutOfPages(t) \/ LinkPage(t)

FairSpec == Spec /\ \A t \in Allocators : WF_vars(Continue(t))

-----------------------------------------------------------------------------
(***************************************************************************)
(* Properties                                                              *)
(***************************************************************************)

Labels == {"idle", "load", "next", "cas", "reset", "bump", "link",
           "walk", "pushload", "pushstore", "pushcas"}

(* Every variable has its type.                                            *)
TypeOK ==
    /\ heads \in [Shard -> Link]
    /\ next \in [Page -> Link]
    /\ bump \in 1 .. NPages + 1
    /\ slotHead \in [Allocators -> Link]
    /\ slotTail \in [Allocators -> Link]
    /\ phase \in {"wave", "reclaim", "aborted"}
    /\ pc \in [Threads -> Labels]
    /\ start \in [Threads -> Shard]
    /\ tried \in [Threads -> 0 .. NShards]
    /\ hd \in [Threads -> Link]
    /\ nx \in [Threads -> Link]
    /\ tl \in [Threads -> Link]
    /\ freeOn \in [Shard -> SUBSET Page]
    /\ held \in [Threads -> SUBSET Page]
    /\ chain \in [Allocators -> SUBSET Page]

(* A page has at most one owner: it is never in the hands of two threads,  *)
(* never handed out while it is still part of a slot's chain or of a free  *)
(* list, and never part of two of those.  This is what alloc_page and      *)
(* free_page_chain promise to any number of concurrent threads.            *)
SingleOwner ==
    /\ \A t, u \in Threads : t # u => held[t] \intersect held[u] = {}
    /\ \A s, r \in Allocators : s # r => chain[s] \intersect chain[r] = {}
    /\ \A a, b \in Shard : a # b => freeOn[a] \intersect freeOn[b] = {}
    /\ \A t \in Threads, s \in Allocators : held[t] \intersect chain[s] = {}
    /\ \A t \in Threads, a \in Shard : held[t] \intersect freeOn[a] = {}
    /\ \A s \in Allocators, a \in Shard : chain[s] \intersect freeOn[a] = {}

(* Pages reached from p by following next_offset: those in every set that  *)
(* holds p and, with a page, its successor.                                *)
Reach(p) ==
    LET Closed(S) == /\ p # Null => p \in S
                     /\ \A q \in S : next[q] # Null => next[q] \in S
    IN {q \in Page : \A S \in SUBSET Page : Closed(S) => q \in S}

(* No page is lost or smuggled in: following the links from a free-list    *)
(* head or a slot head visits exactly the pages that were put there, and   *)
(* every page ever claimed from the bump pointer is in a list, in a chain  *)
(* or in somebody's hand.                                                  *)
NothingLost ==
    /\ \A sh \in Shard : Reach(heads[sh]) = freeOn[sh]
    /\ \A s \in Allocators : Reach(slotHead[s]) = chain[s]
    /\ 1 .. bump - 1 = (UNION {freeOn[sh] : sh \in Shard})
                          \union (UNION {held[t] : t \in Threads})
                          \union (UNION {chain[s] : s \in Allocators})

(* The pool implements single ownership of pages: every step is a take,    *)
(* attach, detach or return of the abstract specification, or invisible.   *)
Ownership == INSTANCE PageOwnership
    WITH Page <- Page, Allocator <- Allocators, Freer <- Freers,
         avail <- (bump .. NPages) \union (UNION {freeOn[sh] : sh \in Shard}),
         held <- held, chain <- chain

ImplementsOwnership == Ownership!Spec

(* An allocation ends: although the pop is a retry loop, a guest cannot    *)
(* lose the race for ever while the free lists only shrink in a wave.      *)
AllocationEnds ==
    \A t \in Allocators : (pc[t] # "idle") ~> (pc[t] = "idle")
=============================================================================
