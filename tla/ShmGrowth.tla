----------------------------- MODULE ShmGrowth ------------------------------
(***************************************************************************)
(* Growth of the SHM file under its allocators.  The superblock holds the  *)
(* bump pointer and global_capacity; the file has a length; every process  *)
(* has its own mapping of it and its own idea of how much it mapped        *)
(* (LOCAL_CAPACITY in a guest, MAPPED_CAP in the host).  Sizes are in      *)
(* pages; page p is the bytes [p, p+1).  The free lists are empty here     *)
(* (PagePool models them): every allocation comes from the bump pointer.   *)
(*                                                                         *)
(*   Guests     WASM processes of a wave, try_allocate_page                *)
(*   Hosts      host threads, alloc_page and alloc_and_link, which share   *)
(*              the host's mapping and the SHM_GROW lock                   *)
(*   Receivers  host threads, alloc_and_link_from_buf_direct, which grow   *)
(*              through the mesh and its own lock                          *)
(*                                                                         *)
(* Host threads outside InWave allocate only between waves, after the      *)
(* runner has re-synchronised its mapping.  given is a history variable.   *)
(***************************************************************************)
EXTENDS Naturals, FiniteSets

CONSTANTS
    Guests, Hosts, Receivers,
    InWave,       \* host threads that allocate while guests run
    Initial,      \* INITIAL_SHM_SIZE
    SoftLimit,    \* BUMP_SOFT_LIMIT
    HardLimit,    \* CAPACITY_HARD_LIMIT
    Sizes,        \* pages a host thread asks for at once
    Scenes,       \* the threads that take part, and whether the extended
                  \* pool is in Paged mode
    Host          \* the host process

Nobody == "nobody"    \* the holder of a free lock

ASSUME GrowthAssumption ==
    /\ Initial \in Nat \ {0} /\ SoftLimit \in Nat /\ HardLimit \in Nat
    /\ 1 < Initial /\ Initial <= HardLimit /\ SoftLimit <= HardLimit
    /\ Sizes \subseteq Nat \ {0}
    /\ Scenes \subseteq [threads : SUBSET (Guests \union Hosts \union Receivers), paged : BOOLEAN]
    /\ InWave \subseteq Hosts \union Receivers
    /\ Guests \intersect (Hosts \union Receivers) = {}
    /\ Hosts \intersect Receivers = {}
    /\ Host \notin Guests
    /\ Nobody \notin Guests \union Hosts \union Receivers

Threads == Guests \union Hosts \union Receivers
Process == Guests \union {Host}

VARIABLES
    scene,      \* the scene that is played, never changed
    bump,       \* bump_allocator
    cap,        \* global_capacity
    fileLen,    \* length of the SHM file
    vma,        \* pages every process has mapped
    local,      \* LOCAL_CAPACITY of a guest; MAPPED_CAP of the host
    lock,       \* holders of SHM_GROW and of the mesh's shm_file
    phase,      \* "wave", "between" waves, "failed"
    pc,
    base,       \* bump value a thread has read or reserved from
    len,        \* pages it reserves
    target,     \* capacity it is about to establish
    given       \* history: how often each page was handed out

shared == <<bump, cap, fileLen>>
maps == <<vma, local>>
regs == <<base, len, target>>
vars == <<scene, shared, maps, lock, phase, pc, regs, given>>

Max2(a, b) == IF a < b THEN b ELSE a
Min2(a, b) == IF a < b THEN a ELSE b

(* format_shared_memory, and the first mapping of every process.           *)
Init ==
    /\ scene \in Scenes
    /\ bump = 1
    /\ cap = Initial
    /\ fileLen = Initial
    /\ vma = [p \in Process |-> Initial]
    /\ local = [p \in Process |-> Initial]
    /\ lock = [l \in {"shm_grow", "shm_file"} |-> Nobody]
    /\ phase = "wave"
    /\ pc = [t \in Threads |-> "idle"]
    /\ base = [t \in Threads |-> 0]
    /\ len = [t \in Threads |-> 0]
    /\ target = [t \in Threads |-> 0]
    /\ given = [p \in 0 .. HardLimit - 1 |-> 0]

Goto(t, l) == pc' = [pc EXCEPT ![t] = l]
Set(f, t, v) == [f EXCEPT ![t] = v]
End(t) == base[t] + len[t]

(* Pages a .. b-1 are handed out.                                          *)
Give(a, b) ==
    given' = [p \in DOMAIN given |-> IF a <= p /\ p < b THEN given[p] + 1 ELSE given[p]]

(* set_len, whatever the length was, and MAP_FIXED over the old mapping.   *)
ExpandMapping(p, size) ==
    /\ fileLen' = size
    /\ vma' = Set(vma, p, Max2(vma[p], size))

(***************************************************************************)
(* try_allocate_page of a guest                                            *)
(***************************************************************************)

(* Load the bump pointer; panic at the soft limit.                         *)
GuestLoad(g) ==
    /\ \/ pc[g] = "idle" /\ phase = "wave"
       \/ pc[g] = "load"
    /\ \/ /\ bump >= SoftLimit
          /\ phase' = "failed"
          /\ Goto(g, "panic")
          /\ UNCHANGED base
       \/ /\ bump < SoftLimit
          /\ base' = Set(base, g, bump)
          /\ Goto(g, IF bump + 1 > local[g] THEN "grow" ELSE "claim")
          /\ UNCHANGED phase
    /\ UNCHANGED <<shared, maps, lock, len, target, given>>

(* Bug: the last doubling is refused and the loop spins, as it once did.   *)
GuestGrowSpin(g) ==
    /\ pc[g] = "grow"
    /\ \/ /\ cap > local[g]
          /\ target' = Set(target, g, cap)
          /\ Goto(g, "remap")
       \/ /\ cap <= local[g]
          /\ 2 * local[g] < HardLimit
          /\ target' = Set(target, g, 2 * local[g])
          /\ Goto(g, "cas")
       \/ /\ cap <= local[g]
          /\ 2 * local[g] >= HardLimit
          /\ Goto(g, "load")
          /\ UNCHANGED target
    /\ UNCHANGED <<shared, maps, lock, phase, base, len, given>>

(* Bug: the doubled capacity is not clamped to the hard limit.             *)
GuestGrowUnclamped(g) ==
    /\ pc[g] = "grow"
    /\ target' = Set(target, g, IF cap > local[g] THEN cap ELSE 2 * local[g])
    /\ Goto(g, IF cap > local[g] THEN "remap" ELSE "cas")
    /\ UNCHANGED <<shared, maps, lock, phase, base, len, given>>

(* Load global_capacity: somebody grew already, or double it.              *)
GuestGrow(g) ==
    /\ pc[g] = "grow"
    /\ \/ /\ cap > local[g]
          /\ target' = Set(target, g, cap)
          /\ Goto(g, "remap")
          /\ UNCHANGED phase
       \/ /\ cap <= local[g]
          /\ Min2(2 * local[g], HardLimit) > local[g]
          /\ target' = Set(target, g, Min2(2 * local[g], HardLimit))
          /\ Goto(g, "cas")
          /\ UNCHANGED phase
       \/ /\ cap <= local[g]
          /\ Min2(2 * local[g], HardLimit) <= local[g]
          /\ phase' = "failed"
          /\ Goto(g, "panic")
          /\ UNCHANGED target
    /\ UNCHANGED <<shared, maps, lock, base, len, given>>

(* Bug: the new capacity is stored without looking at the old one.         *)
GuestGrowCasBlind(g) ==
    /\ pc[g] = "cas"
    /\ cap' = target[g]
    /\ Goto(g, "remap")
    /\ UNCHANGED <<bump, fileLen, maps, lock, phase, regs, given>>

(* The compare-exchange on global_capacity.                                *)
GuestGrowCas(g) ==
    /\ pc[g] = "cas"
    /\ \/ /\ cap = local[g]
          /\ cap' = target[g]
          /\ Goto(g, "remap")
       \/ /\ cap # local[g]
          /\ Goto(g, "load")
          /\ UNCHANGED cap
    /\ UNCHANGED <<bump, fileLen, maps, lock, phase, regs, given>>

(* Bug: the guest notes the new capacity and forgets the remap.            *)
GuestRemapSkip(g) ==
    /\ pc[g] \in {"remap", "reread"}
    /\ local' = Set(local, g, target[g])
    /\ Goto(g, IF pc[g] = "remap" THEN "load" ELSE "idle")
    /\ UNCHANGED <<shared, vma, lock, phase, regs, given>>

(* host_remap(target): expand_mapping in the guest's process.              *)
GuestRemap(g) ==
    /\ pc[g] \in {"remap", "reread"}
    /\ ExpandMapping(g, target[g])
    /\ local' = Set(local, g, target[g])
    /\ Goto(g, IF pc[g] = "remap" THEN "load" ELSE "idle")
    /\ UNCHANGED <<bump, cap, lock, phase, regs, given>>

(* Bug: the page is taken though the bump pointer has moved.               *)
GuestClaimBlind(g) ==
    /\ pc[g] = "claim"
    /\ bump' = base[g] + 1
    /\ Give(base[g], base[g] + 1)
    /\ Goto(g, "use")
    /\ len' = Set(len, g, 1)
    /\ UNCHANGED <<cap, fileLen, maps, lock, phase, base, target>>

(* The compare-exchange on the bump pointer.                               *)
GuestClaim(g) ==
    /\ pc[g] = "claim"
    /\ \/ /\ bump = base[g]
          /\ bump' = base[g] + 1
          /\ Give(base[g], base[g] + 1)
          /\ len' = Set(len, g, 1)
          /\ Goto(g, "use")
       \/ /\ bump # base[g]
          /\ Goto(g, "load")
          /\ UNCHANGED <<bump, given, len>>
    /\ UNCHANGED <<cap, fileLen, maps, lock, phase, base, target>>

(* A guest that follows a chain to a page beyond LOCAL_CAPACITY maps the   *)
(* grown file first (chain_read_latest, read_all_stream_records).          *)
GuestFollow(g) ==
    /\ pc[g] = "idle" /\ phase = "wave"
    /\ \E p \in DOMAIN given : given[p] > 0 /\ p + 1 > local[g] /\ cap >= p + 1
    /\ target' = Set(target, g, cap)
    /\ Goto(g, "reread")
    /\ UNCHANGED <<shared, maps, lock, phase, base, len, given>>

(***************************************************************************)
(* Host threads: alloc_page, alloc_and_link, alloc_and_link_from_buf_direct*)
(***************************************************************************)

(* fetch_add on the bump pointer: the first try, or a receiver's retry.    *)
Reserve(h, n) ==
    /\ \/ /\ pc[h] = "idle"
          /\ phase = "between" \/ (phase = "wave" /\ h \in InWave)
       \/ pc[h] = "retry" /\ len[h] = n
    /\ base' = Set(base, h, bump)
    /\ len' = Set(len, h, n)
    /\ bump' = bump + n
    /\ Goto(h, "check")
    /\ UNCHANGED <<cap, fileLen, maps, lock, phase, target, given>>

(* Bug: the range is never compared with the capacity.                     *)
CheckNever(h) ==
    /\ pc[h] = "check"
    /\ Give(base[h], End(h))
    /\ Goto(h, "use")
    /\ UNCHANGED <<shared, maps, lock, phase, regs>>

(* Compare the reserved range with the capacity.  The unlocked fast path   *)
(* of try_grow_shm repeats this load, so it is this step at a later time.  *)
Check(h) ==
    /\ pc[h] = "check"
    /\ \/ /\ End(h) <= cap
          /\ Give(base[h], End(h))
          /\ Goto(h, "use")
       \/ /\ End(h) > cap
          /\ Goto(h, IF h \in Receivers THEN "return" ELSE "lock")
          /\ UNCHANGED given
    /\ UNCHANGED <<shared, maps, lock, phase, regs>>

(* Bug: one page more than was reserved is given back.                     *)
ReturnOneMore(h) ==
    /\ pc[h] = "return"
    /\ bump' = bump - (len[h] + 1)
    /\ Goto(h, "lock")
    /\ UNCHANGED <<cap, fileLen, maps, lock, phase, regs, given>>

(* A receiver gives the range back before it grows the file.               *)
Return(h) ==
    /\ pc[h] = "return"
    /\ bump' = bump - len[h]
    /\ Goto(h, "lock")
    /\ UNCHANGED <<cap, fileLen, maps, lock, phase, regs, given>>

LockOf(h) == IF h \in Receivers THEN "shm_file" ELSE "shm_grow"
NewCap(h) == Min2(Max2(2 * cap, End(h)), HardLimit)

(* The lock is free: look again, give up at the hard limit, or grow.       *)
Lock(h) ==
    /\ pc[h] = "lock"
    /\ lock[LockOf(h)] = Nobody
    /\ \/ /\ cap >= End(h)
          /\ \/ h \in Receivers /\ Goto(h, "retry") /\ UNCHANGED given
             \/ h \in Hosts /\ Goto(h, "use") /\ Give(base[h], End(h))
          /\ UNCHANGED <<lock, target, phase>>
       \/ /\ cap < End(h) /\ NewCap(h) < End(h)
          /\ IF h \in Hosts /\ len[h] = 1 /\ scene.paged
             THEN Goto(h, "undo") /\ UNCHANGED phase
             ELSE Goto(h, "idle") /\ phase' = "failed"
          /\ UNCHANGED <<lock, target, given>>
       \/ /\ cap < End(h) /\ NewCap(h) >= End(h)
          /\ lock' = Set(lock, LockOf(h), h)
          /\ target' = Set(target, h, NewCap(h))
          /\ Goto(h, "expand")
          /\ UNCHANGED <<phase, given>>
    /\ UNCHANGED <<shared, maps, base, len>>

(* set_len and mmap under the lock; only try_grow_shm notes MAPPED_CAP.    *)
Expand(h) ==
    /\ pc[h] = "expand"
    /\ ExpandMapping(Host, target[h])
    /\ local' = IF h \in Hosts THEN Set(local, Host, target[h]) ELSE local
    /\ Goto(h, "publish")
    /\ UNCHANGED <<bump, cap, lock, phase, regs, given>>

(* Store global_capacity and release the lock.                             *)
Publish(h) ==
    /\ pc[h] = "publish"
    /\ cap' = target[h]
    /\ lock' = Set(lock, LockOf(h), Nobody)
    /\ \/ h \in Receivers /\ Goto(h, "retry") /\ UNCHANGED given
       \/ h \in Hosts /\ Goto(h, "use") /\ Give(base[h], End(h))
    /\ UNCHANGED <<bump, fileLen, maps, phase, regs>>

(* In Paged mode alloc_page undoes its fetch_add and takes a paged page.   *)
Undo(h) ==
    /\ pc[h] = "undo"
    /\ bump' = bump - 1
    /\ Goto(h, "idle")
    /\ UNCHANGED <<cap, fileLen, maps, lock, phase, regs, given>>

(* The pages are initialised and written: the thread's mapping is used.    *)
Use(t) ==
    /\ pc[t] = "use"
    /\ Goto(t, "idle")
    /\ base' = Set(base, t, 0) /\ len' = Set(len, t, 0) /\ target' = Set(target, t, 0)
    /\ UNCHANGED <<shared, maps, lock, phase, given>>

(***************************************************************************)
(* The DAG runner                                                          *)
(***************************************************************************)

(* Bug: the runner does not re-synchronise its mapping after a wave.       *)
EndWaveUnsynced ==
    /\ phase = "wave" /\ \A g \in Guests : pc[g] = "idle"
    /\ phase' = "between"
    /\ UNCHANGED <<shared, maps, lock, pc, regs, given>>

(* The children have exited: sync_mapping_if_grown.                        *)
EndWave ==
    /\ phase = "wave" /\ \A g \in Guests : pc[g] = "idle"
    /\ phase' = "between"
    /\ IF cap <= local[Host]
       THEN UNCHANGED <<fileLen, maps>>
       ELSE /\ fileLen' = Max2(fileLen, cap)
            /\ vma' = Set(vma, Host, Max2(vma[Host], cap))
            /\ local' = Set(local, Host, cap)
    /\ UNCHANGED <<bump, cap, lock, pc, regs, given>>

(* The next wave's children map the file as long as it is.                 *)
NextWave ==
    /\ phase = "between" /\ \A h \in Hosts \union Receivers : h \notin InWave => pc[h] = "idle"
    /\ phase' = "wave"
    /\ vma' = [p \in Process |-> IF p = Host THEN vma[p] ELSE Max2(fileLen, Initial)]
    /\ local' = [p \in Process |-> IF p = Host THEN local[p] ELSE Initial]
    /\ fileLen' = Max2(fileLen, Initial)
    /\ UNCHANGED <<bump, cap, lock, pc, regs, given>>

GuestStep(g) ==
    \/ GuestLoad(g) \/ GuestGrow(g) \/ GuestGrowCas(g) \/ GuestRemap(g)
    \/ GuestClaim(g) \/ GuestFollow(g) \/ Use(g)

HostStep(h) ==
    \/ \E n \in Sizes : Reserve(h, n)
    \/ Check(h) \/ Return(h) \/ Lock(h) \/ Expand(h) \/ Publish(h) \/ Undo(h) \/ Use(h)

Next ==
    /\ \/ \E g \in Guests \intersect scene.threads : GuestStep(g)
       \/ \E h \in (Hosts \union Receivers) \intersect scene.threads : HostStep(h)
       \/ EndWave
       \/ NextWave
    /\ UNCHANGED scene

Spec == Init /\ [][Next]_vars

(* The operating system runs every process that can take a step; nothing   *)
(* obliges a guest to start an allocation or a wave to begin.              *)
FairSpec ==
    /\ Spec
    /\ \A g \in Guests : WF_vars(pc[g] # "idle" /\ GuestStep(g) /\ UNCHANGED scene)
    /\ \A h \in Hosts \union Receivers :
         WF_vars(pc[h] # "idle" /\ HostStep(h) /\ UNCHANGED scene)

-----------------------------------------------------------------------------
(* Properties                                                              *)

Labels == {"idle", "load", "grow", "cas", "remap", "reread", "claim", "use", "panic",
           "check", "return", "lock", "expand", "publish", "retry", "undo"}

(* The superblock's words, the mappings and the registers keep their types.*)
TypeOK ==
    /\ scene \in Scenes
    /\ bump \in Nat /\ cap \in Initial .. HardLimit /\ fileLen \in Initial .. HardLimit
    /\ vma \in [Process -> Initial .. HardLimit]
    /\ local \in [Process -> Initial .. HardLimit]
    /\ lock \in [{"shm_grow", "shm_file"} -> Threads \union {Nobody}]
    /\ phase \in {"wave", "between", "failed"}
    /\ pc \in [Threads -> Labels]
    /\ base \in [Threads -> Nat] /\ len \in [Threads -> Nat]
    /\ target \in [Threads -> 0 .. HardLimit]
    /\ given \in [0 .. HardLimit - 1 -> Nat]

(* try_allocate_page, alloc_page and the receive paths hand out no page of *)
(* the bump region twice.                                                  *)
NeverTwice == \A p \in DOMAIN given : given[p] <= 1

(* Every page handed out lies inside the file, so what was written to it   *)
(* is still there for the next reader.                                     *)
PagesBacked == \A p \in DOMAIN given : given[p] > 0 => p < fileLen

(* Pages are where their users look for them.  A thread about to write     *)
(* what it was given has mapped all of it (a write past the mapping lands  *)
(* in the reserved region and is lost).  Between waves the runner's        *)
(* mapping covers every page handed out: reclamation and the host nodes    *)
(* read through it.  Every such page lies below global_capacity, where a   *)
(* guest that follows a chain stops, and in waves with a single guest in   *)
(* the file, whatever the host threads do: the SHM_GROW lock orders the    *)
(* lengths they set (try_grow_shm).                                        *)
PagesUsable ==
    /\ \A t \in Threads : pc[t] = "use" =>
         End(t) <= vma[IF t \in Guests THEN t ELSE Host]
    /\ \A p \in DOMAIN given : given[p] > 0 =>
         p < cap /\ (phase = "between" => p < vma[Host])
    /\ Cardinality(Guests \intersect scene.threads) <= 1 => PagesBacked

(* A guest's allocation ends: with a page, or with a panic.                *)
AllocationReturns ==
    \A g \in Guests : pc[g] = "load" ~> pc[g] \in {"use", "panic"}
=============================================================================
