-------------------------- MODULE ShmGrowthProofs ---------------------------
(***************************************************************************)
(* The bump pointer hands out no page twice, for any number of guests and  *)
(* host threads, any sizes and limits, growth and stale mappings included, *)
(* as long as no thread gives a reservation back.  And the pages handed    *)
(* out are mapped where they are used and backed by the file, as long as   *)
(* the threads that grow it share a lock.                                  *)
(***************************************************************************)
EXTENDS ShmGrowth, Integers, TLAPS

(* No thread runs alloc_and_link_from_buf_direct or the Paged fallback.    *)
NoGiveBack == \A s \in Scenes : s.threads \intersect Receivers = {} /\ s.paged = FALSE

Reserving == {"check", "lock", "expand", "publish"}
GivingBack == {"return", "retry", "undo"}

(* What a thread has reserved from the bump pointer and not been given yet *)
(* lies below the bump pointer, was never given and meets no other         *)
(* reservation; pages given lie below the bump pointer.                    *)
Words ==
    /\ scene \in Scenes
    /\ bump \in Nat
    /\ base \in [Threads -> Nat] /\ len \in [Threads -> Nat]
    /\ pc \in [Threads -> Labels]
    /\ DOMAIN given \subseteq Nat
    /\ \A p \in DOMAIN given : given[p] \in {0, 1}
    /\ \A g \in Guests : pc[g] \notin Reserving
    /\ \A t \in Threads : pc[t] \notin GivingBack

Given == \A p \in DOMAIN given : given[p] # 0 => p < bump

Reserved ==
    \A h \in Threads : pc[h] \in Reserving =>
        /\ End(h) <= bump
        /\ \A p \in DOMAIN given : base[h] <= p /\ p < End(h) => given[p] = 0

Apart ==
    \A h, k \in Threads : h # k /\ pc[h] \in Reserving /\ pc[k] \in Reserving =>
        End(h) <= base[k] \/ End(k) <= base[h]

Inv == Words /\ Given /\ Reserved /\ Apart

(* Steps that leave the bump pointer, the reservations and the pages given *)
(* as they are, and reserve nothing.                                       *)
LEMMA Bystander ==
  ASSUME Inv, NEW t \in Threads, scene' = scene, bump' = bump, given' = given,
         base' \in [Threads -> Nat], len' \in [Threads -> Nat], pc' \in [Threads -> Labels],
         \A u \in Threads : u # t => /\ pc'[u] = pc[u] /\ base'[u] = base[u] /\ len'[u] = len[u],
         pc'[t] \notin GivingBack,
         \/ pc'[t] \notin Reserving
         \/ /\ t \notin Guests /\ pc[t] \in Reserving
            /\ base'[t] = base[t] /\ len'[t] = len[t]
  PROVE  Inv'
  <1>1. \A u \in Threads : pc'[u] \in Reserving =>
          /\ pc[u] \in Reserving /\ End(u)' = End(u) /\ base'[u] = base[u]
    BY Zenon DEF End
  <1>2. Words'
    BY Zenon DEF Inv, Words, Threads
  <1>3. Given'
    BY Zenon DEF Inv, Given
  <1>4. Reserved'
    BY <1>1, Zenon DEF Inv, Reserved
  <1>5. Apart'
    BY <1>1, Zenon DEF Inv, Apart
  <1> QED BY <1>2, <1>3, <1>4, <1>5, Zenon DEF Inv

(* A host thread whose range fits is given exactly what it reserved.       *)
LEMMA Granted ==
  ASSUME Inv, NEW h \in Threads, pc[h] \in Reserving, Goto(h, "use"),
         Give(base[h], End(h)), UNCHANGED <<scene, bump, base, len>>
  PROVE  Inv'
  <1>1. /\ pc'[h] = "use" /\ \A u \in Threads : u # h => pc'[u] = pc[u]
        /\ pc' \in [Threads -> Labels] /\ pc'[h] \notin Reserving /\ pc'[h] \notin GivingBack
    BY Zenon DEF Goto, Inv, Words, Reserving, GivingBack, Labels
  <1>2. /\ DOMAIN given' = DOMAIN given
        /\ \A p \in DOMAIN given : \/ base[h] <= p /\ p < End(h) /\ given'[p] = given[p] + 1
                                   \/ ~(base[h] <= p /\ p < End(h)) /\ given'[p] = given[p]
    BY Zenon DEF Give
  <1>3. \A u \in Threads : End(u)' = End(u)
    BY Zenon DEF End
  <1>4. \A p \in DOMAIN given : \/ given'[p] = given[p]
                                \/ given'[p] = 1 /\ base[h] <= p /\ p < End(h)
    BY <1>2 DEF Inv, Reserved
  <1>5. Words'
    BY <1>1, <1>2, <1>4, Zenon DEF Inv, Words, Threads
  <1>6. Given'
    <2> SUFFICES ASSUME NEW p \in DOMAIN given, given'[p] # 0 PROVE p < bump
      BY <1>2, Zenon DEF Given
    <2>1. CASE given'[p] = given[p]
      BY <2>1, Zenon DEF Inv, Given
    <2>2. CASE base[h] <= p /\ p < End(h)
      <3>1. End(h) <= bump /\ End(h) \in Nat /\ p \in Nat /\ bump \in Nat
        BY DEF Inv, Reserved, Words, End
      <3> QED BY <2>2, <3>1
    <2> QED BY <2>1, <2>2, <1>4, Zenon
  <1>7. Reserved'
    <2> SUFFICES ASSUME NEW u \in Threads, pc'[u] \in Reserving
                 PROVE /\ End(u) <= bump
                       /\ \A p \in DOMAIN given : base[u] <= p /\ p < End(u) => given'[p] = 0
      BY <1>2, <1>3, Zenon DEF Reserved
    <2>1. u # h /\ pc[u] \in Reserving
      BY <1>1, Zenon
    <2>2. /\ End(u) <= bump
          /\ \A p \in DOMAIN given : base[u] <= p /\ p < End(u) => given[p] = 0
      BY <2>1, Zenon DEF Inv, Reserved
    <2>3. End(u) <= base[h] \/ End(h) <= base[u]
      BY <2>1, Zenon DEF Inv, Apart
    <2>4. /\ End(u) \in Nat /\ End(h) \in Nat /\ base[u] \in Nat /\ base[h] \in Nat
          /\ \A p \in DOMAIN given : p \in Nat
      BY DEF Inv, Words, End
    <2>5. \A p \in DOMAIN given : base[u] <= p /\ p < End(u) => ~(base[h] <= p /\ p < End(h))
      BY <2>3, <2>4
    <2> QED BY <2>2, <2>5, <1>2, Zenon
  <1>8. Apart'
    BY <1>1, <1>3, Zenon DEF Inv, Apart
  <1> QED BY <1>5, <1>6, <1>7, <1>8, Zenon DEF Inv

(* fetch_add: the new reservation starts at the old bump pointer.          *)
LEMMA ReserveStep ==
  ASSUME NoGiveBack, Inv, NEW h \in Hosts, NEW n \in Sizes, Reserve(h, n), UNCHANGED scene
  PROVE  Inv'
  <1>1. /\ h \in Threads /\ h \notin Guests /\ n \in Nat /\ bump \in Nat
        /\ pc'[h] = "check" /\ base'[h] = bump /\ len'[h] = n /\ bump' = bump + n
        /\ pc' \in [Threads -> Labels] /\ base' \in [Threads -> Nat] /\ len' \in [Threads -> Nat]
        /\ given' = given
        /\ \A u \in Threads : u # h => pc'[u] = pc[u] /\ base'[u] = base[u] /\ len'[u] = len[u]
    BY GrowthAssumption, Zenon DEF Reserve, Goto, Set, Threads, Inv, Words, Labels
  <1>2. /\ End(h)' = bump' /\ bump <= bump'
        /\ \A u \in Threads : u # h => End(u)' = End(u)
    BY <1>1 DEF End
  <1>3. \A u \in Threads : End(u) \in Nat
    BY DEF End, Inv, Words
  <1>4. Words'
    BY <1>1 DEF Inv, Words, Threads, GivingBack
  <1>5. Given'
    BY <1>1 DEF Inv, Given, Words
  <1>6. Reserved'
    <2> SUFFICES ASSUME NEW u \in Threads, pc'[u] \in Reserving
                 PROVE /\ End(u)' <= bump'
                       /\ \A p \in DOMAIN given : base'[u] <= p /\ p < End(u)' => given[p] = 0
      BY <1>1, Zenon DEF Reserved
    <2>1. CASE u = h
      BY <2>1, <1>1, <1>2 DEF Inv, Given, Words
    <2>2. CASE u # h
      BY <2>2, <1>1, <1>2, <1>3 DEF Inv, Reserved
    <2> QED BY <2>1, <2>2, Zenon
  <1>7. Apart'
    <2> SUFFICES ASSUME NEW u \in Threads, NEW v \in Threads, u # v,
                        pc'[u] \in Reserving, pc'[v] \in Reserving
                 PROVE End(u)' <= base'[v] \/ End(v)' <= base'[u]
      BY Zenon DEF Apart
    <2>1. CASE u # h /\ v # h
      BY <2>1, <1>1, <1>2, Zenon DEF Inv, Apart
    <2>2. CASE u = h
      BY <2>2, <1>1, <1>2, Zenon DEF Inv, Reserved
    <2>3. CASE v = h
      BY <2>3, <1>1, <1>2, Zenon DEF Inv, Reserved
    <2> QED BY <2>1, <2>2, <2>3, Zenon
  <1> QED BY <1>4, <1>5, <1>6, <1>7, Zenon DEF Inv

(* The compare-exchange of a guest takes the page at the bump pointer.     *)
LEMMA ClaimStep ==
  ASSUME Inv, NEW g \in Guests, GuestClaim(g), UNCHANGED scene
  PROVE  Inv'
  <1>0. g \in Threads
    BY Zenon DEF Threads
  <1>1. CASE bump # base[g]
    <2>1. /\ bump' = bump /\ given' = given /\ base' = base /\ len' = len
          /\ pc' \in [Threads -> Labels] /\ pc'[g] \notin Reserving \union GivingBack
          /\ \A u \in Threads : u # g => pc'[u] = pc[u]
      BY <1>0, <1>1, Zenon DEF GuestClaim, Goto, Inv, Words, Labels, Reserving, GivingBack
    <2> QED BY <2>1, <1>0, Bystander, Zenon DEF Inv, Words
  <1>2. CASE bump = base[g]
    <2>1. /\ bump' = bump + 1 /\ base' = base /\ len' \in [Threads -> Nat]
          /\ pc' \in [Threads -> Labels] /\ pc'[g] \notin Reserving \union GivingBack
          /\ \A u \in Threads : u # g => pc'[u] = pc[u] /\ len'[u] = len[u]
      BY <1>0, <1>2 DEF GuestClaim, Goto, Set, Inv, Words, Labels, Reserving, GivingBack
    <2>2. bump \in Nat /\ DOMAIN given \subseteq Nat
      BY Zenon DEF Inv, Words
    <2>3. /\ DOMAIN given' = DOMAIN given
          /\ \A p \in DOMAIN given : p # bump => given'[p] = given[p]
          /\ bump \in DOMAIN given => given[bump] = 0 /\ given'[bump] = 1
      BY <1>2, <2>2 DEF GuestClaim, Give, Inv, Given
    <2>4. Words'
      BY <2>1, <2>2, <2>3 DEF Inv, Words, Threads
    <2>5. Given'
      BY <2>1, <2>2, <2>3 DEF Inv, Given
    <2>6. \A u \in Threads : pc'[u] \in Reserving =>
            /\ u # g /\ pc[u] \in Reserving /\ End(u)' = End(u) /\ End(u) \in Nat
            /\ base'[u] = base[u]
      BY <2>1 DEF End, Inv, Words
    <2>7. Reserved'
      <3> SUFFICES ASSUME NEW u \in Threads, pc'[u] \in Reserving
                   PROVE /\ End(u)' <= bump'
                         /\ \A p \in DOMAIN given : base'[u] <= p /\ p < End(u)' => given'[p] = 0
        BY <2>3, Zenon DEF Reserved
      <3>1. End(u)' = End(u) /\ base'[u] = base[u] /\ End(u) \in Nat /\ End(u) <= bump
        BY <2>6, Zenon DEF Inv, Reserved
      <3>2. \A p \in DOMAIN given : base[u] <= p /\ p < End(u) => p # bump /\ given[p] = 0
        BY <3>1, <2>2, <2>6 DEF Inv, Reserved
      <3> QED BY <3>1, <3>2, <2>1, <2>2, <2>3
    <2>8. Apart'
      BY <2>6, Zenon DEF Inv, Apart
    <2> QED BY <2>4, <2>5, <2>7, <2>8, Zenon DEF Inv
  <1> QED BY <1>1, <1>2, Zenon

(* A guest claims a page or is a bystander.                                *)
LEMMA GuestStepInv ==
  ASSUME Inv, NEW g \in Guests, GuestStep(g), UNCHANGED scene
  PROVE  Inv'
  <1>0. g \in Threads
    BY DEF Threads
  <1>1. CASE GuestClaim(g)
    BY <1>1, ClaimStep, Zenon
  <1>2. CASE ~ GuestClaim(g)
    <2>1. /\ bump' = bump /\ given' = given
          /\ pc' \in [Threads -> Labels] /\ pc'[g] \notin Reserving \union GivingBack
          /\ \A u \in Threads : u # g => pc'[u] = pc[u]
      BY <1>0, <1>2, Zenon DEF GuestStep, GuestLoad, GuestGrow, GuestGrowCas, GuestRemap,
                   GuestFollow, Use, ExpandMapping, Goto, shared, Inv, Words, Labels, Reserving, GivingBack
    <2>2. /\ base' \in [Threads -> Nat] /\ len' \in [Threads -> Nat]
          /\ \A u \in Threads : u # g => base'[u] = base[u] /\ len'[u] = len[u]
      BY <1>0, <1>2 DEF GuestStep, GuestLoad, GuestGrow, GuestGrowCas, GuestRemap,
                   GuestFollow, Use, Set, regs, Inv, Words
    <2> QED BY <1>0, <2>1, <2>2, Bystander, Zenon
  <1> QED BY <1>1, <1>2, Zenon

(* A host thread reserves, is granted what it reserved, or is a bystander. *)
LEMMA HostStepInv ==
  ASSUME NoGiveBack, Inv, NEW h \in Hosts, HostStep(h), UNCHANGED scene
  PROVE  Inv'
  <1>0. h \in Threads /\ h \notin Guests /\ h \notin Receivers
    BY GrowthAssumption, Zenon DEF Threads
  <1>1. CASE \E n \in Sizes : Reserve(h, n)
    BY <1>1, ReserveStep, Zenon
  <1>2. CASE pc[h] \in Reserving /\ Goto(h, "use") /\ Give(base[h], End(h)) /\ UNCHANGED <<bump, base, len>>
    BY <1>0, <1>2, Granted, Zenon
  <1>3. CASE /\ bump' = bump /\ given' = given
             /\ \/ pc[h] \in Reserving /\ UNCHANGED <<base, len>>
                \/ pc[h] = "use" /\ base' = Set(base, h, 0) /\ len' = Set(len, h, 0)
             /\ \E l \in Labels : Goto(h, l) /\ l \notin GivingBack /\ (l \in Reserving => pc[h] \in Reserving)
    <2>1. PICK l \in Labels : Goto(h, l) /\ l \notin GivingBack /\ (l \in Reserving => pc[h] \in Reserving)
      BY <1>3, Zenon
    <2>2. /\ pc' \in [Threads -> Labels] /\ pc'[h] = l /\ \A u \in Threads : u # h => pc'[u] = pc[u]
      BY <1>0, <2>1, Zenon DEF Goto, Inv, Words
    <2>3. /\ base' \in [Threads -> Nat] /\ len' \in [Threads -> Nat]
          /\ \A u \in Threads : u # h => base'[u] = base[u] /\ len'[u] = len[u]
      BY <1>0, <1>3 DEF Set, Inv, Words
    <2>4. pc[h] \in Reserving => base'[h] = base[h] /\ len'[h] = len[h]
      BY <1>3, Zenon DEF Reserving
    <2> QED BY <1>0, <1>3, <2>1, <2>2, <2>3, <2>4, Bystander, Zenon
  <1>4. CASE Check(h)
    BY <1>0, <1>2, <1>3, <1>4, Zenon DEF Check, shared, regs, Labels, Reserving, GivingBack
  <1>5. CASE Lock(h)
    BY <1>0, <1>2, <1>3, <1>5, Zenon DEF NoGiveBack, Inv, Words, Lock, shared, Labels, Reserving, GivingBack
  <1>6. CASE Expand(h)
    BY <1>0, <1>3, <1>6, Zenon DEF Expand, regs, Labels, Reserving, GivingBack
  <1>7. CASE Publish(h)
    BY <1>0, <1>2, <1>7, Zenon DEF Publish, regs, Reserving
  <1>8. CASE Use(h)
    BY <1>0, <1>3, <1>8, Zenon DEF Use, shared, Labels, Reserving, GivingBack
  <1>9. CASE Return(h) \/ Undo(h)
    BY <1>0, <1>9, Zenon DEF Return, Undo, Inv, Words, GivingBack
  <1> QED BY <1>1, <1>4, <1>5, <1>6, <1>7, <1>8, <1>9, Zenon DEF HostStep

(* Every step keeps the invariant.                                         *)
LEMMA NextInv == ASSUME NoGiveBack, Inv, [Next]_vars PROVE Inv'
  <1>1. ASSUME NEW g \in Guests, GuestStep(g), UNCHANGED scene PROVE Inv'
    BY <1>1, GuestStepInv, Zenon
  <1>2. ASSUME NEW h \in (Hosts \union Receivers) \intersect scene.threads, HostStep(h),
               UNCHANGED scene
        PROVE Inv'
    <2>1. h \in Hosts
      BY Zenon DEF NoGiveBack, Inv, Words
    <2> QED BY <1>2, <2>1, HostStepInv, Zenon
  <1>3. CASE ((EndWave \/ NextWave) /\ UNCHANGED scene) \/ UNCHANGED vars
    <2>1. UNCHANGED <<scene, bump, pc, base, len, given>>
      BY <1>3, Zenon DEF EndWave, NextWave, vars, shared, regs
    <2>2. \A t \in Threads : End(t)' = End(t)
      BY <2>1, Zenon DEF End
    <2> QED BY <2>1, <2>2, Zenon DEF Inv, Words, Given, Reserved, Apart
  <1> QED BY <1>1, <1>2, <1>3, Zenon DEF Next

(* A formatted SHM file satisfies the invariant.                           *)
LEMMA InitInv == ASSUME Init PROVE Inv
  <1>1. /\ DOMAIN given \subseteq Nat /\ bump = 1
        /\ \A p \in DOMAIN given : given[p] = 0
        /\ \A t \in Threads : pc[t] = "idle"
    BY GrowthAssumption DEF Init
  <1>2. Words
    BY <1>1 DEF Init, Words, Labels, Reserving, GivingBack, Threads
  <1> QED BY <1>1, <1>2, Zenon DEF Inv, Given, Reserved, Apart, Reserving

(* The bump pointer of try_allocate_page, alloc_page and alloc_and_link    *)
(* never hands out a page twice, whatever grows when, for any number of    *)
(* guests and host threads: the fetch_add and the compare-exchange alone   *)
(* keep reservations apart when none is given back.                        *)
THEOREM ClaimsAreDisjoint == ASSUME NoGiveBack PROVE Spec => []NeverTwice
  <1>1. Init => Inv
    BY InitInv, Zenon
  <1>2. Inv /\ [Next]_vars => Inv'
    BY NextInv, Zenon
  <1>3. Inv => NeverTwice
    BY DEF Inv, Words, NeverTwice
  <1> QED BY <1>1, <1>2, <1>3, PTL DEF Spec

-----------------------------------------------------------------------------
(* The mappings and the file                                               *)

HostThreads == Hosts \union Receivers

GuestLabels == {"idle", "load", "grow", "cas", "remap", "reread", "claim", "use", "panic"}
HostLabels == {"idle", "check", "return", "lock", "expand", "publish", "retry", "undo", "use"}

(* The types of the variables without the sign of the bump pointer, which  *)
(* receivers lower, and which labels a thread can be at.                   *)
Size(x) == x \in Initial .. HardLimit
Mapping(f) == f \in [Process -> Initial .. HardLimit]
Holders(f) == f \in [{"shm_grow", "shm_file"} -> Threads \union {Nobody}]
Handed(f) == f \in [0 .. HardLimit - 1 -> Nat]
Ranges(b, n) == b \in [Threads -> Int] /\ n \in [Threads -> Nat]

CanBeAt(t, l) == l \in Labels /\ l \in IF t \in Guests THEN GuestLabels ELSE HostLabels
Grows(l) == l \in {"cas", "remap", "reread", "expand", "publish"}
Places(q, f) ==
    /\ DOMAIN q = Threads /\ q = [t \in Threads |-> q[t]]
    /\ f \in [Threads -> 0 .. HardLimit]
    /\ \A t \in Threads : CanBeAt(t, q[t]) /\ (Grows(q[t]) => Size(f[t]))

Types ==
    /\ scene \in Scenes /\ bump \in Int /\ Size(cap) /\ Size(fileLen)
    /\ Mapping(vma) /\ Mapping(local) /\ Holders(lock) /\ Handed(given)
    /\ phase \in {"wave", "between", "failed"}
    /\ Places(pc, target) /\ Ranges(base, len)

(* Host threads and guests take turns, and who is not in the scene is idle.*)
Turns ==
    /\ \A t \in Threads : t \notin scene.threads => pc[t] = "idle"
    /\ \A g \in Guests, h \in HostThreads : pc[g] = "idle" \/ pc[h] = "idle"
    /\ phase = "between" => \A g \in Guests : pc[g] = "idle"
    /\ phase = "wave" => \A h \in HostThreads : h \notin InWave => pc[h] = "idle"

(* What a guest believes of its mapping and of the capacity is true.       *)
GuestMaps ==
    \A g \in Guests :
        /\ local[g] <= vma[g] /\ local[g] <= cap
        /\ pc[g] = "claim" => base[g] + 1 <= local[g]
        /\ pc[g] = "use" => End(g) <= vma[g]
        /\ pc[g] = "cas" => local[g] < target[g]
        /\ pc[g] \in {"remap", "reread"} => target[g] <= cap

(* The thread that grows the file holds the lock, and grows it.            *)
HostMaps ==
    \A h \in HostThreads :
        /\ pc[h] = "use" => End(h) <= vma[Host]
        /\ pc[h] \in {"expand", "publish"} =>
             lock[LockOf(h)] = h /\ End(h) <= target[h] /\ cap < target[h]
        /\ pc[h] = "publish" => target[h] <= vma[Host]

(* Whenever host threads may allocate their mapping covers the capacity.   *)
Synced ==
    /\ local[Host] <= vma[Host]
    /\ \/ phase = "between"
       \/ Guests \intersect scene.threads = {}
       \/ \E h \in HostThreads : pc[h] # "idle"
       => cap <= vma[Host]

GivenBelow == \A p \in DOMAIN given : given[p] > 0 => p < cap

Single == \A g, k \in Guests \intersect scene.threads : g = k

(* With one guest the file is as long as the capacity says, but for the    *)
(* moment between the compare-exchange and the remap.                      *)
FileLong ==
    Single =>
        /\ PagesBacked
        /\ \A g \in Guests : local[g] <= fileLen
        /\ \A g \in Guests : pc[g] \in {"remap", "reread"} => target[g] = cap
        /\ cap <= fileLen \/ \E g \in Guests : pc[g] = "remap"
        /\ \A h \in HostThreads : pc[h] = "publish" => target[h] <= fileLen

(* Scenes whose growers share a lock: no receiver next to the other host   *)
(* threads, and no guest in a wave in which host threads allocate.         *)
OneLock ==
    \A s \in Scenes :
        /\ s.threads \intersect Hosts = {} \/ s.threads \intersect Receivers = {}
        /\ s.threads \intersect InWave = {} \/ s.threads \intersect Guests = {}

(* Who is who.                                                             *)
LEMMA Kinds ==
  /\ \A g \in Guests : g \in Threads /\ g \notin HostThreads /\ g \in Process /\ g # Host
  /\ \A h \in HostThreads : h \in Threads /\ h \notin Guests /\ (h \in Hosts <=> h \notin Receivers)
  /\ \A t \in Threads : t \in Guests \/ t \in HostThreads
  /\ Host \in Process /\ \A p \in Process : p \in Guests \/ p = Host
  BY GrowthAssumption, Zenon DEF Threads, Process, HostThreads

(* The larger and the smaller of two sizes, the doubled and clamped size.  *)
LEMMA SizeMax == ASSUME NEW a, NEW b, Size(a), Size(b) PROVE Size(Max2(a, b)) /\ a <= Max2(a, b) /\ b <= Max2(a, b)
  BY GrowthAssumption DEF Size, Max2

(* The doubled size, clamped to the hard limit, is a size.                 *)
LEMMA SizeMin == ASSUME NEW a, Size(a) PROVE Size(Min2(2 * a, HardLimit))
  BY GrowthAssumption DEF Size, Min2

(* The first size of the file is a size.                                   *)
LEMMA SizeInitial == Size(Initial)
  BY GrowthAssumption DEF Size

(* A size is a natural number up to the hard limit.                        *)
LEMMA SizeInt == ASSUME NEW a, Size(a) PROVE a \in Nat /\ a \in 0 .. HardLimit
  BY GrowthAssumption DEF Size

(* Chains of comparisons.                                                  *)
LEMMA Chain ==
  \A a, b, c \in Int : /\ a <= b /\ b <= c => a <= c
                       /\ a < b /\ b <= c => a < c
                       /\ a < b => a <= b
  OBVIOUS

(* A natural number is an integer.                                         *)
LEMMA NatInt == \A n \in Nat : n \in Int
  OBVIOUS

(* Updates of one entry keep the types.                                    *)
LEMMA MappingSet == ASSUME NEW f, Mapping(f), NEW p \in Process, NEW x, Size(x)
                    PROVE Mapping(Set(f, p, x)) /\ Set(f, p, x)[p] = x /\ \A r \in Process : r # p => Set(f, p, x)[r] = f[r]
  BY Zenon DEF Mapping, Size, Set

(* Taking or leaving a lock.                                               *)
LEMMA HoldersSet == ASSUME NEW f, Holders(f), NEW l \in {"shm_grow", "shm_file"}, NEW x \in Threads \union {Nobody}
                    PROVE Holders(Set(f, l, x)) /\ Set(f, l, x)[l] = x /\ \A r \in {"shm_grow", "shm_file"} : r # l => Set(f, l, x)[r] = f[r]
  BY Zenon DEF Holders, Set

(* Setting the target of a thread.                                         *)
LEMMA TargetSet == ASSUME NEW f \in [Threads -> 0 .. HardLimit], NEW t \in Threads, NEW x \in 0 .. HardLimit
                   PROVE Set(f, t, x) \in [Threads -> 0 .. HardLimit] /\ Set(f, t, x)[t] = x /\ \A u \in Threads : u # t => Set(f, t, x)[u] = f[u]
  BY Zenon DEF Set

(* Setting where the range of a thread begins.                             *)
LEMMA BaseSet == ASSUME NEW b, NEW n, Ranges(b, n), NEW t \in Threads, NEW x \in Int
                 PROVE Ranges(Set(b, t, x), n) /\ Set(b, t, x)[t] = x /\ \A u \in Threads : u # t => Set(b, t, x)[u] = b[u]
  BY Zenon DEF Ranges, Set

(* Setting how long the range of a thread is.                              *)
LEMMA LenSet == ASSUME NEW b, NEW n, Ranges(b, n), NEW t \in Threads, NEW x \in Nat
                PROVE Ranges(b, Set(n, t, x)) /\ Set(n, t, x)[t] = x /\ \A u \in Threads : u # t => Set(n, t, x)[u] = n[u]
  BY Zenon DEF Ranges, Set

(* Pages are integers.                                                     *)
LEMMA HandedInt == ASSUME NEW f, Handed(f) PROVE \A p \in DOMAIN f : p \in Int
  BY DEF Handed

(* Every mapping has a size.                                               *)
LEMMA MappingSize == ASSUME NEW f, Mapping(f), NEW p \in Process PROVE Size(f[p])
  BY Zenon DEF Mapping, Size

(* No size is below the first one.                                         *)
LEMMA SizeLow == ASSUME NEW a, Size(a) PROVE Initial <= a
  BY GrowthAssumption DEF Size

(* Handing out pages a .. b-1 changes the count of no other page.          *)
LEMMA GiveHanded ==
  ASSUME Handed(given), NEW a, NEW b, Give(a, b)
  PROVE /\ Handed(given') /\ DOMAIN given' = DOMAIN given
        /\ \A p \in DOMAIN given : given'[p] = given[p] \/ (a <= p /\ p < b)
  <1>1. \A p \in 0 .. HardLimit - 1 : given[p] + 1 \in Nat /\ given[p] \in Nat
    BY DEF Handed
  <1>2. DOMAIN given = 0 .. HardLimit - 1
    BY Zenon DEF Handed
  <1> QED BY <1>1, <1>2, Zenon DEF Handed, Give

(* A jump, with the target register as it was or set to a size.            *)
LEMMA Jump ==
  ASSUME NEW t \in Threads, NEW l, Places(pc, target), Goto(t, l), CanBeAt(t, l),
         target' \in [Threads -> 0 .. HardLimit],
         \A u \in Threads : u # t => target'[u] = target[u],
         Grows(l) => Size(target'[t])
  PROVE  Places(pc', target') /\ pc'[t] = l /\ \A u \in Threads : u # t => pc'[u] = pc[u]
  <1>1. pc' = [u \in Threads |-> IF u = t THEN l ELSE pc[u]]
    BY Zenon DEF Goto, Places
  <1> HIDE DEF CanBeAt, Grows, Size
  <1> QED BY <1>1, Zenon DEF Places

(* What a step of a guest leaves alone.                                    *)
GuestFrame(g) ==
    /\ scene' = scene /\ lock' = lock /\ cap <= cap' /\ phase' \in {phase, "failed"}
    /\ \A u \in Threads : u # g =>
         pc'[u] = pc[u] /\ base'[u] = base[u] /\ len'[u] = len[u] /\ target'[u] = target[u]
    /\ \A p \in Process : p # g => vma'[p] = vma[p] /\ local'[p] = local[p]

(* A guest that goes on to claim a page has read a bump it maps.           *)
LEMMA LoadEffect ==
  ASSUME Types, NEW g \in Guests, GuestLoad(g), scene' = scene
  PROVE  /\ Types' /\ GuestFrame(g) /\ UNCHANGED <<vma, local, cap, fileLen, given, target>>
         /\ pc'[g] \in {"panic", "grow", "claim"}
         /\ pc'[g] = "claim" => base'[g] + 1 <= local[g]
  <1>0. g \in Threads /\ g \in Process /\ Size(local[g]) /\ bump \in Int /\ cap \in Nat /\ cap <= cap
    BY Kinds, SizeInt DEF Types, Mapping, Size
  <1>1. PICK l \in {"panic", "grow", "claim"} :
          /\ Goto(g, l) /\ (base' = base \/ base' = Set(base, g, bump))
          /\ l = "claim" => base' = Set(base, g, bump) /\ bump + 1 <= local[g]
    BY <1>0, SizeInt DEF GuestLoad
  <1>2. CanBeAt(g, l) /\ ~ Grows(l)
    BY Zenon DEF CanBeAt, Grows, Labels, GuestLabels
  <1>3. /\ Ranges(base', len') /\ \A u \in Threads : u # g => base'[u] = base[u]
        /\ l = "claim" => base'[g] + 1 <= local[g]
    <2>1. Ranges(base, len) /\ len' = len
      BY Zenon DEF GuestLoad, Types
    <2>2. CASE base' = base /\ l # "claim"
      BY <2>1, <2>2, Zenon
    <2>3. CASE base' = Set(base, g, bump)
      BY <1>0, <1>1, <2>1, <2>3, BaseSet
    <2> QED BY <1>1, <2>2, <2>3, Zenon
  <1>4. /\ UNCHANGED <<bump, cap, fileLen, vma, local, lock, len, target, given>>
        /\ phase' \in {phase, "failed"}
    BY Zenon DEF GuestLoad, shared, maps
  <1>5. target' \in [Threads -> 0 .. HardLimit]
    BY <1>4, Zenon DEF Types, Places
  <1>6. Places(pc', target') /\ pc'[g] = l /\ \A u \in Threads : u # g => pc'[u] = pc[u]
    BY <1>0, <1>1, <1>2, <1>4, <1>5, Jump, Zenon DEF Types
  <1>7. Types'
    BY <1>3, <1>4, <1>6, Zenon DEF Types
  <1> QED BY <1>0, <1>3, <1>4, <1>6, <1>7, Zenon DEF GuestFrame

(* A guest that goes on to remap follows the capacity it has read.         *)
LEMMA GrowEffect ==
  ASSUME Types, NEW g \in Guests, GuestGrow(g), scene' = scene
  PROVE  /\ Types' /\ GuestFrame(g) /\ UNCHANGED <<vma, local, cap, fileLen, given>>
         /\ pc'[g] \in {"panic", "cas", "remap"}
         /\ pc'[g] = "cas" => local[g] < target'[g]
         /\ pc'[g] = "remap" => target'[g] = cap
  <1>0. g \in Threads /\ g \in Process /\ Size(local[g]) /\ Size(cap) /\ cap \in Nat /\ cap <= cap
    BY Kinds, SizeInt DEF Types, Mapping, Size
  <1>1. PICK l \in {"panic", "cas", "remap"}, x \in 0 .. HardLimit :
          /\ Goto(g, l) /\ ((l = "panic" /\ target' = target) \/ (target' = Set(target, g, x) /\ Size(x)))
          /\ (l = "cas" => local[g] < x) /\ (l = "remap" => x = cap)
    <2>1. /\ Size(Min2(2 * local[g], HardLimit)) /\ cap \in 0 .. HardLimit
          /\ Min2(2 * local[g], HardLimit) \in 0 .. HardLimit
          /\ Min2(2 * local[g], HardLimit) \in Nat /\ local[g] \in Nat
      BY <1>0, SizeMin, SizeInt, Zenon
    <2>2. CASE cap > local[g]
      BY <1>0, <2>1, <2>2, Zenon DEF GuestGrow
    <2>3. CASE cap <= local[g] /\ Min2(2 * local[g], HardLimit) > local[g]
      BY <1>0, <2>1, <2>3, Zenon DEF GuestGrow
    <2>4. CASE cap <= local[g] /\ Min2(2 * local[g], HardLimit) <= local[g]
      BY <1>0, <2>1, <2>4, Zenon DEF GuestGrow
    <2> QED BY <2>1, <2>2, <2>3, <2>4, <1>0, SizeInt
  <1>2. CanBeAt(g, l)
    BY Zenon DEF CanBeAt, Labels, GuestLabels
  <1>3. UNCHANGED <<bump, cap, fileLen, vma, local, lock, base, len, given>> /\ phase' \in {phase, "failed"}
    BY Zenon DEF GuestGrow, shared, maps
  <1>4. /\ target' \in [Threads -> 0 .. HardLimit] /\ \A u \in Threads : u # g => target'[u] = target[u]
        /\ l # "panic" => target'[g] = x /\ Size(x)
    <2>1. target \in [Threads -> 0 .. HardLimit]
      BY Zenon DEF Types, Places
    <2> QED BY <1>0, <1>1, <2>1, TargetSet
  <1>5. Grows(l) => Size(target'[g])
    BY <1>4, Zenon DEF Grows
  <1>6. Places(pc', target') /\ pc'[g] = l /\ \A u \in Threads : u # g => pc'[u] = pc[u]
    BY <1>0, <1>1, <1>2, <1>4, <1>5, Jump, Zenon DEF Types
  <1>7. Types'
    BY <1>3, <1>6, Zenon DEF Types
  <1> QED BY <1>0, <1>1, <1>3, <1>4, <1>6, <1>7, Zenon DEF GuestFrame

(* A guest remaps to the capacity: its own, or one published meanwhile.    *)
LEMMA CasEffect ==
  ASSUME Types, GuestMaps, NEW g \in Guests, GuestGrowCas(g), scene' = scene
  PROVE  /\ Types' /\ GuestFrame(g) /\ UNCHANGED <<vma, local, fileLen, given, target>>
         /\ pc'[g] \in {"load", "remap"}
         /\ pc'[g] = "load" => cap' = cap
         /\ pc'[g] = "remap" => target[g] = cap'
  <1>0. /\ g \in Threads /\ g \in Process /\ Size(cap) /\ cap \in Nat /\ cap <= cap
        /\ Size(target[g]) /\ target[g] \in Nat /\ local[g] < target[g]
    <2>1. Grows(pc[g]) /\ g \in Threads /\ g \in Process
      BY Kinds, Zenon DEF GuestGrowCas, Grows
    <2>2. Size(target[g]) /\ Size(cap)
      BY <2>1, Zenon DEF Types, Places
    <2> QED BY <2>1, <2>2, SizeInt DEF GuestGrowCas, GuestMaps
  <1>1. PICK l \in {"load", "remap"} :
          /\ Goto(g, l) /\ (l = "load" => cap' = cap)
          /\ (l = "remap" => cap = local[g] /\ cap' = target[g])
    BY Zenon DEF GuestGrowCas
  <1>2. CanBeAt(g, l)
    BY Zenon DEF CanBeAt, Labels, GuestLabels
  <1>3. UNCHANGED <<bump, fileLen, vma, local, lock, phase, base, len, target, given>>
    BY Zenon DEF GuestGrowCas, maps, regs
  <1>4. cap <= cap' /\ Size(cap')
    BY <1>0, <1>1
  <1>5. target' \in [Threads -> 0 .. HardLimit]
    BY <1>3, Zenon DEF Types, Places
  <1>6. Places(pc', target') /\ pc'[g] = l /\ \A u \in Threads : u # g => pc'[u] = pc[u]
    BY <1>0, <1>1, <1>2, <1>3, <1>5, Jump, Zenon DEF Types
  <1>7. Types'
    BY <1>3, <1>4, <1>6, Zenon DEF Types
  <1> QED BY <1>1, <1>3, <1>4, <1>6, <1>7, Zenon DEF GuestFrame

(* After remap a guest maps what it aimed at, and believes so.             *)
LEMMA RemapEffect ==
  ASSUME Types, NEW g \in Guests, GuestRemap(g), scene' = scene
  PROVE  /\ Types' /\ GuestFrame(g) /\ UNCHANGED <<cap, given, target>>
         /\ pc'[g] \in {"load", "idle"} /\ pc[g] \in {"remap", "reread"}
         /\ fileLen' = target[g] /\ local'[g] = target[g] /\ target[g] <= vma'[g]
  <1>0. /\ g \in Threads /\ g \in Process /\ cap \in Nat /\ cap <= cap /\ Size(target[g]) /\ Size(vma[g])
    <2>1. Grows(pc[g]) /\ g \in Threads /\ g \in Process
      BY Kinds, Zenon DEF GuestRemap, Grows
    <2>2. Size(target[g]) /\ Size(cap) /\ Size(vma[g])
      BY <2>1, Zenon DEF Types, Places, Mapping, Size
    <2> QED BY <2>1, <2>2, SizeInt
  <1>1. PICK l \in {"load", "idle"} : Goto(g, l)
    BY Zenon DEF GuestRemap
  <1>2. CanBeAt(g, l) /\ ~ Grows(l)
    BY Zenon DEF CanBeAt, Grows, Labels, GuestLabels
  <1>3. /\ UNCHANGED <<bump, cap, lock, phase, base, len, target, given>> /\ fileLen' = target[g]
        /\ vma' = Set(vma, g, Max2(vma[g], target[g])) /\ local' = Set(local, g, target[g])
        /\ pc[g] \in {"remap", "reread"}
    BY Zenon DEF GuestRemap, ExpandMapping, regs
  <1>4. /\ Mapping(vma') /\ Mapping(local') /\ local'[g] = target[g] /\ target[g] <= vma'[g]
        /\ \A p \in Process : p # g => vma'[p] = vma[p] /\ local'[p] = local[p]
    <2>1. Mapping(vma) /\ Mapping(local)
      BY Zenon DEF Types
    <2>2. PICK m : Size(m) /\ target[g] <= m /\ vma' = Set(vma, g, m)
      BY <1>0, <1>3, SizeMax, Zenon
    <2>3. Mapping(vma') /\ target[g] <= vma'[g] /\ \A p \in Process : p # g => vma'[p] = vma[p]
      <3>1. g \in Process /\ Mapping(vma) /\ Size(m)
        BY <1>0, <2>1, <2>2, Zenon
      <3>2. Mapping(Set(vma, g, m)) /\ Set(vma, g, m)[g] = m /\ \A p \in Process : p # g => Set(vma, g, m)[p] = vma[p]
        BY <3>1, MappingSet
      <3> QED BY <2>2, <3>2, Zenon
    <2>4. Mapping(local') /\ local'[g] = target[g] /\ \A p \in Process : p # g => local'[p] = local[p]
      BY <1>0, <1>3, <2>1, MappingSet
    <2> QED BY <2>3, <2>4, Zenon
  <1>5. target' \in [Threads -> 0 .. HardLimit]
    BY <1>3, Zenon DEF Types, Places
  <1>6. Places(pc', target') /\ pc'[g] = l /\ \A u \in Threads : u # g => pc'[u] = pc[u]
    BY <1>0, <1>1, <1>2, <1>3, <1>5, Jump, Zenon DEF Types
  <1>7. Types'
    BY <1>0, <1>3, <1>4, <1>6, Zenon DEF Types
  <1> QED BY <1>0, <1>3, <1>4, <1>6, <1>7, Zenon DEF GuestFrame

(* A claim that fails hands nothing out; the other one hands out base.     *)
LEMMA ClaimEffect ==
  ASSUME Types, NEW g \in Guests, GuestClaim(g), scene' = scene
  PROVE  /\ Types' /\ GuestFrame(g) /\ UNCHANGED <<vma, local, cap, fileLen, target>>
         /\ pc[g] = "claim" /\ DOMAIN given' = DOMAIN given
         /\ \/ pc'[g] = "load" /\ given' = given
            \/ /\ pc'[g] = "use" /\ base'[g] = base[g] /\ len'[g] = 1 /\ base[g] \in Int
               /\ \A p \in DOMAIN given : given'[p] = given[p] \/ p < base[g] + 1
  <1>0. g \in Threads /\ g \in Process /\ base[g] \in Int /\ bump \in Int /\ cap \in Nat /\ cap <= cap
    BY Kinds, SizeInt DEF Types, Ranges
  <1>1. PICK l \in {"load", "use"} :
          /\ Goto(g, l)
          /\ l = "load" => bump' = bump /\ given' = given /\ len' = len
          /\ l = "use" => /\ bump' = base[g] + 1 /\ Give(base[g], base[g] + 1)
                          /\ len' = Set(len, g, 1)
    BY Zenon DEF GuestClaim
  <1>2. CanBeAt(g, l) /\ ~ Grows(l)
    BY Zenon DEF CanBeAt, Grows, Labels, GuestLabels
  <1>3. UNCHANGED <<cap, fileLen, vma, local, lock, phase, base, target>> /\ pc[g] = "claim"
    BY Zenon DEF GuestClaim, maps
  <1>4. /\ Handed(given') /\ DOMAIN given' = DOMAIN given
        /\ l = "use" => \A p \in DOMAIN given : given'[p] = given[p] \/ p < base[g] + 1
    BY <1>1, GiveHanded, Zenon DEF Types
  <1>5. /\ Ranges(base', len') /\ \A u \in Threads : u # g => len'[u] = len[u]
        /\ l = "use" => len'[g] = 1
    BY <1>0, <1>1, <1>3, LenSet DEF Types
  <1>6. target' \in [Threads -> 0 .. HardLimit]
    BY <1>3, Zenon DEF Types, Places
  <1>7. Places(pc', target') /\ pc'[g] = l /\ \A u \in Threads : u # g => pc'[u] = pc[u]
    BY <1>0, <1>1, <1>2, <1>3, <1>6, Jump, Zenon DEF Types
  <1>8. bump' \in Int
    BY <1>0, <1>1
  <1>9. Types'
    BY <1>3, <1>4, <1>5, <1>7, <1>8, Zenon DEF Types
  <1> QED BY <1>0, <1>1, <1>3, <1>4, <1>5, <1>7, <1>9, Zenon DEF GuestFrame

(* A guest that follows another aims at the capacity.                      *)
LEMMA FollowEffect ==
  ASSUME Types, NEW g \in Guests, GuestFollow(g), scene' = scene
  PROVE  /\ Types' /\ GuestFrame(g) /\ UNCHANGED <<vma, local, cap, fileLen, given>>
         /\ pc'[g] = "reread" /\ target'[g] = cap
  <1>0. g \in Threads /\ g \in Process /\ Size(cap) /\ cap \in 0 .. HardLimit /\ cap <= cap
    BY Kinds, SizeInt DEF Types
  <1>1. CanBeAt(g, "reread")
    BY Zenon DEF CanBeAt, Labels, GuestLabels
  <1>2. /\ UNCHANGED <<bump, cap, fileLen, vma, local, lock, phase, base, len, given>>
        /\ target' = Set(target, g, cap) /\ Goto(g, "reread")
    BY Zenon DEF GuestFollow, shared, maps
  <1>3. /\ target' \in [Threads -> 0 .. HardLimit] /\ \A u \in Threads : u # g => target'[u] = target[u]
        /\ target'[g] = cap
    BY <1>0, <1>2, TargetSet DEF Types, Places
  <1>4. Places(pc', target') /\ pc'[g] = "reread" /\ \A u \in Threads : u # g => pc'[u] = pc[u]
    BY <1>0, <1>1, <1>2, <1>3, Jump, Zenon DEF Types
  <1>5. Types'
    BY <1>2, <1>4, Zenon DEF Types
  <1> QED BY <1>0, <1>2, <1>3, <1>4, <1>5, Zenon DEF GuestFrame

(* Writing the pages changes nothing that others see.                      *)
LEMMA UseEffect ==
  ASSUME Types, NEW t \in Threads, Use(t), scene' = scene
  PROVE  /\ Types' /\ UNCHANGED <<vma, local, cap, fileLen, given, lock, phase, bump>>
         /\ pc'[t] = "idle" /\ pc[t] = "use"
         /\ \A u \in Threads : u # t =>
              pc'[u] = pc[u] /\ base'[u] = base[u] /\ len'[u] = len[u] /\ target'[u] = target[u]
  <1>1. /\ UNCHANGED <<bump, cap, fileLen, vma, local, lock, phase, given>>
        /\ base' = Set(base, t, 0) /\ len' = Set(len, t, 0) /\ target' = Set(target, t, 0)
        /\ Goto(t, "idle") /\ pc[t] = "use"
    BY Zenon DEF Use, shared, maps
  <1>2. CanBeAt(t, "idle") /\ ~ Grows("idle") /\ 0 \in 0 .. HardLimit
    BY GrowthAssumption DEF CanBeAt, Grows, Labels, GuestLabels, HostLabels
  <1>3. /\ Ranges(base', len') /\ \A u \in Threads : u # t => base'[u] = base[u] /\ len'[u] = len[u]
    <2>1. Ranges(base', len) /\ \A u \in Threads : u # t => base'[u] = base[u]
      BY <1>1, BaseSet DEF Types
    <2> QED BY <2>1, <1>1, LenSet DEF Types
  <1>4. target' \in [Threads -> 0 .. HardLimit] /\ \A u \in Threads : u # t => target'[u] = target[u]
    <2>1. target \in [Threads -> 0 .. HardLimit]
      BY Zenon DEF Types, Places
    <2> QED BY <1>1, <1>2, <2>1, TargetSet
  <1>5. Places(pc', target') /\ pc'[t] = "idle" /\ \A u \in Threads : u # t => pc'[u] = pc[u]
    BY <1>1, <1>2, <1>4, Jump, Zenon DEF Types
  <1>6. Types'
    BY <1>1, <1>3, <1>5, Zenon DEF Types
  <1> QED BY <1>1, <1>3, <1>4, <1>5, <1>6, Zenon

(* What every step of a guest does.                                        *)
LEMMA GuestFrameStep ==
  ASSUME Types, GuestMaps, NEW g \in Guests, GuestStep(g), scene' = scene
  PROVE  Types' /\ GuestFrame(g)
  <1>1. CASE Use(g)
    <2>1. g \in Threads /\ cap \in Nat /\ cap <= cap
      BY Kinds, SizeInt DEF Types
    <2> QED BY <1>1, <2>1, UseEffect, Zenon DEF GuestFrame
  <1> QED BY <1>1, LoadEffect, GrowEffect, CasEffect, RemapEffect, ClaimEffect, FollowEffect, Zenon DEF GuestStep

(* What a step of a host thread leaves alone.                              *)
HostFrame(h) ==
    /\ scene' = scene /\ phase' \in {phase, "failed"}
    /\ \A u \in Threads : u # h =>
         pc'[u] = pc[u] /\ base'[u] = base[u] /\ len'[u] = len[u] /\ target'[u] = target[u]
    /\ \A p \in Process : p # Host => vma'[p] = vma[p] /\ local'[p] = local[p]

(* Pages are handed out only below a bound.                                *)
GivesBelow(e) ==
    DOMAIN given' = DOMAIN given /\ \A p \in DOMAIN given : given'[p] = given[p] \/ p < e

(* The fetch_add of a host thread changes the bump only.                   *)
LEMMA ReserveEffect ==
  ASSUME Types, NEW h \in HostThreads, NEW n \in Sizes, Reserve(h, n), scene' = scene
  PROVE  /\ Types' /\ HostFrame(h) /\ UNCHANGED <<vma, local, cap, fileLen, given, lock, target>>
         /\ pc'[h] = "check"
  <1>0. h \in Threads /\ n \in Nat /\ bump \in Int /\ bump + n \in Int
    BY Kinds, GrowthAssumption DEF Types
  <1>1. /\ UNCHANGED <<cap, fileLen, vma, local, lock, phase, target, given>>
        /\ base' = Set(base, h, bump) /\ len' = Set(len, h, n) /\ bump' = bump + n /\ Goto(h, "check")
    BY Zenon DEF Reserve, maps
  <1>2. CanBeAt(h, "check") /\ ~ Grows("check")
    BY Kinds, Zenon DEF CanBeAt, Grows, Labels, HostLabels
  <1>3. Ranges(base', len') /\ \A u \in Threads : u # h => base'[u] = base[u] /\ len'[u] = len[u]
    <2>1. Ranges(base', len) /\ \A u \in Threads : u # h => base'[u] = base[u]
      BY <1>0, <1>1, BaseSet DEF Types
    <2> QED BY <2>1, <1>0, <1>1, LenSet DEF Types
  <1>4. target' \in [Threads -> 0 .. HardLimit]
    BY <1>1, Zenon DEF Types, Places
  <1>5. Places(pc', target') /\ pc'[h] = "check" /\ \A u \in Threads : u # h => pc'[u] = pc[u]
    BY <1>0, <1>1, <1>2, <1>4, Jump, Zenon DEF Types
  <1>6. Types'
    BY <1>0, <1>1, <1>3, <1>5, Zenon DEF Types
  <1> QED BY <1>1, <1>3, <1>5, <1>6, Zenon DEF HostFrame

(* A step that only jumps, and perhaps moves the bump pointer, gives what  *)
(* was reserved or ends the run.                                           *)
LEMMA JumpEffect ==
  ASSUME Types, NEW h \in HostThreads, NEW l \in {"use", "return", "lock", "retry", "undo", "idle"},
         Goto(h, l), bump' \in Int, phase' \in {phase, "failed"},
         given' = given \/ Give(base[h], End(h)),
         UNCHANGED <<scene, cap, fileLen, vma, local, lock, base, len, target>>
  PROVE  /\ Types' /\ HostFrame(h) /\ pc'[h] = l
         /\ GivesBelow(End(h))
  <1>0. h \in Threads
    BY Kinds, Zenon
  <1>1. CanBeAt(h, l) /\ ~ Grows(l)
    BY Kinds, Zenon DEF CanBeAt, Grows, Labels, HostLabels
  <1>2. target' \in [Threads -> 0 .. HardLimit]
    BY Zenon DEF Types, Places
  <1>3. Places(pc', target') /\ pc'[h] = l /\ \A u \in Threads : u # h => pc'[u] = pc[u]
    BY <1>0, <1>1, <1>2, Jump, Zenon DEF Types
  <1>4. Handed(given') /\ GivesBelow(End(h))
    BY GiveHanded, Zenon DEF Types, GivesBelow
  <1>5. Types'
    BY <1>3, <1>4, Zenon DEF Types
  <1> QED BY <1>3, <1>4, <1>5, Zenon DEF HostFrame

(* A host thread gets a free lock and aims beyond its range.               *)
LEMMA GrabEffect ==
  ASSUME Types, NEW h \in HostThreads, Lock(h), scene' = scene, cap < End(h), NewCap(h) >= End(h)
  PROVE  /\ Types' /\ HostFrame(h) /\ UNCHANGED <<vma, local, cap, fileLen, given, base, len>>
         /\ pc'[h] = "expand" /\ End(h) <= target'[h] /\ cap < target'[h]
         /\ lock[LockOf(h)] = Nobody /\ lock'[LockOf(h)] = h
         /\ \A l \in {"shm_grow", "shm_file"} : l # LockOf(h) => lock'[l] = lock[l]
  <1>0. h \in Threads /\ LockOf(h) \in {"shm_grow", "shm_file"} /\ End(h) \in Int
    BY Kinds DEF LockOf, End, Types, Ranges
  <1>1. Size(NewCap(h)) /\ NewCap(h) \in 0 .. HardLimit /\ End(h) <= NewCap(h) /\ cap < NewCap(h)
    <2>1. cap \in Initial .. HardLimit
      BY Zenon DEF Types, Size
    <2>2. NewCap(h) \in Initial .. HardLimit /\ cap < NewCap(h)
      BY <1>0, <2>1, GrowthAssumption DEF NewCap, Min2, Max2
    <2> QED BY <2>2, GrowthAssumption DEF Size
  <1>2. /\ UNCHANGED <<bump, cap, fileLen, vma, local, phase, base, len, given>>
        /\ lock' = Set(lock, LockOf(h), h) /\ target' = Set(target, h, NewCap(h)) /\ Goto(h, "expand")
        /\ lock[LockOf(h)] = Nobody
    <2>1. cap \in Int /\ NewCap(h) \in Int
      BY <1>1, SizeInt DEF Types
    <2>2. ~ (cap >= End(h)) /\ ~ (NewCap(h) < End(h))
      BY <1>0, <2>1
    <2> QED BY <2>2, Zenon DEF Lock, shared, maps
  <1>3. PICK c : /\ Size(c) /\ c \in 0 .. HardLimit /\ End(h) <= c /\ cap < c
                 /\ target' = Set(target, h, c)
    BY <1>1, <1>2, Zenon
  <1>4. CanBeAt(h, "expand")
    BY Kinds, Zenon DEF CanBeAt, Labels, HostLabels
  <1>5. /\ target' \in [Threads -> 0 .. HardLimit] /\ \A u \in Threads : u # h => target'[u] = target[u]
        /\ target'[h] = c
    <2>1. target \in [Threads -> 0 .. HardLimit]
      BY Zenon DEF Types, Places
    <2>2. /\ Set(target, h, c) \in [Threads -> 0 .. HardLimit] /\ Set(target, h, c)[h] = c
          /\ \A u \in Threads : u # h => Set(target, h, c)[u] = target[u]
      BY <1>0, <1>3, <2>1, TargetSet
    <2> QED BY <1>3, <2>2, Zenon
  <1>6. Places(pc', target') /\ pc'[h] = "expand" /\ \A u \in Threads : u # h => pc'[u] = pc[u]
    BY <1>0, <1>3, <1>2, <1>4, <1>5, Jump, Zenon DEF Types
  <1>7. /\ Holders(lock') /\ lock'[LockOf(h)] = h
        /\ \A l \in {"shm_grow", "shm_file"} : l # LockOf(h) => lock'[l] = lock[l]
    <2>1. Holders(lock) /\ h \in Threads \union {Nobody}
      BY <1>0, Zenon DEF Types
    <2> QED BY <1>0, <1>2, <2>1, HoldersSet
  <1>8. Types'
    BY <1>2, <1>6, <1>7, Zenon DEF Types
  <1> QED BY <1>3, <1>2, <1>5, <1>6, <1>7, <1>8, Zenon DEF HostFrame

(* Expanding: the file and the mapping of the process reach the target.    *)
LEMMA ExpandEffect ==
  ASSUME Types, NEW h \in HostThreads, Expand(h), scene' = scene
  PROVE  /\ Types' /\ HostFrame(h) /\ UNCHANGED <<cap, given, lock, base, len, target>>
         /\ pc'[h] = "publish" /\ pc[h] = "expand" /\ fileLen' = target[h]
         /\ vma[Host] <= vma'[Host] /\ target[h] <= vma'[Host]
         /\ local'[Host] \in {local[Host], target[h]}
  <1>0. h \in Threads /\ Host \in Process /\ Size(target[h]) /\ Size(vma[Host])
    <2>1. Grows(pc[h]) /\ h \in Threads /\ Host \in Process
      BY Kinds, Zenon DEF Expand, Grows
    <2> QED BY <2>1, Zenon DEF Types, Places, Mapping, Size
  <1>1. /\ UNCHANGED <<bump, cap, lock, phase, base, len, target, given>> /\ fileLen' = target[h]
        /\ vma' = Set(vma, Host, Max2(vma[Host], target[h])) /\ (local' = local \/ local' = Set(local, Host, target[h]))
        /\ pc[h] = "expand" /\ Goto(h, "publish")
    BY Zenon DEF Expand, ExpandMapping, regs
  <1>2. PICK m : Size(m) /\ target[h] <= m /\ vma[Host] <= m /\ vma' = Set(vma, Host, m)
    BY <1>0, <1>1, SizeMax, Zenon
  <1>3. /\ Mapping(vma') /\ vma'[Host] = m /\ \A p \in Process : p # Host => vma'[p] = vma[p]
    <2>1. Mapping(vma) /\ Host \in Process /\ Size(m)
      BY <1>0, <1>2, Zenon DEF Types
    <2>2. Mapping(Set(vma, Host, m)) /\ Set(vma, Host, m)[Host] = m /\ \A p \in Process : p # Host => Set(vma, Host, m)[p] = vma[p]
      BY <2>1, MappingSet
    <2> QED BY <1>2, <2>2, Zenon
  <1>4. /\ Mapping(local') /\ local'[Host] \in {local[Host], target[h]}
        /\ \A p \in Process : p # Host => local'[p] = local[p]
    <2>1. Mapping(local)
      BY Zenon DEF Types
    <2>2. CASE local' = local
      BY <2>1, <2>2, Zenon
    <2>3. CASE local' = Set(local, Host, target[h])
      BY <1>0, <2>1, <2>3, MappingSet
    <2> QED BY <1>1, <2>2, <2>3, Zenon
  <1>5. CanBeAt(h, "publish") /\ target' \in [Threads -> 0 .. HardLimit]
    BY <1>1, Kinds, Zenon DEF CanBeAt, Labels, HostLabels, Types, Places
  <1>6. Places(pc', target') /\ pc'[h] = "publish" /\ \A u \in Threads : u # h => pc'[u] = pc[u]
    BY <1>0, <1>1, <1>5, Jump, Zenon DEF Types
  <1>7. Types'
    BY <1>0, <1>1, <1>3, <1>4, <1>6, Zenon DEF Types
  <1> QED BY <1>1, <1>2, <1>3, <1>4, <1>6, <1>7, Zenon DEF HostFrame

(* Publishing: the capacity is what the thread has mapped.                 *)
LEMMA PublishEffect ==
  ASSUME Types, NEW h \in HostThreads, Publish(h), scene' = scene
  PROVE  /\ Types' /\ HostFrame(h) /\ UNCHANGED <<vma, local, fileLen, base, len, target>>
         /\ pc'[h] \in {"retry", "use"} /\ pc[h] = "publish" /\ cap' = target[h]
         /\ GivesBelow(End(h))
         /\ \A l \in {"shm_grow", "shm_file"} : l # LockOf(h) => lock'[l] = lock[l]
  <1>0. h \in Threads /\ LockOf(h) \in {"shm_grow", "shm_file"} /\ Size(target[h])
    <2>1. Grows(pc[h]) /\ h \in Threads /\ LockOf(h) \in {"shm_grow", "shm_file"}
      BY Kinds, Zenon DEF Publish, Grows, LockOf
    <2> QED BY <2>1, Zenon DEF Types, Places
  <1>1. /\ UNCHANGED <<bump, fileLen, vma, local, phase, base, len, target>> /\ cap' = target[h]
        /\ lock' = Set(lock, LockOf(h), Nobody) /\ pc[h] = "publish"
        /\ given' = given \/ Give(base[h], End(h))
    BY Zenon DEF Publish, maps, regs
  <1>2. PICK l \in {"retry", "use"} : Goto(h, l)
    BY Zenon DEF Publish
  <1>3. CanBeAt(h, l) /\ ~ Grows(l) /\ target' \in [Threads -> 0 .. HardLimit]
    BY <1>1, Kinds, Zenon DEF CanBeAt, Grows, Labels, HostLabels, Types, Places
  <1>4. Places(pc', target') /\ pc'[h] = l /\ \A u \in Threads : u # h => pc'[u] = pc[u]
    BY <1>0, <1>1, <1>2, <1>3, Jump, Zenon DEF Types
  <1>5. Handed(given') /\ GivesBelow(End(h))
    BY <1>1, GiveHanded, Zenon DEF Types, GivesBelow
  <1>6. /\ Holders(lock') /\ \A k \in {"shm_grow", "shm_file"} : k # LockOf(h) => lock'[k] = lock[k]
    <2>1. Holders(lock) /\ Nobody \in Threads \union {Nobody}
      BY Zenon DEF Types
    <2> QED BY <1>0, <1>1, <2>1, HoldersSet
  <1>7. Types'
    BY <1>0, <1>1, <1>4, <1>5, <1>6, Zenon DEF Types
  <1> QED BY <1>1, <1>4, <1>5, <1>6, <1>7, Zenon DEF HostFrame

Mapped == Types /\ Turns /\ GuestMaps /\ HostMaps /\ Synced /\ GivenBelow /\ FileLong

(* While a guest allocates no host thread does.                            *)
LEMMA HostsWait ==
  ASSUME OneLock, Types, Turns, NEW g \in Guests \intersect scene.threads, GuestStep(g)
  PROVE  phase # "between" /\ \A h \in HostThreads : pc[h] = "idle"
  <1>1. \/ pc[g] # "idle"
        \/ pc[g] = "idle" /\ phase = "wave"
    BY Zenon DEF GuestStep, GuestLoad, GuestGrow, GuestGrowCas, GuestRemap, GuestClaim, GuestFollow, Use
  <1>2. \A h \in HostThreads : h \in InWave => h \notin scene.threads
    BY Zenon DEF OneLock, Types
  <1>3. CASE pc[g] # "idle"
    BY <1>3, Zenon DEF Turns
  <1>4. CASE phase = "wave"
    BY <1>2, <1>4, Kinds, Zenon DEF Turns
  <1> QED BY <1>1, <1>3, <1>4, Zenon

(* A guest moves while the host threads are idle, and they stay so.        *)
LEMMA TurnsGuest ==
  ASSUME OneLock, Types, Turns, NEW g \in Guests \intersect scene.threads, GuestStep(g), GuestFrame(g)
  PROVE  Turns'
  <1>1. phase # "between" /\ \A h \in HostThreads : pc[h] = "idle"
    BY HostsWait, Zenon
  <1>2. phase' # "between" /\ scene' = scene /\ \A h \in HostThreads : pc'[h] = "idle"
    BY <1>1, Kinds, Zenon DEF GuestFrame
  <1>3. \A t \in Threads : t \notin scene.threads => pc'[t] = "idle"
    BY Zenon DEF GuestFrame, Turns
  <1> QED BY <1>2, <1>3, Zenon DEF Turns

(* The guest's own entries decide GuestMaps.                               *)
LEMMA GuestMapsGuest ==
  ASSUME Types, GuestMaps, NEW g \in Guests, GuestStep(g), scene' = scene
  PROVE  GuestMaps'
  <1>1. Types' /\ GuestFrame(g)
    BY GuestFrameStep, Zenon
  <1>2. /\ \A k \in Guests : Size(local[k]) /\ local[k] \in Nat /\ vma[k] \in Nat /\ target[k] \in Nat /\ base[k] \in Int
        /\ cap \in Nat /\ cap' \in Nat
    BY <1>1, Kinds, SizeInt, GrowthAssumption DEF Types, Mapping, Places, Ranges, Size
  <1>3. ASSUME NEW k \in Guests, k # g
        PROVE  /\ local'[k] <= vma'[k] /\ local'[k] <= cap'
               /\ pc'[k] = "claim" => base'[k] + 1 <= local'[k]
               /\ pc'[k] = "use" => End(k)' <= vma'[k]
               /\ pc'[k] = "cas" => local'[k] < target'[k]
               /\ pc'[k] \in {"remap", "reread"} => target'[k] <= cap'
    <2>1. /\ pc'[k] = pc[k] /\ base'[k] = base[k] /\ len'[k] = len[k] /\ target'[k] = target[k]
          /\ vma'[k] = vma[k] /\ local'[k] = local[k] /\ cap <= cap'
      BY <1>1, <1>3, Kinds, Zenon DEF GuestFrame
    <2>2. End(k)' = End(k)
      BY <2>1, Zenon DEF End
    <2>3. /\ local[k] <= vma[k] /\ local[k] <= cap
          /\ pc[k] = "claim" => base[k] + 1 <= local[k]
          /\ pc[k] = "use" => End(k) <= vma[k]
          /\ pc[k] = "cas" => local[k] < target[k]
          /\ pc[k] \in {"remap", "reread"} => target[k] <= cap
      BY Zenon DEF GuestMaps
    <2>4. local[k] <= cap' /\ (target[k] <= cap => target[k] <= cap')
      BY <1>2, <2>1, <2>3, Chain, NatInt, Zenon
    <2> QED BY <2>1, <2>2, <2>3, <2>4, Zenon
  <1>4. /\ local'[g] <= vma'[g] /\ local'[g] <= cap'
        /\ pc'[g] = "claim" => base'[g] + 1 <= local'[g]
        /\ pc'[g] = "use" => End(g)' <= vma'[g]
        /\ pc'[g] = "cas" => local'[g] < target'[g]
        /\ pc'[g] \in {"remap", "reread"} => target'[g] <= cap'
    <2>0. local[g] <= vma[g] /\ local[g] <= cap /\ cap <= cap'
      BY <1>1, Zenon DEF GuestMaps, GuestFrame
    <2>1. CASE GuestLoad(g)
      <3>1. /\ UNCHANGED <<vma, local, cap>> /\ pc'[g] \in {"panic", "grow", "claim"}
            /\ pc'[g] = "claim" => base'[g] + 1 <= local[g]
        BY <2>1, LoadEffect, Zenon
      <3> QED BY <2>0, <3>1, Zenon
    <2>2. CASE GuestGrow(g)
      <3>1. /\ UNCHANGED <<vma, local, cap>> /\ pc'[g] \in {"panic", "cas", "remap"}
            /\ pc'[g] = "cas" => local[g] < target'[g]
            /\ pc'[g] = "remap" => target'[g] = cap
        BY <2>2, GrowEffect, Zenon
      <3> QED BY <1>2, <2>0, <3>1, Zenon
    <2>3. CASE GuestGrowCas(g)
      <3>1. /\ UNCHANGED <<vma, local, target>> /\ pc'[g] \in {"load", "remap"}
            /\ pc'[g] = "remap" => target[g] = cap'
        BY <2>3, CasEffect, Zenon
      <3> QED BY <1>2, <2>0, <3>1
    <2>4. CASE GuestRemap(g)
      <3>1. /\ UNCHANGED <<cap, target>> /\ pc'[g] \in {"load", "idle"} /\ pc[g] \in {"remap", "reread"}
            /\ local'[g] = target[g] /\ target[g] <= vma'[g]
        BY <2>4, RemapEffect, Zenon
      <3> QED BY <3>1, Zenon DEF GuestMaps
    <2>5. CASE GuestClaim(g)
      <3>1. /\ UNCHANGED <<vma, local, cap>> /\ pc[g] = "claim"
            /\ \/ pc'[g] = "load"
               \/ pc'[g] = "use" /\ base'[g] = base[g] /\ len'[g] = 1
        BY <2>5, ClaimEffect, Zenon
      <3>2. base[g] + 1 <= local[g]
        BY <3>1, Zenon DEF GuestMaps
      <3>3. pc'[g] = "use" => End(g)' = base[g] + 1
        BY <3>1, Zenon DEF End
      <3> QED BY <1>2, <2>0, <3>1, <3>2, <3>3
    <2>6. CASE GuestFollow(g)
      <3>1. UNCHANGED <<vma, local, cap>> /\ pc'[g] = "reread" /\ target'[g] = cap
        BY <2>6, FollowEffect, Zenon
      <3> QED BY <1>2, <2>0, <3>1, Zenon
    <2>7. CASE Use(g)
      <3>1. UNCHANGED <<vma, local, cap>> /\ pc'[g] = "idle"
        BY <2>7, Kinds, UseEffect, Zenon
      <3> QED BY <2>0, <3>1, Zenon
    <2> QED BY <2>1, <2>2, <2>3, <2>4, <2>5, <2>6, <2>7, Zenon DEF GuestStep
  <1> QED BY <1>3, <1>4, Zenon DEF GuestMaps

(* A guest's step keeps what host threads rely on: there are none.         *)
LEMMA HostMapsGuest ==
  ASSUME OneLock, Mapped, NEW g \in Guests \intersect scene.threads, GuestStep(g), GuestFrame(g)
  PROVE  HostMaps' /\ Synced'
  <1>1. phase # "between" /\ \A h \in HostThreads : pc[h] = "idle"
    BY HostsWait, Zenon DEF Mapped
  <1>2. /\ phase' # "between" /\ scene' = scene /\ (\A h \in HostThreads : pc'[h] = "idle")
        /\ local'[Host] = local[Host] /\ vma'[Host] = vma[Host]
    BY <1>1, Kinds, Zenon DEF GuestFrame
  <1>3. HostMaps'
    BY <1>2, Zenon DEF HostMaps
  <1>4. g \in Guests \intersect scene'.threads
    BY <1>2, Zenon
  <1> QED BY <1>2, <1>3, <1>4, Zenon DEF Synced, Mapped

(* A guest is given a page below its own mapping and so below the capacity.*)
LEMMA GivenBelowGuest ==
  ASSUME Mapped, NEW g \in Guests, GuestStep(g), scene' = scene
  PROVE  GivenBelow'
  <1>1. Types' /\ GuestFrame(g)
    BY GuestFrameStep, Zenon DEF Mapped
  <1>2. cap <= cap' /\ cap \in Nat /\ cap' \in Nat /\ DOMAIN given \subseteq Nat /\ local[g] \in Nat
    BY <1>1, Kinds, SizeInt, GrowthAssumption DEF Types, GuestFrame, Mapped, Handed, Mapping, Size
  <1>3. CASE given' = given
    BY <1>2, <1>3 DEF Mapped, GivenBelow
  <1>4. CASE GuestClaim(g)
    <2>1. /\ pc[g] = "claim" /\ DOMAIN given' = DOMAIN given /\ base[g] \in Int
          /\ \A p \in DOMAIN given : given'[p] = given[p] \/ p < base[g] + 1
      BY <1>4, <1>1, Kinds, ClaimEffect, Zenon DEF Mapped, Types, Ranges
    <2>2. base[g] + 1 <= local[g] /\ local[g] <= cap
      BY <2>1, Zenon DEF Mapped, GuestMaps
    <2> QED BY <1>2, <2>1, <2>2 DEF Mapped, GivenBelow
  <1>5. GuestLoad(g) \/ GuestGrow(g) \/ GuestGrowCas(g) \/ GuestRemap(g) \/ GuestFollow(g) \/ Use(g) => given' = given
    BY Zenon DEF GuestLoad, GuestGrow, GuestGrowCas, GuestRemap, GuestFollow, Use
  <1> QED BY <1>3, <1>4, <1>5, Zenon DEF GuestStep

(* A single guest keeps the file as long as the capacity it publishes.     *)
LEMMA FileLongGuest ==
  ASSUME OneLock, Mapped, NEW g \in Guests \intersect scene.threads, GuestStep(g), scene' = scene
  PROVE  FileLong'
  <1>1. Types' /\ GuestFrame(g) /\ GuestMaps' /\ GivenBelow'
    BY GuestFrameStep, GuestMapsGuest, GivenBelowGuest, Zenon DEF Mapped
  <1>2. \A h \in HostThreads : pc'[h] = "idle"
    <2>1. \A h \in HostThreads : pc[h] = "idle"
      BY HostsWait, Zenon DEF Mapped
    <2> QED BY <1>1, <2>1, Kinds, Zenon DEF GuestFrame
  <1>3. /\ cap \in Nat /\ cap' \in Nat /\ fileLen \in Nat /\ fileLen' \in Nat /\ DOMAIN given \subseteq Nat
        /\ DOMAIN given' \subseteq Nat
        /\ \A k \in Guests : local[k] \in Nat /\ local'[k] \in Nat
    BY <1>1, Kinds, SizeInt, GrowthAssumption DEF Types, Mapped, Handed, Mapping, Size
  <1> SUFFICES ASSUME Single
               PROVE  /\ PagesBacked'
                      /\ \A k \in Guests : local'[k] <= fileLen'
                      /\ \A k \in Guests : pc'[k] \in {"remap", "reread"} => target'[k] = cap'
                      /\ cap' <= fileLen' \/ \E k \in Guests : pc'[k] = "remap"
    BY <1>2, Zenon DEF FileLong, Single
  <1>4. \A k \in Guests : k # g => pc'[k] = "idle" /\ pc[k] = "idle" /\ local'[k] = local[k]
    BY <1>1, Kinds, Zenon DEF GuestFrame, Mapped, Turns, Single
  <1>5. /\ PagesBacked
        /\ \A k \in Guests : local[k] <= fileLen
        /\ \A k \in Guests : pc[k] \in {"remap", "reread"} => target[k] = cap
        /\ cap <= fileLen \/ pc[g] = "remap"
    BY <1>4, Zenon DEF Mapped, FileLong
  <1>6. CASE GuestRemap(g)
    <2>1. fileLen' = cap' /\ pc'[g] \in {"load", "idle"}
      BY <1>5, <1>6, RemapEffect, Zenon DEF Mapped
    <2>2. \A k \in Guests : local'[k] <= fileLen'
      BY <1>1, <2>1, Zenon DEF GuestMaps
    <2>3. PagesBacked'
      BY <1>1, <2>1, Zenon DEF GivenBelow, PagesBacked
    <2> QED BY <1>3, <1>4, <2>1, <2>2, <2>3
  <1>7. CASE GuestGrowCas(g)
    <2>1. /\ UNCHANGED <<local, fileLen, given, target>> /\ pc[g] = "cas" /\ pc'[g] \in {"load", "remap"}
          /\ pc'[g] = "load" => cap' = cap
          /\ pc'[g] = "remap" => target[g] = cap'
      BY <1>7, CasEffect, Zenon DEF Mapped, GuestGrowCas
    <2> QED BY <1>4, <1>5, <2>1, Zenon DEF PagesBacked
  <1>8. CASE GuestClaim(g)
    <2>1. /\ UNCHANGED <<local, cap, fileLen, target>> /\ pc[g] = "claim" /\ pc'[g] \in {"load", "use"}
      BY <1>8, ClaimEffect, Zenon DEF Mapped
    <2>2. cap <= fileLen
      BY <1>5, <2>1, Zenon
    <2>3. PagesBacked'
      BY <1>1, <1>3, <2>1, <2>2 DEF GivenBelow, PagesBacked
    <2> QED BY <1>4, <1>5, <2>1, <2>2, <2>3, Zenon
  <1>9. CASE GuestLoad(g) \/ GuestGrow(g) \/ GuestFollow(g) \/ Use(g)
    <2>1. /\ UNCHANGED <<local, cap, fileLen, given>> /\ pc[g] \in {"idle", "load", "grow", "use"}
          /\ pc'[g] \in {"remap", "reread"} => target'[g] = cap
      <3>1. CASE GuestLoad(g)
        BY <3>1, LoadEffect, Zenon DEF Mapped, GuestLoad
      <3>2. CASE GuestGrow(g)
        BY <3>2, GrowEffect, Zenon DEF Mapped, GuestGrow
      <3>3. CASE GuestFollow(g)
        BY <3>3, FollowEffect, Zenon DEF Mapped, GuestFollow
      <3>4. CASE Use(g)
        BY <3>4, UseEffect, Kinds, Zenon DEF Mapped
      <3> QED BY <1>9, <3>1, <3>2, <3>3, <3>4, Zenon
    <2> QED BY <1>4, <1>5, <2>1, Zenon DEF PagesBacked
  <1> QED BY <1>6, <1>7, <1>8, <1>9, Zenon DEF GuestStep

(* A step of a guest keeps what the mappings cover.                        *)
LEMMA MappedGuest ==
  ASSUME OneLock, Mapped, NEW g \in Guests \intersect scene.threads, GuestStep(g), scene' = scene
  PROVE  Mapped'
  <1>1. Types' /\ GuestFrame(g)
    BY GuestFrameStep, Zenon DEF Mapped
  <1>2. Turns'
    BY <1>1, TurnsGuest, Zenon DEF Mapped
  <1>3. GuestMaps'
    BY GuestMapsGuest, Zenon DEF Mapped
  <1>4. HostMaps' /\ Synced'
    BY <1>1, HostMapsGuest, Zenon
  <1>5. GivenBelow'
    BY GivenBelowGuest, Zenon
  <1>6. FileLong'
    BY FileLongGuest, Zenon
  <1> QED BY <1>1, <1>2, <1>3, <1>4, <1>5, <1>6, Zenon DEF Mapped

(* While a host thread allocates no guest does, and the host's mapping     *)
(* covers the capacity.                                                    *)
LEMMA GuestsWait ==
  ASSUME OneLock, Mapped, NEW h \in HostThreads \intersect scene.threads, HostStep(h)
  PROVE  /\ cap <= vma[Host] /\ \A g \in Guests : pc[g] = "idle"
         /\ phase = "between" \/ Guests \intersect scene.threads = {} \/ pc[h] # "idle"
         /\ phase = "wave" => h \in InWave
  <1>1. \/ pc[h] # "idle"
        \/ pc[h] = "idle" /\ phase = "between"
        \/ pc[h] = "idle" /\ phase = "wave" /\ h \in InWave
    BY Zenon DEF HostStep, Reserve, Check, Return, Lock, Expand, Publish, Undo, Use
  <1>2. h \in InWave => Guests \intersect scene.threads = {}
    BY Zenon DEF OneLock, Mapped, Types
  <1>3. CASE pc[h] # "idle"
    BY <1>3, Kinds, Zenon DEF Mapped, Turns, Synced
  <1>4. CASE pc[h] = "idle" /\ phase = "between"
    BY <1>4, Zenon DEF Mapped, Turns, Synced
  <1>5. CASE pc[h] = "idle" /\ phase = "wave" /\ h \in InWave
    <2>1. \A g \in Guests : g \in Threads /\ g \notin scene.threads
      BY <1>2, <1>5, Kinds, Zenon
    <2> QED BY <1>2, <1>5, <2>1, Zenon DEF Mapped, Turns, Synced
  <1> QED BY <1>1, <1>3, <1>4, <1>5, Zenon

(* The invariant after a step of a host thread, from what the step did.    *)
LEMMA MappedHost ==
  ASSUME OneLock, Mapped, NEW h \in HostThreads \intersect scene.threads, HostStep(h), HostFrame(h), Types',
         cap <= cap', vma[Host] <= vma'[Host], cap' <= vma'[Host], local'[Host] <= vma'[Host],
         fileLen' = fileLen \/ cap <= fileLen',
         Single /\ cap <= fileLen => cap' <= fileLen',
         GivesBelow(cap'),
         pc'[h] = "use" => End(h)' <= vma'[Host],
         pc'[h] \in {"expand", "publish"} =>
             lock'[LockOf(h)] = h /\ End(h)' <= target'[h] /\ cap' < target'[h],
         pc'[h] = "publish" => target'[h] <= vma'[Host] /\ target'[h] <= fileLen',
         \/ cap' = cap /\ fileLen' = fileLen /\ lock' = lock
         \/ \A k \in HostThreads : k # h => pc[k] \notin {"expand", "publish"}
  PROVE  Mapped'
  <1>1. /\ cap <= vma[Host] /\ (\A g \in Guests : pc[g] = "idle")
        /\ phase = "between" \/ Guests \intersect scene.threads = {} \/ pc[h] # "idle"
        /\ phase = "wave" => h \in InWave
    BY GuestsWait, Zenon
  <1>2. /\ \A g \in Guests : pc'[g] = "idle" /\ vma'[g] = vma[g] /\ local'[g] = local[g]
        /\ \A k \in HostThreads : k # h =>
             pc'[k] = pc[k] /\ target'[k] = target[k] /\ End(k)' = End(k)
        /\ scene' = scene /\ phase' \in {phase, "failed"}
    BY <1>1, Kinds, Zenon DEF HostFrame, End
  <1>3. /\ cap \in Nat /\ cap' \in Nat /\ fileLen \in Nat /\ fileLen' \in Nat /\ DOMAIN given \subseteq Nat
        /\ vma[Host] \in Nat /\ vma'[Host] \in Nat
        /\ \A k \in HostThreads : target[k] \in Nat /\ End(k) \in Int
        /\ \A g \in Guests : local[g] \in Nat
    <2>1. \A k \in HostThreads : target[k] \in Nat /\ End(k) \in Int
      BY Kinds, GrowthAssumption DEF Mapped, Types, Places, Ranges, End
    <2> QED BY <2>1, Kinds, SizeInt, GrowthAssumption DEF Types, Mapped, Handed, Mapping, Size
  <1>4. Turns'
    <2>1. \A t \in Threads : t \notin scene.threads => pc'[t] = "idle"
      BY Zenon DEF HostFrame, Mapped, Turns
    <2>2. phase' = "wave" => \A k \in HostThreads : k \notin InWave => pc'[k] = "idle"
      BY <1>1, <1>2, Zenon DEF Mapped, Turns
    <2> QED BY <1>2, <2>1, <2>2, Zenon DEF Turns
  <1>5. GuestMaps'
    <2>1. ASSUME NEW g \in Guests
          PROVE  local'[g] <= vma'[g] /\ local'[g] <= cap' /\ pc'[g] = "idle"
      <3>1. local[g] <= vma[g] /\ local[g] <= cap
        BY Zenon DEF Mapped, GuestMaps
      <3>2. local[g] <= cap'
        BY <1>3, <3>1, Chain, NatInt, Zenon
      <3> QED BY <1>2, <3>1, <3>2, Zenon
    <2> QED BY <2>1, Zenon DEF GuestMaps
  <1>6. HostMaps'
    <2> SUFFICES ASSUME NEW k \in HostThreads, k # h
                 PROVE  /\ pc'[k] = "use" => End(k)' <= vma'[Host]
                        /\ pc'[k] \in {"expand", "publish"} =>
                             lock'[LockOf(k)] = k /\ End(k)' <= target'[k] /\ cap' < target'[k]
                        /\ pc'[k] = "publish" => target'[k] <= vma'[Host]
      BY Zenon DEF HostMaps, LockOf
    <2>1. /\ pc[k] = "use" => End(k) <= vma[Host]
          /\ pc[k] \in {"expand", "publish"} =>
               lock[LockOf(k)] = k /\ End(k) <= target[k] /\ cap < target[k]
          /\ pc[k] = "publish" => target[k] <= vma[Host]
      BY Zenon DEF Mapped, HostMaps
    <2>2. pc'[k] = pc[k] /\ target'[k] = target[k] /\ End(k)' = End(k)
      BY <1>2, Zenon
    <2>3. \A n \in Int : n <= vma[Host] => n <= vma'[Host]
      BY <1>3, Chain, NatInt, Zenon
    <2>4. End(k) \in Int /\ target[k] \in Int
      BY <1>3, NatInt, Zenon
    <2>5. CASE pc[k] \in {"expand", "publish"}
      <3>1. cap' = cap /\ lock' = lock
        BY <2>5, Zenon
      <3> QED BY <2>1, <2>2, <2>3, <2>4, <2>5, <3>1, Zenon
    <2>6. CASE pc[k] \notin {"expand", "publish"}
      BY <2>1, <2>2, <2>3, <2>4, <2>6, Zenon
    <2> QED BY <2>5, <2>6, Zenon
  <1>7. Synced'
    BY Zenon DEF Synced
  <1>8. GivenBelow'
    BY <1>3 DEF GivesBelow, Mapped, GivenBelow
  <1>9. FileLong'
    <2> SUFFICES ASSUME Single
                 PROVE  /\ PagesBacked'
                        /\ \A k \in Guests : local'[k] <= fileLen'
                        /\ cap' <= fileLen'
                        /\ \A k \in HostThreads : pc'[k] = "publish" => target'[k] <= fileLen'
      BY <1>2, Zenon DEF FileLong, Single
    <2>1. /\ \A k \in Guests : local[k] <= fileLen /\ local[k] <= cap
          /\ cap <= fileLen
          /\ \A k \in HostThreads : pc[k] = "publish" => target[k] <= fileLen
      BY <1>1, Zenon DEF Mapped, FileLong, GuestMaps
    <2>2. cap' <= fileLen'
      BY <2>1, Zenon
    <2>3. PagesBacked'
      <3>1. DOMAIN given' = DOMAIN given
        BY Zenon DEF GivesBelow
      <3>2. \A p \in DOMAIN given : p < cap' => p < fileLen'
        BY <1>3, <2>2, Chain, NatInt, Zenon
      <3> QED BY <1>8, <3>1, <3>2, Zenon DEF GivenBelow, PagesBacked
    <2>4. \A k \in Guests : local'[k] <= fileLen'
      <3>1. ASSUME NEW k \in Guests PROVE local[k] <= fileLen'
        BY <1>3, <2>1, Chain, NatInt, Zenon
      <3> QED BY <1>2, <3>1, Zenon
    <2>5. \A k \in HostThreads : pc'[k] = "publish" => target'[k] <= fileLen'
      BY <1>2, <2>1, Zenon
    <2> QED BY <2>2, <2>3, <2>4, <2>5, Zenon
  <1> QED BY <1>4, <1>5, <1>6, <1>7, <1>8, <1>9, Zenon DEF Mapped

(* The holder of the lock is the only thread that grows: its rivals are in *)
(* the same scene and take the same lock.                                  *)
LEMMA Alone ==
  ASSUME OneLock, Mapped, NEW h \in HostThreads \intersect scene.threads,
         lock[LockOf(h)] \in {h, Nobody}
  PROVE  \A k \in HostThreads : k # h => pc[k] \notin {"expand", "publish"}
  <1> SUFFICES ASSUME NEW k \in HostThreads, pc[k] \in {"expand", "publish"}
               PROVE  k = h
    BY Zenon
  <1>1. k \in scene.threads
    BY Kinds, Zenon DEF Mapped, Turns
  <1>2. LockOf(k) = LockOf(h)
    BY <1>1, Kinds, Zenon DEF LockOf, OneLock, Mapped, Types, HostThreads
  <1>3. lock[LockOf(k)] = k
    BY Zenon DEF Mapped, HostMaps
  <1>4. k # Nobody
    BY Kinds, GrowthAssumption, Zenon DEF Threads
  <1> QED BY <1>2, <1>3, <1>4, Zenon

(* Every step of a host thread keeps the invariant.                        *)
LEMMA HostStepMapped ==
  ASSUME OneLock, Mapped, NEW h \in HostThreads \intersect scene.threads, HostStep(h), scene' = scene
  PROVE  Mapped'
  <1>0. /\ Types /\ h \in Threads /\ cap <= vma[Host] /\ local[Host] <= vma[Host]
        /\ cap \in Nat /\ vma[Host] \in Nat /\ fileLen \in Nat /\ End(h) \in Int /\ cap <= cap /\ vma[Host] <= vma[Host]
    <2>1. Types /\ h \in Threads /\ local[Host] <= vma[Host] /\ Host \in Process
      BY Kinds, Zenon DEF Mapped, Synced
    <2>2. Size(cap) /\ Size(vma[Host]) /\ Size(fileLen) /\ End(h) \in Int
      BY <2>1 DEF Types, Mapping, Size, End, Ranges
    <2> QED BY <2>1, <2>2, GuestsWait, SizeInt
  <1>1. ASSUME NEW l \in {"use", "return", "lock", "retry", "undo", "idle"},
               Goto(h, l), bump' \in Int, phase' \in {phase, "failed"},
               given' = given \/ (Give(base[h], End(h)) /\ End(h) <= cap),
               l = "use" => End(h) <= cap,
               UNCHANGED <<cap, fileLen, vma, local, lock, base, len, target>>
        PROVE  Mapped'
    <2>1. Types' /\ HostFrame(h) /\ pc'[h] = l /\ GivesBelow(End(h))
      BY <1>0, <1>1, JumpEffect, Zenon
    <2>2. GivesBelow(cap')
      <3>1. CASE given' = given
        BY <3>1, Zenon DEF GivesBelow
      <3>2. CASE End(h) <= cap
        <4>1. \A p \in DOMAIN given : p < End(h) => p < cap
          BY <1>0, <3>2, HandedInt, Chain, NatInt, Zenon DEF Types
        <4> QED BY <1>1, <2>1, <4>1, Zenon DEF GivesBelow
      <3> QED BY <1>1, <3>1, <3>2, Zenon
    <2>3. End(h)' = End(h)
      BY <1>1, Zenon DEF End
    <2>4. pc'[h] = "use" => End(h)' <= vma'[Host]
      <3>1. CASE l = "use"
        <4>1. End(h) <= vma[Host]
          BY <1>0, <1>1, <3>1, Chain, NatInt, Zenon
        <4> QED BY <1>1, <2>3, <4>1, Zenon
      <3> QED BY <2>1, <3>1, Zenon
    <2> QED BY <1>0, <1>1, <2>1, <2>2, <2>4, MappedHost, Zenon
  <1>2. ASSUME NEW n \in Sizes, Reserve(h, n) PROVE Mapped'
    <2>1. /\ Types' /\ HostFrame(h) /\ UNCHANGED <<vma, local, cap, fileLen, given, lock>> /\ pc'[h] = "check"
      BY <1>0, <1>2, ReserveEffect, Zenon
    <2>2. GivesBelow(cap')
      BY <2>1, Zenon DEF GivesBelow
    <2> QED BY <1>0, <2>1, <2>2, MappedHost, Zenon
  <1>3. CASE Check(h)
    <2>1. PICK l \in {"use", "return", "lock"} : Goto(h, l) /\ (l = "use" => End(h) <= cap)
      BY <1>3, Zenon DEF Check
    <2>2. /\ UNCHANGED <<bump, cap, fileLen, vma, local, lock, phase, base, len, target>>
          /\ given' = given \/ (Give(base[h], End(h)) /\ End(h) <= cap)
      BY <1>3, Zenon DEF Check, shared, maps, regs
    <2> QED BY <1>0, <1>1, <2>1, <2>2, Zenon DEF Types
  <1>4. CASE Return(h) \/ Undo(h)
    <2>1. PICK l \in {"lock", "idle"} : Goto(h, l)
      BY <1>4, Zenon DEF Return, Undo
    <2>2. UNCHANGED <<cap, fileLen, vma, local, lock, phase, base, len, target, given>> /\ bump' \in {bump - len[h], bump - 1}
      BY <1>4, Zenon DEF Return, Undo, maps, regs
    <2>3. bump' \in Int
      BY <1>0, <2>2 DEF Types, Ranges
    <2> QED BY <1>1, <2>1, <2>2, <2>3, Zenon
  <1>5. CASE Lock(h) /\ ~ (cap < End(h) /\ NewCap(h) >= End(h))
    <2>1. PICK l \in {"use", "retry", "undo", "idle"} : Goto(h, l) /\ (l = "use" => cap >= End(h))
      BY <1>5, Zenon DEF Lock
    <2>2. /\ UNCHANGED <<bump, cap, fileLen, vma, local, lock, base, len, target>>
          /\ given' = given \/ (Give(base[h], End(h)) /\ cap >= End(h))
          /\ phase' \in {phase, "failed"}
      BY <1>5, Zenon DEF Lock, shared, maps
    <2>3. cap >= End(h) => End(h) <= cap
      BY <1>0, Zenon
    <2> QED BY <1>0, <1>1, <2>1, <2>2, <2>3, Zenon DEF Types
  <1>6. CASE Lock(h) /\ cap < End(h) /\ NewCap(h) >= End(h)
    <2>1. /\ Types' /\ HostFrame(h) /\ UNCHANGED <<vma, local, cap, fileLen, given, base, len>>
          /\ pc'[h] = "expand" /\ End(h) <= target'[h] /\ cap < target'[h]
          /\ lock[LockOf(h)] = Nobody /\ lock'[LockOf(h)] = h
      BY <1>0, <1>6, GrabEffect, Zenon
    <2>2. \A k \in HostThreads : k # h => pc[k] \notin {"expand", "publish"}
      BY <2>1, Alone, Zenon
    <2>3. GivesBelow(cap') /\ End(h)' = End(h)
      BY <2>1, Zenon DEF GivesBelow, End
    <2> QED BY <1>0, <2>1, <2>2, <2>3, MappedHost, Zenon
  <1>7. CASE Expand(h)
    <2>1. /\ Types' /\ HostFrame(h) /\ UNCHANGED <<cap, given, lock, base, len, target>>
          /\ pc'[h] = "publish" /\ pc[h] = "expand" /\ fileLen' = target[h]
          /\ vma[Host] <= vma'[Host] /\ target[h] <= vma'[Host]
          /\ local'[Host] \in {local[Host], target[h]}
      BY <1>0, <1>7, ExpandEffect, Zenon
    <2>2. lock[LockOf(h)] = h /\ End(h) <= target[h] /\ cap < target[h]
      BY <2>1, Zenon DEF Mapped, HostMaps
    <2>3. \A k \in HostThreads : k # h => pc[k] \notin {"expand", "publish"}
      BY <2>2, Alone, Zenon
    <2>4. GivesBelow(cap') /\ End(h)' = End(h)
      BY <2>1, Zenon DEF GivesBelow, End
    <2>5. target[h] \in Nat /\ vma'[Host] \in Nat /\ local[Host] \in Nat
      <3>1. Host \in Process
        BY Kinds, Zenon
      <3> QED BY <1>0, <2>1, <3>1, GrowthAssumption DEF Types, Places, Mapping
    <2>6. cap' <= vma'[Host] /\ local'[Host] <= vma'[Host] /\ cap <= fileLen' /\ target'[h] <= fileLen'
      BY <1>0, <2>1, <2>2, <2>5
    <2> QED BY <1>0, <2>1, <2>2, <2>3, <2>4, <2>6, MappedHost, Zenon
  <1>8. CASE Publish(h)
    <2>1. /\ Types' /\ HostFrame(h) /\ UNCHANGED <<vma, local, fileLen, base, len, target>>
          /\ pc'[h] \in {"retry", "use"} /\ pc[h] = "publish" /\ cap' = target[h]
          /\ GivesBelow(End(h))
      BY <1>0, <1>8, PublishEffect, Zenon
    <2>2. lock[LockOf(h)] = h /\ End(h) <= target[h] /\ cap < target[h] /\ target[h] <= vma[Host]
      BY <2>1, Zenon DEF Mapped, HostMaps
    <2>3. \A k \in HostThreads : k # h => pc[k] \notin {"expand", "publish"}
      BY <2>2, Alone, Zenon
    <2>4. target[h] \in Nat /\ End(h)' = End(h)
      BY <1>0, <2>1, GrowthAssumption DEF Types, Places, End
    <2>5. GivesBelow(cap')
      <3>1. \A p \in DOMAIN given : p < End(h) => p < target[h]
        BY <1>0, <2>2, <2>4, HandedInt, Chain, NatInt, Zenon DEF Types
      <3> QED BY <2>1, <3>1, Zenon DEF GivesBelow
    <2>6. End(h)' <= vma'[Host] /\ cap <= cap'
      <3>1. End(h) <= vma[Host] /\ cap <= target[h]
        BY <1>0, <2>2, <2>4, Chain, NatInt, Zenon
      <3> QED BY <2>1, <2>4, <3>1, Zenon
    <2>7. Single => cap' <= fileLen'
      BY <2>1, Zenon DEF Mapped, FileLong
    <2> QED BY <1>0, <2>1, <2>2, <2>3, <2>5, <2>6, <2>7, MappedHost, Zenon
  <1>9. CASE Use(h)
    <2>1. /\ Types' /\ UNCHANGED <<vma, local, cap, fileLen, given, lock, phase>> /\ pc'[h] = "idle"
          /\ \A u \in Threads : u # h =>
              pc'[u] = pc[u] /\ base'[u] = base[u] /\ len'[u] = len[u] /\ target'[u] = target[u]
      BY <1>0, <1>9, UseEffect, Zenon
    <2>2. GivesBelow(cap') /\ HostFrame(h)
      BY <2>1, Zenon DEF GivesBelow, HostFrame
    <2> QED BY <1>0, <2>1, <2>2, MappedHost, Zenon
  <1> QED BY <1>2, <1>3, <1>4, <1>5, <1>6, <1>7, <1>8, <1>9, Zenon DEF HostStep

(* The end of a wave re-synchronises the host's mapping, and the next wave *)
(* maps the file into new guests.                                          *)
LEMMA WaveMapped ==
  ASSUME Mapped, EndWave \/ NextWave, scene' = scene
  PROVE  Mapped'
  <1>1. /\ Size(cap) /\ Size(fileLen) /\ Size(vma[Host]) /\ Size(local[Host]) /\ Size(Initial)
        /\ Host \in Process /\ Mapping(vma) /\ Mapping(local) /\ local[Host] <= vma[Host]
        /\ Initial <= cap
    BY Kinds, SizeInitial, SizeLow, MappingSize, Zenon DEF Mapped, Types, Synced
  <1>2. UNCHANGED <<bump, cap, lock, pc, base, len, target, given>> /\ \A g \in Guests : pc[g] = "idle"
    BY Zenon DEF EndWave, NextWave, regs, Mapped, Turns
  <1>3. \A t \in Threads : End(t)' = End(t)
    BY <1>2, Zenon DEF End
  <1>4. CASE EndWave
    <2>1. PICK m : /\ Size(m) /\ vma[Host] <= m /\ cap <= m
                   /\ \/ vma' = vma /\ m = vma[Host] /\ local' = local
                      \/ vma' = Set(vma, Host, m) /\ local' = Set(local, Host, cap)
      <3>1. Size(Max2(vma[Host], cap)) /\ vma[Host] <= Max2(vma[Host], cap) /\ cap <= Max2(vma[Host], cap)
        BY <1>1, SizeMax, Zenon
      <3>2. CASE cap <= local[Host]
        BY <1>1, <1>4, <3>2 DEF EndWave, maps, Size
      <3>3. CASE ~ (cap <= local[Host])
        BY <1>4, <3>1, <3>3, Zenon DEF EndWave
      <3> QED BY <3>2, <3>3, Zenon
    <2>2. Size(fileLen') /\ fileLen <= fileLen'
      <3>1. Size(Max2(fileLen, cap)) /\ fileLen <= Max2(fileLen, cap)
        BY <1>1, SizeMax, Zenon
      <3>2. fileLen <= fileLen
        BY <1>1, SizeInt
      <3> QED BY <1>1, <1>4, <3>1, <3>2, Zenon DEF EndWave
    <2>3. /\ Mapping(vma') /\ Mapping(local') /\ vma'[Host] = m /\ local'[Host] <= m
          /\ \A p \in Process : p # Host => vma'[p] = vma[p] /\ local'[p] = local[p]
      <3>1. CASE vma' = vma /\ m = vma[Host] /\ local' = local
        BY <1>1, <3>1, Zenon
      <3>2. CASE vma' = Set(vma, Host, m) /\ local' = Set(local, Host, cap)
        <4>1. Mapping(vma') /\ vma'[Host] = m /\ \A p \in Process : p # Host => vma'[p] = vma[p]
          <5>1. Host \in Process /\ Mapping(vma) /\ Size(m)
            BY <1>1, <2>1, Zenon
          <5>2. Mapping(Set(vma, Host, m)) /\ Set(vma, Host, m)[Host] = m /\ \A p \in Process : p # Host => Set(vma, Host, m)[p] = vma[p]
            BY <5>1, MappingSet
          <5> QED BY <3>2, <5>2, Zenon
        <4>2. Mapping(local') /\ local'[Host] = cap /\ \A p \in Process : p # Host => local'[p] = local[p]
          <5>1. Host \in Process /\ Mapping(local) /\ Size(cap)
            BY <1>1, Zenon
          <5>2. Mapping(Set(local, Host, cap)) /\ Set(local, Host, cap)[Host] = cap /\ \A p \in Process : p # Host => Set(local, Host, cap)[p] = local[p]
            BY <5>1, MappingSet
          <5> QED BY <3>2, <5>2, Zenon
        <4> QED BY <2>1, <4>1, <4>2, Zenon
      <3> QED BY <2>1, <3>1, <3>2, Zenon
    <2>4. phase' = "between"
      BY <1>4, Zenon DEF EndWave
    <2>5. Types'
      BY <1>2, <2>2, <2>3, <2>4, Zenon DEF Mapped, Types
    <2>6. Turns'
      BY <1>2, <2>4, Zenon DEF Mapped, Turns
    <2>7. GuestMaps'
      BY <1>2, <2>3, Kinds, Zenon DEF Mapped, GuestMaps
    <2>8. vma[Host] \in Nat /\ vma'[Host] \in Nat /\ vma[Host] <= vma'[Host]
      BY <1>1, <2>1, <2>3, SizeInt, Zenon
    <2>9. HostMaps'
      <3>1. \A h \in HostThreads : End(h) \in Int /\ target[h] \in Nat /\ h \in Threads
        BY Kinds, GrowthAssumption DEF Mapped, Types, Ranges, Places, End
      <3> QED BY <1>2, <1>3, <2>8, <3>1 DEF Mapped, HostMaps, LockOf
    <2>10. Synced'
      BY <1>2, <2>1, <2>3, Zenon DEF Synced
    <2>11. FileLong'
      <3>1. fileLen \in Nat /\ fileLen' \in Nat /\ cap \in Nat /\ DOMAIN given \subseteq Nat
        BY <1>1, <2>2, SizeInt DEF Mapped, Types, Handed
      <3>2. /\ \A g \in Guests : local'[g] = local[g] /\ local[g] \in Nat
            /\ \A h \in HostThreads : target[h] \in Nat
        BY <2>3, Kinds, GrowthAssumption DEF Mapped, Types, Mapping, Places
      <3> QED BY <1>2, <2>2, <3>1, <3>2 DEF Mapped, FileLong, PagesBacked, Single
    <2> QED BY <1>2, <2>5, <2>6, <2>7, <2>9, <2>10, <2>11, Zenon DEF Mapped, GivenBelow
  <1>5. CASE NextWave
    <2>1. /\ fileLen' = fileLen /\ vma'[Host] = vma[Host] /\ local'[Host] = local[Host]
          /\ Mapping(vma') /\ Mapping(local')
          /\ \A g \in Guests : vma'[g] = fileLen /\ local'[g] = Initial
          /\ phase' = "wave" /\ phase = "between"
          /\ \A h \in HostThreads : h \notin InWave => pc[h] = "idle"
      <3>1. Max2(fileLen, Initial) = fileLen
        BY <1>1, GrowthAssumption DEF Size, Max2
      <3>2. /\ vma' = [p \in Process |-> IF p = Host THEN vma[p] ELSE fileLen]
            /\ local' = [p \in Process |-> IF p = Host THEN local[p] ELSE Initial]
            /\ fileLen' = fileLen
        BY <1>5, <3>1, Zenon DEF NextWave
      <3>3. Mapping(vma') /\ Mapping(local')
        BY <1>1, <3>2, Zenon DEF Mapping, Size
      <3>4. \A g \in Guests : vma'[g] = fileLen /\ local'[g] = Initial
        BY <3>2, Kinds, Zenon
      <3> QED BY <1>1, <1>5, <3>2, <3>3, <3>4, Zenon DEF NextWave, HostThreads
    <2>2. Types'
      BY <1>2, <2>1, Zenon DEF Mapped, Types
    <2>3. Turns'
      BY <1>2, <2>1, Zenon DEF Mapped, Turns
    <2>4. Initial <= fileLen
      BY <1>1 DEF Size
    <2>5. GuestMaps'
      BY <1>1, <1>2, <2>1, <2>4, Zenon DEF GuestMaps
    <2>6. HostMaps'
      BY <1>2, <1>3, <2>1, Kinds, Zenon DEF Mapped, HostMaps, LockOf
    <2>7. Synced'
      BY <1>2, <2>1, Zenon DEF Mapped, Synced
    <2>8. FileLong'
      BY <1>2, <2>1, <2>4, Zenon DEF Mapped, FileLong, PagesBacked, Single
    <2> QED BY <1>2, <2>2, <2>3, <2>5, <2>6, <2>7, <2>8 DEF Mapped, GivenBelow
  <1> QED BY <1>4, <1>5, Zenon

(* A page that was never given counts zero.                                *)
LEMMA NoneGiven == ~ 0 > 0
  OBVIOUS

(* A formatted SHM file satisfies the invariant.                           *)
LEMMA InitMapped == ASSUME Init PROVE Mapped
  <1>1. /\ \A t \in Threads : pc[t] = "idle" /\ CanBeAt(t, "idle")
        /\ \A p \in Process : vma[p] = Initial /\ local[p] = Initial
        /\ \A p \in DOMAIN given : given[p] = 0
        /\ cap = Initial /\ fileLen = Initial /\ phase = "wave" /\ scene \in Scenes /\ Initial <= Initial
    BY GrowthAssumption DEF Init, CanBeAt, Labels, GuestLabels, HostLabels
  <1>2. Types
    <2>1. Mapping(vma) /\ Mapping(local) /\ Handed(given)
      BY SizeInitial, Zenon DEF Init, Mapping, Handed, Size
    <2>2. Places(pc, target)
      BY <1>1, GrowthAssumption DEF Init, Places, Grows
    <2>3. Holders(lock) /\ Ranges(base, len)
      BY DEF Init, Holders, Ranges
    <2> QED BY <1>1, <2>1, <2>2, <2>3, SizeInitial DEF Types, Init
  <1>3. Turns /\ GuestMaps /\ HostMaps /\ Synced /\ GivenBelow /\ FileLong
    <2>1. Turns /\ Synced
      BY <1>1, Kinds, Zenon DEF Turns, Synced
    <2>2. GuestMaps /\ HostMaps
      BY <1>1, Kinds, Zenon DEF GuestMaps, HostMaps
    <2>3. GivenBelow
      BY <1>1, NoneGiven, Zenon DEF GivenBelow
    <2>4. FileLong
      BY <1>1, Kinds DEF FileLong, PagesBacked
    <2> QED BY <2>1, <2>2, <2>3, <2>4, Zenon
  <1> QED BY <1>2, <1>3, Zenon DEF Mapped

(* So does every step.                                                     *)
LEMMA NextMapped == ASSUME OneLock, Mapped, [Next]_vars PROVE Mapped'
  <1>1. ASSUME NEW g \in Guests \intersect scene.threads, GuestStep(g), UNCHANGED scene PROVE Mapped'
    BY <1>1, MappedGuest, Zenon
  <1>2. ASSUME NEW h \in (Hosts \union Receivers) \intersect scene.threads, HostStep(h), UNCHANGED scene
        PROVE  Mapped'
    BY <1>2, HostStepMapped, Zenon DEF HostThreads
  <1>3. CASE (EndWave \/ NextWave) /\ UNCHANGED scene
    BY <1>3, WaveMapped, Zenon
  <1>4. CASE UNCHANGED vars
    <2>1. /\ UNCHANGED <<scene, bump, cap, fileLen, vma, local, lock, phase, pc, base, len, target, given>>
          /\ \A t : End(t)' = End(t)
      BY <1>4, Zenon DEF vars, shared, maps, regs, End
    <2> QED BY <2>1, Zenon DEF Mapped, Types, Turns, GuestMaps, HostMaps, Synced, GivenBelow, FileLong, PagesBacked, Single, LockOf
  <1> QED BY <1>1, <1>2, <1>3, <1>4, Zenon DEF Next

(* Facts about cardinality, for the last theorems only.                    *)
INSTANCE FiniteSetTheorems

(* Pages are where their users look for them (PagesUsable), for any number *)
(* of guests and host threads, any sizes and limits, through every growth  *)
(* of try_allocate_page, try_grow_shm, the mesh's grow_shm_to and          *)
(* sync_mapping_if_grown, as long as the growers of one scene share a lock.*)
THEOREM GrownPagesAreUsable == ASSUME OneLock, IsFiniteSet(Guests) PROVE Spec => []PagesUsable
  <1>1. Init => Mapped
    BY InitMapped, Zenon
  <1>2. Mapped /\ [Next]_vars => Mapped'
    BY NextMapped, Zenon
  <1>3. Mapped => PagesUsable
    <2> SUFFICES ASSUME Mapped PROVE PagesUsable
      BY Zenon
    <2>1. \A t \in Threads : pc[t] = "use" => End(t) <= vma[IF t \in Guests THEN t ELSE Host]
      BY Kinds, Zenon DEF Mapped, GuestMaps, HostMaps
    <2>2. \A p \in DOMAIN given : given[p] > 0 => p < cap /\ (phase = "between" => p < vma[Host])
      <3>1. cap \in Nat /\ vma[Host] \in Nat /\ DOMAIN given \subseteq Nat
        BY Kinds, SizeInt, GrowthAssumption DEF Mapped, Types, Mapping, Handed
      <3>2. GivenBelow /\ (phase = "between" => cap <= vma[Host])
        BY Zenon DEF Mapped, Synced
      <3> QED BY <3>1, <3>2, Chain, NatInt, Zenon DEF GivenBelow
    <2>3. Cardinality(Guests \intersect scene.threads) <= 1 => PagesBacked
      <3> SUFFICES ASSUME Cardinality(Guests \intersect scene.threads) <= 1 PROVE Single
        BY Zenon DEF Mapped, FileLong
      <3> SUFFICES ASSUME NEW g \in Guests \intersect scene.threads, NEW k \in Guests \intersect scene.threads, g # k
                   PROVE  FALSE
        BY Zenon DEF Single
      <3>1. IsFiniteSet(Guests \intersect scene.threads)
        BY FS_Subset, Zenon
      <3>2. Cardinality({g, k}) = 2 /\ IsFiniteSet({g, k})
        <4>1. IsFiniteSet({g}) /\ Cardinality({g}) = 1
          BY FS_Singleton, Zenon
        <4>2. {g, k} = {g} \union {k} /\ k \notin {g}
          BY Zenon
        <4>3. IsFiniteSet({g} \union {k}) /\ Cardinality({g} \union {k}) = Cardinality({g}) + 1
          BY <4>1, <4>2, FS_AddElement, Zenon
        <4> QED BY <4>1, <4>2, <4>3
      <3>3. Cardinality({g, k}) <= Cardinality(Guests \intersect scene.threads)
        BY <3>1, FS_Subset, Zenon
      <3>4. Cardinality(Guests \intersect scene.threads) \in Nat
        BY <3>1, FS_CardinalityType, Zenon
      <3> QED BY <3>2, <3>3, <3>4
    <2> QED BY <2>1, <2>2, <2>3, Zenon DEF PagesUsable
  <1> QED BY <1>1, <1>2, <1>3, PTL DEF Spec

(* Where moreover no reservation is given back, so that the bump pointer   *)
(* only rises, every word of the superblock, mapping and register keeps    *)
(* its type (TypeOK): the capacity never leaves INITIAL_SHM_SIZE ..        *)
(* CAPACITY_HARD_LIMIT in any growth path.                                 *)
THEOREM GrowthTypes == ASSUME OneLock, NoGiveBack PROVE Spec => []TypeOK
  <1>1. Init => Mapped /\ Inv
    BY InitMapped, InitInv, Zenon
  <1>2. (Mapped /\ Inv) /\ [Next]_vars => (Mapped /\ Inv)'
    BY NextMapped, NextInv, Zenon
  <1>3. Mapped /\ Inv => TypeOK
    BY Zenon DEF Mapped, Types, Inv, Words, TypeOK, Size, Mapping, Holders, Handed, Places
  <1> QED BY <1>1, <1>2, <1>3, PTL DEF Spec
=============================================================================
