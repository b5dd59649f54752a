--------------------------- MODULE RemoteTransfer ---------------------------
(***************************************************************************)
(* The sender-initiated transfer of one slot's records between two nodes   *)
(* of the RDMA mesh.  A transfer is two threads, one per node, that share  *)
(* a TCP control connection: the sender announces a size, the receiver     *)
(* answers with a destination (pages of the registered region MR1, or a    *)
(* reservation in the overflow region MR2), the sender's NIC writes there  *)
(* and a done byte follows.  Data is counted in records of one byte.       *)
(***************************************************************************)
EXTENDS Integers, Sequences, SequencesExt, FiniteSetsExt

CONSTANTS Nodes,        \* node ids of the mesh, naturals
          Slots,        \* stream slots of every node
          Threads,      \* transfer threads
          PageSize, PageData,   \* bytes of a page, and of its payload
          Mr2Initial,   \* RDMA_MR2_INITIAL_SIZE
          Garbage       \* what unwritten memory reads as

VARIABLES slots,   \* node -> slot -> the records its page chain holds
          thr,     \* thread -> its role and progress
          lanes,   \* control connection -> bytes under way, both directions
          mem,     \* node -> bytes left in MR1, MR2, and whether Python runs here
          status   \* node -> "run", or how its executor process ended

transferVars == <<slots, thr, lanes, mem, status>>

Up(n) == status[n] = "run"

-----------------------------------------------------------------------------
\* The four connections of a node pair.  The lower id is the server of each:
\* conn-1 and conn-3 are what it sends on, conn-2 and conn-4 what it receives on.
SenderConn(n, peer, stream) ==
    IF n < peer THEN (IF stream THEN 3 ELSE 1) ELSE (IF stream THEN 4 ELSE 2)

\* The client takes the server's order.
ReceiverConnSwapped(n, peer, stream) == IF stream THEN 4 ELSE 2

ReceiverConn(n, peer, stream) ==
    IF n < peer THEN (IF stream THEN 4 ELSE 2) ELSE (IF stream THEN 3 ELSE 1)

Lanes == {<<i, j, c>> \in Nodes \X Nodes \X (1..4) : i < j}

Lane(t) ==
    LET n == thr[t].node
        p == thr[t].peer
        c == IF thr[t].role = "send" THEN SenderConn(n, p, thr[t].stream)
             ELSE ReceiverConn(n, p, thr[t].stream)
    IN  <<Min({n, p}), Max({n, p}), c>>

Thread(node, peer, role, stream) ==
    [node |-> node, peer |-> peer, role |-> role, stream |-> stream,
     st |-> "idle", slot |-> 0, n |-> 0, at |-> 0, mr2 |-> FALSE]

\* A thread begins execute_remote_send or execute_remote_recv on a slot.
Begin(t, slot) == [thr EXCEPT ![t].st = "begin", ![t].slot = slot]

Runs(t, role, st) == thr[t].role = role /\ thr[t].st = st /\ Up(thr[t].node)

-----------------------------------------------------------------------------
\* The bytes the scatter list names, read by the NIC when it writes: what the
\* slot's pages hold by then, not when the list was collected.
Gathered(t) ==
    LET s == slots[thr[t].node][thr[t].slot]
    IN  [i \in 1..thr[t].n |-> IF i <= Len(s) THEN s[i] ELSE Garbage]

\* Writes bytes into mem at offset at.
Overwrite(bytes, at, data) ==
    [i \in DOMAIN bytes |-> IF i - at \in DOMAIN data THEN data[i - at] ELSE bytes[i]]

SendAnnounce(t) ==
    /\ Runs(t, "send", "begin")
    /\ LET n == Len(slots[thr[t].node][thr[t].slot])
       IN  /\ lanes' = [lanes EXCEPT ![Lane(t)].fwd = Append(@, n)]
           /\ thr' = [thr EXCEPT ![t].n = n, ![t].st = IF n = 0 THEN "done" ELSE "reply"]
    /\ UNCHANGED <<slots, mem, status>>

\* The RDMA write and its completion.  A page chain that was bump-allocated past
\* the end of MR1 is outside the remote key, and a dead peer never acknowledges:
\* both complete with an error.
SendWrite(t) ==
    /\ Runs(t, "send", "reply")
    /\ lanes[Lane(t)].bwd # <<>>
    /\ LET r == Head(lanes[Lane(t)].bwd)
           peer == thr[t].peer
           ok == r.inside /\ Up(peer)
       IN  /\ lanes' = [lanes EXCEPT ![Lane(t)].bwd = Tail(@)]
           /\ thr' = [thr EXCEPT ![t].st = IF ok THEN "sent" ELSE "err"]
           /\ slots' = IF ok /\ ~r.mr2
                       THEN [slots EXCEPT ![peer][r.slot] = Overwrite(@, 0, Gathered(t))]
                       ELSE slots
           /\ mem' = IF ok /\ r.mr2
                     THEN [mem EXCEPT ![peer].mr2.data = Overwrite(@, r.at, Gathered(t))]
                     ELSE mem
    /\ UNCHANGED status

SendDone(t) ==
    /\ Runs(t, "send", "sent")
    /\ lanes' = [lanes EXCEPT ![Lane(t)].fwd = Append(@, 0)]
    /\ thr' = [thr EXCEPT ![t].st = "done"]
    /\ UNCHANGED <<slots, mem, status>>

-----------------------------------------------------------------------------
NoMr2 == [len |-> 0, bump |-> 0, data |-> <<>>]

Pages(n) == (n + PageData - 1) \div PageData

\* mr2_try_shrink_idle: an idle MR2 may be dropped before the receive.
Mr2Shrunk(m, idle) == IF idle THEN [m EXCEPT !.mr2 = NoMr2] ELSE m

\* ensure_mr2: one too short is replaced by a fresh, empty one.
EnsureMr2(m, n) ==
    IF m.mr2.len >= n THEN m
    ELSE LET len == Max({n, Mr2Initial})
         IN  [m EXCEPT !.mr2 = [len |-> len, bump |-> 0, data |-> [i \in 1..len |-> Garbage]]]

\* The receive through MR1: a chain of fresh pages is linked into the slot and
\* offered.  The test compares payload bytes, the allocation takes whole pages.
RecvIntoMr1(t, n, m) ==
    LET node == thr[t].node
        bytes == Pages(n) * PageSize
    IN  /\ n <= m.mr1
        /\ mem' = [mem EXCEPT ![node] = [m EXCEPT !.mr1 = Max({0, m.mr1 - bytes})]]
        /\ slots' = [slots EXCEPT ![node][thr[t].slot] = [i \in 1..n |-> Garbage]]
        /\ lanes' = [lanes EXCEPT ![Lane(t)] =
                        [fwd |-> Tail(@.fwd),
                         bwd |-> Append(@.bwd, [mr2 |-> FALSE, slot |-> thr[t].slot, at |-> 0,
                                                inside |-> bytes <= m.mr1])]]
        /\ thr' = [thr EXCEPT ![t].st = "wait", ![t].n = n, ![t].mr2 = FALSE]

\* The bytes already reserved are not counted.
Mr2FitsLength(m2, n) == n <= m2.len

Mr2Fits(m2, n) == m2.bump + n <= m2.len

\* The receive through MR2: reserve or fail; nothing gives reserved bytes back.
RecvIntoMr2(t, n, m) ==
    LET node == thr[t].node
        e == EnsureMr2(m, n)
        fits == Mr2Fits(e.mr2, n)
    IN  /\ n > m.mr1
        /\ mem' = [mem EXCEPT ![node] = IF fits THEN [e EXCEPT !.mr2.bump = @ + n] ELSE e]
        /\ lanes' = [lanes EXCEPT ![Lane(t)] =
                        [fwd |-> Tail(@.fwd),
                         bwd |-> IF fits THEN Append(@.bwd, [mr2 |-> TRUE, slot |-> 0,
                                                   at |-> e.mr2.bump, inside |-> TRUE])
                                 ELSE @.bwd]]
        /\ thr' = [thr EXCEPT ![t].st = IF fits THEN "wait" ELSE "err",
                              ![t].n = n, ![t].at = e.mr2.bump, ![t].mr2 = TRUE]
        /\ UNCHANGED slots

RecvTotal(t) ==
    /\ Runs(t, "recv", "begin")
    /\ lanes[Lane(t)].fwd # <<>>
    /\ \E idle \in BOOLEAN :
          LET n == Head(lanes[Lane(t)].fwd)
              m == Mr2Shrunk(mem[thr[t].node], idle)
          IN  /\ idle => mem[thr[t].node].mr2 # NoMr2
              /\ \/ /\ n = 0
                    /\ mem' = [mem EXCEPT ![thr[t].node] = m]
                    /\ lanes' = [lanes EXCEPT ![Lane(t)].fwd = Tail(@)]
                    /\ thr' = [thr EXCEPT ![t].st = "done"]
                    /\ UNCHANGED slots
                 \/ n > 0 /\ (RecvIntoMr1(t, n, m) \/ RecvIntoMr2(t, n, m))
    /\ UNCHANGED status

\* alloc_and_link_from_buf: MR2 is copied into a chain of new pages.  They are
\* bumped out of MR1 when Python must read them or the free list is empty.
CopyFromMr2(t) ==
    LET node == thr[t].node
        bytes == Pages(thr[t].n) * PageSize
    IN  /\ slots' = [slots EXCEPT ![node][thr[t].slot] =
                         SubSeq(mem[node].mr2.data, thr[t].at + 1, thr[t].at + thr[t].n)]
        /\ \E bumped \in {TRUE, mem[node].py} :
              mem' = IF bumped THEN [mem EXCEPT ![node].mr1 = Max({0, @ - bytes})] ELSE mem

\* The done byte: MR1 pages already hold the data by then.
RecvDone(t) ==
    /\ Runs(t, "recv", "wait")
    /\ lanes[Lane(t)].fwd # <<>>
    /\ IF thr[t].mr2 THEN CopyFromMr2(t) ELSE UNCHANGED <<slots, mem>>
    /\ lanes' = [lanes EXCEPT ![Lane(t)].fwd = Tail(@)]
    /\ thr' = [thr EXCEPT ![t].st = "done"]
    /\ UNCHANGED status

\* A read from a connection the dead peer has closed, once it is drained.
PeerClosed(t) ==
    /\ \/ Runs(t, "send", "reply") /\ lanes[Lane(t)].bwd = <<>>
       \/ (Runs(t, "recv", "begin") \/ Runs(t, "recv", "wait")) /\ lanes[Lane(t)].fwd = <<>>
    /\ ~Up(thr[t].peer)
    /\ thr' = [thr EXCEPT ![t].st = "err"]
    /\ UNCHANGED <<slots, lanes, mem, status>>

Transfer(t) ==
    \/ SendAnnounce(t)
    \/ SendWrite(t)
    \/ SendDone(t)
    \/ RecvTotal(t)
    \/ RecvDone(t)
    \/ PeerClosed(t)
=============================================================================
