----------------------------- MODULE DagRunner -----------------------------
(***************************************************************************)
(* run_dag: the runs, the waves of a run, the processes and threads of a   *)
(* wave, and the reclamation of slots after it.                            *)
(*                                                                         *)
(* A slot is the sequence of the records in its chain; a record is named   *)
(* by the node and the stage that wrote it, the run, and the slot it was   *)
(* written to.                                                             *)
(*                                                                         *)
(* Guest processes (Func) and RDMA threads (Send, Recv) of a wave run      *)
(* concurrently with one another and with the host nodes, which the runner *)
(* executes itself, one after the other.  An Input with prefetch starts a  *)
(* thread of its own.  The thread of a Recv that has a consumer, and of a  *)
(* prefetch, lives until the wave of that consumer.                        *)
(***************************************************************************)
EXTENDS DagTables, SequencesExt

VARIABLES
    run,            \* run_count
    wave,           \* wave_idx, from 1
    step,           \* where run_dag is
    todo,           \* nodes left in the loop it is in
    slot,           \* the records of every slot
    cursor,         \* the named atomics stream_cursor_N and io_cursor_N
    status,         \* of the process or thread of a node
    prefetching,    \* prefetch_handles
    pending,        \* pending_recv
    refcount,       \* slot_refcounts
    inputLeft,      \* input_dep_remaining
    recvLeft,       \* remote_recv_dep_remaining
    chunksLeft,     \* chunks of every chunked input not loaded yet
    got,            \* history: what each stage read in this run
    made,           \* history: every record written
    freed,          \* history: records whose pages went to a free list
    freedAgain      \* history: some page was freed while on a free list

memory == <<slot, cursor, got, made, freed, freedAgain>>
counts == <<refcount, inputLeft, recvLeft>>
threads == <<status, prefetching, pending>>
runVars == <<run, wave, step, todo, memory, threads, counts, chunksLeft>>
vars == <<planVars, runVars>>

(***************************************************************************)
(* Slots                                                                   *)
(***************************************************************************)

Records(S) == UNION {Range(slot[s]) : s \in S}

(* free_stream_slot or free_io_slot on every slot of S, one after the      *)
(* other: each chain is detached and its pages pushed to the free lists.   *)
(* The slots of C are cleared first, their pages left alone.               *)
FreeAndClear(S, C) ==
    LET F == S \ C IN
    /\ slot' = [s \in Slots |-> IF s \in F \union C THEN <<>> ELSE slot[s]]
    /\ freed' = freed \union Records(F)
    /\ freedAgain' = (\/ freedAgain
                      \/ Records(F) \intersect freed # {}
                      \/ \E s, t \in F : s # t /\ Range(slot[s]) \intersect Range(slot[t]) # {})

(* What stage i of node n reads when the slots are m.slot: the record at   *)
(* the cursor, if there is one, or all records.                            *)
ReadBy(n, i, m) ==
    IF dag.nodes[n].next
    THEN LET s == CHOOSE x \in Stages(n)[i].in : TRUE
         IN  IF m.cursor[s] < Len(m.slot[s]) THEN <<m.slot[s][m.cursor[s] + 1]>> ELSE <<>>
    ELSE LET ins == SetToSeq(Stages(n)[i].in)
         IN  FoldLeft(LAMBDA read, s : read \o m.slot[s], <<>>, ins)

(* Stage i of node n reads: its cursor moves on.                           *)
ReadStage(n, i, m) ==
    LET read == ReadBy(n, i, m)
        moved == IF dag.nodes[n].next THEN Stages(n)[i].in ELSE {}
    IN  [m EXCEPT !.got[n][i] = read,
                  !.cursor = [s \in Slots |-> IF s \in moved THEN @[s] + Len(read) ELSE @[s]]]

(* Stage i of node n appends a record to each of its output slots; a stage *)
(* that reads at the cursor and found nothing returns at once.             *)
WriteStage(n, i, m) ==
    LET idle == dag.nodes[n].next /\ m.got[n][i] = <<>>
        out == IF idle THEN {} ELSE Stages(n)[i].out
    IN  [m EXCEPT !.slot = [s \in Slots |-> IF s \in out THEN Append(m.slot[s], <<n, i, run, s>>)
                                            ELSE m.slot[s]],
                  !.made = @ \union {<<n, i, run, s>> : s \in out}]

Memory == [slot |-> slot, cursor |-> cursor, got |-> got, made |-> made]
SetMemory(m) == slot' = m.slot /\ cursor' = m.cursor /\ got' = m.got /\ made' = m.made

AllStages(n) ==
    FoldLeft(LAMBDA m, i : WriteStage(n, i, ReadStage(n, i, m)), Memory,
             [i \in DOMAIN Stages(n) |-> i])

(* A routing node links chains to chains (module Routing has the steps); a *)
(* bridge from a slot with records replaces what the other slot held.      *)
Move(n, m, k) ==
    LET from == dag.nodes[n].moves[k][1]
        to == dag.nodes[n].moves[k][2]
    IN  IF Kind(n) = "Bridge" /\ m[from] # <<>> THEN [m EXCEPT ![to] = m[from]]
        ELSE [m EXCEPT ![to] = @ \o m[from]]

(* A mutant: the last upstream of a routing node is left out.              *)
RouteButLast(n) ==
    FoldLeft(LAMBDA m, k : Move(n, m, k), slot, [k \in 1..(Len(dag.nodes[n].moves) - 1) |-> k])

Route(n) ==
    FoldLeft(LAMBDA m, k : Move(n, m, k), slot, [k \in DOMAIN dag.nodes[n].moves |-> k])

(***************************************************************************)
(* The processes and threads of a wave                                     *)
(***************************************************************************)

(* Threads end with the runner; guests are processes of their own.         *)
Alive(n) == step # "error" \/ Kind(n) = "Func"

(* A guest, or the thread of a RemoteSend, has read its slots.             *)
Read(n) ==
    /\ Alive(n) /\ status[n] = "running" /\ Kind(n) \in {"Func", "Send"}
    /\ SetMemory(ReadStage(n, 1, Memory))
    /\ status' = [status EXCEPT ![n] = "read"]
    /\ UNCHANGED <<planVars, run, wave, step, todo, freed, freedAgain, prefetching, pending,
                   counts, chunksLeft>>

(* It writes what it has to write, and ends.  The threads of a RemoteRecv  *)
(* and of a prefetch only write.                                           *)
Write(n) ==
    /\ Alive(n)
    /\ status[n] = (IF Kind(n) \in {"Func", "Send"} THEN "read" ELSE "running")
    /\ SetMemory(WriteStage(n, 1, Memory))
    /\ status' = [status EXCEPT ![n] = "ended"]
    /\ UNCHANGED <<planVars, run, wave, step, todo, freed, freedAgain, prefetching, pending,
                   counts, chunksLeft>>

(* A guest traps or a transfer fails.                                      *)
Fail(n) ==
    /\ Alive(n) /\ status[n] \in {"running", "read"}
    /\ status' = [status EXCEPT ![n] = "failed"]
    /\ UNCHANGED <<planVars, run, wave, step, todo, memory, prefetching, pending, counts, chunksLeft>>

(***************************************************************************)
(* run_dag                                                                 *)
(***************************************************************************)

(* No stage has read anything yet; no slot ever holds an empty record.     *)
Unread == << <<>> >>

Init ==
    /\ PlanInit
    /\ run = 0 /\ wave = 0 /\ step = "begin" /\ todo = <<>>
    /\ slot = [s \in Slots |-> <<>>]
    /\ cursor = [s \in Slots |-> 0]
    /\ status = [n \in Nodes |-> "none"]
    /\ prefetching = {} /\ pending = {}
    /\ refcount = SlotRefcounts /\ inputLeft = InputDepCounts /\ recvLeft = RecvDepCounts
    /\ chunksLeft = [n \in {m \in Nodes : Kind(m) = "Chunk"} |-> dag.chunks]
    /\ got = [n \in Nodes |-> [i \in DOMAIN Stages(n) |-> Unread]]
    /\ made = {} /\ freed = {} /\ freedAgain = FALSE

(* run_dag plans first; a DAG that is refused ends it.                     *)
PlanDag == PlanNext /\ UNCHANGED runVars

(* The per-run state is rebuilt.                                           *)
BeginRun ==
    /\ phase = "ready" /\ step = "begin"
    /\ run' = run + 1
    /\ refcount' = SlotRefcounts /\ inputLeft' = InputDepCounts /\ recvLeft' = RecvDepCounts
    /\ status' = [n \in Nodes |-> "none"]
    /\ got' = [n \in Nodes |-> [i \in DOMAIN Stages(n) |-> Unread]]
    /\ step' = "load"
    /\ UNCHANGED <<planVars, wave, todo, slot, cursor, made, freed, freedAgain,
                   prefetching, pending, chunksLeft>>

(* The threads that nodes of wave w wait for.                              *)
Awaited(w) == Ascending((prefetching \union pending) \intersect Needed(w))

(* The next chunk of every chunked input goes to its slot.                 *)
LoadChunks ==
    /\ step = "load"
    /\ LET chunked == {n \in DOMAIN chunksLeft : chunksLeft[n] > 0} IN
       /\ SetMemory(FoldLeft(LAMBDA m, n : WriteStage(n, 1, m), Memory, Ascending(chunked)))
       /\ chunksLeft' = [n \in DOMAIN chunksLeft |->
                           IF n \in chunked THEN chunksLeft[n] - 1 ELSE 0]
    /\ wave' = 1 /\ step' = "prejoin" /\ todo' = Awaited(1)
    /\ UNCHANGED <<planVars, run, freed, freedAgain, threads, counts>>

(* A join returns: run_dag goes on, or gives up with the error.            *)
Joined ==
    /\ todo # <<>>
    /\ \/ /\ status[Head(todo)] = "ended"
          /\ todo' = Tail(todo) /\ UNCHANGED step
       \/ /\ status[Head(todo)] = "failed"
          /\ todo' = <<>> /\ step' = "error"

(* Prefetches and deferred receives that this wave needs are joined.       *)
PreJoin ==
    /\ step = "prejoin" /\ Joined
    /\ prefetching' = prefetching \ {Head(todo)}
    /\ pending' = pending \ {Head(todo)}
    /\ UNCHANGED <<planVars, run, wave, memory, status, counts, chunksLeft>>

Start(S) ==
    /\ step = "prejoin" /\ todo = <<>>
    /\ status' = [n \in Nodes |-> IF n \in S THEN "running" ELSE status[n]]
    /\ step' = "serial" /\ todo' = InWave(wave, {n \in Nodes : IsSerial(n)})
    /\ UNCHANGED <<planVars, run, wave, memory, prefetching, pending, counts, chunksLeft>>

(* A mutant: receives are not started before the host nodes have run.      *)
SpawnNoRecv == Start({n \in Range(waves[wave]) : IsFunc(n) \/ Kind(n) = "Send"})

(* The guests of the wave are spawned, and its RDMA threads.               *)
Spawn == Start({n \in Range(waves[wave]) : IsFunc(n) \/ IsThread(n)})

(***************************************************************************)
(* execute_node for the host nodes                                         *)
(***************************************************************************)

Execute(n) == step = "serial" /\ todo # <<>> /\ n = Head(todo) /\ todo' = Tail(todo)

ExecuteStages(n) ==
    /\ Execute(n) /\ Kind(n) \in {"Input", "Output", "Persist", "Group", "Pipeline"}
    /\ SetMemory(AllStages(n))
    /\ UNCHANGED <<planVars, run, wave, step, freed, freedAgain, threads, counts, chunksLeft>>

(* A chunked input was loaded before the waves.                            *)
ExecuteChunk(n) ==
    /\ Execute(n) /\ Kind(n) = "Chunk"
    /\ UNCHANGED <<planVars, run, wave, step, memory, threads, counts, chunksLeft>>

ExecutePrefetch(n) ==
    /\ Execute(n) /\ Kind(n) = "Prefetch"
    /\ status' = [status EXCEPT ![n] = "running"]
    /\ prefetching' = prefetching \union {n}
    /\ UNCHANGED <<planVars, run, wave, step, memory, pending, counts, chunksLeft>>

ExecuteRoute(n) ==
    /\ Execute(n) /\ Kind(n) \in {"Bridge", "Route"}
    /\ slot' = Route(n)
    /\ UNCHANGED <<planVars, run, wave, step, cursor, got, made, freed, freedAgain,
                   threads, counts, chunksLeft>>

Release(n) ==
    /\ Execute(n) /\ Kind(n) = "Free"
    /\ FreeAndClear(dag.nodes[n].frees, {})
    /\ UNCHANGED <<planVars, run, wave, step, got, made, threads, counts, chunksLeft>>

(* A mutant: the cursors keep counting from the last run.                  *)
ExecuteFreeNoCursor(n) == Release(n) /\ UNCHANGED cursor

(* FreeSlots frees and sets the cursors back.                              *)
ExecuteFree(n) ==
    /\ Release(n)
    /\ cursor' = [s \in Slots |-> IF s \in dag.nodes[n].frees THEN 0 ELSE cursor[s]]

(* What the runner does itself may fail: it returns the error at once, and *)
(* joins nobody.                                                           *)
RunnerFails ==
    /\ \/ step = "load" /\ DOMAIN chunksLeft # {}
       \/ step = "prejoin" /\ todo = <<>> /\ \E n \in Range(waves[wave]) : ~ IsSerial(n)
       \/ /\ step = "serial" /\ todo # <<>>
          /\ Kind(Head(todo)) \in {"Input", "Output", "Group", "Pipeline"}
       \/ step = "join" /\ todo = <<>>
    /\ step' = "error" /\ todo' = <<>>
    /\ UNCHANGED <<planVars, run, wave, memory, threads, counts, chunksLeft>>

(***************************************************************************)
(* The end of a wave                                                       *)
(***************************************************************************)

Defer(S) ==
    /\ step = "serial" /\ todo = <<>>
    /\ pending' = pending \union S
    /\ step' = "join"
    /\ todo' = InWave(wave, {n \in Nodes : IsThread(n)} \ S) \o InWave(wave, {n \in Nodes : IsFunc(n)})
    /\ UNCHANGED <<planVars, run, wave, memory, status, prefetching, counts, chunksLeft>>

(* A mutant: sends are deferred like receives.                             *)
DeferAll == Defer({n \in Range(waves[wave]) : IsThread(n)})

(* The join of a receive that has a consumer is put off to its wave.       *)
DeferReceives == Defer({n \in Range(waves[wave]) : HasConsumer(n)})

(* The RDMA threads of the wave are joined, then its guests.               *)
Join ==
    /\ step = "join" /\ Joined
    /\ UNCHANGED <<planVars, run, wave, memory, threads, counts, chunksLeft>>

BeginReclaim ==
    /\ step = "join" /\ todo = <<>>
    /\ step' = "reclaim" /\ todo' = waves[wave]
    /\ UNCHANGED <<planVars, run, wave, memory, threads, counts, chunksLeft>>

(* The dependencies whose count n brings to zero.                          *)
LastOf(f, n) == {d \in Deps(n) \intersect DOMAIN f : f[d] = 1}

(* The slots freed on account of node n.                                   *)
Reclaimed(n) ==
    UNION {{s \in OwnedSlots(n) : refcount[s] = 1 /\ s \notin dag.persist},
           InternalSlots(n),
           IF IsInput(n) /\ Users(n) = {} THEN Outs(n) ELSE {},
           UNION {Outs(d) : d \in LastOf(inputLeft, n) \union LastOf(recvLeft, n)},
           IF Kind(n) = "Recv" /\ ~ HasConsumer(n) THEN Outs(n) ELSE {}}

ReclaimWith(n, free, clear) ==
    /\ step = "reclaim" /\ todo # <<>> /\ n = Head(todo)
    /\ todo' = Tail(todo)
    /\ FreeAndClear(free, clear)
    /\ refcount' = [s \in Slots |-> refcount[s] - (IF s \in OwnedSlots(n) THEN 1 ELSE 0)]
    /\ inputLeft' = [d \in DOMAIN inputLeft |-> inputLeft[d] - (IF d \in Deps(n) THEN 1 ELSE 0)]
    /\ recvLeft' = [d \in DOMAIN recvLeft |-> recvLeft[d] - (IF d \in Deps(n) THEN 1 ELSE 0)]
    /\ UNCHANGED <<planVars, run, wave, step, cursor, got, made, threads, chunksLeft>>

(* A mutant: the upstreams of a routing node are freed, not cleared.       *)
ReclaimRouted(n) == ReclaimWith(n, Reclaimed(n) \union RoutedUpstream(n), {})

(* The upstreams of a routing node are cleared; slots whose last reader    *)
(* was n are freed.                                                        *)
Reclaim(n) == ReclaimWith(n, Reclaimed(n), RoutedUpstream(n))

Advance(left) ==
    /\ step = "reclaim" /\ todo = <<>>
    /\ IF wave < Len(waves)
       THEN wave' = wave + 1 /\ step' = "prejoin" /\ todo' = Awaited(wave + 1)
       ELSE step' = "drain" /\ todo' = left /\ UNCHANGED wave
    /\ UNCHANGED <<planVars, run, memory, threads, counts, chunksLeft>>

(* A mutant: the run ends without a look at the threads still at work.     *)
EndWaveNoDrain == Advance(<<>>)

EndWave == Advance(Ascending(prefetching) \o Ascending(pending))

(* Threads nobody waited for are joined; a failed prefetch only warns.     *)
Drain ==
    /\ step = "drain" /\ todo # <<>>
    /\ IF Head(todo) \in pending THEN Joined
       ELSE status[Head(todo)] \in {"ended", "failed"} /\ todo' = Tail(todo) /\ UNCHANGED step
    /\ prefetching' = prefetching \ {Head(todo)}
    /\ pending' = pending \ {Head(todo)}
    /\ UNCHANGED <<planVars, run, wave, memory, status, counts, chunksLeft>>

Return(free, next) ==
    /\ step = "drain" /\ todo = <<>>
    /\ FreeAndClear(free, {})
    /\ step' = next
    /\ UNCHANGED <<planVars, run, wave, todo, cursor, got, made, threads, counts, chunksLeft>>

(* Chunked inputs drive the loop, whatever the mode: between two chunks    *)
(* every slot is freed but the accumulators (free_all_transient).          *)
EndChunkRun ==
    /\ DOMAIN chunksLeft # {}
    /\ IF \A n \in DOMAIN chunksLeft : chunksLeft[n] = 0 THEN Return({}, "done")
       ELSE Return(Slots \ dag.persist, "begin")

EndRun ==
    /\ DOMAIN chunksLeft = {}
    /\ Return({}, IF dag.mode = "OneShot" \/ run >= dag.runs THEN "done" ELSE "begin")

Returned == phase = "error" \/ step \in {"done", "error"}

Next ==
    \/ PlanDag \/ BeginRun \/ LoadChunks \/ PreJoin \/ Spawn
    \/ \E n \in Nodes : \/ ExecuteStages(n) \/ ExecuteChunk(n) \/ ExecutePrefetch(n)
                        \/ ExecuteRoute(n) \/ ExecuteFree(n)
                        \/ Reclaim(n)
                        \/ Read(n) \/ Write(n) \/ Fail(n)
    \/ DeferReceives \/ Join \/ BeginReclaim \/ EndWave \/ Drain \/ RunnerFails
    \/ EndChunkRun \/ EndRun

(* Every process and thread goes on, and a transfer that was started ends. *)
Spec == Init /\ [][Next]_vars /\ WF_vars(Next)

(***************************************************************************)
(* Properties                                                              *)
(***************************************************************************)

(* The runner's tables keep their shape and its counters never go below    *)
(* zero; only prefetches have handles, and only receives with a consumer   *)
(* are put off.                                                            *)
TypeOK ==
    /\ step \in {"begin", "load", "prejoin", "serial", "join", "reclaim", "drain", "done", "error"}
    /\ wave \in 0..Len(waves) /\ run \in Nat
    /\ Range(todo) \subseteq Nodes
    /\ status \in [Nodes -> {"none", "running", "read", "ended", "failed"}]
    /\ prefetching \subseteq {n \in Nodes : Kind(n) = "Prefetch"}
    /\ pending \subseteq {n \in Nodes : HasConsumer(n)}
    /\ refcount \in [Slots -> Nat]
    /\ inputLeft \in [DOMAIN InputDepCounts -> Nat]
    /\ recvLeft \in [DOMAIN RecvDepCounts -> Nat]

AllMoves == UNION {Range(dag.nodes[n].moves) : n \in Nodes}

(* The slots whose records routing nodes bring to slot s.                  *)
Sources(s) ==
    LET back[k \in 0..Cardinality(Nodes)] ==
          IF k = 0 THEN {s}
          ELSE back[k - 1] \union {mv[1] : mv \in {x \in AllMoves : x[2] \in back[k - 1]}}
    IN  back[Cardinality(Nodes)]

Writers(s) == UNION {{<<n, i>> : i \in {j \in DOMAIN Stages(n) : s \in Stages(n)[j].out}} : n \in Nodes}

(* What slot s holds for a reader when the DAG does what it says: what the *)
(* writers of its sources wrote in this run, and for an accumulator in     *)
(* every run so far.                                                       *)
Due(s) ==
    LET runs == IF s \in dag.persist THEN 1..run ELSE {run}
    IN  UNION {{<<w[1], w[2], r, t>> : w \in Writers(t), r \in runs} : t \in Sources(s)}

(* Dataflow: every stage of every node reads exactly the records that its  *)
(* producers wrote in this run, each once: none was freed or lost before   *)
(* the wave of the reader, none is left over from an earlier run or chunk. *)
(* This is what the pre-join of prefetches and receives, the counters of   *)
(* readers and the freeing between runs are for.                           *)
ReadsItsProducers ==
    \A n \in Nodes : \A i \in DOMAIN Stages(n) :
        got[n][i] # Unread =>
            LET due == UNION {Due(s) : s \in Stages(n)[i].in}
            IN  Range(got[n][i]) = due /\ Len(got[n][i]) = Cardinality(due)

(* The nodes of this run that reclamation has not come to.                 *)
Unreclaimed == {n \in Nodes : level[n] >= wave} \union Range(todo)

(* When a node is reclaimed, the counters say whether it is the last of    *)
(* those that own a slot, or use an input or a receive: slots are freed    *)
(* neither while somebody is to read them nor later than they can be.      *)
LastReader ==
    step = "reclaim" /\ todo # <<>> =>
        LET n == Head(todo) IN
        /\ \A s \in Slots : s \in OwnedSlots(n) =>
             (refcount[s] = 1 <=> {m \in Unreclaimed : s \in OwnedSlots(m)} = {n})
        /\ \A d \in Deps(n) \intersect DOMAIN inputLeft :
             inputLeft[d] = 1 <=> Users(d) \intersect Unreclaimed = {n}
        /\ \A d \in Deps(n) \intersect DOMAIN recvLeft :
             recvLeft[d] = 1 <=> Users(d) \intersect Unreclaimed = {n}

(* No page is pushed to a free list twice, by two nodes that both count    *)
(* themselves the last reader or by a node and free_all_transient; and no  *)
(* slot refers to a page that was given back: clear_stream_slot for the    *)
(* upstreams of routing nodes, and the counts of readers, see to it that   *)
(* reclamation after a wave leaves no dangling chain.  While a guest or a  *)
(* send is at work, the pages it reads stay off the free lists: threads    *)
(* are joined before reclamation.  And it is the last reader that frees.   *)
FreedOnce ==
    /\ ~ freedAgain
    /\ Records(Slots) \intersect freed = {}
    /\ \A n \in Nodes :
         status[n] = "read" /\ step # "error" => Range(got[n][1]) \intersect freed = {}
    /\ LastReader

(* Every page ever written is in a slot or on a free list: nothing leaks   *)
(* when chains are moved, cleared and freed.  And a slot holds only        *)
(* records that somebody wrote.                                            *)
NothingLost ==
    /\ made \subseteq freed \union Records(Slots)
    /\ Records(Slots) \subseteq made

(* A new run finds every slot empty but the accumulators, and the cursors  *)
(* of the slots its nodes read by cursor at zero.                          *)
SlotsApart ==
    /\ cursor \in [Slots -> Nat]
    /\ step = "begin" =>
         /\ \A s \in Slots \ dag.persist : slot[s] = <<>>
         /\ \A n \in Nodes : dag.nodes[n].next => \A s \in Ins(n) : cursor[s] = 0

(* A process or thread that has not come to an end.                        *)
AtWork(n) == status[n] \in {"running", "read"}

(* Guests and threads are joined in time, whatever the DAG.  None is at    *)
(* work when the next run begins or run_dag returns, and none that reads   *)
(* slots while they are reclaimed.  While a wave runs, everything that its *)
(* nodes depend on has ended, without an error.  No receive is left for    *)
(* the drain: those that were deferred have been joined at the wave of     *)
(* their consumer.  And run_dag waits for nothing that was never started.  *)
ThreadsJoined ==
    /\ step \in {"begin", "done"} => \A n \in Nodes : ~ AtWork(n)
    /\ step \in {"reclaim", "drain"} =>
         \A n \in Nodes : Kind(n) \in {"Func", "Send"} => ~ AtWork(n)
    /\ step \in {"serial", "join", "reclaim"} =>
         \A n \in Range(waves[wave]) : \A d \in Deps(n) : Concurrent(d) => status[d] = "ended"
    /\ step = "drain" => pending = {}
    /\ step \in {"prejoin", "join", "drain"} => \A n \in Range(todo) : status[n] # "none"

(* Runs do not reach into one another, nor waves: what run_dag frees,      *)
(* resets and joins at the end of each leaves nothing behind.              *)
RunsApart == SlotsApart /\ ThreadsJoined

(* The slots between the stages of a pipeline are free when a run has      *)
(* ended: "free all intermediate output slots" (mod.rs).                   *)
IntermediatesFreed ==
    step = "drain" =>
        \A n \in Nodes : Kind(n) = "Pipeline" =>
            \A i \in 1..(Len(Stages(n)) - 1) : \A s \in Stages(n)[i].out : slot[s] = <<>>

(* run_dag returns: no join waits for a thread that was never started.     *)
Returns == <>Returned
=============================================================================
