--------------------------- MODULE StreamPipeline ---------------------------
(***************************************************************************)
(* StreamPipeline, PyPipeline and StreamOutput nodes on the nodes of a     *)
(* mesh.  A pipeline of depth D runs rounds + D - 1 ticks; on tick t stage *)
(* s works on round t - s, all active stages at once, each in persistent   *)
(* workers that append to shared slots record by record.  A receive is     *)
(* prefetched and a send runs behind the next tick, double-buffered.  What *)
(* keeps a round's records together is a cursor and a watermark per slot.  *)
(***************************************************************************)
EXTENDS RemoteTransfer

CONSTANTS Scenes,         \* the deployments Init chooses from
          MaxStageWidth,  \* MAX_STAGE_WIDTH
          SubSlotBase,    \* SUB_SLOT_BASE
          SubSlotHalf,    \* the input half of the sub-slot band
          ScaleTarget,    \* SCALE_TARGET, records per worker and tick
          EmaUnit         \* fixed-point unit of the load average

VARIABLES sc,    \* the scene: pipelines, sink, batches, memory, faults
          cur,   \* node -> slot -> pipe_cursor_{slot}
          hi,    \* node -> slot -> stream_hi_{slot}, 0 when unset
          pl,    \* pipeline -> the state of its executor loop
          wk,    \* pipeline -> <<stage, worker>> -> a loop worker
          out    \* the StreamOutput node: round, write queue, files

vars == <<transferVars, sc, cur, hi, pl, wk, out>>

Pipes == DOMAIN sc.pipes
P(p) == sc.pipes[p]
N(p) == P(p).node
Depth(p) == Len(P(p).stages)
Stage(p, s) == P(p).stages[s]

-----------------------------------------------------------------------------
\* What the stages compute, on records r * 10 + item, r from 1.

\* pipeline_source and pipeline_source_var: the batch of a round.
Batch(r) == [i \in 1..sc.batch[r + 1] |-> 10 * (r + 1) + i - 1]

EvenItem(rec) == rec % 2 = 0

\* pipeline_filter, pipeline_transform, pipeline_sink and pipeline_io_sink.
Applied(kind, recs) ==
    CASE kind = "filter" -> SelectSeq(recs, EvenItem)
      [] kind = "transform" -> [i \in DOMAIN recs |-> recs[i] + 100]
      [] kind = "sink" -> IF recs = <<>> THEN <<>> ELSE <<FoldLeft(+, 0, recs)>>

\* Scaling: one step toward the width the averaged load asks for.
Load(p, s) == Max({0, Len(slots[N(p)][Stage(p, s).in]) - pl[p].prev[s]})

Ema(p, s) ==
    IF pl[p].tick = s - 1 THEN EmaUnit * Load(p, s)
    ELSE (pl[p].ema[s] + EmaUnit * Load(p, s)) \div 2

DesiredWidth(ema, floor, max) ==
    LET want == (ema + EmaUnit * ScaleTarget - 1) \div (EmaUnit * ScaleTarget)
    IN  Min({Max({want, floor, 1}), max})

Dynamic(p, s) == Stage(p, s).max > Stage(p, s).width

NextWidth(p, s) ==
    LET want == DesiredWidth(Ema(p, s), Stage(p, s).width, Stage(p, s).max)
        now == pl[p].width[s]
    IN  IF ~Dynamic(p, s) THEN now
        ELSE IF want > now THEN now + 1
        ELSE IF want < now THEN now - 1 ELSE now

-----------------------------------------------------------------------------
\* The schedule of a tick.
Round(p, s) == pl[p].tick - (s - 1)

Active(p) == {s \in 1..Depth(p) : Round(p, s) \in 0..P(p).rounds - 1}

\* One buffer for every round.
BufSlotSingle(p) == IF Round(p, Depth(p)) >= 0 /\ P(p).send # 0 /\ P(p).free THEN P(p).send ELSE 0

BufSlot(p) ==
    IF Round(p, Depth(p)) >= 0 /\ P(p).send # 0 /\ P(p).free
    THEN P(p).send + (Round(p, Depth(p)) % 2) ELSE 0

Arg1(p, s) ==
    IF s = Depth(p) /\ BufSlot(p) # 0 THEN BufSlot(p)
    ELSE IF Stage(p, s).out # 0 THEN Stage(p, s).out ELSE Round(p, s)

\* The private slots of a widened stage's workers (stages from 1, workers from 0).
SubIn(s, k) == SubSlotBase + (s - 1) * MaxStageWidth + k
SubOut(s, k) == SubIn(s, k) + SubSlotHalf

SpawnWidth(p, s) == Max({Stage(p, s).width, Stage(p, s).max})

FitsBand(p) ==
    LET w == Max({SpawnWidth(p, s) : s \in 1..Depth(p)})
    IN  w > 1 => w <= MaxStageWidth /\ Depth(p) * MaxStageWidth <= SubSlotHalf

\* Record j of the window goes to worker j % w.
Shard(window, k, w) ==
    [j \in 1..(Len(window) + w - 1 - k) \div w |-> window[(j - 1) * w + k + 1]]

\* Worker 0 record 0, worker 1 record 0, ... skipping the exhausted ones.
RoundRobin(outs, w) ==
    LET longest == Max({Len(outs[k]) : k \in 0..w - 1})
        at == [i \in 1..longest * w |-> <<(i - 1) % w, (i - 1) \div w + 1>>]
        held(x) == x[2] <= Len(outs[x[1]])
        picked == SelectSeq(at, held)
    IN  [i \in DOMAIN picked |-> outs[picked[i][1]][picked[i][2]]]

-----------------------------------------------------------------------------
\* Process ends.  A failed node's threads and workers die with it.
Fail(n) == status' = [status EXCEPT ![n] = "failed"]

Pc(p, pc) == pl[p].pc = pc /\ Up(N(p))
Goto(p, pc) == pl' = [pl EXCEPT ![p].pc = pc]

\* The cursor and the watermark of every input slot start at 0.
ResetWindows(p) ==
    LET ins == {Stage(p, s).in : s \in 1..Depth(p)}
        Reset(a) == [a EXCEPT ![N(p)] = [sl \in Slots |-> IF sl \in ins THEN 0 ELSE @[sl]]]
    IN  cur' = Reset(cur) /\ hi' = Reset(hi)

\* Refuse widths that leave the sub-slot band, else spawn the workers.
Launch(p) ==
    /\ Pc(p, "launch") /\ ~P(p).py
    /\ \/ FitsBand(p) /\ Goto(p, "recv") /\ ResetWindows(p) /\ UNCHANGED status
       \/ ~FitsBand(p) /\ Fail(N(p)) /\ UNCHANGED <<pl, cur, hi>>
    /\ UNCHANGED <<slots, thr, lanes, mem, sc, wk, out>>

PyLaunch(p) ==
    /\ Pc(p, "launch") /\ P(p).py
    /\ Goto(p, "recv")
    /\ ResetWindows(p)
    /\ UNCHANGED <<transferVars, sc, wk, out>>

RecvThread(p) == <<p, "recv">>
SendThread(p) == <<p, "send">>

\* The round's input: round 0 is received here, the others were prefetched.
AwaitRecv(p) ==
    LET t == RecvThread(p)
        wanted == pl[p].tick < P(p).rounds /\ P(p).recv # 0
    IN  /\ Pc(p, "recv")
        /\ \/ /\ wanted /\ thr[t].st = "idle"
              /\ thr' = Begin(t, P(p).recv)
              /\ UNCHANGED <<pl, status>>
           \/ /\ wanted /\ thr[t].st = "done"
              /\ thr' = [thr EXCEPT ![t].st = "idle"]
              /\ Goto(p, "scatter")
              /\ UNCHANGED status
           \/ /\ wanted /\ thr[t].st = "err"
              /\ Fail(N(p))
              /\ UNCHANGED <<pl, thr>>
           \/ /\ ~wanted
              /\ Goto(p, "scatter")
              /\ UNCHANGED <<thr, status>>
        /\ UNCHANGED <<slots, lanes, mem, sc, cur, hi, wk, out>>

Idle == [st |-> "idle", in |-> 0, out |-> 0, end |-> 0, got |-> <<>>, todo |-> <<>>]

Command(in, to) == [Idle EXCEPT !.st = "cmd", !.in = in, !.out = to]

\* The watermark is published before any worker of the tick runs, +1 for "set".
Watermark(n, sl) == Len(slots[n][sl]) + 1

Unread(n, sl) == SubSeq(slots[n][sl], cur[n][sl] + 1, Len(slots[n][sl]))

\* Load, scaling, watermark or scatter, and the commands.  All workers are idle
\* from the previous gather, so the host's steps are one.
Scatter(p) ==
    LET n == N(p)
        w == [s \in 1..Depth(p) |-> IF s \in Active(p) THEN NextWidth(p, s) ELSE pl[p].width[s]]
        narrow == {Stage(p, s).in : s \in {x \in Active(p) : w[x] = 1}}
        wide == {s \in Active(p) : w[s] > 1}
        shards == UNION {{<<SubIn(s, k), Shard(Unread(n, Stage(p, s).in), k, w[s])>> :
                             k \in 0..w[s] - 1} : s \in wide}
        subOuts == UNION {{SubOut(s, k) : k \in 0..w[s] - 1} : s \in wide}
        ShardOf(sl) == (CHOOSE x \in shards : x[1] = sl)[2]
        isIn(sl) == \E x \in shards : x[1] = sl
    IN  /\ Pc(p, "scatter") /\ ~P(p).py
        /\ slots' = [slots EXCEPT ![n] = [sl \in Slots |->
                        IF isIn(sl) THEN ShardOf(sl) ELSE IF sl \in subOuts THEN <<>> ELSE @[sl]]]
        /\ hi' = [hi EXCEPT ![n] = [sl \in Slots |->
                        IF isIn(sl) THEN Len(ShardOf(sl)) + 1
                        ELSE IF sl \in narrow THEN Watermark(n, sl) ELSE @[sl]]]
        /\ cur' = [cur EXCEPT ![n] = [sl \in Slots |->
                        IF isIn(sl) THEN 0
                        ELSE IF \E s \in wide : Stage(p, s).in = sl THEN Len(slots[n][sl])
                        ELSE @[sl]]]
        /\ pl' = [pl EXCEPT ![p] = [@ EXCEPT !.pc = "gather", !.width = w,
                        !.ema = [s \in 1..Depth(p) |-> IF s \in Active(p) /\ Dynamic(p, s)
                                    THEN Ema(p, s) ELSE @[s]],
                        !.prev = [s \in 1..Depth(p) |-> IF s \in Active(p)
                                     THEN Len(slots[n][Stage(p, s).in]) ELSE @[s]]]]
        /\ wk' = [wk EXCEPT ![p] = [x \in DOMAIN @ |->
                        IF x[1] \notin Active(p) \/ x[2] >= w[x[1]] THEN @[x]
                        ELSE IF x[1] \in wide THEN Command(SubIn(x[1], x[2]), SubOut(x[1], x[2]))
                        ELSE Command(Stage(p, x[1]).in, Arg1(p, x[1]))]]
        /\ UNCHANGED <<thr, lanes, mem, status, sc, out>>

\* The Python loop has one worker per stage: watermarks, then the calls.
PyScatter(p) ==
    /\ Pc(p, "scatter") /\ P(p).py
    /\ hi' = [hi EXCEPT ![N(p)] = [sl \in Slots |->
                 IF \E s \in Active(p) : Stage(p, s).in = sl THEN Watermark(N(p), sl) ELSE @[sl]]]
    /\ wk' = [wk EXCEPT ![p] = [x \in DOMAIN @ |->
                 IF x[1] \in Active(p) THEN Command(Stage(p, x[1]).in, Arg1(p, x[1])) ELSE @[x]]]
    /\ Goto(p, "gather")
    /\ UNCHANGED <<slots, thr, lanes, mem, status, sc, cur, out>>

-----------------------------------------------------------------------------
\* The loop workers.  A command runs one guest call: read the window, append the
\* results one by one, store the cursor, answer.
Working(p, x, st) == wk[p][x].st = st /\ Up(N(p))

\* The watermark is forgotten.
ReadWindowUnbounded(n, sl) == [from |-> Min({cur[n][sl], Len(slots[n][sl])}), end |-> Len(slots[n][sl])]

\* pipe_read_window: from the cursor to the watermark, or to the end when unset.
ReadWindow(n, sl) ==
    LET total == Len(slots[n][sl])
        end == IF hi[n][sl] = 0 THEN total ELSE Min({hi[n][sl] - 1, total})
    IN  [from |-> Min({cur[n][sl], end}), end |-> end]

WorkerRead(p, x) ==
    LET w == wk[p][x]
        win == ReadWindow(N(p), w.in)
        got == SubSeq(slots[N(p)][w.in], win.from + 1, win.end)
        kind == Stage(p, x[1]).kind
    IN  /\ Working(p, x, "cmd")
        /\ wk' = [wk EXCEPT ![p][x] =
                    IF kind = "source"
                    THEN [w EXCEPT !.st = "emit", !.out = w.in, !.todo = Batch(w.out)]
                    ELSE [w EXCEPT !.st = "emit", !.end = win.end, !.got = got,
                                   !.todo = Applied(kind, got)]]
        /\ UNCHANGED <<transferVars, sc, cur, hi, pl, out>>

WorkerAppend(p, x) ==
    /\ Working(p, x, "emit")
    /\ wk[p][x].todo # <<>>
    /\ slots' = [slots EXCEPT ![N(p)][wk[p][x].out] = Append(@, Head(wk[p][x].todo))]
    /\ wk' = [wk EXCEPT ![p][x].todo = Tail(@)]
    /\ UNCHANGED <<thr, lanes, mem, status, sc, cur, hi, pl, out>>

WorkerReply(p, x) ==
    /\ Working(p, x, "emit")
    /\ wk[p][x].todo = <<>>
    /\ cur' = IF Stage(p, x[1]).kind = "source" THEN cur
              ELSE [cur EXCEPT ![N(p)][wk[p][x].in] = wk[p][x].end]
    /\ wk' = [wk EXCEPT ![p][x].st = "ok"]
    /\ UNCHANGED <<transferVars, sc, hi, pl, out>>

\* A trap, or the worker process dying, in the middle of a call.
WorkerDies(p, x) ==
    /\ sc.fault = "worker"
    /\ \A q \in Pipes : \A y \in DOMAIN wk[q] : wk[q][y].st # "dead"
    /\ Working(p, x, "cmd") \/ Working(p, x, "emit")
    /\ wk' = [wk EXCEPT ![p][x].st = "dead"]
    /\ UNCHANGED <<transferVars, sc, cur, hi, pl, out>>

WorkerStep(p, x) == WorkerRead(p, x) \/ WorkerAppend(p, x) \/ WorkerReply(p, x)

Called(p) == {x \in DOMAIN wk[p] : x[1] \in Active(p) /\ x[2] < pl[p].width[x[1]]}

Answered(p) == \A x \in Called(p) : wk[p][x].st = "ok"

AllIdle(p) == [wk EXCEPT ![p] = [x \in DOMAIN @ |-> IF @[x].st = "ok" THEN Idle ELSE @[x]]]

\* Collect the answers; merge the outputs of widened stages and free their slots.
Gather(p) ==
    LET n == N(p)
        wide == {s \in Active(p) : pl[p].width[s] > 1}
        merged(s) == RoundRobin([k \in 0..pl[p].width[s] - 1 |-> slots[n][SubOut(s, k)]],
                                pl[p].width[s])
        subs == UNION {{SubIn(s, k), SubOut(s, k)} : s \in wide, k \in 0..MaxStageWidth - 1}
    IN  /\ Pc(p, "gather") /\ ~P(p).py
        /\ Answered(p)
        /\ slots' = [slots EXCEPT ![n] = [sl \in Slots |->
                        IF sl \in subs THEN <<>>
                        ELSE IF \E s \in wide : Arg1(p, s) = sl
                             THEN @[sl] \o merged(CHOOSE s \in wide : Arg1(p, s) = sl)
                             ELSE @[sl]]]
        /\ wk' = AllIdle(p)
        /\ Goto(p, "send")
        /\ UNCHANGED <<thr, lanes, mem, status, sc, cur, hi, out>>

PyGather(p) ==
    /\ Pc(p, "gather") /\ P(p).py
    /\ Answered(p)
    /\ wk' = AllIdle(p)
    /\ Goto(p, "send")
    /\ UNCHANGED <<transferVars, sc, cur, hi, out>>

\* An answer that is not "ok", or no answer: the run ends with the error.
GatherFails(p) ==
    /\ Pc(p, "gather")
    /\ \E x \in Called(p) : wk[p][x].st = "dead"
    /\ Fail(N(p))
    /\ UNCHANGED <<slots, thr, lanes, mem, sc, cur, hi, pl, wk, out>>

\* The background thread frees its buffer after the transfer.
FreeSent(p) ==
    LET t == SendThread(p)
    IN  /\ Runs(t, "send", "done") /\ P(p).free
        /\ slots' = [slots EXCEPT ![N(p)][thr[t].slot] = <<>>]
        /\ thr' = [thr EXCEPT ![t].st = "freed"]
        /\ UNCHANGED <<lanes, mem, status, sc, cur, hi, pl, wk, out>>

\* Send the round that leaves the last stage: behind the next tick once the
\* previous send is joined, or here when the slot accumulates.
SendRound(p) ==
    LET t == SendThread(p)
        wanted == Round(p, Depth(p)) >= 0 /\ P(p).send # 0
        st == thr[t].st
    IN  /\ Pc(p, "send")
        /\ \/ /\ ~wanted
              /\ Goto(p, "prefetch")
              /\ UNCHANGED <<thr, status>>
           \/ /\ wanted /\ P(p).free /\ st \in {"idle", "freed"}
              /\ thr' = Begin(t, BufSlot(p))
              /\ Goto(p, "prefetch")
              /\ UNCHANGED status
           \/ /\ wanted /\ ~P(p).free /\ st = "idle"
              /\ thr' = Begin(t, P(p).send)
              /\ UNCHANGED <<pl, status>>
           \/ /\ wanted /\ ~P(p).free /\ st = "done"
              /\ thr' = [thr EXCEPT ![t].st = "idle"]
              /\ Goto(p, "prefetch")
              /\ UNCHANGED status
           \/ /\ wanted /\ st = "err"
              /\ Fail(N(p))
              /\ UNCHANGED <<pl, thr>>
        /\ UNCHANGED <<slots, lanes, mem, sc, cur, hi, wk, out>>

\* The end of a tick: free the receive slot, restart its window, receive the next
\* round behind the tick.
Prefetch(p) ==
    LET next == pl[p].tick + 1
        n == N(p)
    IN  /\ Pc(p, "prefetch")
        /\ IF next < P(p).rounds /\ P(p).recv # 0
           THEN /\ slots' = [slots EXCEPT ![n][P(p).recv] = <<>>]
                /\ cur' = [cur EXCEPT ![n][P(p).recv] = 0]
                /\ thr' = Begin(RecvThread(p), P(p).recv)
           ELSE UNCHANGED <<slots, cur, thr>>
        /\ pl' = [pl EXCEPT ![p].tick = next,
                            ![p].pc = IF next < P(p).rounds + Depth(p) - 1 THEN "recv" ELSE "finish"]
        /\ UNCHANGED <<lanes, mem, status, sc, hi, wk, out>>

\* Join the last send, close the workers.
Finish(p) ==
    LET st == thr[SendThread(p)].st
    IN  /\ Pc(p, "finish")
        /\ \/ st \in {"idle", "freed"} /\ Goto(p, "done") /\ UNCHANGED status
           \/ st = "err" /\ Fail(N(p)) /\ UNCHANGED pl
        /\ UNCHANGED <<slots, thr, lanes, mem, sc, cur, hi, wk, out>>

-----------------------------------------------------------------------------
\* The StreamOutput thread and its background writer.
OutThread == <<"out", "recv">>

OutRecv ==
    /\ Up(sc.out.node) /\ out.pc = "run"
    /\ out.round < sc.out.rounds
    /\ thr[OutThread].st = "idle"
    /\ thr' = Begin(OutThread, sc.out.slot)
    /\ UNCHANGED <<slots, lanes, mem, status, sc, cur, hi, pl, wk, out>>

\* Copy the received round to the queue of its path, free the slot.
OutRound ==
    /\ Up(sc.out.node)
    /\ thr[OutThread].st = "done"
    /\ out' = [out EXCEPT !.round = @ + 1,
                          !.queue = Append(@, [path |-> out.round % sc.out.paths,
                                               recs |-> slots[sc.out.node][sc.out.slot]])]
    /\ slots' = [slots EXCEPT ![sc.out.node][sc.out.slot] = <<>>]
    /\ thr' = [thr EXCEPT ![OutThread].st = "idle"]
    /\ UNCHANGED <<lanes, mem, status, sc, cur, hi, pl, wk>>

\* The PersistenceWriter thread takes the jobs in order.
OutWrite ==
    /\ Up(sc.out.node)
    /\ out.queue # <<>>
    /\ out' = [out EXCEPT !.queue = Tail(@), !.written = @ + 1,
                          !.files[Head(out.queue).path] = Head(out.queue).recs]
    /\ UNCHANGED <<transferVars, sc, cur, hi, pl, wk>>

\* The thread returns without joining the writer.
OutEndUnjoined ==
    /\ Up(sc.out.node) /\ out.pc = "run"
    /\ out.round = sc.out.rounds \/ thr[OutThread].st = "err"
    /\ out' = [out EXCEPT !.pc = IF thr[OutThread].st = "err" THEN "err" ELSE "done"]
    /\ UNCHANGED <<transferVars, sc, cur, hi, pl, wk>>

\* Dropping the writer joins it; so does the return with a receive error.
OutEnd ==
    /\ Up(sc.out.node) /\ out.pc = "run" /\ out.queue = <<>>
    /\ \/ /\ thr[OutThread].st = "err"
          /\ out' = [out EXCEPT !.pc = "err"]
       \/ /\ out.round = sc.out.rounds
          /\ out' = [out EXCEPT !.pc = "done"]
    /\ UNCHANGED <<transferVars, sc, cur, hi, pl, wk>>

-----------------------------------------------------------------------------
\* The end of a node's run: the serial nodes are done, then the threads joined.
Joined(n) ==
    /\ \A p \in Pipes : N(p) = n => pl[p].pc = "done"
    /\ sc.out.node = n => out.pc # "run"
    /\ \A t \in {<<"remote", "send">>, <<"remote", "recv">>} :
          thr[t].node = n => thr[t].st \in {"idle", "done", "err"}

\* The remote threads' results are dropped at the join.
BrokenOutOnly(n) == sc.out.node = n /\ out.pc = "err"

Broken(n) ==
    \/ sc.out.node = n /\ out.pc = "err"
    \/ \E t \in {<<"remote", "send">>, <<"remote", "recv">>} :
          thr[t].node = n /\ thr[t].st = "err"

NodeExit(n) ==
    /\ Up(n) /\ Joined(n)
    /\ status' = [status EXCEPT ![n] = IF Broken(n) THEN "failed" ELSE "ok"]
    /\ UNCHANGED <<slots, thr, lanes, mem, sc, cur, hi, pl, wk, out>>

NodeKilled(n) ==
    /\ sc.fault = "kill"
    /\ \A m \in Nodes : Up(m)
    /\ Fail(n)
    /\ UNCHANGED <<slots, thr, lanes, mem, sc, cur, hi, pl, wk, out>>

-----------------------------------------------------------------------------
\* Python and WASM loops differ in the tick's middle only.
StreamPipelineTick(p) == ~P(p).py /\ (Launch(p) \/ AwaitRecv(p) \/ Scatter(p) \/ Gather(p)
                            \/ GatherFails(p) \/ SendRound(p) \/ Prefetch(p) \/ Finish(p))

PyPipelineTick(p) == P(p).py /\ (PyLaunch(p) \/ AwaitRecv(p) \/ PyScatter(p) \/ PyGather(p)
                            \/ GatherFails(p) \/ SendRound(p) \/ Prefetch(p) \/ Finish(p))

PipelineStep(p) == StreamPipelineTick(p) \/ PyPipelineTick(p) \/ FreeSent(p)

StreamOutput == OutRecv \/ OutRound \/ OutWrite \/ OutEnd

TransferStep(t) == Transfer(t) /\ UNCHANGED <<sc, cur, hi, pl, wk, out>>

Zero == [n \in Nodes |-> [sl \in Slots |-> 0]]

Init ==
    /\ sc \in Scenes
    /\ slots = [n \in Nodes |-> [sl \in Slots |->
                   IF <<n, sl>> = sc.remote.from THEN sc.remote.recs ELSE <<>>]]
    /\ thr = [t \in Threads |->
                LET Remote(x) == IF sc.remote.recs = <<>> THEN x
                                 ELSE [x EXCEPT !.st = "begin"]
                IN  CASE t = <<"remote", "send">> ->
                           [Remote(Thread(sc.remote.from[1], sc.remote.to[1], "send", FALSE))
                                EXCEPT !.slot = sc.remote.from[2]]
                      [] t = <<"remote", "recv">> ->
                           [Remote(Thread(sc.remote.to[1], sc.remote.from[1], "recv", FALSE))
                                EXCEPT !.slot = sc.remote.to[2]]
                      [] t = OutThread -> Thread(sc.out.node, sc.out.peer, "recv", TRUE)
                      [] OTHER -> IF t[1] \in Pipes THEN Thread(N(t[1]), P(t[1]).peer, t[2], TRUE)
                                  ELSE Thread(0, 1, t[2], TRUE)]
    /\ lanes = [l \in Lanes |-> [fwd |-> <<>>, bwd |-> <<>>]]
    /\ mem = [n \in Nodes |-> [mr1 |-> sc.mr1[n], mr2 |-> NoMr2,
                               py |-> \E p \in Pipes : N(p) = n /\ P(p).py]]
    /\ status = [n \in Nodes |-> "run"]
    /\ cur = Zero
    /\ hi = Zero
    /\ pl = [p \in Pipes |-> [pc |-> "launch", tick |-> 0,
                              width |-> [s \in 1..Depth(p) |-> Stage(p, s).width],
                              ema |-> [s \in 1..Depth(p) |-> 0],
                              prev |-> [s \in 1..Depth(p) |-> 0]]]
    /\ wk = [p \in Pipes |-> [x \in {<<s, k>> \in (1..Depth(p)) \X (0..MaxStageWidth - 1) :
                                        k < SpawnWidth(p, s)} |-> Idle]]
    /\ out = [pc |-> IF sc.out.rounds = 0 THEN "done" ELSE "run", round |-> 0, written |-> 0,
              queue |-> <<>>, files |-> [f \in 0..sc.out.paths - 1 |-> <<>>]]

Step ==
    \/ \E t \in Threads : TransferStep(t)
    \/ \E p \in Pipes : PipelineStep(p)
    \/ \E p \in Pipes : \E x \in DOMAIN wk[p] : WorkerStep(p, x)
    \/ StreamOutput
    \/ \E n \in Nodes : NodeExit(n)

Fault ==
    \/ \E p \in Pipes : \E x \in DOMAIN wk[p] : WorkerDies(p, x)
    \/ \E n \in Nodes : NodeKilled(n)

Next == Step \/ Fault

\* As long as some thread or process can run, the operating system runs one.
Fairness == WF_vars(Step)

Spec == Init /\ [][Next]_vars /\ Fairness

-----------------------------------------------------------------------------
TypeOK ==
    /\ sc \in Scenes
    /\ \A n \in Nodes : /\ status[n] \in {"run", "ok", "failed"}
                        /\ mem[n].mr1 \in 0..sc.mr1[n]
                        /\ mem[n].mr2.bump \in 0..mem[n].mr2.len
                        /\ Len(mem[n].mr2.data) = mem[n].mr2.len
    /\ \A t \in Threads : thr[t].st \in {"idle", "begin", "reply", "sent", "wait", "done", "freed", "err"}
    /\ \A p \in Pipes :
          /\ pl[p].tick \in 0..P(p).rounds + Depth(p) - 1
          /\ \A s \in 1..Depth(p) : pl[p].width[s] \in Stage(p, s).width..SpawnWidth(p, s)
          /\ \A x \in DOMAIN wk[p] : wk[p][x].st \in {"idle", "cmd", "emit", "ok", "dead"}
    /\ Len(out.queue) = out.round - out.written

\* The records of round r after the first s stages of p, computed at once: the
\* reference the interleaved pipelines are compared with.
Upstream(p) == CHOOSE q \in Pipes : N(q) = P(p).peer /\ P(q).send # 0

Path(p, s) ==
    IF P(p).recv = 0 THEN SubSeq(P(p).stages, 1, s)
    ELSE P(Upstream(p)).stages \o SubSeq(P(p).stages, 1, s)

Made(p, s, r) ==
    FoldLeft(LAMBDA recs, st : IF st.kind = "source" THEN Batch(r) ELSE Applied(st.kind, recs),
             <<>>, Path(p, s))

MadeUpTo(p, r) == FlattenSeq([i \in 1..r + 1 |-> Made(p, Depth(p), i - 1)])

\* Whatever order the workers of a tick run in, and whatever width the stage was
\* scaled to, each worker's window (pipe_read_window) is its share of exactly
\* the records of the round its stage is on: no record of the round the stage
\* before it is appending to the same slot, none twice, none missed.
StageWindows ==
    \A p \in Pipes : \A x \in DOMAIN wk[p] :
        wk[p][x].st \in {"emit", "ok"} /\ Stage(p, x[1]).kind # "source"
            => wk[p][x].got = Shard(Made(p, x[1] - 1, Round(p, x[1])), x[2], pl[p].width[x[1]])

\* The round a background send carries: the last one handed to SendRound.
SentRound(p) == Round(p, Depth(p)) - (IF pl[p].pc = "prefetch" THEN 0 ELSE 1)

\* From its start to the done byte a background send's buffer holds exactly its
\* round: the next rounds' workers never append to it (execute_stream_pipeline's
\* double buffer), and it was emptied after the send two rounds before.
SendsUndisturbed ==
    \A p \in Pipes :
        LET t == thr[SendThread(p)]
        IN  P(p).free /\ t.st \in {"begin", "reply", "sent"} /\ Up(N(p))
                => slots[N(p)][t.slot] = Made(p, Depth(p), SentRound(p))

\* A node whose executor reports success has lost nothing: the last slot of a
\* pipeline that keeps its output holds every round in order, and a RemoteRecv
\* slot holds what its sender's slot held, even with dying workers, a killed
\* peer, an MR1 chain past the region's end or an exhausted MR2.
ExactOnSuccess ==
    \A n \in Nodes : status[n] = "ok" =>
        /\ \A p \in Pipes : N(p) = n /\ P(p).send = 0
              => slots[n][Stage(p, Depth(p)).out] = MadeUpTo(p, P(p).rounds - 1)
        /\ sc.remote.recs # <<>> /\ sc.remote.to[1] = n
              => slots[n][sc.remote.to[2]] = sc.remote.recs

\* What StreamOutput's peer sends it for round r.
Arriving(r) ==
    LET p == CHOOSE q \in Pipes : N(q) = sc.out.peer /\ P(q).send # 0
    IN  IF P(p).free THEN Made(p, Depth(p), r) ELSE MadeUpTo(p, r)

Sink == INSTANCE RoundSink WITH
            job <- [paths |-> sc.out.paths,
                    content |-> [r \in 1..sc.out.rounds |-> Arriving(r - 1)]],
            files <- out.files, written <- out.written, outcome <- status[sc.out.node]

\* Across two nodes, with receives prefetched and sends behind the ticks, the
\* files of StreamOutput are written as RoundSink says.
ImplementsRoundSink == Sink!SinkSpec

\* Every executor process ends, whatever failed, as a peer's death closes the
\* connections others wait on; and when nothing is wrong with the
\* deployment (no fault, room in MR1, widths inside the band) they succeed.
EveryNodeEnds ==
    /\ <>(\A n \in Nodes : ~Up(n))
    /\ sc.fault = "none" /\ sc.clean => <>(\A n \in Nodes : status[n] = "ok")
=============================================================================
