----------------------------- MODULE AgentWorker -----------------------------
(***************************************************************************)
(* The worker daemon (worker.rs): connect and announce, the message loop,   *)
(* the executor poll at the end of every iteration, and the nested receive  *)
(* loop of an RDMA input share.                                             *)
(***************************************************************************)
EXTENDS AgentState

elsewhere == <<kind, coordVars, jobVars>>

\* run_worker up to the Ready message.
WorkerStart(w) ==
    /\ proc[w] = "down"
    /\ inc[w] < MaxInc
    /\ proc' = [proc EXCEPT ![w] = "poll"]
    /\ inc' = [inc EXCEPT ![w] = @ + 1]
    /\ UNCHANGED <<faults, exec, staged, wireVars, elsewhere, history>>

\* The process is gone: with it the executor handle, the list of staged files
\* and what it had not read.
Exit(w) ==
    /\ proc' = [proc EXCEPT ![w] = "down"]
    /\ exec' = [exec EXCEPT ![w] = Idle]
    /\ staged' = [staged EXCEPT ![w] = {}]
    /\ toW' = [toW EXCEPT ![<<w, inc[w]>>] = <<>>]
    /\ UNCHANGED <<inc, toC>>

WorkerCrash(w) ==
    /\ faults > 0
    /\ proc[w] # "down"
    /\ faults' = faults - 1
    /\ Exit(w)
    /\ UNCHANGED <<elsewhere, history>>

\* AssignJob: spawn, report JobStarted, keep the handle.  A handle already
\* there is overwritten.  Jobs with inputs to ship find them on disk or not.
AssignJob(w, m) ==
    /\ exec' = [exec EXCEPT ![w] = [task |-> m.task, st |-> "run"]]
    /\ blind' = IF w \in loc[m.task[1]].need /\ m.task \notin staged[w]
                THEN blind \cup {<<m.task, w>>} ELSE blind
    /\ Reply(w, Msg("Started", m.task))
    /\ UNCHANGED <<proc, staged>>

\* StageFiles: write the files, remember them for removal, acknowledge.
StageFiles(w, m) ==
    /\ staged' = [staged EXCEPT ![w] = @ \cup {m.task}]
    /\ Reply(w, Msg("Ack", m.task))
    /\ UNCHANGED <<proc, exec, blind>>

\* InputShareOffer: accept and enter the nested receive loop.
InputShareOffer(w, m) ==
    /\ Reply(w, Msg("Accept", m.task))
    /\ proc' = [proc EXCEPT ![w] = "share"]
    /\ UNCHANGED <<exec, staged, blind>>

\* One message of the main loop.
WorkerRecv(w) ==
    /\ proc[w] = "poll"
    /\ toW[<<w, inc[w]>>] # <<>>
    /\ LET m == Head(toW[<<w, inc[w]>>])
       IN  \/ m.kind = "Assign" /\ AssignJob(w, m)
           \/ m.kind = "Stage" /\ StageFiles(w, m)
           \/ m.kind = "Offer" /\ InputShareOffer(w, m)
    /\ toW' = [toW EXCEPT ![<<w, inc[w]>>] = Tail(@)]
    /\ UNCHANGED <<faults, inc, done, misread, elsewhere>>

\* recv_rdma_input_share after the accept: every message but InputShareGo is
\* dropped; on Go the received files are written and reported.
ShareRecv(w) ==
    /\ proc[w] = "share"
    /\ toW[<<w, inc[w]>>] # <<>>
    /\ toW' = [toW EXCEPT ![<<w, inc[w]>>] = Tail(@)]
    /\ LET m == Head(toW[<<w, inc[w]>>])
       IN  IF m.kind = "Go"
           THEN /\ staged' = [staged EXCEPT ![w] = @ \cup {m.task}]
                /\ Reply(w, Msg("ShareDone", m.task))
                /\ proc' = [proc EXCEPT ![w] = "poll"]
           ELSE UNCHANGED <<staged, toC, proc>>
    /\ UNCHANGED <<faults, inc, exec, elsewhere, history>>

\* Thirty seconds without InputShareGo: the error leaves run_worker.  The
\* coordinator sends Go within that time unless it has given up on RDMA.
ShareTimeout(w) ==
    /\ proc[w] = "share"
    /\ toW[<<w, inc[w]>>] = <<>>
    /\ \A j \in Jobs : ph[j] # "offer"
    /\ Exit(w)
    /\ UNCHANGED <<faults, elsewhere, history>>

\* The executor process ends.
ExecutorExit(w) ==
    /\ exec[w].st = "run"
    /\ \E st \in {"ok", "bad"} :
           /\ exec' = [exec EXCEPT ![w] = [task |-> exec[w].task, st |-> st]]
           /\ done' = IF st = "ok" THEN done \cup {<<exec[w].task, w>>} ELSE done
    /\ UNCHANGED <<faults, proc, inc, staged, wireVars, elsewhere, misread, blind>>

\* Mutant: the handle is dropped before the result is built from it.
PollExecutorCleared(w) ==
    /\ proc[w] = "poll"
    /\ exec[w].st \in {"ok", "bad"}
    /\ Reply(w, Result(Idle.task, exec[w].st = "ok"))
    /\ exec' = [exec EXCEPT ![w] = Idle]
    /\ staged' = [staged EXCEPT ![w] = {}]
    /\ UNCHANGED <<faults, proc, inc, toW, elsewhere, history>>

\* The poll at the end of an iteration finds the executor gone: report the
\* result, drop the handle, remove the SHM file and every staged file.
PollExecutor(w) ==
    /\ proc[w] = "poll"
    /\ exec[w].st \in {"ok", "bad"}
    /\ Reply(w, Result(exec[w].task, exec[w].st = "ok"))
    /\ exec' = [exec EXCEPT ![w] = Idle]
    /\ staged' = [staged EXCEPT ![w] = {}]
    /\ UNCHANGED <<faults, proc, inc, toW, elsewhere, history>>

WorkerStep(w) ==
    \/ WorkerStart(w)
    \/ WorkerRecv(w)
    \/ ShareRecv(w)
    \/ ShareTimeout(w)
    \/ ExecutorExit(w)
    \/ PollExecutor(w)
=============================================================================
