----------------------------- MODULE RoundSink ------------------------------
(***************************************************************************)
(* What a streaming deployment promises where its output lands: the rounds *)
(* are written in order, each exactly the records its stages make of it,   *)
(* each to the path of its number, and the run is reported a success only  *)
(* when every round has been written.                                      *)
(***************************************************************************)
EXTENDS Naturals, Sequences

VARIABLES job,      \* the content of every round, and the number of paths; fixed
          files, written, outcome

sinkVars == <<job, files, written, outcome>>

Rounds == Len(job.content)

SinkInit ==
    /\ files = [f \in 0..job.paths - 1 |-> <<>>]
    /\ written = 0
    /\ outcome = "run"

WriteRound ==
    /\ outcome = "run"
    /\ written < Rounds
    /\ files' = [files EXCEPT ![written % job.paths] = job.content[written + 1]]
    /\ written' = written + 1
    /\ UNCHANGED <<job, outcome>>

End ==
    /\ outcome = "run"
    /\ \/ outcome' = "ok" /\ written = Rounds
       \/ outcome' = "failed"
    /\ UNCHANGED <<job, files, written>>

SinkSpec == SinkInit /\ [][WriteRound \/ End]_sinkVars
=============================================================================
