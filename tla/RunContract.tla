----------------------------- MODULE RunContract -----------------------------
(***************************************************************************)
(* What one run of the task board promises to the harness that started it  *)
(* (src/src/runtime/taskboard.py, src/src/runtime/board_runtime.py): it     *)
(* works in rounds, at most MaxRounds of them, and then stops once, in one  *)
(* of three ways.  Nothing is accepted unless the delivery gate decided,    *)
(* and after the stop nothing changes any more.  TaskBoard implements this  *)
(* specification; Harness uses its three outcomes.                          *)
(***************************************************************************)
EXTENDS Naturals

CONSTANT MaxRounds    \* BoardLimits.max_rounds, a positive number

VARIABLES
  status,             \* AgentRunBoard.status
  round,              \* AgentRunBoard.round
  accepted            \* what accepted_artifact_id refers to

vars == <<status, round, accepted>>

RunStatus == {"running", "completed", "limited", "failed"}

\* accepted_artifact_id is unset, an agent's FINAL_RESPONSE, or the safe error
\* that the gate wrote in its place.
Accepted == {"none", "final", "safe_error"}

\* The three ways a run stops: a delivered answer, a blocked delivery that is
\* replaced by the safe error, a run that ran out of budget or of work.
Outcomes == { <<"completed", "final">>, <<"failed", "safe_error">>, <<"limited", "none">> }

Init ==
  /\ status = "running"
  /\ round = 0
  /\ accepted = "none"

StartRound ==
  /\ status = "running"
  /\ round < MaxRounds
  /\ round' = round + 1
  /\ UNCHANGED <<status, accepted>>

\* The delivery decision opens a round of its own.
Stop ==
  /\ status = "running"
  /\ \E o \in Outcomes : status' = o[1] /\ accepted' = o[2]
  /\ \/ round' = round
     \/ round < MaxRounds /\ round' = round + 1

Next == StartRound \/ Stop

\* Stop is always enabled and rounds are bounded: with weak fairness a run stops.
Spec == Init /\ [][Next]_vars /\ WF_vars(Next)

-----------------------------------------------------------------------------

\* A stopped run is one of the three outcomes, and it accepted nothing before.
OutcomeConsistent ==
  IF status = "running" THEN accepted = "none"
                        ELSE <<status, accepted>> \in Outcomes
=============================================================================
