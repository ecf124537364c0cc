---------------------------- MODULE Consultation ----------------------------
(***************************************************************************)
(* The seven default agents (src/src/runtime/board_runtime.py) working on   *)
(* one matter over several turns of a conversation.  The matter blackboard  *)
(* is kept between turns; every turn is a run of the task board on a new    *)
(* user message.                                                           *)
(*                                                                         *)
(* Each default agent has a capability of its own and derives at most one   *)
(* task, which depends on the one it was derived in.  So a run of TaskBoard *)
(* with these agents is a chain: one task per round, `task', at depth       *)
(* `round' - 1, and an action of this module is a whole round.  The chain   *)
(* ends when nothing is derived, and the next round asks the delivery gate. *)
(*                                                                         *)
(* A candidate proposed by the language model is nondeterministic within    *)
(* what the agents accept from it; without a model the agents are           *)
(* deterministic but for the search results.                               *)
(***************************************************************************)
EXTENDS Naturals, Sequences, FiniteSets

CONSTANTS
  NumFacts,                 \* required intake facts of the scenario pack
  QuestionsPerRound,        \* questions of one clarification
  MaxClarificationRounds,   \* SufficiencyConfig.max_clarification_rounds
  MaxRounds,                \* BoardLimits, the three that a chain can reach
  MaxTaskDepth,
  MaxClaimsPerAgent,
  Messages,                 \* the messages a user may send
  HasModel,                 \* is a model gateway configured?
  MayFail,                  \* may an agent raise an exception?
  MaxTurns                  \* bound of the model on the turns of a matter

Required == 1..NumFacts

\* What an agent reads out of a message: the required facts it states, whether
\* it says "I do not know", the hard risk markers in it, and whether it is one
\* of the intent options (which then is the whole message).
Message ==
  [facts : SUBSET Required, dontknow : BOOLEAN, danger : {"none", "high", "critical"},
   picks : {FALSE}]
  \cup {[facts |-> {}, dontknow |-> FALSE, danger |-> "none", picks |-> TRUE]}

ASSUME ConsultationAssumption ==
  /\ NumFacts \in Nat \ {0}
  /\ QuestionsPerRound \in Nat \ {0}
  /\ MaxClarificationRounds \in Nat \ {0}
  /\ MaxTaskDepth \in Nat
  /\ MaxRounds \in Nat
  /\ MaxRounds > MaxTaskDepth + 1
  /\ MaxClaimsPerAgent \in Nat \ {0}
  /\ Messages \subseteq Message
  /\ HasModel \in BOOLEAN
  /\ MayFail \in BOOLEAN
  /\ MaxTurns \in Nat

VARIABLES
  \* MatterBlackboard, kept from turn to turn
  facts,         \* the required keys of confirmed_facts
  sufficiency,   \* SufficiencyState
  softRisks,     \* risk_assessments[-3:]: is the level MEDIUM?
  \* the run of this turn: AgentRunBoard
  turns,         \* number of turns so far
  message,       \* the message of this turn
  status,        \* board.status; "idle" before the first turn
  round,         \* board.round
  accepted,      \* what board.accepted_artifact_id refers to
  task,          \* the open task of the chain, or "none"
  input,         \* the kind of its first input artifact
  held,          \* the message-scoped deduplication keys that are taken
  claims,        \* agent claims of the run, by the task the agent executes
  out,           \* the artifacts of the run that later steps read
  broken,        \* is a task of the run FAILED or BLOCKED?
  \* history of the matter, by the facts that its questions are about
  shown,         \* a delivered text listed the question
  reworded,      \* the model wrote the text of the clarification that was delivered
  unanswered     \* the turn of the question ended without its answer

matter == <<facts, sufficiency, softRisks>>
history == <<shown, reworded, unanswered>>
vars == <<facts, sufficiency, softRisks, turns, message, status, round, accepted,
          task, input, held, claims, out, broken, shown, reworded, unanswered>>

TaskTypes == {"assess_safety", "schedule_next", "understand_message", "retrieve_context",
              "analyze_evidence", "compose_response", "review_response"}

\* Scheduled and safety tasks are deduplicated by their parent task, which is
\* always another one; all others by the message.
MessageScoped == TaskTypes \ {"assess_safety", "schedule_next"}

\* SCHEDULER_CAPABILITY_TASKS: what a scheduling decision may ask for.
Schedulable == TaskTypes \ {"schedule_next"}

Decisions == {"ask_clarification", "confirm_intent", "start_retrieval", "deliver_limited_response"}

Answers == {"clarification_needed", "intent_confirmation_needed", "supported_answer",
            "limited_answer", "constructive_abstention"}

Risk == [level : {"low", "medium", "high", "critical"}, advises : BOOLEAN]

NoRisk == [level |-> "low", advises |-> FALSE]

\* decision and limitations of an ISSUE_ANALYSIS artifact
Analysis == [decision : Answers, limits : BOOLEAN]

NoAnalysis == [decision |-> "limited_answer", limits |-> TRUE]

\* decision and safety guidance of a RESPONSE_CANDIDATE artifact, and for a
\* clarification whose text its response is: the one that the agent put together,
\* which lists the questions, or the one that the model wrote in its place.
Candidate == [decision : Answers, guidance : BOOLEAN, text : {"agent", "model"}]

NoCandidate == [decision |-> "limited_answer", guidance |-> FALSE, text |-> "agent"]

NoArtifacts ==
  [risk |-> NoRisk, questions |-> {}, evidence |-> "none", analysis |-> NoAnalysis,
   candidate |-> NoCandidate, final |-> "none"]

-----------------------------------------------------------------------------

Init ==
  /\ facts = {}
  /\ sufficiency = [clarification_round |-> 0, missing |-> {}, asked |-> {}, unknown |-> {},
                    intent |-> FALSE, decision |-> "ask_clarification"]
  /\ softRisks = <<>>
  /\ turns = 0
  /\ message \in Messages
  /\ status = "idle"
  /\ round = 0
  /\ accepted = "none"
  /\ task = "none"
  /\ input = "none"
  /\ held = {}
  /\ claims = [t \in TaskTypes |-> 0]
  /\ out = NoArtifacts
  /\ broken = FALSE
  /\ shown = {}
  /\ reworded = {}
  /\ unanswered = {}

\* The next message of the user: a new board with the root task assess_safety
\* and the blackboard as the last turn left it.
BeginTurn(m) ==
  /\ status # "running"
  /\ turns < MaxTurns
  /\ turns' = turns + 1
  /\ message' = m
  /\ status' = "running"
  /\ round' = 0
  /\ accepted' = "none"
  /\ task' = "assess_safety"
  /\ input' = "none"
  /\ held' = {}
  /\ claims' = [t \in TaskTypes |-> 0]
  /\ out' = NoArtifacts
  /\ broken' = FALSE
  /\ UNCHANGED <<matter, history>>

-----------------------------------------------------------------------------
\* The rounds of a run.

\* A round in which the agent for task t is free to claim it.
Claim(t) ==
  /\ status = "running"
  /\ task = t
  /\ claims[t] < MaxClaimsPerAgent
  /\ round' = round + 1
  /\ claims' = [claims EXCEPT ![t] = @ + 1]
  /\ UNCHANGED <<turns, message, status, accepted, history>>

EndChain == task' = "none" /\ input' = "none" /\ UNCHANGED held

\* The chain ends: nothing was derived.
DeriveNothing == EndChain /\ UNCHANGED broken

\* The chain ends with a task that is failed or blocked.
BreakOff == EndChain /\ broken' = TRUE

\* Mutant: the depth limit is off by one.
DeriveTooDeep(t, artifact) ==
  IF round <= MaxTaskDepth /\ t \notin held
    THEN task' = t /\ input' = artifact /\ held' = held \cup ({t} \cap MessageScoped)
         /\ UNCHANGED broken
    ELSE DeriveNothing

\* _child_task and add_task: the child is one deeper than the task of this
\* round.  Too deep, the delivery fails; with its key taken, nothing is added.
Derive(t, artifact) ==
  CASE round + 1 > MaxTaskDepth -> BreakOff
    [] round + 1 <= MaxTaskDepth /\ t \in held -> DeriveNothing
    [] OTHER -> /\ task' = t
                /\ input' = artifact
                /\ held' = held \cup ({t} \cap MessageScoped)
                /\ UNCHANGED broken

\* The agent of the task has no claims left: "no_capable_agent".
BlockTask ==
  /\ status = "running"
  /\ task # "none"
  /\ claims[task] >= MaxClaimsPerAgent
  /\ round' = round + 1
  /\ BreakOff
  /\ UNCHANGED <<matter, turns, message, status, accepted, claims, out, history>>

\* The context cannot be built, or the agent raises before it delivers.
FailTask ==
  /\ MayFail
  /\ \E t \in TaskTypes : Claim(t)
  /\ BreakOff
  /\ UNCHANGED <<matter, out>>

-----------------------------------------------------------------------------
\* SafetyAgent

\* The levels the agent may arrive at.  HIGH and CRITICAL come from the markers
\* alone and the model cannot lower them; MEDIUM is the model's, whose
\* recommended_action may be empty, or the trend's.
Assessments ==
  LET trend == Cardinality({i \in DOMAIN softRisks : softRisks[i]}) >= 2
  IN  IF message.danger # "none"
        THEN {[level |-> message.danger, advises |-> TRUE]}
        ELSE {IF trend THEN [level |-> "medium", advises |-> TRUE] ELSE NoRisk}
             \cup (IF HasModel THEN [level : {"medium"}, advises : BOOLEAN] ELSE {})

\* Mutant: a window of four assessments.
LastFour(s) == SubSeq(s, IF Len(s) > 4 THEN Len(s) - 3 ELSE 1, Len(s))

\* The assessments that the trend looks at.
LastThree(s) == SubSeq(s, IF Len(s) > 3 THEN Len(s) - 2 ELSE 1, Len(s))

AssessSafety ==
  /\ Claim("assess_safety")
  /\ \E risk \in Assessments :
       /\ softRisks' = LastThree(Append(softRisks, risk.level = "medium"))
       /\ IF risk.level = "critical"
            THEN /\ out' = [out EXCEPT !.risk = risk,
                                       !.candidate = [decision |-> "limited_answer", guidance |-> TRUE,
                                                     text |-> "agent"]]
                 /\ Derive("review_response", "candidate")
            ELSE /\ out' = [out EXCEPT !.risk = risk]
                 /\ Derive("schedule_next", "risk")
  /\ UNCHANGED <<facts, sufficiency>>

-----------------------------------------------------------------------------
\* SchedulerAgent

\* Mutant: the confirmation of the intent is not waited for.
IntakeReadyUnconfirmed == Required \subseteq facts

IntakeReady == Required \subseteq facts /\ sufficiency.intent

\* Mutant: the escalation of a review is treated like any other input.
RequiredTasksIgnoringConflict ==
  IF ~IntakeReady THEN {"understand_message"}
  ELSE {"retrieve_context"} \cup (IF HasModel THEN Schedulable ELSE {})

\* decide_next_step: the tasks it may ask for.
RequiredTasks ==
  IF input = "escalation" THEN {"assess_safety"}
  ELSE IF ~IntakeReady THEN {"understand_message"}
  ELSE {"retrieve_context"} \cup (IF HasModel THEN Schedulable ELSE {})

ScheduleNext ==
  /\ Claim("schedule_next")
  /\ \E t \in RequiredTasks : Derive(t, "intent")
  /\ UNCHANGED <<matter, out>>

\* The model names a reason or an unknown capability, or its decisions repeat
\* and the loop guard stops them: an EscalationRequest, and no task.
Escalate ==
  /\ HasModel
  /\ input # "escalation"
  /\ IntakeReady
  /\ Claim("schedule_next")
  /\ DeriveNothing
  /\ UNCHANGED <<matter, out>>

-----------------------------------------------------------------------------
\* UnderstandingAgent

\* The first questions in the order of the scenario pack.
FirstQuestions(keys) ==
  {k \in keys : Cardinality({j \in keys : j < k}) < QuestionsPerRound}

\* Mutant: an option letter counts whenever it is sent.
ConfirmsAnytime(missing) == message.picks

\* The message answers the options that the last turn offered.
Confirms(missing) ==
  missing = {} /\ sufficiency.decision = "confirm_intent" /\ message.picks

\* Mutant: the questions asked are not remembered.
AskedForgotten(questions) == sufficiency.asked

Asked(questions) == sufficiency.asked \cup questions

UnderstandMessage ==
  /\ Claim("understand_message")
  /\ facts' = facts \cup message.facts
  /\ LET unknown == sufficiency.unknown
                      \cup (IF message.dontknow THEN sufficiency.missing ELSE {})
         missing == Required \ (facts' \cup unknown)
         available == missing \ sufficiency.asked
         asks == /\ missing # {}
                 /\ sufficiency.clarification_round < MaxClarificationRounds
                 /\ available # {}
         questions == IF asks THEN FirstQuestions(available) ELSE {}
         intent == sufficiency.intent \/ Confirms(missing)
         decision == IF missing = {}
                       THEN IF intent THEN "start_retrieval" ELSE "confirm_intent"
                       ELSE IF asks THEN "ask_clarification" ELSE "deliver_limited_response"
     IN  /\ sufficiency' =
              [clarification_round |-> sufficiency.clarification_round + (IF asks THEN 1 ELSE 0),
               missing |-> missing, asked |-> Asked(questions), unknown |-> unknown,
               intent |-> intent, decision |-> decision]
         /\ out' = [out EXCEPT !.questions = questions]
         /\ IF decision = "start_retrieval" THEN Derive("schedule_next", "assessment")
                                            ELSE Derive("compose_response", "assessment")
  /\ UNCHANGED softRisks

-----------------------------------------------------------------------------
\* RetrievalAgent and AnalysisAgent

\* The search finds nothing, or laws of unconfirmed or of confirmed validity.
RetrieveContext ==
  /\ Claim("retrieve_context")
  /\ \E found \in {"none", "unverified", "verified"} :
       out' = [out EXCEPT !.evidence = found]
  /\ Derive("analyze_evidence", "evidence")
  /\ UNCHANGED matter

\* What the evidence bundle in the input supports.  The limitations are the
\* model's own, which may be none, once its claims are valid.
Analyses ==
  LET found == IF input = "evidence" THEN out.evidence ELSE "none"
  IN  CASE found = "verified"   -> [decision : {"supported_answer"},
                                    limits : IF HasModel THEN BOOLEAN ELSE {TRUE}]
        [] found = "unverified" -> {[decision |-> "constructive_abstention", limits |-> TRUE]}
        [] found = "none"       -> {NoAnalysis}

AnalyzeEvidence ==
  /\ Claim("analyze_evidence")
  /\ \E a \in Analyses : out' = [out EXCEPT !.analysis = a]
  /\ Derive("compose_response", "analysis")
  /\ UNCHANGED matter

-----------------------------------------------------------------------------
\* ResponseAgent and ReviewAgent

\* Mutant: with the last round of questions spent, the answer is a limited one.
AnswerWithinBudget ==
  CASE sufficiency.clarification_round = MaxClarificationRounds -> "limited_answer"
    [] sufficiency.decision = "ask_clarification" -> "clarification_needed"
    [] sufficiency.decision = "confirm_intent"    -> "intent_confirmation_needed"
    [] OTHER -> IF input = "analysis" THEN out.analysis.decision ELSE "limited_answer"

\* The decision of the response follows the sufficiency decision of the matter,
\* and only then the artifact the task was derived with.
Answer ==
  CASE sufficiency.decision = "ask_clarification" -> "clarification_needed"
    [] sufficiency.decision = "confirm_intent"    -> "intent_confirmation_needed"
    [] OTHER -> IF input = "analysis" THEN out.analysis.decision ELSE "limited_answer"

\* FinalResponseContent accepts no supported answer without limitations; the
\* other answers are composed in a way that satisfies its invariants.
Refused == Answer = "supported_answer" /\ ~out.analysis.limits

\* Any text of the model takes the place of the agent's own; of what the agent had
\* put together only the safety guidance is added to it again.  The author is told
\* apart for the text that lists questions.
Texts ==
  IF HasModel /\ Answer = "clarification_needed" THEN {"agent", "model"} ELSE {"agent"}

\* A refused response makes the agent raise.
ComposeResponse ==
  /\ Claim("compose_response")
  /\ IF Refused
       THEN BreakOff /\ UNCHANGED out
       ELSE /\ \E text \in Texts :
                 out' = [out EXCEPT !.candidate = [decision |-> Answer, text |-> text,
                                                   guidance |-> out.risk.advises]]
            /\ Derive("review_response", "candidate")
  /\ UNCHANGED matter

\* The verdict on the candidate.  An input that is no candidate has no response
\* to approve, and the model can only reject.
Verdicts ==
  (IF input = "candidate" THEN {"approved"} ELSE {"rejected"})
    \cup (IF HasModel THEN {"rejected"} ELSE {})

ReviewResponse ==
  /\ Claim("review_response")
  /\ \E verdict \in Verdicts : out' = [out EXCEPT !.final = verdict]
  /\ DeriveNothing
  /\ UNCHANGED matter

\* Mutant: the final response is delivered along with the escalation.
RequestRecheckWithFinal ==
  /\ HasModel
  /\ Claim("review_response")
  /\ out' = [out EXCEPT !.final = "approved"]
  /\ Derive("schedule_next", "escalation")
  /\ UNCHANGED matter

\* The review asks for a new risk assessment instead of a final response.
RequestRecheck ==
  /\ HasModel
  /\ Claim("review_response")
  /\ Derive("schedule_next", "escalation")
  /\ UNCHANGED <<matter, out>>

-----------------------------------------------------------------------------
\* The end of the chain.

\* Mutant: without a final response the end of the chain is not noticed.
NoTaskLeftButFinal == status = "running" /\ task = "none" /\ out.final # "none"

NoTaskLeft == status = "running" /\ task = "none"

\* The candidate is a clarification with a text of this author.
Clarifies(author) ==
  out.candidate.decision = "clarification_needed" /\ out.candidate.text = author

\* The gate approves a final response that the review approved; it blocks any
\* response for what its text contains.
Deliver ==
  /\ NoTaskLeft
  /\ out.final = "approved"
  /\ out.candidate.decision = "supported_answer" => out.evidence = "verified"
  /\ round' = round + 1
  /\ status' = "completed"
  /\ accepted' = "final"
  /\ shown' = shown \cup (IF Clarifies("agent") THEN out.questions ELSE {})
  /\ reworded' = reworded \cup (IF Clarifies("model") THEN out.questions ELSE {})
  /\ UNCHANGED <<matter, turns, message, task, input, held, claims, out, broken, unanswered>>

BlockDelivery ==
  /\ NoTaskLeft
  /\ out.final # "none"
  /\ round' = round + 1
  /\ status' = "failed"
  /\ accepted' = "safe_error"
  /\ unanswered' = unanswered \cup out.questions
  /\ UNCHANGED <<matter, turns, message, task, input, held, claims, out, broken, shown, reworded>>

FinishEmptyHanded ==
  /\ NoTaskLeft
  /\ out.final = "none"
  /\ round' = round + 1
  /\ status' = "limited"
  /\ unanswered' = unanswered \cup out.questions
  /\ UNCHANGED <<matter, turns, message, accepted, task, input, held, claims, out, broken, shown,
                 reworded>>

Run ==
  \/ BlockTask
  \/ FailTask
  \/ AssessSafety
  \/ ScheduleNext
  \/ Escalate
  \/ UnderstandMessage
  \/ RetrieveContext
  \/ AnalyzeEvidence
  \/ ComposeResponse
  \/ ReviewResponse
  \/ RequestRecheck
  \/ Deliver
  \/ BlockDelivery
  \/ FinishEmptyHanded

Next == Run \/ \E m \in Messages : BeginTurn(m)

\* A run in progress goes on; the user may stay away for ever.
Spec == Init /\ [][Next]_vars /\ WF_vars(Run)

-----------------------------------------------------------------------------
\* Properties.

\* The types of the matter and of the run; the clarification rounds of a matter
\* never exceed the configured maximum.
TypeOK ==
  /\ facts \subseteq Required
  /\ sufficiency \in [clarification_round : 0..MaxClarificationRounds,
                      missing : SUBSET Required, asked : SUBSET Required,
                      unknown : SUBSET Required, intent : BOOLEAN, decision : Decisions]
  /\ softRisks \in Seq(BOOLEAN) /\ Len(softRisks) <= 3
  /\ turns \in 0..MaxTurns
  /\ message \in Messages
  /\ status \in {"idle", "running", "completed", "limited", "failed"}
  /\ round \in Nat
  /\ accepted \in {"none", "final", "safe_error"}
  /\ task \in TaskTypes \cup {"none"}
  /\ input \in {"none", "risk", "assessment", "intent", "evidence", "analysis",
                "candidate", "escalation"}
  /\ held \subseteq MessageScoped
  /\ claims \in [TaskTypes -> 0..MaxClaimsPerAgent]
  /\ out \in [risk : Risk, questions : SUBSET Required,
              evidence : {"none", "unverified", "verified"}, analysis : Analysis,
              candidate : Candidate, final : {"none", "approved", "rejected"}]
  /\ broken \in BOOLEAN
  /\ shown \subseteq Required /\ reworded \subseteq Required /\ unanswered \subseteq Required

\* A question that a delivered clarification was about is never asked again in the
\* matter, whoever wrote its text, nor is one whose answer is known or known to be
\* unknown.
QuestionsNeverRepeated ==
  [][ accepted' = "final" /\ out.candidate.decision = "clarification_needed"
        /\ accepted = "none"
      => /\ out.questions # {}
         /\ out.questions \cap (shown \cup reworded \cup facts \cup sufficiency.unknown) = {} ]_vars

\* UnderstandingAgent notes its questions as asked, and a round as spent, when it
\* drafts them.  What is noted and was never listed for the user is from a turn
\* without its answer, or from a clarification whose text the model wrote, and only
\* with a model there is the latter: no decision of another agent, no limit of the
\* matter and no other task of the turn loses a question.
QuestionsAccountedFor ==
  /\ status # "running" => sufficiency.asked = shown \cup reworded \cup unanswered
  /\ accepted = "final" => out.questions \subseteq shown \cup reworded
  /\ ~HasModel => reworded = {}

\* After a critical message nothing but safety, scheduling and review works on
\* it, whatever the review escalates and the model proposes.
CriticalNeverAnalysed ==
  message.danger = "critical" => held \subseteq {"review_response"}

\* A delivered answer carries the advice of the latest risk assessment of the
\* turn, also when the message was assessed more than once.
GuidanceFollowsRisk ==
  accepted = "final" /\ out.risk.advises => out.candidate.guidance

\* The risk of a message decides what is done with it and what the user is told.
RiskIsHeeded == CriticalNeverAnalysed /\ GuidanceFollowsRisk

\* Once the intent is confirmed the matter stays in the retrieval stage, in every
\* later turn: ResponseAgent reads the sufficiency decision of the matter in turns
\* in which UnderstandingAgent did not run.
StageConsistent ==
  sufficiency.intent =>
    sufficiency.decision = "start_retrieval" /\ sufficiency.missing = {}

\* The search and the analysis wait for the required facts and the user's intent,
\* which are not lost again, and a supported answer rests on laws found by the
\* search of the same turn.
AnalysisIsJustified ==
  /\ StageConsistent
  /\ held \cap {"retrieve_context", "analyze_evidence"} # {} =>
       Required \subseteq facts /\ sufficiency.intent
  /\ accepted = "final" /\ out.candidate.decision = "supported_answer" =>
       out.evidence = "verified" /\ "retrieve_context" \in held

\* The longest chain of tasks ends before the budget of rounds, so a final
\* response is always judged by the gate and never lost to the budget.
BudgetFitsChain == status = "running" => round < MaxRounds

\* When the user gets nothing, a task of the run failed or was blocked, or a key
\* of the message was taken when it was needed again: by the review, which asked
\* for another assessment, or, with the intent confirmed, by a scheduler that the
\* model misleads or that waits for a fact the user does not know.  Until the
\* intent is confirmed, nothing else leaves a message without an answer.
SilenceHasACause ==
  status = "limited" /\ ~broken =>
    \/ "review_response" \in held /\ HasModel
    \/ sufficiency.intent /\ (HasModel \/ ~(Required \subseteq facts))

TurnsAreAnswered == BudgetFitsChain /\ SilenceHasACause

\* Every turn ends.
TurnEnds == status = "running" ~> status # "running"
=============================================================================
