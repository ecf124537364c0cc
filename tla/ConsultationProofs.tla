-------------------------- MODULE ConsultationProofs --------------------------
(***************************************************************************)
(* Safety of a consultation, for every number of facts, all limits, every  *)
(* set of messages, with and without a model; and no turn goes on for ever.*)
(***************************************************************************)
EXTENDS Consultation, FiniteSetTheorems, SequenceTheorems, WellFoundedInduction, TLAPS

\* The run and the place in its chain: the open task is not too deep, it has its
\* key, and nothing was judged before it.
ChainInv ==
  /\ status # "running" => task = "none"
  /\ accepted = "final" => status = "completed"
  /\ round <= MaxTaskDepth \/ task = "none"
  /\ status = "running" => round <= MaxTaskDepth + 1
  /\ task \in MessageScoped => task \in held
  /\ task # "none" => out.final = "none"

\* With the intent confirmed, every required fact is known, or known to be
\* unknown.
StageInv ==
  /\ StageConsistent
  /\ sufficiency.intent => Required \subseteq facts \cup sufficiency.unknown

\* Evidence was searched for in the turn that has it.
EvidenceInv ==
  /\ AnalysisIsJustified
  /\ out.evidence # "none" => "retrieve_context" \in held

\* A critical message comes back to the scheduler by an escalation alone, and the
\* response under review has the advice of the latest assessment.
FollowsRisk == out.risk.advises => out.candidate.guidance

IsReviewed ==
  \/ task = "review_response" /\ input = "candidate"
  \/ out.final = "approved"

RiskInv ==
  /\ RiskIsHeeded
  /\ message.danger = "critical" =>
       /\ task \in {"assess_safety", "schedule_next", "review_response", "none"}
       /\ task = "schedule_next" => input = "escalation"
  /\ IsReviewed => FollowsRisk

\* Past the understanding of the message, there are questions if and only if the
\* decision is to ask them, and the response asks what the decision says.
HasAsked == sufficiency.decision = "ask_clarification"

AsksUser == out.candidate.decision = "clarification_needed"

History == shown \cup reworded \cup unanswered

USE DEF history, History

QuestionInv ==
  /\ QuestionsAccountedFor
  /\ sufficiency.asked \subseteq History \cup out.questions
  /\ History \cup out.questions \subseteq sufficiency.asked
  /\ accepted = "none" =>
       out.questions \cap (shown \cup reworded \cup facts \cup sufficiency.unknown) = {}
  /\ task = "understand_message" => out.questions = {}
  /\ ~HasModel => out.candidate.text = "agent"
  /\ out.questions # {} => "understand_message" \in held /\ HasAsked
  /\ "understand_message" \in held /\ task \notin {"none", "understand_message"} /\ HasAsked =>
       out.questions # {}
  /\ "compose_response" \in held => sufficiency.intent \/ "understand_message" \in held
  /\ out.analysis.decision # "clarification_needed"
  /\ IsReviewed => (AsksUser <=> out.questions # {})

\* Without a model the agents come one after the other, and none comes twice.
Before ==
  [assess_safety |-> {},
   schedule_next |-> {"understand_message"},
   understand_message |-> {"understand_message"},
   retrieve_context |-> {"understand_message", "retrieve_context"},
   analyze_evidence |-> {"understand_message", "retrieve_context", "analyze_evidence"},
   compose_response |-> MessageScoped \ {"review_response"},
   review_response |-> MessageScoped,
   none |-> MessageScoped]

\* A reason for a chain to end without a final response.
KeyWasTaken ==
  \/ "review_response" \in held /\ HasModel
  \/ sufficiency.intent /\ (HasModel \/ ~(Required \subseteq facts))

\* A message that was understood comes back only with a reason.
SilenceInv ==
  /\ TurnsAreAnswered
  /\ status = "running" /\ task = "none" /\ out.final = "none" /\ ~broken => KeyWasTaken
  /\ ~HasModel => held \subseteq Before[task] /\ input # "escalation"
  /\ task \in {"assess_safety", "schedule_next"} /\ "understand_message" \in held =>
       ("review_response" \in held /\ HasModel) \/ sufficiency.intent
  /\ task = "understand_message" /\ "compose_response" \in held => sufficiency.intent

IInv ==
  TypeOK /\ ChainInv /\ StageInv /\ EvidenceInv /\ RiskInv /\ QuestionInv /\ SilenceInv

-----------------------------------------------------------------------------
\* What the actions have in common

\* A delivery derives its task.
Derives(t, artifact) ==
  /\ task' = t /\ input' = artifact /\ broken' = broken
  /\ held' = held \cup ({t} \cap MessageScoped)
  /\ round + 1 <= MaxTaskDepth
  /\ t \notin held

\* Or the chain ends: broken, or because the key of the task is taken.
ChainEnds(t) ==
  /\ task' = "none" /\ input' = "none" /\ held' = held
  /\ broken' = TRUE \/ (broken' = broken /\ t \in held)

LEMMA Derived ==
  ASSUME TypeOK, NEW t \in TaskTypes, NEW artifact, Derive(t, artifact)
  PROVE  Derives(t, artifact) \/ ChainEnds(t)
<1>1. round \in Nat /\ MaxTaskDepth \in Nat
  BY ConsultationAssumption DEF TypeOK
<1>2. CASE round + 1 > MaxTaskDepth
  <2>1. BreakOff
    BY <1>1, <1>2 DEF Derive
  <2>. QED  BY <2>1 DEF BreakOff, EndChain, ChainEnds
<1>3. CASE round + 1 <= MaxTaskDepth /\ t \in held
  <2>1. DeriveNothing
    BY <1>1, <1>3 DEF Derive
  <2>. QED  BY <1>3, <2>1 DEF DeriveNothing, EndChain, ChainEnds
<1>4. CASE round + 1 <= MaxTaskDepth /\ t \notin held
  BY <1>1, <1>4 DEF Derive, Derives
<1>5. round + 1 > MaxTaskDepth \/ round + 1 <= MaxTaskDepth
  BY <1>1
<1>. QED  BY <1>2, <1>3, <1>4, <1>5, Zenon

\* An agent claims its task.
LEMMA Claimed ==
  ASSUME TypeOK, NEW t \in TaskTypes, Claim(t)
  PROVE  /\ status = "running" /\ task = t /\ task \in TaskTypes /\ task # "none"
         /\ round \in Nat /\ round' = round + 1 /\ round' \in Nat
         /\ claims' \in [TaskTypes -> 0..MaxClaimsPerAgent]
         /\ turns' = turns /\ message' = message /\ status' = status
         /\ accepted' = accepted /\ UNCHANGED <<shown, reworded, unanswered>>
<1>1. claims \in [TaskTypes -> 0..MaxClaimsPerAgent] /\ MaxClaimsPerAgent \in Nat
  BY ConsultationAssumption DEF TypeOK
<1>2. claims' = [claims EXCEPT ![t] = @ + 1] /\ claims[t] < MaxClaimsPerAgent
  BY DEF Claim
<1>3. claims' \in [TaskTypes -> 0..MaxClaimsPerAgent]
  BY <1>1, <1>2
<1>. QED  BY <1>3 DEF Claim, TypeOK, TaskTypes

\* The constants have their types.
LEMMA Constants ==
  /\ NumFacts \in Nat /\ QuestionsPerRound \in Nat /\ MaxClarificationRounds \in Nat
  /\ MaxTaskDepth \in Nat /\ MaxRounds \in Nat /\ MaxRounds > MaxTaskDepth + 1
  /\ MaxClaimsPerAgent \in Nat /\ MaxTurns \in Nat
  /\ HasModel \in BOOLEAN
BY ConsultationAssumption

\* The fields of a message.
LEMMA MessageFields ==
  ASSUME NEW m \in Messages
  PROVE  /\ m.facts \subseteq Required
         /\ m.danger \in {"none", "high", "critical"}
         /\ m.dontknow \in BOOLEAN /\ m.picks \in BOOLEAN
<1>1. m \in Message
  BY ConsultationAssumption
<1>2. CASE m \in [facts : SUBSET Required, dontknow : BOOLEAN,
                  danger : {"none", "high", "critical"}, picks : {FALSE}]
  BY <1>2
<1>3. CASE m = [facts |-> {}, dontknow |-> FALSE, danger |-> "none", picks |-> TRUE]
  BY <1>3
<1>. QED  BY <1>1, <1>2, <1>3 DEF Message

\* The least of a set of facts.
LEMMA LeastFact ==
  ASSUME NEW keys, keys \subseteq Required, keys # {}
  PROVE  \E k \in keys : \A j \in keys : ~(j < k)
<1>1. keys \subseteq Nat
  BY Constants DEF Required
<1>2. \E k \in keys : \A j \in keys : <<j, k>> \notin OpToRel(<, Nat)
  BY <1>1, NatLessThanWellFounded, WFMin
<1>. QED  BY <1>1, <1>2 DEF OpToRel

\* Where there are questions, one is asked; what is asked is a question.
LEMMA SomeQuestion ==
  ASSUME NEW keys, keys \subseteq Required
  PROVE  /\ FirstQuestions(keys) \subseteq keys
         /\ keys # {} => FirstQuestions(keys) # {}
<1>1. ASSUME keys # {} PROVE FirstQuestions(keys) # {}
  <2>1. PICK k \in keys : \A j \in keys : ~(j < k)
    BY <1>1, LeastFact
  <2>2. {j \in keys : j < k} = {}
    BY <2>1
  <2>3. Cardinality({j \in keys : j < k}) = 0
    BY <2>2, FS_EmptySet
  <2>4. k \in FirstQuestions(keys)
    BY <2>3, ConsultationAssumption DEF FirstQuestions
  <2>. QED  BY <2>4
<1>. QED  BY <1>1 DEF FirstQuestions

\* The trend looks at three assessments at most.
LEMMA ThreeAssessments ==
  ASSUME NEW s \in Seq(BOOLEAN), Len(s) <= 3, NEW b \in BOOLEAN
  PROVE  LastThree(Append(s, b)) \in Seq(BOOLEAN) /\ Len(LastThree(Append(s, b))) <= 3
<1>. DEFINE a == Append(s, b)
            m == IF Len(a) > 3 THEN Len(a) - 2 ELSE 1
<1>1. a \in Seq(BOOLEAN) /\ Len(a) \in Nat /\ Len(a) <= 4
  OBVIOUS
<1>2. m \in Int /\ Len(a) \in Int /\ \A i \in m..Len(a) : a[i] \in BOOLEAN
  <2>1. m \in 1..4
    <3>1. \A n \in Nat : n <= 4 => (IF n > 3 THEN n - 2 ELSE 1) \in 1..4
      OBVIOUS
    <3>. QED  BY <1>1, <3>1
  <2>2. \A i \in 1..Len(a) : a[i] \in BOOLEAN
    BY <1>1
  <2>. QED  BY <1>1, <2>1, <2>2
<1>3. /\ SubSeq(a, m, Len(a)) \in Seq(BOOLEAN)
      /\ Len(SubSeq(a, m, Len(a))) = IF m <= Len(a) THEN Len(a) - m + 1 ELSE 0
  BY <1>2, SubSeqProperties
<1>. QED  BY <1>1, <1>3 DEF LastThree

-----------------------------------------------------------------------------
\* The invariant is kept

\* It holds before the first turn.
LEMMA InitInv == Init => IInv
<1>. SUFFICES ASSUME Init PROVE IInv
  OBVIOUS
<1>. USE Constants DEF Init, NoArtifacts, NoRisk, NoAnalysis, NoCandidate
<1>1. TypeOK
  <2>1. claims \in [TaskTypes -> 0..MaxClaimsPerAgent]
    OBVIOUS
  <2>2. sufficiency \in [clarification_round : 0..MaxClarificationRounds,
                         missing : SUBSET Required, asked : SUBSET Required,
                         unknown : SUBSET Required, intent : BOOLEAN, decision : Decisions]
    BY DEF Decisions
  <2>3. out \in [risk : Risk, questions : SUBSET Required,
                 evidence : {"none", "unverified", "verified"}, analysis : Analysis,
                 candidate : Candidate, final : {"none", "approved", "rejected"}]
    BY DEF Risk, Analysis, Candidate, Answers
  <2>4. <<>> \in Seq(BOOLEAN) /\ Len(<<>>) <= 3
    OBVIOUS
  <2>5. 0 \in 0..MaxTurns
    OBVIOUS
  <2>. QED  BY <2>1, <2>2, <2>3, <2>4, <2>5 DEF TypeOK
<1>2. ChainInv /\ StageInv /\ EvidenceInv
  BY DEF ChainInv, StageInv, StageConsistent, EvidenceInv, AnalysisIsJustified, MessageScoped,
         TaskTypes
<1>3. RiskInv /\ QuestionInv
  BY DEF RiskInv, RiskIsHeeded, CriticalNeverAnalysed, GuidanceFollowsRisk, IsReviewed,
         QuestionInv, QuestionsAccountedFor
<1>4. SilenceInv
  BY DEF SilenceInv, TurnsAreAnswered, BudgetFitsChain, SilenceHasACause, Before
<1>. QED  BY <1>1, <1>2, <1>3, <1>4 DEF IInv

\* A new turn finds the matter as the last one left it.
LEMMA BeginTurnInv == ASSUME IInv, NEW m \in Messages, BeginTurn(m) PROVE IInv'
<1>. USE Constants DEF BeginTurn, NoArtifacts, NoRisk, NoAnalysis, NoCandidate, matter, IInv
<1>1. TypeOK'
  <2>1. claims' \in [TaskTypes -> 0..MaxClaimsPerAgent]
    OBVIOUS
  <2>2. turns' \in 0..MaxTurns
    BY DEF TypeOK
  <2>3. out' \in [risk : Risk, questions : SUBSET Required,
                 evidence : {"none", "unverified", "verified"}, analysis : Analysis,
                 candidate : Candidate, final : {"none", "approved", "rejected"}]
    BY DEF Risk, Analysis, Candidate, Answers
  <2>. QED  BY <2>1, <2>2, <2>3 DEF TypeOK, TaskTypes
<1>2. ChainInv'
  BY DEF ChainInv, MessageScoped
<1>3. StageInv' /\ EvidenceInv'
  BY DEF StageInv, StageConsistent, EvidenceInv, AnalysisIsJustified
<1>4. RiskInv' /\ QuestionInv'
  BY DEF RiskInv, RiskIsHeeded, CriticalNeverAnalysed, GuidanceFollowsRisk, IsReviewed,
         QuestionInv, QuestionsAccountedFor
<1>5. SilenceInv'
  BY DEF SilenceInv, TurnsAreAnswered, BudgetFitsChain, SilenceHasACause, Before
<1>. QED  BY <1>1, <1>2, <1>3, <1>4, <1>5

\* What the artifacts of a run may be.
Artifacts ==
  [risk : Risk, questions : SUBSET Required, evidence : {"none", "unverified", "verified"},
   analysis : Analysis, candidate : Candidate, final : {"none", "approved", "rejected"}]

\* A round of an agent that goes by its task, and derives the next.
LEMMA ChainStep ==
  ASSUME IInv, NEW t \in TaskTypes, NEW artifact,
         status = "running", status' = status, task # "none", accepted' = accepted,
         round' = round + 1,
         Derives(t, artifact) \/ ChainEnds(t),
         task' # "none" => out'.final = "none"
  PROVE  ChainInv' /\ BudgetFitsChain' /\ SilenceHasACause'
<1>1. round \in Nat /\ MaxTaskDepth \in Nat /\ MaxRounds \in Nat /\ MaxRounds > MaxTaskDepth + 1
  BY Constants DEF IInv, TypeOK
<1>2. round <= MaxTaskDepth
  BY DEF IInv, ChainInv
<1>3. round' <= MaxTaskDepth + 1 /\ (round' <= MaxTaskDepth \/ task' = "none")
  BY <1>1, <1>2 DEF Derives, ChainEnds
<1>4. BudgetFitsChain' /\ SilenceHasACause'
  BY <1>1, <1>3 DEF BudgetFitsChain, SilenceHasACause
<1>5. task' \in MessageScoped => task' \in held'
  BY DEF Derives, ChainEnds, MessageScoped, TaskTypes
<1>6. accepted # "final"
  BY DEF IInv, ChainInv
<1>. QED  BY <1>3, <1>4, <1>5, <1>6 DEF ChainInv

\* SafetyAgent
LEMMA AssessSafetyInv == ASSUME IInv, AssessSafety PROVE IInv'
<1>. DEFINE T == "assess_safety"
<1>t. TypeOK /\ ChainInv /\ StageInv /\ EvidenceInv /\ RiskInv /\ QuestionInv /\ SilenceInv
  BY DEF IInv
<1>1. /\ status = "running" /\ task = T /\ status' = status /\ round' = round + 1
      /\ round' \in Nat /\ claims' \in [TaskTypes -> 0..MaxClaimsPerAgent]
      /\ turns' = turns /\ message' = message /\ accepted' = accepted /\ UNCHANGED <<shown, reworded, unanswered>>
      /\ facts' = facts /\ sufficiency' = sufficiency
  BY <1>t, Claimed DEF AssessSafety, TaskTypes
<1>2. PICK risk \in Assessments :
        /\ softRisks' = LastThree(Append(softRisks, risk.level = "medium"))
        /\ IF risk.level = "critical"
             THEN /\ out' = [out EXCEPT !.risk = risk,
                                        !.candidate = [decision |-> "limited_answer", guidance |-> TRUE,
                                                      text |-> "agent"]]
                  /\ Derive("review_response", "candidate")
             ELSE /\ out' = [out EXCEPT !.risk = risk]
                  /\ Derive("schedule_next", "risk")
  BY DEF AssessSafety
<1>3. risk \in Risk /\ (risk.level = "critical" <=> message.danger = "critical")
  <2>1. message \in Messages /\ message.danger \in {"none", "high", "critical"}
    BY <1>t, MessageFields DEF TypeOK
  <2>2. CASE message.danger # "none"
    <3>1. risk = [level |-> message.danger, advises |-> TRUE]
      BY <2>2 DEF Assessments
    <3>. QED  BY <2>1, <2>2, <3>1 DEF Risk
  <2>3. CASE message.danger = "none"
    <3>1. risk \in {[level |-> "medium", advises |-> TRUE], NoRisk}
                      \cup [level : {"medium"}, advises : BOOLEAN]
      BY <2>3 DEF Assessments
    <3>2. \/ risk = [level |-> "medium", advises |-> TRUE]
          \/ risk = [level |-> "low", advises |-> FALSE]
          \/ risk \in [level : {"medium"}, advises : BOOLEAN]
      BY <3>1 DEF NoRisk
    <3>3. CASE risk = [level |-> "medium", advises |-> TRUE]
      BY <2>3, <3>3 DEF Risk
    <3>4. CASE risk = [level |-> "low", advises |-> FALSE]
      BY <2>3, <3>4 DEF Risk
    <3>5. CASE risk \in [level : {"medium"}, advises : BOOLEAN]
      <4>1. risk = [level |-> risk.level, advises |-> risk.advises] /\ risk.level = "medium"
        BY <3>5
      <4>. QED  BY <2>3, <3>5, <4>1 DEF Risk
    <3>. QED  BY <3>2, <3>3, <3>4, <3>5
  <2>. QED  BY <2>2, <2>3
<1>4. softRisks' \in Seq(BOOLEAN) /\ Len(softRisks') <= 3
  BY <1>t, <1>2, ThreeAssessments DEF TypeOK
<1>5. /\ out' \in Artifacts
      /\ out'.risk = risk /\ out'.questions = out.questions /\ out'.evidence = out.evidence
      /\ out'.analysis = out.analysis /\ out'.final = out.final
      /\ risk.level # "critical" => out'.candidate = out.candidate
      /\ risk.level = "critical" =>
           /\ out'.candidate.decision = "limited_answer" /\ out'.candidate.guidance
           /\ out'.candidate.text = "agent"
  <2>1. out \in Artifacts
    BY <1>t DEF TypeOK, Artifacts
  <2>2. [decision |-> "limited_answer", guidance |-> TRUE, text |-> "agent"] \in Candidate
    BY DEF Candidate, Answers
  <2>3. CASE risk.level = "critical"
    <3>1. out' = [out EXCEPT !.risk = risk,
                             !.candidate = [decision |-> "limited_answer", guidance |-> TRUE,
                                            text |-> "agent"]]
      BY <1>2, <2>3
    <3>. QED  BY <1>3, <2>1, <2>2, <2>3, <3>1 DEF Artifacts
  <2>4. CASE risk.level # "critical"
    <3>1. out' = [out EXCEPT !.risk = risk]
      BY <1>2, <2>4
    <3>. QED  BY <1>3, <2>1, <2>4, <3>1 DEF Artifacts
  <2>. QED  BY <2>3, <2>4
<1>6. /\ risk.level = "critical" =>
           Derives("review_response", "candidate") \/ ChainEnds("review_response")
      /\ risk.level # "critical" => Derives("schedule_next", "risk") \/ ChainEnds("schedule_next")
  BY <1>t, <1>2, Derived DEF TaskTypes
<1>7. out.final = "none" /\ accepted # "final"
  BY <1>t, <1>1 DEF ChainInv
<1>8. ChainInv' /\ BudgetFitsChain' /\ SilenceHasACause'
  BY <1>1, <1>5, <1>6, <1>7, ChainStep DEF TaskTypes
<1>9. TypeOK'
  BY <1>t, <1>1, <1>4, <1>5, <1>6 DEF TypeOK, Artifacts, Derives, ChainEnds, TaskTypes, MessageScoped
<1>10. StageInv' /\ EvidenceInv'
  <2>1. held \subseteq held' /\ held' \ held \subseteq {"review_response"}
    BY <1>6 DEF Derives, ChainEnds, MessageScoped
  <2>. QED  BY <1>t, <1>1, <1>5, <1>7, <2>1
            DEF StageInv, StageConsistent, EvidenceInv, AnalysisIsJustified
<1>11. RiskInv'
  BY <1>t, <1>1, <1>3, <1>5, <1>6, <1>7
     DEF RiskInv, RiskIsHeeded, CriticalNeverAnalysed, GuidanceFollowsRisk, IsReviewed, FollowsRisk,
         Derives, ChainEnds, MessageScoped, TaskTypes
<1>12. QuestionInv'
  BY <1>t, <1>1, <1>3, <1>5, <1>6, <1>7
     DEF QuestionInv, QuestionsAccountedFor, HasAsked, AsksUser, IsReviewed, RiskInv, RiskIsHeeded,
         CriticalNeverAnalysed, Derives, ChainEnds, MessageScoped, TaskTypes
<1>13. SilenceInv'
  <2>1. held \subseteq MessageScoped
    BY <1>t DEF TypeOK
  <2>2. /\ ~HasModel => held = {} /\ input' # "escalation"
        /\ "understand_message" \in held =>
             ("review_response" \in held /\ HasModel) \/ sufficiency.intent
    BY <1>t, <1>1, <1>6 DEF SilenceInv, Before, Derives, ChainEnds
  <2>3. ~HasModel => held' \subseteq Before[task'] /\ input' # "escalation"
    BY <1>6, <2>2 DEF Before, Derives, ChainEnds, MessageScoped, TaskTypes
  <2>4. status' = "running" /\ task' = "none" /\ out'.final = "none" /\ ~broken' => KeyWasTaken'
    BY <1>6, <2>1, <2>2, Constants DEF KeyWasTaken, ChainEnds, Derives, MessageScoped
  <2>. QED  BY <1>1, <1>6, <1>8, <2>2, <2>3, <2>4
            DEF SilenceInv, TurnsAreAnswered, Derives, ChainEnds, MessageScoped
<1>. QED  BY <1>8, <1>9, <1>10, <1>11, <1>12, <1>13 DEF IInv

\* A task that is blocked or fails ends the chain.
LEMMA BreakOffInv == ASSUME IInv, BlockTask \/ FailTask PROVE IInv'
<1>t. TypeOK /\ ChainInv /\ StageInv /\ EvidenceInv /\ RiskInv /\ QuestionInv /\ SilenceInv
  BY DEF IInv
<1>1. /\ status = "running" /\ task \in TaskTypes /\ task # "none" /\ round' = round + 1
      /\ claims' \in [TaskTypes -> 0..MaxClaimsPerAgent]
      /\ UNCHANGED <<matter, turns, message, status, accepted, out, shown, reworded, unanswered, held>>
      /\ task' = "none" /\ input' = "none" /\ broken' = TRUE
  <2>1. CASE BlockTask
    BY <1>t, <2>1 DEF BlockTask, BreakOff, EndChain, TypeOK
  <2>2. CASE FailTask
    BY <1>t, <2>2, Claimed DEF FailTask, BreakOff, EndChain
  <2>. QED  BY <2>1, <2>2
<1>2. round' \in Nat
  BY <1>t, <1>1 DEF TypeOK
<1>3. ChainEnds(task)
  BY <1>1 DEF ChainEnds
<1>4. ChainInv' /\ BudgetFitsChain' /\ SilenceHasACause'
  BY <1>1, <1>3, ChainStep
<1>5. TypeOK'
  BY <1>t, <1>1, <1>2 DEF TypeOK, matter
<1>6. StageInv' /\ EvidenceInv'
  BY <1>t, <1>1 DEF StageInv, StageConsistent, EvidenceInv, AnalysisIsJustified, matter
<1>7. RiskInv' /\ QuestionInv'
  BY <1>t, <1>1 DEF RiskInv, RiskIsHeeded, CriticalNeverAnalysed, GuidanceFollowsRisk, IsReviewed,
                    FollowsRisk, QuestionInv, QuestionsAccountedFor, HasAsked, AsksUser, matter
<1>8. SilenceInv'
  BY <1>t, <1>1, <1>4 DEF SilenceInv, TurnsAreAnswered, Before, TypeOK
<1>. QED  BY <1>4, <1>5, <1>6, <1>7, <1>8 DEF IInv

\* SchedulerAgent asks for a task.
LEMMA ScheduleNextInv == ASSUME IInv, ScheduleNext PROVE IInv'
<1>t. TypeOK /\ ChainInv /\ StageInv /\ EvidenceInv /\ RiskInv /\ QuestionInv /\ SilenceInv
  BY DEF IInv
<1>1. /\ status = "running" /\ task = "schedule_next" /\ status' = status /\ round' = round + 1
      /\ round' \in Nat /\ claims' \in [TaskTypes -> 0..MaxClaimsPerAgent]
      /\ UNCHANGED <<matter, turns, message, accepted, shown, reworded, unanswered, out>>
  BY <1>t, Claimed DEF ScheduleNext, TaskTypes
<1>2. PICK t \in RequiredTasks : Derive(t, "intent")
  BY DEF ScheduleNext
<1>3. /\ t \in TaskTypes \ {"schedule_next"}
      /\ input = "escalation" => t = "assess_safety"
      /\ input # "escalation" /\ ~IntakeReady => t = "understand_message"
      /\ input # "escalation" /\ IntakeReady /\ ~HasModel => t = "retrieve_context"
  BY <1>2 DEF RequiredTasks, Schedulable, TaskTypes
<1>4. Derives(t, "intent") \/ ChainEnds(t)
  BY <1>t, <1>2, <1>3, Derived
<1>5. out.final = "none" /\ accepted # "final"
  BY <1>t, <1>1 DEF ChainInv
<1>6. ChainInv' /\ BudgetFitsChain' /\ SilenceHasACause'
  BY <1>1, <1>3, <1>4, <1>5, ChainStep DEF TaskTypes
<1>7. TypeOK'
  <2>1. /\ task' \in TaskTypes \cup {"none"} /\ input' \in {"none", "intent"}
        /\ held' \subseteq MessageScoped /\ broken' \in BOOLEAN
    BY <1>t, <1>3, <1>4 DEF TypeOK, Derives, ChainEnds
  <2>. QED  BY <1>t, <1>1, <2>1 DEF TypeOK, matter
<1>8. StageInv'
  BY <1>t, <1>1 DEF StageInv, StageConsistent, matter
<1>9. EvidenceInv'
  BY <1>t, <1>1, <1>3, <1>4, <1>5
     DEF EvidenceInv, AnalysisIsJustified, StageConsistent, IntakeReady, Derives, ChainEnds, matter
<1>10. RiskInv'
  BY <1>t, <1>1, <1>3, <1>4, <1>5
     DEF RiskInv, RiskIsHeeded, CriticalNeverAnalysed, GuidanceFollowsRisk, IsReviewed, FollowsRisk,
         Derives, ChainEnds, MessageScoped, TaskTypes
<1>11. QuestionInv'
  BY <1>t, <1>1, <1>3, <1>4, <1>5
     DEF QuestionInv, QuestionsAccountedFor, HasAsked, AsksUser, IsReviewed, StageInv, StageConsistent,
         IntakeReady, Derives, ChainEnds, MessageScoped, TaskTypes, matter
<1>12. SilenceInv'
  <2>1. held \subseteq MessageScoped
    BY <1>t DEF TypeOK
  <2>2. /\ ~HasModel => held \subseteq {"understand_message"} /\ input # "escalation"
        /\ "understand_message" \in held =>
             ("review_response" \in held /\ HasModel) \/ sufficiency.intent
    BY <1>t, <1>1 DEF SilenceInv, Before
  <2>3. ~HasModel => held' \subseteq Before[task'] /\ input' # "escalation"
    BY <1>3, <1>4, <2>2 DEF Before, Derives, ChainEnds, MessageScoped, TaskTypes
  <2>4. status' = "running" /\ task' = "none" /\ out'.final = "none" /\ ~broken' => KeyWasTaken'
    BY <1>1, <1>3, <1>4, <2>1, <2>2, Constants
       DEF KeyWasTaken, IntakeReady, ChainEnds, Derives, MessageScoped, matter, TaskTypes
  <2>5. task' = "understand_message" /\ "compose_response" \in held' => sufficiency'.intent
    BY <1>t, <1>1, <1>3, <1>4 DEF QuestionInv, Derives, ChainEnds, MessageScoped, matter
  <2>6. task' \in {"assess_safety", "schedule_next"} /\ "understand_message" \in held' =>
          ("review_response" \in held' /\ HasModel) \/ sufficiency'.intent
    BY <1>1, <1>3, <1>4, <2>2 DEF Derives, ChainEnds, MessageScoped, matter
  <2>. QED  BY <1>6, <2>3, <2>4, <2>5, <2>6 DEF SilenceInv, TurnsAreAnswered
<1>. QED  BY <1>6, <1>7, <1>8, <1>9, <1>10, <1>11, <1>12 DEF IInv

\* It asks for none.
LEMMA EscalateInv == ASSUME IInv, Escalate PROVE IInv'
<1>t. TypeOK /\ ChainInv /\ StageInv /\ EvidenceInv /\ RiskInv /\ QuestionInv /\ SilenceInv
  BY DEF IInv
<1>1. /\ HasModel /\ IntakeReady
      /\ status = "running" /\ task = "schedule_next" /\ status' = status /\ round' = round + 1
      /\ round' \in Nat /\ claims' \in [TaskTypes -> 0..MaxClaimsPerAgent]
      /\ UNCHANGED <<matter, turns, message, accepted, shown, reworded, unanswered, out, held, broken>>
      /\ task' = "none" /\ input' = "none"
  BY <1>t, Claimed DEF Escalate, DeriveNothing, EndChain, TaskTypes
<1>2. ChainInv' /\ BudgetFitsChain' /\ SilenceHasACause'
  <2>1. round \in Nat /\ round <= MaxTaskDepth
    BY <1>t, <1>1 DEF TypeOK, ChainInv
  <2>. QED  BY <1>t, <1>1, <2>1, Constants
            DEF ChainInv, BudgetFitsChain, SilenceHasACause, MessageScoped, TaskTypes
<1>3. TypeOK'
  BY <1>t, <1>1 DEF TypeOK, matter
<1>4. StageInv' /\ EvidenceInv'
  BY <1>t, <1>1 DEF StageInv, StageConsistent, EvidenceInv, AnalysisIsJustified, matter
<1>5. RiskInv' /\ QuestionInv'
  BY <1>t, <1>1 DEF RiskInv, RiskIsHeeded, CriticalNeverAnalysed, GuidanceFollowsRisk, IsReviewed,
                    FollowsRisk, QuestionInv, QuestionsAccountedFor, HasAsked, AsksUser, matter
<1>6. SilenceInv'
  BY <1>t, <1>1, <1>2 DEF SilenceInv, TurnsAreAnswered, KeyWasTaken, IntakeReady, matter
<1>. QED  BY <1>2, <1>3, <1>4, <1>5, <1>6 DEF IInv

\* UnderstandingAgent
LEMMA UnderstandMessageInv == ASSUME IInv, UnderstandMessage PROVE IInv'
<1>. DEFINE T == "understand_message"
            unknown == sufficiency.unknown
                         \cup (IF message.dontknow THEN sufficiency.missing ELSE {})
            missing == Required \ (facts' \cup unknown)
            available == missing \ sufficiency.asked
            asks == /\ missing # {}
                    /\ sufficiency.clarification_round < MaxClarificationRounds
                    /\ available # {}
            questions == IF asks THEN FirstQuestions(available) ELSE {}
            intent == sufficiency.intent \/ Confirms(missing)
            decision == IF missing = {}
                          THEN IF intent THEN "start_retrieval" ELSE "confirm_intent"
                          ELSE IF asks THEN "ask_clarification" ELSE "deliver_limited_response"
            next == IF decision = "start_retrieval" THEN "schedule_next" ELSE "compose_response"
<1>t. TypeOK /\ ChainInv /\ StageInv /\ EvidenceInv /\ RiskInv /\ QuestionInv /\ SilenceInv
  BY DEF IInv
<1>1. /\ status = "running" /\ task = T /\ status' = status /\ round' = round + 1
      /\ round' \in Nat /\ claims' \in [TaskTypes -> 0..MaxClaimsPerAgent]
      /\ turns' = turns /\ message' = message /\ accepted' = accepted /\ UNCHANGED <<shown, reworded, unanswered>>
      /\ softRisks' = softRisks
  BY <1>t, Claimed DEF UnderstandMessage, TaskTypes
<1>2. /\ facts' = facts \cup message.facts
      /\ sufficiency' =
           [clarification_round |-> sufficiency.clarification_round + (IF asks THEN 1 ELSE 0),
            missing |-> missing, asked |-> sufficiency.asked \cup questions,
            unknown |-> unknown, intent |-> intent, decision |-> decision]
      /\ out' = [out EXCEPT !.questions = questions]
      /\ Derive(next, "assessment")
  BY DEF UnderstandMessage, Asked
<1>3. /\ facts' \subseteq Required /\ unknown \subseteq Required /\ intent \in BOOLEAN
      /\ sufficiency.asked \subseteq Required
  BY <1>t, <1>2, MessageFields DEF TypeOK, Confirms
<1>4. /\ questions \subseteq missing \ sufficiency.asked
      /\ asks => questions # {}
      /\ ~asks => questions = {}
  BY SomeQuestion
<1>5. Derives(next, "assessment") \/ ChainEnds(next)
  BY <1>t, <1>2, Derived DEF TaskTypes
<1>6. out.final = "none" /\ accepted # "final" /\ T \in held
  BY <1>t, <1>1 DEF ChainInv, MessageScoped, TaskTypes
<1>7. message.danger # "critical"
  BY <1>t, <1>1 DEF RiskInv
<1>8. /\ out' \in Artifacts /\ out'.questions = questions
      /\ out'.risk = out.risk /\ out'.evidence = out.evidence /\ out'.analysis = out.analysis
      /\ out'.candidate = out.candidate /\ out'.final = out.final
  <2>1. out \in Artifacts
    BY <1>t DEF TypeOK, Artifacts
  <2>2. questions \subseteq Required
    BY <1>4
  <2>. HIDE DEF questions
  <2>. QED  BY <1>2, <2>1, <2>2 DEF Artifacts
<1>9. /\ sufficiency'.clarification_round \in 0..MaxClarificationRounds
      /\ sufficiency'.missing = missing /\ sufficiency'.unknown = unknown
      /\ sufficiency'.asked = sufficiency.asked \cup questions
      /\ sufficiency'.intent = intent /\ sufficiency'.decision = decision
      /\ DOMAIN sufficiency' = {"clarification_round", "missing", "asked", "unknown", "intent",
                                "decision"}
  <2>1. sufficiency.clarification_round + (IF asks THEN 1 ELSE 0) \in 0..MaxClarificationRounds
    <3>1. sufficiency.clarification_round \in 0..MaxClarificationRounds
      BY <1>t DEF TypeOK
    <3>2. CASE asks
      BY <3>1, <3>2, Constants
    <3>3. CASE ~asks
      BY <3>1, <3>3, Constants
    <3>. QED  BY <3>2, <3>3
  <2>. HIDE DEF missing, unknown, asks, questions, intent, decision
  <2>. QED  BY <1>2, <2>1
<1>10. /\ decision \in Decisions
       /\ missing = {} /\ intent <=> decision = "start_retrieval"
       /\ asks <=> decision = "ask_clarification"
  <2>. HIDE DEF missing, intent
  <2>. QED  BY DEF Decisions
<1>11. ChainInv' /\ BudgetFitsChain' /\ SilenceHasACause'
  <2>. HIDE DEF decision
  <2>. QED  BY <1>1, <1>5, <1>6, <1>8, ChainStep DEF TaskTypes
<1>12. /\ intent => missing = {}
       /\ sufficiency.intent => intent
  <2>1. sufficiency.intent => Required \subseteq facts \cup sufficiency.unknown
    BY <1>t DEF StageInv
  <2>. QED  BY <1>2, <2>1 DEF Confirms
<1>. HIDE DEF missing, unknown, asks, questions, intent, decision, available
<1>13. TypeOK'
  <2>1. sufficiency' \in [clarification_round : 0..MaxClarificationRounds,
                          missing : SUBSET Required, asked : SUBSET Required,
                          unknown : SUBSET Required, intent : BOOLEAN, decision : Decisions]
    <3>1. missing \subseteq Required /\ questions \subseteq Required
      BY <1>4 DEF missing
    <3>2. sufficiency.clarification_round + (IF asks THEN 1 ELSE 0) \in 0..MaxClarificationRounds
      BY <1>2, <1>9
    <3>. QED  BY <1>2, <1>3, <1>10, <3>1, <3>2
  <2>2. task' \in TaskTypes \cup {"none"} /\ input' \in {"none", "assessment"}
        /\ held' \subseteq MessageScoped /\ broken' \in BOOLEAN
    BY <1>t, <1>5 DEF TypeOK, Derives, ChainEnds, TaskTypes, MessageScoped
  <2>. QED  BY <1>t, <1>1, <1>3, <1>8, <2>1, <2>2 DEF TypeOK, Artifacts
<1>14. StageInv'
  <2>1. missing = {} => Required \subseteq facts' \cup unknown
    BY DEF missing
  <2>. QED  BY <1>9, <1>10, <1>12, <2>1 DEF StageInv, StageConsistent
<1>15. EvidenceInv'
  <2>1. facts \subseteq facts'
    BY <1>2
  <2>2. held \subseteq held' /\ held' \ held \subseteq {"compose_response"}
    BY <1>5 DEF Derives, ChainEnds, MessageScoped
  <2>. QED  BY <1>t, <1>1, <1>6, <1>8, <1>9, <1>12, <1>14, <2>1, <2>2
            DEF EvidenceInv, AnalysisIsJustified, StageInv
<1>16. RiskInv'
  BY <1>t, <1>1, <1>5, <1>6, <1>7, <1>8
     DEF RiskInv, RiskIsHeeded, CriticalNeverAnalysed, GuidanceFollowsRisk, IsReviewed, FollowsRisk,
         Derives, ChainEnds
<1>17. QuestionInv'
  <2>1. /\ questions \cap (facts' \cup unknown) = {}
        /\ questions \cap sufficiency.asked = {}
    BY <1>4 DEF missing
  <2>2. /\ History' = History /\ out.questions = {} /\ accepted # "final"
        /\ sufficiency.asked = History
    BY <1>t, <1>1 DEF QuestionInv, ChainInv, History
  <2>5. /\ sufficiency'.asked = History' \cup questions
        /\ questions \cap (shown' \cup reworded' \cup facts' \cup sufficiency'.unknown) = {}
    BY <1>t, <1>1, <1>9, <2>1, <2>2 DEF QuestionInv, History
  <2>6. QuestionsAccountedFor'
    BY <1>t, <1>1, <1>6, <2>2 DEF QuestionInv, QuestionsAccountedFor
  <2>7. task' # T
    BY <1>5 DEF Derives, ChainEnds
  <2>3. T \in held' /\ (HasAsked' <=> questions # {})
    BY <1>4, <1>5, <1>6, <1>9, <1>10 DEF HasAsked, Derives, ChainEnds
  <2>4. ~IsReviewed'
    BY <1>5, <1>6, <1>8 DEF IsReviewed, Derives, ChainEnds
  <2>. QED  BY <1>t, <1>1, <1>6, <1>8, <2>3, <2>4, <2>5, <2>6, <2>7
            DEF QuestionInv
<1>18. SilenceInv'
  <2>1. held \subseteq MessageScoped
    BY <1>t DEF TypeOK
  <2>2. ~HasModel => held \subseteq {"understand_message"}
    BY <1>t, <1>1 DEF SilenceInv, Before
  <2>3. ~HasModel => held' \subseteq Before[task'] /\ input' # "escalation"
    BY <1>5, <2>2 DEF Before, Derives, ChainEnds, MessageScoped, TaskTypes
  <2>4. next \notin held
    <3>1. CASE decision = "start_retrieval"
      BY <2>1, <3>1 DEF MessageScoped
    <3>2. CASE decision # "start_retrieval"
      BY <1>t, <1>1, <1>10, <1>12, <3>2 DEF SilenceInv
    <3>. QED  BY <3>1, <3>2
  <2>5. broken' \/ task' = next
    BY <1>5, <2>4 DEF Derives, ChainEnds
  <2>6. task' = "schedule_next" => sufficiency'.intent
    BY <1>5, <1>9, <1>10 DEF Derives, ChainEnds
  <2>7. task' \notin {"assess_safety", "understand_message"}
    BY <1>5 DEF Derives, ChainEnds
  <2>8. next # "none"
    OBVIOUS
  <2>. HIDE DEF next
  <2>. QED  BY <1>11, <2>3, <2>5, <2>6, <2>7, <2>8 DEF SilenceInv, TurnsAreAnswered
<1>. QED  BY <1>11, <1>13, <1>14, <1>15, <1>16, <1>17, <1>18 DEF IInv

\* RetrievalAgent
LEMMA RetrieveContextInv == ASSUME IInv, RetrieveContext PROVE IInv'
<1>. DEFINE T == "retrieve_context"
<1>t. TypeOK /\ ChainInv /\ StageInv /\ EvidenceInv /\ RiskInv /\ QuestionInv /\ SilenceInv
  BY DEF IInv
<1>1. /\ status = "running" /\ task = T /\ status' = status /\ round' = round + 1
      /\ round' \in Nat /\ claims' \in [TaskTypes -> 0..MaxClaimsPerAgent]
      /\ UNCHANGED <<matter, turns, message, accepted, shown, reworded, unanswered>>
      /\ Derive("analyze_evidence", "evidence")
  BY <1>t, Claimed DEF RetrieveContext, TaskTypes
<1>2. PICK found \in {"none", "unverified", "verified"} : out' = [out EXCEPT !.evidence = found]
  BY DEF RetrieveContext
<1>3. /\ out' \in Artifacts
      /\ out'.risk = out.risk /\ out'.questions = out.questions /\ out'.analysis = out.analysis
      /\ out'.candidate = out.candidate /\ out'.final = out.final
  BY <1>t, <1>2 DEF TypeOK, Artifacts
<1>4. Derives("analyze_evidence", "evidence") \/ ChainEnds("analyze_evidence")
  BY <1>t, <1>1, Derived DEF TaskTypes
<1>5. out.final = "none" /\ accepted # "final" /\ T \in held
  BY <1>t, <1>1 DEF ChainInv, MessageScoped, TaskTypes
<1>6. sufficiency.intent /\ Required \subseteq facts
  BY <1>t, <1>5 DEF EvidenceInv, AnalysisIsJustified
<1>7. ChainInv' /\ BudgetFitsChain' /\ SilenceHasACause'
  BY <1>1, <1>3, <1>4, <1>5, ChainStep DEF TaskTypes
<1>8. TypeOK'
  BY <1>t, <1>1, <1>3, <1>4
     DEF TypeOK, Artifacts, Derives, ChainEnds, TaskTypes, MessageScoped, matter
<1>9. StageInv' /\ EvidenceInv'
  <2>1. held \subseteq held'
    BY <1>4 DEF Derives, ChainEnds
  <2>. QED  BY <1>t, <1>1, <1>3, <1>5, <1>6, <2>1
            DEF StageInv, StageConsistent, EvidenceInv, AnalysisIsJustified, matter
<1>10. RiskInv'
  BY <1>t, <1>1, <1>3, <1>4, <1>5
     DEF RiskInv, RiskIsHeeded, CriticalNeverAnalysed, GuidanceFollowsRisk, IsReviewed, FollowsRisk,
         Derives, ChainEnds
<1>11. QuestionInv'
  BY <1>t, <1>1, <1>3, <1>4, <1>5
     DEF QuestionInv, QuestionsAccountedFor, HasAsked, AsksUser, IsReviewed, Derives, ChainEnds,
         MessageScoped, TaskTypes, matter
<1>12. SilenceInv'
  <2>1. ~HasModel => held \subseteq {"understand_message", T}
    BY <1>t, <1>1 DEF SilenceInv, Before
  <2>2. ~HasModel => held' \subseteq Before[task'] /\ input' # "escalation"
    BY <1>4, <2>1 DEF Before, Derives, ChainEnds, MessageScoped, TaskTypes
  <2>3. task' = "none" /\ ~broken' => HasModel
    BY <1>4, <2>1 DEF Derives, ChainEnds
  <2>4. task' \in {"none", "analyze_evidence"}
    BY <1>4 DEF Derives, ChainEnds
  <2>. QED  BY <1>1, <1>6, <1>7, <2>2, <2>3, <2>4
            DEF SilenceInv, TurnsAreAnswered, KeyWasTaken, matter
<1>. QED  BY <1>7, <1>8, <1>9, <1>10, <1>11, <1>12 DEF IInv

\* AnalysisAgent
LEMMA AnalyzeEvidenceInv == ASSUME IInv, AnalyzeEvidence PROVE IInv'
<1>. DEFINE T == "analyze_evidence"
<1>t. TypeOK /\ ChainInv /\ StageInv /\ EvidenceInv /\ RiskInv /\ QuestionInv /\ SilenceInv
  BY DEF IInv
<1>1. /\ status = "running" /\ task = T /\ status' = status /\ round' = round + 1
      /\ round' \in Nat /\ claims' \in [TaskTypes -> 0..MaxClaimsPerAgent]
      /\ UNCHANGED <<matter, turns, message, accepted, shown, reworded, unanswered>>
      /\ Derive("compose_response", "analysis")
  BY <1>t, Claimed DEF AnalyzeEvidence, TaskTypes
<1>2. PICK a \in Analyses : out' = [out EXCEPT !.analysis = a]
  BY DEF AnalyzeEvidence
<1>3. a \in Analysis /\ a.decision # "clarification_needed"
  <2>. DEFINE found == IF input = "evidence" THEN out.evidence ELSE "none"
  <2>1. found \in {"none", "unverified", "verified"}
    BY <1>t DEF TypeOK
  <2>2. CASE found = "verified"
    <3>1. a \in [decision : {"supported_answer"}, limits : BOOLEAN]
      BY <2>2 DEF Analyses
    <3>2. a = [decision |-> a.decision, limits |-> a.limits] /\ a.decision = "supported_answer"
      BY <3>1
    <3>. QED  BY <3>1, <3>2 DEF Analysis, Answers
  <2>3. CASE found = "unverified"
    <3>1. a = [decision |-> "constructive_abstention", limits |-> TRUE]
      BY <2>3 DEF Analyses
    <3>. QED  BY <3>1 DEF Analysis, Answers
  <2>4. CASE found = "none"
    <3>1. a = NoAnalysis
      BY <2>4 DEF Analyses
    <3>. QED  BY <3>1 DEF NoAnalysis, Analysis, Answers
  <2>. QED  BY <2>1, <2>2, <2>3, <2>4
<1>4. /\ out' \in Artifacts /\ out'.analysis = a
      /\ out'.risk = out.risk /\ out'.questions = out.questions /\ out'.evidence = out.evidence
      /\ out'.candidate = out.candidate /\ out'.final = out.final
  BY <1>t, <1>2, <1>3 DEF TypeOK, Artifacts
<1>5. Derives("compose_response", "analysis") \/ ChainEnds("compose_response")
  BY <1>t, <1>1, Derived DEF TaskTypes
<1>6. out.final = "none" /\ accepted # "final" /\ T \in held
  BY <1>t, <1>1 DEF ChainInv, MessageScoped, TaskTypes
<1>7. sufficiency.intent /\ Required \subseteq facts
  BY <1>t, <1>6 DEF EvidenceInv, AnalysisIsJustified
<1>8. ChainInv' /\ BudgetFitsChain' /\ SilenceHasACause'
  BY <1>1, <1>4, <1>5, <1>6, ChainStep DEF TaskTypes
<1>9. TypeOK'
  BY <1>t, <1>1, <1>4, <1>5
     DEF TypeOK, Artifacts, Derives, ChainEnds, TaskTypes, MessageScoped, matter
<1>10. StageInv' /\ EvidenceInv'
  <2>1. held \subseteq held'
    BY <1>5 DEF Derives, ChainEnds
  <2>. QED  BY <1>t, <1>1, <1>4, <1>6, <1>7, <2>1
            DEF StageInv, StageConsistent, EvidenceInv, AnalysisIsJustified, matter
<1>11. RiskInv'
  BY <1>t, <1>1, <1>4, <1>5, <1>6
     DEF RiskInv, RiskIsHeeded, CriticalNeverAnalysed, GuidanceFollowsRisk, IsReviewed, FollowsRisk,
         Derives, ChainEnds
<1>12. QuestionInv'
  BY <1>t, <1>1, <1>3, <1>4, <1>5, <1>6, <1>7
     DEF QuestionInv, QuestionsAccountedFor, HasAsked, AsksUser, IsReviewed, Derives, ChainEnds,
         MessageScoped, TaskTypes, matter
<1>13. SilenceInv'
  <2>1. ~HasModel => held \subseteq {"understand_message", "retrieve_context", T}
    BY <1>t, <1>1 DEF SilenceInv, Before
  <2>2. ~HasModel => held' \subseteq Before[task'] /\ input' # "escalation"
    BY <1>5, <2>1 DEF Before, Derives, ChainEnds, MessageScoped, TaskTypes
  <2>3. task' = "none" /\ ~broken' => HasModel
    BY <1>5, <2>1 DEF Derives, ChainEnds
  <2>4. task' \in {"none", "compose_response"}
    BY <1>5 DEF Derives, ChainEnds
  <2>. QED  BY <1>1, <1>7, <1>8, <2>2, <2>3, <2>4
            DEF SilenceInv, TurnsAreAnswered, KeyWasTaken, matter
<1>. QED  BY <1>8, <1>9, <1>10, <1>11, <1>12, <1>13 DEF IInv

\* ResponseAgent composes an answer.
LEMMA ComposeResponseInv == ASSUME IInv, ComposeResponse PROVE IInv'
<1>. DEFINE T == "compose_response"
            R == "review_response"
<1>t. TypeOK /\ ChainInv /\ StageInv /\ EvidenceInv /\ RiskInv /\ QuestionInv /\ SilenceInv
  BY DEF IInv
<1>1. /\ status = "running" /\ task = T /\ status' = status /\ round' = round + 1
      /\ round' \in Nat /\ claims' \in [TaskTypes -> 0..MaxClaimsPerAgent]
      /\ UNCHANGED <<matter, turns, message, accepted, shown, reworded, unanswered>>
  BY <1>t, Claimed DEF ComposeResponse, TaskTypes
<1>2. \/ /\ out' = out /\ ChainEnds(R) /\ broken' = TRUE
      \/ /\ \E text \in Texts :
              out' = [out EXCEPT !.candidate = [decision |-> Answer, text |-> text,
                                                guidance |-> out.risk.advises]]
         /\ Derives(R, "candidate") \/ ChainEnds(R)
  <2>1. CASE Refused
    BY <2>1 DEF ComposeResponse, BreakOff, EndChain, ChainEnds
  <2>2. CASE ~Refused
    BY <1>t, <2>2, Derived DEF ComposeResponse, TaskTypes
  <2>. QED  BY <2>1, <2>2
<1>3. out.final = "none" /\ accepted # "final" /\ T \in held
  BY <1>t, <1>1 DEF ChainInv, MessageScoped, TaskTypes
<1>4. /\ Answer \in Answers
      /\ Answer = "clarification_needed" <=> HasAsked
  <2>1. /\ out.analysis \in Analysis /\ out.analysis.decision # "clarification_needed"
    BY <1>t DEF TypeOK, QuestionInv
  <2>. QED  BY <2>1 DEF Answer, Answers, HasAsked, Analysis
<1>5. HasAsked <=> out.questions # {}
  <2>1. HasAsked => "understand_message" \in held
    BY <1>t, <1>3 DEF QuestionInv, HasAsked, StageInv, StageConsistent
  <2>. QED  BY <1>t, <1>1, <2>1 DEF QuestionInv
<1>6. /\ out' \in Artifacts
      /\ out'.risk = out.risk /\ out'.questions = out.questions /\ out'.evidence = out.evidence
      /\ out'.analysis = out.analysis /\ out'.final = out.final
      /\ \/ ChainEnds(R) /\ broken' = TRUE
         \/ /\ out'.candidate.decision = Answer /\ out'.candidate.guidance = out.risk.advises
            /\ Derives(R, "candidate") \/ ChainEnds(R)
      /\ out'.candidate = out.candidate \/ out'.candidate.text \in Texts
  <2>1. out \in Artifacts /\ out.risk.advises \in BOOLEAN
    BY <1>t DEF TypeOK, Artifacts, Risk
  <2>2. ASSUME NEW text \in Texts
        PROVE  [decision |-> Answer, text |-> text, guidance |-> out.risk.advises] \in Candidate
    BY <1>4, <2>1 DEF Candidate, Texts
  <2>3. CASE out' = out /\ ChainEnds(R) /\ broken' = TRUE
    BY <2>1, <2>3 DEF Artifacts
  <2>4. ASSUME NEW text \in Texts,
               out' = [out EXCEPT !.candidate = [decision |-> Answer, text |-> text,
                                                 guidance |-> out.risk.advises]]
        PROVE  /\ out' \in Artifacts
               /\ out'.risk = out.risk /\ out'.questions = out.questions
               /\ out'.evidence = out.evidence
               /\ out'.analysis = out.analysis /\ out'.final = out.final
               /\ out'.candidate.decision = Answer /\ out'.candidate.guidance = out.risk.advises
               /\ out'.candidate.text \in Texts
    BY <2>1, <2>2, <2>4 DEF Artifacts
  <2>. QED  BY <1>2, <2>3, <2>4
<1>7. Derives(R, "candidate") \/ ChainEnds(R)
  BY <1>6
<1>8. ChainInv' /\ BudgetFitsChain' /\ SilenceHasACause'
  BY <1>1, <1>3, <1>6, <1>7, ChainStep DEF TaskTypes
<1>9. TypeOK'
  BY <1>t, <1>1, <1>6, <1>7
     DEF TypeOK, Artifacts, Derives, ChainEnds, TaskTypes, MessageScoped, matter
<1>10. StageInv' /\ EvidenceInv'
  <2>1. held \subseteq held' /\ held' \ held \subseteq {R}
    BY <1>7 DEF Derives, ChainEnds
  <2>. QED  BY <1>t, <1>1, <1>3, <1>6, <2>1
            DEF StageInv, StageConsistent, EvidenceInv, AnalysisIsJustified, matter
<1>11. RiskInv'
  <2>1. message.danger # "critical"
    BY <1>t, <1>1 DEF RiskInv
  <2>2. IsReviewed' => FollowsRisk'
    BY <1>3, <1>6 DEF IsReviewed, FollowsRisk, ChainEnds
  <2>. QED  BY <1>t, <1>1, <1>3, <1>6, <2>1, <2>2
            DEF RiskInv, RiskIsHeeded, CriticalNeverAnalysed, GuidanceFollowsRisk
<1>12. QuestionInv'
  <2>1. IsReviewed' => (AsksUser' <=> out'.questions # {})
    BY <1>3, <1>4, <1>5, <1>6 DEF IsReviewed, AsksUser, ChainEnds
  <2>2. ~HasModel => out'.candidate.text = "agent"
    BY <1>t, <1>6 DEF QuestionInv, Texts
  <2>. QED  BY <1>t, <1>1, <1>3, <1>5, <1>6, <1>7, <2>1, <2>2
            DEF QuestionInv, QuestionsAccountedFor, HasAsked, Derives, ChainEnds, MessageScoped,
                TaskTypes, matter
<1>13. SilenceInv'
  <2>1. ~HasModel => R \notin held /\ held \subseteq MessageScoped
    BY <1>t, <1>1 DEF SilenceInv, Before
  <2>2. ~HasModel => held' \subseteq Before[task'] /\ input' # "escalation"
    BY <1>7, <2>1 DEF Before, Derives, ChainEnds, MessageScoped, TaskTypes
  <2>3. task' = "none" /\ ~broken' => HasModel /\ R \in held'
    BY <1>7, <2>1 DEF Derives, ChainEnds
  <2>4. task' \in {"none", R}
    BY <1>7 DEF Derives, ChainEnds
  <2>. QED  BY <1>8, <2>2, <2>3, <2>4 DEF SilenceInv, TurnsAreAnswered, KeyWasTaken
<1>. QED  BY <1>8, <1>9, <1>10, <1>11, <1>12, <1>13 DEF IInv

\* ReviewAgent gives a verdict.
LEMMA ReviewResponseInv == ASSUME IInv, ReviewResponse PROVE IInv'
<1>t. TypeOK /\ ChainInv /\ StageInv /\ EvidenceInv /\ RiskInv /\ QuestionInv /\ SilenceInv
  BY DEF IInv
<1>1. /\ status = "running" /\ task = "review_response" /\ task \in TaskTypes
      /\ status' = status /\ round' = round + 1
      /\ round' \in Nat /\ claims' \in [TaskTypes -> 0..MaxClaimsPerAgent]
      /\ UNCHANGED <<matter, turns, message, accepted, shown, reworded, unanswered, held, broken>>
      /\ task' = "none" /\ input' = "none"
  BY <1>t, Claimed DEF ReviewResponse, DeriveNothing, EndChain, TaskTypes
<1>2. PICK verdict \in Verdicts : out' = [out EXCEPT !.final = verdict]
  BY DEF ReviewResponse
<1>3. verdict \in {"approved", "rejected"} /\ (verdict = "approved" => input = "candidate")
  BY <1>2 DEF Verdicts
<1>4. /\ out' \in Artifacts /\ out'.final = verdict
      /\ out'.risk = out.risk /\ out'.questions = out.questions /\ out'.evidence = out.evidence
      /\ out'.analysis = out.analysis /\ out'.candidate = out.candidate
  BY <1>t, <1>2, <1>3 DEF TypeOK, Artifacts
<1>5. accepted # "final" /\ "review_response" \in held
  BY <1>t, <1>1 DEF ChainInv, MessageScoped, TaskTypes
<1>6. ChainEnds("review_response")
  BY <1>1, <1>5 DEF ChainEnds
<1>7. ChainInv' /\ BudgetFitsChain' /\ SilenceHasACause'
  BY <1>1, <1>6, ChainStep
<1>8. TypeOK'
  BY <1>t, <1>1, <1>4 DEF TypeOK, Artifacts, matter
<1>9. StageInv' /\ EvidenceInv'
  BY <1>t, <1>1, <1>4, <1>5
     DEF StageInv, StageConsistent, EvidenceInv, AnalysisIsJustified, matter
<1>10. IsReviewed' => IsReviewed
  BY <1>1, <1>3, <1>4 DEF IsReviewed
<1>11. RiskInv'
  BY <1>t, <1>1, <1>4, <1>5, <1>10
     DEF RiskInv, RiskIsHeeded, CriticalNeverAnalysed, GuidanceFollowsRisk, FollowsRisk
<1>12. QuestionInv'
  BY <1>t, <1>1, <1>4, <1>5, <1>10
     DEF QuestionInv, QuestionsAccountedFor, HasAsked, AsksUser, matter
<1>13. SilenceInv'
  BY <1>t, <1>1, <1>3, <1>4, <1>7 DEF SilenceInv, TurnsAreAnswered, Before, TypeOK
<1>. QED  BY <1>7, <1>8, <1>9, <1>11, <1>12, <1>13 DEF IInv

\* It asks for another assessment.
LEMMA RequestRecheckInv == ASSUME IInv, RequestRecheck PROVE IInv'
<1>t. TypeOK /\ ChainInv /\ StageInv /\ EvidenceInv /\ RiskInv /\ QuestionInv /\ SilenceInv
  BY DEF IInv
<1>1. /\ HasModel
      /\ status = "running" /\ task = "review_response" /\ status' = status /\ round' = round + 1
      /\ round' \in Nat /\ claims' \in [TaskTypes -> 0..MaxClaimsPerAgent]
      /\ UNCHANGED <<matter, turns, message, accepted, shown, reworded, unanswered, out>>
      /\ Derive("schedule_next", "escalation")
  BY <1>t, Claimed DEF RequestRecheck, TaskTypes
<1>2. Derives("schedule_next", "escalation") \/ ChainEnds("schedule_next")
  BY <1>t, <1>1, Derived DEF TaskTypes
<1>3. out.final = "none" /\ accepted # "final" /\ "review_response" \in held
  BY <1>t, <1>1 DEF ChainInv, MessageScoped, TaskTypes
<1>4. ChainInv' /\ BudgetFitsChain' /\ SilenceHasACause'
  BY <1>1, <1>2, <1>3, ChainStep DEF TaskTypes
<1>5. TypeOK'
  BY <1>t, <1>1, <1>2 DEF TypeOK, Derives, ChainEnds, TaskTypes, MessageScoped, matter
<1>6. held' = held
  BY <1>2 DEF Derives, ChainEnds, MessageScoped
<1>7. StageInv' /\ EvidenceInv'
  BY <1>t, <1>1, <1>6 DEF StageInv, StageConsistent, EvidenceInv, AnalysisIsJustified, matter
<1>8. ~IsReviewed'
  BY <1>1, <1>2, <1>3 DEF IsReviewed, Derives, ChainEnds
<1>9. RiskInv'
  BY <1>t, <1>1, <1>2, <1>3, <1>6, <1>8
     DEF RiskInv, RiskIsHeeded, CriticalNeverAnalysed, GuidanceFollowsRisk, Derives, ChainEnds
<1>10. QuestionInv'
  BY <1>t, <1>1, <1>2, <1>3, <1>6, <1>8
     DEF QuestionInv, QuestionsAccountedFor, HasAsked, matter, Derives, ChainEnds
<1>11. SilenceInv'
  BY <1>1, <1>2, <1>3, <1>4, <1>6
     DEF SilenceInv, TurnsAreAnswered, KeyWasTaken, Derives, ChainEnds
<1>. QED  BY <1>4, <1>5, <1>7, <1>9, <1>10, <1>11 DEF IInv

\* The gate judges the final response, or there is none.
LEMMA EndInv == ASSUME IInv, Deliver \/ BlockDelivery \/ FinishEmptyHanded PROVE IInv'
<1>t. TypeOK /\ ChainInv /\ StageInv /\ EvidenceInv /\ RiskInv /\ QuestionInv /\ SilenceInv
  BY DEF IInv
<1>1. /\ status = "running" /\ task = "none" /\ round' = round + 1
      /\ UNCHANGED <<matter, turns, message, task, input, held, claims, out, broken>>
      /\ \/ /\ status' = "completed" /\ accepted' = "final" /\ out.final = "approved"
            /\ out.candidate.decision = "supported_answer" => out.evidence = "verified"
            /\ shown' = shown \cup (IF Clarifies("agent") THEN out.questions ELSE {})
            /\ reworded' = reworded \cup (IF Clarifies("model") THEN out.questions ELSE {})
            /\ unanswered' = unanswered
         \/ /\ status' = "failed" /\ accepted' = "safe_error"
            /\ shown' = shown /\ reworded' = reworded
            /\ unanswered' = unanswered \cup out.questions
         \/ /\ status' = "limited" /\ accepted' = accepted
            /\ shown' = shown /\ reworded' = reworded
            /\ unanswered' = unanswered \cup out.questions
            /\ out.final = "none"
  BY DEF Deliver, BlockDelivery, FinishEmptyHanded, NoTaskLeft, AsksUser
<1>2. accepted # "final"
  BY <1>t, <1>1 DEF ChainInv
<1>3. ChainInv'
  BY <1>t, <1>1, <1>2 DEF ChainInv
<1>4. TypeOK'
  <2>1. /\ out.questions \subseteq Required /\ shown \subseteq Required
        /\ reworded \subseteq Required /\ unanswered \subseteq Required
    BY <1>t DEF TypeOK
  <2>2. round' \in Nat
    BY <1>t, <1>1 DEF TypeOK
  <2>3. shown' \subseteq Required /\ reworded' \subseteq Required /\ unanswered' \subseteq Required
    BY <1>1, <2>1
  <2>4. status' \in {"completed", "limited", "failed"}
        /\ accepted' \in {"none", "final", "safe_error"}
    BY <1>t, <1>1 DEF TypeOK
  <2>. QED  BY <1>t, <1>1, <2>2, <2>3, <2>4 DEF TypeOK, matter
<1>5. StageInv' /\ EvidenceInv'
  BY <1>t, <1>1, <1>2 DEF StageInv, StageConsistent, EvidenceInv, AnalysisIsJustified, matter
<1>6. RiskInv'
  BY <1>t, <1>1, <1>2
     DEF RiskInv, RiskIsHeeded, CriticalNeverAnalysed, GuidanceFollowsRisk, IsReviewed, FollowsRisk
<1>7. QuestionInv'
  <2>1. out.final = "approved" =>
          /\ AsksUser <=> out.questions # {}
          /\ AsksUser <=> Clarifies("agent") \/ Clarifies("model")
    <3>1. out.candidate.text \in {"agent", "model"}
      BY <1>t DEF TypeOK, Candidate
    <3>. QED  BY <1>t, <3>1 DEF QuestionInv, IsReviewed, AsksUser, Clarifies
  <2>2. ~HasModel => ~Clarifies("model")
    BY <1>t DEF QuestionInv, Clarifies
  <2>3. /\ accepted' = "final" => out.questions \subseteq shown' \cup reworded'
        /\ ~HasModel => reworded' = {}
        /\ accepted' # "final" => out.questions \subseteq unanswered'
    BY <1>t, <1>1, <1>2, <2>1, <2>2 DEF QuestionInv, QuestionsAccountedFor
  <2>4. /\ History \subseteq History' /\ History' \subseteq History \cup out.questions
        /\ out.questions \subseteq History'
    BY <1>1, <2>3 DEF History
  <2>5. sufficiency'.asked = History' /\ out'.questions \subseteq sufficiency'.asked
    BY <1>t, <1>1, <2>4 DEF QuestionInv, matter
  <2>6. accepted' = "none" => shown' = shown /\ reworded' = reworded /\ accepted = "none"
    BY <1>t, <1>1
  <2>7. QuestionsAccountedFor'
    BY <1>1, <2>3, <2>5 DEF QuestionsAccountedFor, History
  <2>. QED  BY <1>t, <1>1, <2>5, <2>6, <2>7
            DEF QuestionInv, HasAsked, AsksUser, IsReviewed, matter
<1>8. SilenceInv'
  <2>1. status' = "limited" /\ ~broken' => KeyWasTaken
    BY <1>t, <1>1 DEF SilenceInv
  <2>. QED  BY <1>t, <1>1, <2>1
            DEF SilenceInv, TurnsAreAnswered, BudgetFitsChain, SilenceHasACause, KeyWasTaken, matter
<1>. QED  BY <1>3, <1>4, <1>5, <1>6, <1>7, <1>8 DEF IInv

\* Each step keeps it.
LEMMA NextInv == IInv /\ [Next]_vars => IInv'
<1>. SUFFICES ASSUME IInv, [Next]_vars PROVE IInv'
  OBVIOUS
<1>1. CASE \E m \in Messages : BeginTurn(m)
  BY <1>1, BeginTurnInv
<1>2. CASE BlockTask \/ FailTask
  BY <1>2, BreakOffInv
<1>3. CASE AssessSafety
  BY <1>3, AssessSafetyInv
<1>4. CASE ScheduleNext \/ Escalate
  BY <1>4, ScheduleNextInv, EscalateInv
<1>5. CASE UnderstandMessage
  BY <1>5, UnderstandMessageInv
<1>6. CASE RetrieveContext \/ AnalyzeEvidence
  BY <1>6, RetrieveContextInv, AnalyzeEvidenceInv
<1>7. CASE ComposeResponse
  BY <1>7, ComposeResponseInv
<1>8. CASE ReviewResponse \/ RequestRecheck
  BY <1>8, ReviewResponseInv, RequestRecheckInv
<1>9. CASE Deliver \/ BlockDelivery \/ FinishEmptyHanded
  BY <1>9, EndInv
<1>10. CASE UNCHANGED vars
  BY <1>10
     DEF vars, IInv, TypeOK, ChainInv, StageInv, StageConsistent, EvidenceInv, AnalysisIsJustified,
         RiskInv, RiskIsHeeded, CriticalNeverAnalysed, GuidanceFollowsRisk, FollowsRisk, IsReviewed,
         QuestionInv, QuestionsAccountedFor, HasAsked, AsksUser, SilenceInv, TurnsAreAnswered,
         BudgetFitsChain, SilenceHasACause, KeyWasTaken
<1>. QED
  BY <1>1, <1>2, <1>3, <1>4, <1>5, <1>6, <1>7, <1>8, <1>9, <1>10 DEF Next, Run

\* The invariant holds in every state of every behaviour.
LEMMA Invariance == Spec => []IInv
<1>. QED  BY InitInv, NextInv, PTL DEF Spec

-----------------------------------------------------------------------------
\* The theorems

\* The matter and the run have their types, and the clarification rounds of a
\* matter stay within the configured maximum.
THEOREM TypeCorrect == Spec => []TypeOK
<1>1. IInv => TypeOK
  BY DEF IInv
<1>. QED  BY <1>1, Invariance, PTL

\* The search waits for the facts and the intent, which are not lost again, and a
\* supported answer rests on the search of its turn.
THEOREM AnalysisStaysJustified == Spec => []AnalysisIsJustified
<1>1. IInv => AnalysisIsJustified
  BY DEF IInv, EvidenceInv
<1>. QED  BY <1>1, Invariance, PTL

\* A critical message is not analysed, and the answer has the advice of the latest
\* assessment.
THEOREM RiskStaysHeeded == Spec => []RiskIsHeeded
<1>1. IInv => RiskIsHeeded
  BY DEF IInv, RiskInv
<1>. QED  BY <1>1, Invariance, PTL

\* A question noted as asked was listed for the user, or its turn ended without the
\* answer, or the model wrote the text of the clarification.
THEOREM QuestionsAreAccountedFor == Spec => []QuestionsAccountedFor
<1>1. IInv => QuestionsAccountedFor
  BY DEF IInv, QuestionInv
<1>. QED  BY <1>1, Invariance, PTL

\* The gate comes before the budget of rounds is spent, and a turn without an
\* answer has one of the causes.
THEOREM TurnsStayAnswered == Spec => []TurnsAreAnswered
<1>1. IInv => TurnsAreAnswered
  BY DEF IInv, SilenceInv
<1>. QED  BY <1>1, Invariance, PTL

\* No question is asked that was shown before, or whose answer is known or known
\* to be unknown.
THEOREM QuestionsAreNew == Spec => QuestionsNeverRepeated
<1>. DEFINE Asking == accepted' = "final" /\ out.candidate.decision = "clarification_needed"
                        /\ accepted = "none"
            IsNew == /\ out.questions # {}
                     /\ out.questions \cap (shown \cup reworded \cup facts
                                              \cup sufficiency.unknown) = {}
<1>1. IInv /\ [Next]_vars => [Asking => IsNew]_vars
  <2>. SUFFICES ASSUME IInv, [Next]_vars, Asking PROVE IsNew
    OBVIOUS
  <2>1. out.final = "approved"
    <3>1. CASE Deliver
      BY <3>1 DEF Deliver
    <3>2. CASE ~Deliver
      BY <3>2 DEF Next, Run, vars, BeginTurn, BlockTask, FailTask, AssessSafety, ScheduleNext, Escalate,
                  UnderstandMessage, RetrieveContext, AnalyzeEvidence, ComposeResponse,
                  ReviewResponse, RequestRecheck, BlockDelivery, FinishEmptyHanded, Claim
    <3>. QED  BY <3>1, <3>2
  <2>. QED  BY <2>1 DEF IInv, QuestionInv, IsReviewed, AsksUser
<1>. QED  BY <1>1, Invariance, PTL DEF Spec, QuestionsNeverRepeated

\* The rounds that the run in progress has before it, at most.
RoundsAhead == IF status = "running" THEN (MaxTaskDepth + 2) - round ELSE 0

\* A step of the run is a round of it.
LEMMA RunRounds == ASSUME Run PROVE status = "running" /\ round' = round + 1
<1>1. CASE BlockTask \/ Deliver \/ BlockDelivery \/ FinishEmptyHanded
  BY <1>1 DEF BlockTask, Deliver, BlockDelivery, FinishEmptyHanded, NoTaskLeft
<1>2. ASSUME NEW t, Claim(t) PROVE status = "running" /\ round' = round + 1
  BY <1>2, SMTT(30) DEF Claim
<1>3. CASE FailTask \/ AssessSafety \/ ScheduleNext \/ Escalate \/ UnderstandMessage
  BY <1>2, <1>3 DEF FailTask, AssessSafety, ScheduleNext, Escalate, UnderstandMessage
<1>4. CASE RetrieveContext \/ AnalyzeEvidence \/ ComposeResponse \/ ReviewResponse \/ RequestRecheck
  BY <1>2, <1>4 DEF RetrieveContext, AnalyzeEvidence, ComposeResponse, ReviewResponse, RequestRecheck
<1>. QED  BY <1>1, <1>3, <1>4 DEF Run

\* A turn is over after as many rounds as the chain of its tasks can be long, and two to
\* end it: each of its steps is one of them, whatever the agents, the model and the
\* user's message do, and no other turn begins before.
THEOREM TurnsRunDown ==
  Spec => /\ [](RoundsAhead \in 0..(MaxTaskDepth + 2))
          /\ [][status = "running" => RoundsAhead' < RoundsAhead]_vars
<1>1. ASSUME IInv PROVE RoundsAhead \in 0..(MaxTaskDepth + 2)
  <2>1. /\ MaxTaskDepth \in Nat /\ round \in Nat
        /\ status = "running" => round <= MaxTaskDepth + 1
    BY <1>1, ConsultationAssumption DEF IInv, TypeOK, ChainInv
  <2>. QED  BY <2>1 DEF RoundsAhead
<1>2. ASSUME IInv, IInv', Next, status = "running" PROVE RoundsAhead' < RoundsAhead
  <2>1. round' = round + 1
    BY <1>2, RunRounds DEF Next, BeginTurn
  <2>2. /\ MaxTaskDepth \in Nat /\ round \in Nat /\ round <= MaxTaskDepth + 1
    BY <1>2, ConsultationAssumption DEF IInv, TypeOK, ChainInv
  <2>. QED  BY <1>2, <2>1, <2>2 DEF RoundsAhead
<1>3. IInv /\ IInv' /\ [Next]_vars => [status = "running" => RoundsAhead' < RoundsAhead]_vars
  BY <1>2
<1>. QED  BY <1>1, <1>3, Invariance, PTL DEF Spec
=============================================================================
