---------------------------- MODULE EvidenceChain ----------------------------
(***************************************************************************)
(* What the artifacts of one run hold and refer to, from the first safety   *)
(* task to the delivery gate: the evidence that RetrievalAgent finds, what  *)
(* AnalysisAgent, ResponseAgent and ReviewAgent make of it                  *)
(* (src/src/runtime/board_runtime.py), the contexts that ContextService     *)
(* builds for them and the holes it fills (src/src/runtime/context.py), and *)
(* DeliveryGate (src/src/safety/delivery_gate.py).                          *)
(*                                                                         *)
(* As in Consultation the run is a chain, and an action is a whole round:   *)
(* the context of the one open task is built, its agent executes, and its   *)
(* artifacts are appended.  An artifact is named by its place on the board. *)
(*                                                                         *)
(* The index that is searched is not part of this program.  It is rebuilt   *)
(* from time to time, and what it holds of a law may change.                *)
(***************************************************************************)
EXTENDS Naturals, Sequences, FiniteSets, FiniteSetsExt

CONSTANTS
  Laws,               \* chunks of statutes: an evidence id is a law or a case
  Cases,
  Payloads,           \* what the index may hold of a law
  Dates,
  NoDate,
  EarlierEvidence,    \* evidence that the matter has from earlier turns
  HasModel,           \* is a model gateway configured?
  MaxTaskDepth,       \* BoardLimits
  MaxClaimsPerAgent,
  MaxRefs,            \* bound of the model: artifacts that a scheduling names
  MaxReindex          \* bound of the model: how often the index changes

Evidence == Laws \cup Cases

\* The fields of a law that is_law_effective_on reads; `confirmed' says that its
\* version is known and its status an accepted one.
Payload == [confirmed : BOOLEAN, from : Dates \cup {NoDate}, to : Dates \cup {NoDate}]

ASSUME EvidenceAssumption ==
  /\ Laws \cap Cases = {}
  /\ Dates \subseteq Nat
  /\ NoDate \notin Nat
  /\ Payloads \subseteq Payload
  /\ EarlierEvidence \subseteq Evidence
  /\ HasModel \in BOOLEAN
  /\ {MaxTaskDepth, MaxClaimsPerAgent, MaxRefs, MaxReindex} \subseteq Nat

VARIABLES
  \* the message and the matter
  critical,        \* is there a critical risk marker in the message?
  ready,           \* are the facts complete and is the intent confirmed?
  eventDate,       \* event_date
  matterEvidence,  \* evidence_ids, kept from turn to turn
  \* the index
  index,
  reindexed,       \* how often it changed
  \* the board
  artifacts,
  task,            \* the open task: its type and inputs, of which one is first
  depth,
  held,            \* deduplication keys of the message
  status,
  accepted,        \* accepted_artifact_id
  \* history variables
  searches,        \* searches made in this run
  read,            \* the artifact that AnalysisAgent worked on
  viewed           \* the artifacts in the context of ReviewAgent

matter == <<critical, ready, eventDate>>
world == <<index, reindexed>>
vars == <<matter, matterEvidence, world, artifacts, task, depth, held, status,
          accepted, searches, read, viewed>>

None == 0

\* A claim has a text, which may be blank, and refers to evidence.
Claim == [text : {"text", "blank", "empty"}, ids : SUBSET Evidence]

\* FinalResponseContent, and with `clean' left aside the content of an analysis:
\* `items' are the evidence ids of amount_items and disputed_items, `clean' says
\* that the text has no personal data, promise or internal identifier.
NoBody == [decision |-> "none", claims |-> {}, items |-> {}, limits |-> FALSE, clean |-> TRUE]

\* The four fields of an Artifact that matter here.
New(type, sources, refs, content) ==
  [type |-> type, sources |-> sources, refs |-> refs, content |-> content]

IsBundle(a) == a.type = "RAG_EVIDENCE_BUNDLE"

Bundles == {i \in DOMAIN artifacts : IsBundle(artifacts[i])}

NoTask == [type |-> "none", first |-> None, inputs |-> {}]

TaskTypes == {"assess_safety", "schedule_next", "understand_message", "retrieve_context",
              "analyze_evidence", "compose_response", "review_response"}

Init ==
  /\ critical \in BOOLEAN
  /\ ready \in BOOLEAN
  /\ eventDate \in Dates \cup {NoDate}
  /\ matterEvidence = EarlierEvidence
  /\ index \in [Laws -> Payloads]
  /\ reindexed = 0
  /\ artifacts = <<>>
  /\ task = [NoTask EXCEPT !.type = "assess_safety"]
  /\ depth = 0
  /\ held = {}
  /\ status = "running"
  /\ accepted = None
  /\ searches = 0
  /\ read = None
  /\ viewed = {}

-----------------------------------------------------------------------------
\* Laws in force.

\* Mutant: the last day of a version belongs to it.
EffectiveClosed(law, date) ==
  /\ date # NoDate
  /\ law.confirmed
  /\ law.from # NoDate /\ law.from <= date
  /\ law.to # NoDate => date <= law.to

\* is_law_effective_on
Effective(law, date) ==
  /\ date # NoDate
  /\ law.confirmed
  /\ law.from # NoDate /\ law.from <= date
  /\ law.to # NoDate => date < law.to

-----------------------------------------------------------------------------
\* Rounds, tasks and contexts.

Produced(types) == Cardinality({i \in DOMAIN artifacts : artifacts[i].type \in types})

\* The claims of the two agents that may have several: one for each artifact that
\* only they produce.
Claims(t) ==
  CASE t = "assess_safety" -> Produced({"RISK_REVIEW"})
    [] t = "schedule_next" -> Produced({"TASK_INTENT"})
    [] OTHER               -> 0

Claimed(t) ==
  /\ status = "running"
  /\ task.type = t
  /\ Claims(t) < MaxClaimsPerAgent
  /\ UNCHANGED <<critical, world, status, accepted>>

ChainEnds == task' = NoTask /\ UNCHANGED <<depth, held>>

MessageScoped == TaskTypes \ {"assess_safety", "schedule_next"}

\* _child_task and add_task
Derive(t, first, inputs) ==
  IF depth < MaxTaskDepth /\ t \notin held
    THEN /\ task' = [type |-> t, first |-> first, inputs |-> inputs]
         /\ depth' = depth + 1
         /\ held' = held \cup ({t} \cap MessageScoped)
    ELSE ChainEnds

\* A search: any evidence that is in the index; none when the tools fail.
Found == SUBSET Evidence

\* Mutant: a bundle holds what the index has of every law.
WholeIndex(sources, found) == New("RAG_EVIDENCE_BUNDLE", sources, found, index)

\* The bundle of what was found, with the laws as the index has them now.
Bundle(sources, found) ==
  New("RAG_EVIDENCE_BUNDLE", sources, found, [l \in found \cap Laws |-> index[l]])

\* A search adds to the evidence of the matter.
Searched(found) ==
  /\ searches' = searches + 1
  /\ matterEvidence' = matterEvidence \cup found

NotSearched == UNCHANGED <<searches, matterEvidence>>

\* The analysis and the review of a task without a bundle among its inputs.
HasHole == \A i \in task.inputs : ~IsBundle(artifacts[i])

\* Mutant: the bundle of a hole stays in the context that needed it.
FilledPrivately(found) == artifacts

\* The board once ContextService.build has filled the hole.
Filled(found) == IF HasHole THEN Append(artifacts, Bundle({}, found)) ELSE artifacts

\* _retrieve_context_hole, when there is a hole
Fill(found) ==
  IF HasHole THEN found \in Found /\ Searched(found)
             ELSE found = {} /\ NotSearched

\* The artifacts that these are derived from, over any number of steps, and
\* themselves: an artifact comes after its sources.
SourceChain(board, ids) ==
  LET above[i \in DOMAIN board] == {i} \cup UNION {above[j] : j \in board[i].sources}
  IN  UNION {above[i] : i \in ids}

\* What ROLE_CONTEXT_POLICIES show to a review.
ReviewTypes ==
  {"RESPONSE_CANDIDATE", "ISSUE_ANALYSIS", "RAG_EVIDENCE_BUNDLE", "SUFFICIENCY_ASSESSMENT",
   "RISK_REVIEW", "RETRIEVAL_PLAN", "TASK_INTENT", "ESCALATION_REQUEST"}

\* Mutant: the context has the inputs of the task without their sources.
InputsOnly(board) ==
  {i \in task.inputs \cup (DOMAIN board \ DOMAIN artifacts) : board[i].type \in ReviewTypes}

\* The artifacts in the context of a review: the inputs of its task and the new
\* bundle, if there was a hole, with all that they are derived from.
ReviewContext(board) ==
  {i \in SourceChain(board, task.inputs \cup (DOMAIN board \ DOMAIN artifacts)) :
     board[i].type \in ReviewTypes}

\* The context is too large or the agent raises.  What the context filled stays.
FailTask ==
  /\ \E t \in TaskTypes : Claimed(t)
  /\ IF task.type \in {"analyze_evidence", "review_response"}
       THEN \E found \in Found : Fill(found) /\ artifacts' = Filled(found)
       ELSE NotSearched /\ UNCHANGED artifacts
  /\ ChainEnds
  /\ UNCHANGED <<ready, eventDate, read, viewed>>

\* No agent has a claim left for the task.
BlockTask ==
  /\ status = "running"
  /\ task # NoTask
  /\ Claims(task.type) >= MaxClaimsPerAgent
  /\ ChainEnds
  /\ UNCHANGED <<matter, matterEvidence, world, artifacts, status, accepted, searches,
                 read, viewed>>

-----------------------------------------------------------------------------
\* SafetyAgent, SchedulerAgent and UnderstandingAgent

Put(new) == artifacts' = artifacts \o new

\* The place of the n-th of the artifacts that are being appended.
Place(n) == Len(artifacts) + n

Reassurance == [NoBody EXCEPT !.decision = "limited_answer", !.limits = TRUE]

AssessSafety ==
  /\ Claimed("assess_safety")
  /\ IF critical
       THEN /\ Put(<<New("RISK_REVIEW", {}, {}, NoBody),
                     New("RESPONSE_CANDIDATE", {Place(1)}, {}, Reassurance)>>)
            /\ Derive("review_response", Place(2), {Place(2)})
       ELSE /\ Put(<<New("RISK_REVIEW", {}, {}, NoBody)>>)
            /\ Derive("schedule_next", Place(1), {Place(1)})
  /\ NotSearched
  /\ UNCHANGED <<ready, eventDate, read, viewed>>

\* The tasks that may come next, and the artifacts they may be given along with
\* the TASK_INTENT; the model may name any on the board.
NextTasks ==
  IF artifacts[task.first].type = "ESCALATION_REQUEST" THEN {"assess_safety"}
  ELSE IF ~ready THEN {"understand_message"}
  ELSE IF HasModel THEN TaskTypes \ {"schedule_next"} ELSE {"retrieve_context"}

ContextRefs ==
  {task.inputs} \cup
    (IF HasModel /\ ready /\ artifacts[task.first].type # "ESCALATION_REQUEST"
       THEN UNION {kSubset(k, DOMAIN artifacts) : k \in 1..MaxRefs} ELSE {})

ScheduleNext ==
  /\ Claimed("schedule_next")
  /\ Put(<<New("TASK_INTENT", task.inputs, {}, NoBody)>>)
  /\ \E t \in NextTasks, refs \in ContextRefs : Derive(t, Place(1), {Place(1)} \cup refs)
  /\ NotSearched
  /\ UNCHANGED <<ready, eventDate, read, viewed>>

\* The scheduler escalates instead.
Escalate ==
  /\ HasModel
  /\ ready
  /\ Claimed("schedule_next")
  /\ artifacts[task.first].type # "ESCALATION_REQUEST"
  /\ Put(<<New("ESCALATION_REQUEST", task.inputs, {}, NoBody)>>)
  /\ ChainEnds
  /\ NotSearched
  /\ UNCHANGED <<ready, eventDate, read, viewed>>

\* The message may complete the facts and confirm the intent, and may say when it
\* happened.
UnderstandMessage ==
  /\ Claimed("understand_message")
  /\ Put(<<New("SUFFICIENCY_ASSESSMENT", {}, {}, NoBody)>>)
  /\ ready' \in {TRUE, ready}
  /\ eventDate' \in {eventDate} \cup Dates
  /\ Derive(IF ready' THEN "schedule_next" ELSE "compose_response", Place(1), {Place(1)})
  /\ NotSearched
  /\ UNCHANGED <<read, viewed>>

-----------------------------------------------------------------------------
\* RetrievalAgent and AnalysisAgent

RetrieveContext ==
  /\ Claimed("retrieve_context")
  /\ \E found \in Found :
       /\ Searched(found)
       /\ Put(<<New("RETRIEVAL_PLAN", {}, {}, NoBody), Bundle({Place(1)}, found)>>)
  /\ Derive("analyze_evidence", Place(2), {Place(2)})
  /\ UNCHANGED <<ready, eventDate, read, viewed>>

\* law_versions_confirmed: there are laws in the bundle, and all are in force.
LawsConfirmed(a) ==
  /\ IsBundle(a)
  /\ DOMAIN a.content # {}
  /\ \A l \in DOMAIN a.content : Effective(a.content[l], eventDate)

\* Mutant: the evidence of the matter is cited along with that of the bundle.
CitableOfMatter(a) == IF a.refs = {} THEN {} ELSE a.refs \cup matterEvidence

\* evidence.evidence_refs
Citable(a) == a.refs

\* _validated_claims
ValidClaims(proposed, refs) == {c \in proposed : c.ids # {} /\ c.ids \subseteq refs}

\* What the model may propose: at most one claim.
Proposals == IF HasModel THEN {{}} \cup {{c} : c \in Claim} ELSE {{}}

\* The claims and whether there are limitations, for a supported answer.  The
\* limitations of the model come with its claims and may be none.
SupportedBy(refs) ==
  {[claims |-> IF valid = {} THEN {[text |-> "text", ids |-> refs]} ELSE valid,
    limits |-> valid = {} \/ limits] :
     valid \in {ValidClaims(p, refs) : p \in Proposals}, limits \in BOOLEAN}

\* Mutant: the assessments of the model are taken as they are.
ItemsUnchecked(refs) == IF HasModel THEN SUBSET Evidence ELSE {{}, refs}

\* _claim_item_assessments and the loop over the catalogue: the evidence ids on
\* the items.  There are no items when the matter is out of scope; otherwise they
\* have the ids that the model chose among these, or all.
Items(refs) == IF HasModel THEN SUBSET refs ELSE {{}, refs}

\* The content of an analysis without claims, and of one with them.
Unclaimed(decision, items) ==
  [NoBody EXCEPT !.decision = decision, !.limits = TRUE, !.items = items]

Supported(s, items) ==
  [NoBody EXCEPT !.decision = "supported_answer", !.claims = s.claims, !.limits = s.limits,
                 !.items = items]

Analyses(a) ==
  LET refs == Citable(a)
  IN  IF refs = {} THEN {Unclaimed("limited_answer", items) : items \in Items(refs)}
      ELSE IF ~LawsConfirmed(a)
        THEN {Unclaimed("constructive_abstention", items) : items \in Items(refs)}
      ELSE {Supported(s, items) : s \in SupportedBy(refs), items \in Items(refs)}

\* The evidence is the first input, whatever the context was filled with.
AnalyzeEvidence ==
  /\ Claimed("analyze_evidence")
  /\ \E found \in Found :
       /\ Fill(found)
       /\ LET board == Filled(found)
              evidence == artifacts[task.first]
          IN  /\ \E a \in Analyses(evidence) :
                   artifacts' = Append(board, New("ISSUE_ANALYSIS", task.inputs,
                                                  Citable(evidence), a))
              /\ Derive("compose_response", Len(board) + 1, {Len(board) + 1})
  /\ read' = task.first
  /\ UNCHANGED <<ready, eventDate, viewed>>

-----------------------------------------------------------------------------
\* ResponseAgent and ReviewAgent

\* A question to the user, or a limited answer when none is left.
Clarifications ==
  {[NoBody EXCEPT !.decision = "clarification_needed"],
   [NoBody EXCEPT !.decision = "limited_answer", !.limits = TRUE]}

\* What the response says, from the state of the matter and its source.
Bodies(source) ==
  IF ~ready THEN Clarifications
  ELSE IF source.type = "ISSUE_ANALYSIS" THEN {source.content}
  ELSE {Reassurance}

\* FinalResponseContent accepts it.
WellFormed(body) ==
  /\ body.decision = "supported_answer" => body.claims # {} /\ body.limits
  /\ \A c \in body.claims : c.text # "empty"

\* The text is the model's, or has the texts of the model's claims in it.
ComposeResponse ==
  /\ Claimed("compose_response")
  /\ LET source == artifacts[task.first]
     IN  \E body \in Bodies(source), clean \in IF HasModel THEN BOOLEAN ELSE {TRUE} :
           IF WellFormed(body)
             THEN /\ Put(<<New("RESPONSE_CANDIDATE", task.inputs, source.refs,
                               [body EXCEPT !.clean = clean])>>)
                  /\ Derive("review_response", Place(1), {Place(1)})
             ELSE ChainEnds /\ UNCHANGED artifacts
  /\ NotSearched
  /\ UNCHANGED <<ready, eventDate, read, viewed>>

\* Claims have evidence, and it is evidence that the artifact cites.
Grounded(claims, cited) == \A c \in claims : c.ids # {} /\ c.ids \subseteq cited

\* The verdicts of ReviewAgent.  An artifact without a response is refused.
Verdicts(candidate) ==
  LET sound == /\ candidate.type = "RESPONSE_CANDIDATE"
               /\ Grounded(candidate.content.claims, candidate.refs)
  IN  IF HasModel THEN {sound, FALSE} ELSE {sound}

Review(candidate, approved) ==
  New("REVIEW_RESULT", {candidate}, {}, approved)

\* A rejected final response has none of the content of the candidate.
FinalResponse(candidate, review, approved) ==
  New("FINAL_RESPONSE", {candidate, review}, artifacts[candidate].refs,
      IF approved THEN artifacts[candidate].content ELSE [NoBody EXCEPT !.decision = "failed"])

ReviewResponse ==
  /\ Claimed("review_response")
  /\ \E found \in Found, approved \in Verdicts(artifacts[task.first]) :
       /\ Fill(found)
       /\ LET board == Filled(found)
          IN  /\ artifacts' = board \o <<Review(task.first, approved),
                                         FinalResponse(task.first, Len(board) + 1, approved)>>
              /\ viewed' = ReviewContext(board)
  /\ ChainEnds
  /\ UNCHANGED <<ready, eventDate, read>>

\* The review asks for a new risk assessment.
RequestRecheck ==
  /\ HasModel
  /\ Claimed("review_response")
  /\ \E found \in Found, approved \in Verdicts(artifacts[task.first]) :
       /\ Fill(found)
       /\ LET board == Filled(found)
              place == Len(board) + 1
          IN  /\ artifacts' = board \o <<Review(task.first, approved),
                                New("ESCALATION_REQUEST", {task.first, place}, {}, NoBody)>>
              /\ viewed' = ReviewContext(board)
              /\ Derive("schedule_next", place + 1, {place + 1})
  /\ UNCHANGED <<ready, eventDate, read>>

-----------------------------------------------------------------------------
\* DeliveryGate

Finals == {i \in DOMAIN artifacts : artifacts[i].type = "FINAL_RESPONSE"}

\* finals[-1]
Final == artifacts[Max(Finals)]

SourcesOf(a, type) == {i \in a.sources : artifacts[i].type = type}

Provenance ==
  \E candidate \in SourcesOf(Final, "RESPONSE_CANDIDATE"),
     review \in SourcesOf(Final, "REVIEW_RESULT") :
       candidate \in artifacts[review].sources

Approved ==
  \E review \in SourcesOf(Final, "REVIEW_RESULT") : artifacts[review].content

ClaimsGrounded ==
  /\ Grounded(Final.content.claims, Final.refs)
  /\ \A c \in Final.content.claims : c.text = "text"
  /\ Final.content.decision = "supported_answer" => Final.content.claims # {}

EvidenceExists ==
  /\ Final.refs \subseteq UNION {artifacts[i].refs : i \in Bundles}
  /\ Final.content.items \subseteq Final.refs

\* The bundles with a payload of law l; the gate reads the last one.
Sightings(l) == {i \in Bundles : l \in DOMAIN artifacts[i].content}

LatestPayload(l) == artifacts[Max(Sightings(l))].content[l]

\* Mutant: only the presence of a law is checked.
SomeLawCited ==
  Final.content.decision = "supported_answer" => \E l \in Final.refs \cap Laws : Sightings(l) # {}

TemporalValidity ==
  LET cited == {l \in Final.refs \cap Laws : Sightings(l) # {}}
  IN  Final.content.decision = "supported_answer" =>
        /\ cited # {}
        /\ \A l \in cited : Effective(LatestPayload(l), eventDate)

\* evaluate: the checks of the gate in their order; the decision and the structure
\* of an approved response are those of its candidate.
Delivers ==
  /\ Provenance
  /\ Approved
  /\ ClaimsGrounded
  /\ EvidenceExists
  /\ TemporalValidity
  /\ Final.content.clean

ChainIsOver == status = "running" /\ task = NoTask

\* _finish_or_mark_no_progress, with a final response ...
JudgeFinal ==
  /\ ChainIsOver
  /\ Finals # {}
  /\ IF Delivers
       THEN status' = "completed" /\ accepted' = Max(Finals) /\ UNCHANGED artifacts
       ELSE /\ status' = "failed"
            /\ accepted' = Place(1)
            /\ Put(<<New("FINAL_RESPONSE", {Max(Finals)}, {},
                         [NoBody EXCEPT !.decision = "safe_error", !.limits = TRUE])>>)
  /\ UNCHANGED <<matter, matterEvidence, world, task, depth, held, searches, read, viewed>>

\* ... and without one.
FinishEmptyHanded ==
  /\ ChainIsOver
  /\ Finals = {}
  /\ status' = "limited"
  /\ UNCHANGED <<matter, matterEvidence, world, artifacts, task, depth, held, accepted,
                 searches, read, viewed>>

-----------------------------------------------------------------------------

\* The index is rebuilt.  Before the first search this is another initial index,
\* and after the final response nobody looks.
Reindex ==
  /\ status = "running"
  /\ searches > 0 /\ Finals = {}
  /\ reindexed < MaxReindex
  /\ index' \in [Laws -> Payloads] \ {index}
  /\ reindexed' = reindexed + 1
  /\ UNCHANGED <<matter, matterEvidence, artifacts, task, depth, held, status, accepted,
                 searches, read, viewed>>

Next ==
  \/ FailTask
  \/ BlockTask
  \/ AssessSafety
  \/ ScheduleNext
  \/ Escalate
  \/ UnderstandMessage
  \/ RetrieveContext
  \/ AnalyzeEvidence
  \/ ComposeResponse
  \/ ReviewResponse
  \/ RequestRecheck
  \/ JudgeFinal
  \/ FinishEmptyHanded
  \/ Reindex

Spec == Init /\ [][Next]_vars

-----------------------------------------------------------------------------
\* Properties.

Body == [decision : {"none", "failed", "clarification_needed", "supported_answer",
                     "limited_answer", "constructive_abstention", "safe_error"},
         claims : SUBSET Claim, items : SUBSET Evidence, limits : BOOLEAN, clean : BOOLEAN]

\* The artifacts of the run refer to earlier ones; bundles hold a payload of each
\* law that they cite and of no other.
TypeOK ==
  /\ critical \in BOOLEAN /\ ready \in BOOLEAN
  /\ eventDate \in Dates \cup {NoDate}
  /\ matterEvidence \subseteq Evidence
  /\ index \in [Laws -> Payloads]
  /\ reindexed \in 0..MaxReindex
  /\ \A i \in DOMAIN artifacts :
       LET a == artifacts[i]
       IN  /\ a.sources \subseteq 1..(i - 1)
           /\ a.refs \subseteq Evidence
           /\ CASE a.type = "RAG_EVIDENCE_BUNDLE" -> a.content \in [a.refs \cap Laws -> Payloads]
                [] a.type = "REVIEW_RESULT"       -> a.content \in BOOLEAN
                [] OTHER                          -> a.content \in Body
  /\ task.type \in TaskTypes \cup {"none"}
  /\ task.inputs \subseteq DOMAIN artifacts
  /\ task.first \in task.inputs \cup {None}
  /\ depth \in 0..MaxTaskDepth
  /\ held \subseteq MessageScoped
  /\ status \in {"running", "completed", "limited", "failed"}
  /\ accepted \in {None} \cup DOMAIN artifacts
  /\ searches \in Nat
  /\ read \in {None} \cup DOMAIN artifacts
  /\ viewed \subseteq DOMAIN artifacts

\* The response that the user gets is one that the gate approved.
Delivered == status = "completed"

Answer == artifacts[accepted].content

Cited == artifacts[accepted].refs

\* A law is in force from the first day of its version to the day before the
\* first day of the next.
InForce(law, date) ==
  /\ law.confirmed
  /\ date \in {d \in Dates : law.from \in 0..d /\ law.to \notin 0..d}

\* The last search of the run that found the law shows it out of force, unlike the
\* bundle that was analysed.
Outdated(l) ==
  /\ LatestPayload(l) # artifacts[read].content[l]
  /\ ~Effective(LatestPayload(l), eventDate)

\* A supported answer that is delivered cites a law, and each law that it cites is
\* in force on the day of the event: as the analysis read it, and as the last
\* search of the run found it, although the index may change in between and the
\* model proposes claims, items and contexts.
SupportedIsInForce ==
  Delivered /\ Answer.decision = "supported_answer" =>
    /\ Cited \cap Laws # {}
    /\ \A l \in Cited \cap Laws :
         /\ InForce(artifacts[read].content[l], eventDate)
         /\ InForce(LatestPayload(l), eventDate)

\* What a delivered answer cites, in its claims and on its items as well, is
\* evidence of the one bundle that the analysis of this run worked on: never
\* evidence of an earlier turn, nor of a search made for a context.
CitesWhatWasRead ==
  Delivered /\ Cited # {} =>
    /\ read # None /\ IsBundle(artifacts[read])
    /\ Cited \cup Answer.items \cup UNION {c.ids : c \in Answer.claims} \subseteq artifacts[read].refs

\* The review had the bundle before it that the delivered answer rests on, though
\* its task has the candidate as its only input.
ReviewSawEvidence == Delivered /\ Cited # {} => read \in viewed

\* The gate blocks a response that the review approved only for what the review
\* does not look at: its text, a blank claim, or a cited law that a later search of
\* the run found with another payload, not in force on the day of the event, than
\* the analysis had.  Otherwise no run that got through its review fails.
GateAgreesWithReview ==
  status = "failed" =>
    LET blocked == CHOOSE i \in artifacts[accepted].sources : TRUE
        review == CHOOSE i \in SourcesOf(artifacts[blocked], "REVIEW_RESULT") : TRUE
    IN  artifacts[review].content =>
          \/ ~artifacts[blocked].content.clean
          \/ \E c \in artifacts[blocked].content.claims : c.text = "blank"
          \/ \E l \in artifacts[blocked].refs \cap Laws : Outdated(l)

\* Every search is on record as a bundle of the run, also that of an agent which
\* failed afterwards, and the matter knows the evidence.
SearchesAreRecorded ==
  /\ searches = Cardinality(Bundles)
  /\ UNION {artifacts[i].refs : i \in Bundles} \subseteq matterEvidence

\* The trace of a run shows what was searched, what the answer rests on, and that
\* the review knew it.
EvidenceIsTraced == TypeOK /\ SearchesAreRecorded /\ CitesWhatWasRead /\ ReviewSawEvidence
=============================================================================
