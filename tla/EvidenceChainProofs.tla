------------------------- MODULE EvidenceChainProofs -------------------------
(***************************************************************************)
(* What the artifacts of a run hold and refer to, for every set of laws and *)
(* cases, every history of the index, and everything the model may propose. *)
(***************************************************************************)
EXTENDS EvidenceChain, FiniteSetTheorems, SequenceTheorems, WellFoundedInduction, TLAPS

-----------------------------------------------------------------------------
\* The board

ArtifactTypes ==
  {"RISK_REVIEW", "TASK_INTENT", "ESCALATION_REQUEST", "SUFFICIENCY_ASSESSMENT",
   "RETRIEVAL_PLAN", "RAG_EVIDENCE_BUNDLE", "ISSUE_ANALYSIS", "RESPONSE_CANDIDATE",
   "REVIEW_RESULT", "FINAL_RESPONSE"}

Contents == Body \cup BOOLEAN \cup UNION {[laws -> Payloads] : laws \in SUBSET Laws}

Artifact ==
  [type : ArtifactTypes, sources : SUBSET Nat, refs : SUBSET Evidence, content : Contents]

\* The artifact a may have the place i.
Fits(a, i) ==
  /\ a.sources \subseteq 1..(i - 1)
  /\ a.type = "RAG_EVIDENCE_BUNDLE" => a.content \in [a.refs \cap Laws -> Payloads]
  /\ a.type = "REVIEW_RESULT" => a.content \in BOOLEAN
  /\ a.type \notin {"RAG_EVIDENCE_BUNDLE", "REVIEW_RESULT"} => a.content \in Body

BoardOK(b) == b \in Seq(Artifact) /\ \A i \in DOMAIN b : Fits(b[i], i)

BundlesOf(b) == {i \in DOMAIN b : IsBundle(b[i])}

\* Each search is on the board, and the matter knows what was found.
Recorded(b, n, evidence) ==
  /\ n = Cardinality(BundlesOf(b))
  /\ \A i \in BundlesOf(b) : b[i].refs \subseteq evidence

BoardInv(b, n, evidence) == BoardOK(b) /\ Recorded(b, n, evidence)

-----------------------------------------------------------------------------
\* The way of the evidence

\* What is cited is what the bundle that was read has.
RestsOn(b, place, refs) == refs # {} => place \in BundlesOf(b) /\ refs = b[place].refs

\* A body that claims no more than was read.
SoundBody(b, place, body, refs) ==
  /\ Grounded(body.claims, refs)
  /\ body.items \subseteq refs
  /\ body.decision = "supported_answer" =>
       refs # {} /\ body.claims # {} /\ LawsConfirmed(b[place])

AnalysisOK(b, place, i) ==
  /\ b[i].type = "ISSUE_ANALYSIS"
  /\ RestsOn(b, place, b[i].refs)
  /\ SoundBody(b, place, b[i].content, b[i].refs)
  /\ b[i].refs # {} => place \in b[i].sources

CandidateOK(b, place, i) ==
  /\ b[i].type = "RESPONSE_CANDIDATE"
  /\ RestsOn(b, place, b[i].refs)
  /\ SoundBody(b, place, b[i].content, b[i].refs)
  /\ \A c \in b[i].content.claims : c.text # "empty"
  /\ b[i].refs # {} => \E a \in b[i].sources : place \in b[a].sources

\* A task that was scheduled, by the model as well, has the intent as its first
\* input; one that was derived has what its predecessor made.
StartOK(b, place, t, i) ==
  /\ t = "analyze_evidence" => IsBundle(b[i]) \/ b[i].refs = {}
  /\ t = "compose_response" =>
       AnalysisOK(b, place, i) \/ (b[i].type # "ISSUE_ANALYSIS" /\ b[i].refs = {})
  /\ t = "review_response" => b[i].type = "TASK_INTENT" \/ CandidateOK(b, place, i)

\* The final response at place i, its review before it, and what both are about.
FinalOK(b, place, context, i) ==
  \E c \in 1..(i - 2) :
    /\ b[i].type = "FINAL_RESPONSE" /\ b[i].sources = {c, i - 1} /\ b[i].refs = b[c].refs
    /\ b[i - 1].type = "REVIEW_RESULT" /\ b[i - 1].sources = {c}
    /\ b[c].type # "REVIEW_RESULT"
    /\ b[i - 1].content =>
         /\ CandidateOK(b, place, c)
         /\ b[i].content = b[c].content
         /\ b[c].refs # {} => place \in context

-----------------------------------------------------------------------------
\* The invariants

TaskOK ==
  /\ task.type \in TaskTypes \cup {"none"}
  /\ task.inputs \subseteq DOMAIN artifacts
  /\ task.first \in task.inputs \cup {None}
  /\ depth \in 0..MaxTaskDepth
  /\ held \subseteq MessageScoped

StateOK ==
  /\ critical \in BOOLEAN /\ ready \in BOOLEAN
  /\ eventDate \in Dates \cup {NoDate}
  /\ matterEvidence \subseteq Evidence
  /\ index \in [Laws -> Payloads]
  /\ reindexed \in 0..MaxReindex
  /\ TaskOK
  /\ status \in {"running", "completed", "limited", "failed"}
  /\ accepted \in {None} \cup DOMAIN artifacts
  /\ searches \in Nat
  /\ read \in {None} \cup DOMAIN artifacts
  /\ viewed \subseteq DOMAIN artifacts

\* An open task has what it starts from, and comes before a final response.
TaskInv ==
  /\ task.type # "none" => Finals = {}
  /\ task.type \notin {"none", "assess_safety"} =>
       task.first \in task.inputs /\ StartOK(artifacts, read, task.type, task.first)

\* A final response that waits for the gate is the last artifact.
FinalInv ==
  status = "running" /\ Finals # {} =>
    Len(artifacts) >= 3 /\ FinalOK(artifacts, read, viewed, Len(artifacts))

AnswerInv == SupportedIsInForce /\ CitesWhatWasRead /\ ReviewSawEvidence /\ GateAgreesWithReview

IInv ==
  StateOK /\ BoardInv(artifacts, searches, matterEvidence) /\ TaskInv /\ FinalInv /\ AnswerInv

-----------------------------------------------------------------------------
\* How the board grows

LEMMA Constants ==
  /\ Dates \subseteq Nat /\ NoDate \notin Nat /\ Payloads \subseteq Payload
  /\ EarlierEvidence \subseteq Evidence /\ HasModel \in BOOLEAN
  /\ MaxTaskDepth \in Nat /\ MaxReindex \in Nat
BY EvidenceAssumption

\* Everything on the board c that was on the board b is as it was.
Extends(b, c) == Len(b) <= Len(c) /\ \A i \in 1..Len(b) : c[i] = b[i]

\* The places of a board.
LEMMA PlacesOf ==
  ASSUME NEW b, BoardOK(b)
  PROVE  /\ b \in Seq(Artifact) /\ Len(b) \in Nat /\ DOMAIN b = 1..Len(b)
         /\ \A i \in DOMAIN b : b[i] \in Artifact /\ Fits(b[i], i) /\ b[i].sources \subseteq DOMAIN b
<1>1. b \in Seq(Artifact) /\ Len(b) \in Nat /\ DOMAIN b = 1..Len(b)
  BY DEF BoardOK
<1>2. ASSUME NEW i \in 1..Len(b) PROVE 1..(i - 1) \subseteq 1..Len(b)
  BY <1>1
<1>3. \A i \in DOMAIN b : b[i] \in Artifact /\ Fits(b[i], i)
  BY <1>1 DEF BoardOK
<1>4. \A i \in DOMAIN b : b[i].sources \subseteq 1..(i - 1)
  BY <1>3 DEF Fits
<1>. QED  BY <1>1, <1>2, <1>3, <1>4

\* One more artifact.
LEMMA OneMore ==
  ASSUME NEW b, BoardOK(b), NEW a \in Artifact, Fits(a, Len(b) + 1)
  PROVE  /\ BoardOK(Append(b, a)) /\ Extends(b, Append(b, a))
         /\ Len(Append(b, a)) = Len(b) + 1
         /\ DOMAIN Append(b, a) = 1..(Len(b) + 1)
         /\ Append(b, a)[Len(b) + 1] = a
<1>1. b \in Seq(Artifact) /\ Len(b) \in Nat /\ DOMAIN b = 1..Len(b)
  BY PlacesOf
<1>2. /\ Append(b, a) \in Seq(Artifact)
      /\ Len(Append(b, a)) = Len(b) + 1
      /\ DOMAIN Append(b, a) = 1..(Len(b) + 1)
      /\ Append(b, a)[Len(b) + 1] = a
      /\ \A i \in 1..Len(b) : Append(b, a)[i] = b[i]
  BY <1>1
<1>3. \A i \in 1..(Len(b) + 1) : i \in 1..Len(b) \/ i = Len(b) + 1
  BY <1>1
<1>4. BoardOK(Append(b, a))
  BY <1>1, <1>2, <1>3 DEF BoardOK
<1>. QED  BY <1>1, <1>2, <1>4 DEF Extends

\* The bundles of a board are finitely many places.
LEMMA BundlesAreFinite ==
  ASSUME NEW b, BoardOK(b)
  PROVE  IsFiniteSet(BundlesOf(b)) /\ BundlesOf(b) \subseteq 1..Len(b)
<1>1. Len(b) \in Nat /\ DOMAIN b = 1..Len(b)
  BY PlacesOf
<1>2. IsFiniteSet(1..Len(b))
  BY <1>1, FS_Interval
<1>3. BundlesOf(b) \subseteq 1..Len(b)
  BY <1>1 DEF BundlesOf
<1>. QED  BY <1>2, <1>3, FS_Subset

\* An artifact that is no bundle leaves the record of the searches as it is.
LEMMA PlainArtifact ==
  ASSUME NEW b, NEW n, NEW evidence, BoardInv(b, n, evidence),
         NEW a \in Artifact, Fits(a, Len(b) + 1), ~IsBundle(a)
  PROVE  BoardInv(Append(b, a), n, evidence) /\ BundlesOf(Append(b, a)) = BundlesOf(b)
<1>1. BoardOK(b)
  BY DEF BoardInv
<1>2. Len(b) \in Nat /\ DOMAIN b = 1..Len(b)
  BY <1>1, PlacesOf
<1>. DEFINE c == Append(b, a)
<1>3. /\ BoardOK(c) /\ DOMAIN c = 1..(Len(b) + 1) /\ c[Len(b) + 1] = a
      /\ \A i \in 1..Len(b) : c[i] = b[i]
  BY <1>1, OneMore DEF Extends
<1>. HIDE DEF c
<1>4. BundlesOf(c) = BundlesOf(b)
  <2>1. \A i : i \in 1..(Len(b) + 1) <=> i \in 1..Len(b) \/ i = Len(b) + 1
    BY <1>2
  <2>2. Len(b) + 1 \notin 1..Len(b)
    BY <1>2
  <2>. QED  BY <1>2, <1>3, <2>1, <2>2 DEF BundlesOf
<1>5. \A i \in BundlesOf(b) : c[i] = b[i]
  BY <1>2, <1>3 DEF BundlesOf
<1>. QED  BY <1>3, <1>4, <1>5 DEF BoardInv, Recorded, c

\* A bundle is on record, with its evidence.
LEMMA NewBundle ==
  ASSUME NEW b, NEW n \in Nat, NEW evidence, BoardInv(b, n, evidence), index \in [Laws -> Payloads],
         NEW sources \in SUBSET (1..Len(b)), NEW found \in Found
  PROVE  LET a == Bundle(sources, found)
         IN  /\ BoardInv(Append(b, a), n + 1, evidence \cup found)
             /\ a \in Artifact /\ Fits(a, Len(b) + 1) /\ IsBundle(a) /\ a.refs = found
<1>. DEFINE a == Bundle(sources, found)
            c == Append(b, a)
<1>1. BoardOK(b)
  BY DEF BoardInv
<1>2. Len(b) \in Nat /\ DOMAIN b = 1..Len(b)
  BY <1>1, PlacesOf
<1>3. found \subseteq Evidence /\ [l \in found \cap Laws |-> index[l]] \in [found \cap Laws -> Payloads]
  BY DEF Found
<1>4. /\ a.type = "RAG_EVIDENCE_BUNDLE" /\ a.sources = sources /\ a.refs = found
      /\ a.content = [l \in found \cap Laws |-> index[l]]
  BY DEF Bundle, New
<1>5. a \in Artifact
  <2>1. [l \in found \cap Laws |-> index[l]] \in Contents
    BY <1>3 DEF Contents
  <2>2. sources \in SUBSET Nat
    BY <1>2
  <2>. QED  BY <1>3, <2>1, <2>2 DEF Bundle, New, Artifact, ArtifactTypes
<1>. HIDE DEF a
<1>6. Fits(a, Len(b) + 1)
  BY <1>2, <1>3, <1>4 DEF Fits
<1>7. /\ BoardOK(c) /\ DOMAIN c = 1..(Len(b) + 1) /\ c[Len(b) + 1] = a
      /\ \A i \in 1..Len(b) : c[i] = b[i]
  BY <1>1, <1>5, <1>6, OneMore DEF Extends
<1>. HIDE DEF c
<1>8. BundlesOf(c) = BundlesOf(b) \cup {Len(b) + 1} /\ Len(b) + 1 \notin BundlesOf(b)
  <2>1. \A i : i \in 1..(Len(b) + 1) <=> i \in 1..Len(b) \/ i = Len(b) + 1
    BY <1>2
  <2>2. Len(b) + 1 \notin 1..Len(b)
    BY <1>2
  <2>. QED  BY <1>2, <1>4, <1>7, <2>1, <2>2 DEF BundlesOf, IsBundle
<1>9. Cardinality(BundlesOf(c)) = n + 1
  <2>1. Cardinality(BundlesOf(b)) = n
    BY DEF BoardInv, Recorded
  <2>. QED  BY <1>1, <1>8, <2>1, BundlesAreFinite, FS_AddElement
<1>10. \A i \in BundlesOf(b) : c[i] = b[i]
  BY <1>2, <1>7 DEF BundlesOf
<1>11. Recorded(c, n + 1, evidence \cup found)
  BY <1>4, <1>7, <1>8, <1>9, <1>10 DEF BoardInv, Recorded
<1>. QED  BY <1>4, <1>5, <1>6, <1>7, <1>11 DEF BoardInv, IsBundle, a, c

\* Artifacts are appended one after the other.
LEMMA PutOne == ASSUME NEW b \in Seq(Artifact), NEW x PROVE b \o <<x>> = Append(b, x)
OBVIOUS

LEMMA PutTwo ==
  ASSUME NEW b \in Seq(Artifact), NEW x \in Artifact, NEW y \in Artifact
  PROVE  b \o <<x, y>> = Append(Append(b, x), y)
OBVIOUS

\* What was sound stays so on a board that is extended.
LEMMA SoundnessStays ==
  ASSUME NEW b, NEW c, BoardOK(b), BoardOK(c), Extends(b, c), NEW place, NEW i \in DOMAIN b,
         CandidateOK(b, place, i)
  PROVE  CandidateOK(c, place, i) /\ c[i] = b[i]
<1>1. /\ Len(b) \in Nat /\ DOMAIN b = 1..Len(b) /\ Len(c) \in Nat /\ DOMAIN c = 1..Len(c)
      /\ Len(b) <= Len(c) /\ \A k \in DOMAIN b : c[k] = b[k] /\ k \in DOMAIN c
  BY PlacesOf DEF Extends
<1>2. b[i].sources \subseteq DOMAIN b
  BY PlacesOf
<1>3. b[i].refs # {} => place \in DOMAIN b
  BY DEF CandidateOK, RestsOn, BundlesOf
<1>. QED  BY <1>1, <1>2, <1>3 DEF CandidateOK, RestsOn, SoundBody, BundlesOf

-----------------------------------------------------------------------------
\* The context of a review

\* The recursive function of SourceChain.
ChainOf(b) ==
  CHOOSE f : f = [i \in DOMAIN b |-> {i} \cup UNION {f[j] : j \in b[i].sources}]

\* There is such a function: what is in every set that has i and, with an artifact,
\* its sources.
LEMMA ChainEquation ==
  ASSUME NEW b, BoardOK(b), NEW i \in DOMAIN b
  PROVE  ChainOf(b)[i] = {i} \cup UNION {ChainOf(b)[j] : j \in b[i].sources}
<1>. DEFINE Closed(S) == S \subseteq DOMAIN b /\ \A j \in S : b[j].sources \subseteq S
            Below(k) == {m \in DOMAIN b : \A S : Closed(S) /\ k \in S => m \in S}
            g == [k \in DOMAIN b |-> Below(k)]
<1>1. \A k \in DOMAIN b : b[k].sources \subseteq DOMAIN b
  BY PlacesOf
<1>2. ASSUME NEW k \in DOMAIN b PROVE Below(k) = {k} \cup UNION {Below(j) : j \in b[k].sources}
  <2>. DEFINE R == {k} \cup UNION {Below(j) : j \in b[k].sources}
  <2>1. R \subseteq Below(k)
    BY <1>1
  <2>2. Closed(R) /\ k \in R
    <3>1. R \subseteq DOMAIN b /\ k \in R
      OBVIOUS
    <3>2. ASSUME NEW m \in R PROVE b[m].sources \subseteq R
      <4>1. CASE m = k
        <5>1. ASSUME NEW j \in b[k].sources PROVE j \in Below(j)
          BY <1>1
        <5>. QED  BY <4>1, <5>1
      <4>2. ASSUME NEW j \in b[k].sources, m \in Below(j) PROVE b[m].sources \subseteq Below(j)
        <5>. SUFFICES ASSUME NEW n \in b[m].sources, NEW S, Closed(S), j \in S PROVE n \in S /\ n \in DOMAIN b
          BY <1>1, <4>2
        <5>. QED  BY <1>1, <4>2
      <4>. QED  BY <4>1, <4>2
    <3>. QED  BY <3>1, <3>2
  <2>3. Below(k) \subseteq R
    <3>. HIDE DEF Closed, R
    <3>. QED  BY <2>2
  <2>. QED  BY <2>1, <2>3
<1>. HIDE DEF Below
<1>3. g = [k \in DOMAIN b |-> {k} \cup UNION {g[j] : j \in b[k].sources}]
  <2>1. ASSUME NEW k \in DOMAIN b PROVE Below(k) = {k} \cup UNION {g[j] : j \in b[k].sources}
    <3>1. {Below(j) : j \in b[k].sources} = {g[j] : j \in b[k].sources}
      BY <1>1
    <3>. QED  BY <1>2, <3>1
  <2>. QED  BY <2>1
<1>. HIDE DEF g
<1>4. ChainOf(b) = [k \in DOMAIN b |-> {k} \cup UNION {ChainOf(b)[j] : j \in b[k].sources}]
  BY <1>3 DEF ChainOf
<1>5. \A k \in DOMAIN b : [n \in DOMAIN b |-> {n} \cup UNION {ChainOf(b)[j] : j \in b[n].sources}][k] =
                           {k} \cup UNION {ChainOf(b)[j] : j \in b[k].sources}
  OBVIOUS
<1>. QED  BY <1>4, <1>5

\* A set of places has a first.
LEMMA FirstPlace ==
  ASSUME NEW S, S \subseteq Nat, S # {}
  PROVE  \E k \in S : \A j \in S : ~(j < k)
<1>1. \E k \in S : \A j \in S : <<j, k>> \notin OpToRel(<, Nat)
  BY NatLessThanWellFounded, WFMin
<1>. QED  BY <1>1 DEF OpToRel

\* The chain of some artifacts has what they are derived from in two steps.
LEMMA ChainHolds ==
  ASSUME NEW b, BoardOK(b), NEW ids \in SUBSET DOMAIN b
  PROVE  /\ SourceChain(b, ids) \subseteq DOMAIN b
         /\ \A i \in ids : \A j \in b[i].sources : b[j].sources \subseteq SourceChain(b, ids)
<1>1. SourceChain(b, ids) = UNION {ChainOf(b)[i] : i \in ids}
  BY DEF SourceChain, ChainOf
<1>2. /\ DOMAIN b = 1..Len(b) /\ Len(b) \in Nat
      /\ \A i \in DOMAIN b : b[i].sources \subseteq DOMAIN b /\ b[i].sources \subseteq 1..(i - 1)
  BY PlacesOf DEF Fits
<1>3. \A i \in DOMAIN b : ChainOf(b)[i] = {i} \cup UNION {ChainOf(b)[j] : j \in b[i].sources}
  BY ChainEquation
<1>. HIDE DEF ChainOf
<1>4. \A i \in DOMAIN b : ChainOf(b)[i] \subseteq DOMAIN b
  <2>. DEFINE S == {i \in DOMAIN b : ~(ChainOf(b)[i] \subseteq DOMAIN b)}
  <2>. SUFFICES ASSUME S # {} PROVE FALSE
    OBVIOUS
  <2>1. PICK k \in S : \A j \in S : ~(j < k)
    <3>1. S \subseteq Nat
      BY <1>2
    <3>. HIDE DEF S
    <3>. QED  BY <3>1, FirstPlace
  <2>2. \A j \in b[k].sources : j < k /\ j \in DOMAIN b
    BY <1>2
  <2>3. \A j \in b[k].sources : ChainOf(b)[j] \subseteq DOMAIN b
    BY <2>1, <2>2
  <2>. QED  BY <1>3, <2>1, <2>3
<1>5. \A i \in DOMAIN b : i \in ChainOf(b)[i] /\ \A j \in b[i].sources : ChainOf(b)[j] \subseteq ChainOf(b)[i]
  BY <1>3
<1>6. ASSUME NEW i \in ids, NEW j \in b[i].sources, NEW k \in b[j].sources
      PROVE  k \in SourceChain(b, ids)
  <2>1. j \in DOMAIN b /\ k \in DOMAIN b
    BY <1>2
  <2>. QED  BY <1>1, <1>5, <2>1
<1>. QED  BY <1>1, <1>4, <1>6

-----------------------------------------------------------------------------
\* What the rounds have in common

FinalsOf(b) == {i \in DOMAIN b : b[i].type = "FINAL_RESPONSE"}

\* One board extends another, which extends a third.
LEMMA ExtendsOn ==
  ASSUME NEW b, NEW c, NEW d, BoardOK(b), BoardOK(c), BoardOK(d), Extends(b, c), Extends(c, d)
  PROVE  Extends(b, d)
<1>1. Len(b) \in Nat /\ Len(c) \in Nat /\ Len(d) \in Nat
  BY PlacesOf
<1>. QED  BY <1>1 DEF Extends

\* An agent adds an artifact other than a bundle.
LEMMA NewPlain ==
  ASSUME NEW b, NEW n, NEW evidence, BoardInv(b, n, evidence),
         NEW type \in ArtifactTypes \ {"RAG_EVIDENCE_BUNDLE"}, NEW sources \in SUBSET DOMAIN b,
         NEW refs \in SUBSET Evidence, NEW content,
         (type = "REVIEW_RESULT" /\ content \in BOOLEAN) \/ (type # "REVIEW_RESULT" /\ content \in Body)
  PROVE  LET a == New(type, sources, refs, content)
             c == Append(b, a)
         IN  /\ a \in Artifact /\ a.type = type /\ a.sources = sources /\ a.refs = refs
             /\ a.content = content
             /\ BoardInv(c, n, evidence) /\ Extends(b, c) /\ BundlesOf(c) = BundlesOf(b)
             /\ Len(c) = Len(b) + 1 /\ DOMAIN c = 1..(Len(b) + 1) /\ c[Len(b) + 1] = a
             /\ type # "FINAL_RESPONSE" => FinalsOf(c) = FinalsOf(b)
<1>. DEFINE a == New(type, sources, refs, content)
            c == Append(b, a)
<1>1. BoardOK(b)
  BY DEF BoardInv
<1>2. Len(b) \in Nat /\ DOMAIN b = 1..Len(b)
  BY <1>1, PlacesOf
<1>3. a.type = type /\ a.sources = sources /\ a.refs = refs /\ a.content = content
  BY DEF New
<1>4. a \in Artifact
  <2>1. content \in Contents
    BY DEF Contents
  <2>2. sources \in SUBSET Nat
    BY <1>2
  <2>. QED  BY <2>1, <2>2 DEF New, Artifact
<1>. HIDE DEF a
<1>5. Fits(a, Len(b) + 1) /\ ~IsBundle(a)
  BY <1>2, <1>3 DEF Fits, IsBundle
<1>6. /\ BoardOK(c) /\ Extends(b, c) /\ Len(c) = Len(b) + 1 /\ DOMAIN c = 1..(Len(b) + 1)
      /\ c[Len(b) + 1] = a
  BY <1>1, <1>4, <1>5, OneMore
<1>7. BoardInv(c, n, evidence) /\ BundlesOf(c) = BundlesOf(b)
  BY <1>4, <1>5, PlainArtifact
<1>. HIDE DEF c
<1>8. type # "FINAL_RESPONSE" => FinalsOf(c) = FinalsOf(b)
  <2>1. \A i : i \in 1..(Len(b) + 1) <=> i \in 1..Len(b) \/ i = Len(b) + 1
    BY <1>2
  <2>. QED  BY <1>2, <1>3, <1>6, <2>1 DEF FinalsOf, Extends
<1>. QED  BY <1>3, <1>4, <1>6, <1>7, <1>8 DEF a, c

\* A round that keeps the parts of the invariant that it can disturb keeps the
\* invariant: nothing is delivered while the run goes on.
LEMMA Round ==
  ASSUME IInv, NEW t \in TaskTypes, Claimed(t),
         NEW b, NEW n \in Nat, NEW evidence \in SUBSET Evidence,
         artifacts' = b, searches' = n, matterEvidence' = evidence,
         BoardInv(b, n, evidence), Extends(artifacts, b),
         ready' \in BOOLEAN, eventDate' \in Dates \cup {NoDate},
         read' \in {None} \cup DOMAIN b, viewed' \subseteq DOMAIN b,
         TaskOK', TaskInv', FinalInv'
  PROVE  IInv'
<1>1. UNCHANGED <<critical, index, reindexed, status, accepted>> /\ status = "running"
  BY DEF Claimed, world
<1>2. StateOK'
  <2>1. DOMAIN artifacts \subseteq DOMAIN b
    <3>1. BoardOK(artifacts) /\ BoardOK(b)
      BY DEF IInv, BoardInv
    <3>2. Len(artifacts) \in Nat /\ Len(b) \in Nat /\ DOMAIN artifacts = 1..Len(artifacts) /\ DOMAIN b = 1..Len(b)
      BY <3>1, PlacesOf
    <3>. QED  BY <3>2 DEF Extends
  <2>. QED  BY <1>1, <2>1 DEF IInv, StateOK
<1>3. BoardInv(artifacts, searches, matterEvidence)'
  BY <1>1 DEF BoardInv, BoardOK, Recorded
<1>4. AnswerInv'
  BY <1>1 DEF AnswerInv, SupportedIsInForce, CitesWhatWasRead, ReviewSawEvidence,
              GateAgreesWithReview, Delivered
<1>. QED  BY <1>2, <1>3, <1>4 DEF IInv

\* Without a final response on the board none waits for the gate.
LEMMA NoFinal ==
  ASSUME NEW b, artifacts' = b, FinalsOf(b) = {}
  PROVE  FinalInv' /\ Finals' = {}
BY DEF FinalInv, Finals, FinalsOf

\* There is no final response while a task is open.
LEMMA OpenTask ==
  ASSUME IInv, NEW t \in TaskTypes, Claimed(t)
  PROVE  /\ FinalsOf(artifacts) = {} /\ task.type = t
         /\ StateOK /\ TaskOK /\ BoardInv(artifacts, searches, matterEvidence) /\ BoardOK(artifacts)
         /\ searches \in Nat /\ matterEvidence \subseteq Evidence
         /\ artifacts \in Seq(Artifact) /\ Len(artifacts) \in Nat /\ DOMAIN artifacts = 1..Len(artifacts)
         /\ task.inputs \subseteq DOMAIN artifacts
         /\ t # "assess_safety" => /\ task.first \in task.inputs /\ task.first \in DOMAIN artifacts
                                   /\ StartOK(artifacts, read, t, task.first)
<1>1. task.type = t /\ t # "none"
  BY DEF Claimed, TaskTypes
<1>2. Finals = {}
  BY <1>1 DEF IInv, TaskInv
<1>3. BoardOK(artifacts) /\ StateOK /\ TaskOK /\ TaskInv
  BY DEF IInv, BoardInv, StateOK
<1>4. artifacts \in Seq(Artifact) /\ Len(artifacts) \in Nat /\ DOMAIN artifacts = 1..Len(artifacts)
  BY <1>3, PlacesOf
<1>5. task.inputs \subseteq DOMAIN artifacts
  BY <1>3 DEF TaskOK
<1>6. t # "assess_safety" => task.first \in task.inputs /\ StartOK(artifacts, read, t, task.first)
  BY <1>1, <1>3 DEF TaskInv
<1>. QED  BY <1>1, <1>2, <1>3, <1>4, <1>5, <1>6 DEF FinalsOf, Finals, IInv, StateOK

\* The chain ends.
LEMMA Ends ==
  ASSUME TaskOK, ChainEnds
  PROVE  TaskOK' /\ TaskInv'
BY DEF TaskOK, TaskInv, ChainEnds, NoTask

\* The next task has what it starts from.
LEMMA Derived ==
  ASSUME TaskOK, NEW t \in TaskTypes, NEW b, NEW first, NEW inputs,
         artifacts' = b, FinalsOf(b) = {}, first \in inputs, inputs \subseteq DOMAIN b,
         Derive(t, first, inputs), StartOK(artifacts, read, t, first)'
  PROVE  TaskOK' /\ TaskInv'
<1>1. CASE ChainEnds
  BY <1>1, Ends
<1>2. CASE ~ChainEnds
  <2>1. /\ task' = [type |-> t, first |-> first, inputs |-> inputs]
        /\ depth < MaxTaskDepth /\ depth' = depth + 1
        /\ held' = held \cup ({t} \cap MessageScoped)
    BY <1>2 DEF Derive
  <2>2. depth' \in 0..MaxTaskDepth
    BY <2>1, Constants DEF TaskOK
  <2>3. TaskOK'
    BY <2>1, <2>2 DEF TaskOK
  <2>4. TaskInv'
    BY <2>1, NoFinal DEF TaskInv
  <2>. QED  BY <2>3, <2>4
<1>. QED  BY <1>1, <1>2

\* A task that starts from an artifact without evidence.
LEMMA StartsBare ==
  ASSUME NEW b, NEW place, NEW t \in TaskTypes, NEW i, b[i].refs = {}, b[i].type # "ISSUE_ANALYSIS",
         t = "review_response" => b[i].type = "TASK_INTENT"
  PROVE  StartOK(b, place, t, i)
BY DEF StartOK

\* The board once the hole of a context is filled.
LEMMA FilledBoard ==
  ASSUME IInv, NEW found, Fill(found)
  PROVE  /\ \E n \in Nat, evidence \in SUBSET Evidence :
               searches' = n /\ matterEvidence' = evidence /\ BoardInv(Filled(found), n, evidence)
         /\ BoardOK(Filled(found)) /\ Extends(artifacts, Filled(found))
         /\ FinalsOf(Filled(found)) = FinalsOf(artifacts)
         /\ Len(artifacts) \in Nat /\ DOMAIN artifacts = 1..Len(artifacts)
         /\ Len(Filled(found)) \in Nat /\ DOMAIN Filled(found) = 1..Len(Filled(found))
         /\ DOMAIN artifacts \subseteq DOMAIN Filled(found)
<1>1. /\ BoardInv(artifacts, searches, matterEvidence) /\ BoardOK(artifacts) /\ searches \in Nat
      /\ matterEvidence \subseteq Evidence /\ index \in [Laws -> Payloads]
  BY DEF IInv, StateOK, BoardInv
<1>2. Len(artifacts) \in Nat /\ DOMAIN artifacts = 1..Len(artifacts)
  BY <1>1, PlacesOf
<1>3. CASE ~HasHole
  <2>1. Filled(found) = artifacts /\ searches' = searches /\ matterEvidence' = matterEvidence
    BY <1>3 DEF Filled, Fill, NotSearched
  <2>2. Extends(artifacts, artifacts)
    BY <1>2 DEF Extends
  <2>. QED  BY <1>1, <1>2, <2>1, <2>2
<1>4. CASE HasHole
  <2>. DEFINE a == Bundle({}, found)
              c == Append(artifacts, a)
  <2>1. Filled(found) = c /\ searches' = searches + 1 /\ matterEvidence' = matterEvidence \cup found /\ found \in Found
    BY <1>4 DEF Filled, Fill, Searched
  <2>2. BoardInv(c, searches + 1, matterEvidence \cup found) /\ a \in Artifact /\ Fits(a, Len(artifacts) + 1) /\ IsBundle(a)
    <3>1. {} \in SUBSET (1..Len(artifacts))
      OBVIOUS
    <3>. QED  BY <1>1, <2>1, <3>1, NewBundle
  <2>. HIDE DEF a
  <2>3. /\ BoardOK(c) /\ Extends(artifacts, c) /\ Len(c) = Len(artifacts) + 1
        /\ DOMAIN c = 1..(Len(artifacts) + 1) /\ c[Len(artifacts) + 1] = a
    BY <1>1, <2>2, OneMore
  <2>. HIDE DEF c
  <2>4. FinalsOf(c) = FinalsOf(artifacts)
    <3>1. \A i : i \in 1..(Len(artifacts) + 1) <=> i \in 1..Len(artifacts) \/ i = Len(artifacts) + 1
      BY <1>2
    <3>. QED  BY <1>2, <2>2, <2>3, <3>1 DEF FinalsOf, Extends, IsBundle
  <2>5. matterEvidence \cup found \in SUBSET Evidence /\ searches + 1 \in Nat
    BY <1>1, <2>1 DEF Found
  <2>6. DOMAIN artifacts \subseteq DOMAIN c
    BY <1>2, <2>3
  <2>. QED  BY <1>2, <2>1, <2>2, <2>3, <2>4, <2>5, <2>6
<1>. QED  BY <1>3, <1>4

\* The bodies without claims.
LEMMA BareBodies ==
  /\ NoBody \in Body /\ Reassurance \in Body
  /\ \A x \in {NoBody, Reassurance} : x.claims = {} /\ x.items = {} /\ x.decision # "supported_answer"
<1>1. NoBody \in Body
  BY DEF NoBody, Body
<1>2. /\ Reassurance.claims = {} /\ Reassurance.items = {}
      /\ Reassurance.decision = "limited_answer" /\ Reassurance \in Body
  BY DEF Reassurance, NoBody, Body
<1>3. NoBody.claims = {} /\ NoBody.items = {} /\ NoBody.decision = "none"
  BY DEF NoBody
<1>. QED  BY <1>1, <1>2, <1>3

-----------------------------------------------------------------------------
\* Each action keeps the invariant.

LEMMA InitInv == ASSUME Init PROVE IInv
<1>1. artifacts = <<>> /\ DOMAIN artifacts = {}
  BY DEF Init
<1>2. task = [type |-> "assess_safety", first |-> None, inputs |-> {}] /\ status = "running"
  BY DEF Init, NoTask
<1>3. StateOK
  BY <1>1, <1>2, Constants DEF Init, StateOK, TaskOK, TaskTypes, MessageScoped, Evidence
<1>4. BoardInv(artifacts, searches, matterEvidence)
  <2>1. BundlesOf(artifacts) = {}
    BY <1>1 DEF BundlesOf
  <2>2. Cardinality(BundlesOf(artifacts)) = 0
    BY <2>1, FS_EmptySet
  <2>. QED  BY <1>1, <2>1, <2>2 DEF Init, BoardInv, BoardOK, Recorded
<1>5. Finals = {}
  BY <1>1 DEF Finals
<1>6. TaskInv /\ FinalInv
  BY <1>2, <1>5 DEF TaskInv, FinalInv
<1>7. AnswerInv
  BY <1>2 DEF AnswerInv, SupportedIsInForce, CitesWhatWasRead, ReviewSawEvidence,
              GateAgreesWithReview, Delivered
<1>. QED  BY <1>3, <1>4, <1>6, <1>7 DEF IInv

LEMMA FailTaskInv == ASSUME IInv, FailTask PROVE IInv'
<1>1. PICK t \in TaskTypes : Claimed(t)
  BY DEF FailTask
<1>2. /\ FinalsOf(artifacts) = {} /\ StateOK /\ TaskOK /\ BoardInv(artifacts, searches, matterEvidence)
      /\ searches \in Nat /\ matterEvidence \subseteq Evidence /\ Len(artifacts) \in Nat
  BY <1>1, OpenTask
<1>3. TaskOK' /\ TaskInv'
  BY <1>2, Ends DEF FailTask
<1>4. UNCHANGED <<ready, eventDate, read, viewed>>
  BY DEF FailTask
<1>5. CASE task.type \in {"analyze_evidence", "review_response"}
  <2>1. PICK found \in Found : Fill(found) /\ artifacts' = Filled(found)
    BY <1>5 DEF FailTask
  <2>2. PICK n \in Nat, evidence \in SUBSET Evidence :
             searches' = n /\ matterEvidence' = evidence /\ BoardInv(Filled(found), n, evidence)
    BY <2>1, FilledBoard
  <2>3. PICK b : b = Filled(found)
    OBVIOUS
  <2>4. Extends(artifacts, b) /\ FinalsOf(b) = {} /\ DOMAIN artifacts \subseteq DOMAIN b
    BY <1>2, <2>1, <2>3, FilledBoard
  <2>5. FinalInv'
    BY <2>1, <2>3, <2>4, NoFinal
  <2>. QED  BY <1>1, <1>2, <1>3, <1>4, <2>1, <2>2, <2>3, <2>4, <2>5, Round DEF StateOK
<1>6. CASE task.type \notin {"analyze_evidence", "review_response"}
  <2>1. UNCHANGED <<artifacts, searches, matterEvidence>>
    BY <1>6 DEF FailTask, NotSearched
  <2>2. PICK b : b = artifacts
    OBVIOUS
  <2>3. Extends(artifacts, b)
    BY <1>2, <2>2 DEF Extends
  <2>4. FinalInv'
    BY <1>2, <2>1, <2>2, NoFinal
  <2>. QED  BY <1>1, <1>2, <1>3, <1>4, <2>1, <2>2, <2>3, <2>4, Round DEF StateOK
<1>. QED  BY <1>5, <1>6

LEMMA BlockTaskInv == ASSUME IInv, BlockTask PROVE IInv'
<1>1. /\ UNCHANGED <<critical, ready, eventDate, matterEvidence, index, reindexed, artifacts,
                     status, accepted, searches, read, viewed>>
      /\ status = "running" /\ ChainEnds
  BY DEF BlockTask, matter, world
<1>2. TaskOK' /\ TaskInv'
  BY <1>1, Ends DEF IInv, StateOK
<1>3. StateOK'
  BY <1>1, <1>2 DEF IInv, StateOK
<1>4. BoardInv(artifacts, searches, matterEvidence)'
  BY <1>1 DEF IInv, BoardInv, BoardOK, Recorded
<1>5. FinalInv'
  BY <1>1 DEF IInv, FinalInv, Finals, FinalOK, CandidateOK, RestsOn, SoundBody, LawsConfirmed
<1>6. AnswerInv'
  BY <1>1 DEF AnswerInv, SupportedIsInForce, CitesWhatWasRead, ReviewSawEvidence,
              GateAgreesWithReview, Delivered
<1>. QED  BY <1>2, <1>3, <1>4, <1>5, <1>6 DEF IInv

LEMMA AssessSafetyInv == ASSUME IInv, AssessSafety PROVE IInv'
<1>1. Claimed("assess_safety") /\ "assess_safety" \in TaskTypes /\ "schedule_next" \in TaskTypes
      /\ "review_response" \in TaskTypes
  BY DEF AssessSafety, TaskTypes
<1>2. /\ FinalsOf(artifacts) = {} /\ StateOK /\ TaskOK /\ BoardInv(artifacts, searches, matterEvidence)
      /\ searches \in Nat /\ matterEvidence \subseteq Evidence
      /\ artifacts \in Seq(Artifact) /\ Len(artifacts) \in Nat /\ DOMAIN artifacts = 1..Len(artifacts)
  BY <1>1, OpenTask
<1>3. UNCHANGED <<ready, eventDate, read, viewed, searches, matterEvidence>>
  BY DEF AssessSafety, NotSearched
<1>. DEFINE risk == New("RISK_REVIEW", {}, {}, NoBody)
            c == Append(artifacts, risk)
<1>4. /\ risk \in Artifact /\ risk.refs = {} /\ risk.type = "RISK_REVIEW"
      /\ BoardInv(c, searches, matterEvidence) /\ Extends(artifacts, c) /\ Len(c) = Len(artifacts) + 1
      /\ DOMAIN c = 1..(Len(artifacts) + 1) /\ c[Len(artifacts) + 1] = risk /\ FinalsOf(c) = {}
  BY <1>2, BareBodies, NewPlain DEF ArtifactTypes
<1>5. PICK p : p = Place(1)
  OBVIOUS
<1>6. p = Len(artifacts) + 1 /\ p \in DOMAIN c
  BY <1>2, <1>4, <1>5 DEF Place
<1>7. CASE ~critical
  <2>1. artifacts' = c /\ Derive("schedule_next", p, {p})
    BY <1>2, <1>5, <1>7, PutOne DEF AssessSafety, Put
  <2>. HIDE DEF risk
  <2>2. StartOK(artifacts, read, "schedule_next", p)'
    BY DEF StartOK
  <2>3. PICK b : b = c
    OBVIOUS
  <2>. HIDE DEF c
  <2>4. TaskOK' /\ TaskInv'
    BY <1>1, <1>2, <1>4, <1>6, <2>1, <2>2, <2>3, Derived
  <2>5. FinalInv'
    BY <1>4, <2>1, <2>3, NoFinal
  <2>6. DOMAIN artifacts \subseteq DOMAIN b
    BY <1>2, <1>4, <2>3
  <2>. QED  BY <1>1, <1>2, <1>3, <1>4, <2>1, <2>3, <2>4, <2>5, <2>6, Round DEF StateOK
<1>8. CASE critical
  <2>. DEFINE candidate == New("RESPONSE_CANDIDATE", {p}, {}, Reassurance)
              d == Append(c, candidate)
  <2>. HIDE DEF c
  <2>1. /\ candidate \in Artifact /\ candidate.refs = {} /\ candidate.type = "RESPONSE_CANDIDATE"
        /\ candidate.content = Reassurance
        /\ BoardInv(d, searches, matterEvidence) /\ Extends(c, d)
        /\ DOMAIN d = 1..(Len(c) + 1) /\ d[Len(c) + 1] = candidate /\ FinalsOf(d) = {}
    <3>1. {p} \in SUBSET DOMAIN c /\ {} \in SUBSET Evidence
      BY <1>6
    <3>2. "RESPONSE_CANDIDATE" \in ArtifactTypes \ {"RAG_EVIDENCE_BUNDLE"}
      BY DEF ArtifactTypes
    <3>. QED  BY <1>4, <3>1, <3>2, BareBodies, NewPlain
  <2>2. PICK q : q = Place(2)
    OBVIOUS
  <2>3. q = Len(c) + 1 /\ q \in DOMAIN d
    BY <1>2, <1>4, <2>1, <2>2 DEF Place
  <2>. HIDE DEF d, candidate
  <2>4. artifacts' = d /\ Derive("review_response", q, {q})
    <3>1. artifacts' = artifacts \o <<risk, candidate>>
      BY <1>5, <1>8 DEF AssessSafety, Put, candidate
    <3>2. artifacts' = d
      BY <1>2, <1>4, <2>1, <3>1, PutTwo DEF d, c
    <3>. QED  BY <1>8, <2>2, <3>2 DEF AssessSafety
  <2>. HIDE DEF risk
  <2>5. PICK b : b = d
    OBVIOUS
  <2>6. StartOK(artifacts, read, "review_response", q)'
    <3>1. CandidateOK(artifacts, read, q)'
      BY <2>1, <2>3, <2>4, BareBodies DEF CandidateOK, RestsOn, SoundBody, Grounded
    <3>. QED  BY <3>1 DEF StartOK
  <2>7. TaskOK' /\ TaskInv'
    BY <1>1, <1>2, <2>1, <2>3, <2>4, <2>5, <2>6, Derived
  <2>8. FinalInv'
    BY <2>1, <2>4, <2>5, NoFinal
  <2>9. DOMAIN artifacts \subseteq DOMAIN b
    BY <1>2, <1>4, <2>1, <2>5
  <2>10. Extends(artifacts, b)
    BY <1>2, <1>4, <2>1, <2>5, ExtendsOn DEF BoardInv
  <2>. QED  BY <1>1, <1>2, <1>3, <2>1, <2>4, <2>5, <2>7, <2>8, <2>9, <2>10, Round DEF StateOK
<1>. QED  BY <1>7, <1>8

\* A round that adds one artifact, makes no search, and may derive a task from it.
LEMMA OneArtifact ==
  ASSUME IInv, NEW t \in TaskTypes, Claimed(t),
         NEW type \in ArtifactTypes \ {"RAG_EVIDENCE_BUNDLE", "REVIEW_RESULT", "FINAL_RESPONSE"},
         NEW sources \in SUBSET DOMAIN artifacts, NEW refs \in SUBSET Evidence, NEW content \in Body,
         artifacts' = artifacts \o <<New(type, sources, refs, content)>>,
         UNCHANGED <<searches, matterEvidence, read, viewed>>,
         ready' \in BOOLEAN, eventDate' \in Dates \cup {NoDate},
         NEW p, p = Len(artifacts) + 1,
         ChainEnds \/ \E next \in TaskTypes, inputs \in SUBSET DOMAIN artifacts :
                         Derive(next, p, {p} \cup inputs) /\ StartOK(artifacts, read, next, p)'
  PROVE  IInv'
<1>1. /\ FinalsOf(artifacts) = {} /\ StateOK /\ TaskOK /\ BoardInv(artifacts, searches, matterEvidence)
      /\ searches \in Nat /\ matterEvidence \subseteq Evidence
      /\ artifacts \in Seq(Artifact) /\ Len(artifacts) \in Nat /\ DOMAIN artifacts = 1..Len(artifacts)
  BY OpenTask
<1>. DEFINE a == New(type, sources, refs, content)
<1>2. PICK b : b = Append(artifacts, a)
  OBVIOUS
<1>3. /\ BoardInv(b, searches, matterEvidence) /\ Extends(artifacts, b)
      /\ DOMAIN b = 1..(Len(artifacts) + 1) /\ FinalsOf(b) = {}
  BY <1>1, <1>2, NewPlain
<1>4. artifacts' = b
  BY <1>1, <1>2, PutOne
<1>5. p \in DOMAIN b /\ DOMAIN artifacts \subseteq DOMAIN b
  BY <1>1, <1>3
<1>. HIDE DEF a
<1>6. TaskOK' /\ TaskInv'
  <2>1. CASE ChainEnds
    BY <1>1, <2>1, Ends
  <2>2. ASSUME NEW next \in TaskTypes, NEW inputs \in SUBSET DOMAIN artifacts,
               Derive(next, p, {p} \cup inputs), StartOK(artifacts, read, next, p)'
        PROVE  TaskOK' /\ TaskInv'
    <3>1. PICK all : all = {p} \cup inputs
      OBVIOUS
    <3>2. p \in all /\ all \subseteq DOMAIN b /\ Derive(next, p, all)
      BY <1>5, <2>2, <3>1
    <3>. QED  BY <1>1, <1>3, <1>4, <2>2, <3>2, Derived
  <2>. QED  BY <2>1, <2>2
<1>7. FinalInv'
  BY <1>3, <1>4, NoFinal
<1>. QED  BY <1>1, <1>3, <1>4, <1>5, <1>6, <1>7, Round DEF StateOK

\* The artifact that such a round adds.
LEMMA AddedArtifact ==
  ASSUME IInv, NEW t \in TaskTypes, Claimed(t), NEW a,
         artifacts' = artifacts \o <<a>>, NEW p, p = Len(artifacts) + 1
  PROVE  artifacts'[p] = a /\ \A i \in DOMAIN artifacts : artifacts'[i] = artifacts[i]
<1>1. artifacts \in Seq(Artifact)
  BY OpenTask
<1>. QED  BY <1>1

LEMMA ScheduleNextInv == ASSUME IInv, ScheduleNext PROVE IInv'
<1>1. /\ Claimed("schedule_next") /\ "schedule_next" \in TaskTypes
      /\ "TASK_INTENT" \in ArtifactTypes \ {"RAG_EVIDENCE_BUNDLE", "REVIEW_RESULT", "FINAL_RESPONSE"}
  BY DEF ScheduleNext, TaskTypes, ArtifactTypes
<1>2. StateOK /\ task.inputs \in SUBSET DOMAIN artifacts
  BY <1>1, OpenTask
<1>3. artifacts' = artifacts \o <<New("TASK_INTENT", task.inputs, {}, NoBody)>>
  BY DEF ScheduleNext, Put
<1>4. PICK p : p = Len(artifacts) + 1
  OBVIOUS
<1>5. artifacts'[p].refs = {} /\ artifacts'[p].type = "TASK_INTENT"
  BY <1>1, <1>3, <1>4, AddedArtifact DEF New
<1>6. PICK t \in NextTasks, refs \in ContextRefs : Derive(t, p, {p} \cup refs)
  BY <1>4 DEF ScheduleNext, Place
<1>7. t \in TaskTypes
  BY <1>6 DEF NextTasks, TaskTypes
<1>8. refs \in SUBSET DOMAIN artifacts
  <2>1. \A k \in 1..MaxRefs : kSubset(k, DOMAIN artifacts) \subseteq SUBSET DOMAIN artifacts
    BY DEF kSubset
  <2>. QED  BY <1>2, <1>6, <2>1 DEF ContextRefs
<1>9. StartOK(artifacts, read, t, p)'
  BY <1>5 DEF StartOK
<1>10. /\ UNCHANGED <<searches, matterEvidence, read, viewed>>
       /\ ready' \in BOOLEAN /\ eventDate' \in Dates \cup {NoDate}
  BY <1>2 DEF ScheduleNext, NotSearched, StateOK
<1>. QED  BY <1>1, <1>2, <1>3, <1>4, <1>6, <1>7, <1>8, <1>9, <1>10, BareBodies, OneArtifact

LEMMA EscalateInv == ASSUME IInv, Escalate PROVE IInv'
<1>1. /\ Claimed("schedule_next") /\ "schedule_next" \in TaskTypes
      /\ "ESCALATION_REQUEST" \in ArtifactTypes \ {"RAG_EVIDENCE_BUNDLE", "REVIEW_RESULT", "FINAL_RESPONSE"}
  BY DEF Escalate, TaskTypes, ArtifactTypes
<1>2. StateOK /\ task.inputs \in SUBSET DOMAIN artifacts
  BY <1>1, OpenTask
<1>3. artifacts' = artifacts \o <<New("ESCALATION_REQUEST", task.inputs, {}, NoBody)>>
  BY DEF Escalate, Put
<1>4. /\ UNCHANGED <<searches, matterEvidence, read, viewed>> /\ ChainEnds
      /\ ready' \in BOOLEAN /\ eventDate' \in Dates \cup {NoDate}
  BY <1>2 DEF Escalate, NotSearched, StateOK
<1>. QED  BY <1>1, <1>2, <1>3, <1>4, BareBodies, OneArtifact

LEMMA UnderstandMessageInv == ASSUME IInv, UnderstandMessage PROVE IInv'
<1>1. /\ Claimed("understand_message") /\ "understand_message" \in TaskTypes
      /\ "SUFFICIENCY_ASSESSMENT" \in ArtifactTypes \ {"RAG_EVIDENCE_BUNDLE", "REVIEW_RESULT", "FINAL_RESPONSE"}
  BY DEF UnderstandMessage, TaskTypes, ArtifactTypes
<1>2. StateOK
  BY <1>1, OpenTask
<1>3. artifacts' = artifacts \o <<New("SUFFICIENCY_ASSESSMENT", {}, {}, NoBody)>>
  BY DEF UnderstandMessage, Put
<1>4. PICK p : p = Len(artifacts) + 1
  OBVIOUS
<1>5. artifacts'[p].refs = {} /\ artifacts'[p].type = "SUFFICIENCY_ASSESSMENT"
  BY <1>1, <1>3, <1>4, AddedArtifact DEF New
<1>6. PICK t \in {"schedule_next", "compose_response"} : Derive(t, p, {p} \cup {})
  BY <1>4 DEF UnderstandMessage, Place
<1>7. t \in TaskTypes
  BY <1>6 DEF TaskTypes
<1>8. StartOK(artifacts, read, t, p)'
  BY <1>5, <1>6 DEF StartOK
<1>9. /\ UNCHANGED <<searches, matterEvidence, read, viewed>>
      /\ ready' \in BOOLEAN /\ eventDate' \in Dates \cup {NoDate}
  BY <1>2 DEF UnderstandMessage, NotSearched, StateOK
<1>. QED  BY <1>1, <1>2, <1>3, <1>4, <1>6, <1>7, <1>8, <1>9, BareBodies, OneArtifact

LEMMA RetrieveContextInv == ASSUME IInv, RetrieveContext PROVE IInv'
<1>1. /\ Claimed("retrieve_context") /\ "retrieve_context" \in TaskTypes
      /\ "analyze_evidence" \in TaskTypes /\ "RETRIEVAL_PLAN" \in ArtifactTypes \ {"RAG_EVIDENCE_BUNDLE"}
  BY DEF RetrieveContext, TaskTypes, ArtifactTypes
<1>2. /\ FinalsOf(artifacts) = {} /\ StateOK /\ TaskOK /\ BoardInv(artifacts, searches, matterEvidence)
      /\ searches \in Nat /\ matterEvidence \subseteq Evidence
      /\ artifacts \in Seq(Artifact) /\ Len(artifacts) \in Nat /\ DOMAIN artifacts = 1..Len(artifacts)
  BY <1>1, OpenTask
<1>3. UNCHANGED <<ready, eventDate, read, viewed>>
  BY DEF RetrieveContext
<1>4. PICK found \in Found :
        /\ searches' = searches + 1 /\ matterEvidence' = matterEvidence \cup found
        /\ artifacts' = artifacts \o <<New("RETRIEVAL_PLAN", {}, {}, NoBody), Bundle({Place(1)}, found)>>
  BY DEF RetrieveContext, Searched, Put
<1>5. PICK p, q : p = Place(1) /\ q = Place(2)
  OBVIOUS
<1>. DEFINE plan == New("RETRIEVAL_PLAN", {}, {}, NoBody)
            c == Append(artifacts, plan)
            bundle == Bundle({p}, found)
            d == Append(c, bundle)
<1>6. /\ plan \in Artifact /\ BoardInv(c, searches, matterEvidence) /\ Extends(artifacts, c)
      /\ Len(c) = Len(artifacts) + 1 /\ DOMAIN c = 1..(Len(artifacts) + 1) /\ FinalsOf(c) = {}
  BY <1>1, <1>2, BareBodies, NewPlain
<1>. HIDE DEF c, plan
<1>7. /\ BoardInv(d, searches + 1, matterEvidence \cup found)
      /\ bundle \in Artifact /\ Fits(bundle, Len(c) + 1) /\ IsBundle(bundle)
  <2>1. {p} \in SUBSET (1..Len(c))
    BY <1>2, <1>5, <1>6 DEF Place
  <2>. QED  BY <1>2, <1>6, <2>1, NewBundle DEF StateOK
<1>. HIDE DEF bundle
<1>8. /\ Extends(c, d) /\ DOMAIN d = 1..(Len(c) + 1) /\ d[Len(c) + 1] = bundle /\ BoardOK(d)
  BY <1>6, <1>7, OneMore DEF BoardInv
<1>9. artifacts' = d
  BY <1>2, <1>4, <1>5, <1>6, <1>7, PutTwo DEF plan, bundle, c
<1>10. PICK b, n, evidence : b = d /\ n = searches + 1 /\ evidence = matterEvidence \cup found
  OBVIOUS
<1>. HIDE DEF d
<1>11. FinalsOf(b) = {}
  <2>1. \A i : i \in 1..(Len(c) + 1) <=> i \in 1..Len(c) \/ i = Len(c) + 1
    BY <1>2, <1>6
  <2>. QED  BY <1>6, <1>7, <1>8, <1>10, <2>1 DEF FinalsOf, Extends, IsBundle
<1>12. q = Len(c) + 1 /\ q \in DOMAIN b /\ {q} \subseteq DOMAIN b /\ DOMAIN artifacts \subseteq DOMAIN b
  BY <1>2, <1>5, <1>6, <1>8, <1>10 DEF Place
<1>13. Extends(artifacts, b)
  BY <1>2, <1>6, <1>8, <1>10, ExtendsOn DEF BoardInv
<1>14. StartOK(artifacts, read, "analyze_evidence", q)'
  BY <1>7, <1>8, <1>9, <1>12 DEF StartOK
<1>15. TaskOK' /\ TaskInv'
  <2>1. PICK inputs : inputs = {q}
    OBVIOUS
  <2>2. Derive("analyze_evidence", q, inputs) /\ q \in inputs /\ inputs \subseteq DOMAIN b
    BY <1>5, <1>12, <2>1 DEF RetrieveContext
  <2>. QED  BY <1>1, <1>2, <1>9, <1>10, <1>11, <1>14, <2>2, Derived
<1>16. FinalInv'
  BY <1>9, <1>10, <1>11, NoFinal
<1>17. n \in Nat /\ evidence \in SUBSET Evidence /\ searches' = n /\ matterEvidence' = evidence /\ artifacts' = b
       /\ BoardInv(b, n, evidence)
  BY <1>2, <1>4, <1>7, <1>9, <1>10 DEF Found
<1>. QED  BY <1>1, <1>2, <1>3, <1>12, <1>13, <1>15, <1>16, <1>17, Round DEF StateOK

\* What the analysis makes of an artifact claims no more than is in it.
LEMMA AnalysesAreSound ==
  ASSUME NEW a, a.refs \subseteq Evidence, NEW x \in Analyses(a)
  PROVE  /\ x \in Body /\ Grounded(x.claims, a.refs) /\ x.items \subseteq a.refs
         /\ x.decision = "supported_answer" => a.refs # {} /\ x.claims # {} /\ LawsConfirmed(a)
<1>1. ASSUME NEW items \in Items(a.refs) PROVE items \subseteq a.refs
  BY DEF Items
<1>2. ASSUME NEW decision \in {"limited_answer", "constructive_abstention"}, NEW items \in Items(a.refs),
             x = Unclaimed(decision, items)
      PROVE  x \in Body /\ x.claims = {} /\ x.items \subseteq a.refs /\ x.decision # "supported_answer"
  <2>1. items \subseteq Evidence
    BY <1>1
  <2>2. x = [decision |-> decision, claims |-> {}, items |-> items, limits |-> TRUE, clean |-> TRUE]
    BY <1>2 DEF Unclaimed, NoBody
  <2>. QED  BY <1>1, <2>1, <2>2 DEF Body
<1>3. ASSUME NEW s \in SupportedBy(a.refs), NEW items \in Items(a.refs), a.refs # {}, LawsConfirmed(a),
             x = Supported(s, items)
      PROVE  x \in Body /\ Grounded(x.claims, a.refs) /\ x.items \subseteq a.refs /\ x.claims # {}
  <2>1. PICK p \in Proposals, limits \in BOOLEAN :
          s = [claims |-> IF ValidClaims(p, a.refs) = {} THEN {[text |-> "text", ids |-> a.refs]}
                                                         ELSE ValidClaims(p, a.refs),
               limits |-> ValidClaims(p, a.refs) = {} \/ limits]
    BY <1>3 DEF SupportedBy
  <2>2. p \subseteq Claim
    BY <2>1 DEF Proposals
  <2>3. ValidClaims(p, a.refs) \subseteq Claim /\ Grounded(ValidClaims(p, a.refs), a.refs)
    BY <2>2 DEF ValidClaims, Grounded
  <2>4. [text |-> "text", ids |-> a.refs] \in Claim /\ Grounded({[text |-> "text", ids |-> a.refs]}, a.refs)
    BY <1>3 DEF Claim, Grounded
  <2>5. s.claims \subseteq Claim /\ Grounded(s.claims, a.refs) /\ s.claims # {} /\ s.limits \in BOOLEAN
    <3>1. CASE ValidClaims(p, a.refs) = {}
      BY <2>1, <2>4, <3>1
    <3>2. CASE ValidClaims(p, a.refs) # {}
      BY <2>1, <2>3, <3>2
    <3>. QED  BY <3>1, <3>2
  <2>6. x = [decision |-> "supported_answer", claims |-> s.claims, items |-> items,
             limits |-> s.limits, clean |-> TRUE]
    BY <1>3 DEF Supported, NoBody
  <2>7. items \subseteq Evidence
    BY <1>1
  <2>. QED  BY <1>1, <2>5, <2>6, <2>7 DEF Body
<1>4. Grounded({}, a.refs)
  BY DEF Grounded
<1>5. CASE a.refs = {}
  <2>1. PICK items \in Items(a.refs) : x = Unclaimed("limited_answer", items)
    BY <1>5 DEF Analyses, Citable
  <2>. QED  BY <1>2, <1>4, <2>1
<1>6. CASE a.refs # {} /\ ~LawsConfirmed(a)
  <2>1. PICK items \in Items(a.refs) : x = Unclaimed("constructive_abstention", items)
    BY <1>6 DEF Analyses, Citable
  <2>. QED  BY <1>2, <1>4, <2>1
<1>7. CASE a.refs # {} /\ LawsConfirmed(a)
  <2>1. PICK s \in SupportedBy(a.refs), items \in Items(a.refs) : x = Supported(s, items)
    BY <1>7 DEF Analyses, Citable
  <2>. QED  BY <1>3, <1>7, <2>1
<1>. QED  BY <1>5, <1>6, <1>7

LEMMA AnalyzeEvidenceInv == ASSUME IInv, AnalyzeEvidence PROVE IInv'
<1>1. /\ Claimed("analyze_evidence") /\ "analyze_evidence" \in TaskTypes
      /\ "compose_response" \in TaskTypes /\ "ISSUE_ANALYSIS" \in ArtifactTypes \ {"RAG_EVIDENCE_BUNDLE"}
  BY DEF AnalyzeEvidence, TaskTypes, ArtifactTypes
<1>2. /\ FinalsOf(artifacts) = {} /\ StateOK /\ TaskOK /\ BoardOK(artifacts)
      /\ Len(artifacts) \in Nat /\ DOMAIN artifacts = 1..Len(artifacts)
      /\ task.inputs \subseteq DOMAIN artifacts /\ task.first \in task.inputs
      /\ task.first \in DOMAIN artifacts /\ StartOK(artifacts, read, "analyze_evidence", task.first)
  BY <1>1, OpenTask
<1>3. UNCHANGED <<ready, eventDate, viewed>>
  BY DEF AnalyzeEvidence
<1>4. PICK found \in Found, x \in Analyses(artifacts[task.first]) :
        /\ Fill(found)
        /\ artifacts' = Append(Filled(found), New("ISSUE_ANALYSIS", task.inputs,
                                                  Citable(artifacts[task.first]), x))
        /\ Derive("compose_response", Len(Filled(found)) + 1, {Len(Filled(found)) + 1})
  BY DEF AnalyzeEvidence
<1>5. PICK n \in Nat, e \in SUBSET Evidence :
        searches' = n /\ matterEvidence' = e /\ BoardInv(Filled(found), n, e)
  BY <1>4, FilledBoard
<1>6. PICK c : c = Filled(found)
  OBVIOUS
<1>7. /\ BoardInv(c, n, e) /\ BoardOK(c) /\ Extends(artifacts, c) /\ FinalsOf(c) = {}
      /\ Len(c) \in Nat /\ DOMAIN c = 1..Len(c) /\ DOMAIN artifacts \subseteq DOMAIN c
  BY <1>2, <1>4, <1>5, <1>6, FilledBoard
<1>8. PICK first, inputs, evidence : first = task.first /\ inputs = task.inputs /\ evidence = artifacts[first]
  OBVIOUS
<1>9. /\ first \in inputs /\ inputs \subseteq DOMAIN artifacts /\ inputs \subseteq DOMAIN c
      /\ evidence.refs \subseteq Evidence /\ c[first] = evidence
      /\ IsBundle(evidence) \/ evidence.refs = {}
  <2>1. evidence \in Artifact
    BY <1>2, <1>8 DEF BoardOK
  <2>2. c[first] = evidence
    BY <1>2, <1>7, <1>8 DEF Extends
  <2>. QED  BY <1>2, <1>7, <1>8, <2>1, <2>2 DEF Artifact, StartOK
<1>10. /\ x \in Body /\ Grounded(x.claims, evidence.refs) /\ x.items \subseteq evidence.refs
       /\ x.decision = "supported_answer" => evidence.refs # {} /\ x.claims # {} /\ LawsConfirmed(evidence)
  BY <1>8, <1>9, AnalysesAreSound
<1>. DEFINE a == New("ISSUE_ANALYSIS", inputs, evidence.refs, x)
<1>11. PICK b, p : b = Append(c, a) /\ p = Len(c) + 1
  OBVIOUS
<1>12. /\ a.type = "ISSUE_ANALYSIS" /\ a.sources = inputs /\ a.refs = evidence.refs /\ a.content = x
       /\ BoardInv(b, n, e) /\ Extends(c, b) /\ DOMAIN b = 1..(Len(c) + 1) /\ b[p] = a
       /\ FinalsOf(b) = {}
  <2>1. inputs \in SUBSET DOMAIN c /\ evidence.refs \in SUBSET Evidence
    BY <1>9
  <2>. QED  BY <1>1, <1>7, <1>10, <1>11, <2>1, NewPlain
<1>13. artifacts' = b /\ Derive("compose_response", p, {p})
  BY <1>4, <1>6, <1>8, <1>11 DEF Citable
<1>14. p \in DOMAIN b /\ DOMAIN c \subseteq DOMAIN b /\ DOMAIN artifacts \subseteq DOMAIN b
  BY <1>7, <1>11, <1>12
<1>. HIDE DEF a
<1>15. first \in DOMAIN b /\ b[first] = evidence /\ read' = first
  BY <1>7, <1>8, <1>9, <1>12, <1>14 DEF Extends, AnalyzeEvidence
<1>16. LawsConfirmed(evidence)' <=> LawsConfirmed(evidence)
  BY <1>3 DEF LawsConfirmed, Effective
<1>17. StartOK(artifacts, read, "compose_response", p)'
  <2>1. AnalysisOK(artifacts, read, p)'
    BY <1>9, <1>10, <1>12, <1>13, <1>15, <1>16 DEF AnalysisOK, RestsOn, SoundBody, BundlesOf
  <2>. QED  BY <2>1 DEF StartOK
<1>18. TaskOK' /\ TaskInv'
  <2>1. PICK only : only = {p}
    OBVIOUS
  <2>2. Derive("compose_response", p, only) /\ p \in only /\ only \subseteq DOMAIN b
    BY <1>13, <1>14, <2>1
  <2>. QED  BY <1>1, <1>2, <1>12, <1>13, <1>17, <2>2, Derived
<1>19. FinalInv'
  BY <1>12, <1>13, NoFinal
<1>20. Extends(artifacts, b)
  BY <1>2, <1>7, <1>12, ExtendsOn DEF BoardInv
<1>. QED  BY <1>1, <1>2, <1>3, <1>5, <1>12, <1>13, <1>14, <1>15, <1>18, <1>19, <1>20, Round DEF StateOK

\* What a response says is what its source says, or nothing that needs evidence.
LEMMA BodiesAreSound ==
  ASSUME IInv, NEW place, NEW i \in DOMAIN artifacts, StartOK(artifacts, place, "compose_response", i),
         NEW body \in Bodies(artifacts[i]), WellFormed(body), NEW clean \in BOOLEAN
  PROVE  LET x == [body EXCEPT !.clean = clean]
         IN  /\ x \in Body
             /\ SoundBody(artifacts, place, x, artifacts[i].refs)
             /\ \A c \in x.claims : c.text # "empty"
<1>1. BoardOK(artifacts) /\ Fits(artifacts[i], i)
  BY DEF IInv, BoardInv, BoardOK
<1>2. CASE body = artifacts[i].content /\ artifacts[i].type = "ISSUE_ANALYSIS"
  <2>1. body \in Body /\ SoundBody(artifacts, place, body, artifacts[i].refs)
    BY <1>1, <1>2 DEF StartOK, AnalysisOK, Fits
  <2>. QED  BY <2>1 DEF WellFormed, Body, SoundBody
<1>3. CASE body \in Clarifications \cup {Reassurance}
  <2>1. /\ body \in Body /\ body.claims = {} /\ body.items = {} /\ body.decision # "supported_answer"
    <3>1. CASE body = [NoBody EXCEPT !.decision = "clarification_needed"]
      BY <3>1, BareBodies DEF NoBody, Body
    <3>2. CASE body = [NoBody EXCEPT !.decision = "limited_answer", !.limits = TRUE]
      BY <3>2, BareBodies DEF Reassurance
    <3>3. CASE body = Reassurance
      BY <3>3, BareBodies
    <3>. QED  BY <1>3, <3>1, <3>2, <3>3 DEF Clarifications
  <2>. QED  BY <2>1 DEF SoundBody, Grounded, Body
<1>. QED  BY <1>2, <1>3 DEF Bodies

LEMMA ComposeResponseInv == ASSUME IInv, ComposeResponse PROVE IInv'
<1>1. /\ Claimed("compose_response") /\ "compose_response" \in TaskTypes
      /\ "RESPONSE_CANDIDATE" \in ArtifactTypes \ {"RAG_EVIDENCE_BUNDLE", "REVIEW_RESULT", "FINAL_RESPONSE"}
      /\ "review_response" \in TaskTypes
  BY DEF ComposeResponse, TaskTypes, ArtifactTypes
<1>2. /\ FinalsOf(artifacts) = {} /\ StateOK /\ TaskOK /\ BoardInv(artifacts, searches, matterEvidence)
      /\ BoardOK(artifacts) /\ searches \in Nat /\ matterEvidence \subseteq Evidence
      /\ artifacts \in Seq(Artifact) /\ Len(artifacts) \in Nat /\ DOMAIN artifacts = 1..Len(artifacts)
      /\ task.inputs \in SUBSET DOMAIN artifacts /\ task.first \in task.inputs
      /\ task.first \in DOMAIN artifacts /\ StartOK(artifacts, read, "compose_response", task.first)
  BY <1>1, OpenTask
<1>3. UNCHANGED <<ready, eventDate, read, viewed, searches, matterEvidence>>
  BY DEF ComposeResponse, NotSearched
<1>4. PICK body \in Bodies(artifacts[task.first]), clean \in IF HasModel THEN BOOLEAN ELSE {TRUE} :
        IF WellFormed(body)
          THEN /\ Put(<<New("RESPONSE_CANDIDATE", task.inputs, artifacts[task.first].refs,
                            [body EXCEPT !.clean = clean])>>)
               /\ Derive("review_response", Place(1), {Place(1)})
          ELSE ChainEnds /\ UNCHANGED artifacts
  BY DEF ComposeResponse
<1>5. CASE ~WellFormed(body)
  <2>1. ChainEnds /\ UNCHANGED artifacts
    BY <1>4, <1>5
  <2>2. TaskOK' /\ TaskInv'
    BY <1>2, <2>1, Ends
  <2>3. PICK b : b = artifacts
    OBVIOUS
  <2>4. Extends(artifacts, b)
    BY <1>2, <2>3 DEF Extends
  <2>5. FinalInv'
    BY <1>2, <2>1, <2>3, NoFinal
  <2>. QED  BY <1>1, <1>2, <1>3, <2>1, <2>2, <2>3, <2>4, <2>5, Round DEF StateOK
<1>6. CASE WellFormed(body)
  <2>1. PICK x, refs, inputs, first, p :
          /\ x = [body EXCEPT !.clean = clean] /\ refs = artifacts[task.first].refs
          /\ inputs = task.inputs /\ first = task.first /\ p = Len(artifacts) + 1
    OBVIOUS
  <2>2. artifacts' = artifacts \o <<New("RESPONSE_CANDIDATE", inputs, refs, x)>>
    BY <1>4, <1>6, <2>1 DEF Put
  <2>3. Derive("review_response", p, {p} \cup {})
    BY <1>4, <1>6, <2>1 DEF Place
  <2>4. clean \in BOOLEAN
    BY <1>4, Constants
  <2>5. /\ x \in Body /\ SoundBody(artifacts, read, x, refs) /\ \A c \in x.claims : c.text # "empty"
    BY <1>2, <1>4, <1>6, <2>1, <2>4, BodiesAreSound
  <2>6. refs \in SUBSET Evidence
    <3>1. artifacts[task.first] \in Artifact
      BY <1>2
    <3>. QED  BY <2>1, <3>1 DEF Artifact
  <2>7. /\ RestsOn(artifacts, read, refs)
        /\ refs # {} => read \in artifacts[first].sources
    BY <1>2, <2>1 DEF StartOK, AnalysisOK, RestsOn
  <2>8. /\ artifacts'[p] = New("RESPONSE_CANDIDATE", inputs, refs, x)
        /\ \A i \in DOMAIN artifacts : artifacts'[i] = artifacts[i]
    BY <1>1, <2>1, <2>2, AddedArtifact
  <2>9. DOMAIN artifacts \subseteq DOMAIN artifacts'
    BY <1>2, <2>2
  <2>10. CandidateOK(artifacts, read, p)'
    <3>1. RestsOn(artifacts, read, refs)'
      BY <1>3, <2>7, <2>8, <2>9 DEF RestsOn, BundlesOf
    <3>2. SoundBody(artifacts, read, x, refs)'
      <4>1. refs # {} => read \in DOMAIN artifacts /\ artifacts'[read] = artifacts[read]
        BY <2>7, <2>8 DEF RestsOn, BundlesOf
      <4>. QED  BY <1>3, <2>5, <4>1 DEF SoundBody, LawsConfirmed, Effective
    <3>3. first \in inputs /\ (refs # {} => read' \in artifacts'[first].sources)
      BY <1>2, <1>3, <2>1, <2>7, <2>8
    <3>. QED  BY <2>5, <2>8, <3>1, <3>2, <3>3 DEF CandidateOK, New
  <2>11. StartOK(artifacts, read, "review_response", p)'
    BY <2>10 DEF StartOK
  <2>. QED  BY <1>1, <1>2, <1>3, <2>1, <2>2, <2>3, <2>5, <2>6, <2>11, OneArtifact DEF StateOK
<1>. QED  BY <1>5, <1>6

\* The board on which a review is made, and what the review has before it: with a
\* sound candidate also the bundle that was read.
LEMMA ReviewedBoard ==
  ASSUME IInv, Claimed("review_response"), NEW found, Fill(found), NEW c, c = Filled(found)
  PROVE  /\ BoardOK(c) /\ Extends(artifacts, c) /\ FinalsOf(c) = {}
         /\ Len(c) \in Nat /\ DOMAIN c = 1..Len(c) /\ DOMAIN artifacts \subseteq DOMAIN c
         /\ task.first \in DOMAIN artifacts /\ c[task.first] = artifacts[task.first]
         /\ c[task.first].type = "TASK_INTENT" \/ CandidateOK(c, read, task.first)
         /\ ReviewContext(c) \subseteq DOMAIN c
         /\ CandidateOK(c, read, task.first) /\ c[task.first].refs # {} => read \in ReviewContext(c)
<1>1. "review_response" \in TaskTypes
  BY DEF TaskTypes
<1>2. /\ FinalsOf(artifacts) = {} /\ BoardOK(artifacts)
      /\ Len(artifacts) \in Nat /\ DOMAIN artifacts = 1..Len(artifacts)
      /\ task.inputs \subseteq DOMAIN artifacts /\ task.first \in task.inputs
      /\ task.first \in DOMAIN artifacts /\ StartOK(artifacts, read, "review_response", task.first)
  BY <1>1, OpenTask
<1>3. /\ BoardOK(c) /\ Extends(artifacts, c) /\ FinalsOf(c) = {}
      /\ Len(c) \in Nat /\ DOMAIN c = 1..Len(c) /\ DOMAIN artifacts \subseteq DOMAIN c
  BY <1>2, FilledBoard
<1>4. c[task.first] = artifacts[task.first]
  BY <1>2, <1>3 DEF Extends
<1>5. c[task.first].type = "TASK_INTENT" \/ CandidateOK(c, read, task.first)
  BY <1>2, <1>3, <1>4, SoundnessStays DEF StartOK
<1>. DEFINE ids == task.inputs \cup (DOMAIN c \ DOMAIN artifacts)
<1>6. ids \in SUBSET DOMAIN c /\ task.first \in ids
  BY <1>2, <1>3
<1>7. ReviewContext(c) = {i \in SourceChain(c, ids) : c[i].type \in ReviewTypes}
  BY DEF ReviewContext
<1>. HIDE DEF ids
<1>8. ReviewContext(c) \subseteq DOMAIN c
  BY <1>3, <1>6, <1>7, ChainHolds
<1>9. ASSUME CandidateOK(c, read, task.first), c[task.first].refs # {} PROVE read \in ReviewContext(c)
  <2>1. PICK a \in c[task.first].sources : read \in c[a].sources
    BY <1>9 DEF CandidateOK
  <2>2. c[read].type = "RAG_EVIDENCE_BUNDLE"
    BY <1>9 DEF CandidateOK, RestsOn, BundlesOf, IsBundle
  <2>3. read \in SourceChain(c, ids)
    BY <1>3, <1>6, <2>1, ChainHolds
  <2>. QED  BY <1>7, <2>2, <2>3 DEF ReviewTypes
<1>. QED  BY <1>2, <1>3, <1>4, <1>5, <1>8, <1>9

\* An approval is for a sound candidate.
LEMMA Approval ==
  ASSUME NEW candidate, NEW approved \in Verdicts(candidate)
  PROVE  /\ approved \in BOOLEAN
         /\ approved => candidate.type = "RESPONSE_CANDIDATE"
BY DEF Verdicts

LEMMA ReviewResponseInv == ASSUME IInv, ReviewResponse PROVE IInv'
<1>1. /\ Claimed("review_response") /\ "review_response" \in TaskTypes
      /\ {"REVIEW_RESULT", "FINAL_RESPONSE"} \subseteq ArtifactTypes \ {"RAG_EVIDENCE_BUNDLE"}
  BY DEF ReviewResponse, TaskTypes, ArtifactTypes
<1>2. /\ StateOK /\ TaskOK /\ Len(artifacts) \in Nat /\ DOMAIN artifacts = 1..Len(artifacts)
      /\ BoardOK(artifacts)
  BY <1>1, OpenTask
<1>3. UNCHANGED <<ready, eventDate, read>> /\ ChainEnds
  BY DEF ReviewResponse
<1>4. PICK found \in Found, approved \in Verdicts(artifacts[task.first]) :
        /\ Fill(found)
        /\ artifacts' = Filled(found) \o
             <<Review(task.first, approved),
               FinalResponse(task.first, Len(Filled(found)) + 1, approved)>>
        /\ viewed' = ReviewContext(Filled(found))
  BY DEF ReviewResponse
<1>5. PICK n \in Nat, e \in SUBSET Evidence :
        searches' = n /\ matterEvidence' = e /\ BoardInv(Filled(found), n, e)
  BY <1>4, FilledBoard
<1>6. PICK c, k, context : c = Filled(found) /\ k = task.first /\ context = ReviewContext(c)
  OBVIOUS
<1>7. /\ BoardInv(c, n, e) /\ BoardOK(c) /\ Extends(artifacts, c) /\ FinalsOf(c) = {}
      /\ Len(c) \in Nat /\ DOMAIN c = 1..Len(c) /\ DOMAIN artifacts \subseteq DOMAIN c
      /\ k \in DOMAIN artifacts /\ c[k] = artifacts[k] /\ k \in DOMAIN c
      /\ c[k].type = "TASK_INTENT" \/ CandidateOK(c, read, k)
      /\ context \subseteq DOMAIN c
      /\ CandidateOK(c, read, k) /\ c[k].refs # {} => read \in context
  BY <1>1, <1>4, <1>5, <1>6, ReviewedBoard
<1>8. approved \in BOOLEAN /\ (approved => c[k].type = "RESPONSE_CANDIDATE")
  BY <1>4, <1>6, <1>7, Approval
<1>. DEFINE review == New("REVIEW_RESULT", {k}, {}, approved)
            body == IF approved THEN artifacts[k].content ELSE [NoBody EXCEPT !.decision = "failed"]
            final == New("FINAL_RESPONSE", {k, Len(c) + 1}, artifacts[k].refs, body)
<1>9. PICK d : d = Append(c, review)
  OBVIOUS
<1>10. /\ review \in Artifact /\ review.type = "REVIEW_RESULT" /\ review.sources = {k}
       /\ review.content = approved
       /\ BoardInv(d, n, e) /\ Extends(c, d) /\ Len(d) = Len(c) + 1 /\ DOMAIN d = 1..(Len(c) + 1)
       /\ d[Len(c) + 1] = review
  <2>1. {k} \in SUBSET DOMAIN c /\ {} \in SUBSET Evidence
    BY <1>7
  <2>. QED  BY <1>1, <1>7, <1>8, <1>9, <2>1, NewPlain
<1>11. body \in Body
  <2>1. Fits(c[k], k)
    BY <1>7 DEF BoardOK
  <2>2. [NoBody EXCEPT !.decision = "failed"] \in Body
    BY DEF NoBody, Body
  <2>. QED  BY <1>7, <1>8, <2>1, <2>2 DEF Fits
<1>12. artifacts[k] \in Artifact
  BY <1>2, <1>7, PlacesOf
<1>. HIDE DEF review, body
<1>13. PICK b : b = Append(d, final)
  OBVIOUS
<1>14. /\ final \in Artifact /\ final.type = "FINAL_RESPONSE" /\ final.sources = {k, Len(c) + 1}
       /\ final.refs = artifacts[k].refs /\ final.content = body
       /\ BoardInv(b, n, e) /\ Extends(d, b) /\ Len(b) = Len(c) + 2 /\ DOMAIN b = 1..(Len(c) + 2)
       /\ b[Len(c) + 2] = final
  <2>1. {k, Len(c) + 1} \in SUBSET DOMAIN d /\ artifacts[k].refs \in SUBSET Evidence
    BY <1>7, <1>10, <1>12 DEF Artifact
  <2>2. Len(d) + 1 = Len(c) + 2
    BY <1>7, <1>10
  <2>. QED  BY <1>1, <1>10, <1>11, <1>13, <2>1, <2>2, NewPlain
<1>. HIDE DEF final
<1>15. artifacts' = b
  <2>1. artifacts' = c \o <<review, final>>
    BY <1>4, <1>6 DEF Review, FinalResponse, review, final, body
  <2>. QED  BY <1>7, <1>9, <1>10, <1>13, <1>14, <2>1, PutTwo DEF BoardOK
<1>16. /\ Extends(artifacts, b) /\ Extends(c, b) /\ BoardOK(b) /\ DOMAIN c \subseteq DOMAIN b
       /\ b[Len(c) + 1] = review /\ b[k] = c[k]
  <2>1. BoardOK(b) /\ BoardOK(d)
    BY <1>10, <1>14 DEF BoardInv
  <2>2. Extends(c, b) /\ Extends(artifacts, b)
    BY <1>2, <1>7, <1>10, <1>14, <2>1, ExtendsOn
  <2>3. b[Len(c) + 1] = review /\ b[k] = c[k]
    BY <1>7, <1>10, <1>14, <2>2 DEF Extends
  <2>. QED  BY <1>7, <1>14, <2>1, <2>2, <2>3
<1>17. viewed' = context /\ context \subseteq DOMAIN b
  BY <1>4, <1>6, <1>7, <1>16
<1>18. FinalOK(b, read, context, Len(b))
  <2>1. k \in 1..(Len(b) - 2) /\ Len(b) - 1 = Len(c) + 1 /\ Len(b) = Len(c) + 2
    BY <1>7, <1>14
  <2>2. b[k].type # "REVIEW_RESULT"
    BY <1>7, <1>16 DEF CandidateOK
  <2>3. ASSUME approved
        PROVE  /\ CandidateOK(b, read, k) /\ body = b[k].content
               /\ b[k].refs # {} => read \in context
    <3>1. CandidateOK(c, read, k)
      BY <1>7, <1>8, <2>3
    <3>2. CandidateOK(b, read, k)
      BY <1>7, <1>16, <3>1, SoundnessStays
    <3>3. body = b[k].content
      BY <1>7, <1>16, <2>3 DEF body
    <3>. QED  BY <1>7, <1>16, <3>1, <3>2, <3>3
  <2>4. /\ b[Len(b)] = final /\ b[Len(b) - 1] = review
        /\ b[Len(b)].sources = {k, Len(b) - 1} /\ b[Len(b)].refs = b[k].refs
    BY <1>7, <1>14, <1>16, <2>1
  <2>. QED  BY <1>10, <1>14, <2>1, <2>2, <2>3, <2>4 DEF FinalOK
<1>19. FinalInv'
  <2>1. FinalOK(artifacts, read, viewed, Len(artifacts))'
    BY <1>3, <1>15, <1>17, <1>18
       DEF FinalOK, CandidateOK, RestsOn, SoundBody, LawsConfirmed, Effective
  <2>2. Len(artifacts') >= 3
    BY <1>7, <1>14, <1>15
  <2>. QED  BY <2>1, <2>2 DEF FinalInv
<1>20. TaskOK' /\ TaskInv'
  BY <1>2, <1>3, Ends
<1>21. ready' \in BOOLEAN /\ eventDate' \in Dates \cup {NoDate} /\ read' \in {None} \cup DOMAIN b
  BY <1>2, <1>3, <1>7, <1>16 DEF StateOK
<1>. QED  BY <1>1, <1>5, <1>14, <1>15, <1>16, <1>17, <1>19, <1>20, <1>21, Round

LEMMA RequestRecheckInv == ASSUME IInv, RequestRecheck PROVE IInv'
<1>1. /\ Claimed("review_response") /\ {"review_response", "schedule_next"} \subseteq TaskTypes
      /\ {"REVIEW_RESULT", "ESCALATION_REQUEST"} \subseteq ArtifactTypes \ {"RAG_EVIDENCE_BUNDLE"}
  BY DEF RequestRecheck, TaskTypes, ArtifactTypes
<1>2. /\ StateOK /\ TaskOK /\ BoardOK(artifacts) /\ Len(artifacts) \in Nat
      /\ DOMAIN artifacts = 1..Len(artifacts)
  BY <1>1, OpenTask
<1>3. UNCHANGED <<ready, eventDate, read>>
  BY DEF RequestRecheck
<1>4. PICK found \in Found, approved \in Verdicts(artifacts[task.first]) :
        /\ Fill(found)
        /\ artifacts' = Filled(found) \o
             <<Review(task.first, approved),
               New("ESCALATION_REQUEST", {task.first, Len(Filled(found)) + 1}, {}, NoBody)>>
        /\ viewed' = ReviewContext(Filled(found))
        /\ Derive("schedule_next", (Len(Filled(found)) + 1) + 1, {(Len(Filled(found)) + 1) + 1})
  BY DEF RequestRecheck
<1>5. PICK n \in Nat, e \in SUBSET Evidence :
        searches' = n /\ matterEvidence' = e /\ BoardInv(Filled(found), n, e)
  BY <1>4, FilledBoard
<1>6. PICK c, k : c = Filled(found) /\ k = task.first
  OBVIOUS
<1>7. /\ BoardInv(c, n, e) /\ BoardOK(c) /\ Extends(artifacts, c) /\ FinalsOf(c) = {}
      /\ Len(c) \in Nat /\ DOMAIN c = 1..Len(c) /\ DOMAIN artifacts \subseteq DOMAIN c
      /\ k \in DOMAIN c /\ ReviewContext(c) \subseteq DOMAIN c
  BY <1>1, <1>4, <1>5, <1>6, ReviewedBoard
<1>8. approved \in BOOLEAN
  BY <1>4, Approval
<1>. DEFINE review == New("REVIEW_RESULT", {k}, {}, approved)
            request == New("ESCALATION_REQUEST", {k, Len(c) + 1}, {}, NoBody)
<1>9. PICK d, b : d = Append(c, review) /\ b = Append(d, request)
  OBVIOUS
<1>10. /\ review \in Artifact /\ BoardInv(d, n, e) /\ Extends(c, d) /\ Len(d) = Len(c) + 1
       /\ DOMAIN d = 1..(Len(c) + 1) /\ FinalsOf(d) = {}
  <2>1. {k} \in SUBSET DOMAIN c /\ {} \in SUBSET Evidence
    BY <1>7
  <2>. QED  BY <1>1, <1>7, <1>8, <1>9, <2>1, NewPlain
<1>. HIDE DEF review
<1>11. /\ request \in Artifact /\ BoardInv(b, n, e) /\ Extends(d, b)
       /\ DOMAIN b = 1..(Len(c) + 2) /\ FinalsOf(b) = {}
  <2>1. {k, Len(c) + 1} \in SUBSET DOMAIN d /\ {} \in SUBSET Evidence
    BY <1>7, <1>10
  <2>2. Len(d) + 1 = Len(c) + 2
    BY <1>7, <1>10
  <2>3. "ESCALATION_REQUEST" \in ArtifactTypes \ {"RAG_EVIDENCE_BUNDLE"} /\ NoBody \in Body
    BY <1>1, BareBodies
  <2>4. /\ request \in Artifact /\ BoardInv(Append(d, request), n, e) /\ Extends(d, Append(d, request))
        /\ DOMAIN Append(d, request) = 1..(Len(d) + 1)
        /\ FinalsOf(Append(d, request)) = FinalsOf(d)
    BY <1>10, <2>1, <2>3, NewPlain
  <2>. QED  BY <1>9, <1>10, <2>2, <2>4
<1>. HIDE DEF request
<1>12. artifacts' = b
  <2>1. artifacts' = c \o <<review, request>>
    BY <1>4, <1>6 DEF Review, review, request
  <2>. QED  BY <1>7, <1>9, <1>10, <1>11, <2>1, PutTwo DEF BoardOK
<1>13. Extends(artifacts, b) /\ DOMAIN c \subseteq DOMAIN b /\ DOMAIN artifacts \subseteq DOMAIN b
  <2>1. BoardOK(b) /\ BoardOK(d)
    BY <1>10, <1>11 DEF BoardInv
  <2>2. Extends(artifacts, b)
    BY <1>2, <1>7, <1>10, <1>11, <2>1, ExtendsOn
  <2>. QED  BY <1>7, <1>11, <2>2
<1>14. PICK p, inputs : p = (Len(c) + 1) + 1 /\ inputs = {p}
  OBVIOUS
<1>15. Derive("schedule_next", p, inputs) /\ p \in inputs /\ inputs \subseteq DOMAIN b
  BY <1>4, <1>6, <1>7, <1>11, <1>14
<1>16. StartOK(artifacts, read, "schedule_next", p)'
  BY DEF StartOK
<1>17. TaskOK' /\ TaskInv'
  BY <1>1, <1>2, <1>11, <1>12, <1>15, <1>16, Derived
<1>18. FinalInv'
  BY <1>11, <1>12, NoFinal
<1>19. viewed' \subseteq DOMAIN b /\ read' \in {None} \cup DOMAIN b
  BY <1>2, <1>3, <1>4, <1>6, <1>7, <1>13 DEF StateOK
<1>. QED  BY <1>1, <1>2, <1>3, <1>5, <1>11, <1>12, <1>13, <1>17, <1>18, <1>19, Round DEF StateOK

-----------------------------------------------------------------------------
\* The gate

\* The last of some places.
LEMMA LastPlace ==
  ASSUME NEW n \in Nat, NEW S, S \subseteq 1..n, S # {}
  PROVE  Max(S) \in S /\ \A j \in S : j <= Max(S)
<1>. DEFINE T == {n - i : i \in S}
<1>0. \A i \in S : i \in Nat /\ n - i \in Nat
  <2>1. \A i \in 1..n : i \in Nat /\ n - i \in Nat
    OBVIOUS
  <2>. QED  BY <2>1
<1>1. T \subseteq Nat /\ T # {}
  BY <1>0
<1>2. PICK m \in T : \A j \in T : ~(j < m)
  <2>. HIDE DEF T
  <2>. QED  BY <1>1, FirstPlace
<1>3. PICK k \in S : m = n - k
  OBVIOUS
<1>4. \A j \in S : n - j \in T
  OBVIOUS
<1>5. \A j \in S : k >= j
  <2>. SUFFICES ASSUME NEW j \in S PROVE k >= j
    OBVIOUS
  <2>1. ~(n - j < n - k)
    BY <1>2, <1>3, <1>4
  <2>2. j \in Nat /\ k \in Nat
    BY <1>0
  <2>. QED  BY <2>1, <2>2
<1>6. Max(S) \in S /\ \A j \in S : Max(S) >= j
  <2>. HIDE DEF T
  <2>. QED  BY <1>5 DEF Max
<1>. QED  BY <1>6

\* What the gate takes to be effective is in force.
LEMMA EffectiveIsInForce ==
  ASSUME NEW law \in Payloads, NEW date \in Dates \cup {NoDate}, Effective(law, date)
  PROVE  InForce(law, date)
<1>1. law \in Payload /\ date \in Dates /\ date \in Nat /\ Dates \subseteq Nat /\ NoDate \notin Nat
  BY Constants DEF Effective
<1>2. law.confirmed /\ law.from \in Nat /\ law.from <= date /\ (law.to # NoDate => date < law.to)
      /\ (law.to \in Nat \/ law.to = NoDate)
  BY <1>1 DEF Payload, Effective
<1>3. law.from \in 0..date /\ law.to \notin 0..date
  BY <1>1, <1>2
<1>. QED  BY <1>1, <1>2, <1>3 DEF InForce

\* The final response before the gate is the last artifact, its review the one
\* before it.
LEMMA Judged ==
  ASSUME IInv, status = "running", Finals # {}
  PROVE  /\ Max(Finals) = Len(artifacts) /\ Final = artifacts[Len(artifacts)]
         /\ FinalOK(artifacts, read, viewed, Len(artifacts))
         /\ SourcesOf(Final, "REVIEW_RESULT") = {Len(artifacts) - 1}
         /\ Len(artifacts) \in Nat /\ Len(artifacts) >= 3 /\ DOMAIN artifacts = 1..Len(artifacts)
         /\ BoardOK(artifacts)
<1>1. BoardOK(artifacts) /\ Len(artifacts) >= 3 /\ FinalOK(artifacts, read, viewed, Len(artifacts))
  BY DEF IInv, BoardInv, FinalInv
<1>2. Len(artifacts) \in Nat /\ DOMAIN artifacts = 1..Len(artifacts)
  BY <1>1, PlacesOf
<1>3. PICK n : n = Len(artifacts)
  OBVIOUS
<1>4. n \in Finals /\ Finals \subseteq 1..n
  BY <1>1, <1>2, <1>3 DEF Finals, FinalOK
<1>5. Max(Finals) = n
  <2>1. Max(Finals) \in 1..n /\ n <= Max(Finals)
    BY <1>2, <1>3, <1>4, LastPlace
  <2>. QED  BY <1>2, <1>3, <2>1
<1>6. Final = artifacts[n]
  BY <1>5 DEF Final
<1>7. PICK c \in 1..(n - 2) :
        /\ artifacts[n].sources = {c, n - 1} /\ artifacts[n - 1].type = "REVIEW_RESULT"
        /\ artifacts[c].type # "REVIEW_RESULT"
  BY <1>1, <1>3 DEF FinalOK
<1>8. SourcesOf(Final, "REVIEW_RESULT") = {n - 1}
  BY <1>6, <1>7 DEF SourcesOf
<1>. QED  BY <1>1, <1>2, <1>3, <1>5, <1>6, <1>8

\* The last sighting of a law that is cited.
LEMMA LatestSighting ==
  ASSUME IInv, NEW l \in Laws, Sightings(l) # {}
  PROVE  /\ Max(Sightings(l)) \in BundlesOf(artifacts)
         /\ l \in artifacts[Max(Sightings(l))].refs \cap Laws
         /\ artifacts[Max(Sightings(l))].content \in [artifacts[Max(Sightings(l))].refs \cap Laws -> Payloads]
         /\ LatestPayload(l) \in Payloads
<1>1. BoardOK(artifacts)
  BY DEF IInv, BoardInv
<1>2. Len(artifacts) \in Nat /\ DOMAIN artifacts = 1..Len(artifacts)
  BY <1>1, PlacesOf
<1>3. Sightings(l) \subseteq 1..Len(artifacts)
  BY <1>2 DEF Sightings, Bundles
<1>4. PICK m : m = Max(Sightings(l))
  OBVIOUS
<1>5. m \in Sightings(l)
  BY <1>2, <1>3, <1>4, LastPlace
<1>6. m \in BundlesOf(artifacts) /\ l \in DOMAIN artifacts[m].content /\ m \in DOMAIN artifacts
  BY <1>5 DEF Sightings, Bundles, BundlesOf
<1>7. artifacts[m].content \in [artifacts[m].refs \cap Laws -> Payloads]
  BY <1>1, <1>6 DEF BoardOK, Fits, BundlesOf, IsBundle
<1>. QED  BY <1>4, <1>6, <1>7 DEF LatestPayload

\* A delivered response is a candidate that rests on the bundle that was read.
LEMMA DeliveredRests ==
  ASSUME IInv, status = "running", Finals # {}, Delivers
  PROVE  /\ RestsOn(artifacts, read, Final.refs)
         /\ SoundBody(artifacts, read, Final.content, Final.refs)
         /\ Final.refs # {} => read \in viewed
<1>1. PICK n : n = Len(artifacts)
  OBVIOUS
<1>2. Final = artifacts[n] /\ SourcesOf(Final, "REVIEW_RESULT") = {n - 1} /\ FinalOK(artifacts, read, viewed, n)
  BY <1>1, Judged
<1>3. artifacts[n - 1].content
  BY <1>2 DEF Delivers, Approved
<1>4. PICK c \in 1..(n - 2) :
        /\ artifacts[n].refs = artifacts[c].refs /\ CandidateOK(artifacts, read, c)
        /\ artifacts[n].content = artifacts[c].content
        /\ artifacts[c].refs # {} => read \in viewed
  BY <1>2, <1>3 DEF FinalOK
<1>. QED  BY <1>2, <1>4 DEF CandidateOK

\* Its laws are in force.
LEMMA DeliveredInForce ==
  ASSUME IInv, status = "running", Finals # {}, Delivers,
         Final.content.decision = "supported_answer"
  PROVE  /\ Final.refs \cap Laws # {}
         /\ \A l \in Final.refs \cap Laws :
              InForce(artifacts[read].content[l], eventDate) /\ InForce(LatestPayload(l), eventDate)
<1>1. /\ Final.refs # {} /\ read \in BundlesOf(artifacts) /\ Final.refs = artifacts[read].refs
      /\ LawsConfirmed(artifacts[read])
  BY DeliveredRests DEF RestsOn, SoundBody
<1>2. artifacts[read].content \in [artifacts[read].refs \cap Laws -> Payloads]
  BY <1>1 DEF IInv, BoardInv, BoardOK, Fits, BundlesOf, IsBundle
<1>3. eventDate \in Dates \cup {NoDate}
  BY DEF IInv, StateOK
<1>4. ASSUME NEW l \in Final.refs \cap Laws
      PROVE  InForce(artifacts[read].content[l], eventDate) /\ InForce(LatestPayload(l), eventDate)
  <2>1. InForce(artifacts[read].content[l], eventDate)
    <3>1. artifacts[read].content[l] \in Payloads /\ Effective(artifacts[read].content[l], eventDate)
      BY <1>1, <1>2 DEF LawsConfirmed
    <3>. QED  BY <1>3, <3>1, EffectiveIsInForce
  <2>2. Sightings(l) # {}
    BY <1>1, <1>2 DEF Sightings, Bundles, BundlesOf
  <2>3. Effective(LatestPayload(l), eventDate)
    BY <2>2 DEF Delivers, TemporalValidity
  <2>4. LatestPayload(l) \in Payloads
    BY <2>2, LatestSighting
  <2>. QED  BY <1>3, <2>1, <2>3, <2>4, EffectiveIsInForce
<1>5. Final.refs \cap Laws # {}
  BY <1>1, <1>2 DEF LawsConfirmed
<1>. QED  BY <1>4, <1>5

\* The gate blocks what its review approved for one of three reasons.
LEMMA BlockedForAReason ==
  ASSUME IInv, status = "running", Finals # {}, ~Delivers, artifacts[Len(artifacts) - 1].content
  PROVE  \/ ~Final.content.clean
         \/ \E c \in Final.content.claims : c.text = "blank"
         \/ \E l \in Final.refs \cap Laws :
              Outdated(l) /\ Sightings(l) # {} /\ read \in DOMAIN artifacts
<1>. SUFFICES ASSUME Final.content.clean, \A c \in Final.content.claims : c.text # "blank",
                     \A l \in Final.refs \cap Laws :
                       ~(Outdated(l) /\ Sightings(l) # {} /\ read \in DOMAIN artifacts)
              PROVE  Delivers
  OBVIOUS
<1>1. PICK n : n = Len(artifacts)
  OBVIOUS
<1>2. /\ Final = artifacts[n] /\ SourcesOf(Final, "REVIEW_RESULT") = {n - 1}
      /\ FinalOK(artifacts, read, viewed, n)
      /\ n \in Nat /\ n >= 3 /\ DOMAIN artifacts = 1..n /\ BoardOK(artifacts)
  BY <1>1, Judged
<1>3. PICK k \in 1..(n - 2) :
        /\ artifacts[n].sources = {k, n - 1} /\ artifacts[n - 1].sources = {k}
        /\ artifacts[n].refs = artifacts[k].refs /\ CandidateOK(artifacts, read, k)
        /\ artifacts[n].content = artifacts[k].content /\ artifacts[n].type = "FINAL_RESPONSE"
  BY <1>1, <1>2 DEF FinalOK
<1>4. /\ RestsOn(artifacts, read, Final.refs)
      /\ SoundBody(artifacts, read, Final.content, Final.refs)
      /\ \A c \in Final.content.claims : c.text # "empty"
  BY <1>2, <1>3 DEF CandidateOK
<1>5. Provenance /\ Approved
  <2>1. k \in SourcesOf(Final, "RESPONSE_CANDIDATE") /\ k \in artifacts[n - 1].sources
    BY <1>2, <1>3 DEF SourcesOf, CandidateOK
  <2>. QED  BY <1>1, <1>2, <2>1 DEF Provenance, Approved
<1>6. ClaimsGrounded
  <2>1. Final.content \in Body
    <3>1. n \in DOMAIN artifacts /\ Final = artifacts[n] /\ Final.type = "FINAL_RESPONSE"
      BY <1>2, <1>3
    <3>2. Fits(artifacts[n], n)
      BY <1>2, <3>1 DEF BoardOK
    <3>. QED  BY <3>1, <3>2 DEF Fits
  <2>2. \A c \in Final.content.claims : c.text \in {"text", "blank", "empty"}
    BY <2>1 DEF Body, Claim
  <2>. QED  BY <1>4, <2>2 DEF ClaimsGrounded, SoundBody
<1>7. EvidenceExists
  BY <1>4 DEF EvidenceExists, SoundBody, RestsOn, Bundles, BundlesOf
<1>8. TemporalValidity
  <2>. SUFFICES ASSUME Final.content.decision = "supported_answer"
                PROVE  /\ \E l \in Final.refs \cap Laws : Sightings(l) # {}
                       /\ \A l \in Final.refs \cap Laws :
                            Sightings(l) # {} => Effective(LatestPayload(l), eventDate)
    BY DEF TemporalValidity
  <2>1. /\ Final.refs # {} /\ read \in BundlesOf(artifacts) /\ Final.refs = artifacts[read].refs
        /\ LawsConfirmed(artifacts[read])
    BY <1>4 DEF SoundBody, RestsOn
  <2>2. artifacts[read].content \in [artifacts[read].refs \cap Laws -> Payloads]
    BY <1>2, <2>1 DEF BoardOK, Fits, BundlesOf, IsBundle
  <2>3. \A l \in Final.refs \cap Laws : Effective(artifacts[read].content[l], eventDate)
    BY <2>1, <2>2 DEF LawsConfirmed
  <2>4. \E l \in Final.refs \cap Laws : Sightings(l) # {}
    BY <2>1, <2>2 DEF LawsConfirmed, Sightings, Bundles, BundlesOf
  <2>5. ASSUME NEW l \in Final.refs \cap Laws, Sightings(l) # {}
        PROVE  Effective(LatestPayload(l), eventDate)
    <3>1. ~Outdated(l)
      BY <2>1, <2>5 DEF BundlesOf
    <3>2. CASE LatestPayload(l) = artifacts[read].content[l]
      BY <2>3, <3>2
    <3>. QED  BY <3>1, <3>2 DEF Outdated
  <2>. QED  BY <2>4, <2>5
<1>. QED  BY <1>5, <1>6, <1>7, <1>8 DEF Delivers

LEMMA JudgeFinalInv == ASSUME IInv, JudgeFinal PROVE IInv'
<1>1. /\ status = "running" /\ task = NoTask /\ Finals # {} /\ StateOK
      /\ UNCHANGED <<critical, ready, eventDate, matterEvidence, index, reindexed, task, depth,
                     held, searches, read, viewed>>
  BY DEF JudgeFinal, ChainIsOver, matter, world, IInv
<1>2. PICK n, final : n = Len(artifacts) /\ final = Final
  OBVIOUS
<1>3. /\ Max(Finals) = n /\ final = artifacts[n] /\ FinalOK(artifacts, read, viewed, n)
      /\ n \in Nat /\ n >= 3 /\ DOMAIN artifacts = 1..n /\ BoardOK(artifacts)
  BY <1>1, <1>2, Judged
<1>4. TaskInv' /\ TaskOK'
  BY <1>1 DEF TaskInv, TaskOK, NoTask, StateOK
<1>5. CASE Delivers
  <2>1. status' = "completed" /\ accepted' = n /\ artifacts' = artifacts
    BY <1>3, <1>5 DEF JudgeFinal
  <2>2. StateOK'
    BY <1>1, <1>3, <2>1 DEF StateOK, TaskOK
  <2>3. BoardInv(artifacts, searches, matterEvidence)'
    BY <1>1, <2>1 DEF IInv, BoardInv, BoardOK, Recorded
  <2>4. Answer' = final.content /\ Cited' = final.refs
    BY <1>3, <2>1 DEF Answer, Cited
  <2>5. /\ RestsOn(artifacts, read, final.refs) /\ SoundBody(artifacts, read, final.content, final.refs)
        /\ final.refs # {} => read \in viewed
    BY <1>1, <1>2, <1>5, DeliveredRests
  <2>6. ReviewSawEvidence'
    BY <1>1, <2>4, <2>5 DEF ReviewSawEvidence
  <2>7. CitesWhatWasRead'
    <3>1. /\ final.refs # {} => read \in DOMAIN artifacts /\ IsBundle(artifacts[read]) /\ final.refs = artifacts[read].refs
          /\ final.content.items \subseteq final.refs
          /\ \A c \in final.content.claims : c.ids \subseteq final.refs
      BY <2>5 DEF RestsOn, SoundBody, Grounded, BundlesOf
    <3>2. final.refs # {} => read # None
      BY <1>3, <3>1 DEF None
    <3>. QED  BY <1>1, <2>1, <2>4, <3>1, <3>2 DEF CitesWhatWasRead
  <2>8. SupportedIsInForce'
    <3>. SUFFICES ASSUME final.content.decision = "supported_answer"
                  PROVE  /\ final.refs \cap Laws # {}
                         /\ \A l \in final.refs \cap Laws :
                              /\ InForce(artifacts[read].content[l], eventDate)
                              /\ InForce(LatestPayload(l), eventDate)
      BY <1>1, <2>1, <2>4 DEF SupportedIsInForce, LatestPayload, Sightings, Bundles, InForce
    <3>. QED  BY <1>1, <1>2, <1>5, DeliveredInForce, SMTT(30)
  <2>. QED  BY <1>4, <2>1, <2>2, <2>3, <2>6, <2>7, <2>8 DEF IInv, FinalInv, AnswerInv, GateAgreesWithReview
<1>6. CASE ~Delivers
  <2>. DEFINE body == [NoBody EXCEPT !.decision = "safe_error", !.limits = TRUE]
              error == New("FINAL_RESPONSE", {n}, {}, body)
  <2>1. status' = "failed" /\ accepted' = n + 1 /\ artifacts' = artifacts \o <<error>>
    BY <1>2, <1>3, <1>6 DEF JudgeFinal, Put, Place
  <2>2. PICK b : b = Append(artifacts, error)
    OBVIOUS
  <2>3. /\ error \in Artifact /\ error.sources = {n}
        /\ BoardInv(b, searches, matterEvidence) /\ Extends(artifacts, b) /\ DOMAIN b = 1..(n + 1) /\ b[n + 1] = error
        /\ BundlesOf(b) = BundlesOf(artifacts)
    <3>1. BoardInv(artifacts, searches, matterEvidence)
      BY DEF IInv
    <3>2. {n} \in SUBSET DOMAIN artifacts /\ {} \in SUBSET Evidence
      BY <1>3
    <3>3. body \in Body
      BY DEF NoBody, Body
    <3>4. "FINAL_RESPONSE" \in ArtifactTypes \ {"RAG_EVIDENCE_BUNDLE"}
      BY DEF ArtifactTypes
    <3>. HIDE DEF body
    <3>. QED  BY <1>2, <2>2, <3>1, <3>2, <3>3, <3>4, NewPlain
  <2>. HIDE DEF error
  <2>4. artifacts' = b
    BY <1>3, <2>1, <2>2, PutOne DEF BoardOK
  <2>5. StateOK'
    <3>1. DOMAIN artifacts \subseteq DOMAIN b /\ n + 1 \in DOMAIN b
      BY <1>3, <2>3
    <3>. QED  BY <1>1, <2>1, <2>4, <3>1 DEF StateOK, TaskOK
  <2>6. BoardInv(artifacts, searches, matterEvidence)'
    BY <1>1, <2>3, <2>4 DEF BoardInv, BoardOK, Recorded
  <2>7. GateAgreesWithReview'
    <3>1. PICK k \in 1..(n - 2) :
            /\ artifacts[n].sources = {k, n - 1} /\ artifacts[n - 1].type = "REVIEW_RESULT"
            /\ artifacts[k].type # "REVIEW_RESULT"
      BY <1>3 DEF FinalOK
    <3>2. b[n] = artifacts[n] /\ b[n - 1] = artifacts[n - 1] /\ b[k] = artifacts[k]
      BY <1>2, <1>3, <2>3 DEF Extends
    <3>3. {i \in b[n].sources : b[i].type = "REVIEW_RESULT"} = {n - 1}
      BY <3>1, <3>2
    <3>4. (CHOOSE i \in {n} : TRUE) = n /\ (CHOOSE i \in {n - 1} : TRUE) = n - 1
      OBVIOUS
    <3>5. b[n - 1].content =>
            \/ ~b[n].content.clean
            \/ \E c \in b[n].content.claims : c.text = "blank"
            \/ \E l \in b[n].refs \cap Laws :
                 Outdated(l) /\ Sightings(l) # {} /\ read \in DOMAIN artifacts
      BY <1>1, <1>2, <1>3, <1>6, <3>2, BlockedForAReason
    <3>7. ASSUME NEW l \in Laws, Outdated(l), Sightings(l) # {}, read \in DOMAIN artifacts
          PROVE  Outdated(l)'
      <4>1. BundlesOf(b) = BundlesOf(artifacts) /\ \A i \in DOMAIN artifacts : b[i] = artifacts[i]
        BY <2>3 DEF Extends
      <4>2. Sightings(l)' = Sightings(l)
        BY <2>4, <4>1 DEF Sightings, Bundles, BundlesOf
      <4>3. Max(Sightings(l)) \in DOMAIN artifacts
        BY <3>7, LatestSighting DEF BundlesOf
      <4>4. LatestPayload(l)' = LatestPayload(l) /\ artifacts'[read] = artifacts[read]
        BY <2>4, <3>7, <4>1, <4>2, <4>3 DEF LatestPayload
      <4>. QED  BY <1>1, <3>7, <4>4 DEF Outdated, Effective
    <3>6. /\ artifacts'[accepted'].sources = {n} /\ artifacts'[n] = b[n]
          /\ SourcesOf(artifacts[n], "REVIEW_RESULT")' = {n - 1} /\ artifacts'[n - 1] = b[n - 1]
      BY <2>1, <2>3, <2>4, <3>3 DEF SourcesOf
    <3>. QED  BY <1>1, <3>4, <3>5, <3>6, <3>7 DEF GateAgreesWithReview, SourcesOf
  <2>. QED  BY <1>4, <2>1, <2>5, <2>6, <2>7 DEF IInv, FinalInv, AnswerInv, SupportedIsInForce,
               CitesWhatWasRead, ReviewSawEvidence, Delivered
<1>. QED  BY <1>5, <1>6

LEMMA FinishEmptyHandedInv == ASSUME IInv, FinishEmptyHanded PROVE IInv'
<1>1. /\ UNCHANGED <<critical, ready, eventDate, matterEvidence, index, reindexed, artifacts, task,
                     depth, held, accepted, searches, read, viewed>>
      /\ status' = "limited" /\ task = NoTask
  BY DEF FinishEmptyHanded, ChainIsOver, matter, world
<1>2. StateOK' /\ BoardInv(artifacts, searches, matterEvidence)'
  BY <1>1 DEF IInv, StateOK, TaskOK, BoardInv, BoardOK, Recorded
<1>3. TaskInv'
  BY <1>1 DEF TaskInv, NoTask
<1>4. FinalInv' /\ AnswerInv'
  BY <1>1 DEF FinalInv, AnswerInv, SupportedIsInForce, CitesWhatWasRead, ReviewSawEvidence,
              GateAgreesWithReview, Delivered
<1>. QED  BY <1>2, <1>3, <1>4 DEF IInv

LEMMA ReindexInv == ASSUME IInv, Reindex PROVE IInv'
<1>1. /\ UNCHANGED <<critical, ready, eventDate, matterEvidence, artifacts, task, depth, held,
                     status, accepted, searches, read, viewed>>
      /\ status = "running" /\ Finals = {} /\ reindexed < MaxReindex
      /\ index' \in [Laws -> Payloads] /\ reindexed' = reindexed + 1
  BY DEF Reindex, matter
<1>2. reindexed' \in 0..MaxReindex /\ reindexed' # 0
  BY <1>1, Constants DEF IInv, StateOK
<1>3. StateOK'
  BY <1>1, <1>2 DEF IInv, StateOK, TaskOK
<1>4. BoardInv(artifacts, searches, matterEvidence)'
  BY <1>1, <1>2 DEF IInv, BoardInv, BoardOK, Recorded
<1>5. TaskInv'
  BY <1>1 DEF IInv, TaskInv, Finals, StartOK, AnalysisOK, CandidateOK, RestsOn, SoundBody,
              LawsConfirmed, Effective
<1>6. FinalInv'
  BY <1>1 DEF FinalInv, Finals
<1>7. AnswerInv'
  BY <1>1 DEF AnswerInv, SupportedIsInForce, CitesWhatWasRead, ReviewSawEvidence,
              GateAgreesWithReview, Delivered
<1>. QED  BY <1>3, <1>4, <1>5, <1>6, <1>7 DEF IInv

LEMMA NextInv == ASSUME IInv, [Next]_vars PROVE IInv'
<1>1. CASE Next
  BY <1>1, FailTaskInv, BlockTaskInv, AssessSafetyInv, ScheduleNextInv, EscalateInv,
     UnderstandMessageInv, RetrieveContextInv, AnalyzeEvidenceInv, ComposeResponseInv,
     ReviewResponseInv, RequestRecheckInv, JudgeFinalInv, FinishEmptyHandedInv, ReindexInv DEF Next
<1>2. CASE UNCHANGED vars
  <2>1. UNCHANGED <<critical, ready, eventDate, matterEvidence, index, reindexed, artifacts, task,
                    depth, held, status, accepted, searches, read, viewed>>
    BY <1>2 DEF vars, matter, world
  <2>2. StateOK' /\ BoardInv(artifacts, searches, matterEvidence)'
    <3>1. StateOK'
      BY <2>1 DEF IInv, StateOK, TaskOK
    <3>2. BoardInv(artifacts, searches, matterEvidence)'
      BY <2>1 DEF IInv, BoardInv, BoardOK, Recorded
    <3>. QED  BY <3>1, <3>2
  <2>3. TaskInv' /\ FinalInv'
    <3>1. TaskInv'
      BY <2>1, SMTT(30) DEF IInv, TaskInv, Finals, StartOK, AnalysisOK, CandidateOK, RestsOn, SoundBody,
                            LawsConfirmed, Effective
    <3>2. FinalInv'
      BY <2>1, SMTT(30) DEF IInv, FinalInv, Finals, FinalOK, CandidateOK, RestsOn, SoundBody, LawsConfirmed,
                            Effective
    <3>. QED  BY <3>1, <3>2
  <2>4. AnswerInv'
    <3>1. \A l : LatestPayload(l)' = LatestPayload(l)
      BY <2>1 DEF LatestPayload, Sightings, Bundles
    <3>2. SupportedIsInForce' /\ CitesWhatWasRead' /\ ReviewSawEvidence'
      BY <2>1, <3>1 DEF IInv, AnswerInv, SupportedIsInForce, CitesWhatWasRead, ReviewSawEvidence,
                        Delivered, Answer, Cited, InForce
    <3>3. \A l : Outdated(l)' <=> Outdated(l)
      BY <2>1, <3>1 DEF Outdated, Effective
    <3>4. GateAgreesWithReview'
      BY <2>1, <3>3 DEF IInv, AnswerInv, GateAgreesWithReview, SourcesOf
    <3>. QED  BY <3>2, <3>4 DEF AnswerInv
  <2>. QED  BY <2>2, <2>3, <2>4 DEF IInv
<1>. QED  BY <1>1, <1>2

THEOREM Invariance == Spec => []IInv
<1>1. Init => IInv
  BY InitInv
<1>2. IInv /\ [Next]_vars => IInv'
  BY NextInv
<1>. QED  BY <1>1, <1>2, PTL DEF Spec

-----------------------------------------------------------------------------
\* What follows for every run

LEMMA TypesFollow == ASSUME IInv PROVE TypeOK
<1>1. ASSUME NEW i \in DOMAIN artifacts
      PROVE  LET a == artifacts[i]
             IN  /\ a.sources \subseteq 1..(i - 1)
                 /\ a.refs \subseteq Evidence
                 /\ CASE a.type = "RAG_EVIDENCE_BUNDLE" -> a.content \in [a.refs \cap Laws -> Payloads]
                      [] a.type = "REVIEW_RESULT"       -> a.content \in BOOLEAN
                      [] OTHER                          -> a.content \in Body
  <2>1. BoardOK(artifacts)
    BY DEF IInv, BoardInv
  <2>2. artifacts[i] \in Artifact /\ Fits(artifacts[i], i)
    BY <2>1, PlacesOf
  <2>. QED  BY <2>2 DEF Artifact, Fits
<1>. QED  BY <1>1 DEF IInv, StateOK, TaskOK, TypeOK

LEMMA RecordFollows == ASSUME IInv PROVE SearchesAreRecorded
<1>1. Bundles = BundlesOf(artifacts)
  BY DEF Bundles, BundlesOf
<1>. QED  BY <1>1 DEF IInv, BoardInv, Recorded, SearchesAreRecorded

\* A supported answer that reaches the user cites laws, and each of them is in
\* force on the day of the event, as it was analysed (_law_versions_confirmed) and
\* as the run last saw it (DeliveryGate's temporal validity): for every set of
\* laws, with the index rebuilt at any time during the run, and whatever claims,
\* items and next tasks the model proposes.
THEOREM SupportedStaysInForce == Spec => []SupportedIsInForce
<1>1. IInv => SupportedIsInForce
  BY DEF IInv, AnswerInv
<1>. QED  BY <1>1, Invariance, PTL

\* The trace of a run accounts for its evidence: each search is a bundle on the
\* board, also that which a context made for an agent that failed afterwards; what
\* an answer cites is what the analysis read; and the review had it before it.
THEOREM EvidenceStaysTraced == Spec => []EvidenceIsTraced
<1>1. IInv => EvidenceIsTraced
  BY TypesFollow, RecordFollows DEF IInv, AnswerInv, EvidenceIsTraced
<1>. QED  BY <1>1, Invariance, PTL

\* DeliveryGate repeats the checks of ReviewAgent and its predecessors, and finds
\* fault with an approved response only for its text, a blank claim or a cited law
\* that a later search of the run found with a payload that is not in force, unlike
\* the one that was analysed.
THEOREM GateAndReviewAgree == Spec => []GateAgreesWithReview
<1>1. IInv => GateAgreesWithReview
  BY DEF IInv, AnswerInv
<1>. QED  BY <1>1, Invariance, PTL
=============================================================================
