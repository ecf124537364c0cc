----------------------------- MODULE HybridSearch -----------------------------
(***************************************************************************)
(* One call of search_cases or search_statutes                             *)
(* (src/src/knowledge/qdrant_tools.py) through ToolExecutor.execute         *)
(* (src/src/runtime/tools.py): the dense and the sparse query, their fusion *)
(* by reciprocal rank, and the page of evidence views that is made of it.   *)
(*                                                                         *)
(* The two queries are separate requests to an index that others rebuild:   *)
(* the second may find other points than the first, other payloads of the   *)
(* same id, and, while points are replaced, two points of one id.           *)
(***************************************************************************)
EXTENDS Naturals, Sequences, FiniteSets, SequencesExt

CONSTANTS
  Ids,          \* case_id or chunk_id
  NoId,         \* of a point whose payload has no id
  Payloads,     \* versions of the payload of an id
  Broken,       \* points of whose payload no view can be built
  Requests,     \* values of the argument top_k
  NoTopK,       \* the argument is not given
  DefaultTopK,  \* default_top_k
  MaxTopK,      \* 50
  Multiplier,   \* candidate_k_multiplier
  RrfK,         \* rrf_k
  Scale,        \* a common multiple of the denominators, in place of fractions
  MaxPoints     \* bound of the model: points that match a query

Item == [id : Ids, payload : Payloads]

\* An item is a point that has an id.
Points == Item \cup {[id |-> NoId, payload |-> NoId]}

ASSUME SearchAssumption ==
  /\ NoId \notin Ids
  /\ Broken \subseteq Item
  /\ Requests \subseteq Nat \cup {NoTopK}
  /\ {DefaultTopK, MaxTopK, Multiplier, RrfK, Scale, MaxPoints} \subseteq Nat \ {0}
  /\ DefaultTopK <= MaxTopK
  /\ \A rank \in 1..MaxPoints : Scale % (RrfK + rank) = 0

VARIABLES
  request,  \* the argument top_k
  stage,    \* how far the call is
  dense,    \* dense_points
  sparse,   \* sparse_points
  result    \* the ToolResult

searchVars == <<request, stage, dense, sparse, result>>

NoResult == [status |-> "none", items |-> <<>>]

\* _failed_tool_result
Failed == [status |-> "failed", items |-> <<>>]

SearchInit ==
  /\ request \in Requests
  /\ stage = "called"
  /\ dense = <<>>
  /\ sparse = <<>>
  /\ result = NoResult

-----------------------------------------------------------------------------
\* The page.

\* _top_k, when it does not raise
TopK == IF request = NoTopK THEN DefaultTopK ELSE request

CandidateK == Max({TopK, TopK * Multiplier})

\* What the index answers: the best points that match, each once.
Answers ==
  {a \in BoundedSeq(Points, Min({CandidateK, MaxPoints})) :
     \A i, j \in DOMAIN a : a[i] = a[j] => i = j}

\* dense_points + sparse_points
Found == dense \o sparse

FoundIds == {Found[i].id : i \in DOMAIN Found} \ {NoId}

Places(id, points) == {i \in DOMAIN points : points[i].id = id}

\* The ranks of an id in dense_ids or sparse_ids: points that have no id are passed
\* over.
Ranks(id, points) ==
  {Cardinality({j \in 1..i : points[j].id # NoId}) : i \in Places(id, points)}

\* 1 / (rrf_k + rank), in units of 1 / Scale
Weight(rank) == Scale \div (RrfK + rank)

\* The units that an id has from one list.
Shares(id, points) == UNION {{rank} \X (1..Weight(rank)) : rank \in Ranks(id, points)}

\* Mutant: the score of the second list replaces that of the first.
LastScore(id) ==
  Cardinality(Shares(id, IF Ranks(id, sparse) # {} THEN sparse ELSE dense))

\* scores[id] of _rrf_fuse
Score(id) == Cardinality(Shares(id, dense)) + Cardinality(Shares(id, sparse))

FirstSeen(id) == Min(Places(id, Found))

\* Mutant: among equals the one that was found last comes first.
BeforeLatest(a, b) ==
  \/ Score(a) > Score(b)
  \/ Score(a) = Score(b) /\ FirstSeen(a) > FirstSeen(b)

\* The sort key of _rrf_fuse.
Before(a, b) ==
  \/ Score(a) > Score(b)
  \/ Score(a) = Score(b) /\ FirstSeen(a) < FirstSeen(b)

\* How many of the ids come before it.
Position(id, ids) == Cardinality({x \in ids : Before(x, id)})

\* The ids in their order.
Ranked(ids) ==
  [i \in 1..Cardinality(ids) |-> CHOOSE id \in ids : Position(id, ids) = i - 1]

\* Mutant: an id that both queries found is ranked twice.
RankingWithRepeats == [i \in DOMAIN Found |-> Found[i].id]

\* Mutant: only what the dense query found is ranked.
RankingOfDense == Ranked({p.id : p \in ToSet(dense)} \ {NoId})

\* _rrf_fuse
Ranking == Ranked(FoundIds)

\* Mutant: the last payload of an id wins.
LastPayload(id) == Found[Max(Places(id, Found))].payload

\* _payloads_by_id
PayloadOf(id) == Found[FirstSeen(id)].payload

PageOf(ranking) ==
  [i \in 1..Min({TopK, Len(ranking)}) |->
     [id |-> ranking[i], payload |-> PayloadOf(ranking[i])]]

Page == PageOf(Ranking)

-----------------------------------------------------------------------------

\* _top_k raises.
RejectTopK ==
  /\ stage = "called"
  /\ TopK \notin 1..MaxTopK
  /\ stage' = "done"
  /\ result' = Failed
  /\ UNCHANGED <<request, dense, sparse>>

\* The query is encoded and the dense vector looked up.
QueryDense ==
  /\ stage = "called"
  /\ TopK \in 1..MaxTopK
  /\ stage' = "dense"
  /\ dense' \in Answers
  /\ UNCHANGED <<request, sparse, result>>

QuerySparse ==
  /\ stage = "dense"
  /\ stage' = "sparse"
  /\ sparse' \in Answers
  /\ UNCHANGED <<request, dense, result>>

\* The embedder or the client raises: nothing of the first query is used.
QueryRaises ==
  /\ stage \in {"called", "dense"}
  /\ TopK \in 1..MaxTopK
  /\ stage' = "done"
  /\ result' = Failed
  /\ UNCHANGED <<request, dense, sparse>>

\* Mutant: the views are built before the page is cut.
ReturnLate ==
  /\ stage = "sparse"
  /\ stage' = "done"
  /\ LET page == Page
     IN  result' = IF ToSet(Found) \cap Broken # {} THEN Failed
                   ELSE [status |-> IF page = <<>> THEN "empty" ELSE "success", items |-> page]
  /\ UNCHANGED <<request, dense, sparse>>

\* The views of the page are built, one after the other; if one of them cannot
\* be, the call fails.
Return ==
  /\ stage = "sparse"
  /\ stage' = "done"
  /\ LET page == Page
     IN  result' = IF ToSet(page) \cap Broken # {} THEN Failed
                   ELSE [status |-> IF page = <<>> THEN "empty" ELSE "success", items |-> page]
  /\ UNCHANGED <<request, dense, sparse>>

SearchNext == RejectTopK \/ QueryDense \/ QuerySparse \/ QueryRaises \/ Return

SearchSpec == SearchInit /\ [][SearchNext]_searchVars

-----------------------------------------------------------------------------
\* Properties.

Succeeded == stage = "done" /\ result.status # "failed"

\* A result has items or says why it has none; it never has one twice.
SearchTypeOK ==
  /\ request \in Requests
  /\ stage \in {"called", "dense", "sparse", "done"}
  /\ dense \in Seq(Points) /\ sparse \in Seq(Points)
  /\ result.items \in Seq(Item)
  /\ stage = "done" <=> result.status \in {"success", "empty", "failed"}
  /\ result.status = "success" <=> result.items # <<>>
  /\ \A i, j \in DOMAIN result.items : result.items[i].id = result.items[j].id => i = j

InDense(id) == Places(id, dense) # {}
InSparse(id) == Places(id, sparse) # {}

\* The page is full: it has top_k items, or all that either query found.
PageIsFull ==
  Succeeded => Len(result.items) = Min({TopK, Cardinality(FoundIds)})

\* Does item x come before what is at y, which may have missed the page?
Precedes(x, y) ==
  \E i \in DOMAIN result.items :
    /\ result.items[i].id = x
    /\ \A j \in 1..i : result.items[j].id # y

OnPage(id) == \E i \in DOMAIN result.items : result.items[i].id = id

\* Do both queries find the id among their first RrfK + 1?
Agreed(id) ==
  \A points \in {dense, sparse} :
    \E rank \in Ranks(id, points) : rank <= RrfK + 1

\* What both queries find comes before what only one finds, once: no first place
\* outweighs two places.  Beyond RrfK + 1 = 61 places, which a search for more than
\* 20 items asks for, it may.
AgreementFirst ==
  Succeeded =>
    \A x, y \in FoundIds :
      /\ Agreed(x)
      /\ ~(InDense(y) /\ InSparse(y)) /\ Cardinality(Places(y, Found)) = 1
      /\ OnPage(y)
      => Precedes(x, y)

\* Of two that only one query finds, each in its own, the better placed comes
\* first, and at equal places the one of the dense query.
BetterPlaceFirst ==
  Succeeded =>
    \A x, y \in FoundIds :
      /\ InDense(x) /\ ~InSparse(x) /\ InSparse(y) /\ ~InDense(y)
      /\ Cardinality(Places(x, Found)) = 1 /\ Cardinality(Places(y, Found)) = 1
      => LET rx == Min(Ranks(x, dense))
             ry == Min(Ranks(y, sparse))
         IN  IF rx <= ry THEN OnPage(y) => Precedes(x, y)
                         ELSE OnPage(x) => Precedes(y, x)

\* An item has the payload that came with it in the dense query, and otherwise
\* that of the sparse query: never the mixture of two rebuilds of the index.
PayloadIsTheFirst ==
  Succeeded =>
    \A i \in DOMAIN result.items :
      LET id == result.items[i].id
          source == IF InDense(id) THEN dense ELSE sparse
      IN  result.items[i].payload = source[Min(Places(id, source))].payload

\* One payload of which no view can be built fails the call, although the rest of
\* the page is whole; one that did not make the page does no harm.
FailsForThePage ==
  stage = "done" =>
    /\ ToSet(result.items) \cap Broken = {}
    /\ sparse # <<>> /\ result.status = "failed" =>
         \E id \in FoundIds :
           /\ Found[FirstSeen(id)] \in Broken
           /\ Position(id, FoundIds) < TopK

\* What a search returns, for every pair of answers to its two queries.
PageIsSound ==
  /\ SearchTypeOK
  /\ PageIsFull
  /\ AgreementFirst
  /\ BetterPlaceFirst
  /\ PayloadIsTheFirst
  /\ FailsForThePage
=============================================================================
