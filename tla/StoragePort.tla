----------------------------- MODULE StoragePort -----------------------------
(***************************************************************************)
(* What the storage ports promise (src/src/persistence/storage.py), as the  *)
(* in-memory adapters keep it: every call takes effect at once and returns  *)
(* what it did.  There are user profiles with a version, the histories of   *)
(* the sessions, and the pool of examples for reuse.                        *)
(*                                                                         *)
(* A message and a run are named by the time at which they were made.  A    *)
(* profile is its version.  Its updated_at is not modelled: the in-memory   *)
(* adapter stamps it at every upsert (storage.py:174), the one for Redis    *)
(* stores what the caller gave (persistence_adapters.py:47-50).            *)
(***************************************************************************)
EXTENDS Naturals, Sequences, FiniteSets

LOCAL INSTANCE FiniteSetsExt
LOCAL INSTANCE SequencesExt

CONSTANTS
  Users,
  Sessions,
  Messages,     \* history messages
  Examples,     \* runs with an example; the later has the larger number
  UserOf,       \* contributor_user_id of each
  Matches,      \* how many of the facts that are searched for each has
  Limit         \* limit of list_history and search_examples

VARIABLES
  profiles,   \* the version of the profile of a user, or 0
  history,    \* the messages of a session
  examples,   \* the pool
  reply       \* what the latest call returned

vars == <<profiles, history, examples, reply>>

Reply(op, key, value) == [op |-> op, key |-> key, value |-> value]

Init ==
  /\ profiles = [u \in Users |-> 0]
  /\ history = [s \in Sessions |-> <<>>]
  /\ examples = {}
  /\ reply = Reply("none", "none", 0)

\* InMemoryUserProfileStore.  A profile that a caller makes has version 1.
Upsert(u) ==
  /\ profiles' = [profiles EXCEPT ![u] = @ + 1]
  /\ reply' = Reply("upsert", u, profiles[u] + 1)
  /\ UNCHANGED <<history, examples>>

GetProfile(u) ==
  /\ reply' = Reply("get", u, profiles[u])
  /\ UNCHANGED <<profiles, history, examples>>

DeleteProfile(u) ==
  /\ profiles' = [profiles EXCEPT ![u] = 0]
  /\ reply' = Reply("delete", u, IF profiles[u] = 0 THEN 0 ELSE 1)
  /\ UNCHANGED <<history, examples>>

\* The time to live of a profile is over; the in-memory adapter has none.
Forget(u) ==
  /\ profiles' = [profiles EXCEPT ![u] = 0]
  /\ UNCHANGED <<history, examples, reply>>

\* InMemoryConversationRepository
AppendHistory(s, m) ==
  /\ history' = [history EXCEPT ![s] = Append(@, m)]
  /\ reply' = Reply("append_history", s, m)
  /\ UNCHANGED <<profiles, examples>>

\* matches[-limit:]
Latest(n, messages) ==
  SubSeq(messages, IF Len(messages) > n THEN Len(messages) - n + 1 ELSE 1, Len(messages))

ListHistory(s) ==
  /\ reply' = Reply("list_history", s, Latest(Limit, history[s]))
  /\ UNCHANGED <<profiles, history, examples>>

\* InMemoryTraceReusePool
SaveExample(r) ==
  /\ examples' = examples \cup {r}
  /\ reply' = Reply("save_example", r, 0)
  /\ UNCHANGED <<profiles, history>>

\* The sort key of search_examples.
Better(a, b) == Matches[a] > Matches[b] \/ (Matches[a] = Matches[b] /\ a > b)

Best(pool) ==
  LET ranked == SetToSortSeq(pool, Better)
  IN  SubSeq(ranked, 1, Min({Limit, Len(ranked)}))

SearchExamples ==
  /\ reply' = Reply("search_examples", "facts", Best(examples))
  /\ UNCHANGED <<profiles, history, examples>>

Contributed(u, pool) == {r \in pool : UserOf[r] = u}

\* What a deletion returns.
HowMany(pool) == Cardinality(pool)

DeleteExamples(u) ==
  /\ LET gone == Contributed(u, examples)
     IN  /\ examples' = examples \ gone
         /\ reply' = Reply("delete_examples_by_user", u, HowMany(gone))
  /\ UNCHANGED <<profiles, history>>

Next ==
  \/ \E u \in Users :
       Upsert(u) \/ GetProfile(u) \/ DeleteProfile(u) \/ Forget(u) \/ DeleteExamples(u)
  \/ \E s \in Sessions : ListHistory(s) \/ (\E m \in Messages : AppendHistory(s, m))
  \/ \E r \in Examples : SaveExample(r)
  \/ SearchExamples

Spec == Init /\ [][Next]_vars
=============================================================================
