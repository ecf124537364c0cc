--------------------------- MODULE DatabaseStores ---------------------------
(***************************************************************************)
(* The adapters of the storage ports for Redis and PostgreSQL               *)
(* (src/src/persistence/persistence_adapters.py), called by many coroutines *)
(* at a time, and the port that they implement, StoragePort.                *)
(*                                                                         *)
(* One action is one command of Redis or one transaction of PostgreSQL,     *)
(* which the databases carry out one after the other, or what a coroutine   *)
(* does before it sends the first.                                         *)
(***************************************************************************)
EXTENDS Naturals, Sequences, FiniteSets, SequencesExt

CONSTANTS
  Clients,      \* coroutines
  Users, Sessions, Messages, Examples, UserOf, Matches, Limit,  \* see StoragePort
  MaxScanned,   \* examples that search_examples reads: 100
  MaxCalls      \* bound of the model: calls that are made

ASSUME StoresAssumption ==
  /\ Examples \subseteq Nat
  /\ UserOf \in [Examples -> Users]
  /\ Matches \in [Examples -> Nat]
  /\ Limit \in Nat \ {0}
  /\ IsFiniteSet(Messages) /\ Messages = 1..Cardinality(Messages)
  /\ {MaxScanned, MaxCalls} \subseteq Nat \ {0}

VARIABLES
  keys,      \* Redis: the version in the profile of a user, or 0
  rows,      \* lawagent_history: the created_at of the messages of a session
  table,     \* lawagent_trace_reuse_examples: run ids
  call,      \* the call that a client has made and that has not returned
  clock,     \* the latest created_at
  calls,     \* how many calls were made
  reply      \* what the latest call returned

storesVars == <<keys, rows, table, call, clock, calls, reply>>

\* ORDER BY created_at.  The sort of the library is built into TLC; this one can
\* also be reasoned about.
InOrder(times) ==
  CHOOSE s \in [1..Cardinality(times) -> times] :
    \A i, j \in DOMAIN s : i < j => s[i] < s[j]

\* The port, with the history of a session in the order of created_at.
Port ==
  INSTANCE StoragePort WITH
    profiles <- keys,
    history <- [s \in Sessions |-> InOrder(rows[s])],
    examples <- table

NoCall == [op |-> "none", key |-> "none", seen |-> 0, lapped |-> FALSE]

Reply(op, key, value) == [op |-> op, key |-> key, value |-> value]

StoresInit ==
  /\ keys = [u \in Users |-> 0]
  /\ rows = [s \in Sessions |-> {}]
  /\ table = {}
  /\ call = [c \in Clients |-> NoCall]
  /\ clock = 0
  /\ calls = 0
  /\ reply = Reply("none", "none", 0)

ProfileCalls == {"upsert", "get", "delete"}
HistoryCalls == {"append_history", "list_history"}
ExampleCalls == {"save_example", "search_examples", "delete_examples_by_user"}

\* The calls that there are, and what they are for.
Interface ==
  (ProfileCalls \X Users) \cup (HistoryCalls \X Sessions) \cup
  ({"save_example"} \X Examples) \cup ({"search_examples"} \X {"facts"}) \cup
  ({"delete_examples_by_user"} \X Users)

Open(ops, key) == {c \in Clients : call[c].op \in ops /\ call[c].key = key}

\* The calls for one key that may get into each other's way, by their next step.
Writers == {"upsert", "upsert_set", "delete", "append_history"}

\* lapped is a history variable: was the call open together with another writer
\* for the same key, or an upsert between its two commands when the key expired?
Opened(c, op, key, seen) ==
  LET others == IF op \in Writers THEN Open(Writers, key) ELSE {}
      new == [op |-> op, key |-> key, seen |-> seen, lapped |-> others # {}]
  IN  [d \in Clients |-> IF d = c THEN new
                         ELSE [call[d] EXCEPT !.lapped = @ \/ d \in others]]

\* A client makes a call.  A message has its created_at before it is sent, and a
\* run saves its example once.
Make(c, op, key) ==
  /\ call[c] = NoCall
  /\ calls < MaxCalls
  /\ calls' = calls + 1
  /\ op = "append_history" => clock < Cardinality(Messages)
  /\ op = "save_example" => key \notin table /\ Open({op}, key) = {}
  /\ clock' = IF op = "append_history" THEN clock + 1 ELSE clock
  /\ call' = Opened(c, op, key, clock')
  /\ UNCHANGED <<keys, rows, table, reply>>

Returns(c, value) ==
  /\ call' = [call EXCEPT ![c] = NoCall]
  /\ reply' = Reply(call[c].op, call[c].key, value)
  /\ UNCHANGED <<clock, calls>>

-----------------------------------------------------------------------------
\* RedisUserProfileStore

\* The GET of upsert.
UpsertGet(c) ==
  /\ call[c].op = "upsert"
  /\ call' = [call EXCEPT ![c].op = "upsert_set", ![c].seen = keys[call[c].key]]
  /\ UNCHANGED <<keys, rows, table, clock, calls, reply>>

\* Mutant: a new profile has no version.
NextVersionFromNothing(seen) == IF seen = 0 THEN 0 ELSE seen + 1

\* current.version + 1 if current else profile.version
NextVersion(seen) == IF seen = 0 THEN 1 ELSE seen + 1

\* The SET of upsert, with the version that follows the one it read.
UpsertSet(c) ==
  /\ call[c].op = "upsert_set"
  /\ LET u == call[c].key
         version == NextVersion(call[c].seen)
     IN  /\ keys' = [keys EXCEPT ![u] = version]
         /\ reply' = Reply("upsert", u, version)
  /\ call' = [call EXCEPT ![c] = NoCall]
  /\ UNCHANGED <<rows, table, clock, calls>>

GetProfile(c) ==
  /\ call[c].op = "get"
  /\ Returns(c, keys[call[c].key])
  /\ UNCHANGED <<keys, rows, table>>

Gone(u) == keys' = [keys EXCEPT ![u] = 0]

DeleteProfile(c) ==
  /\ call[c].op = "delete"
  /\ Gone(call[c].key)
  /\ Returns(c, IF keys[call[c].key] = 0 THEN 0 ELSE 1)
  /\ UNCHANGED <<rows, table>>

\* The time to live of a key is over, perhaps between the GET and the SET of upsert.
Expire(u) ==
  /\ keys[u] # 0
  /\ Gone(u)
  /\ call' = [c \in Clients |-> IF c \in Open({"upsert_set"}, u)
                                THEN [call[c] EXCEPT !.lapped = TRUE] ELSE call[c]]
  /\ UNCHANGED <<rows, table, clock, calls, reply>>

-----------------------------------------------------------------------------
\* PostgresConversationRepository

AppendHistory(c) ==
  /\ call[c].op = "append_history"
  /\ rows' = [rows EXCEPT ![call[c].key] = @ \cup {call[c].seen}]
  /\ Returns(c, call[c].seen)
  /\ UNCHANGED <<keys, table>>

\* ORDER BY created_at DESC LIMIT n
Newest(n, times) ==
  LET sorted == Reverse(InOrder(times)) IN SubSeq(sorted, 1, Min({n, Len(sorted)}))

\* Mutant: the rows are returned in the order of the query.
ListedAsFetched(s) == Newest(Limit, rows[s])

\* list_history turns them round.
Listed(s) == Reverse(Newest(Limit, rows[s]))

ListHistory(c) ==
  /\ call[c].op = "list_history"
  /\ Returns(c, Listed(call[c].key))
  /\ UNCHANGED <<keys, rows, table>>

\* ON CONFLICT(run_id) DO NOTHING
SaveExample(c) ==
  /\ call[c].op = "save_example"
  /\ table' = table \cup {call[c].key}
  /\ Returns(c, 0)
  /\ UNCHANGED <<keys, rows>>

\* The best of the newest: LIMIT 100, and sorted after that.
BestOfNewest == Port!Best(ToSet(Newest(MaxScanned, table)))

SearchExamples(c) ==
  /\ call[c].op = "search_examples"
  /\ Returns(c, BestOfNewest)
  /\ UNCHANGED <<keys, rows, table>>

DeleteExamples(c) ==
  /\ call[c].op = "delete_examples_by_user"
  /\ LET gone == Port!Contributed(call[c].key, table)
     IN  table' = table \ gone /\ Returns(c, Port!HowMany(gone))
  /\ UNCHANGED <<keys, rows>>

Client(c) ==
  \/ \E i \in Interface : Make(c, i[1], i[2])
  \/ UpsertGet(c) \/ UpsertSet(c) \/ GetProfile(c) \/ DeleteProfile(c)
  \/ AppendHistory(c) \/ ListHistory(c)
  \/ SaveExample(c) \/ SearchExamples(c) \/ DeleteExamples(c)

StoresNext == (\E c \in Clients : Client(c)) \/ \E u \in Users : Expire(u)

StoresSpec == StoresInit /\ [][StoresNext]_storesVars

-----------------------------------------------------------------------------
\* Properties.

StoresTypeOK ==
  /\ keys \in [Users -> Nat]
  /\ rows \in [Sessions -> SUBSET (1..clock)]
  /\ table \subseteq Examples
  /\ \A c \in Clients : call[c].lapped => call[c].op \in Writers
  /\ clock \in 0..Cardinality(Messages)
  /\ calls \in 0..MaxCalls

\* A call that another writer for its key overlapped, or the end of the time to live
\* between its GET and its SET, may return what the port does not: it writes a version
\* that it computed before the profile was changed or gone, or a message whose
\* created_at lies before one that is stored already.  It does so for its own key only.
ReturnsLapped ==
  \E c \in Clients :
    /\ call[c].lapped /\ call'[c] = NoCall
    /\ UNCHANGED table
    /\ \A u \in Users \ {call[c].key} : keys'[u] = keys[u]
    /\ \A s \in Sessions \ {call[c].key} : rows'[s] = rows[s]

\* A search of more examples than it reads may miss the best.
SearchesTooMany ==
  /\ reply'.op = "search_examples"
  /\ Cardinality(table) > MaxScanned
  /\ UNCHANGED <<keys, rows, table>>

\* The adapters implement the port: an upsert of two commands takes effect at its
\* second, and created_at orders a history as the calls do.  The exceptions are the
\* return of a call that was overlapped, by another writer or by the end of a time to
\* live, and a search of too many examples; all other calls, those of the same user
\* and session included, keep and return the versions, messages and examples that the
\* port does.  (A profile is its version here: of updated_at see StoragePort.)
ImplementsPort ==
  []StoresTypeOK /\ Port!Init /\ [][Port!Next \/ ReturnsLapped \/ SearchesTooMany]_(Port!vars)
=============================================================================
