------------------------------ MODULE Harness ------------------------------
(***************************************************************************)
(* ConversationHarness.handle_async (src/src/conversation/harness.py) and   *)
(* the storage ports it calls (src/src/persistence/): many runs at a time,  *)
(* of several sessions, each a coroutine that may be suspended at every     *)
(* call of an adapter, and whose task board works in a thread.              *)
(*                                                                         *)
(* One action is what happens between two suspensions: pc[r] is the call    *)
(* that run r is about to make.  The in-memory adapters do not suspend, so  *)
(* what they do is a special case.                                         *)
(*                                                                         *)
(* A matter is abstracted to the set of runs whose facts it holds, a        *)
(* history message to its run and role.  A board stops with one of the      *)
(* outcomes of RunContract.                                                *)
(***************************************************************************)
EXTENDS Naturals, Sequences, FiniteSets

CONSTANTS
  Runs,           \* the requests
  Sessions,
  Users,
  SessionOf,      \* the session of a run: a replay has a session of its own
  UserOf,         \* its pseudonymous_user_id
  HistoryLimit,   \* messages that prepare reads back
  MemoryWindow,   \* MemoryService.window_size
  MaxRounds       \* BoardLimits.max_rounds of the boards

ASSUME HarnessAssumption ==
  /\ SessionOf \in [Runs -> Sessions]
  /\ UserOf \in [Runs -> Users]
  /\ HistoryLimit \in Nat \ {0}
  /\ MemoryWindow \in Nat \ {0}
  /\ MaxRounds \in Nat \ {0}

VARIABLES
  pc,          \* the next call of each run, or how it ended
  \* the repository
  matter,      \* blackboards, by session
  history,     \* history messages, by session
  traces,      \* the outcome in the stored trace of a run, or "no trace"
  examples,    \* runs with an example in the trace reuse pool
  \* the process
  memory,      \* MemoryService: messages, by session
  board,       \* the blackboard that each run works on
  fetched,     \* the history that each run was prepared with
  outcome,     \* status and accepted artifact of each board
  saving,      \* runs with a background task that saves their example
  \* history variables
  committed,   \* runs whose blackboard was saved
  overlapped,  \* runs that were not alone in their session
  forgotten    \* runs whose example was deleted on demand of the user

store == <<matter, history, traces, examples>>
process == <<memory, board, fetched, outcome, saving>>
ghosts == <<committed, overlapped, forgotten>>
vars == <<pc, store, process, ghosts>>

Calls == {"get_blackboard", "create_run", "append_question", "list_history", "replace_memory",
          "run_board", "save_blackboard", "save_trace", "append_agent_messages",
          "append_answer", "write_memory"}

\* handle_async returned a result, or it raised.
Ended == {"done", "raised"}

Contract(r) ==
  INSTANCE RunContract WITH status <- outcome[r][1], accepted <- outcome[r][2], round <- 0

Working == <<"running", "none">>

NoTrace == <<"no trace", "none">>

\* Mutant: one message too many.
LastAndOneMore(n, messages) ==
  SubSeq(messages, IF Len(messages) > n + 1 THEN Len(messages) - n ELSE 1, Len(messages))

\* The last n messages, oldest first.
Last(n, messages) ==
  SubSeq(messages, IF Len(messages) > n THEN Len(messages) - n + 1 ELSE 1, Len(messages))

Message(r, role) == [run |-> r, role |-> role]

SessionRuns(s) == {r \in Runs : SessionOf[r] = s}

\* Runs that were started and have not ended.
Active == {r \in Runs : pc[r] \in Calls}

Init ==
  /\ pc = [r \in Runs |-> "waiting"]
  /\ matter = [s \in Sessions |-> {}]
  /\ history = [s \in Sessions |-> <<>>]
  /\ traces = [r \in Runs |-> NoTrace]
  /\ examples = {}
  /\ memory = [s \in Sessions |-> <<>>]
  /\ board = [r \in Runs |-> {}]
  /\ fetched = [r \in Runs |-> <<>>]
  /\ outcome = [r \in Runs |-> Working]
  /\ saving = {}
  /\ committed = {}
  /\ overlapped = {}
  /\ forgotten = {}

\* Run r makes the call it is at, which comes back, and goes on to the next.
Call(r, this, next) == pc[r] = this /\ pc' = [pc EXCEPT ![r] = next]

\* A request arrives.
Begin(r) ==
  /\ Call(r, "waiting", "get_blackboard")
  /\ LET others == Active \cap SessionRuns(SessionOf[r])
     IN  overlapped' = overlapped \cup (IF others = {} THEN {} ELSE others \cup {r})
  /\ UNCHANGED <<store, process, committed, forgotten>>

-----------------------------------------------------------------------------
\* prepare

\* Mutant: every request starts with a new matter.
NewMatter(s) == {}

\* A copy of the stored blackboard, or a new one.
StoredMatter(s) == matter[s]

GetBlackboard(r) ==
  /\ Call(r, "get_blackboard", "create_run")
  /\ board' = [board EXCEPT ![r] = StoredMatter(SessionOf[r])]
  /\ UNCHANGED <<store, memory, fetched, outcome, saving, ghosts>>

CreateRun(r) ==
  /\ Call(r, "create_run", "append_question")
  /\ UNCHANGED <<store, process, ghosts>>

AppendQuestion(r) ==
  /\ Call(r, "append_question", "list_history")
  /\ history' = [history EXCEPT ![SessionOf[r]] = Append(@, Message(r, "user"))]
  /\ UNCHANGED <<matter, traces, examples, process, ghosts>>

ListHistory(r) ==
  /\ Call(r, "list_history", "replace_memory")
  /\ fetched' = [fetched EXCEPT ![r] = Last(HistoryLimit, history[SessionOf[r]])]
  /\ UNCHANGED <<store, memory, board, outcome, saving, ghosts>>

\* Mutant: what the process remembers is not replaced by the stored history.
Remembered(r) ==
  IF memory[SessionOf[r]] = <<>> THEN fetched[r] ELSE memory[SessionOf[r]]

Prepared(r) == Last(MemoryWindow, fetched[r])

\* The coroutine goes on with the messages that list_history read before.
ReplaceMemory(r) ==
  /\ Call(r, "replace_memory", "run_board")
  /\ memory' = [memory EXCEPT ![SessionOf[r]] = Prepared(r)]
  /\ UNCHANGED <<store, board, fetched, outcome, saving, ghosts>>

-----------------------------------------------------------------------------
\* The task board, in a thread of its own.

\* Mutant: the repository hands out the blackboard that it keeps.
SharedBoard(r) == [matter EXCEPT ![SessionOf[r]] = @ \cup {r}]

\* Every board is a deep copy.
CopiedBoard(r) == matter

RunBoard(r) ==
  /\ Call(r, "run_board", "save_blackboard")
  /\ board' = [board EXCEPT ![r] = @ \cup {r}]
  /\ matter' = CopiedBoard(r)
  /\ \E o \in Contract(r)!Outcomes : outcome' = [outcome EXCEPT ![r] = o]
  /\ UNCHANGED <<history, traces, examples, memory, fetched, saving, ghosts>>

-----------------------------------------------------------------------------
\* finalize

SaveBlackboard(r) ==
  /\ Call(r, "save_blackboard", "save_trace")
  /\ matter' = [matter EXCEPT ![SessionOf[r]] = board[r]]
  /\ committed' = committed \cup {r}
  /\ UNCHANGED <<history, traces, examples, process, overlapped, forgotten>>

SaveTrace(r) ==
  /\ Call(r, "save_trace", "append_agent_messages")
  /\ traces' = [traces EXCEPT ![r] = outcome[r]]
  /\ UNCHANGED <<matter, history, examples, process, ghosts>>

Accepted(r) == outcome[r][2] # "none"

\* All agent messages of the run, one call after the other.
AppendAgentMessages(r) ==
  /\ Call(r, "append_agent_messages", IF Accepted(r) THEN "append_answer" ELSE "done")
  /\ UNCHANGED <<store, process, ghosts>>

AppendAnswer(r) ==
  /\ Call(r, "append_answer", "write_memory")
  /\ history' = [history EXCEPT ![SessionOf[r]] = Append(@, Message(r, "assistant"))]
  /\ UNCHANGED <<matter, traces, examples, process, ghosts>>

\* Mutant: the safe error is taken for an answer.
ReusableIfAccepted(r) == Accepted(r)

\* DELIVERY_ACCEPTED was recorded: the gate approved the answer.
Reusable(r) == outcome[r] = <<"completed", "final">>

\* The answer is remembered and returned; its example is saved in the background.
WriteMemory(r) ==
  /\ Call(r, "write_memory", "done")
  /\ memory' = [memory EXCEPT ![SessionOf[r]] =
                  Last(MemoryWindow, Append(@, Message(r, "assistant")))]
  /\ saving' = saving \cup (IF Reusable(r) THEN {r} ELSE {})
  /\ UNCHANGED <<store, board, fetched, outcome, ghosts>>

-----------------------------------------------------------------------------
\* Failures, the end of a run from outside, and the work in the background.

StorageCalls == Calls \ {"replace_memory", "run_board", "write_memory"}

\* Mutant: a trace that could not be saved does not stop the delivery.
FailCallButDeliver(r) ==
  /\ pc[r] \in StorageCalls
  /\ pc' = [pc EXCEPT ![r] = IF @ = "save_trace" THEN "append_agent_messages" ELSE "raised"]
  /\ UNCHANGED <<store, process, ghosts>>

\* An adapter raises, and with it handle_async; without its trace the board
\* accepts nothing.
FailCall(r) ==
  /\ pc[r] \in StorageCalls
  /\ pc' = [pc EXCEPT ![r] = "raised"]
  /\ outcome' = IF pc[r] = "save_trace" THEN [outcome EXCEPT ![r] = <<"failed", "none">>]
                                        ELSE outcome
  /\ UNCHANGED <<store, memory, board, fetched, saving, ghosts>>

\* The task of handle_async is cancelled while it waits.  The thread of the board
\* is not, but nobody waits for it any more.
Cancel(r) ==
  /\ pc[r] \in Calls
  /\ pc' = [pc EXCEPT ![r] = "raised"]
  /\ UNCHANGED <<store, process, ghosts>>

\* The background task that finalize created (258-262) saves the example, or its
\* failure is ignored (_background_task_done).
SaveExample(r) ==
  /\ r \in saving
  /\ saving' = saving \ {r}
  /\ \/ examples' = examples \cup {r}
     \/ UNCHANGED examples
  /\ UNCHANGED <<pc, matter, history, traces, memory, board, fetched, outcome, ghosts>>

\* delete_trace_reuse_for_user
DeleteExamples(u) ==
  /\ LET mine == {r \in Runs : UserOf[r] = u}
     IN  /\ examples' = examples \ mine
         /\ forgotten' = forgotten \cup (mine \cap examples)
  /\ UNCHANGED <<pc, matter, history, traces, process, committed, overlapped>>

\* What handle_async does for one run.
Step(r) ==
  \/ GetBlackboard(r)
  \/ CreateRun(r)
  \/ AppendQuestion(r)
  \/ ListHistory(r)
  \/ ReplaceMemory(r)
  \/ RunBoard(r)
  \/ SaveBlackboard(r)
  \/ SaveTrace(r)
  \/ AppendAgentMessages(r)
  \/ AppendAnswer(r)
  \/ WriteMemory(r)
  \/ FailCall(r)

Next ==
  \/ \E r \in Runs : Begin(r) \/ Step(r) \/ Cancel(r) \/ SaveExample(r)
  \/ \E u \in Users : DeleteExamples(u)

\* Users need not send requests or delete anything, and an adapter may never come
\* back: no fairness is assumed.
Spec == Init /\ [][Next]_vars

-----------------------------------------------------------------------------
\* Properties.

Messages == [run : Runs, role : {"user", "assistant"}]

\* The types of the stores, of the process and of the history variables.
TypeOK ==
  /\ pc \in [Runs -> Calls \cup Ended \cup {"waiting"}]
  /\ matter \in [Sessions -> SUBSET Runs]
  /\ history \in [Sessions -> Seq(Messages)]
  /\ traces \in [Runs -> ({Working, NoTrace, <<"failed", "none">>}
                            \cup UNION {Contract(r)!Outcomes : r \in Runs})]
  /\ examples \subseteq Runs
  /\ memory \in [Sessions -> Seq(Messages)]
  /\ \A s \in Sessions : Len(memory[s]) <= MemoryWindow
  /\ board \in [Runs -> SUBSET Runs]
  /\ fetched \in [Runs -> Seq(Messages)]
  /\ outcome \in [Runs -> ({Working, <<"failed", "none">>}
                             \cup UNION {Contract(r)!Outcomes : r \in Runs})]
  /\ saving \subseteq Runs
  /\ committed \subseteq Runs
  /\ overlapped \subseteq Runs
  /\ forgotten \subseteq Runs

Contains(messages, m) == \E i \in DOMAIN messages : messages[i] = m

Published(r) ==
  \E s \in Sessions : \/ Contains(history[s], Message(r, "assistant"))
                      \/ Contains(memory[s], Message(r, "assistant"))

\* An answer is published, in the history, in the memory or to the caller, only
\* when the audit trace that accepts it is stored, whatever fails and whenever the
\* run is cancelled.
PublishedAfterTrace ==
  \A r \in Runs :
    Published(r) \/ (pc[r] = "done" /\ Accepted(r)) => traces[r] = outcome[r] /\ Accepted(r)

\* Only answers that the gate approved and the user was given are reused, and an
\* example that was deleted stays deleted.  The deletion misses only one whose
\* save in the background has not come yet.
ExamplesAreApproved ==
  /\ \A r \in examples \cup saving \cup forgotten :
       pc[r] = "done" /\ traces[r] = <<"completed", "final">>
  /\ examples \cap saving = {}
  /\ forgotten \cap (examples \cup saving) = {}

\* A matter, stored or worked on, holds facts of its own session only, and of
\* another run only when that one came to save its blackboard: whatever fails or is
\* cancelled before leaves nothing behind, and concurrent runs do not see each
\* other's work.
FactsAreApart ==
  /\ \A s \in Sessions : matter[s] \subseteq committed \cap SessionRuns(s)
  /\ \A r \in Runs : board[r] \subseteq (committed \cap SessionRuns(SessionOf[r])) \cup {r}

\* finalize saves the blackboard before the trace: no trace is of a run whose facts
\* were not saved.  The facts of a run may be without a trace, for good when it fails
\* or is cancelled at the second of the two calls; one that goes on has both.
FactsAreTraced ==
  \A r \in Runs :
    /\ traces[r] # NoTrace => r \in committed
    /\ r \in committed /\ traces[r] = NoTrace => pc[r] \in {"save_trace", "raised"}

\* What is in a matter stems from runs of its session that saved it, and only those
\* that did not come further are missing from the audit.
MattersAreApart == FactsAreApart /\ FactsAreTraced

\* What a run saved while it was alone in its session is never lost, whatever
\* the later runs do.
TurnsAreKept ==
  \A r \in committed : r \in matter[SessionOf[r]] \/ r \in overlapped

\* A board that is alone in its session works with the last messages of the
\* stored history, its own question last, whatever the runs before it came to.
MemoryIsFresh ==
  \A r \in Runs :
    LET s == SessionOf[r]
    IN  pc[r] = "run_board" /\ r \notin overlapped =>
          /\ memory[s] = Last(MemoryWindow, Last(HistoryLimit, history[s]))
          /\ memory[s][Len(memory[s])] = Message(r, "user")
=============================================================================
