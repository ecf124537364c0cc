--------------------------- MODULE HarnessProofs ---------------------------
(***************************************************************************)
(* Safety of the harness, for every set of concurrent requests, every       *)
(* assignment of sessions and every interleaving of their calls, failures   *)
(* and cancellations.                                                      *)
(***************************************************************************)
EXTENDS Harness, TLAPS, SequenceTheorems

\* The calls between the load of the blackboard and its save.
Loaded == {"create_run", "append_question", "list_history", "replace_memory", "run_board",
           "save_blackboard"}

\* The places of a run that has saved its blackboard and goes on.
AfterMatter == {"save_trace", "append_agent_messages", "append_answer", "write_memory", "done"}

\* The part of TypeOK that the matters depend on.
MatterTypes ==
  /\ pc \in [Runs -> Calls \cup Ended \cup {"waiting"}]
  /\ matter \in [Sessions -> SUBSET Runs]
  /\ board \in [Runs -> SUBSET Runs]
  /\ committed \subseteq Runs
  /\ overlapped \subseteq Runs

\* Two runs that are active in one session are overlapped.
OverlapsNoticed ==
  \A q, r \in Active : q # r /\ SessionOf[q] = SessionOf[r] => {q, r} \subseteq overlapped

\* A board has the run's own facts before it is saved, and those of every run that
\* was saved in its session and overlapped with none.
BoardsBuildOnTurns ==
  /\ \A r \in Runs : pc[r] = "save_blackboard" => r \in board[r]
  /\ \A r \in Runs : pc[r] \in Loaded =>
       \A q \in committed \ overlapped :
         q # r /\ SessionOf[q] = SessionOf[r] => q \in board[r]

MatterInv ==
  /\ MatterTypes
  /\ OverlapsNoticed
  /\ BoardsBuildOnTurns
  /\ FactsAreApart
  /\ TurnsAreKept

\* Nothing is saved and nothing is active at first.
LEMMA InitMatterInv == Init => MatterInv
<1>. SUFFICES ASSUME Init PROVE MatterInv
  OBVIOUS
<1>. USE HarnessAssumption DEF Init
<1>1. MatterTypes
  BY DEF MatterTypes
<1>2. Active = {}
  BY DEF Active, Calls
<1>3. OverlapsNoticed
  BY <1>2 DEF OverlapsNoticed
<1>4. BoardsBuildOnTurns
  BY DEF BoardsBuildOnTurns, Loaded
<1>5. FactsAreApart /\ TurnsAreKept
  BY DEF FactsAreApart, TurnsAreKept
<1>. QED  BY <1>1, <1>3, <1>4, <1>5 DEF MatterInv

\* A step that leaves the matters alone and moves one run on, from one active call
\* to another or to its end, preserves the invariant unless it starts the run,
\* loads a blackboard or is about to save one.
LEMMA OtherStepMatterInv ==
  ASSUME MatterInv, NEW r \in Runs, NEW next \in Calls \cup Ended,
         pc[r] \in Calls, pc' = [pc EXCEPT ![r] = next],
         next \in Loaded => pc[r] \in Loaded,
         next # "save_blackboard",
         UNCHANGED <<matter, board, committed, overlapped>>
  PROVE  MatterInv'
<1>. USE HarnessAssumption DEF MatterInv
<1>1. MatterTypes'
  BY DEF MatterTypes
<1>2. Active' \subseteq Active
  BY DEF Active, MatterTypes
<1>3. OverlapsNoticed'
  BY <1>2 DEF OverlapsNoticed
<1>4. BoardsBuildOnTurns'
  BY DEF BoardsBuildOnTurns, MatterTypes
<1>5. FactsAreApart' /\ TurnsAreKept'
  BY DEF FactsAreApart, TurnsAreKept, SessionRuns
<1>. QED  BY <1>1, <1>3, <1>4, <1>5

\* A request that begins overlaps with those that are active in its session.
LEMMA BeginMatterInv == ASSUME MatterInv, NEW r \in Runs, Begin(r) PROVE MatterInv'
<1>. USE HarnessAssumption DEF MatterInv, Begin, Call, store, process
<1>. DEFINE others == Active \cap SessionRuns(SessionOf[r])
<1>0. overlapped' = overlapped \cup (IF others = {} THEN {} ELSE others \cup {r})
  OBVIOUS
<1>1. overlapped \subseteq overlapped' /\ UNCHANGED <<matter, board, committed>>
  OBVIOUS
<1>2. MatterTypes'
  BY DEF MatterTypes, Calls, Active
<1>3. Active' \subseteq Active \cup {r} /\ r \notin Active
  BY DEF Active, MatterTypes, Calls
<1>4. OverlapsNoticed'
  <2>. SUFFICES ASSUME NEW p \in Active', NEW q \in Active', p # q, SessionOf[p] = SessionOf[q]
                PROVE  p \in overlapped' /\ q \in overlapped'
    BY DEF OverlapsNoticed
  <2>1. CASE p # r /\ q # r
    BY <2>1, <1>1, <1>3 DEF OverlapsNoticed
  <2>2. CASE p = r
    <3>1. q \in others
      BY <2>2, <1>3 DEF SessionRuns, Active
    <3>. QED  BY <3>1, <2>2, <1>0
  <2>3. CASE q = r
    <3>1. p \in others
      BY <2>3, <1>3 DEF SessionRuns, Active
    <3>. QED  BY <3>1, <2>3, <1>0
  <2>. QED  BY <2>1, <2>2, <2>3
<1>5. BoardsBuildOnTurns'
  <2>1. \A p \in Runs : pc'[p] \in Loaded \/ pc'[p] = "save_blackboard" => pc'[p] = pc[p]
    BY DEF Loaded, MatterTypes
  <2>. QED  BY <2>1, <1>1 DEF BoardsBuildOnTurns
<1>6. FactsAreApart' /\ TurnsAreKept'
  BY <1>1 DEF FactsAreApart, TurnsAreKept, SessionRuns
<1>. QED  BY <1>2, <1>4, <1>5, <1>6

\* The loaded blackboard has every turn that TurnsAreKept speaks of.
LEMMA GetBlackboardMatterInv ==
  ASSUME MatterInv, NEW r \in Runs, GetBlackboard(r) PROVE MatterInv'
<1>. USE HarnessAssumption DEF MatterInv, GetBlackboard, Call, store, ghosts, StoredMatter
<1>1. UNCHANGED <<matter, committed, overlapped>> /\ board' = [board EXCEPT ![r] = matter[SessionOf[r]]]
  OBVIOUS
<1>2. MatterTypes'
  BY DEF MatterTypes, Calls
<1>3. Active' \subseteq Active
  BY DEF Active, MatterTypes, Calls
<1>4. OverlapsNoticed'
  BY <1>1, <1>3 DEF OverlapsNoticed
<1>5. BoardsBuildOnTurns'
  <2>1. \A p \in Runs \ {r} : pc'[p] = pc[p] /\ board'[p] = board[p]
    BY <1>1 DEF MatterTypes
  <2>2. pc'[r] = "create_run" /\ board'[r] = matter[SessionOf[r]]
    BY <1>1 DEF MatterTypes
  <2>3. ASSUME NEW q \in committed \ overlapped, SessionOf[q] = SessionOf[r]
        PROVE  q \in board'[r]
    BY <2>2, <2>3 DEF TurnsAreKept, MatterTypes
  <2>. QED  BY <1>1, <2>1, <2>2, <2>3 DEF BoardsBuildOnTurns
<1>6. FactsAreApart'
  <2>1. \A p \in Runs : board'[p] = IF p = r THEN matter[SessionOf[r]] ELSE board[p]
    BY <1>1 DEF MatterTypes
  <2>. QED  BY <1>1, <2>1 DEF FactsAreApart, SessionRuns
<1>7. TurnsAreKept'
  BY <1>1 DEF TurnsAreKept
<1>. QED  BY <1>2, <1>4, <1>5, <1>6, <1>7

\* The board adds the facts of its own run.
LEMMA RunBoardMatterInv == ASSUME MatterInv, NEW r \in Runs, RunBoard(r) PROVE MatterInv'
<1>. USE HarnessAssumption DEF MatterInv, RunBoard, Call, ghosts, CopiedBoard
<1>1. UNCHANGED <<matter, committed, overlapped>> /\ board' = [board EXCEPT ![r] = @ \cup {r}]
  OBVIOUS
<1>2. MatterTypes'
  BY DEF MatterTypes, Calls
<1>3. Active' \subseteq Active
  BY DEF Active, MatterTypes, Calls
<1>4. OverlapsNoticed'
  BY <1>1, <1>3 DEF OverlapsNoticed
<1>5. \A p \in Runs : board'[p] = IF p = r THEN board[r] \cup {r} ELSE board[p]
  BY <1>1 DEF MatterTypes
<1>6. \A p \in Runs \ {r} : pc'[p] = pc[p]
  BY DEF MatterTypes
<1>7. BoardsBuildOnTurns'
  BY <1>1, <1>5, <1>6 DEF BoardsBuildOnTurns, Loaded
<1>8. FactsAreApart' /\ TurnsAreKept'
  BY <1>1, <1>5 DEF FactsAreApart, TurnsAreKept, SessionRuns
<1>. QED  BY <1>2, <1>4, <1>7, <1>8

\* The saved blackboard keeps the turns that overlapped with none; the others that
\* are active in the session are overlapped.
LEMMA SaveBlackboardMatterInv ==
  ASSUME MatterInv, NEW r \in Runs, SaveBlackboard(r) PROVE MatterInv'
<1>. USE HarnessAssumption DEF MatterInv, SaveBlackboard, Call, process
<1>. DEFINE s == SessionOf[r]
<1>1. /\ UNCHANGED <<board, overlapped>>
      /\ committed' = committed \cup {r}
      /\ matter' = [matter EXCEPT ![s] = board[r]]
  OBVIOUS
<1>2. MatterTypes'
  BY DEF MatterTypes, Calls
<1>3. Active' \subseteq Active /\ r \in Active
  BY DEF Active, MatterTypes, Calls
<1>4. OverlapsNoticed'
  BY <1>1, <1>3 DEF OverlapsNoticed
<1>5. \A p \in Runs \ {r} : pc'[p] = pc[p]
  BY DEF MatterTypes
<1>6. BoardsBuildOnTurns'
  <2>1. pc'[r] = "save_trace"
    BY DEF MatterTypes
  <2>2. ASSUME NEW p \in Runs, pc'[p] \in Loaded, NEW q \in committed' \ overlapped',
               q # p, SessionOf[q] = SessionOf[p]
        PROVE  q \in board'[p]
    <3>1. p # r /\ pc[p] \in Loaded
      BY <2>1, <2>2, <1>5 DEF Loaded
    <3>2. CASE q = r
      <4>1. p \in Active
        BY <3>1 DEF Active, Loaded, Calls
      <4>. QED  BY <4>1, <3>1, <3>2, <2>2, <1>1, <1>3 DEF OverlapsNoticed
    <3>3. CASE q # r
      BY <3>1, <3>3, <2>2, <1>1 DEF BoardsBuildOnTurns
    <3>. QED  BY <3>2, <3>3
  <2>. QED  BY <2>1, <2>2, <1>1, <1>5 DEF BoardsBuildOnTurns
<1>7. \A t \in Sessions : matter'[t] = IF t = s THEN board[r] ELSE matter[t]
  BY <1>1 DEF MatterTypes
<1>8. FactsAreApart'
  BY <1>1, <1>7 DEF FactsAreApart, SessionRuns
<1>9. TurnsAreKept'
  <2>. SUFFICES ASSUME NEW q \in committed', q \notin overlapped'
                PROVE  q \in matter'[SessionOf[q]]
    BY DEF TurnsAreKept
  <2>0. q \in Runs /\ SessionOf[q] \in Sessions
    BY <1>2 DEF MatterTypes
  <2>1. CASE q = r
    BY <2>0, <2>1, <1>7 DEF BoardsBuildOnTurns
  <2>2. CASE q # r /\ SessionOf[q] = s
    BY <2>0, <2>2, <1>1, <1>7 DEF BoardsBuildOnTurns, Loaded
  <2>3. CASE SessionOf[q] # s
    BY <2>0, <2>3, <1>1, <1>7 DEF TurnsAreKept
  <2>. QED  BY <2>1, <2>2, <2>3
<1>. QED  BY <1>2, <1>4, <1>6, <1>8, <1>9

\* Steps that move no run.
LEMMA IdleMatterInv ==
  ASSUME MatterInv, UNCHANGED <<pc, matter, board, committed, overlapped>> PROVE MatterInv'
BY DEF MatterInv, MatterTypes, OverlapsNoticed, Active, BoardsBuildOnTurns, FactsAreApart,
       TurnsAreKept, SessionRuns

LEMMA NextMatterInv == MatterInv /\ [Next]_vars => MatterInv'
<1>. SUFFICES ASSUME MatterInv, [Next]_vars PROVE MatterInv'
  OBVIOUS
<1>1. ASSUME NEW r \in Runs, Step(r) \/ Cancel(r) PROVE MatterInv'
  <2>. USE DEF Call, store, process, ghosts, Calls, Ended, Loaded
  <2>1. CASE GetBlackboard(r)
    BY <2>1, GetBlackboardMatterInv
  <2>2. CASE RunBoard(r)
    BY <2>2, RunBoardMatterInv
  <2>3. CASE SaveBlackboard(r)
    BY <2>3, SaveBlackboardMatterInv
  <2>4. CASE CreateRun(r)
    BY <2>4, OtherStepMatterInv DEF CreateRun
  <2>5. CASE AppendQuestion(r)
    BY <2>5, OtherStepMatterInv DEF AppendQuestion
  <2>6. CASE ListHistory(r)
    BY <2>6, OtherStepMatterInv DEF ListHistory
  <2>7. CASE ReplaceMemory(r)
    BY <2>7, OtherStepMatterInv DEF ReplaceMemory
  <2>8. CASE SaveTrace(r)
    BY <2>8, OtherStepMatterInv DEF SaveTrace
  <2>9. CASE AppendAgentMessages(r)
    BY <2>9, OtherStepMatterInv DEF AppendAgentMessages
  <2>10. CASE AppendAnswer(r)
    BY <2>10, OtherStepMatterInv DEF AppendAnswer
  <2>11. CASE WriteMemory(r)
    BY <2>11, OtherStepMatterInv DEF WriteMemory
  <2>12. CASE FailCall(r)
    BY <2>12, OtherStepMatterInv DEF FailCall, StorageCalls
  <2>13. CASE Cancel(r)
    BY <2>13, OtherStepMatterInv DEF Cancel
  <2>. QED
    BY <1>1, <2>1, <2>2, <2>3, <2>4, <2>5, <2>6, <2>7, <2>8, <2>9, <2>10, <2>11, <2>12, <2>13
       DEF Step
<1>2. ASSUME NEW r \in Runs, Begin(r) PROVE MatterInv'
  BY <1>2, BeginMatterInv
<1>3. ASSUME NEW r \in Runs, SaveExample(r) PROVE MatterInv'
  BY <1>3, IdleMatterInv DEF SaveExample, ghosts
<1>4. ASSUME NEW u \in Users, DeleteExamples(u) PROVE MatterInv'
  BY <1>4, IdleMatterInv DEF DeleteExamples, process
<1>5. CASE UNCHANGED vars
  BY <1>5, IdleMatterInv DEF vars, store, process, ghosts
<1>. QED  BY <1>1, <1>2, <1>3, <1>4, <1>5 DEF Next

THEOREM MatterInvariant == Spec => []MatterInv
BY InitMatterInv, NextMatterInv, PTL DEF Spec

\* What a run saved while it was alone in its session is never lost.
THEOREM TurnsStayKept == Spec => []TurnsAreKept
BY MatterInvariant, PTL DEF MatterInv

-----------------------------------------------------------------------------

\* Last takes at most n messages, all of them from the given ones.
LEMMA LastElements ==
  ASSUME NEW S, NEW m \in Seq(S), NEW n \in Nat
  PROVE  /\ Last(n, m) \in Seq(S)
         /\ Len(Last(n, m)) <= n
         /\ \A i \in DOMAIN Last(n, m) : \E j \in DOMAIN m : Last(n, m)[i] = m[j]
<1>. DEFINE first == IF Len(m) > n THEN Len(m) - n + 1 ELSE 1
<1>0. Len(m) \in Nat
  OBVIOUS
<1>1. first \in 1..(Len(m) + 1) /\ Len(m) - first + 1 <= n
  BY <1>0
<1>2. Last(n, m) = SubSeq(m, first, Len(m))
  BY DEF Last
<1>. HIDE DEF first
<1>3. /\ SubSeq(m, first, Len(m)) \in Seq(S)
      /\ Len(SubSeq(m, first, Len(m))) = IF first <= Len(m) THEN Len(m) - first + 1 ELSE 0
      /\ \A i \in 1..(Len(m) - first + 1) : SubSeq(m, first, Len(m))[i] = m[first + i - 1]
  BY <1>0, <1>1, SubSeqProperties
<1>4. ASSUME NEW i \in DOMAIN Last(n, m)
      PROVE  \E j \in DOMAIN m : Last(n, m)[i] = m[j]
  <2>1. i \in 1..(Len(m) - first + 1) /\ first + i - 1 \in DOMAIN m
    BY <1>0, <1>1, <1>2, <1>3, <1>4
  <2>. QED  BY <2>1, <1>2, <1>3
<1>. QED  BY <1>0, <1>1, <1>2, <1>3, <1>4

\* The stores, the process and the history variables keep their types.
LEMMA InitTypeOK == Init => TypeOK
<1>. SUFFICES ASSUME Init PROVE TypeOK
  OBVIOUS
<1>1. \A s \in Sessions : Len(memory[s]) <= MemoryWindow
  BY HarnessAssumption DEF Init
<1>. QED  BY <1>1, HarnessAssumption DEF Init, TypeOK

LEMMA NextTypeOK == TypeOK /\ [Next]_vars => TypeOK'
<1>. SUFFICES ASSUME TypeOK, [Next]_vars PROVE TypeOK'
  OBVIOUS
<1>. USE HarnessAssumption
<1>0. ASSUME NEW r \in Runs PROVE Message(r, "user") \in Messages /\ Message(r, "assistant") \in Messages
  BY DEF Message, Messages
<1>1. ASSUME NEW r \in Runs, Begin(r) \/ Step(r) \/ Cancel(r) \/ SaveExample(r) PROVE TypeOK'
  <2>. DEFINE s == SessionOf[r]
  <2>0. s \in Sessions
    OBVIOUS
  <2>. USE DEF TypeOK, Call, store, process, ghosts, Calls, Ended
  <2>1. CASE Begin(r)
    BY <2>1 DEF Begin, Active
  <2>2. CASE GetBlackboard(r)
    BY <2>2, <2>0 DEF GetBlackboard, StoredMatter
  <2>3. CASE CreateRun(r)
    BY <2>3 DEF CreateRun
  <2>4. CASE AppendQuestion(r)
    <3>1. Append(history[s], Message(r, "user")) \in Seq(Messages)
      BY <1>0, <2>0
    <3>. QED  BY <3>1, <2>4, <2>0 DEF AppendQuestion
  <2>5. CASE ListHistory(r)
    <3>1. Last(HistoryLimit, history[s]) \in Seq(Messages)
      BY <2>0, LastElements
    <3>. QED  BY <3>1, <2>5 DEF ListHistory
  <2>6. CASE ReplaceMemory(r)
    <3>1. Prepared(r) \in Seq(Messages) /\ Len(Prepared(r)) <= MemoryWindow
      BY LastElements DEF Prepared
    <3>. QED  BY <3>1, <2>6, <2>0 DEF ReplaceMemory
  <2>7. CASE RunBoard(r)
    <3>1. PICK o \in Contract(r)!Outcomes : outcome' = [outcome EXCEPT ![r] = o]
      BY <2>7 DEF RunBoard
    <3>. QED  BY <3>1, <2>7 DEF RunBoard, CopiedBoard
  <2>8. CASE SaveBlackboard(r)
    BY <2>8, <2>0 DEF SaveBlackboard
  <2>9. CASE SaveTrace(r)
    BY <2>9 DEF SaveTrace
  <2>10. CASE AppendAgentMessages(r)
    BY <2>10 DEF AppendAgentMessages
  <2>11. CASE AppendAnswer(r)
    <3>1. Append(history[s], Message(r, "assistant")) \in Seq(Messages)
      BY <1>0, <2>0
    <3>. QED  BY <3>1, <2>11, <2>0 DEF AppendAnswer
  <2>12. CASE WriteMemory(r)
    <3>1. Append(memory[s], Message(r, "assistant")) \in Seq(Messages)
      BY <1>0, <2>0
    <3>2. /\ Last(MemoryWindow, Append(memory[s], Message(r, "assistant"))) \in Seq(Messages)
          /\ Len(Last(MemoryWindow, Append(memory[s], Message(r, "assistant")))) <= MemoryWindow
      BY <3>1, LastElements
    <3>. QED  BY <3>2, <2>12, <2>0 DEF WriteMemory
  <2>13. CASE FailCall(r)
    BY <2>13 DEF FailCall
  <2>14. CASE Cancel(r)
    BY <2>14 DEF Cancel
  <2>15. CASE SaveExample(r)
    BY <2>15 DEF SaveExample
  <2>. QED
    BY <1>1, <2>1, <2>2, <2>3, <2>4, <2>5, <2>6, <2>7, <2>8, <2>9, <2>10, <2>11, <2>12, <2>13,
       <2>14, <2>15 DEF Step
<1>2. ASSUME NEW u \in Users, DeleteExamples(u) PROVE TypeOK'
  BY <1>2 DEF DeleteExamples, TypeOK, process
<1>3. CASE UNCHANGED vars
  BY <1>3 DEF vars, store, process, ghosts, TypeOK
<1>. QED  BY <1>1, <1>2, <1>3 DEF Next

\* Every store and every message has its type, and the memory its bound, in all
\* interleavings.
THEOREM TypeCorrect == Spec => []TypeOK
BY InitTypeOK, NextTypeOK, PTL DEF Spec

-----------------------------------------------------------------------------

\* A run that has come to the save of its trace has saved its blackboard, and one that
\* has come further, its trace.
SavedInOrder ==
  \A r \in Runs :
    /\ pc[r] \in AfterMatter => r \in committed
    /\ pc[r] \in AfterMatter \ {"save_trace"} => traces[r] # NoTrace

TraceInv == TypeOK /\ SavedInOrder /\ FactsAreTraced

\* No outcome is taken for the lack of a trace.
LEMMA OutcomesAreTraces == ASSUME TypeOK, NEW r \in Runs PROVE outcome[r] # NoTrace
<1>1. outcome[r] \in {Working, <<"failed", "none">>} \cup UNION {Contract(q)!Outcomes : q \in Runs}
  BY DEF TypeOK
<1>2. ASSUME NEW o, o = NoTrace PROVE o \notin {Working, <<"failed", "none">>}
  BY <1>2 DEF Working, NoTrace
<1>3. ASSUME NEW q \in Runs, NEW o, o = NoTrace PROVE o \notin Contract(q)!Outcomes
  <2>1. Contract(q)!Outcomes
          = {<<"completed", "final">>, <<"failed", "safe_error">>, <<"limited", "none">>}
    BY DEF Contract!Outcomes
  <2>2. o \notin {<<"completed", "final">>, <<"failed", "safe_error">>, <<"limited", "none">>}
    BY <1>3 DEF NoTrace
  <2>. QED  BY <2>1, <2>2
<1>. QED  BY <1>1, <1>2, <1>3

LEMMA NextTraceInv == TraceInv /\ [Next]_vars => TraceInv'
<1>. SUFFICES ASSUME TraceInv, [Next]_vars PROVE TraceInv'
  OBVIOUS
<1>0. TypeOK'
  BY NextTypeOK DEF TraceInv
<1>. USE DEF TraceInv, SavedInOrder, FactsAreTraced, AfterMatter, TypeOK
<1>1. ASSUME NEW r \in Runs, NEW q \in Runs, Begin(r) \/ Step(r) \/ Cancel(r)
      PROVE  /\ pc'[q] \in AfterMatter => q \in committed'
             /\ pc'[q] \in AfterMatter \ {"save_trace"} => traces'[q] # NoTrace
             /\ traces'[q] # NoTrace => q \in committed'
             /\ q \in committed' /\ traces'[q] = NoTrace => pc'[q] \in {"save_trace", "raised"}
  <2>. USE DEF Call, store, process, ghosts, Calls, StorageCalls
  <2>1. CASE q # r
    BY <1>1, <2>1 DEF Begin, Step, Cancel, GetBlackboard, CreateRun, AppendQuestion, ListHistory,
              ReplaceMemory, RunBoard, SaveBlackboard, SaveTrace, AppendAgentMessages,
              AppendAnswer, WriteMemory, FailCall
  <2>2. CASE q = r
    BY <1>1, <2>2, OutcomesAreTraces
       DEF Begin, Step, Cancel, GetBlackboard, CreateRun, AppendQuestion, ListHistory,
              ReplaceMemory, RunBoard, SaveBlackboard, SaveTrace, AppendAgentMessages,
              AppendAnswer, WriteMemory, FailCall
  <2>. QED  BY <2>1, <2>2
<1>2. CASE UNCHANGED <<pc, traces, committed>>
  BY <1>0, <1>2
<1>3. CASE \E r \in Runs : Begin(r) \/ Step(r) \/ Cancel(r)
  BY <1>0, <1>1, <1>3
<1>. QED  BY <1>2, <1>3 DEF Next, SaveExample, DeleteExamples, vars, store, process, ghosts

\* Matters hold facts of saved runs of their own session only (harness.py: prepare
\* copies the blackboard, finalize saves it), no trace comes before the facts, and facts
\* without a trace are those of a run that ended at the save of its trace, or is there.
THEOREM MattersStayApart == Spec => []MattersAreApart
<1>1. Init => TraceInv
  BY InitTypeOK DEF Init, TraceInv, SavedInOrder, FactsAreTraced, AfterMatter, NoTrace
<1>2. MatterInv /\ TraceInv => MattersAreApart
  BY DEF MatterInv, TraceInv, MattersAreApart
<1>. QED  BY <1>1, <1>2, MatterInvariant, NextTraceInv, PTL DEF Spec

-----------------------------------------------------------------------------

\* The stored trace of r accepts the answer, and r has gone past its publication.
Delivered(r) ==
  traces[r] = outcome[r] /\ Accepted(r) /\ pc[r] \in {"write_memory", "done", "raised"}

\* All answers among the messages are of delivered runs.
AllDelivered(messages) ==
  \A i \in DOMAIN messages : messages[i].role = "assistant" => Delivered(messages[i].run)

\* Once the trace is saved it is the outcome of the run, which nothing changes.
TracedOK ==
  \A r \in Runs :
    /\ pc[r] \in {"append_agent_messages", "append_answer", "write_memory", "done"} =>
         traces[r] = outcome[r]
    /\ pc[r] \in {"append_answer", "write_memory"} => Accepted(r)

DeliveryInv ==
  /\ TypeOK
  /\ TracedOK
  /\ \A s \in Sessions : AllDelivered(history[s]) /\ AllDelivered(memory[s])
  /\ \A r \in Runs : AllDelivered(fetched[r])
  /\ ExamplesAreApproved

LEMMA InitDeliveryInv == Init => DeliveryInv
BY InitTypeOK DEF Init, DeliveryInv, TracedOK, AllDelivered, ExamplesAreApproved

\* The answers that are out are of delivered runs.
LEMMA DeliveryImplied == DeliveryInv => PublishedAfterTrace
<1>. SUFFICES ASSUME DeliveryInv, NEW r \in Runs
              PROVE  Published(r) \/ (pc[r] = "done" /\ Accepted(r)) =>
                       traces[r] = outcome[r] /\ Accepted(r)
  BY DEF PublishedAfterTrace
<1>1. ASSUME NEW m, AllDelivered(m), Contains(m, Message(r, "assistant"))
      PROVE  Delivered(r)
  BY <1>1 DEF AllDelivered, Contains, Message
<1>2. Published(r) => Delivered(r)
  BY <1>1 DEF Published, DeliveryInv
<1>. QED  BY <1>2 DEF DeliveryInv, TracedOK, Delivered

\* What holds of some messages holds of the last of them and of a longer list.
LEMMA AllDeliveredLast ==
  ASSUME NEW m \in Seq(Messages), NEW n \in Nat, AllDelivered(m)
  PROVE  AllDelivered(Last(n, m))
BY LastElements DEF AllDelivered

LEMMA AllDeliveredAppend ==
  ASSUME NEW m \in Seq(Messages), AllDelivered(m), NEW x \in Messages,
         x.role = "assistant" => Delivered(x.run)
  PROVE  AllDelivered(Append(m, x))
<1>1. /\ Append(m, x) \in Seq(Messages)
      /\ \A i \in DOMAIN Append(m, x) :
           Append(m, x)[i] = IF i = Len(m) + 1 THEN x ELSE m[i]
      /\ \A i \in DOMAIN Append(m, x) : i # Len(m) + 1 => i \in DOMAIN m
  OBVIOUS
<1>. QED  BY <1>1 DEF AllDelivered

\* A step that writes no trace and no outcome of a delivered run leaves it so.
LEMMA DeliveredStays ==
  ASSUME TypeOK, NEW r \in Runs, Begin(r) \/ Step(r) \/ Cancel(r), NEW q \in Runs, Delivered(q)
  PROVE  Delivered(q)'
<1>. USE DEF Delivered, Accepted, TypeOK, Call, store, process, ghosts, Calls, StorageCalls
<1>1. CASE q # r
  BY <1>1 DEF Begin, Step, Cancel, GetBlackboard, CreateRun, AppendQuestion, ListHistory,
              ReplaceMemory, RunBoard, SaveBlackboard, SaveTrace, AppendAgentMessages,
              AppendAnswer, WriteMemory, FailCall
<1>2. CASE q = r
  BY <1>2 DEF Begin, Step, Cancel, GetBlackboard, CreateRun, AppendQuestion, ListHistory,
              ReplaceMemory, RunBoard, SaveBlackboard, SaveTrace, AppendAgentMessages,
              AppendAnswer, WriteMemory, FailCall
<1>. QED  BY <1>1, <1>2

LEMMA AllDeliveredStays ==
  ASSUME TypeOK, NEW r \in Runs, Begin(r) \/ Step(r) \/ Cancel(r),
         NEW m \in Seq(Messages), AllDelivered(m)
  PROVE  \A i \in DOMAIN m : m[i].role = "assistant" => Delivered(m[i].run)'
<1>1. ASSUME NEW i \in DOMAIN m PROVE m[i].run \in Runs
  <2>1. m[i] \in Messages
    OBVIOUS
  <2>. QED  BY <2>1 DEF Messages
<1>2. ASSUME NEW i \in DOMAIN m, m[i].role = "assistant" PROVE Delivered(m[i].run)'
  <2>1. Delivered(m[i].run)
    BY <1>2 DEF AllDelivered
  <2>. QED  BY <1>1, <2>1, DeliveredStays
<1>. QED  BY <1>2

\* A list that a step leaves alone, or whose new elements are delivered after it.
LEMMA AllDeliveredNext ==
  ASSUME TypeOK, NEW r \in Runs, Begin(r) \/ Step(r) \/ Cancel(r),
         NEW m \in Seq(Messages), AllDelivered(m), NEW n, n' = m
  PROVE  AllDelivered(n)'
BY AllDeliveredStays DEF AllDelivered

LEMMA NextTracedOK ==
  ASSUME TypeOK, TracedOK, NEW r \in Runs, Begin(r) \/ Step(r) \/ Cancel(r)
  PROVE  TracedOK'
<1>. USE DEF TracedOK, TypeOK, Call, Accepted, store, process, ghosts, Calls, StorageCalls
<1>. SUFFICES ASSUME NEW q \in Runs
              PROVE  /\ pc'[q] \in {"append_agent_messages", "append_answer", "write_memory", "done"} =>
                          traces'[q] = outcome'[q]
                     /\ pc'[q] \in {"append_answer", "write_memory"} => Accepted(q)'
  OBVIOUS
<1>1. CASE q # r
  BY <1>1 DEF Begin, Step, Cancel, GetBlackboard, CreateRun, AppendQuestion, ListHistory,
              ReplaceMemory, RunBoard, SaveBlackboard, SaveTrace, AppendAgentMessages,
              AppendAnswer, WriteMemory, FailCall
<1>2. CASE q = r
  BY <1>2 DEF Begin, Step, Cancel, GetBlackboard, CreateRun, AppendQuestion, ListHistory,
              ReplaceMemory, RunBoard, SaveBlackboard, SaveTrace, AppendAgentMessages,
              AppendAnswer, WriteMemory, FailCall
<1>. QED  BY <1>1, <1>2

LEMMA NextExamples ==
  ASSUME TypeOK, TracedOK, ExamplesAreApproved,
         NEW r \in Runs, Begin(r) \/ Step(r) \/ Cancel(r) \/ SaveExample(r)
  PROVE  ExamplesAreApproved'
<1>. USE DEF ExamplesAreApproved, TypeOK, Call, store, process, ghosts, Calls, StorageCalls
<1>1. CASE WriteMemory(r)
  <2>1. r \notin examples \cup saving \cup forgotten
    BY <1>1 DEF WriteMemory
  <2>2. /\ UNCHANGED <<examples, forgotten>>
        /\ saving' = saving \cup (IF Reusable(r) THEN {r} ELSE {})
    BY <1>1 DEF WriteMemory
  <2>3. \A q \in Runs \ {r} : pc'[q] = pc[q] /\ traces'[q] = traces[q]
    BY <1>1 DEF WriteMemory
  <2>4. r \in saving' => pc'[r] = "done" /\ traces'[r] = <<"completed", "final">>
    BY <1>1, <2>1 DEF WriteMemory, Reusable, TracedOK
  <2>5. \A q \in (examples \cup saving \cup forgotten)' :
          pc'[q] = "done" /\ traces'[q] = <<"completed", "final">>
    BY <2>1, <2>2, <2>3, <2>4
  <2>6. /\ (examples \cap saving)' = {}
        /\ (forgotten \cap (examples \cup saving))' = {}
    BY <2>1, <2>2
  <2>. QED  BY <2>5, <2>6
<1>2. CASE SaveExample(r)
  <2>1. /\ saving' = saving \ {r}
        /\ r \in saving
        /\ examples' = examples \cup {r} \/ examples' = examples
        /\ UNCHANGED <<pc, traces, forgotten>>
    BY <1>2 DEF SaveExample
  <2>. QED  BY <2>1
<1>3. CASE Begin(r) \/ Cancel(r) \/ (Step(r) /\ ~ WriteMemory(r))
  <2>1. r \notin examples \cup saving \cup forgotten
    BY <1>3 DEF Begin, Cancel, Step, GetBlackboard, CreateRun, AppendQuestion, ListHistory,
                ReplaceMemory, RunBoard, SaveBlackboard, SaveTrace, AppendAgentMessages,
                AppendAnswer, FailCall
  <2>2. UNCHANGED <<examples, saving, forgotten>>
    BY <1>3 DEF Begin, Cancel, Step, GetBlackboard, CreateRun, AppendQuestion, ListHistory,
                ReplaceMemory, RunBoard, SaveBlackboard, SaveTrace, AppendAgentMessages,
                AppendAnswer, FailCall
  <2>3. \A q \in Runs \ {r} : pc'[q] = pc[q] /\ traces'[q] = traces[q]
    BY <1>3 DEF Begin, Cancel, Step, GetBlackboard, CreateRun, AppendQuestion, ListHistory,
                ReplaceMemory, RunBoard, SaveBlackboard, SaveTrace, AppendAgentMessages,
                AppendAnswer, FailCall
  <2>. QED  BY <2>1, <2>2, <2>3
<1>. QED  BY <1>1, <1>2, <1>3

\* The answer of a run that appends it, or remembers it, is delivered.
LEMMA OwnAnswer ==
  ASSUME TypeOK, TracedOK, NEW r \in Runs, pc[r] \in {"append_answer", "write_memory"},
         pc'[r] \in {"write_memory", "done"}, UNCHANGED <<traces, outcome>>
  PROVE  Delivered(r)'
BY DEF TracedOK, Delivered, Accepted

\* The lists after a step: most steps leave them all alone, the others take the
\* last of one of them or append to it.
LEMMA NextLists ==
  ASSUME DeliveryInv, NEW r \in Runs, Begin(r) \/ Step(r) \/ Cancel(r)
  PROVE  /\ \A s \in Sessions : AllDelivered(history[s])' /\ AllDelivered(memory[s])'
         /\ \A q \in Runs : AllDelivered(fetched[q])'
<1>. DEFINE s == SessionOf[r]
            good == {q \in Runs : Delivered(q)'}
            Kept(list) == \A i \in DOMAIN list : list[i].role = "assistant" => list[i].run \in good
<1>0. /\ s \in Sessions
      /\ history \in [Sessions -> Seq(Messages)] /\ memory \in [Sessions -> Seq(Messages)]
      /\ fetched \in [Runs -> Seq(Messages)] /\ HistoryLimit \in Nat /\ MemoryWindow \in Nat
      /\ Message(r, "user") \in Messages /\ Message(r, "assistant") \in Messages
  BY HarnessAssumption DEF DeliveryInv, TypeOK, Messages, Message
<1>a. ASSUME NEW m \in Seq(Messages), AllDelivered(m) PROVE Kept(m)
  <2>1. \A i \in DOMAIN m : m[i].role = "assistant" => Delivered(m[i].run)'
    BY <1>a, AllDeliveredStays DEF DeliveryInv
  <2>2. \A i \in DOMAIN m : m[i] \in Messages
    OBVIOUS
  <2>. QED  BY <2>1, <2>2 DEF Messages
<1>1. \A t \in Sessions : Kept(history[t]) /\ Kept(memory[t])
  <2>1. ASSUME NEW t \in Sessions PROVE Kept(history[t]) /\ Kept(memory[t])
    <3>1. AllDelivered(history[t]) /\ AllDelivered(memory[t])
      BY DEF DeliveryInv
    <3>. HIDE DEF Kept
    <3>. QED  BY <1>0, <1>a, <3>1
  <2>. QED  BY <2>1
<1>2. \A q \in Runs : Kept(fetched[q])
  <2>1. ASSUME NEW q \in Runs PROVE Kept(fetched[q])
    <3>1. AllDelivered(fetched[q])
      BY DEF DeliveryInv
    <3>. HIDE DEF Kept
    <3>. QED  BY <1>0, <1>a, <3>1
  <2>. QED  BY <2>1
<1>3. ASSUME NEW list \in Seq(Messages), Kept(list), NEW n \in Nat
      PROVE  Kept(Last(n, list))
  BY <1>3, LastElements
<1>4. ASSUME NEW list \in Seq(Messages), Kept(list), NEW x \in Messages,
             x.role = "assistant" => x.run \in good
      PROVE  Kept(Append(list, x)) /\ Append(list, x) \in Seq(Messages)
  <2>1. /\ Append(list, x) \in Seq(Messages)
        /\ \A i \in DOMAIN Append(list, x) :
             Append(list, x)[i] = IF i = Len(list) + 1 THEN x ELSE list[i]
        /\ \A i \in DOMAIN Append(list, x) : i # Len(list) + 1 => i \in DOMAIN list
    BY <1>4
  <2>. QED  BY <1>4, <2>1
<1>5. Message(r, "user").role # "assistant" /\ Message(r, "assistant").run = r
  BY DEF Message
<1>6. ASSUME \A t \in Sessions : Kept(history'[t]) /\ Kept(memory'[t]),
             \A q \in Runs : Kept(fetched'[q])
      PROVE  /\ \A t \in Sessions : AllDelivered(history[t])' /\ AllDelivered(memory[t])'
             /\ \A q \in Runs : AllDelivered(fetched[q])'
  BY <1>6 DEF AllDelivered
<1>. HIDE DEF s, good, Kept
<1>7. /\ \A t \in Sessions : Kept(history'[t]) /\ Kept(memory'[t])
      /\ \A q \in Runs : Kept(fetched'[q])
  <2>1. CASE AppendQuestion(r)
    <3>1. Kept(Append(history[s], Message(r, "user")))
      BY <1>0, <1>1, <1>4, <1>5
    <3>. QED  BY <1>0, <1>1, <1>2, <2>1, <3>1 DEF AppendQuestion, process, s
  <2>2. CASE ListHistory(r)
    <3>1. Kept(Last(HistoryLimit, history[s]))
      BY <1>0, <1>1, <1>3
    <3>. QED  BY <1>0, <1>1, <1>2, <2>2, <3>1 DEF ListHistory, store, s
  <2>3. CASE ReplaceMemory(r)
    <3>1. Kept(Prepared(r))
      BY <1>0, <1>2, <1>3 DEF Prepared
    <3>. QED  BY <1>0, <1>1, <1>2, <2>3, <3>1 DEF ReplaceMemory, store, s
  <2>4. CASE AppendAnswer(r)
    <3>1. r \in good
      BY <2>4, OwnAnswer DEF AppendAnswer, Call, DeliveryInv, TypeOK, process, good
    <3>2. Kept(Append(history[s], Message(r, "assistant")))
      BY <1>0, <1>1, <1>4, <1>5, <3>1
    <3>. QED  BY <1>0, <1>1, <1>2, <2>4, <3>2 DEF AppendAnswer, process, s
  <2>5. CASE WriteMemory(r)
    <3>1. r \in good
      BY <2>5, OwnAnswer DEF WriteMemory, Call, DeliveryInv, TypeOK, store, good
    <3>2. /\ Append(memory[s], Message(r, "assistant")) \in Seq(Messages)
          /\ Kept(Append(memory[s], Message(r, "assistant")))
      BY <1>0, <1>1, <1>4, <1>5, <3>1
    <3>3. Kept(Last(MemoryWindow, Append(memory[s], Message(r, "assistant"))))
      BY <1>0, <1>3, <3>2
    <3>. QED  BY <1>0, <1>1, <1>2, <2>5, <3>3 DEF WriteMemory, store, s
  <2>6. CASE UNCHANGED <<history, memory, fetched>>
    BY <1>1, <1>2, <2>6
  <2>. QED
    BY <2>1, <2>2, <2>3, <2>4, <2>5, <2>6
       DEF Begin, Step, Cancel, GetBlackboard, CreateRun, RunBoard, SaveBlackboard, SaveTrace,
           AppendAgentMessages, FailCall, store, process
<1>. QED  BY <1>6, <1>7

LEMMA NextDeliveryInv == DeliveryInv /\ [Next]_vars => DeliveryInv'
<1>. SUFFICES ASSUME DeliveryInv, [Next]_vars PROVE DeliveryInv'
  OBVIOUS
<1>1. TypeOK'
  BY NextTypeOK DEF DeliveryInv
<1>2. ASSUME NEW r \in Runs, Begin(r) \/ Step(r) \/ Cancel(r) PROVE DeliveryInv'
  BY <1>1, <1>2, NextTracedOK, NextExamples, NextLists DEF DeliveryInv
<1>3. ASSUME UNCHANGED <<pc, history, traces, memory, fetched, outcome>>, ExamplesAreApproved'
      PROVE  DeliveryInv'
  BY <1>1, <1>3 DEF DeliveryInv, TracedOK, AllDelivered, Delivered, Accepted
<1>4. ASSUME NEW r \in Runs, SaveExample(r) PROVE DeliveryInv'
  BY <1>3, <1>4, NextExamples DEF DeliveryInv, SaveExample
<1>5. ASSUME NEW u \in Users, DeleteExamples(u) PROVE DeliveryInv'
  BY <1>3, <1>5 DEF DeliveryInv, DeleteExamples, ExamplesAreApproved, process
<1>6. CASE UNCHANGED vars
  BY <1>3, <1>6 DEF DeliveryInv, ExamplesAreApproved, vars, store, process, ghosts
<1>. QED  BY <1>2, <1>4, <1>5, <1>6 DEF Next

\* The delivery of answers, whatever fails and whatever is cancelled: what is
\* published has its accepting trace stored before.
THEOREM AnswersAreTraced == Spec => []PublishedAfterTrace
BY InitDeliveryInv, NextDeliveryInv, DeliveryImplied, PTL DEF Spec

\* The pool of reuse examples holds answers that were approved, delivered and traced,
\* and what a deletion found in it does not come back.
THEOREM OnlyApprovedReused == Spec => []ExamplesAreApproved
<1>1. DeliveryInv => ExamplesAreApproved
  BY DEF DeliveryInv
<1>. QED  BY <1>1, InitDeliveryInv, NextDeliveryInv, PTL DEF Spec

-----------------------------------------------------------------------------
\* The memory that a board starts with

\* The calls between the append of the question and the board.
Asked == {"list_history", "replace_memory", "run_board"}

\* What is known of a run that nobody overlaps: its question is the last message of
\* the history, and what it read, and then the memory, is the end of that history.
Fresh(r) ==
  LET s == SessionOf[r]
  IN  r \notin overlapped =>
        /\ pc[r] \in Asked =>
             history[s] # <<>> /\ history[s][Len(history[s])] = Message(r, "user")
        /\ pc[r] = "replace_memory" => fetched[r] = Last(HistoryLimit, history[s])
        /\ pc[r] = "run_board" => memory[s] = Last(MemoryWindow, Last(HistoryLimit, history[s]))

FreshInv == \A r \in Runs : Fresh(r)

\* The last of the last messages is the last message.
LEMMA LastOfLast ==
  ASSUME NEW S, NEW m \in Seq(S), m # <<>>, NEW n \in Nat \ {0}
  PROVE  Last(n, m) # <<>> /\ Last(n, m)[Len(Last(n, m))] = m[Len(m)]
<1>. DEFINE first == IF Len(m) > n THEN Len(m) - n + 1 ELSE 1
<1>0. Len(m) \in Nat \ {0}
  OBVIOUS
<1>1. first \in 1..Len(m)
  BY <1>0
<1>2. Last(n, m) = SubSeq(m, first, Len(m))
  BY DEF Last
<1>. HIDE DEF first
<1>3. PICK k : k = Len(m) - first + 1
  OBVIOUS
<1>4. /\ Last(n, m) \in Seq(S) /\ Len(Last(n, m)) = k
      /\ \A i \in 1..k : Last(n, m)[i] = m[first + i - 1]
  BY <1>0, <1>1, <1>2, <1>3, SubSeqProperties
<1>5. k \in 1..k /\ first + k - 1 = Len(m) /\ k # 0
  BY <1>0, <1>1, <1>3
<1>. QED  BY <1>4, <1>5

LEMMA LastOfAppend ==
  ASSUME NEW S, NEW m \in Seq(S), NEW x \in S
  PROVE  Append(m, x) # <<>> /\ Append(m, x)[Len(Append(m, x))] = x
<1>1. Append(m, x) # <<>> /\ Len(Append(m, x)) = Len(m) + 1 /\ Append(m, x)[Len(m) + 1] = x
  BY AppendProperties
<1>. QED  BY <1>1

\* A step of one run leaves the lists of the other sessions, and what the other
\* runs have read.
LEMMA OtherSession ==
  ASSUME TypeOK, NEW r \in Runs, Begin(r) \/ Step(r) \/ Cancel(r) \/ SaveExample(r), NEW q \in Runs, q # r
  PROVE  /\ pc'[q] = pc[q] /\ fetched'[q] = fetched[q] /\ overlapped \subseteq overlapped'
         /\ SessionOf[q] # SessionOf[r] =>
              history'[SessionOf[q]] = history[SessionOf[q]] /\ memory'[SessionOf[q]] = memory[SessionOf[q]]
<1>. USE HarnessAssumption DEF TypeOK, Call, store, process, ghosts
<1>1. CASE Begin(r)
  BY <1>1 DEF Begin
<1>2. CASE Cancel(r) \/ SaveExample(r)
  BY <1>2 DEF Cancel, SaveExample
<1>3. CASE Step(r)
  BY <1>3 DEF Step, GetBlackboard, CreateRun, AppendQuestion, ListHistory, ReplaceMemory, RunBoard,
              SaveBlackboard, SaveTrace, AppendAgentMessages, AppendAnswer, WriteMemory, FailCall
<1>. QED  BY <1>1, <1>2, <1>3

\* A run that nobody overlaps makes its own calls.
LEMMA OwnFresh ==
  ASSUME TypeOK, NEW r \in Runs, Fresh(r), Begin(r) \/ Step(r) \/ Cancel(r) \/ SaveExample(r)
  PROVE  Fresh(r)'
<1>. DEFINE s == SessionOf[r]
<1>0. s \in Sessions /\ Message(r, "user") \in Messages /\ history[s] \in Seq(Messages)
  BY HarnessAssumption DEF TypeOK, Message, Messages
<1>a. LET h == Append(history[s], Message(r, "user")) IN h # <<>> /\ h[Len(h)] = Message(r, "user")
  <2>. HIDE DEF s
  <2>. QED  BY <1>0, LastOfAppend
<1>. USE DEF TypeOK, Call
<1>1. CASE AppendQuestion(r)
  <2>1. /\ pc'[r] = "list_history" /\ history'[s] = Append(history[s], Message(r, "user"))
    BY <1>0, <1>1 DEF AppendQuestion
  <2>. QED  BY <1>a, <2>1 DEF Fresh
<1>2. CASE ListHistory(r)
  <2>1. /\ pc[r] = "list_history" /\ pc'[r] = "replace_memory" /\ UNCHANGED <<history, overlapped>>
        /\ fetched'[r] = Last(HistoryLimit, history[s])
    BY <1>2 DEF ListHistory, store, ghosts
  <2>. QED  BY <2>1 DEF Fresh, Asked
<1>3. CASE ReplaceMemory(r)
  <2>1. /\ pc[r] = "replace_memory" /\ pc'[r] = "run_board" /\ UNCHANGED <<history, overlapped>>
        /\ memory'[s] = Prepared(r)
    BY <1>0, <1>3 DEF ReplaceMemory, store, ghosts
  <2>. QED  BY <2>1 DEF Fresh, Asked, Prepared
<1>4. CASE SaveExample(r)
  BY <1>4 DEF SaveExample, ghosts, Fresh
<1>5. CASE Begin(r) \/ Cancel(r) \/ (Step(r) /\ ~ AppendQuestion(r) /\ ~ ListHistory(r) /\ ~ ReplaceMemory(r))
  <2>1. pc'[r] \notin Asked
    BY <1>5 DEF Begin, Cancel, Step, GetBlackboard, CreateRun, RunBoard, SaveBlackboard, SaveTrace,
                AppendAgentMessages, AppendAnswer, WriteMemory, FailCall, Asked
  <2>. QED  BY <2>1 DEF Fresh, Asked
<1>. QED  BY <1>1, <1>2, <1>3, <1>4, <1>5

\* Another run in the session would overlap.
LEMMA OthersFresh ==
  ASSUME TypeOK, OverlapsNoticed, NEW q \in Runs, Fresh(q), NEW r \in Runs, q # r,
         Begin(r) \/ Step(r) \/ Cancel(r) \/ SaveExample(r)
  PROVE  Fresh(q)'
<1>1. /\ pc'[q] = pc[q] /\ fetched'[q] = fetched[q] /\ overlapped \subseteq overlapped'
      /\ SessionOf[q] # SessionOf[r] =>
           history'[SessionOf[q]] = history[SessionOf[q]] /\ memory'[SessionOf[q]] = memory[SessionOf[q]]
  BY OtherSession
<1>2. CASE SessionOf[q] # SessionOf[r]
  BY <1>1, <1>2 DEF Fresh
<1>3. CASE SessionOf[q] = SessionOf[r] /\ SaveExample(r)
  BY <1>3 DEF SaveExample, ghosts, Fresh
<1>4. CASE SessionOf[q] = SessionOf[r] /\ (Begin(r) \/ Step(r) \/ Cancel(r))
  <2>. SUFFICES ASSUME pc[q] \in Asked PROVE q \in overlapped'
    BY <1>1 DEF Fresh, Asked
  <2>1. q \in Active
    BY DEF Active, Asked, Calls
  <2>2. CASE Begin(r)
    <3>1. q \in Active \cap SessionRuns(SessionOf[r])
      BY <1>4, <2>1 DEF SessionRuns
    <3>. QED  BY <2>2, <3>1 DEF Begin
  <2>3. CASE Step(r) \/ Cancel(r)
    <3>1. r \in Active
      BY <2>3 DEF Active, Cancel, Step, Call, GetBlackboard, CreateRun, AppendQuestion, ListHistory,
                  ReplaceMemory, RunBoard, SaveBlackboard, SaveTrace, AppendAgentMessages,
                  AppendAnswer, WriteMemory, FailCall, StorageCalls, Calls
    <3>. QED  BY <1>1, <1>4, <2>1, <3>1 DEF OverlapsNoticed
  <2>. QED  BY <1>4, <2>2, <2>3
<1>. QED  BY <1>2, <1>3, <1>4

LEMMA NextFreshInv == TypeOK /\ MatterInv /\ FreshInv /\ [Next]_vars => FreshInv'
<1>. SUFFICES ASSUME TypeOK, MatterInv, FreshInv, [Next]_vars, NEW q \in Runs PROVE Fresh(q)'
  BY DEF FreshInv
<1>1. Fresh(q) /\ OverlapsNoticed
  BY DEF FreshInv, MatterInv
<1>2. CASE UNCHANGED vars
  BY <1>1, <1>2 DEF vars, store, process, ghosts, Fresh
<1>3. ASSUME NEW u \in Users, DeleteExamples(u) PROVE Fresh(q)'
  BY <1>1, <1>3 DEF DeleteExamples, process, Fresh
<1>4. ASSUME NEW r \in Runs, Begin(r) \/ Step(r) \/ Cancel(r) \/ SaveExample(r) PROVE Fresh(q)'
  BY <1>1, <1>4, OwnFresh, OthersFresh
<1>. QED  BY <1>2, <1>3, <1>4 DEF Next

LEMMA FreshImplied == TypeOK /\ FreshInv => MemoryIsFresh
<1>. SUFFICES ASSUME TypeOK, FreshInv, NEW r \in Runs, pc[r] = "run_board", r \notin overlapped
              PROVE  /\ memory[SessionOf[r]] = Last(MemoryWindow, Last(HistoryLimit, history[SessionOf[r]]))
                     /\ memory[SessionOf[r]][Len(memory[SessionOf[r]])] = Message(r, "user")
  BY DEF MemoryIsFresh
<1>. DEFINE h == history[SessionOf[r]]
<1>1. /\ h # <<>> /\ h[Len(h)] = Message(r, "user")
      /\ memory[SessionOf[r]] = Last(MemoryWindow, Last(HistoryLimit, h))
  BY DEF FreshInv, Fresh, Asked
<1>2. h \in Seq(Messages) /\ HistoryLimit \in Nat \ {0} /\ MemoryWindow \in Nat \ {0}
  BY HarnessAssumption DEF TypeOK
<1>. HIDE DEF h
<1>3. PICK l \in Seq(Messages) : l = Last(HistoryLimit, h)
  BY <1>2, LastElements
<1>4. l # <<>> /\ l[Len(l)] = h[Len(h)]
  BY <1>1, <1>2, <1>3, LastOfLast
<1>5. PICK m : m = Last(MemoryWindow, l)
  OBVIOUS
<1>6. m[Len(m)] = l[Len(l)]
  BY <1>2, <1>3, <1>4, <1>5, LastOfLast
<1>. QED  BY <1>1, <1>3, <1>4, <1>5, <1>6 DEF h

\* A board that is alone in its session works with the end of the stored history, its
\* own question last, although the coroutine waits between the append of the question,
\* the read of the history and the write of the memory.
THEOREM BoardsStartFresh == Spec => []MemoryIsFresh
<1>1. Init => FreshInv
  BY DEF Init, FreshInv, Fresh, Asked
<1>2. TypeOK /\ MatterInv /\ FreshInv /\ [Next]_vars => FreshInv'
  BY NextFreshInv
<1>3. TypeOK /\ FreshInv => MemoryIsFresh
  BY FreshImplied
<1>. QED  BY <1>1, <1>2, <1>3, TypeCorrect, MatterInvariant, PTL DEF Spec
=============================================================================
