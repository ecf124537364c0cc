--------------------------- MODULE TaskBoardProofs ---------------------------
(***************************************************************************)
(* Safety of the task board, for every number of agents and tasks and for   *)
(* every value of the limits; and no run goes on for ever.                 *)
(***************************************************************************)
EXTENDS TaskBoard, TLAPS, FiniteSetTheorems, WellFoundedInduction

Executing == pc \in {"artifacts", "derive"}

\* While an agent executes, `current` is its task and the round still owes it
\* the claim; otherwise there is no such task.
CurrentOK ==
  IF Executing
    THEN /\ current \in TaskIds
         /\ tasks[current].status = "running"
         /\ tasks[current].claimed_by \in Agents
         /\ claims_this_round[tasks[current].claimed_by] < MaxClaimsPerAgentPerRound
    ELSE current = 0

\* What is left of the snapshot is still ready.
SnapshotReady == \A i \in todo : Ready(i)

\* Dependencies name tasks of the board, no task was cancelled, and only a task
\* that was claimed is past "open" and "blocked".
TasksOK ==
  \A i \in TaskIds :
    /\ tasks[i].deps \subseteq TaskIds
    /\ tasks[i].status # "cancelled"
    /\ tasks[i].status = "running" => i = current
    /\ tasks[i].status \in {"open", "blocked"} => tasks[i].claimed_by = NoAgent

\* Nothing is accepted while the run goes on, and it stops between two rounds.
RunOK ==
  /\ status = "running" => accepted = "none"
  /\ status # "running" => pc = "round"

IInv ==
  /\ TypeOK
  /\ CurrentOK
  /\ SnapshotReady
  /\ TasksOK
  /\ RunOK
  /\ DependenciesFirst
  /\ NoDuplicateWork
  /\ NothingRunnableAtDelivery

-----------------------------------------------------------------------------

\* The progress signature is a triple of numbers.
LEMMA SignatureType == ASSUME TypeOK PROVE Signature \in Nat \X Nat \X Nat
<1>1. IsFiniteSet(TaskIds)
  BY FS_Interval DEF TaskIds, TypeOK
<1>2. Completed \subseteq TaskIds
  BY DEF Completed
<1>3. Cardinality(Completed) \in Nat
  BY <1>1, <1>2, FS_Subset, FS_CardinalityType
<1>. QED  BY <1>3 DEF Signature, TypeOK

\* The board with its root task satisfies the invariant.
LEMMA InitIInv == Init => IInv
<1>. USE LimitsAssumption, AgentsAssumption
<1>. SUFFICES ASSUME Init PROVE IInv
  OBVIOUS
<1>0. /\ TaskIds = {1} /\ Len(tasks) = 1
      /\ tasks[1] = NewTask(RootKey, RootNeeds, 0, {}, 0)
  BY DEF Init, TaskIds
<1>1. NewTask(RootKey, RootNeeds, 0, {}, 0) \in Task
  BY DEF NewTask, Task, TaskStatus
<1>2. TypeOK
  BY <1>0, <1>1 DEF Init, TypeOK, RunStatus, Accepted, Locations
<1>3. CurrentOK /\ SnapshotReady
  BY DEF Init, CurrentOK, Executing, SnapshotReady
<1>5. RunOK /\ NothingRunnableAtDelivery
  BY DEF Init, RunOK, NothingRunnableAtDelivery
<1>4. TasksOK /\ DependenciesFirst /\ NoDuplicateWork
  BY <1>0 DEF TasksOK, DependenciesFirst, NoDuplicateWork, Started, NewTask
<1>. QED  BY <1>2, <1>3, <1>4, <1>5 DEF IInv

-----------------------------------------------------------------------------
\* Steps that leave the tasks alone.

\* Stopping for the budget happens between rounds and touches no task.
LEMMA StopForBudgetIInv == ASSUME IInv, StopForBudget PROVE IInv'
<1>. USE DEF StopForBudget, AtRoundStart, boardVars, roundVars
<1>1. TypeOK' /\ RunOK'
  BY DEF IInv, TypeOK, RunOK, TaskIds, RunStatus
<1>2. CurrentOK' /\ SnapshotReady' /\ TasksOK'
  BY DEF IInv, CurrentOK, Executing, SnapshotReady, Ready, TasksOK, TaskIds
<1>3. DependenciesFirst' /\ NoDuplicateWork' /\ NothingRunnableAtDelivery'
  BY DEF IInv, DependenciesFirst, NoDuplicateWork, NothingRunnableAtDelivery, Started, TaskIds
<1>. QED  BY <1>1, <1>2, <1>3 DEF IInv

\* The snapshot of a new round is the set of ready tasks.
LEMMA StartRoundIInv == ASSUME IInv, StartRound PROVE IInv'
<1>. USE LimitsAssumption DEF StartRound, EnterRound, AtRoundStart, BudgetExhausted
<1>0. before' \in Nat \X Nat \X Nat
  BY SignatureType DEF IInv
<1>1. TypeOK' /\ RunOK'
  BY <1>0 DEF IInv, TypeOK, RunOK, OpenTasks, TaskIds, Locations
<1>2. CurrentOK' /\ SnapshotReady' /\ TasksOK'
  BY DEF IInv, CurrentOK, Executing, SnapshotReady, Ready, OpenTasks, TasksOK, TaskIds
<1>3. DependenciesFirst' /\ NoDuplicateWork' /\ NothingRunnableAtDelivery'
  BY DEF IInv, DependenciesFirst, NoDuplicateWork, NothingRunnableAtDelivery, Started, TaskIds
<1>. QED  BY <1>1, <1>2, <1>3 DEF IInv

\* The gate decides: with no task running and none ready, every task that is
\* still open lacks a dependency.
LEMMA GateIInv ==
  ASSUME IInv, Deliver \/ BlockDelivery \/ FinishEmptyHanded PROVE IInv'
<1>. USE LimitsAssumption DEF Deliver, BlockDelivery, FinishEmptyHanded, NothingToOffer,
                             EnterRound, AtRoundStart, BudgetExhausted
<1>0. before' \in Nat \X Nat \X Nat
  BY SignatureType DEF IInv
<1>1. TypeOK'
  <2>1. CASE Deliver
    BY <2>1, <1>0 DEF IInv, TypeOK, TaskIds, RunStatus, Accepted
  <2>2. CASE BlockDelivery
    <3>1. artifacts' \in Nat /\ round' \in 0..MaxRounds
      BY <2>2 DEF IInv, TypeOK
    <3>. QED  BY <2>2, <3>1, <1>0 DEF IInv, TypeOK, TaskIds, RunStatus, Accepted
  <2>3. CASE FinishEmptyHanded
    BY <2>3, <1>0, SMTT(20) DEF IInv, TypeOK, TaskIds, RunStatus
  <2>. QED  BY <2>1, <2>2, <2>3
<1>2. CurrentOK' /\ SnapshotReady' /\ TasksOK' /\ RunOK'
  BY DEF IInv, CurrentOK, Executing, SnapshotReady, Ready, TasksOK, TaskIds, RunOK
<1>3. DependenciesFirst' /\ NoDuplicateWork'
  BY DEF IInv, DependenciesFirst, NoDuplicateWork, Started, TaskIds
<1>4. NothingRunnableAtDelivery'
  <2>1. \A i \in TaskIds : tasks[i].status # "running"
    BY SMTT(30) DEF IInv, TasksOK, CurrentOK, Executing, TaskIds, TypeOK
  <2>2. ASSUME NEW i \in TaskIds, tasks[i].status = "open"
        PROVE  \E d \in tasks[i].deps : tasks[d].status \in {"open", "failed", "blocked"}
    <3>1. PICK d \in tasks[i].deps : tasks[d].status # "completed"
      BY <2>2 DEF OpenTasks, Ready
    <3>2. d \in TaskIds
      BY DEF IInv, TasksOK
    <3>3. tasks[d] \in Task
      BY <3>2 DEF IInv, TypeOK, TaskIds
    <3>4. tasks[d].status \in {"open", "failed", "blocked"}
      BY <2>1, <3>1, <3>2, <3>3 DEF IInv, TasksOK, Task, TaskStatus
    <3>. QED  BY <3>4
  <2>. QED  BY <2>1, <2>2 DEF NothingRunnableAtDelivery, TaskIds
<1>. QED  BY <1>1, <1>2, <1>3, <1>4 DEF IInv

\* Appending an artifact leaves the tasks alone.
LEMMA AppendArtifactIInv ==
  ASSUME IInv, NEW k \in {0, 1}, AppendArtifact(k) PROVE IInv'
<1>. USE DEF AppendArtifact, boardVars, roundVars
<1>1. TypeOK' /\ RunOK'
  BY DEF IInv, TypeOK, RunOK, TaskIds
<1>2. CurrentOK' /\ SnapshotReady' /\ TasksOK'
  BY DEF IInv, CurrentOK, Executing, SnapshotReady, Ready, TasksOK, TaskIds
<1>3. DependenciesFirst' /\ NoDuplicateWork' /\ NothingRunnableAtDelivery'
  BY DEF IInv, DependenciesFirst, NoDuplicateWork, NothingRunnableAtDelivery, Started, TaskIds
<1>. QED  BY <1>1, <1>2, <1>3 DEF IInv

\* A deduplicated request leaves the tasks alone.
LEMMA DeduplicateTaskIInv == ASSUME IInv, DeduplicateTask PROVE IInv'
<1>. USE DEF DeduplicateTask, boardVars, roundVars
<1>1. TypeOK' /\ RunOK'
  BY DEF IInv, TypeOK, RunOK, TaskIds, Locations
<1>2. CurrentOK' /\ SnapshotReady' /\ TasksOK'
  BY DEF IInv, CurrentOK, Executing, SnapshotReady, Ready, TasksOK, TaskIds
<1>3. DependenciesFirst' /\ NoDuplicateWork' /\ NothingRunnableAtDelivery'
  BY DEF IInv, DependenciesFirst, NoDuplicateWork, NothingRunnableAtDelivery, Started, TaskIds
<1>. QED  BY <1>1, <1>2, <1>3 DEF IInv

\* The end of a round may stop the run, without a delivery.
LEMMA EndRoundIInv == ASSUME IInv, EndRound PROVE IInv'
<1>. USE LimitsAssumption DEF EndRound, roundVars
<1>1. TypeOK' /\ RunOK'
  BY DEF IInv, TypeOK, RunOK, TaskIds, Locations, RunStatus
<1>2. CurrentOK' /\ SnapshotReady' /\ TasksOK'
  BY DEF IInv, CurrentOK, Executing, SnapshotReady, Ready, TasksOK, TaskIds
<1>3. DependenciesFirst' /\ NoDuplicateWork' /\ NothingRunnableAtDelivery'
  BY DEF IInv, RunOK, DependenciesFirst, NoDuplicateWork, NothingRunnableAtDelivery, Started, TaskIds
<1>. QED  BY <1>1, <1>2, <1>3 DEF IInv

-----------------------------------------------------------------------------
\* Steps that change one task, or append one.

\* One open or running task is moved on: the board keeps its shape, and what
\* does not depend on the place of the step is preserved.
LEMMA UpdateTask ==
  ASSUME IInv, NEW i \in TaskIds, NEW t \in Task,
         tasks' = [tasks EXCEPT ![i] = t],
         t.key = tasks[i].key, t.deps = tasks[i].deps,
         tasks[i].status \in {"open", "running"},
         \A d \in tasks[i].deps : t.claimed_by # NoAgent => tasks[d].status = "completed"
  PROVE  /\ tasks' \in Seq(Task)
         /\ Len(tasks') = Len(tasks)
         /\ TaskIds' = TaskIds
         /\ tasks'[i] = t
         /\ \A j \in TaskIds : j # i => tasks'[j] = tasks[j]
         /\ DependenciesFirst'
         /\ NoDuplicateWork'
<1>1. tasks \in Seq(Task) /\ TaskIds = 1..Len(tasks)
  BY DEF IInv, TypeOK, TaskIds
<1>2. /\ tasks' \in Seq(Task)
      /\ Len(tasks') = Len(tasks)
      /\ TaskIds' = TaskIds
      /\ tasks'[i] = t
      /\ \A j \in TaskIds : j # i => tasks'[j] = tasks[j]
  BY <1>1 DEF TaskIds
<1>3. DependenciesFirst'
  BY <1>2 DEF IInv, DependenciesFirst, Started, TasksOK
<1>4. NoDuplicateWork'
  BY <1>2 DEF IInv, NoDuplicateWork
<1>. QED  BY <1>2, <1>3, <1>4

\* A ready task that nobody bids for is blocked.
LEMMA BlockTaskIInv ==
  ASSUME IInv, NEW i \in TaskIds, BlockTask(i) PROVE IInv'
<1>1. /\ tasks[i] \in Task
      /\ tasks[i].status = "open"
      /\ tasks[i].claimed_by = NoAgent
  BY DEF IInv, SnapshotReady, Ready, TasksOK, TypeOK, TaskIds, BlockTask
<1>. DEFINE t == Blocked(tasks[i])
<1>2. /\ t \in Task /\ t.status = "blocked" /\ t.claimed_by = NoAgent
      /\ t.key = tasks[i].key /\ t.deps = tasks[i].deps
  BY <1>1 DEF Blocked, Task, TaskStatus
<1>3. tasks' = [tasks EXCEPT ![i] = t]
  BY DEF BlockTask
<1>. HIDE DEF t
<1>4. /\ tasks' \in Seq(Task)
      /\ Len(tasks') = Len(tasks)
      /\ TaskIds' = TaskIds
      /\ tasks'[i] = t
      /\ \A j \in TaskIds : j # i => tasks'[j] = tasks[j]
      /\ DependenciesFirst'
      /\ NoDuplicateWork'
  BY <1>1, <1>2, <1>3, UpdateTask
<1>5. TypeOK' /\ RunOK' /\ NothingRunnableAtDelivery'
  BY <1>4 DEF IInv, TypeOK, RunOK, NothingRunnableAtDelivery, BlockTask, boardVars
<1>6. CurrentOK'
  BY <1>1, <1>4 DEF IInv, CurrentOK, Executing, BlockTask
<1>7. SnapshotReady'
  BY <1>1, <1>4 DEF IInv, SnapshotReady, Ready, TasksOK, TypeOK, BlockTask
<1>8. TasksOK'
  BY <1>1, <1>2, <1>4 DEF IInv, TasksOK, BlockTask
<1>. QED  BY <1>4, <1>5, <1>6, <1>7, <1>8 DEF IInv

\* A ready task is claimed; its dependencies are complete.
LEMMA ClaimTaskIInv ==
  ASSUME IInv, NEW i \in TaskIds, NEW a \in Agents, ClaimTask(i, a) PROVE IInv'
<1>1. /\ tasks[i] \in Task
      /\ Ready(i)
      /\ current = 0
  BY DEF IInv, SnapshotReady, TypeOK, TaskIds, CurrentOK, Executing, ClaimTask
<1>. DEFINE t == Claimed(tasks[i], a)
<1>2. /\ t \in Task /\ t.status = "running" /\ t.claimed_by = a
      /\ t.key = tasks[i].key /\ t.deps = tasks[i].deps
  <2>. DEFINE u == tasks[i]
  <2>1. u \in Task
    BY <1>1
  <2>. HIDE DEF u
  <2>2. u.claim_count + 1 \in Nat
    BY <2>1 DEF Task
  <2>3. "running" \in TaskStatus
    BY DEF TaskStatus
  <2>. DEFINE v(n) == [u EXCEPT !.status = "running", !.claimed_by = a, !.claim_count = n]
  <2>4. ASSUME NEW n \in Nat
        PROVE  /\ v(n) \in Task /\ v(n).status = "running" /\ v(n).claimed_by = a
               /\ v(n).key = u.key /\ v(n).deps = u.deps
    BY <2>1, <2>3 DEF Task
  <2>5. t = v(u.claim_count + 1)
    BY DEF Claimed, u
  <2>. HIDE DEF v
  <2>. QED  BY <2>2, <2>4, <2>5 DEF u
<1>3. tasks' = [tasks EXCEPT ![i] = t]
  BY DEF ClaimTask
<1>. HIDE DEF t
<1>4. /\ tasks' \in Seq(Task)
      /\ Len(tasks') = Len(tasks)
      /\ TaskIds' = TaskIds
      /\ tasks'[i] = t
      /\ \A j \in TaskIds : j # i => tasks'[j] = tasks[j]
      /\ DependenciesFirst'
      /\ NoDuplicateWork'
  BY <1>1, <1>2, <1>3, UpdateTask DEF Ready
<1>5. /\ agent_claims[a] < MaxClaimsPerAgent
      /\ claims_this_round[a] < MaxClaimsPerAgentPerRound
  BY DEF ClaimTask, Candidates
<1>6. agent_claims' \in [Agents -> 0..MaxClaimsPerAgent]
  BY <1>5, LimitsAssumption DEF IInv, TypeOK, ClaimTask
<1>7. TypeOK' /\ RunOK' /\ NothingRunnableAtDelivery'
  <2>1. total_claims' \in Nat /\ todo' \subseteq TaskIds' /\ current' \in 0..Len(tasks')
    <3>1. total_claims \in Nat /\ todo \subseteq TaskIds /\ Len(tasks) \in Nat
      BY DEF IInv, TypeOK
    <3>2. total_claims' = total_claims + 1 /\ todo' = todo \ {i} /\ current' = i
      BY DEF ClaimTask
    <3>3. i \in 1..Len(tasks)
      BY DEF IInv, TypeOK, TaskIds
    <3>. QED  BY <1>4, <3>1, <3>2, <3>3
  <2>2. TypeOK'
    BY <1>4, <1>6, <2>1 DEF IInv, TypeOK, ClaimTask, Locations
  <2>3. status = "running" /\ status' = status /\ accepted' = accepted
    BY DEF IInv, RunOK, ClaimTask
  <2>4. RunOK' /\ NothingRunnableAtDelivery'
    BY <2>3 DEF IInv, RunOK, NothingRunnableAtDelivery
  <2>. QED  BY <2>2, <2>4
<1>8. CurrentOK'
  BY <1>2, <1>4, <1>5 DEF CurrentOK, Executing, ClaimTask
<1>9. SnapshotReady'
  <2>1. todo' = todo \ {i} /\ todo \subseteq TaskIds
    BY DEF IInv, TypeOK, ClaimTask
  <2>. QED  BY <1>1, <1>4, <2>1 DEF IInv, SnapshotReady, Ready, TasksOK
<1>10. TasksOK'
  BY <1>1, <1>2, <1>4, AgentsAssumption, SMTT(30) DEF IInv, TasksOK, ClaimTask, TypeOK, TaskIds
<1>. QED  BY <1>4, <1>7, <1>8, <1>9, <1>10 DEF IInv

\* The executed task is completed or failed; both are verdicts.
LEMMA EndClaimIInv ==
  ASSUME IInv, CompleteTask \/ FailTask PROVE IInv'
<1>0. PICK outcome \in {"completed", "failed"} : EndClaim(outcome)
  BY DEF CompleteTask, FailTask
<1>1. /\ current \in TaskIds
      /\ tasks[current].status = "running"
      /\ tasks[current].claimed_by \in Agents
      /\ claims_this_round[tasks[current].claimed_by] < MaxClaimsPerAgentPerRound
      /\ tasks[current] \in Task
  BY <1>0 DEF IInv, CurrentOK, Executing, TypeOK, TaskIds, EndClaim
<1>. DEFINE t == Ended(tasks[current], outcome)
<1>2. /\ t \in Task /\ t.status = outcome
      /\ t.claimed_by = tasks[current].claimed_by
      /\ t.key = tasks[current].key /\ t.deps = tasks[current].deps
  BY <1>1 DEF Ended, Task, TaskStatus
<1>3. tasks' = [tasks EXCEPT ![current] = t]
  BY <1>0 DEF EndClaim
<1>4. \A d \in tasks[current].deps : tasks[d].status = "completed"
  BY <1>1, AgentsAssumption DEF IInv, DependenciesFirst, Started
<1>. HIDE DEF t
<1>5. /\ tasks' \in Seq(Task)
      /\ Len(tasks') = Len(tasks)
      /\ TaskIds' = TaskIds
      /\ tasks'[current] = t
      /\ \A j \in TaskIds : j # current => tasks'[j] = tasks[j]
      /\ DependenciesFirst'
      /\ NoDuplicateWork'
  BY <1>1, <1>2, <1>3, <1>4, UpdateTask
<1>6. claims_this_round' \in [Agents -> 0..MaxClaimsPerAgentPerRound]
  <2>. DEFINE a == tasks[current].claimed_by
  <2>1. claims_this_round \in [Agents -> 0..MaxClaimsPerAgentPerRound] /\ a \in Agents
    BY <1>1 DEF IInv, TypeOK
  <2>2. claims_this_round[a] + 1 \in 0..MaxClaimsPerAgentPerRound
    BY <1>1, <2>1, LimitsAssumption
  <2>3. claims_this_round' = [claims_this_round EXCEPT ![a] = @ + 1]
    BY <1>0 DEF EndClaim
  <2>. HIDE DEF a
  <2>. QED  BY <2>1, <2>2, <2>3
<1>7. TypeOK' /\ RunOK' /\ NothingRunnableAtDelivery'
  <2>1. TypeOK'
    BY <1>0, <1>5, <1>6 DEF IInv, TypeOK, EndClaim, boardVars, Locations
  <2>2. status = "running" /\ status' = status /\ accepted' = accepted
    BY <1>0 DEF IInv, RunOK, EndClaim
  <2>3. RunOK' /\ NothingRunnableAtDelivery'
    BY <2>2 DEF IInv, RunOK, NothingRunnableAtDelivery
  <2>. QED  BY <2>1, <2>3
<1>8. CurrentOK'
  BY <1>0 DEF CurrentOK, Executing, EndClaim
<1>9. SnapshotReady'
  BY <1>0, <1>1, <1>5 DEF IInv, SnapshotReady, Ready, TasksOK, TypeOK, EndClaim
<1>10. TasksOK'
  BY <1>0, <1>1, <1>2, <1>5 DEF IInv, TasksOK, EndClaim
<1>. QED  BY <1>5, <1>7, <1>8, <1>9, <1>10 DEF IInv

\* A new task depends on tasks of the board, and nobody live holds its key.
LEMMA AddTaskIInv ==
  ASSUME IInv, NEW key \in Keys, NEW needs \in Needs, NEW parent \in 0..Len(tasks),
         NEW deps \in SUBSET TaskIds, AddTask(key, needs, parent, deps)
  PROVE  IInv'
<1>. DEFINE depth == IF parent = 0 THEN 0 ELSE tasks[parent].depth + 1
            new == NewTask(key, needs, parent, deps, depth)
<1>1. tasks \in Seq(Task) /\ TaskIds = 1..Len(tasks) /\ Len(tasks) \in Nat
  BY DEF IInv, TypeOK, TaskIds
<1>2. depth \in Nat
  <2>1. CASE parent = 0
    BY <2>1
  <2>2. CASE parent # 0
    <3>1. parent \in 1..Len(tasks)
      BY <1>1, <2>2
    <3>2. tasks[parent] \in Task
      BY <1>1, <3>1
    <3>. QED  BY <2>2, <3>2 DEF Task
  <2>. QED  BY <2>1, <2>2
<1>. HIDE DEF depth
<1>3. /\ new \in Task /\ new.status = "open" /\ new.claimed_by = NoAgent
      /\ new.key = key /\ new.deps = deps
  BY <1>1, <1>2 DEF NewTask, Task, TaskStatus
<1>4. tasks' = Append(tasks, new)
  BY DEF AddTask, depth
<1>. HIDE DEF new
<1>5. /\ TaskIds' = TaskIds \cup {Len(tasks) + 1}
      /\ Len(tasks') = Len(tasks) + 1
      /\ tasks'[Len(tasks) + 1] = new
      /\ \A j \in TaskIds : tasks'[j] = tasks[j]
      /\ tasks' \in Seq(Task)
  BY <1>1, <1>3, <1>4 DEF TaskIds
<1>6. TypeOK' /\ RunOK' /\ NothingRunnableAtDelivery'
  BY <1>1, <1>5 DEF IInv, TypeOK, RunOK, NothingRunnableAtDelivery, Locations, AddTask,
                    boardVars, roundVars
<1>7. CurrentOK'
  BY <1>1, <1>5 DEF IInv, CurrentOK, Executing, AddTask, roundVars
<1>8. SnapshotReady'
  BY <1>1, <1>5 DEF IInv, SnapshotReady, Ready, TasksOK, TypeOK, AddTask, roundVars
<1>9. TasksOK'
  BY <1>1, <1>3, <1>5 DEF IInv, TasksOK, AddTask
<1>10. DependenciesFirst'
  BY <1>1, <1>3, <1>5 DEF IInv, DependenciesFirst, Started, TasksOK
<1>11. NoDuplicateWork'
  <2>1. \A i \in TaskIds : tasks[i].key = key => tasks[i].status \in {"failed", "cancelled"}
    BY DEF Holds, AddTask
  <2>. QED  BY <1>1, <1>3, <1>5, <2>1 DEF IInv, NoDuplicateWork
<1>. QED  BY <1>5, <1>6, <1>7, <1>8, <1>9, <1>10, <1>11 DEF IInv

-----------------------------------------------------------------------------

\* The invariant is inductive.
LEMMA NextIInv == IInv /\ [Next]_vars => IInv'
<1>. SUFFICES ASSUME IInv, [Next]_vars PROVE IInv'
  OBVIOUS
<1>1. CASE UNCHANGED vars
  BY <1>1 DEF vars, IInv, TypeOK, CurrentOK, Executing, SnapshotReady, Ready, TasksOK,
     RunOK, DependenciesFirst, NoDuplicateWork, NothingRunnableAtDelivery, Started, TaskIds
<1>2. CASE Next
  BY <1>2, StopForBudgetIInv, StartRoundIInv, GateIInv, AppendArtifactIInv,
     DeduplicateTaskIInv, EndRoundIInv, BlockTaskIInv, ClaimTaskIInv, AddTaskIInv,
     EndClaimIInv DEF Next
<1>. QED  BY <1>1, <1>2

\* The inductive invariant holds in every reachable state of a run.
THEOREM BoardInvariant == Spec => []IInv
<1>. QED  BY InitIInv, NextIInv, PTL DEF Spec

\* The board and the locals of run() keep their types; in particular no agent
\* exceeds its claims per run or per round.
THEOREM TypeCorrect == Spec => []TypeOK
<1>1. IInv => TypeOK
  BY DEF IInv
<1>. QED  BY <1>1, BoardInvariant, PTL

\* A task that was claimed has all its dependencies completed.
THEOREM DependenciesAreFirst == Spec => []DependenciesFirst
<1>1. IInv => DependenciesFirst
  BY DEF IInv
<1>. QED  BY <1>1, BoardInvariant, PTL

\* Of two tasks with one deduplication key the earlier one has failed.
THEOREM WorkIsNotDuplicated == Spec => []NoDuplicateWork
<1>1. IInv => NoDuplicateWork
  BY DEF IInv
<1>. QED  BY <1>1, BoardInvariant, PTL

\* The gate decides only when no agent is at work and nothing can be offered.
THEOREM DeliveryIsLast == Spec => []NothingRunnableAtDelivery
<1>1. IInv => NothingRunnableAtDelivery
  BY DEF IInv
<1>. QED  BY <1>1, BoardInvariant, PTL

-----------------------------------------------------------------------------
\* Steps.

\* The verdict on a task is never revised, and no task disappears.
VerdictStep ==
  /\ Len(tasks) <= Len(tasks')
  /\ \A i \in TaskIds :
       tasks[i].status \in {"completed", "failed", "blocked"} => tasks'[i] = tasks[i]

\* A step that keeps the tasks keeps the verdicts.
LEMMA SameTasks == ASSUME TypeOK, UNCHANGED tasks PROVE VerdictStep
<1>1. Len(tasks) \in Nat
  BY DEF TypeOK
<1>. QED  BY <1>1 DEF VerdictStep

\* A step that changes one open or running task keeps the verdicts.
LEMMA OneTask ==
  ASSUME TypeOK, NEW i \in TaskIds, NEW t,
         tasks' = [tasks EXCEPT ![i] = t],
         tasks[i].status \in {"open", "running"}
  PROVE  VerdictStep
<1>1. Len(tasks') = Len(tasks) /\ Len(tasks) \in Nat
  BY DEF TypeOK, TaskIds
<1>2. \A j \in TaskIds : j # i => tasks'[j] = tasks[j]
  BY DEF TypeOK, TaskIds
<1>. QED  BY <1>1, <1>2 DEF VerdictStep

\* Only open and running tasks are changed, and tasks are only appended.
LEMMA NextVerdicts == ASSUME IInv, [Next]_vars PROVE VerdictStep
<1>0. TypeOK
  BY DEF IInv
<1>1. CASE UNCHANGED tasks
  BY <1>0, <1>1, SameTasks
<1>2. ASSUME NEW i \in TaskIds, BlockTask(i) PROVE VerdictStep
  <2>1. tasks[i].status = "open" /\ tasks' = [tasks EXCEPT ![i] = Blocked(tasks[i])]
    BY <1>2 DEF IInv, SnapshotReady, Ready, BlockTask
  <2>. QED  BY <1>0, <2>1, OneTask
<1>3. ASSUME NEW i \in TaskIds, NEW a \in Agents, ClaimTask(i, a) PROVE VerdictStep
  <2>1. tasks[i].status = "open" /\ tasks' = [tasks EXCEPT ![i] = Claimed(tasks[i], a)]
    BY <1>3 DEF IInv, SnapshotReady, Ready, ClaimTask
  <2>. QED  BY <1>0, <2>1, OneTask
<1>4. ASSUME NEW outcome, EndClaim(outcome) PROVE VerdictStep
  <2>1. /\ current \in TaskIds /\ tasks[current].status = "running"
        /\ tasks' = [tasks EXCEPT ![current] = Ended(tasks[current], outcome)]
    BY <1>4 DEF IInv, CurrentOK, Executing, EndClaim
  <2>. QED  BY <1>0, <2>1, OneTask
<1>5. ASSUME NEW key \in Keys, NEW needs \in Needs, NEW parent \in 0..Len(tasks),
             NEW deps \in SUBSET TaskIds, AddTask(key, needs, parent, deps)
      PROVE  VerdictStep
  <2>1. PICK new : tasks' = Append(tasks, new)
    BY <1>5 DEF AddTask
  <2>2. Len(tasks) \in Nat /\ Len(tasks') = Len(tasks) + 1
    BY <1>0, <2>1 DEF TypeOK
  <2>3. \A i \in TaskIds : tasks'[i] = tasks[i]
    BY <1>0, <2>1 DEF TypeOK, TaskIds
  <2>. QED  BY <2>2, <2>3 DEF VerdictStep
<1>6. StopForBudget \/ StartRound \/ Deliver \/ BlockDelivery \/ FinishEmptyHanded
        \/ DeduplicateTask \/ EndRound \/ (\E k \in {0, 1} : AppendArtifact(k))
      => UNCHANGED tasks
  BY DEF StopForBudget, StartRound, Deliver, BlockDelivery, FinishEmptyHanded,
         DeduplicateTask, EndRound, AppendArtifact
<1>. QED
  BY <1>1, <1>2, <1>3, <1>4, <1>5, <1>6 DEF Next, vars, CompleteTask, FailTask

\* In every step of a run, the verdicts stand.
THEOREM VerdictsAreFinal == Spec => VerdictsStand
<1>1. IInv /\ [Next]_vars => [VerdictStep]_vars
  BY NextVerdicts
<1>2. VerdictStep => /\ Len(tasks) <= Len(tasks')
                     /\ \A i \in TaskIds :
                          tasks[i].status \in {"completed", "failed", "blocked"}
                            => tasks'[i] = tasks[i]
  BY DEF VerdictStep
<1>. QED  BY <1>1, BoardInvariant, PTL DEF Spec, VerdictsStand, VerdictStep

-----------------------------------------------------------------------------
\* The claims on the tasks and the shape of the task graph.

ClaimedBy(a) == {i \in TaskIds : tasks[i].claimed_by = a}

Claims == {i \in TaskIds : Started(i)}

\* The sets that are counted are finite.
LEMMA CountedAreFinite ==
  ASSUME TypeOK
  PROVE  /\ IsFiniteSet(TaskIds)
         /\ IsFiniteSet(Claims)
         /\ \A a : IsFiniteSet(ClaimedBy(a))
         /\ \A p : IsFiniteSet(Children(p))
<1>1. IsFiniteSet(TaskIds)
  BY FS_Interval DEF TaskIds, TypeOK
<1>2. Claims \subseteq TaskIds /\ (\A a : ClaimedBy(a) \subseteq TaskIds)
      /\ (\A p : Children(p) \subseteq TaskIds)
  BY DEF Claims, ClaimedBy, Children
<1>. QED  BY <1>1, <1>2, FS_Subset

\* The board with its root task has no claims and one tree.
LEMMA InitLimits == Init => LimitsHold
<1>. SUFFICES ASSUME Init PROVE LimitsHold
  OBVIOUS
<1>1. /\ TaskIds = {1} /\ Len(tasks) = 1
      /\ tasks[1].claimed_by = NoAgent /\ tasks[1].claim_count = 0
      /\ tasks[1].deps = {} /\ tasks[1].parent = 0
  BY DEF Init, TaskIds, NewTask
<1>2. {i \in TaskIds : Started(i)} = {}
  BY <1>1 DEF Started
<1>3. \A a \in Agents : {i \in TaskIds : tasks[i].claimed_by = a} = {}
  BY <1>1, AgentsAssumption
<1>4. Children(1) = {}
  BY <1>1 DEF Children
<1>5. ClaimsAccounted
  BY <1>1, <1>2, <1>3, FS_EmptySet DEF ClaimsAccounted, Started, Init
<1>6. TaskGraphBounded
  BY <1>1, <1>4, FS_EmptySet, LimitsAssumption DEF TaskGraphBounded
<1>. QED  BY <1>5, <1>6 DEF LimitsHold

\* The shape of the graph depends on parents, dependencies and depths only.
LEMMA SameGraph ==
  ASSUME TaskGraphBounded, TaskIds' = TaskIds, Len(tasks') = Len(tasks), TaskIds = 1..Len(tasks),
         Len(tasks) \in Nat,
         \A i \in TaskIds : /\ tasks'[i].parent = tasks[i].parent
                            /\ tasks'[i].deps = tasks[i].deps
                            /\ tasks'[i].depth = tasks[i].depth
  PROVE  TaskGraphBounded'
<1>1. ASSUME NEW p PROVE Children(p)' = Children(p)
  BY DEF Children
<1>2. \A i \in TaskIds : Cardinality(Children(i)') <= MaxChildrenPerTask
  BY <1>1 DEF TaskGraphBounded
<1>3. \A i \in TaskIds :
        /\ tasks'[i].deps \subseteq 1..(i - 1)
        /\ tasks'[i].parent \in 0..(i - 1)
        /\ tasks'[i].parent # 0 =>
             /\ tasks'[i].depth = tasks'[tasks'[i].parent].depth + 1
             /\ tasks'[i].depth <= MaxTaskDepth
  BY DEF TaskGraphBounded
<1>. QED  BY <1>2, <1>3 DEF TaskGraphBounded

\* Steps that change neither a claim nor the graph.
LEMMA SameLimits ==
  ASSUME LimitsHold, TaskIds' = TaskIds, Len(tasks') = Len(tasks), TaskIds = 1..Len(tasks),
         Len(tasks) \in Nat,
         total_claims' = total_claims, agent_claims' = agent_claims,
         \A i \in TaskIds : /\ tasks'[i].parent = tasks[i].parent
                            /\ tasks'[i].deps = tasks[i].deps
                            /\ tasks'[i].depth = tasks[i].depth
                            /\ tasks'[i].claimed_by = tasks[i].claimed_by
                            /\ tasks'[i].claim_count = tasks[i].claim_count
  PROVE  LimitsHold'
<1>1. TaskGraphBounded'
  BY SameGraph DEF LimitsHold
<1>2. {i \in TaskIds' : Started(i)'} = {i \in TaskIds : Started(i)}
  BY DEF Started
<1>3. \A a \in Agents : {i \in TaskIds' : tasks'[i].claimed_by = a}
                        = {i \in TaskIds : tasks[i].claimed_by = a}
  OBVIOUS
<1>4. \A i \in TaskIds' : tasks'[i].claim_count = IF Started(i)' THEN 1 ELSE 0
  BY DEF LimitsHold, ClaimsAccounted, Started
<1>5. ClaimsAccounted'
  BY <1>2, <1>3, <1>4 DEF LimitsHold, ClaimsAccounted
<1>. QED  BY <1>1, <1>5 DEF LimitsHold

\* What the types say of the sequence of tasks.
LEMMA TasksAre ==
  ASSUME IInv
  PROVE  /\ tasks \in Seq(Task) /\ TaskIds = 1..Len(tasks) /\ Len(tasks) \in Nat
         /\ \A i \in TaskIds : tasks[i] \in Task
BY DEF IInv, TypeOK, TaskIds

\* A task that is blocked, or that ends, keeps its claim and its place.
LEMMA StatusLimits ==
  ASSUME IInv, LimitsHold, NEW i \in TaskIds, NEW outcome \in TaskStatus,
         tasks' = [tasks EXCEPT ![i] = [tasks[i] EXCEPT !.status = outcome]],
         total_claims' = total_claims, agent_claims' = agent_claims
  PROVE  LimitsHold'
<1>1. /\ tasks \in Seq(Task) /\ TaskIds = 1..Len(tasks) /\ Len(tasks) \in Nat
      /\ \A j \in TaskIds : tasks[j] \in Task
  BY TasksAre
<1>. DEFINE t == [tasks[i] EXCEPT !.status = outcome]
<1>2. /\ t \in Task
      /\ t.parent = tasks[i].parent /\ t.deps = tasks[i].deps /\ t.depth = tasks[i].depth
      /\ t.claimed_by = tasks[i].claimed_by /\ t.claim_count = tasks[i].claim_count
  BY <1>1 DEF Task
<1>. HIDE DEF t
<1>3. /\ TaskIds' = TaskIds /\ Len(tasks') = Len(tasks)
      /\ tasks'[i] = t
      /\ \A j \in TaskIds : j # i => tasks'[j] = tasks[j]
  BY <1>1, <1>2 DEF TaskIds, t
<1>. QED  BY <1>1, <1>2, <1>3, SameLimits

\* A claim is counted on the task, for the agent and for the run.
LEMMA ClaimLimits ==
  ASSUME IInv, LimitsHold, NEW i \in TaskIds, NEW a \in Agents, ClaimTask(i, a)
  PROVE  LimitsHold'
<1>1. /\ tasks \in Seq(Task) /\ TaskIds = 1..Len(tasks) /\ Len(tasks) \in Nat
      /\ \A j \in TaskIds : tasks[j] \in Task
  BY TasksAre
<1>2. /\ tasks[i].claimed_by = NoAgent /\ tasks[i].claim_count = 0
  <2>1. tasks[i].status = "open"
    BY DEF ClaimTask, IInv, SnapshotReady, Ready
  <2>. QED  BY <2>1 DEF IInv, TasksOK, LimitsHold, ClaimsAccounted, Started
<1>. DEFINE t == Claimed(tasks[i], a)
<1>3. /\ t.parent = tasks[i].parent /\ t.deps = tasks[i].deps /\ t.depth = tasks[i].depth
      /\ t.claimed_by = a /\ t.claim_count = 1
  <2>1. tasks[i] \in Task
    BY <1>1
  <2>. QED  BY <1>2, <2>1 DEF Claimed, Task
<1>4. tasks' = [tasks EXCEPT ![i] = t]
  BY DEF ClaimTask
<1>. HIDE DEF t
<1>5. /\ TaskIds' = TaskIds /\ Len(tasks') = Len(tasks)
      /\ tasks'[i] = t
      /\ \A j \in TaskIds : j # i => tasks'[j] = tasks[j]
  BY <1>1, <1>4 DEF TaskIds
<1>6. TaskGraphBounded'
  BY <1>1, <1>3, <1>5, SameGraph DEF LimitsHold
<1>7. IsFiniteSet(Claims) /\ \A b : IsFiniteSet(ClaimedBy(b))
  BY CountedAreFinite DEF IInv
<1>8. a # NoAgent
  BY AgentsAssumption
<1>9. Cardinality(Claims') = Cardinality(Claims) + 1
  <2>1. Claims' = Claims \cup {i} /\ i \notin Claims
    BY <1>2, <1>3, <1>5, <1>8 DEF Claims, Started
  <2>. QED  BY <1>7, <2>1, FS_AddElement
<1>10. Cardinality(ClaimedBy(a)') = Cardinality(ClaimedBy(a)) + 1
  <2>1. ClaimedBy(a)' = ClaimedBy(a) \cup {i} /\ i \notin ClaimedBy(a)
    BY <1>2, <1>3, <1>5, <1>8 DEF ClaimedBy
  <2>. QED  BY <1>7, <2>1, FS_AddElement
<1>11. \A b \in Agents \ {a} : ClaimedBy(b)' = ClaimedBy(b)
  BY <1>2, <1>3, <1>5, <1>8, AgentsAssumption DEF ClaimedBy
<1>12. /\ total_claims' = total_claims + 1
       /\ agent_claims' = [agent_claims EXCEPT ![a] = @ + 1]
       /\ agent_claims \in [Agents -> 0..MaxClaimsPerAgent]
  BY DEF ClaimTask, IInv, TypeOK
<1>13. total_claims' = Cardinality(Claims')
  BY <1>9, <1>12 DEF LimitsHold, ClaimsAccounted, Claims
<1>14. \A b \in Agents : agent_claims'[b] = Cardinality(ClaimedBy(b)')
  <2>1. \A b \in Agents : agent_claims[b] = Cardinality(ClaimedBy(b))
    BY DEF LimitsHold, ClaimsAccounted, ClaimedBy
  <2>2. agent_claims'[a] = agent_claims[a] + 1
        /\ \A b \in Agents \ {a} : agent_claims'[b] = agent_claims[b]
    BY <1>12
  <2>. QED  BY <1>10, <1>11, <2>1, <2>2
<1>15. \A j \in TaskIds' : tasks'[j].claim_count = IF Started(j)' THEN 1 ELSE 0
  BY <1>3, <1>5, <1>8 DEF LimitsHold, ClaimsAccounted, Started
<1>16. ClaimsAccounted'
  BY <1>13, <1>14, <1>15 DEF ClaimsAccounted, Claims, ClaimedBy
<1>. QED  BY <1>6, <1>16 DEF LimitsHold

\* A new task is the last child of its parent and nobody's claim.
LEMMA AddTaskLimits ==
  ASSUME IInv, LimitsHold, NEW key \in Keys, NEW needs \in Needs, NEW parent \in 0..Len(tasks),
         NEW deps \in SUBSET TaskIds, AddTask(key, needs, parent, deps)
  PROVE  LimitsHold'
<1>1. /\ tasks \in Seq(Task) /\ TaskIds = 1..Len(tasks) /\ Len(tasks) \in Nat
      /\ \A j \in TaskIds : tasks[j] \in Task
  BY TasksAre
<1>0. PICK n \in Nat : n = Len(tasks) + 1
  BY <1>1
<1>. DEFINE depth == IF parent = 0 THEN 0 ELSE tasks[parent].depth + 1
            new == NewTask(key, needs, parent, deps, depth)
<1>2. /\ new.parent = parent /\ new.deps = deps /\ new.depth = depth
      /\ new.claimed_by = NoAgent /\ new.claim_count = 0
  BY DEF NewTask
<1>3. tasks' = Append(tasks, new) /\ Admissible(parent)
      /\ total_claims' = total_claims /\ agent_claims' = agent_claims
  BY DEF AddTask, boardVars
<1>. HIDE DEF new
<1>4. /\ TaskIds' = TaskIds \cup {n} /\ n \notin TaskIds /\ n \in Nat
      /\ Len(tasks') = n
      /\ tasks'[n] = new
      /\ \A j \in TaskIds : tasks'[j] = tasks[j]
  BY <1>0, <1>1, <1>3 DEF TaskIds
<1>5. ClaimsAccounted'
  <2>1. {j \in TaskIds' : Started(j)'} = {j \in TaskIds : Started(j)}
    BY <1>2, <1>4 DEF Started
  <2>2. \A a \in Agents : {j \in TaskIds' : tasks'[j].claimed_by = a}
                          = {j \in TaskIds : tasks[j].claimed_by = a}
    BY <1>2, <1>4, AgentsAssumption
  <2>3. \A j \in TaskIds' : tasks'[j].claim_count = IF Started(j)' THEN 1 ELSE 0
    BY <1>2, <1>4 DEF LimitsHold, ClaimsAccounted, Started
  <2>. QED  BY <1>3, <2>1, <2>2, <2>3 DEF LimitsHold, ClaimsAccounted
<1>6. \A p : p # parent => Children(p)' = Children(p)
  BY <1>2, <1>4 DEF Children
<1>7. Children(parent)' = Children(parent) \cup {n} /\ n \notin Children(parent)
  BY <1>2, <1>4 DEF Children
<1>8. Children(n) = {}
  <2>1. \A j \in TaskIds : tasks[j].parent \in 0..(j - 1)
    BY DEF LimitsHold, TaskGraphBounded
  <2>. QED  BY <1>0, <1>1, <2>1 DEF Children
<1>9. \A j \in TaskIds' : Cardinality(Children(j)') <= MaxChildrenPerTask
  <2>1. n # parent
    BY <1>0, <1>1
  <2>2. Cardinality(Children(n)') <= MaxChildrenPerTask
    <3>1. Children(n)' = {}
      BY <1>6, <1>8, <2>1
    <3>2. Cardinality({}) = 0
      BY FS_EmptySet
    <3>3. 0 <= MaxChildrenPerTask
      BY LimitsAssumption
    <3>. QED  BY <3>1, <3>2, <3>3
  <2>3. \A j \in TaskIds : j # parent => Cardinality(Children(j)') <= MaxChildrenPerTask
    BY <1>6 DEF LimitsHold, TaskGraphBounded
  <2>4. parent # 0 => Cardinality(Children(parent)') <= MaxChildrenPerTask
    <3>1. IsFiniteSet(Children(parent))
      BY CountedAreFinite DEF IInv
    <3>2. Cardinality(Children(parent)) \in Nat
      BY <3>1, FS_CardinalityType
    <3>3. Cardinality(Children(parent)') = Cardinality(Children(parent)) + 1
      BY <1>7, <3>1, FS_AddElement
    <3>4. parent # 0 => Cardinality(Children(parent)) < MaxChildrenPerTask
      BY <1>3 DEF Admissible
    <3>. QED  BY <3>2, <3>3, <3>4, LimitsAssumption
  <2>5. 0 \notin TaskIds
    BY <1>1
  <2>6. \A j \in TaskIds' : j = n \/ (j \in TaskIds /\ j # 0)
    BY <1>4, <2>5
  <2>. QED  BY <2>2, <2>3, <2>4, <2>6, Zenon
<1>10. /\ tasks'[n].deps \subseteq 1..(n - 1)
       /\ tasks'[n].parent \in 0..(n - 1)
       /\ tasks'[n].parent # 0 =>
            /\ tasks'[n].depth = tasks'[tasks'[n].parent].depth + 1
            /\ tasks'[n].depth <= MaxTaskDepth
  <2>1. n - 1 = Len(tasks)
    BY <1>0, <1>1
  <2>2. parent # 0 => parent \in TaskIds
    BY <1>1
  <2>. QED  BY <1>1, <1>2, <1>3, <1>4, <2>1, <2>2 DEF Admissible
<1>11. \A j \in TaskIds :
         /\ tasks'[j].deps \subseteq 1..(j - 1)
         /\ tasks'[j].parent \in 0..(j - 1)
         /\ tasks'[j].parent # 0 =>
              /\ tasks'[j].depth = tasks'[tasks'[j].parent].depth + 1
              /\ tasks'[j].depth <= MaxTaskDepth
  <2>1. ASSUME NEW j \in TaskIds, tasks[j].parent # 0 PROVE tasks[j].parent \in TaskIds
    <3>1. tasks[j].parent \in 0..(j - 1) /\ j \in 1..Len(tasks)
      BY <1>1 DEF LimitsHold, TaskGraphBounded
    <3>. QED  BY <1>1, <2>1, <3>1
  <2>. QED  BY <1>4, <2>1 DEF LimitsHold, TaskGraphBounded
<1>12. Len(tasks') <= MaxTasks
  BY <1>0, <1>1, <1>3, <1>4, LimitsAssumption DEF Admissible
<1>13. TaskGraphBounded'
  BY <1>4, <1>9, <1>10, <1>11, <1>12 DEF TaskGraphBounded
<1>. QED  BY <1>5, <1>13 DEF LimitsHold

\* Every step keeps the accounts and the graph.
LEMMA NextLimits == IInv /\ LimitsHold /\ [Next]_vars => LimitsHold'
<1>. SUFFICES ASSUME IInv, LimitsHold, [Next]_vars PROVE LimitsHold'
  OBVIOUS
<1>1. ASSUME UNCHANGED <<tasks, total_claims, agent_claims>> PROVE LimitsHold'
  BY <1>1, TasksAre, SameLimits DEF TaskIds
<1>2. CASE \/ StopForBudget \/ StartRound \/ Deliver \/ BlockDelivery \/ FinishEmptyHanded
           \/ DeduplicateTask \/ EndRound \/ UNCHANGED vars
           \/ \E k \in {0, 1} : AppendArtifact(k)
  <2>1. UNCHANGED <<tasks, total_claims, agent_claims>>
    BY <1>2 DEF StopForBudget, StartRound, Deliver, BlockDelivery, FinishEmptyHanded,
                DeduplicateTask, EndRound, AppendArtifact, vars, boardVars
  <2>. QED  BY <1>1, <2>1
<1>3. ASSUME NEW i \in TaskIds, BlockTask(i) PROVE LimitsHold'
  <2>1. /\ tasks' = [tasks EXCEPT ![i] = [tasks[i] EXCEPT !.status = "blocked"]]
        /\ total_claims' = total_claims /\ agent_claims' = agent_claims
    BY <1>3 DEF BlockTask, Blocked, boardVars
  <2>2. "blocked" \in TaskStatus
    BY DEF TaskStatus
  <2>. QED  BY <2>1, <2>2, StatusLimits
<1>4. ASSUME NEW outcome \in {"completed", "failed"}, EndClaim(outcome) PROVE LimitsHold'
  <2>1. /\ tasks' = [tasks EXCEPT ![current] = [tasks[current] EXCEPT !.status = outcome]]
        /\ total_claims' = total_claims /\ agent_claims' = agent_claims
    BY <1>4 DEF EndClaim, Ended, boardVars
  <2>2. outcome \in TaskStatus /\ current \in TaskIds
    BY <1>4 DEF TaskStatus, EndClaim, IInv, CurrentOK, Executing
  <2>. QED  BY <2>1, <2>2, StatusLimits
<1>. QED
  BY <1>2, <1>3, <1>4, ClaimLimits, AddTaskLimits DEF Next, CompleteTask, FailTask

\* The counters that limit a run are exactly the claims on its tasks, no task is
\* executed twice, and the task graph is a forest within the limits on depth,
\* children and tasks.
THEOREM LimitsAreKept == Spec => []LimitsHold
<1>. QED  BY InitIInv, NextIInv, InitLimits, NextLimits, PTL DEF Spec

-----------------------------------------------------------------------------
\* How far the claims of a run overrun their budget.

\* What the agents may claim in one round, and what they have claimed in this
\* one: a pair for every claim that a round allows an agent, so that counting
\* the pairs adds up claims_this_round.
RoundClaims == Agents \X (1..MaxClaimsPerAgentPerRound)

Spent == {p \in RoundClaims : p[2] <= claims_this_round[p[1]]}

Room == Cardinality(Agents) * MaxClaimsPerAgentPerRound

\* A round starts below the budget, and what was claimed since then is what its
\* agents have spent, with the claim that is being executed, which is charged to
\* its agent only when it ends.
OverrunInv ==
  /\ total_claims < MaxTotalClaims + Room
  /\ pc = "dispatch" => total_claims < MaxTotalClaims + Cardinality(Spent)
  /\ Executing => total_claims < MaxTotalClaims + Cardinality(Spent) + 1

\* The agents can make Room claims in a round, and what they spent is a part.
LEMMA SpentFits ==
  /\ IsFiniteSet(RoundClaims) /\ Cardinality(RoundClaims) = Room /\ Room \in Nat
  /\ IsFiniteSet(Spent) /\ Cardinality(Spent) \in Nat /\ Cardinality(Spent) <= Room
<1>. USE LimitsAssumption, AgentsAssumption
<1>1. /\ IsFiniteSet(1..MaxClaimsPerAgentPerRound)
      /\ Cardinality(1..MaxClaimsPerAgentPerRound) = MaxClaimsPerAgentPerRound
  BY FS_Interval
<1>2. IsFiniteSet(RoundClaims) /\ Cardinality(RoundClaims) = Room
  BY <1>1, FS_Product DEF RoundClaims, Room
<1>3. Spent \in SUBSET RoundClaims
  BY DEF Spent
<1>4. IsFiniteSet(Spent) /\ Cardinality(Spent) <= Cardinality(RoundClaims)
  BY <1>2, <1>3, FS_Subset
<1>. QED  BY <1>2, <1>4, FS_CardinalityType

\* As long as one agent has a claim left in this round, there is room for it.
LEMMA RoomForOne ==
  ASSUME TypeOK, NEW a \in Agents, claims_this_round[a] < MaxClaimsPerAgentPerRound
  PROVE  Cardinality(Spent) + 1 <= Room
<1>. DEFINE p == <<a, claims_this_round[a] + 1>>
<1>1. claims_this_round[a] \in Nat /\ MaxClaimsPerAgentPerRound \in Nat
  BY LimitsAssumption DEF TypeOK
<1>2. p \in RoundClaims /\ p \notin Spent
  BY <1>1 DEF RoundClaims, Spent
<1>3. Spent \cup {p} \in SUBSET RoundClaims
  BY <1>2 DEF Spent
<1>. HIDE DEF p
<1>4. Cardinality(Spent \cup {p}) = Cardinality(Spent) + 1
  BY <1>2, SpentFits, FS_AddElement
<1>5. Cardinality(Spent \cup {p}) <= Cardinality(RoundClaims)
  BY <1>3, SpentFits, FS_Subset
<1>. QED  BY <1>4, <1>5, SpentFits

\* A claim that ends is charged to its agent: it has spent one more.
LEMMA ChargeClaim ==
  ASSUME TypeOK, NEW a \in Agents, claims_this_round[a] < MaxClaimsPerAgentPerRound,
         claims_this_round' = [claims_this_round EXCEPT ![a] = @ + 1]
  PROVE  Cardinality(Spent') = Cardinality(Spent) + 1
<1>. DEFINE p == <<a, claims_this_round[a] + 1>>
<1>1. /\ claims_this_round \in [Agents -> Nat]
      /\ MaxClaimsPerAgentPerRound \in Nat
  BY LimitsAssumption DEF TypeOK
<1>2. p \in RoundClaims /\ p \notin Spent
  BY <1>1 DEF RoundClaims, Spent
<1>3. Spent' = Spent \cup {p}
  <2>1. ASSUME NEW b \in Agents, NEW n \in 1..MaxClaimsPerAgentPerRound
        PROVE  n <= claims_this_round'[b] <=> (n <= claims_this_round[b] \/ <<b, n>> = p)
    <3>1. CASE b = a
      <4>1. claims_this_round'[b] = claims_this_round[a] + 1
        BY <3>1, <1>1
      <4>. QED  BY <3>1, <4>1, <1>1
    <3>2. CASE b # a
      <4>1. claims_this_round'[b] = claims_this_round[b]
        BY <3>2, <1>1
      <4>. QED  BY <3>2, <4>1
    <3>. QED  BY <3>1, <3>2
  <2>. HIDE DEF p
  <2>2. ASSUME NEW q \in RoundClaims
        PROVE  q[2] <= claims_this_round'[q[1]] <=> (q[2] <= claims_this_round[q[1]] \/ q = p)
    <3>1. q[1] \in Agents /\ q[2] \in 1..MaxClaimsPerAgentPerRound /\ q = <<q[1], q[2]>>
      BY DEF RoundClaims
    <3>. QED  BY <2>1, <3>1
  <2>3. Spent' = {q \in RoundClaims : q[2] <= claims_this_round'[q[1]]}
    BY DEF Spent, RoundClaims
  <2>. QED  BY <2>2, <2>3, <1>2 DEF Spent
<1>. HIDE DEF p
<1>. QED  BY <1>2, <1>3, SpentFits, FS_AddElement

\* The board with its root task has no claim yet.
LEMMA InitOverrun == Init => OverrunInv
<1>. QED  BY SpentFits, LimitsAssumption DEF Init, OverrunInv, Executing

\* No step exceeds the budget by more than what its round has claimed.
LEMMA NextOverrun == IInv /\ OverrunInv /\ [Next]_vars => OverrunInv'
<1>. SUFFICES ASSUME IInv, OverrunInv, [Next]_vars PROVE OverrunInv'
  OBVIOUS
<1>t. TypeOK /\ total_claims \in Nat /\ MaxTotalClaims \in Nat
  BY LimitsAssumption DEF IInv, TypeOK
<1>f. /\ Room \in Nat /\ Room' = Room
      /\ Cardinality(Spent) \in Nat /\ Cardinality(Spent)' \in Nat
      /\ Cardinality(Spent) <= Room
  <2>1. Cardinality(Spent)' \in Nat
    <3>1. Spent' \in SUBSET RoundClaims
      BY DEF Spent, RoundClaims
    <3>. QED  BY <3>1, SpentFits, FS_Subset, FS_CardinalityType
  <2>. QED  BY <2>1, SpentFits DEF Room
\* Neither a claim nor a charge is made.
<1>1. ASSUME total_claims' = total_claims, claims_this_round' = claims_this_round,
             pc' = "round" \/ pc' = pc \/ (Executing /\ Executing')
      PROVE  OverrunInv'
  <2>1. Cardinality(Spent)' = Cardinality(Spent)
    BY <1>1 DEF Spent, RoundClaims
  <2>. QED  BY <1>1, <2>1, <1>f DEF OverrunInv, Executing
<1>2. CASE \/ StopForBudget \/ DeduplicateTask \/ EndRound \/ UNCHANGED vars
           \/ \E i \in TaskIds : BlockTask(i)
           \/ \E k \in {0, 1} : AppendArtifact(k)
           \/ \E key \in Keys, needs \in Needs, parent \in 0..Len(tasks),
                 deps \in SUBSET TaskIds : AddTask(key, needs, parent, deps)
  <2>1. /\ total_claims' = total_claims /\ claims_this_round' = claims_this_round
        /\ pc' = "round" \/ pc' = pc \/ (Executing /\ Executing')
    BY <1>2 DEF StopForBudget, DeduplicateTask, EndRound, BlockTask, AppendArtifact, AddTask,
                Executing, vars, boardVars, roundVars
  <2>. QED  BY <1>1, <2>1
<1>3. CASE Deliver \/ BlockDelivery \/ FinishEmptyHanded
  <2>1. total_claims' = total_claims /\ pc' = "round"
    BY <1>3 DEF Deliver, BlockDelivery, FinishEmptyHanded, NothingToOffer, EnterRound,
                AtRoundStart
  <2>. QED  BY <2>1, <1>f DEF OverrunInv, Executing
<1>4. CASE StartRound
  <2>1. total_claims' = total_claims /\ pc' = "dispatch" /\ total_claims < MaxTotalClaims
    BY <1>4, <1>t DEF StartRound, EnterRound, BudgetExhausted
  <2>. QED  BY <2>1, <1>t, <1>f DEF OverrunInv, Executing
<1>5. ASSUME NEW i \in TaskIds, NEW a \in Agents, ClaimTask(i, a) PROVE OverrunInv'
  <2>1. /\ total_claims' = total_claims + 1 /\ pc = "dispatch" /\ pc' = "artifacts"
        /\ claims_this_round[a] < MaxClaimsPerAgentPerRound
    BY <1>5 DEF ClaimTask, Candidates
  <2>2. Cardinality(Spent)' = Cardinality(Spent)
    BY <1>5 DEF ClaimTask, Spent, RoundClaims
  <2>3. Cardinality(Spent) + 1 <= Room
    BY <2>1, <1>t, RoomForOne
  <2>. QED  BY <2>1, <2>2, <2>3, <1>t, <1>f DEF OverrunInv, Executing
<1>6. ASSUME NEW outcome \in {"completed", "failed"}, EndClaim(outcome) PROVE OverrunInv'
  <2>. DEFINE a == tasks[current].claimed_by
  <2>1. Executing /\ pc' = "dispatch" /\ total_claims' = total_claims
    BY <1>6 DEF EndClaim, Executing, boardVars
  <2>2. a \in Agents /\ claims_this_round[a] < MaxClaimsPerAgentPerRound
    BY <2>1 DEF IInv, CurrentOK
  <2>3. claims_this_round' = [claims_this_round EXCEPT ![a] = @ + 1]
    BY <1>6 DEF EndClaim
  <2>. HIDE DEF a
  <2>4. Cardinality(Spent)' = Cardinality(Spent) + 1
    BY <2>2, <2>3, <1>t, ChargeClaim
  <2>. QED  BY <2>1, <2>4, <1>t, <1>f DEF OverrunInv, Executing
<1>. QED
  BY <1>2, <1>3, <1>4, <1>5, <1>6 DEF Next, CompleteTask, FailTask

\* The claim budget is only looked at between two rounds.  A run overruns it by
\* no more than what all its agents may claim in one round, whichever of them
\* claim, fail or derive new tasks on the way.
THEOREM OverrunIsBounded == Spec => []ClaimOverrunBounded
<1>1. OverrunInv => ClaimOverrunBounded
  BY DEF OverrunInv, ClaimOverrunBounded, Room
<1>. QED  BY <1>1, InitIInv, NextIInv, InitOverrun, NextOverrun, PTL DEF Spec

-----------------------------------------------------------------------------
\* The board implements RunContract (safety; that a run stops is left to TLC).

\* A board with its root task is a run that has not started a round.
LEMMA ContractInit == Init => Contract!Init
<1>. QED  BY DEF Init, Contract!Init

\* Every step of the board starts a round, stops the run with one of the three
\* outcomes, or is invisible to the harness.
LEMMA ContractStep == ASSUME IInv, [Next]_vars PROVE [Contract!Next]_(Contract!vars)
<1>. USE DEF Contract!vars
<1>1. CASE UNCHANGED <<status, round, accepted>>
  BY <1>1
<1>2. CASE StartRound
  BY <1>2, LimitsAssumption DEF IInv, TypeOK, StartRound, EnterRound, AtRoundStart,
     BudgetExhausted, Contract!Next, Contract!StartRound
<1>3. CASE StopForBudget
  BY <1>3 DEF IInv, RunOK, StopForBudget, AtRoundStart, boardVars, Contract!Next,
     Contract!Stop, Contract!Outcomes
<1>4. CASE Deliver \/ BlockDelivery
  <2>1. /\ status = "running" /\ round < MaxRounds /\ round' = round + 1
        /\ <<status', accepted'>> \in {<<"completed", "final">>, <<"failed", "safe_error">>}
    BY <1>4, LimitsAssumption DEF IInv, TypeOK, Deliver, BlockDelivery, NothingToOffer,
       EnterRound, AtRoundStart, BudgetExhausted
  <2>. QED  BY <2>1 DEF Contract!Next, Contract!Stop, Contract!Outcomes
<1>5. CASE FinishEmptyHanded
  <2>1. /\ status = "running" /\ round < MaxRounds /\ round' = round + 1
        /\ accepted = "none" /\ accepted' = "none"
        /\ status' \in {"running", "limited"}
    BY <1>5, LimitsAssumption DEF IInv, TypeOK, RunOK, FinishEmptyHanded, NothingToOffer,
       EnterRound, AtRoundStart, BudgetExhausted
  <2>2. CASE status' = "running"
    BY <2>1, <2>2 DEF Contract!Next, Contract!StartRound
  <2>3. CASE status' = "limited"
    BY <2>1, <2>3 DEF Contract!Next, Contract!Stop, Contract!Outcomes
  <2>. QED  BY <2>1, <2>2, <2>3
<1>6. CASE EndRound
  <2>1. /\ status = "running" /\ accepted = "none" /\ accepted' = "none" /\ round' = round
        /\ status' \in {"running", "limited"}
    BY <1>6 DEF IInv, RunOK, EndRound
  <2>. QED  BY <2>1 DEF Contract!Next, Contract!Stop, Contract!Outcomes
<1>7. ASSUME ~ UNCHANGED <<status, round, accepted>>
      PROVE  StartRound \/ StopForBudget \/ Deliver \/ BlockDelivery
               \/ FinishEmptyHanded \/ EndRound
  BY <1>7 DEF Next, vars, boardVars, BlockTask, ClaimTask, AppendArtifact, AddTask,
     DeduplicateTask, CompleteTask, FailTask, EndClaim
<1>. QED  BY <1>1, <1>2, <1>3, <1>4, <1>5, <1>6, <1>7

\* What a run shows to the harness is a run of the contract: it starts at most
\* MaxRounds rounds, accepts something only together with stopping, and does
\* nothing after that.
THEOREM ImplementsContractSafety ==
  Spec => Contract!Init /\ [][Contract!Next]_(Contract!vars)
<1>1. IInv /\ [Next]_vars => [Contract!Next]_(Contract!vars)
  BY ContractStep
<1>. QED  BY <1>1, ContractInit, BoardInvariant, PTL DEF Spec

\* A run that goes on has accepted nothing, and one that stopped is one of the
\* three outcomes the harness can meet.
THEOREM StoppedRunIsOutcome == Spec => []Contract!OutcomeConsistent
<1>1. Contract!Init => Contract!OutcomeConsistent
  BY DEF Contract!Init, Contract!OutcomeConsistent
<1>2. Contract!OutcomeConsistent /\ [Contract!Next]_(Contract!vars)
        => Contract!OutcomeConsistent'
  BY DEF Contract!Next, Contract!StartRound, Contract!Stop, Contract!vars,
         Contract!OutcomeConsistent, Contract!Outcomes
<1>. QED  BY <1>1, <1>2, ImplementsContractSafety, PTL

-----------------------------------------------------------------------------
\* No run goes on for ever.

\* What a run has still before it, what weighs most first: the stop, rounds, the rest
\* of a round, tasks to offer, the end of a delivery, tasks and artifacts to add.
Ahead ==
  << IF status = "running" THEN 1 ELSE 0,
     MaxRounds - round,
     IF pc = "round" THEN 0 ELSE 1,
     Cardinality(todo),
     IF Executing THEN 1 ELSE 0,
     MaxTasks - Len(tasks),
     IF pc = "artifacts" THEN 1 ELSE 0,
     (MaxArtifacts + 1) - artifacts >>

Shorter == LexProductOrdering(OpToRel(<, Nat), Nat, 8)

\* Of the artifacts only the safe error of the gate may be one too many, the last.
ArtifactsFit == artifacts <= MaxArtifacts + (IF status = "running" THEN 0 ELSE 1)

LEMMA InitArtifacts == Init => ArtifactsFit
BY LimitsAssumption DEF Init, ArtifactsFit

LEMMA NextArtifacts == IInv /\ ArtifactsFit /\ [Next]_vars => ArtifactsFit'
<1>. SUFFICES ASSUME IInv, ArtifactsFit, [Next]_vars PROVE ArtifactsFit'
  OBVIOUS
<1>1. artifacts \in Nat /\ MaxArtifacts \in Nat /\ (pc # "round" => status = "running")
  BY LimitsAssumption DEF IInv, TypeOK, RunOK
<1>2. CASE BlockDelivery
  BY <1>1, <1>2 DEF BlockDelivery, NothingToOffer, EnterRound, AtRoundStart, ArtifactsFit
<1>3. ASSUME NEW k \in {0, 1}, AppendArtifact(k) PROVE ArtifactsFit'
  BY <1>1, <1>3 DEF AppendArtifact, ArtifactsFit
<1>4. ASSUME UNCHANGED artifacts, status' = "running" => status = "running" PROVE ArtifactsFit'
  BY <1>1, <1>4 DEF ArtifactsFit
<1>5. CASE StopForBudget \/ StartRound \/ Deliver \/ FinishEmptyHanded \/ DeduplicateTask \/ EndRound
  BY <1>1, <1>4, <1>5 DEF StopForBudget, StartRound, Deliver, FinishEmptyHanded, DeduplicateTask,
     EndRound, AtRoundStart, NothingToOffer, EnterRound
<1>6. ASSUME NEW i, BlockTask(i) \/ \E a \in Agents : ClaimTask(i, a) PROVE ArtifactsFit'
  BY <1>4, <1>6 DEF BlockTask, ClaimTask
<1>7. ASSUME NEW key, NEW needs, NEW parent, NEW deps, AddTask(key, needs, parent, deps)
      PROVE  ArtifactsFit'
  BY <1>4, <1>7 DEF AddTask
<1>8. ASSUME NEW outcome, EndClaim(outcome) PROVE ArtifactsFit'
  BY <1>4, <1>8 DEF EndClaim
<1>9. CASE UNCHANGED vars
  BY <1>4, <1>9 DEF vars
<1>. QED  BY <1>2, <1>3, <1>5, <1>6, <1>7, <1>8, <1>9 DEF Next, CompleteTask, FailTask

AheadOK ==
  /\ Ahead \in [1..8 -> Nat]
  /\ IsFiniteSet(todo) /\ Cardinality(todo) \in Nat

LEMMA EightNumbers ==
  ASSUME NEW a \in Nat, NEW b \in Nat, NEW c \in Nat, NEW d \in Nat,
         NEW e \in Nat, NEW f \in Nat, NEW g \in Nat, NEW h \in Nat
  PROVE  <<a, b, c, d, e, f, g, h>> \in [1..8 -> Nat]
OBVIOUS

\* Each place is a number.
LEMMA AheadType ==
  ASSUME TypeOK, ArtifactsFit, LimitsHold
  PROVE  AheadOK
<1>1. /\ MaxRounds \in Nat /\ MaxTasks \in Nat /\ MaxArtifacts \in Nat
      /\ round \in Nat /\ round <= MaxRounds /\ artifacts \in Nat /\ artifacts <= MaxArtifacts + 1
      /\ Len(tasks) \in Nat /\ Len(tasks) <= MaxTasks
  BY LimitsAssumption DEF TypeOK, ArtifactsFit, LimitsHold, TaskGraphBounded
<1>2. IsFiniteSet(todo) /\ Cardinality(todo) \in Nat
  <2>1. IsFiniteSet(TaskIds) /\ todo \in SUBSET TaskIds
    BY FS_Interval DEF TypeOK, TaskIds
  <2>. QED  BY <2>1, FS_Subset, FS_CardinalityType
<1>3. /\ MaxRounds - round \in Nat /\ MaxTasks - Len(tasks) \in Nat
      /\ (MaxArtifacts + 1) - artifacts \in Nat
  BY <1>1
<1>4. /\ (IF status = "running" THEN 1 ELSE 0) \in Nat
      /\ (IF pc = "round" THEN 0 ELSE 1) \in Nat
      /\ (IF Executing THEN 1 ELSE 0) \in Nat
      /\ (IF pc = "artifacts" THEN 1 ELSE 0) \in Nat
  OBVIOUS
<1>5. Ahead \in [1..8 -> Nat]
  BY <1>2, <1>3, <1>4, EightNumbers DEF Ahead
<1>. QED  BY <1>2, <1>5 DEF AheadOK

\* Less at one place, the same before it.
LEMMA ShorterAt ==
  ASSUME NEW s \in [1..8 -> Nat], NEW t \in [1..8 -> Nat], NEW k \in 1..8,
         t[k] < s[k], \A j \in 1..(k - 1) : t[j] = s[j]
  PROVE  <<t, s>> \in Shorter
<1>1. <<t[k], s[k]>> \in OpToRel(<, Nat)
  BY DEF OpToRel
<1>. QED  BY <1>1 DEF Shorter, LexProductOrdering

LEMMA TakenOut ==
  ASSUME NEW S, IsFiniteSet(S), NEW x \in S
  PROVE  Cardinality(S \ {x}) < Cardinality(S)
<1>1. Cardinality(S) \in Nat
  BY FS_CardinalityType
<1>2. Cardinality(S \ {x}) = Cardinality(S) - 1
  BY FS_RemoveElement
<1>. QED  BY <1>1, <1>2

\* A step leaves less ahead.
Shortens == Ahead \in [1..8 -> Nat] /\ <<Ahead', Ahead>> \in Shorter

LEMMA StepsShorten ==
  ASSUME IInv, AheadOK, AheadOK', Next
  PROVE  <<Ahead', Ahead>> \in Shorter
<1>1. /\ Ahead \in [1..8 -> Nat] /\ Ahead' \in [1..8 -> Nat]
      /\ IsFiniteSet(todo) /\ Cardinality(todo) \in Nat
  BY DEF AheadOK
<1>2. /\ MaxRounds \in Nat /\ MaxTasks \in Nat /\ MaxArtifacts \in Nat
      /\ round \in Nat /\ artifacts \in Nat /\ Len(tasks) \in Nat
      /\ (pc # "round" => status = "running")
  <2>1. MaxRounds \in Nat /\ MaxTasks \in Nat /\ MaxArtifacts \in Nat
    BY LimitsAssumption
  <2>2. round \in Nat /\ artifacts \in Nat /\ Len(tasks) \in Nat
    BY <2>1 DEF IInv, TypeOK
  <2>. QED  BY <2>1, <2>2 DEF IInv, RunOK
<1>3. ASSUME status = "running", status' # "running" PROVE <<Ahead', Ahead>> \in Shorter
  <2>1. Ahead'[1] < Ahead[1]
    BY <1>3 DEF Ahead
  <2>. QED  BY <1>1, <2>1, ShorterAt
<1>4. ASSUME status' = status, round' = round + 1 PROVE <<Ahead', Ahead>> \in Shorter
  <2>1. Ahead'[1] = Ahead[1] /\ Ahead'[2] < Ahead[2]
    BY <1>2, <1>4 DEF Ahead
  <2>2. \A j \in 1..(2 - 1) : Ahead'[j] = Ahead[j]
    BY <2>1
  <2>. QED  BY <1>1, <2>1, <2>2, ShorterAt
<1>5. ASSUME status' = status, round' = round, pc # "round", pc' = "round"
      PROVE  <<Ahead', Ahead>> \in Shorter
  <2>1. Ahead'[1] = Ahead[1] /\ Ahead'[2] = Ahead[2] /\ Ahead'[3] < Ahead[3]
    BY <1>5 DEF Ahead
  <2>2. \A j \in 1..(3 - 1) : Ahead'[j] = Ahead[j]
    BY <2>1
  <2>. QED  BY <1>1, <2>1, <2>2, ShorterAt
<1>6. ASSUME status' = status, round' = round, pc # "round", pc' # "round",
             NEW i \in todo, todo' = todo \ {i}
      PROVE  <<Ahead', Ahead>> \in Shorter
  <2>1. Cardinality(todo') < Cardinality(todo)
    BY <1>1, <1>6, TakenOut
  <2>2. Ahead'[1] = Ahead[1] /\ Ahead'[2] = Ahead[2] /\ Ahead'[3] = Ahead[3] /\ Ahead'[4] < Ahead[4]
    BY <1>6, <2>1 DEF Ahead
  <2>3. \A j \in 1..(4 - 1) : Ahead'[j] = Ahead[j]
    BY <2>2
  <2>. QED  BY <1>1, <2>2, <2>3, ShorterAt
<1>. DEFINE inRound == /\ status' = status /\ round' = round /\ todo' = todo
                       /\ pc # "round" /\ pc' # "round"
<1>7. inRound => Ahead'[1] = Ahead[1] /\ Ahead'[2] = Ahead[2] /\ Ahead'[3] = Ahead[3] /\ Ahead'[4] = Ahead[4]
  BY DEF Ahead
<1>8. ASSUME inRound, Executing, ~Executing' PROVE <<Ahead', Ahead>> \in Shorter
  <2>1. Ahead'[5] < Ahead[5]
    BY <1>8 DEF Ahead
  <2>2. \A j \in 1..(5 - 1) : Ahead'[j] = Ahead[j]
    BY <1>7, <1>8
  <2>. QED  BY <1>1, <2>1, <2>2, ShorterAt
<1>9. ASSUME inRound, Executing, Executing', Len(tasks') = Len(tasks) + 1
      PROVE  <<Ahead', Ahead>> \in Shorter
  <2>1. Ahead'[5] = Ahead[5] /\ Ahead'[6] < Ahead[6]
    BY <1>2, <1>9 DEF Ahead
  <2>2. \A j \in 1..(6 - 1) : Ahead'[j] = Ahead[j]
    BY <1>7, <1>9, <2>1
  <2>. QED  BY <1>1, <2>1, <2>2, ShorterAt
<1>10. ASSUME inRound, Executing, Executing', tasks' = tasks, pc = "artifacts", pc' = "derive"
       PROVE  <<Ahead', Ahead>> \in Shorter
  <2>1. Ahead'[5] = Ahead[5] /\ Ahead'[6] = Ahead[6] /\ Ahead'[7] < Ahead[7]
    BY <1>10 DEF Ahead
  <2>2. \A j \in 1..(7 - 1) : Ahead'[j] = Ahead[j]
    BY <1>7, <1>10, <2>1
  <2>. QED  BY <1>1, <2>1, <2>2, ShorterAt
<1>11. ASSUME inRound, tasks' = tasks, pc' = pc, artifacts' = artifacts + 1
       PROVE  <<Ahead', Ahead>> \in Shorter
  <2>1. /\ Ahead'[5] = Ahead[5] /\ Ahead'[6] = Ahead[6] /\ Ahead'[7] = Ahead[7]
        /\ Ahead'[8] < Ahead[8]
    BY <1>2, <1>11 DEF Ahead, Executing
  <2>2. \A j \in 1..(8 - 1) : Ahead'[j] = Ahead[j]
    BY <1>7, <1>11, <2>1
  <2>. QED  BY <1>1, <2>1, <2>2, ShorterAt
<1>. HIDE DEF inRound
<1>12. CASE StopForBudget
  BY <1>3, <1>12 DEF StopForBudget, AtRoundStart
<1>13. CASE StartRound
  BY <1>4, <1>13 DEF StartRound, EnterRound
<1>14. CASE Deliver \/ BlockDelivery
  BY <1>3, <1>14 DEF Deliver, BlockDelivery, NothingToOffer, EnterRound, AtRoundStart
<1>15. CASE FinishEmptyHanded
  BY <1>3, <1>4, <1>15 DEF FinishEmptyHanded, NothingToOffer, EnterRound, AtRoundStart
<1>16. ASSUME NEW i, BlockTask(i) PROVE <<Ahead', Ahead>> \in Shorter
  BY <1>6, <1>16 DEF BlockTask, boardVars
<1>17. ASSUME NEW i, NEW a, ClaimTask(i, a) PROVE <<Ahead', Ahead>> \in Shorter
  BY <1>6, <1>17 DEF ClaimTask
<1>18. ASSUME NEW k, AppendArtifact(k) PROVE <<Ahead', Ahead>> \in Shorter
  BY <1>11, <1>18 DEF AppendArtifact, boardVars, roundVars, inRound
<1>19. ASSUME NEW key, NEW needs, NEW parent, NEW deps, AddTask(key, needs, parent, deps)
       PROVE  <<Ahead', Ahead>> \in Shorter
  <2>1. Len(tasks') = Len(tasks) + 1
    BY <1>19 DEF AddTask, IInv, TypeOK
  <2>. QED  BY <1>9, <1>19, <2>1 DEF AddTask, boardVars, roundVars, inRound, Executing
<1>20. CASE DeduplicateTask
  BY <1>10, <1>20 DEF DeduplicateTask, boardVars, roundVars, inRound, Executing
<1>21. ASSUME NEW outcome, EndClaim(outcome) PROVE <<Ahead', Ahead>> \in Shorter
  BY <1>8, <1>21 DEF EndClaim, boardVars, inRound, Executing
<1>22. CASE EndRound
  BY <1>2, <1>3, <1>5, <1>22 DEF EndRound
<1>. QED  BY <1>12, <1>13, <1>14, <1>15, <1>16, <1>17, <1>18, <1>19, <1>20, <1>21, <1>22
          DEF Next, CompleteTask, FailTask

\* Whatever the agents do, with every step less lies ahead of a run, in an order in
\* which nothing falls for ever: a run that takes a step as long as it can comes to
\* its stop.
THEOREM RunsRunDown ==
  /\ IsWellFoundedOn(Shorter, [1..8 -> Nat])
  /\ Spec => [][Shortens]_vars
<1>1. IsWellFoundedOn(Shorter, [1..8 -> Nat])
  BY NatLessThanWellFounded, WFLexProductOrdering DEF Shorter
<1>2. Spec => []ArtifactsFit
  BY InitArtifacts, NextArtifacts, BoardInvariant, PTL DEF Spec
<1>3. IInv /\ ArtifactsFit /\ LimitsHold => AheadOK
  BY AheadType DEF IInv
<1>4. IInv /\ AheadOK /\ AheadOK' /\ [Next]_vars => [Shortens]_vars
  BY StepsShorten DEF AheadOK, Shortens
<1>5. Spec => [][Shortens]_vars
  BY <1>2, <1>3, <1>4, BoardInvariant, LimitsAreKept, PTL DEF Spec
<1>. QED  BY <1>1, <1>5
=============================================================================
