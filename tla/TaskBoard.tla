------------------------------ MODULE TaskBoard ------------------------------
(***************************************************************************)
(* TaskBoardRuntime (src/src/runtime/board_runtime.py): the shared task     *)
(* board of one conversation turn.  A run proceeds in rounds; each round    *)
(* takes a snapshot of the tasks that are open and whose dependencies are   *)
(* complete, and offers them one by one to the agents that have the         *)
(* capabilities.  The winner executes the task, which may leave artifacts   *)
(* and derived tasks on the board, and may fail after leaving some of them. *)
(* When no task can be offered, the delivery gate decides.                  *)
(*                                                                         *)
(* The agents are arbitrary here: what they deliver, the order of equal     *)
(* priorities and the confidence they bid are nondeterministic.  A task is  *)
(* named by its position in board.tasks.                                    *)
(***************************************************************************)
EXTENDS Integers, Sequences, FiniteSets

CONSTANTS
  Agents,                     \* agent ids
  Capabilities,               \* capability labels
  CapabilitiesOf,             \* BoardAgent.capabilities, by agent
  Needs,                      \* the required_capabilities an agent may ask for
  Keys,                       \* deduplication keys
  RootKey, RootNeeds,         \* of the root task assess_safety
  MaxRounds,                  \* BoardLimits, field by field
  MaxTotalClaims,
  MaxTasks,
  MaxClaimsPerAgent,
  MaxClaimsPerAgentPerRound,
  MaxTaskDepth,
  MaxChildrenPerTask,
  MaxNoProgressRounds,
  NoAgent,                    \* claimed_by = None
  MaxArtifacts,               \* bound of the model on the artifacts of a run
  ChildTasksOnly              \* do agents derive tasks with _child_task only?

\* BoardLimits' field constraints (taskboard.py) and the shape of the agents.
ASSUME LimitsAssumption ==
  /\ MaxRounds \in Nat \ {0}
  /\ MaxTotalClaims \in Nat \ {0}
  /\ MaxTasks \in Nat \ {0}
  /\ MaxClaimsPerAgent \in Nat \ {0}
  /\ MaxClaimsPerAgentPerRound \in Nat \ {0}
  /\ MaxTaskDepth \in Nat
  /\ MaxChildrenPerTask \in Nat \ {0}
  /\ MaxNoProgressRounds \in Nat \ {0}
  /\ MaxArtifacts \in Nat
  /\ ChildTasksOnly \in BOOLEAN

ASSUME AgentsAssumption ==
  /\ IsFiniteSet(Agents)
  /\ CapabilitiesOf \in [Agents -> SUBSET Capabilities]
  /\ Needs \subseteq SUBSET Capabilities
  /\ RootKey \in Keys
  /\ RootNeeds \in Needs
  /\ NoAgent \notin Agents

VARIABLES
  status,             \* board.status
  round,              \* board.round
  total_claims,       \* board.total_claims
  no_progress_rounds, \* board.no_progress_rounds
  tasks,              \* board.tasks
  artifacts,          \* number of artifacts the run appended to board.artifacts
  finals,             \* how many of them are agents' FINAL_RESPONSE artifacts
  accepted,           \* what board.accepted_artifact_id refers to
  agent_claims,       \* runtime._agent_claims of this run
  claims_this_round,  \* local of run()
  before,             \* local of run(): the progress signature of the round
  todo,               \* local of run(): rest of the snapshot of open_tasks
  current,            \* the task being executed, 0 if none
  pc                  \* where run() and _execute_claim() are

boardVars == <<round, total_claims, no_progress_rounds, agent_claims>>
roundVars == <<claims_this_round, before, todo>>
vars == <<status, round, total_claims, no_progress_rounds, tasks, artifacts,
          finals, accepted, agent_claims, claims_this_round, before, todo,
          current, pc>>

RunStatus == {"running", "completed", "limited", "failed"}

\* CLAIMED is passed through inside one step; CANCELLED is never set by run().
TaskStatus == {"open", "running", "completed", "failed", "blocked", "cancelled"}

Accepted == {"none", "final", "safe_error"}

Task == [key : Keys, needs : Needs, parent : Nat, deps : SUBSET Nat,
         depth : Nat, status : TaskStatus, claimed_by : Agents \cup {NoAgent},
         claim_count : Nat]

Locations == {"round", "dispatch", "artifacts", "derive"}

NewTask(key, needs, parent, deps, depth) ==
  [key |-> key, needs |-> needs, parent |-> parent, deps |-> deps,
   depth |-> depth, status |-> "open", claimed_by |-> NoAgent, claim_count |-> 0]

\* What _select_agent and _execute_claim write on a task.
Blocked(t) == [t EXCEPT !.status = "blocked"]

Claimed(t, a) ==
  [t EXCEPT !.status = "running", !.claimed_by = a, !.claim_count = @ + 1]

Ended(t, outcome) == [t EXCEPT !.status = outcome]

-----------------------------------------------------------------------------
\* Views of the board.

TaskIds == DOMAIN tasks

\* Mutant: the snapshot ignores dependency_ids.
ReadyIgnoringDeps(i) == tasks[i].status = "open"

\* Mutant: failed tasks are offered again.
ReadyRetryingFailed(i) ==
  /\ tasks[i].status \in {"open", "failed"}
  /\ \A d \in tasks[i].deps : tasks[d].status = "completed"

Ready(i) ==
  /\ tasks[i].status = "open"
  /\ \A d \in tasks[i].deps : tasks[d].status = "completed"

\* AgentRunBoard.open_tasks
OpenTasks == {i \in TaskIds : Ready(i)}

\* Mutant: a completed task no longer holds its key.
HoldsWhileActive(i, key) ==
  /\ tasks[i].key = key
  /\ tasks[i].status \notin {"failed", "cancelled", "completed"}

\* The task i holds a deduplication key: add_task appends no second one.
Holds(i, key) ==
  /\ tasks[i].key = key
  /\ tasks[i].status \notin {"failed", "cancelled"}

Children(p) == {i \in TaskIds : tasks[i].parent = p}

Completed == {i \in TaskIds : tasks[i].status = "completed"}

Signature == <<Cardinality(Completed), artifacts, Len(tasks)>>

\* Mutant: the claim budget is compared with > instead of >=.
BudgetExhaustedLate == round >= MaxRounds \/ total_claims > MaxTotalClaims

\* Mutant: only the claims are bounded.
BudgetIgnoringRounds == total_claims >= MaxTotalClaims

BudgetExhausted == round >= MaxRounds \/ total_claims >= MaxTotalClaims

\* Mutant: max_claims_per_agent_per_round is forgotten.
CandidatesAnyRound(i) ==
  {a \in Agents :
     /\ tasks[i].needs \subseteq CapabilitiesOf[a]
     /\ agent_claims[a] < MaxClaimsPerAgent}

\* The agents that bid for task i in _select_agent.
Candidates(i) ==
  {a \in Agents :
     /\ tasks[i].needs \subseteq CapabilitiesOf[a]
     /\ agent_claims[a] < MaxClaimsPerAgent
     /\ claims_this_round[a] < MaxClaimsPerAgentPerRound}

\* Mutant: the depth of the parent is checked instead of the child's.
AdmissibleParentDepth(parent) ==
  /\ Len(tasks) < MaxTasks
  /\ parent # 0 =>
       /\ tasks[parent].depth <= MaxTaskDepth
       /\ Cardinality(Children(parent)) < MaxChildrenPerTask

\* The checks of add_task that raise; a request with an unknown parent or
\* dependency, or with a depth of its own, raises as well (FailTask).
Admissible(parent) ==
  /\ Len(tasks) < MaxTasks
  /\ parent # 0 =>
       /\ tasks[parent].depth + 1 <= MaxTaskDepth
       /\ Cardinality(Children(parent)) < MaxChildrenPerTask

-----------------------------------------------------------------------------

\* create_root_task on an empty board.
Init ==
  /\ status = "running"
  /\ round = 0
  /\ total_claims = 0
  /\ no_progress_rounds = 0
  /\ tasks = <<NewTask(RootKey, RootNeeds, 0, {}, 0)>>
  /\ artifacts = 0
  /\ finals = 0
  /\ accepted = "none"
  /\ agent_claims = [a \in Agents |-> 0]
  /\ claims_this_round = [a \in Agents |-> 0]
  /\ before = <<0, 0, 1>>
  /\ todo = {}
  /\ current = 0
  /\ pc = "round"

AtRoundStart == pc = "round" /\ status = "running"

\* _budget_exhausted holds at the top of the loop: _stop_for_budget.
StopForBudget ==
  /\ AtRoundStart
  /\ BudgetExhausted
  /\ status' = "limited"
  /\ UNCHANGED <<boardVars, roundVars, tasks, artifacts, finals, accepted, current, pc>>

EnterRound ==
  /\ AtRoundStart
  /\ ~BudgetExhausted
  /\ round' = round + 1
  /\ claims_this_round' = [a \in Agents |-> 0]
  /\ before' = Signature

\* Mutant: the gate is asked while there is still work to offer.
NothingToOfferUnchecked == EnterRound

\* The round has no task to offer: _finish_or_mark_no_progress.
NothingToOffer == EnterRound /\ OpenTasks = {}

\* The round has a snapshot to offer.
StartRound ==
  /\ EnterRound
  /\ OpenTasks # {}
  /\ todo' = OpenTasks
  /\ pc' = "dispatch"
  /\ UNCHANGED <<status, total_claims, no_progress_rounds, agent_claims, tasks,
                 artifacts, finals, accepted, current>>

\* Nothing to offer and a final response exists: the gate approves it ...
Deliver ==
  /\ NothingToOffer
  /\ finals > 0
  /\ accepted' = "final"
  /\ status' = "completed"
  /\ UNCHANGED <<total_claims, no_progress_rounds, agent_claims, todo, tasks,
                 artifacts, finals, current, pc>>

\* ... or blocks it and puts the safe error in its place.
BlockDelivery ==
  /\ NothingToOffer
  /\ finals > 0
  /\ artifacts' = artifacts + 1
  /\ accepted' = "safe_error"
  /\ status' = "failed"
  /\ UNCHANGED <<total_claims, no_progress_rounds, agent_claims, todo, tasks,
                 finals, current, pc>>

\* Nothing to offer and nothing to deliver.  With every task settled the run is
\* over; otherwise the loop continues, past its no-progress check.
FinishEmptyHanded ==
  /\ NothingToOffer
  /\ finals = 0
  /\ IF \A i \in TaskIds : tasks[i].status \in {"completed", "failed", "blocked"}
       THEN status' = "limited" /\ UNCHANGED no_progress_rounds
       ELSE no_progress_rounds' = no_progress_rounds + 1 /\ UNCHANGED status
  /\ UNCHANGED <<total_claims, agent_claims, todo, tasks, artifacts, finals,
                 accepted, current, pc>>

\* _select_agent returns None: the task is blocked for good.
BlockTask(i) ==
  /\ pc = "dispatch"
  /\ i \in todo
  /\ Candidates(i) = {}
  /\ tasks' = [tasks EXCEPT ![i] = Blocked(tasks[i])]
  /\ todo' = todo \ {i}
  /\ UNCHANGED <<status, boardVars, artifacts, finals, accepted,
                 claims_this_round, before, current, pc>>

\* The first part of _execute_claim, up to the call of the agent.
ClaimTask(i, a) ==
  /\ pc = "dispatch"
  /\ i \in todo
  /\ a \in Candidates(i)
  /\ tasks' = [tasks EXCEPT ![i] = Claimed(tasks[i], a)]
  /\ total_claims' = total_claims + 1
  /\ agent_claims' = [agent_claims EXCEPT ![a] = @ + 1]
  /\ todo' = todo \ {i}
  /\ current' = i
  /\ pc' = "artifacts"
  /\ UNCHANGED <<status, round, no_progress_rounds, artifacts, finals, accepted,
                 claims_this_round, before>>

\* One artifact of the delivery is appended; k = 1 if it is a FINAL_RESPONSE.
AppendArtifact(k) ==
  /\ pc = "artifacts"
  /\ artifacts < MaxArtifacts
  /\ artifacts' = artifacts + 1
  /\ finals' = finals + k
  /\ UNCHANGED <<status, boardVars, roundVars, tasks, accepted, current, pc>>

\* _child_task: the derived task waits for the task that is being executed.
ChildShape(parent, deps) == parent = current /\ deps = {current}

\* add_task for one derived task whose key no live task holds.  The depth of a task
\* without a parent is not checked; it is 0, the default, as nothing in src sets one.
AddTask(key, needs, parent, deps) ==
  /\ pc \in {"artifacts", "derive"}
  /\ ChildTasksOnly => ChildShape(parent, deps)
  /\ ~ \E i \in TaskIds : Holds(i, key)
  /\ Admissible(parent)
  /\ tasks' = Append(tasks, NewTask(key, needs, parent, deps,
                       IF parent = 0 THEN 0 ELSE tasks[parent].depth + 1))
  /\ pc' = "derive"
  /\ UNCHANGED <<status, boardVars, roundVars, artifacts, finals, accepted, current>>

\* add_task returns None: the key is held, nothing is appended.
DeduplicateTask ==
  /\ pc = "artifacts"
  /\ \E key \in Keys, i \in TaskIds : Holds(i, key)
  /\ pc' = "derive"
  /\ UNCHANGED <<status, boardVars, roundVars, tasks, artifacts, finals, accepted, current>>

EndClaim(outcome) ==
  /\ pc \in {"artifacts", "derive"}
  /\ tasks' = [tasks EXCEPT ![current] = Ended(tasks[current], outcome)]
  /\ claims_this_round' = [claims_this_round EXCEPT ![tasks[current].claimed_by] = @ + 1]
  /\ current' = 0
  /\ pc' = "dispatch"
  /\ UNCHANGED <<status, boardVars, artifacts, finals, accepted, before, todo>>

CompleteTask == EndClaim("completed")

\* Mutant: a failed task is put back on the board.
FailTaskReopening == EndClaim("open")

\* An exception anywhere in context building, in the agent, among its artifacts
\* or in add_task: what was already appended stays.
FailTask == EndClaim("failed")

\* The end of the loop body: progress is judged by the signature.
EndRound ==
  /\ pc = "dispatch"
  /\ todo = {}
  /\ no_progress_rounds' = IF Signature = before THEN no_progress_rounds + 1 ELSE 0
  /\ status' = IF no_progress_rounds' >= MaxNoProgressRounds THEN "limited" ELSE status
  /\ pc' = "round"
  /\ UNCHANGED <<round, total_claims, agent_claims, roundVars, tasks, artifacts,
                 finals, accepted, current>>

Next ==
  \/ StopForBudget
  \/ StartRound
  \/ Deliver
  \/ BlockDelivery
  \/ FinishEmptyHanded
  \/ \E i \in TaskIds : BlockTask(i)
  \/ \E i \in TaskIds, a \in Agents : ClaimTask(i, a)
  \/ \E k \in {0, 1} : AppendArtifact(k)
  \/ \E key \in Keys, needs \in Needs, parent \in 0..Len(tasks),
        deps \in SUBSET TaskIds : AddTask(key, needs, parent, deps)
  \/ DeduplicateTask
  \/ CompleteTask
  \/ FailTask
  \/ EndRound

\* run() is a synchronous loop in one thread: as long as it can take a step it
\* takes one (agents return or raise; their calls have timeouts).
Spec == Init /\ [][Next]_vars /\ WF_vars(Next)

-----------------------------------------------------------------------------
\* Properties.

\* The types of the board and of the locals of run().
TypeOK ==
  /\ status \in RunStatus
  /\ round \in 0..MaxRounds
  /\ total_claims \in Nat
  /\ no_progress_rounds \in Nat
  /\ tasks \in Seq(Task)
  /\ artifacts \in Nat
  /\ finals \in Nat
  /\ accepted \in Accepted
  /\ agent_claims \in [Agents -> 0..MaxClaimsPerAgent]
  /\ claims_this_round \in [Agents -> 0..MaxClaimsPerAgentPerRound]
  /\ before \in Nat \X Nat \X Nat
  /\ todo \subseteq TaskIds
  /\ current \in 0..Len(tasks)
  /\ pc \in Locations

Started(i) == tasks[i].claimed_by # NoAgent

\* A task is executed only on the results of all the tasks it depends on: the
\* dependencies of a claimed task were completed, and they stay completed.
DependenciesFirst ==
  \A i \in TaskIds : Started(i) =>
    \A d \in tasks[i].deps : tasks[d].status = "completed"

\* No task is executed twice, whatever fails: a task is claimed at most once,
\* by the agent whose counter was raised for it, and the counters that limit
\* the run are exactly the claims recorded on the tasks.
ClaimsAccounted ==
  /\ \A i \in TaskIds : tasks[i].claim_count = (IF Started(i) THEN 1 ELSE 0)
  /\ \A a \in Agents :
       agent_claims[a] = Cardinality({i \in TaskIds : tasks[i].claimed_by = a})
  /\ total_claims = Cardinality({i \in TaskIds : Started(i)})

\* The claim budget is only looked at between rounds, so it can be overrun, but
\* never by more than one round of work of every agent.
ClaimOverrunBounded ==
  total_claims < MaxTotalClaims + Cardinality(Agents) * MaxClaimsPerAgentPerRound

\* Deduplication: of two tasks with one key, the earlier one had failed (or was
\* cancelled) before the later was added, and never comes back.
NoDuplicateWork ==
  \A i, j \in TaskIds :
    i < j /\ tasks[i].key = tasks[j].key => tasks[i].status \in {"failed", "cancelled"}

\* The task graph stays a bounded forest: parents and dependencies precede their
\* task (so there is no dependency cycle), depth follows the parent, and the
\* limits on depth, children and tasks hold on the board, not just on entry.
TaskGraphBounded ==
  /\ Len(tasks) <= MaxTasks
  /\ \A i \in TaskIds :
       /\ tasks[i].deps \subseteq 1..(i - 1)
       /\ tasks[i].parent \in 0..(i - 1)
       /\ tasks[i].parent # 0 =>
            /\ tasks[i].depth = tasks[tasks[i].parent].depth + 1
            /\ tasks[i].depth <= MaxTaskDepth
       /\ Cardinality(Children(i)) <= MaxChildrenPerTask

\* What a run may do is counted right and bounded.
LimitsHold == ClaimsAccounted /\ TaskGraphBounded

\* When the gate has decided, no agent is at work and every task that was never
\* offered waits for one that will not complete any more.
NothingRunnableAtDelivery ==
  status \in {"completed", "failed"} =>
    \A i \in TaskIds :
      /\ tasks[i].status # "running"
      /\ tasks[i].status = "open" =>
           \E d \in tasks[i].deps : tasks[d].status \in {"open", "failed", "blocked"}

\* The board is append-only and its verdicts are final: a completed, failed or
\* blocked task is never touched again and no task disappears, not even when a
\* later step of the delivery that created it fails.
VerdictsStand ==
  [][ /\ Len(tasks) <= Len(tasks')
      /\ \A i \in TaskIds :
           tasks[i].status \in {"completed", "failed", "blocked"} => tasks'[i] = tasks[i] ]_vars

-----------------------------------------------------------------------------
\* The board implements what RunContract promises.

Contract == INSTANCE RunContract

\* A run of the board is a run of the contract: at most MaxRounds rounds, one
\* stop, with one of the three outcomes, and it does stop.
ImplementsContract == Contract!Spec
=============================================================================
