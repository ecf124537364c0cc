----------------------------- MODULE Scheduler ------------------------------
(***************************************************************************)
(* SchedulerAgent (src/src/runtime/board_runtime.py) and its guards of      *)
(* runtime/scheduling.py in one run: the budget of steps and the detection  *)
(* of loops.  The agent decides by rule or asks the model through the       *)
(* gateway, which the other agents of the run use as well.                  *)
(*                                                                         *)
(* A decision is what its fingerprint keeps of it: for an intent the        *)
(* capability, the priority, the budget hint and the list of artifacts that *)
(* it refers to.  Every schedule_next task is given the artifact that the   *)
(* agent before it has just made, so these are numbered by the step.  All   *)
(* but the capability is free for the model to vary, and decisions that     *)
(* differ in any of it are different for the guard.                         *)
(*                                                                         *)
(* What happens between two steps is the chain of tasks of Consultation: it *)
(* comes back to the scheduler only from some decisions.  A critical        *)
(* message, whose review is scheduled once and for all, is left out.        *)
(***************************************************************************)
EXTENDS ModelGateway, Sequences

CONSTANTS
  Capabilities,   \* capability labels that the model may name
  RefLists,       \* lists of artifacts that the model may name
  Priorities,     \* priorities and budget hints that it may give, 0 for no hint
  Hints,
  SchedulerProfile,
  MaxRunSteps,    \* SchedulingBudget.max_run_steps
  WindowSize,     \* LoopGuard.window_size
  Threshold,      \* LoopGuard.threshold
  MaxSteps        \* bound of the model on the schedule_next tasks of a run

ASSUME ProposalAssumption ==
  /\ RefLists \subseteq Seq(Nat) \ {<<>>}
  /\ Priorities \subseteq 0..100
  /\ Hints \subseteq Nat

ASSUME SchedulerAssumption ==
  /\ SchedulerProfile \in Profiles
  /\ MaxRunSteps \in Nat \ {0}
  /\ WindowSize \in Nat \ {0}
  /\ Threshold \in Nat \ {0}
  /\ MaxSteps \in Nat

VARIABLES
  run_steps,  \* SchedulingBudget.run_steps
  observed,   \* LoopGuard._history
  delivered   \* history variable: the decisions that were delivered

vars == <<usage, handed, run_steps, observed, delivered>>

Rules == {"risk_assessment", "understanding", "context_retrieval"}

Decisions ==
  [kind : {"intent"}, what : Rules \cup Capabilities, refs : Seq(Nat), priority : 0..100,
   hint : Nat]
    \cup [kind : {"escalation"}, what : {"reason", "budget", "loop"}, refs : Seq(Nat)]

Intent(what, refs, priority, hint) ==
  [kind |-> "intent", what |-> what, refs |-> refs, priority |-> priority, hint |-> hint]
Escalation(what, refs) == [kind |-> "escalation", what |-> what, refs |-> refs]

Init ==
  /\ InitGateway
  /\ run_steps = 0
  /\ observed = <<>>
  /\ delivered = <<>>

\* The number of this step.
Step == Len(observed) + 1

\* The artifacts that its task was given.
Inputs == <<Step>>

-----------------------------------------------------------------------------
\* The guards.

\* Mutant: one step too many.
MayConsumeOneMore == run_steps <= MaxRunSteps

\* SchedulingBudget.consume: a task is executed once, so that its own budgets of
\* steps and those of its node are never reached.
MayConsume == run_steps + 1 <= MaxRunSteps

\* The last n observations.
Recent(n, h) == SubSeq(h, IF Len(h) > n THEN Len(h) - n + 1 ELSE 1, Len(h))

Repeated(h) ==
  LET last == Recent(Threshold, Recent(WindowSize, h))
  IN  Len(last) = Threshold /\ \A i, j \in DOMAIN last : last[i] = last[j]

ShortCycle(h) ==
  LET recent == Recent(WindowSize, h)
      n == Len(recent)
  IN  n >= 4 /\ recent[n] = recent[n - 2] /\ recent[n - 1] = recent[n - 3]

\* Mutant: only equal decisions are a loop.
DetectedRepetition(h) == Repeated(h)

\* LoopGuard.observe.  A decision always has an input and no error, so that lack of
\* progress and repeated errors are never seen.
Detected(h) == Repeated(h) \/ ShortCycle(h)

-----------------------------------------------------------------------------
\* The chain of tasks between two steps.

\* Another schedule_next task comes after the risk assessment, which is made anew
\* whenever it is asked for, and after any other task, which is derived once per
\* message (its successors may be understanding or a review that escalates).
Returns ==
  LET last == Len(delivered)
  IN  delivered # <<>> =>
        /\ delivered[last].kind = "intent"
        /\ delivered[last].what # "risk_assessment" =>
             \A i \in 1..(last - 1) : delivered[i].what # delivered[last].what

\* The step was derived by a review that escalates, and not by an assessment.
MayBeEscalated == delivered # <<>> /\ delivered[Len(delivered)].what # "risk_assessment"

-----------------------------------------------------------------------------
\* SchedulerAgent.execute

\* decide_next_step: by rule, before the model is asked.
RuleDecisions ==
  {Intent("understanding", Inputs, 90, 0)}
    \cup (IF MayBeEscalated THEN {Intent("risk_assessment", Inputs, 100, 1)} ELSE {})

\* There is no answer, or one without a structure.
DefaultDecision == Intent("context_retrieval", Inputs, 80, 0)

\* The model names a capability and any known artifacts, or none, or gives a reason,
\* or nonsense.
ModelDecisions ==
  LET known == {refs \in RefLists : \A i \in DOMAIN refs : refs[i] \in 1..Step}
  IN  {Intent(c, refs, p, h) :
         c \in Capabilities, refs \in known \cup {Inputs}, p \in Priorities, h \in Hints}
      \cup {Escalation("reason", Inputs)}

\* The decision is observed, and delivered unless it completes a loop.
Deliver(d) ==
  /\ observed' = Append(observed, d)
  /\ delivered' = Append(delivered, IF Detected(observed') THEN Escalation("loop", Inputs) ELSE d)

DecideByRule ==
  /\ \E d \in RuleDecisions : Deliver(d)
  /\ UNCHANGED <<usage, handed>>

DecideByDefault ==
  /\ Deliver(DefaultDecision)
  /\ Generate(SchedulerProfile)

DecideByModel ==
  /\ \E d \in ModelDecisions : Deliver(d)
  /\ Answered(SchedulerProfile)

ScheduleNext ==
  /\ Step <= MaxSteps
  /\ Returns
  /\ MayConsume
  /\ run_steps' = run_steps + 1
  /\ DecideByRule \/ DecideByDefault \/ DecideByModel

OutOfBudget ==
  /\ Step <= MaxSteps
  /\ Returns
  /\ ~ MayConsume
  /\ Deliver(Escalation("budget", Inputs))
  /\ UNCHANGED <<usage, handed, run_steps>>

\* Another agent of the run asks its model.
OtherAgent(p) ==
  /\ Generate(p)
  /\ UNCHANGED <<run_steps, observed, delivered>>

Next ==
  \/ ScheduleNext
  \/ OutOfBudget
  \/ \E p \in Profiles \ {SchedulerProfile} : OtherAgent(p)

\* The task board decides when a scheduler runs: no fairness is assumed.
Spec == Init /\ [][Next]_vars

-----------------------------------------------------------------------------
\* Properties.

\* Counters and decisions have their types.
TypeOK ==
  /\ GatewayTypeOK
  /\ run_steps \in 0..MaxRunSteps
  /\ observed \in Seq(Decisions)
  /\ delivered \in Seq(Decisions)
  /\ Len(delivered) = Len(observed)

Intents == {i \in DOMAIN delivered : delivered[i].kind = "intent"}

\* The scheduler asks for at most as many tasks as it has steps, whatever the model
\* proposes and however often it is asked.
IntentsAreBounded ==
  /\ \A i \in Intents : i <= run_steps
  /\ run_steps <= MaxRunSteps

\* It never delivers three intents in a row that are alike in all that the guard
\* compares, nor two such intents in turn.  A model that goes on asking for the same
\* capability with another priority, hint or list of artifacts is not seen by the
\* guard: it is stopped by the budget of steps, which IntentsAreBounded is about.
NoLoopIsDelivered ==
  \A i \in Intents :
    /\ i - 1 \in Intents /\ i - 2 \in Intents =>
         ~ (delivered[i] = delivered[i - 1] /\ delivered[i] = delivered[i - 2])
    /\ {i - 1, i - 2, i - 3} \subseteq Intents =>
         ~ (delivered[i] = delivered[i - 2] /\ delivered[i - 1] = delivered[i - 3])

\* The guard stops no decision but one that was made before in the run: a new one is
\* delivered as it is, however many came before it.
OnlyLoopsAreStopped ==
  \A i \in DOMAIN delivered :
    delivered[i] # observed[i] => \E j \in 1..(i - 1) : observed[j] = observed[i]

\* The guard stops the loops that it is able to see, and nothing else.
LoopsAreStopped == NoLoopIsDelivered /\ OnlyLoopsAreStopped
=============================================================================
