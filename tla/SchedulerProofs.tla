-------------------------- MODULE SchedulerProofs ---------------------------
(***************************************************************************)
(* Proofs about Scheduler and the model gateway under it: types, the budget *)
(* of the run, the bound on the decisions and the loops among them, for     *)
(* every budget, price and set of profiles.                                 *)
(***************************************************************************)
EXTENDS Scheduler, SequenceTheorems, TLAPS

USE GatewayAssumption, SchedulerAssumption

-----------------------------------------------------------------------------
\* The gateway.

\* What a call does to usage and answers.
LEMMA GenerateTypes ==
  ASSUME GatewayTypeOK, NEW p, Generate(p)
  PROVE  GatewayTypeOK'
<1>1. ASSUME NEW u \in Usage, NEW i \in InputTokens, NEW o \in OutputTokens
      PROVE  Charged(u, i, o) \in Usage
  BY <1>1 DEF Charged, Usage
<1>. QED  BY <1>1 DEF GatewayTypeOK, Generate, Unanswered, Withheld, Answered

\* The answers are within the budget, and part of the usage.
GatewayInv == GatewayTypeOK /\ AnswersAreWithinBudget

LEMMA GenerateInv ==
  ASSUME GatewayInv, NEW p, Generate(p)
  PROVE  GatewayInv'
<1>1. GatewayTypeOK'
  BY GenerateTypes DEF GatewayInv
<1>2. /\ usage.calls \in Nat /\ usage.input \in Nat /\ usage.output \in Nat /\ usage.cost \in Nat
      /\ handed.calls \in Nat /\ handed.input \in Nat /\ handed.output \in Nat /\ handed.cost \in Nat
  BY DEF GatewayInv, GatewayTypeOK, Usage
<1>3. /\ handed.calls <= usage.calls /\ handed.input <= usage.input
      /\ handed.output <= usage.output /\ handed.cost <= usage.cost
  BY DEF GatewayInv, GatewayTypeOK, AnswersAreWithinBudget, Usage
<1>4. SUFFICES /\ Within(handed')
               /\ handed'.calls <= usage'.calls /\ handed'.input <= usage'.input
               /\ handed'.output <= usage'.output /\ handed'.cost <= usage'.cost
  <2>1. DOMAIN usage' = {"calls", "input", "output", "cost"}
    BY <1>1 DEF GatewayTypeOK, Usage
  <2>. QED  BY <1>1, <1>4, <2>1 DEF GatewayInv, AnswersAreWithinBudget, Within
<1>5. Within(handed)
  BY DEF GatewayInv, AnswersAreWithinBudget
<1>6. CASE Unanswered(p)
  BY <1>3, <1>5, <1>6 DEF Unanswered, Within
<1>7. ASSUME NEW i \in InputTokens, NEW o \in OutputTokens, usage' = Charged(usage, i, o)
      PROVE  \E c \in Nat : /\ c = Price * (i + o)
                            /\ usage'.calls = usage.calls + 1 /\ usage'.input = usage.input + i
                            /\ usage'.output = usage.output + o /\ usage'.cost = usage.cost + c
  BY <1>7 DEF Charged
<1>8. CASE Answered(p)
  <2>1. PICK i \in InputTokens, o \in OutputTokens :
          /\ Preflight(p) /\ ~ WouldExceed(i, o)
          /\ usage' = Charged(usage, i, o) /\ handed' = Charged(handed, i, o)
    BY <1>8 DEF Answered
  <2>2. PICK c \in Nat : /\ c = Price * (i + o)
                         /\ usage'.calls = usage.calls + 1 /\ usage'.input = usage.input + i
                         /\ usage'.output = usage.output + o /\ usage'.cost = usage.cost + c
    BY <1>7, <2>1
  <2>3. /\ handed'.calls = handed.calls + 1 /\ handed'.input = handed.input + i
        /\ handed'.output = handed.output + o /\ handed'.cost = handed.cost + c
    BY <2>1, <2>2 DEF Charged
  <2>4. /\ usage.calls < MaxCalls /\ ~ (usage.input + i > MaxInput)
        /\ ~ (usage.output + o > MaxOutput) /\ ~ (usage.cost + c > MaxCost)
    BY <2>1, <2>2, Zenon DEF Preflight, WouldExceed
  <2>5. i \in Nat /\ o \in Nat
    OBVIOUS
  <2>. QED  BY <1>2, <1>3, <2>2, <2>3, <2>4, <2>5 DEF Within
<1>9. CASE Withheld(p)
  <2>1. PICK i \in InputTokens, o \in OutputTokens :
          usage' = Charged(usage, i, o) /\ handed' = handed
    BY <1>9 DEF Withheld
  <2>. QED  BY <1>2, <1>3, <1>5, <1>7, <2>1 DEF Within
<1>. QED  BY <1>6, <1>8, <1>9 DEF Generate

\* Over the budget, the check before a call refuses it.
LEMMA GenerateOverrun ==
  ASSUME GatewayTypeOK, ~ Within(usage), NEW p, Generate(p)
  PROVE  UNCHANGED usage
<1>1. ~ (p \in Configured /\ Preflight(p))
  BY DEF GatewayTypeOK, Usage, Within, Preflight
<1>. QED  BY <1>1 DEF Generate, Unanswered, Withheld, Answered

-----------------------------------------------------------------------------
\* The scheduler.

\* Its steps and the bound on its decisions.
StepsInv ==
  /\ run_steps \in 0..MaxRunSteps
  /\ observed \in Seq(Decisions)
  /\ delivered \in Seq(Decisions)
  /\ Len(delivered) = Len(observed)
  /\ Len(observed) <= MaxSteps
  /\ run_steps <= Len(observed)
  /\ run_steps < MaxRunSteps => run_steps = Len(observed)
  /\ \A i \in Intents : i <= run_steps

LEMMA EscalationsAreDecisions ==
  ASSUME StepsInv, NEW w \in {"reason", "budget", "loop"}
  PROVE  Escalation(w, Inputs) \in Decisions /\ Escalation(w, Inputs).kind # "intent"
<1>1. Inputs \in Seq(Nat)
  BY DEF StepsInv, Step, Inputs
<1>. QED  BY <1>1 DEF Escalation, Decisions

\* Whoever makes a decision, it is one.
LEMMA ProposalsAreDecisions ==
  ASSUME StepsInv
  PROVE  RuleDecisions \cup {DefaultDecision} \cup ModelDecisions \subseteq Decisions
<1>1. Inputs \in Seq(Nat)
  BY DEF StepsInv, Step, Inputs
<1>2. ASSUME NEW c \in Rules \cup Capabilities, NEW refs \in Seq(Nat), NEW p \in 0..100, NEW h \in Nat
      PROVE  Intent(c, refs, p, h) \in Decisions
  BY DEF Intent, Decisions
<1>3. RuleDecisions \cup {DefaultDecision} \subseteq Decisions
  <2>1. {"understanding", "risk_assessment", "context_retrieval"} \subseteq Rules
    BY DEF Rules
  <2>2. 90 \in 0..100 /\ 100 \in 0..100 /\ 80 \in 0..100 /\ 0 \in Nat /\ 1 \in Nat
    OBVIOUS
  <2>3. /\ Intent("understanding", Inputs, 90, 0) \in Decisions
        /\ Intent("risk_assessment", Inputs, 100, 1) \in Decisions
        /\ Intent("context_retrieval", Inputs, 80, 0) \in Decisions
    BY <1>1, <1>2, <2>1, <2>2
  <2>. QED  BY <2>3 DEF RuleDecisions, DefaultDecision
<1>4. ModelDecisions \subseteq Decisions
  <2>. SUFFICES ASSUME NEW d \in ModelDecisions PROVE d \in Decisions
    OBVIOUS
  <2>1. CASE d = Escalation("reason", Inputs)
    BY <2>1, EscalationsAreDecisions
  <2>2. CASE d # Escalation("reason", Inputs)
    <3>1. PICK c \in Capabilities, refs \in RefLists \cup {Inputs}, p \in Priorities, h \in Hints :
            d = Intent(c, refs, p, h)
      BY <2>2 DEF ModelDecisions
    <3>2. refs \in Seq(Nat) /\ p \in 0..100 /\ h \in Nat
      BY <1>1, ProposalAssumption
    <3>. QED  BY <1>2, <3>1, <3>2
  <2>. QED  BY <2>1, <2>2
<1>. QED  BY <1>3, <1>4

\* A step of the scheduler delivers one decision.
LEMMA StepsDeliver ==
  ASSUME StepsInv, ScheduleNext \/ OutOfBudget
  PROVE  Step <= MaxSteps /\ \E d \in Decisions : Deliver(d)
<1>1. CASE ScheduleNext
  BY <1>1, ProposalsAreDecisions
     DEF ScheduleNext, DecideByRule, DecideByDefault, DecideByModel
<1>2. CASE OutOfBudget
  BY <1>2, EscalationsAreDecisions DEF OutOfBudget
<1>. QED  BY <1>1, <1>2

\* A decision lengthens both lists by one, and is an intent only where it was one.
LEMMA DeliverEffect ==
  ASSUME StepsInv, Step <= MaxSteps, NEW d \in Decisions, Deliver(d)
  PROVE  /\ observed' \in Seq(Decisions) /\ delivered' \in Seq(Decisions)
         /\ Len(observed') = Len(observed) + 1 /\ Len(delivered') = Len(delivered) + 1
         /\ Intents' \subseteq Intents \cup {Len(observed) + 1}
         /\ d.kind # "intent" => Intents' \subseteq Intents
<1>. DEFINE e == IF Detected(observed') THEN Escalation("loop", Inputs) ELSE d
<1>1. e \in Decisions /\ (d.kind # "intent" => e.kind # "intent")
  BY EscalationsAreDecisions
<1>2. observed' = Append(observed, d) /\ delivered' = Append(delivered, e)
  BY DEF Deliver
<1>. HIDE DEF e
<1>3. /\ observed' \in Seq(Decisions) /\ delivered' \in Seq(Decisions)
      /\ Len(observed') = Len(observed) + 1 /\ Len(delivered') = Len(delivered) + 1
  BY <1>1, <1>2 DEF StepsInv
<1>4. \A i \in DOMAIN delivered' :
        IF i = Len(delivered) + 1 THEN delivered'[i] = e
        ELSE i \in DOMAIN delivered /\ delivered'[i] = delivered[i]
  BY <1>1, <1>2 DEF StepsInv
<1>. QED  BY <1>1, <1>3, <1>4 DEF Intents, StepsInv

LEMMA NextStepsInv == StepsInv /\ [Next]_vars => StepsInv'
<1>. SUFFICES ASSUME StepsInv, [Next]_vars PROVE StepsInv'
  OBVIOUS
<1>1. CASE ScheduleNext
  <2>1. PICK d \in Decisions : Deliver(d)
    BY <1>1, StepsDeliver
  <2>2. Step <= MaxSteps /\ MayConsume /\ run_steps' = run_steps + 1
    BY <1>1 DEF ScheduleNext
  <2>3. /\ observed' \in Seq(Decisions) /\ delivered' \in Seq(Decisions)
        /\ Len(observed') = Len(observed) + 1 /\ Len(delivered') = Len(delivered) + 1
        /\ Intents' \subseteq Intents \cup {Len(observed) + 1}
    BY <2>1, <2>2, DeliverEffect
  <2>4. run_steps = Len(observed)
    BY <2>2 DEF StepsInv, MayConsume
  <2>5. \A i \in Intents' : i <= run_steps'
    BY <2>2, <2>3, <2>4 DEF StepsInv, Intents
  <2>. QED  BY <2>2, <2>3, <2>4, <2>5 DEF StepsInv, MayConsume, Step
<1>2. CASE OutOfBudget
  <2>1. Step <= MaxSteps /\ ~ MayConsume /\ run_steps' = run_steps
    BY <1>2 DEF OutOfBudget
  <2>2. /\ Deliver(Escalation("budget", Inputs))
        /\ Escalation("budget", Inputs) \in Decisions
        /\ Escalation("budget", Inputs).kind # "intent"
    BY <1>2, <2>1, EscalationsAreDecisions DEF OutOfBudget
  <2>. QED  BY <2>1, <2>2, DeliverEffect DEF StepsInv, MayConsume, Step
<1>3. CASE UNCHANGED <<run_steps, observed, delivered>>
  BY <1>3 DEF StepsInv, Intents
<1>. QED  BY <1>1, <1>2, <1>3 DEF Next, OtherAgent, vars

LEMMA InitInv == Init => GatewayInv /\ StepsInv
BY DEF Init, InitGateway, GatewayInv, GatewayTypeOK, AnswersAreWithinBudget, Within, NoUsage,
       Usage, StepsInv, Intents

\* Every step of the run is a call of the gateway, or leaves its books alone.
LEMMA NextGenerates ==
  ASSUME Next
  PROVE  (\E p : Generate(p)) \/ UNCHANGED <<usage, handed>>
BY DEF Next, ScheduleNext, OutOfBudget, OtherAgent, DecideByRule, DecideByDefault,
       DecideByModel, Generate

LEMMA NextGatewayInv == GatewayInv /\ [Next]_vars => GatewayInv'
<1>1. ASSUME GatewayInv, UNCHANGED <<usage, handed>> PROVE GatewayInv'
  BY <1>1 DEF GatewayInv, GatewayTypeOK, AnswersAreWithinBudget, Within
<1>. QED  BY <1>1, GenerateInv, NextGenerates DEF vars

-----------------------------------------------------------------------------
\* Counters and decisions have their types, for every budget and any number of
\* steps.
THEOREM TypeCorrect == Spec => []TypeOK
<1>1. GatewayInv /\ StepsInv => TypeOK
  BY DEF GatewayInv, StepsInv, TypeOK
<1>. QED  BY <1>1, InitInv, NextStepsInv, NextGatewayInv, PTL DEF Spec

\* The answers that the agents of a run were given never exceed its budget.
THEOREM AnswersStayWithinBudget == Spec => []AnswersAreWithinBudget
<1>1. GatewayInv => AnswersAreWithinBudget
  BY DEF GatewayInv
<1>. QED  BY <1>1, InitInv, NextGatewayInv, PTL DEF Spec

\* One call may exceed the budget, and it is the last.
THEOREM NothingAfterAnOverrun == Spec => OverrunIsLast
<1>1. GatewayInv /\ [Next]_vars => [~ Within(usage) => UNCHANGED usage]_<<usage, handed>>
  BY GenerateOverrun, NextGenerates DEF GatewayInv, vars
<1>. QED  BY <1>1, InitInv, NextGatewayInv, PTL DEF Spec, OverrunIsLast

\* The scheduler asks for no more tasks than it has steps.
THEOREM IntentsStayBounded == Spec => []IntentsAreBounded
<1>1. StepsInv => IntentsAreBounded
  BY DEF StepsInv, IntentsAreBounded
<1>. QED  BY <1>1, InitInv, NextStepsInv, PTL DEF Spec

-----------------------------------------------------------------------------
\* Loops.

\* The last observations, counted from the last.
LEMMA RecentOf ==
  ASSUME NEW S, NEW h \in Seq(S), NEW n \in Nat
  PROVE  /\ Recent(n, h) \in Seq(S)
         /\ Len(Recent(n, h)) = IF Len(h) > n THEN n ELSE Len(h)
         /\ \A k \in Nat : k < Len(Recent(n, h)) => Recent(n, h)[Len(Recent(n, h)) - k] = h[Len(h) - k]
<1>. DEFINE first == IF Len(h) > n THEN Len(h) - n + 1 ELSE 1
<1>0. Len(h) \in Nat
  OBVIOUS
<1>1. first \in 1..(Len(h) + 1)
  BY <1>0
<1>2. PICK m \in Nat : m = IF Len(h) > n THEN n ELSE Len(h)
  BY <1>0
<1>3. first + m - 1 = Len(h) /\ m = Len(h) - first + 1
  BY <1>0, <1>2
<1>4. Recent(n, h) = SubSeq(h, first, Len(h))
  BY DEF Recent
<1>. HIDE DEF first
<1>5. /\ SubSeq(h, first, Len(h)) \in Seq(S)
      /\ Len(SubSeq(h, first, Len(h))) = m
      /\ \A i \in 1..m : SubSeq(h, first, Len(h))[i] = h[first + i - 1]
  BY <1>0, <1>1, <1>3, SubSeqProperties
<1>6. ASSUME NEW k \in Nat, k < m PROVE Recent(n, h)[m - k] = h[Len(h) - k]
  <2>1. m - k \in 1..m /\ first + (m - k) - 1 = Len(h) - k
    BY <1>0, <1>1, <1>3, <1>6
  <2>. QED  BY <1>4, <1>5, <2>1
<1>. QED  BY <1>2, <1>4, <1>5, <1>6

LEMMA FromTheEnd ==
  ASSUME NEW m \in 1..3, NEW n \in Nat, m <= n, NEW i \in 1..m, NEW k \in Nat, k = m - i
  PROVE  k \in {0, 1, 2} /\ k < m /\ k < n /\ m - k = i
OBVIOUS

\* Three equal observations are a loop ...
LEMMA ThreeAreALoop ==
  ASSUME NEW S, NEW h \in Seq(S), Len(h) >= 3, Threshold <= 3, 4 <= WindowSize,
         h[Len(h)] = h[Len(h) - 1], h[Len(h)] = h[Len(h) - 2]
  PROVE  Detected(h)
<1>1. PICK r : r = Recent(WindowSize, h)
  OBVIOUS
<1>2. /\ r \in Seq(S) /\ Len(r) >= 3
      /\ \A k \in Nat : k < Len(r) => r[Len(r) - k] = h[Len(h) - k]
  <2>1. /\ r \in Seq(S) /\ Len(r) = IF Len(h) > WindowSize THEN WindowSize ELSE Len(h)
        /\ \A k \in Nat : k < Len(r) => r[Len(r) - k] = h[Len(h) - k]
    <3>1. WindowSize \in Nat
      BY SchedulerAssumption
    <3>. QED  BY <1>1, <3>1, RecentOf, SMTT(30)
  <2>2. Len(h) \in Nat /\ Len(r) >= 3
    BY <2>1, SchedulerAssumption
  <2>. QED  BY <2>1, <2>2
<1>3. PICK l : l = Recent(Threshold, r)
  OBVIOUS
<1>4. /\ l \in Seq(S) /\ Len(l) = Threshold
      /\ \A k \in Nat : k < Len(l) => l[Len(l) - k] = r[Len(r) - k]
  <2>1. /\ l \in Seq(S) /\ Len(l) = IF Len(r) > Threshold THEN Threshold ELSE Len(r)
        /\ \A k \in Nat : k < Len(l) => l[Len(l) - k] = r[Len(r) - k]
    <3>1. Threshold \in Nat
      BY SchedulerAssumption
    <3>. QED  BY <1>2, <1>3, <3>1, RecentOf, SMTT(30)
  <2>2. Len(r) \in Nat /\ Len(r) >= Threshold /\ Threshold \in Nat
    BY <1>2, SchedulerAssumption
  <2>. QED  BY <2>1, <2>2
<1>5. ASSUME NEW i \in DOMAIN l PROVE l[i] = h[Len(h)]
  <2>1. PICK k \in Nat : k = Len(l) - i
    <3>1. i \in 1..Len(l) /\ Len(l) \in Nat
      BY <1>4
    <3>2. Len(l) - i \in Nat
      BY <3>1
    <3>. QED  BY <3>2
  <2>2. k \in {0, 1, 2} /\ k < Len(l) /\ k < Len(r) /\ Len(l) - k = i
    <3>1. i \in 1..Len(l) /\ Len(l) \in 1..3 /\ Len(r) \in Nat /\ Len(l) <= Len(r)
      BY <1>2, <1>4
    <3>2. PICK m, n : m = Len(l) /\ n = Len(r)
      OBVIOUS
    <3>3. m \in 1..3 /\ n \in Nat /\ i \in 1..m /\ m <= n /\ k = m - i /\ k \in Nat
      BY <2>1, <3>1, <3>2
    <3>4. k \in {0, 1, 2} /\ k < m /\ k < n /\ m - k = i
      BY ONLY <3>3, FromTheEnd
    <3>. QED  BY <3>2, <3>4, Zenon
  <2>3. l[i] = h[Len(h) - k]
    BY <1>2, <1>4, <2>2
  <2>4. h[Len(h) - 0] = h[Len(h)]
    OBVIOUS
  <2>. QED  BY <2>2, <2>3, <2>4
<1>. QED  BY <1>1, <1>3, <1>4, <1>5 DEF Detected, Repeated

\* ... and so are two that come twice.
LEMMA TwiceTwoAreALoop ==
  ASSUME NEW S, NEW h \in Seq(S), Len(h) >= 4, 4 <= WindowSize,
         h[Len(h)] = h[Len(h) - 2], h[Len(h) - 1] = h[Len(h) - 3]
  PROVE  Detected(h)
<1>1. PICK r : r = Recent(WindowSize, h)
  OBVIOUS
<1>2. /\ r \in Seq(S) /\ Len(r) >= 4
      /\ \A k \in Nat : k < Len(r) => r[Len(r) - k] = h[Len(h) - k]
  <2>1. /\ r \in Seq(S) /\ Len(r) = IF Len(h) > WindowSize THEN WindowSize ELSE Len(h)
        /\ \A k \in Nat : k < Len(r) => r[Len(r) - k] = h[Len(h) - k]
    <3>1. WindowSize \in Nat
      BY SchedulerAssumption
    <3>. QED  BY <1>1, <3>1, RecentOf, SMTT(30)
  <2>2. Len(h) \in Nat /\ Len(r) >= 4
    BY <2>1, SchedulerAssumption
  <2>. QED  BY <2>1, <2>2
<1>3. ASSUME NEW k \in 0..3 PROVE r[Len(r) - k] = h[Len(h) - k]
  <2>1. k \in Nat /\ k < Len(r)
    BY <1>2
  <2>. QED  BY <1>2, <2>1
<1>4. r[Len(r)] = h[Len(h)]
  <2>1. PICK k \in 0..3 : k = 0
    OBVIOUS
  <2>2. Len(r) - k = Len(r) /\ Len(h) - k = Len(h)
    BY <1>2, <2>1
  <2>. QED  BY <1>3, <2>2
<1>5. r[Len(r) - 1] = h[Len(h) - 1] /\ r[Len(r) - 2] = h[Len(h) - 2] /\ r[Len(r) - 3] = h[Len(h) - 3]
  <2>1. 1 \in 0..3 /\ 2 \in 0..3 /\ 3 \in 0..3
    OBVIOUS
  <2>. QED  BY <1>3, <2>1, Zenon
<1>. QED  BY <1>1, <1>2, <1>4, <1>5 DEF Detected, ShortCycle

\* What the guard sees as a loop ends with an observation that was made before.
LEMMA LoopsRepeat ==
  ASSUME NEW S, NEW h \in Seq(S), Threshold >= 2, Detected(h)
  PROVE  \E j \in 1..(Len(h) - 1) : h[j] = h[Len(h)]
<1>1. PICK r : r = Recent(WindowSize, h)
  OBVIOUS
<1>2. /\ r \in Seq(S) /\ Len(r) \in Nat /\ Len(r) <= Len(h)
      /\ \A k \in Nat : k < Len(r) => r[Len(r) - k] = h[Len(h) - k]
  <2>1. /\ r \in Seq(S) /\ Len(r) = IF Len(h) > WindowSize THEN WindowSize ELSE Len(h)
        /\ \A k \in Nat : k < Len(r) => r[Len(r) - k] = h[Len(h) - k]
    <3>1. WindowSize \in Nat
      BY SchedulerAssumption
    <3>. QED  BY <1>1, <3>1, RecentOf, SMTT(30)
  <2>2. Len(h) \in Nat /\ Len(r) \in Nat
    BY <2>1
  <2>. QED  BY <2>1, <2>2, SchedulerAssumption
<1>3. ASSUME NEW k \in Nat \ {0}, k < Len(r), r[Len(r) - k] = r[Len(r)]
      PROVE  \E j \in 1..(Len(h) - 1) : h[j] = h[Len(h)]
  <2>1. h[Len(h) - k] = r[Len(r) - k] /\ h[Len(h) - 0] = r[Len(r) - 0]
    <3>1. 0 \in Nat /\ 0 < Len(r) /\ k \in Nat
      BY <1>2, <1>3
    <3>. QED  BY <1>2, <1>3, <3>1, Zenon
  <2>2. Len(h) - 0 = Len(h) /\ Len(r) - 0 = Len(r) /\ Len(h) - k \in 1..(Len(h) - 1)
    BY <1>2, <1>3
  <2>. QED  BY <1>3, <2>1, <2>2
<1>4. CASE ShortCycle(h)
  <2>1. Len(r) >= 4 /\ r[Len(r)] = r[Len(r) - 2]
    BY <1>1, <1>4 DEF ShortCycle
  <2>2. 2 \in Nat \ {0} /\ 2 < Len(r)
    BY <1>2, <2>1
  <2>. QED  BY <1>3, <2>1, <2>2
<1>5. CASE Repeated(h)
  <2>1. PICK l : l = Recent(Threshold, r)
    OBVIOUS
  <2>2. /\ Len(l) = Threshold /\ \A i, j \in DOMAIN l : l[i] = l[j]
    BY <1>1, <1>5, <2>1 DEF Repeated
  <2>3. /\ l \in Seq(S) /\ Len(l) = IF Len(r) > Threshold THEN Threshold ELSE Len(r)
        /\ \A k \in Nat : k < Len(l) => l[Len(l) - k] = r[Len(r) - k]
    <3>1. Threshold \in Nat
      BY SchedulerAssumption
    <3>. QED  BY <1>2, <2>1, <3>1, RecentOf, SMTT(30)
  <2>4. /\ Len(l) \in Nat /\ Len(l) >= 2 /\ Len(l) <= Len(r)
        /\ Len(l) \in DOMAIN l /\ Len(l) - 1 \in DOMAIN l
    BY <1>2, <2>2, <2>3, SchedulerAssumption, SMTT(30)
  <2>5. l[Len(l) - 1] = r[Len(r) - 1] /\ l[Len(l) - 0] = r[Len(r) - 0]
    <3>1. 0 \in Nat /\ 0 < Len(l) /\ 1 \in Nat /\ 1 < Len(l)
      BY <2>4
    <3>. QED  BY <2>3, <3>1, Zenon
  <2>6. Len(l) - 0 = Len(l) /\ Len(r) - 0 = Len(r) /\ 1 \in Nat \ {0} /\ 1 < Len(r)
    BY <1>2, <2>4
  <2>7. r[Len(r) - 1] = r[Len(r)]
    BY <2>2, <2>4, <2>5, <2>6
  <2>. QED  BY <1>3, <2>6, <2>7
<1>. QED  BY <1>4, <1>5 DEF Detected

\* An intent that is delivered is what was observed.
LoopInv ==
  /\ \A i \in Intents : delivered[i] = observed[i]
  /\ LoopsAreStopped

LEMMA DeliverLoopInv ==
  ASSUME StepsInv, LoopInv, Threshold \in 2..3, 4 <= WindowSize,
         Step <= MaxSteps, NEW d \in Decisions, Deliver(d)
  PROVE  LoopInv'
<1>. DEFINE e == IF Detected(observed') THEN Escalation("loop", Inputs) ELSE d
            n == Len(observed) + 1
<1>1. e \in Decisions /\ (e.kind = "intent" => ~ Detected(observed') /\ e = d)
  BY EscalationsAreDecisions
<1>2. observed' = Append(observed, d) /\ delivered' = Append(delivered, e)
  BY DEF Deliver
<1>. HIDE DEF e
<1>3. /\ observed' \in Seq(Decisions) /\ Len(observed') = n /\ n \in Nat
      /\ observed'[n] = d /\ \A i \in 1..(n - 1) : observed'[i] = observed[i]
  BY <1>2 DEF StepsInv
<1>4. /\ delivered' \in Seq(Decisions) /\ DOMAIN delivered' = 1..n /\ DOMAIN delivered = 1..(n - 1)
      /\ delivered'[n] = e /\ \A i \in 1..(n - 1) : delivered'[i] = delivered[i]
  BY <1>1, <1>2 DEF StepsInv
<1>5. /\ Intents \subseteq 1..(n - 1) /\ Intents' \subseteq 1..n
      /\ \A i \in 1..(n - 1) : i \in Intents' <=> i \in Intents
  BY <1>4 DEF Intents
<1>6. n \in Intents' => ~ Detected(observed') /\ e = d
  BY <1>1, <1>4 DEF Intents
<1>. HIDE DEF n
<1>7. ASSUME NEW i \in Intents' PROVE delivered'[i] = observed'[i]
  <2>1. CASE i = n
    BY <1>3, <1>4, <1>6, <1>7, <2>1
  <2>2. CASE i \in 1..(n - 1)
    BY <1>3, <1>4, <1>5, <1>7, <2>2 DEF LoopInv
  <2>3. i = n \/ i \in 1..(n - 1)
    BY <1>3, <1>5, <1>7
  <2>. QED  BY <2>1, <2>2, <2>3
<1>8. ASSUME NEW i \in Intents', i - 1 \in Intents', i - 2 \in Intents'
      PROVE  ~ (delivered'[i] = delivered'[i - 1] /\ delivered'[i] = delivered'[i - 2])
  <2>1. CASE i \in 1..(n - 1)
    <3>1. i - 1 \in 1..(n - 1) /\ i - 2 \in 1..(n - 1)
      BY <1>3, <1>5, <1>8, <2>1
    <3>2. i \in Intents /\ i - 1 \in Intents /\ i - 2 \in Intents
      BY <1>5, <1>8, <2>1, <3>1
    <3>. QED  BY <1>4, <2>1, <3>1, <3>2 DEF LoopInv, LoopsAreStopped, NoLoopIsDelivered
  <2>2. CASE i = n
    <3>. SUFFICES ASSUME delivered'[n] = delivered'[n - 1], delivered'[n] = delivered'[n - 2] PROVE FALSE
      BY <2>2
    <3>1. observed'[n] = observed'[n - 1] /\ observed'[n] = observed'[n - 2]
      BY <1>7, <1>8, <2>2
    <3>2. n >= 3
      BY <1>3, <1>5, <1>8, <2>2
    <3>3. Threshold <= 3
      OBVIOUS
    <3>. QED  BY <1>3, <1>6, <1>8, <2>2, <3>1, <3>2, <3>3, ThreeAreALoop
  <2>. QED  BY <1>3, <1>5, <1>8, <2>1, <2>2
<1>9. ASSUME NEW i \in Intents', i - 1 \in Intents', i - 2 \in Intents', i - 3 \in Intents'
      PROVE  ~ (delivered'[i] = delivered'[i - 2] /\ delivered'[i - 1] = delivered'[i - 3])
  <2>1. CASE i \in 1..(n - 1)
    <3>1. i - 1 \in 1..(n - 1) /\ i - 2 \in 1..(n - 1) /\ i - 3 \in 1..(n - 1)
      BY <1>3, <1>5, <1>9, <2>1, SMTT(20)
    <3>2. i \in Intents /\ {i - 1, i - 2, i - 3} \subseteq Intents
      BY <1>5, <1>9, <2>1, <3>1
    <3>. QED  BY <1>4, <2>1, <3>1, <3>2 DEF LoopInv, LoopsAreStopped, NoLoopIsDelivered
  <2>2. CASE i = n
    <3>. SUFFICES ASSUME delivered'[n] = delivered'[n - 2], delivered'[n - 1] = delivered'[n - 3] PROVE FALSE
      BY <2>2
    <3>1. observed'[n] = observed'[n - 2] /\ observed'[n - 1] = observed'[n - 3]
      BY <1>7, <1>9, <2>2
    <3>2. n >= 4
      BY <1>3, <1>5, <1>9, <2>2
    <3>. QED  BY <1>3, <1>6, <1>9, <2>2, <3>1, <3>2, TwiceTwoAreALoop
  <2>. QED  BY <1>3, <1>5, <1>9, <2>1, <2>2
<1>10. ASSUME NEW i \in DOMAIN delivered', delivered'[i] # observed'[i]
       PROVE  \E j \in 1..(i - 1) : observed'[j] = observed'[i]
  <2>1. CASE i \in 1..(n - 1)
    <3>1. delivered[i] # observed[i] /\ i \in DOMAIN delivered
      BY <1>3, <1>4, <1>10, <2>1
    <3>2. PICK j \in 1..(i - 1) : observed[j] = observed[i]
      BY <3>1 DEF LoopInv, LoopsAreStopped, OnlyLoopsAreStopped
    <3>3. j \in 1..(n - 1)
      BY <1>3, <2>1
    <3>. QED  BY <1>3, <2>1, <3>2, <3>3
  <2>2. CASE i = n
    <3>1. Detected(observed')
      BY <1>3, <1>4, <1>10, <2>2 DEF e
    <3>. QED  BY <1>3, <2>2, <3>1, LoopsRepeat
  <2>. QED  BY <1>3, <1>4, <1>10, <2>1, <2>2
<1>. QED  BY <1>7, <1>8, <1>9, <1>10
          DEF LoopInv, LoopsAreStopped, NoLoopIsDelivered, OnlyLoopsAreStopped

\* The scheduler never delivers three intents in a row that are alike in capability,
\* artifacts, priority and hint, nor two such intents in turn, and delivers each decision
\* that was not made before in the run: for every window of at least four observations and
\* a threshold of two or three.  LoopGuard has five and three.
THEOREM LoopGuardStopsLoops ==
  ASSUME Threshold \in 2..3, 4 <= WindowSize
  PROVE  Spec => []LoopsAreStopped
<1>1. Init => LoopInv
  BY DEF Init, LoopInv, LoopsAreStopped, NoLoopIsDelivered, OnlyLoopsAreStopped, Intents
<1>2. StepsInv /\ LoopInv /\ [Next]_vars => LoopInv'
  <2>. SUFFICES ASSUME StepsInv, LoopInv, [Next]_vars PROVE LoopInv'
    OBVIOUS
  <2>1. CASE ScheduleNext \/ OutOfBudget
    BY <2>1, StepsDeliver, DeliverLoopInv
  <2>2. CASE UNCHANGED <<run_steps, observed, delivered>>
    BY <2>2 DEF LoopInv, LoopsAreStopped, NoLoopIsDelivered, OnlyLoopsAreStopped, Intents
  <2>. QED  BY <2>1, <2>2 DEF Next, OtherAgent, vars
<1>3. LoopInv => LoopsAreStopped
  BY DEF LoopInv
<1>. QED  BY <1>1, <1>2, <1>3, InitInv, NextStepsInv, PTL DEF Spec
=============================================================================
