---------------------------- MODULE ModelGateway ----------------------------
(***************************************************************************)
(* ModelGateway (src/src/runtime/model_provider.py), which all agents of a  *)
(* run call through StructuredModelRunner (runtime/agent_models.py): the    *)
(* budget of the run is checked before a provider is called, and again when *)
(* the tokens that it used are known.                                       *)
(*                                                                         *)
(* Tokens and costs are small numbers; what the provider answers is left    *)
(* out, an agent only sees whether there is an answer.                      *)
(***************************************************************************)
EXTENDS Naturals

CONSTANTS
  Profiles,      \* ModelProfile
  Configured,    \* profiles with a configuration and a provider
  OutputCap,     \* ModelProfileConfig.max_output_tokens, by profile
  Price,         \* cost of a token, in a unit that all costs are multiples of
  InputTokens,   \* what a call may use: prompts differ
  OutputTokens,  \* and what a provider may report, whatever it was asked for
  MaxCalls,      \* ModelBudget, field by field
  MaxInput,
  MaxOutput,
  MaxCost

ASSUME GatewayAssumption ==
  /\ Configured \subseteq Profiles
  /\ OutputCap \in [Configured -> Nat \ {0}]
  /\ Price \in Nat
  /\ InputTokens \subseteq Nat
  /\ OutputTokens \subseteq Nat
  /\ {MaxCalls, MaxInput, MaxOutput, MaxCost} \subseteq Nat

VARIABLES
  usage,   \* ModelUsage of the run
  handed   \* history variable: usage of the calls whose answer an agent got

Usage == [calls : Nat, input : Nat, output : Nat, cost : Nat]

NoUsage == [calls |-> 0, input |-> 0, output |-> 0, cost |-> 0]

InitGateway == usage = NoUsage /\ handed = NoUsage

\* One more call, with its tokens and its cost.
Charged(u, i, o) ==
  [calls |-> u.calls + 1, input |-> u.input + i, output |-> u.output + o,
   cost |-> u.cost + Price * (i + o)]

\* Mutant: the output tokens are left to the check after the call.
PreflightWithoutOutput(p) ==
  /\ usage.calls < MaxCalls
  /\ usage.input < MaxInput
  /\ usage.cost < MaxCost

\* _preflight_budget_error finds nothing.
Preflight(p) ==
  /\ usage.calls < MaxCalls
  /\ usage.input < MaxInput
  /\ usage.output + OutputCap[p] <= MaxOutput
  /\ usage.cost < MaxCost

\* Mutant: the cost of the call itself is not counted.
WouldExceedBefore(i, o) ==
  \/ usage.input > MaxInput
  \/ usage.output > MaxOutput
  \/ usage.cost > MaxCost

\* _would_exceed_budget
WouldExceed(i, o) ==
  \/ usage.input + i > MaxInput
  \/ usage.output + o > MaxOutput
  \/ usage.cost + Price * (i + o) > MaxCost

\* Profile, provider or budget is missing, or the provider raises: no usage is
\* recorded.
Unanswered(p) == UNCHANGED <<usage, handed>>

\* The provider answers within the budget and the cap: the agent has an answer.
Answered(p) ==
  \E i \in InputTokens, o \in OutputTokens :
    /\ p \in Configured
    /\ Preflight(p)
    /\ ~ WouldExceed(i, o)
    /\ o <= OutputCap[p]
    /\ usage' = Charged(usage, i, o)
    /\ handed' = Charged(handed, i, o)

\* It answers, and the usage is recorded, but it is too much: an error.
Withheld(p) ==
  \E i \in InputTokens, o \in OutputTokens :
    /\ p \in Configured
    /\ Preflight(p)
    /\ WouldExceed(i, o) \/ o > OutputCap[p]
    /\ usage' = Charged(usage, i, o)
    /\ UNCHANGED handed

\* ModelGateway.generate, for any of the agents.
Generate(p) == Unanswered(p) \/ Withheld(p) \/ Answered(p)

-----------------------------------------------------------------------------
\* Properties.

\* Usage and answers are counted.
GatewayTypeOK == usage \in Usage /\ handed \in Usage

Within(u) == u.calls <= MaxCalls /\ u.input <= MaxInput /\ u.output <= MaxOutput /\ u.cost <= MaxCost

\* What the agents were given answers for never exceeds the budget of the run, nor
\* what was recorded, although a provider may use more than it was asked to.
AnswersAreWithinBudget ==
  /\ Within(handed)
  /\ \A f \in DOMAIN usage : handed[f] <= usage[f]

\* At most one call goes over the budget: after it, no provider is called again.
OverrunIsLast == [][~ Within(usage) => UNCHANGED usage]_<<usage, handed>>
=============================================================================
