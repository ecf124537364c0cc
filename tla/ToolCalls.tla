------------------------------ MODULE ToolCalls ------------------------------
(***************************************************************************)
(* The searches of boards that run at the same time.  Every run of the      *)
(* service shares one LazyRuntimeToolExecutor                              *)
(* (src/src/knowledge/qdrant_tools.py), which loads the embedding model and *)
(* registers the tools in the first call; ToolExecutor                     *)
(* (src/src/runtime/tools.py) checks and runs a call.  A search is two      *)
(* calls, one after the other, and ends in a bundle                        *)
(* (RetrievalAgent.execute in src/src/runtime/board_runtime.py,             *)
(* _retrieve_context_hole in src/src/runtime/context.py).                   *)
(*                                                                         *)
(* Nothing locks the executor: a thread may be interrupted between the look *)
(* at `_executor', the load, the assignment and the use.                   *)
(***************************************************************************)
EXTENDS Naturals, Sequences, SequencesExt

CONSTANTS
  Threads,   \* one for each run that searches
  None,      \* `_executor' at first
  Tools,     \* the adapters, in the order in which they are registered
  Intents    \* the tools of a search, in the order in which they are called

ASSUME CallsAssumption ==
  /\ None \notin Threads
  /\ Tools \in Seq(ToSet(Tools)) /\ \A i, j \in DOMAIN Tools : Tools[i] = Tools[j] => i = j
  /\ Intents \in Seq(ToSet(Tools)) /\ Intents # <<>>

VARIABLES
  executor,    \* `_executor': the thread that built it
  registry,    \* how many adapters the registry has that the thread built last
  at,          \* where the current call of the thread is
  using,       \* the executor that the call runs on
  results,     \* the statuses of the calls of the search
  \* history variables
  installed,   \* the threads that assigned `_executor', in order
  early        \* did the current call begin before the first assignment?

vars == <<executor, registry, at, using, results, installed, early>>

Init ==
  /\ executor = None
  /\ registry = [t \in Threads |-> 0]
  /\ at = [t \in Threads |-> "call"]
  /\ using = [t \in Threads |-> None]
  /\ results = [t \in Threads |-> <<>>]
  /\ installed = <<>>
  /\ early = [t \in Threads |-> FALSE]

-----------------------------------------------------------------------------
\* LazyRuntimeToolExecutor.execute

Go(t, place) == at' = [at EXCEPT ![t] = place]

\* Is a load the reason why the latest call of the thread failed?
NotLoaded(t) == results[t] # <<>> /\ Last(results[t]) = "not_loaded"

\* Mutant: a thread that failed to load tries again, whatever there is by now.
LookStubborn(t) ==
  /\ at[t] = "call"
  /\ Len(results[t]) < Len(Intents)
  /\ Go(t, IF executor = None \/ NotLoaded(t) THEN "load" ELSE "use")
  /\ early' = [early EXCEPT ![t] = installed = <<>>]
  /\ UNCHANGED <<executor, registry, using, results, installed>>

\* `self._executor is None'
Look(t) ==
  /\ at[t] = "call"
  /\ Len(results[t]) < Len(Intents)
  /\ Go(t, IF executor = None THEN "load" ELSE "use")
  /\ early' = [early EXCEPT ![t] = installed = <<>>]
  /\ UNCHANGED <<executor, registry, using, results, installed>>

\* The client and the model are there; the registry is empty.
Load(t) ==
  /\ at[t] = "load"
  /\ Go(t, "register")
  /\ registry' = [registry EXCEPT ![t] = 0]
  /\ UNCHANGED <<executor, using, results, installed, early>>

Register(t) ==
  /\ at[t] = "register"
  /\ registry[t] < Len(Tools)
  /\ registry' = [registry EXCEPT ![t] = @ + 1]
  /\ UNCHANGED <<executor, at, using, results, installed, early>>

\* Mutant: the executor is assigned while its registry is filled.
InstallEarly(t) ==
  /\ at[t] = "register"
  /\ IF executor # t /\ registry[t] = 0
       THEN executor' = t /\ installed' = Append(installed, t) /\ UNCHANGED at
       ELSE registry[t] = Len(Tools) /\ Go(t, "use") /\ UNCHANGED <<executor, installed>>
  /\ UNCHANGED <<registry, using, results, early>>

\* `self._executor = ToolExecutor(registry, ...)', over whatever is there
Install(t) ==
  /\ at[t] = "register"
  /\ registry[t] = Len(Tools)
  /\ executor' = t
  /\ installed' = Append(installed, t)
  /\ Go(t, "use")
  /\ UNCHANGED <<registry, using, results, early>>

\* The result of a call is put into the bundle, and the next call is made.
Answered(t, status) ==
  /\ results' = [results EXCEPT ![t] = Append(@, status)]
  /\ Go(t, "call")

\* Mutant: the executor is reset along with the load.
LoadFailsForAll(t) ==
  /\ at[t] = "load"
  /\ Answered(t, "failed")
  /\ executor' = None
  /\ UNCHANGED <<registry, using, installed, early>>

\* Mutant: the exception ends the search.
LoadFailsLoudly(t) ==
  /\ at[t] = "load"
  /\ Go(t, "raised")
  /\ UNCHANGED <<executor, registry, using, results, installed, early>>

\* runtime_tool_initialization_failed, whoever else has an executor by now
LoadFails(t) ==
  /\ at[t] = "load"
  /\ Answered(t, "not_loaded")
  /\ UNCHANGED <<executor, registry, using, installed, early>>

\* `self._executor.execute' reads the attribute once more.
Use(t) ==
  /\ at[t] = "use"
  /\ using' = [using EXCEPT ![t] = executor]
  /\ Go(t, "run")
  /\ UNCHANGED <<executor, registry, results, installed, early>>

-----------------------------------------------------------------------------
\* ToolExecutor.execute

Registered(t) == {Tools[i] : i \in 1..registry[using[t]]}

Tool(t) == Intents[Len(results[t]) + 1]

\* The adapter returns, with or without items, or raises; an exception becomes a
\* failed result, as does a tool that is not registered.
Statuses(t) ==
  IF Tool(t) \in Registered(t) THEN {"answered", "failed"} ELSE {"failed"}

\* Mutant: a failed call gives the executor up.
RunOnce(t) ==
  /\ at[t] = "run"
  /\ \E status \in Statuses(t) :
       /\ Answered(t, status)
       /\ executor' = IF status = "failed" THEN None ELSE executor
  /\ UNCHANGED <<registry, using, installed, early>>

\* Mutant: a call that fails leaves nothing in the bundle.
RunQuietly(t) ==
  /\ at[t] = "run"
  /\ \E status \in Statuses(t) :
       results' = [results EXCEPT ![t] = IF status = "failed" THEN @ ELSE Append(@, status)]
  /\ Go(t, "call")
  /\ UNCHANGED <<executor, registry, using, installed, early>>

Run(t) ==
  /\ at[t] = "run"
  /\ \E status \in Statuses(t) : Answered(t, status)
  /\ UNCHANGED <<executor, registry, using, installed, early>>

Thread(t) ==
  Look(t) \/ Load(t) \/ Register(t) \/ Install(t) \/ LoadFails(t) \/ Use(t) \/ Run(t)

Next == \E t \in Threads : Thread(t)

\* The threads run; a load and a call of an adapter end.
Spec == Init /\ [][Next]_vars /\ \A t \in Threads : WF_vars(Thread(t))

-----------------------------------------------------------------------------
\* Properties.

\* There is an executor from the first assignment on, and it is that of the
\* latest.
TypeOK ==
  /\ executor = IF installed = <<>> THEN None ELSE Last(installed)
  /\ registry \in [Threads -> 0..Len(Tools)]
  /\ at \in [Threads -> {"call", "load", "register", "use", "run"}]
  /\ using \in [Threads -> Threads \cup {None}]
  /\ results \in [Threads -> Seq({"answered", "failed", "not_loaded"})]
  /\ \A t \in Threads : Len(results[t]) <= Len(Intents)
  /\ installed \in Seq(Threads)
  /\ early \in [Threads -> BOOLEAN]

\* A call runs on an executor with all its tools, whichever thread built it and
\* although another may replace it meanwhile: no call fails for a tool that is
\* not registered yet.
UsedIsComplete ==
  \A t \in Threads :
    at[t] = "run" => using[t] # None /\ registry[using[t]] = Len(Tools)

\* A thread loads the model at most once, in a call that began before there was
\* an executor: failed calls do not make it load again, and there are never more
\* models than threads that came at the same time.
LoadsAreFirstCalls ==
  /\ \A i, j \in DOMAIN installed : installed[i] = installed[j] => i = j
  /\ \A t \in Threads : at[t] \in {"load", "register"} => early[t] /\ t \notin ToSet(installed)

\* A failed load is the failure of that one call: as soon as one thread has an
\* executor, no call that begins afterwards fails for want of it.
FailureIsNotKept == \A t \in Threads : at[t] = "call" /\ NotLoaded(t) => early[t]

\* The calls of all boards are served by an executor that each of them may make.
ExecutorIsShared == TypeOK /\ UsedIsComplete /\ LoadsAreFirstCalls /\ FailureIsNotKept

\* Every search ends with a result for each of its tools in their order, which
\* says of a failed call that it failed, however the loads of the others end.
SearchesEnd == \A t \in Threads : <>(Len(results[t]) = Len(Intents))
=============================================================================
