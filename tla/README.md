# LawAgent in TLA+

Specifications of the LawAgent service: a conversation service in which a board
of agents works on every message of a user, a deterministic gate decides whether
the answer may leave, and an HTTP stream carries milestones and answer to the
client. The modules are written from the code under `src/src` and `src/main.py`;
TLC checks them on small instances, and TLAPS proves the most important
invariants for every value of the constants.

`PROJECT.json` has the machine-readable part: the components, the runs with
their properties, the source lines of every definition (`map`), the hazards of
the code with the properties that cover them, and the theorems. For every
property of a passing run there is a mutant, an operator in the module (its
comment begins with "Mutant:") that changes one definition as a plausible bug
would, and that breaks the property.

    tlc -workers 2 -config MCHarness.cfg MCHarness      # one of the runs
    tlapm HarnessProofs.tla                             # one of the proofs

## 1. The system

    client --POST /chat--> stream_ai (main.py)
                             |  authenticate_or_bind      api/session_auth.py
                             v
                           build_chat_stream, iter_agent_events   api/sse.py
                             |  task                ^ queue of milestones
                             v                      | (call_soon_threadsafe)
                           ConversationHarness.handle_async   conversation/harness.py
                             |  to_thread           |  storage ports, memory service
                             v                      v
                           TaskBoardRuntime.run     persistence/, runtime/memory.py
                             |  claims tasks for the seven default agents
                             v
                           agents --> ModelGateway, ToolExecutor, MatterBlackboard
                             |
                             v
                           DeliveryGate             safety/delivery_gate.py

| component | state | operations | module |
|---|---|---|---|
| task board runtime (`runtime/board_runtime.py`, `taskboard.py`) | the board of a run: tasks, artifacts, round, claims, progress; claims per agent | create root task, round loop, claim, deliver, fail, derive with deduplication, gate decision, stops | `TaskBoard`, `RunContract` |
| default agents, matter blackboard (`board_runtime.py`, `intake/blackboard.py`, `scenario_pack.py`) | facts, sufficiency, risks of a matter; loop guards and step budgets of the scheduler | the `execute` of seven agents | `Consultation`, `Scheduler` |
| scheduling guards (`runtime/scheduling.py`) | step counters, history of fingerprints | `consume`, `observe` | `Scheduler` |
| model gateway (`runtime/model_provider.py`, `agent_models.py`) | usage of the run's model budget | `generate` | `ModelGateway` |
| conversation harness (`conversation/harness.py`) | background tasks, runtimes | `handle_async` = prepare, board, finalize; drain; delete examples | `Harness` |
| storage ports, in-memory adapters (`persistence/storage.py`) | blackboards, history, traces, examples, profiles | one call each, may fail | in `Harness`; `StoragePort` |
| Postgres and Redis adapters (`persistence/persistence_adapters.py`) | the rows and keys of the databases | one command or transaction each | `DatabaseStores` |
| memory service (`runtime/memory.py`) | messages by session, windowed | replace, write, read | in `Harness` |
| chat stream (`api/sse.py`, `main.py`) | history store, queue and task of each request | the two generators, the background run, disconnects | `ChatStream` |
| session authentication (`api/session_auth.py`) | token of each user | `authenticate_or_bind` | in `ChatStream` |
| event hooks (`runtime/hooks.py`) | subscriptions; a bounded queue and what waits for it | subscribe, dispatch; enqueue, forward_one | `EventForwarder`, `ChatStream` |
| context service (`runtime/context.py`) | none; it appends bundles to the board | build a context, fill its hole | `EvidenceChain`; the window of the memory in `Harness` |
| tools and retrieval (`runtime/tools.py`, `knowledge/qdrant_tools.py`) | the executor that all boards share, loaded late | execute; search | `ToolCalls`, `HybridSearch` |
| delivery gate (`safety/delivery_gate.py`), law validity (`safety/law_validity.py`), final response (`runtime/final_response.py`) | none | evaluate, validate | what relates artifacts: `EvidenceChain`; what depends on the matter: `Consultation` |
| PII review, embedder, scripts, page | - | - | not modelled, section 8 |

What is hard in this code:

* **Concurrency.** `handle_async` is a coroutine that may be suspended at every
  storage call; its board runs in a thread; several requests of one session work
  on copies of one matter; several streams of one user share a history, by
  reference; events cross from the thread to the event loop. All of it is
  interleaved in `Harness` and `ChatStream`.
* **Failure.** A storage call may raise at any point, an agent may raise after it
  has delivered half of its artifacts, a model may answer nothing, nonsense or too
  much, a client may go away, a request may be cancelled between two writes.
* **A world that changes.** The index that is searched is rebuilt while runs use it:
  two queries of one call, or two searches of one run, may see different statutes,
  and a statute may be in force for one of them only.
* **Long protocols.** Facts, questions, risks and the confirmed intent are kept
  over the turns of a matter, while deduplication keys, claims and the budget
  are per run: an illegal state needs several messages in the right order.
* **Limits.** Rounds, claims, tasks, depth, questions, tokens, cost, windows, each
  compared at another place and at another time.

## 2. The modules

**`RunContract`** is the abstract specification of a run: rounds, at most
`MaxRounds` of them, and one stop with one of three outcomes - a delivered answer,
the safe error in place of a blocked one, or nothing. `TaskBoard` implements it;
`Harness` takes its outcomes as the possible results of a board.

**`TaskBoard`** is `TaskBoardRuntime.run` with arbitrary agents. `pc` tells where
the loop is: between rounds ("round"), going through the snapshot of ready tasks
("dispatch"), or inside the delivery of an agent, which hands over its artifacts
("artifacts") and then the tasks it derives ("derive"). `StartRound` takes the
snapshot; `BlockTask`, `ClaimTask` handle its next task; `AppendArtifact`,
`AddTask`, `DeduplicateTask` are the parts of a delivery, in any number;
`CompleteTask` and `FailTask` end it, the latter also in the middle;
`EndRound`, `StopForBudget`, `Deliver`, `BlockDelivery`, `FinishEmptyHanded` are
the ends of rounds and runs. A task is a record of its status, key, needs, parent, dependencies, depth and
claim. `ChildTasksOnly` restricts agents to what `_child_task` derives.

**`Consultation`** is the default agents on one matter over several turns. Every
default agent has a capability of its own and derives at most one task, so a run
is a chain of tasks and one action is one round of the board: `AssessSafety`,
`ScheduleNext`, `UnderstandMessage`, `RetrieveContext`, `AnalyzeEvidence`,
`ComposeResponse`, `ReviewResponse`, and the ways in which a round may go wrong.
A message is what agents read out of it: facts stated, "I do not know", danger
markers, an intent option. The model's candidates are nondeterministic within
what each agent accepts.

**`Harness`** is `handle_async` for many runs. `pc[r]` names the next call of run
`r`; one action is one call and what follows it up to the next. Every storage
call may raise (`FailCall`), and every wait may be cancelled (`Cancel`). A matter
is the set of runs whose facts it holds; `committed`, `overlapped` and
`forgotten` are history variables.

**`ChatStream`** is the endpoint: the generators of each stream (`phase`), the
background task and its thread (`run`, `callbacks`, `queue`), the list objects
behind `history_store` (`lists`, `stored`, `captured`), the token store, and the
server that cancels what it waits for when the client is gone (modelled from how
Starlette drives a generator: it sends each frame before it asks for the next).

**`ModelGateway`** and **`Scheduler`** are the budgets of a run. `Generate` is a
call of any agent: preflight, provider, comparison with the budget, accounting.
`Scheduler` extends it with `SchedulerAgent`, its step budget and loop guard;
`Returns` says after which decisions the chain of tasks comes back to it.

**`EvidenceChain`** is one run seen by what its artifacts hold and refer to. Like
`Consultation` it is a chain of rounds, with the same agents; there a turn is told by
what it does to the matter, here by the evidence: an artifact is its type, its
sources, its references and its content, and the board is the sequence of them.
`RetrieveContext` and the holes that `Fill` fills search an index that `Reindex`
changes; `Analyses` says which claims and items come of a bundle, `ReviewContext`
which artifacts the reviewer is shown, and `Delivers` has the checks of the gate in
their order. A model proposes claims, item assessments, verdicts, and schedules
any task with any artifacts. It is assumed that the service runs with retrieval
(`LAWAGENT_RAG_ENABLED`; harness.py:365-395 gives one executor to the retrieval agent
and to the context service). Without it nothing is found, which is a case of `Found`.

**`ToolCalls`** is the executor that the boards of all requests share: `Look`,
`Load`, `Register`, `Install` and `Use` are the places between which a thread may be
interrupted. **`HybridSearch`** is one call of a search adapter: two queries, the
fusion of their ranks, the page. A weight 1/(`RrfK` + rank) is a number of units of
1/`Scale`, a common multiple of the denominators, and a score is the number of units an id
has from both lists (`Shares`). The sort is stated by what it returns: the ids, each where
as many are as come before it (`Position`, `Ranked`). Scores are exact here; with
floating-point numbers sums of three and more terms, which need an id twice in one list,
may order ties differently.

**`EventForwarder`** is the dispatcher with several boards in threads of their own
and the forwarder with its queue, the task that empties it and the threads that
`asyncio.to_thread` leaves behind. An event is its place in the order of the
offers; whether it reaches the forwarder is decided for each subscriber by the
visibility it asked for, at the time of the emission. `dropped_count += 1` is one step: CPython gives up its lock at calls and jumps,
of which there is none in it.

**`StoragePort`** is what the storage ports promise, as the in-memory adapters do it:
each call is one step, and `reply` says what it returned. **`DatabaseStores`** has the
adapters for Redis and PostgreSQL with many open calls, one action for each command
or transaction, and implements the port (`ImplementsPort`, a refinement with the
history of a session in the order of `created_at`) but for two named exceptions, which
the refinement lets the abstract port do as well: a call that another writer of its key
overlapped, or an upsert whose key expired after it had read it (`ReturnsLapped`, told by the
history variable `lapped`), and a search over more examples than one query reads
(`SearchesTooMany`). A profile is its version; its `updated_at` is left out, on which port
and adapter disagree (section 4). The service is wired to the in-memory adapters (README.md:16);
scripts use the others.

`MCTaskBoard`, `MCConsultation`, `MCHarness`, `MCChatStream`, `MCScheduler`,
`MCEvidenceChain`, `MCToolCalls`, `MCHybridSearch`, `MCEventForwarder` and
`MCDatabaseStores` instantiate them for TLC; `TaskBoardProofs`, `HarnessProofs`,
`SchedulerProofs`, `EventForwarderProofs`, `ConsultationProofs`, `ChatStreamProofs`,
`EvidenceChainProofs` and `AdaptersProofs` (`ToolCalls`, `DatabaseStores` and
`HybridSearch`) hold the proofs.

## 3. Runs that pass

| run | instance | distinct states | what it shows |
|---|---|---|---|
| `taskboard_safety` | 2 agents, 3 tasks, any parents and dependencies, 3 capabilities (one nobody has), 4 rounds | 318 290 | dependencies first, claims and task graph within their limits, no duplicate work, nothing runnable at delivery, final verdicts |
| `taskboard_run` | 2 agents, 4 tasks that are children of the executing one, depth 2 | 104 142 | implements `RunContract` (safety and termination); claim budget overrun by less than a round |
| `consultation` | 3 required facts, 2 questions at a time, 4 turns, 7 messages, a model, failing agents; production limits on rounds (12), depth (10) and claims (4), 2 rounds of clarification | 833 304 | questions, risks, analyses and answers over the turns of a matter; every turn ends |
| `harness` | 3 runs, 2 of them in one session, windows of 2 and 3 messages | 1 038 576 | matters apart, turns kept, publication after trace, approved examples, fresh memory |
| `chat_stream` | 4 streams of one user, one with another token; one client may leave; a window of 2 turns, 2 chunks, 1 milestone | 390 745 | transcripts, whole and kept history, one token, every stream ends |
| `scheduler` | 5 steps, 2 profiles with a provider and one without, budgets of 4 calls, 6 and 4 tokens; 2 capabilities, 2 priorities, 2 lists of artifacts and 1 hint that the model may name | 666 413 | answers within budget, one overrun, bounded intents, loops of equal intents stopped and nothing else |
| `evidence_chain` | a model; a law and a case; three days; a law of a confirmed version (days 1 to 2, the latter excluded) or of an unconfirmed one; tasks scheduled with one more artifact; depth 10, 4 claims; one rebuild of the index | 2 483 800 | what an answer rests on, whatever the model proposes |
| `tool_calls` | 3 threads, 3 tools, searches of two calls | 293 125 | no executor without tools, loads in first calls only, failures stay with their call, searches end |
| `hybrid_search` | 3 ids with 2 payloads, one broken, points without an id; answers of up to 3 points, pages of 2 and 10, illegal sizes | 271 280 | the page |
| `event_forwarder` | 2 boards with 4 events of different visibility, an observer, a queue of 2, 2 cancellations | 72 672 | events accounted for, in order, lost only to cancelled calls; no board waits |
| `database_stores` | 2 coroutines, 2 users, 1 session, 3 examples, pages and queries of 2, 5 calls, profiles that expire at any time | 371 969 | implements `StoragePort` but for the two exceptions |

Why the bounds are enough. *TaskBoard*: three tasks are the fewest with a
dependency of a derived task on a failed one, four the fewest that overrun the
claim budget within one round; each of the limits is reached. *Consultation*: the
limits of the board are those of production, so that chain lengths are real; four
turns allow two clarifications, the confirmation of the intent, and a turn after
it; three facts asked for two at a time need a second question, and no third. The limit of
rounds of clarification is therefore 2 in the run, so that it is reached, and not the default
of 4 (blackboard.py:36). *Harness*: the
properties compare a run with at most one other of its session and one of another;
the windows are shorter than the history, so that messages do fall out. *ChatStream*:
four streams give three that are let in and one that is not; three turns exceed the
window of two. *Scheduler*: the loop guard's window of five and threshold of
three are those of the code, and five steps fill it; two priorities and two lists of
artifacts beside the inputs of a task are enough for intents of one capability that are
equal, differ, or alternate; four run steps are fewer than
`MaxSteps`, so the budget ends; a call may use more than is left of each budget.
*EvidenceChain*: the day of the event may be before, in, or just after a version, and the
rebuild may turn a confirmed version into an unconfirmed one or back between two searches;
the depth and the claims
are those of production, so that rechecks and model schedules run into them; one
rebuild is one between the analysis and the search of the review, and further ones
only repeat it. *ToolCalls*: with three threads a second may install between the
look and the load of a first while a third begins. *HybridSearch*: an item in both
lists, one in each alone, one cut off; `DefaultTopK`, `MaxTopK` and `Multiplier` are those
of the code. Agreement wins over a single place as long as the two places are among the
first `RrfK` + 1, since 2/(2k+1) > 1/(k+1): 61 places in the code, where `rrf_k` is 60.
Agents ask for 5 items, which makes 15; a search for more than 20 goes beyond, and
`AgreementFirst` promises nothing there. The run sets `RrfK` to 1, so that the third of its
three points is beyond, and `AgreementFirst` without its bound fails in it; 12 is the least
multiple of 2, 3 and 4. *EventForwarder*: two places fill with three events, and four events leave one
behind a full queue; a second cancellation makes two threads wait at the same time.
*DatabaseStores*: two upserts of one user overlap, and so do an upsert and everything
else of the other user; a profile expires before, between and after the two commands of an
upsert that is alone, and with others; three examples exceed a page, and a query, of two.

The properties, by what could go wrong:

* *Order of work*: `DependenciesFirst`, `NothingRunnableAtDelivery`,
  `VerdictsStand` - the ready tasks are a snapshot that other tasks of the round
  make stale, and agents may fail in the middle of a delivery.
* *Accounting*: `LimitsHold` (claims and task graph), `ClaimOverrunBounded`,
  `NoDuplicateWork`, `AnswersAreWithinBudget`,
  `OverrunIsLast` (the use of a call is known after it was made, but only once
  can it be too much), `IntentsAreBounded`, `LoopsAreStopped` (no three intents in a row with one
  fingerprint, nor two in turn; and nothing is stopped that was not decided before. A
  model that varies the priority, the hint or the artifacts of its intent makes another
  fingerprint each time: such a loop is not seen, and ends with the budget of steps).
* *The matter over several turns*: `QuestionsNeverRepeated`,
  `QuestionsAccountedFor` (a question counts as asked when it is drafted. It is never
  listed for the user if the turn ends without its answer, or if the model writes the text
  of the clarification, which takes the place of the list (board_runtime.py:1243-1244),
  and only then; without a model a delivered turn loses none), `AnalysisIsJustified`, `RiskIsHeeded` (a critical matter is
  never analysed, and guidance follows the highest risk), `TurnsAreAnswered` (the longest
  chain of default agents is judged by the gate before the rounds are over, and a turn
  without an answer has one of the causes that `SilenceHasACause` lists).
* *Concurrent runs*: `MattersAreApart` (a matter has facts of runs of its own session that
  saved their blackboard, whatever others do or how they fail; a run that fails at the save
  of its trace or is cancelled there leaves its facts without a trace, and no other does),
  `TurnsAreKept`, `MemoryIsFresh`,
  `HistoriesAreSound` (whole turns, one token for each user, nothing dropped but by a
  stream that was given another list).
* *Partial failure*: `PublishedAfterTrace`, `Transcript`, `ExamplesAreApproved` (an
  example is of a delivered run, and one that was deleted stays deleted; only the example
  that is in its background save at that time escapes).
* *The evidence of an answer*: `SupportedIsInForce` (the laws of a delivered answer are in
  force on the day of the event in the bundle it cites and in the latest),
  `EvidenceIsTraced` (an answer rests on one bundle of its own run, what it cites was read,
  the review gets the bundle through the source chain, searches are recorded),
  `GateAgreesWithReview` (what the review approved, the gate
  blocks for three reasons only: its text, a blank claim, a cited law that a later search
  found with another payload, out of force).
* *Shared and external state*: `ExecutorIsShared` (what is used is complete, loads are made
  in first calls only, a failure is not kept); `PageIsSound` (full, agreement of the two
  lists first, the payload of the first list, failures for the items of the page only);
  `ImplementsPort`.
* *Hooks*: `EventsAreAccountedFor` (each event that was offered is in the queue, taken,
  dropped and counted, or lost to a cancelled call, once; a join of the queue would wait
  for the lost ones for ever), `ForwardsFaithfully` (what is visible to a subscriber is
  offered, and sent in the order of the offers).
* *Progress*: `ImplementsContract`, `TurnEnds`, `StreamsEnd`, `SearchesEnd`,
  `BoardsAreNotHeldUp`.

`TurnsAreKept` and `HistoryIsKept` state exactly what survives: runs that overlap
in a session write over each other's matter (the last one wins), and so do streams
that were given different lists. The code does this, no document promises
otherwise, and the history variables `overlapped` and `elsewhere` delimit it.

## 4. Where documents and code disagree

One run checks a statement of a comment, and TLC finds it violated (`findings` in
`PROJECT.json` quotes it):

| run | statement | what the code does |
|---|---|---|
| `chat_gone` | `GenerationIsStopped` (comment in api/sse.py:216) | a stream that ends on a disconnect, or is cancelled while it sends, leaves its run working |

The others were met while modelling. They have no run: the models do what the code does,
and where a passing property has to make an exception for one, it is named.

| statement | what the code does | delimited by |
|---|---|---|
| D05: `max_no_progress_rounds` prevents idling | a round that offers nothing `continue`s past the comparison and idles until `max_rounds` (board_runtime.py:174 against 197-199); the default agents do not get there, other agents do | - |
| requirements, section 4: an unknown fact is answered for | understanding counts an unknown fact as settled (board_runtime.py:682-685), the scheduler as missing (804-815): the message goes back, its key is taken, there is no answer | `SilenceHasACause` |
| D17: a critical message gets the safe response | a recheck asked for by the review (1331-1367) derives the review again, whose key is taken (441-444): no answer | `SilenceHasACause` |
| D17: a note in the answer to a MEDIUM risk | a model whose `recommended_action` is empty leaves "continue" (549), which the response agent takes for nothing to add (1248) | - |
| streaming design, 11.3: deleted examples are gone | the background save of an example (harness.py:258-262) may come after the deletion (300-303) | `ExamplesAreApproved` |
| D18: fingerprints without random identifiers | they keep the artifact identifiers of `context_refs` (scheduling.py:102-106, board_runtime.py:879): equal decisions look different, as do those that vary in priority or budget_hint | `LoopsAreStopped` |
| D21: searches where the memory does not suffice | the hole is judged by the inputs of the task (context.py:258-274): every review searches again, though its source chain holds the bundle | - |
| the limitation that an analysis states | one scheduled without a bundle says that the search found nothing (board_runtime.py:1125), though the search for its context did | - |
| docstring of the lazy executor: the model is loaded once | two boards find no executor, and both load the model (qdrant_tools.py:73-81) | `ExecutorIsShared` |
| blackboard: `asked_question_keys` are questions that were asked | the response of a model takes the place of the text that lists them, and nothing adds them again (board_runtime.py:1243-1244; the safety guidance is added, 1254-1255) | `QuestionsAccountedFor` |
| finalize: nothing without an audit trace (harness.py:233) | the matter is saved before the trace (224-231): the facts of a run that fails in between stay, without a trace | `MattersAreApart` |
| the port: an upsert counts the version | GET and SET are two commands (persistence_adapters.py:46-55); another writer, or the end of the time to live, may come in between | `ReturnsLapped` |
| the port: an upsert stamps `updated_at` (storage.py:174) | the adapter for Redis stores what the caller gave (persistence_adapters.py:47-50) | not modelled |
| the port: a search ranks all examples | only the newest hundred are ranked (persistence_adapters.py:284) | `SearchesTooMany` |

## 5. Fairness and deadlock

* `TaskBoard`, `RunContract`, `Consultation`: weak fairness of the run. `run()` is a
  synchronous loop without a wait; agents and tools are assumed to return. Users
  are not fair: a matter may rest for ever after any turn.
* `ChatStream`: weak fairness of the generators and of the background work of
  each stream. The event loop runs what is ready, boards stop (that is
  `ImplementsContract`), the storage answers, and a client reads or goes away.
  Neither new requests, nor milestones, nor disconnects are fair.
* `ToolCalls`: weak fairness of each thread; loads and calls end (the client has a
  timeout of 120 seconds, qdrant_tools.py:50).
* `EventForwarder`: weak fairness of the boards, and nothing else: that no board is
  held up must not depend on the task that forwards.
* `Harness`, `Scheduler`, `EvidenceChain`, `HybridSearch`, `DatabaseStores`: none; only
  safety is stated.

Only `event_forwarder` checks for deadlock, since its consumer polls for ever. The
other systems may stop - a board that delivered, a user
who has nothing to say, requests that were all answered. That nothing stops too
early is what the liveness properties say.

## 6. Theorems

All are `THEOREM Spec => ...` for every value of the constants that satisfies the
named assumptions of the modules; nothing is assumed beyond them.

* **`TaskBoardProofs`**: `TypeCorrect`, `DependenciesAreFirst`,
  `WorkIsNotDuplicated`, `DeliveryIsLast`, `VerdictsAreFinal`, `LimitsAreKept`,
  `OverrunIsBounded`, `ImplementsContractSafety`, `RunsRunDown`. The invariant `IInv` adds to the properties that the
  executing task is the one running task, claimed by an agent below its share of the
  round (`CurrentOK`), that snapshot members are open with completed dependencies
  (`SnapshotReady`), that dependencies are tasks of the board and an open task is
  unclaimed (`TasksOK`), and that nothing is accepted while the run works (`RunOK`). None of the
  properties is inductive alone: that a claimed task has its dependencies
  completed follows from the snapshot, and that the snapshot stays right follows
  from tasks never leaving "completed". `LimitsAreKept` is a second invariant on top
  of `IInv`: the claims of an agent are the cardinality of a set of tasks, which grows by
  one task where the counter does, and a parent is on the board before its children, with
  their depth less one. `OverrunIsBounded`: what the agents claimed in a round is a sum,
  counted here as the set `Spent` of pairs of an agent and a number, a part of all the
  claims that a round allows; a round starts below the budget, and has gone past it by at
  most the size of that set (`OverrunInv`). `ImplementsContractSafety` maps each
  step to a step of `RunContract` or a stutter.
* **`HarnessProofs`**: `TypeCorrect`, `MattersStayApart`, `TurnsStayKept`,
  `AnswersAreTraced`, `OnlyApprovedReused`, `BoardsStartFresh`. `MatterInv`: two active runs of a session
  are known to overlap (`OverlapsNoticed`), and the board of a run that has loaded
  the matter holds every earlier turn that overlapped none (`BoardsBuildOnTurns`) -
  without the second, a save could drop such a turn. `MattersStayApart` is in two parts:
  facts stay in the session of their run, which came to save them (`FactsAreApart`), and
  a run with facts and no trace is between the two saves, or failed or was cancelled
  there (`FactsAreTraced`). The second needs `SavedInOrder`: a run at the save of its
  trace has saved its blackboard, and one that is past it has its trace.
  `DeliveryInv` follows a run
  through finalize: past the trace, what is stored is its outcome; answers in
  history and memory belong to runs past it. `OnlyApprovedReused` also says that deleted
  examples stay deleted, but for one in its background save. `BoardsStartFresh`:
  `FreshInv` follows a run that nobody overlaps, for which `OverlapsNoticed` says that
  nobody else writes: its question is the last message of the history, then the history
  that it fetched is the stored one, then the memory is the end of it.
* **`SchedulerProofs`**: `TypeCorrect`, `AnswersStayWithinBudget`,
  `NothingAfterAnOverrun`, `IntentsStayBounded`, `LoopGuardStopsLoops`. `GatewayInv`: what was handed out is
  part of what was recorded, field by field, so the comparison of the record
  bounds the answers. `StepsInv`: as long as the budget lasts, steps and
  observations are equally many, so an intent never comes after the last step.
  `LoopGuardStopsLoops` has hypotheses on two constants, `Threshold \in 2..3` and
  `4 <= WindowSize`, which the guard's defaults of 3 and 5 meet: a threshold of one would
  stop what was not decided before, and a window of three would not see an alternation.
  What is delivered as an intent is what was observed (`LoopInv`), the last of the window
  are the last of all that was observed, and a decision that is stopped was made before
  (`OnlyLoopsAreStopped`), so a new one always goes out.
* **`EventForwarderProofs`**: `Accounted`, `Faithful`, `DispatchesRunDown`. The first is an invariant about the
  places where an event may be: no two of queue, waiting calls, taken, dropped and lost
  hold the same event, and together they hold what was offered. The second needs two
  more: `DispatchInv`, what an emission has still to visit and has visited are the
  subscribers it started with, so that a handler that fails hides nothing from those
  after it; and `OrderInv`, what was sent, what is at the forwarder and what is queued
  follow each other in the order of the offers - the order of what was sent alone says
  nothing about the next event.
* **`AdaptersProofs`**, for `ToolCalls`: `Shared`, `SearchesRunDown`. `CompleteInv`: an executor that is installed, or that a
  thread is about to install or use, has all tools registered and never changes again;
  executors under construction are each known to one thread only.
  For `DatabaseStores`: `AdaptersImplementPort`, which is the whole of `ImplementsPort`.
  `StoresInv`: of two writers for one key both are known to have met another
  (`OverlapsAreSeen`), and one that met none goes by what is still stored (`UpToDate`):
  the version that it read is the current one, and no stored message is as late as its
  own. A key that expires laps the upserts that have read it, so these claim no more that
  it is up to date. The refinement mapping puts a set of times in order, which the library does with a
  sort that TLC has built in and the provers know nothing of; `InOrder` says what it is.
  That an order exists (`OrderExists`), that there is one only (`OneOrder`), that a later
  time comes at its end (`InOrderAppends`), and that the newest turned round are the
  latest (`ListedIsLatest`) are inductions over the size of a set or the place in a
  sequence, each by a least counterexample (`FirstTime`).
  For `HybridSearch`: `PagesAreSound`, which is the whole of `PageIsSound`, for every
  length of the two lists, every `RrfK` and every limit on a page. `SearchInv` is small:
  the lists are lists of points, and a result is a failure of a query or what `Return`
  makes of these lists (`Outcome`). The rest is about the ranking. `Before` is a strict
  total order of what was found, since no two ids were first seen in one place
  (`BeforeOrders`), so the number of ids before an id grows with the order
  (`PositionOf`), and an injection of a finite set into as many places takes each of them
  (`PositionsAreTaken`): every id is ranked once, in its place (`RankingOf`), and a page
  has those with fewer than `TopK` before them (`PageShows`). Of the scores it takes the
  least: a score is a cardinality, at least the weight of each rank (`SharesOf`), a
  better rank weighs more (`BetterWeighsMore`), and two ranks up to `RrfK` + 1 weigh more
  than any one (`TwoOutweighOne`, from w(2k+1) >= v(k+1)).
* **`EvidenceChainProofs`**: `SupportedStaysInForce`, `EvidenceStaysTraced`,
  `GateAndReviewAgree`, all properties of the module. `BoardInv` is about the artifacts: the
  sources of each come before it and its content fits its type (`BoardOK`), each search
  is one bundle on the board and the evidence of the matter includes what it found
  (`Recorded`). `TaskInv`: an open task has what it starts from, by the way of the
  evidence (`StartOK`: the analysis and the candidate rest on the bundle that was read and
  claim no more than it holds), and none is open beside a final response. `FinalInv`: a
  final response that waits for the gate is the last artifact, its review comes just
  before it and is of the response that it copies, and if the review approved, that
  response is sound and the reviewer had the bundle. The gate looks at the latest payload
  of a law, the review at that of its own search, which is in force where the analysis
  confirmed it; that a gate which blocks for a law has found another payload of it, one
  that is not in force (`Outdated`), needs all three.
* **`ConsultationProofs`**: `TypeCorrect`, `AnalysisStaysJustified`, `RiskStaysHeeded`,
  `QuestionsAreAccountedFor`, `QuestionsAreNew`, `TurnsStayAnswered`, all safety of the module,
  and `TurnsRunDown`.
  `ChainInv` is the place in the chain: the open task holds its key and is not deeper
  than rounds have passed. `StageInv`: once the intent is confirmed, each required fact
  is known, or known to be unknown. `RiskInv`: a critical message comes back to the scheduler by an
  escalation alone, and the response under review has the advice of the latest
  assessment - the decision alone says nothing about a second schedule of the turn.
  `QuestionInv`: what is noted as asked was listed to the user, or delivered in words of
  the model, or belongs to a turn without its answer, or to the response at hand; and a
  response asks exactly when the decision does. `SilenceInv`: without a
  model the agents come in one order (`Before`), and a chain that ends without an
  approved answer has met a key that was taken. The required tasks of a decision are
  taken in the order of a finite set, which has a least element (by well-foundedness).
* **`ChatStreamProofs`**: `TypeCorrect`, `HistoriesStaySound`, `TranscriptsStayWhole`,
  `StreamsRunDown`. A list object is given to streams of one user only (`ListsInv`), holds
  whole turns, in the order in which they were saved (`InOrder`). The order is what makes the window safe: a turn that is k-th
  from the end of the saves is at most k-th from the end of each list that has it, so the
  window drops it from none while it has room for it (`WindowedList`). `KeptInv` says of
  each open stream what it may still write over: the turns that were saved while it had
  another list. That the window is even, as 20 is, is an assumption
  (`ChatAssumption`): an odd window would cut turns in two.
  `TranscriptsStayWhole`: `TranscriptInv` sees each stream in one of four ways - following
  its run, answering, ending, or cut off from a client that is gone - and says in each what
  was sent and what is still to be sent. While it follows, every milestone that the board
  emitted and the reader has not seen is in the queue or in a callback of the loop, in that
  order and once (`Feed`); the frames alone say nothing about the next one.

Every safety property that a run checks is also proved, for every value of the
constants.

**Of liveness, one half is proved**: that nothing goes on for ever. Five theorems give
what is left to do as a tuple of numbers in the lexicographic order (one number in
`TurnsRunDown`), prove that the order is well-founded, and that every step makes the tuple
of the one that takes it smaller:

| Theorem | What is left, in the order of its weight | Behind |
|---|---|---|
| `RunsRunDown` | the stop, rounds, the rest of a round, tasks to offer, the end of a delivery, tasks and artifacts to add | `ImplementsContract` |
| `TurnsRunDown` | rounds: a turn has `MaxTaskDepth` + 2 at most, whatever `MaxRounds` is | `TurnEnds` |
| `StreamsRunDown` | the state of the run, milestones, the end of the thread, calls of the loop, items in the queue, the client, the end of the transcript, events to send, the frame being sent | `StreamsEnd` |
| `SearchesRunDown` | calls, the steps of a call, tools to register | `SearchesEnd` |
| `DispatchesRunDown` | events to emit, subscribers to call | `BoardsAreNotHeldUp` |

The last three also say that a step leaves what is left of all others as it is: no stream,
search or dispatch is set back by another one, by the task that forwards, or by an executor
that is replaced. An order of one number would not do: a delivery that ends makes work for
the next one, a call that fails begins the next from the start, a milestone that leaves the
callbacks fills the queue. `RunsRunDown` needs that the gate's safe error is the one
artifact beyond `MaxArtifacts` (`ArtifactsFit`), `StreamsRunDown` that a stream has nothing
more to send when its last frame ends the transcript (`TranscriptInv`). That there are
finitely many artifacts of an agent and milestones of a run is an assumption of the model
(`MaxArtifacts`, `MaxMilestones`): a function of Python that returns, returns a finite list.

Out of the prover's reach, and left to TLC: the other half, that a step can be taken until
the end is there, and that fairness takes it, which needs ENABLED (`TurnEnds`,
`StreamsEnd`, `SearchesEnd`, `BoardsAreNotHeldUp`, the fairness part of
`ImplementsContract`). The violation run needs no proof: its counterexample is one.

## 7. Plan

Done, from the loop that all answers come from to the edges: task board, agents, harness,
stream, gateway and scheduler; then event forwarder, evidence and delivery gate, tools and
hybrid search, the stores.

Next, to model:
1. The whole `ChatStream` run in terms of `Harness`: storage errors by
   call, and the matter that a cancelled stream leaves behind.
2. `HandoffGuard`, when a caller exists; limits of `ToolSpec`, when the executor heeds them.
3. `fetch_case_evidence`, when an agent calls it.

Next, to prove: that `TaskBoard`, with the agents of `Consultation` and of
`EvidenceChain`, takes the steps that those modules take by themselves.

## 8. What is not modelled, and why

* **Rows written by one statement**: runs, blackboards, agent messages and traces in the
  PostgreSQL adapter are one insert or select each. An example is inserted once for a run
  (ON CONFLICT); another save of the same run does not occur.
* **Texts**: prompts, wording, PII patterns, keyword lists, JSON schemas, token
  counting by character. Agents and gate see the distinctions that matter.
* **The order of bids and of ready tasks** in `TaskBoard`: any capable agent and any
  ready task may come next, which includes the code's order by confidence,
  priority and time.
* **Limits of tools**: `ToolSpec.timeout_ms` and `max_retries` are declared, and nothing
  reads them. `fetch_case_evidence` is registered, and no agent calls it.
* **The pool of traces**: `InMemoryTraceReusePool` may be searched in the thread of a board
  while the loop saves an example; an iteration that is disturbed raises, which is a failed
  call of a tool, as any other.
* **Different prices** of input and output tokens, and of profiles: one price.
* **A critical message in `Scheduler`**: it is scheduled at most once; `Consultation`
  has it.
* **Developer endpoints**: reading traces changes nothing, a replay is a run with a
  session of its own (`r3` of `MCHarness`), injected faults are `FailCall`.
* **Embedder, environment, scripts, the page**: no state of the service.
