---------------------------- MODULE AdaptersProofs ----------------------------
(***************************************************************************)
(* Proofs about what stands between the runtime and the services outside of *)
(* it.  ToolCalls: safety of the executor that the threads share, for every *)
(* number of threads, every list of tools and every search; and no search  *)
(* goes on for ever.                                                       *)
(* DatabaseStores: the adapters for Redis and PostgreSQL implement          *)
(* StoragePort, for every number of coroutines, users, sessions, messages   *)
(* and examples and every limit.                                            *)
(* HybridSearch: the page that a search returns, for every length of the    *)
(* two lists that it is made of.                                            *)
(* The modules share no names, and no proof speaks of another module.       *)
(***************************************************************************)
EXTENDS ToolCalls, DatabaseStores, HybridSearch, FiniteSetTheorems, WellFoundedInduction, TLAPS

-----------------------------------------------------------------------------
\* ToolCalls: the sequences that it is built from.

\* What Append adds to a sequence.
LEMMA AppendOf ==
  ASSUME NEW S, NEW s \in Seq(S), NEW e \in S
  PROVE  /\ Append(s, e) \in Seq(S)
         /\ Len(Append(s, e)) = Len(s) + 1
         /\ Append(s, e) # <<>>
         /\ DOMAIN s = 1..Len(s)
         /\ DOMAIN Append(s, e) = 1..(Len(s) + 1)
         /\ Append(s, e)[Len(s) + 1] = e
         /\ \A i \in 1..Len(s) : Append(s, e)[i] = s[i]
  OBVIOUS

-----------------------------------------------------------------------------
\* Was the executor of the thread assigned?
IsInstalled(t) == \E i \in DOMAIN installed : installed[i] = t

\* Executors are complete when they are assigned, calls run on those only, and a
\* call that needs no load finds one; a call is made for a tool of the search.
CompleteInv ==
  /\ \A t \in Threads : IsInstalled(t) => registry[t] = Len(Tools)
  /\ \A t \in Threads : at[t] = "run" => IsInstalled(using[t])
  /\ \A t \in Threads : at[t] = "use" => installed # <<>>
  /\ \A t \in Threads : at[t] # "call" => Len(results[t]) < Len(Intents)

SharedInv == ExecutorIsShared /\ CompleteInv

\* The executor is that of the thread that assigned it last.
LEMMA ExecutorOf ==
  ASSUME TypeOK
  PROVE  /\ installed \in Seq(Threads)
         /\ executor = None <=> installed = <<>>
         /\ executor # None => executor \in Threads /\ IsInstalled(executor)
<1>1. installed \in Seq(Threads) /\ executor = IF installed = <<>> THEN None ELSE installed[Len(installed)]
  BY DEF TypeOK, Last
<1>2. ASSUME installed # <<>>
      PROVE  Len(installed) \in DOMAIN installed /\ installed[Len(installed)] \in Threads
  BY <1>1, <1>2
<1>. QED  BY <1>1, <1>2, CallsAssumption DEF IsInstalled

\* Nothing was loaded at first.
LEMMA InitShared == Init => SharedInv
<1>. SUFFICES ASSUME Init PROVE SharedInv
  OBVIOUS
<1>1. TypeOK
  BY CallsAssumption DEF Init, TypeOK
<1>2. UsedIsComplete /\ LoadsAreFirstCalls /\ FailureIsNotKept
  BY DEF Init, UsedIsComplete, LoadsAreFirstCalls, FailureIsNotKept, NotLoaded
<1>3. CompleteInv
  BY DEF Init, CompleteInv, IsInstalled
<1>. QED  BY <1>1, <1>2, <1>3 DEF SharedInv, ExecutorIsShared

\* The invariant as it is used below.
LEMMA SharedFacts ==
  ASSUME SharedInv
  PROVE  /\ TypeOK /\ UsedIsComplete /\ CompleteInv
         /\ \A i, j \in DOMAIN installed : installed[i] = installed[j] => i = j
         /\ \A q \in Threads : at[q] \in {"load", "register"} => early[q] /\ ~IsInstalled(q)
         /\ \A q \in Threads : at[q] = "call" /\ NotLoaded(q) => early[q]
BY DEF SharedInv, ExecutorIsShared, LoadsAreFirstCalls, FailureIsNotKept, IsInstalled, ToSet

\* What a step of a thread has to keep.
LEMMA SharedNext ==
  ASSUME TypeOK', CompleteInv',
         \A q \in Threads : at'[q] = "run" => using'[q] \in Threads,
         \A i, j \in DOMAIN installed' : installed'[i] = installed'[j] => i = j,
         \A q \in Threads : at'[q] \in {"load", "register"} => early'[q] /\ ~IsInstalled(q)',
         \A q \in Threads : at'[q] = "call" /\ NotLoaded(q)' => early'[q]
  PROVE  SharedInv'
<1>1. UsedIsComplete'
  BY CallsAssumption DEF UsedIsComplete, CompleteInv
<1>2. LoadsAreFirstCalls'
  BY DEF LoadsAreFirstCalls, IsInstalled, ToSet
<1>3. FailureIsNotKept'
  BY DEF FailureIsNotKept
<1>. QED  BY <1>1, <1>2, <1>3 DEF SharedInv, ExecutorIsShared

\* A call looks for an executor.
LEMMA LookShared ==
  ASSUME SharedInv, NEW t \in Threads, Look(t)
  PROVE  SharedInv'
<1>1. /\ at[t] = "call" /\ Len(results[t]) < Len(Intents)
      /\ at' = [at EXCEPT ![t] = IF executor = None THEN "load" ELSE "use"]
      /\ early' = [early EXCEPT ![t] = installed = <<>>]
      /\ executor' = executor /\ registry' = registry /\ using' = using
      /\ results' = results /\ installed' = installed
  BY DEF Look, Go
<1>2. at \in [Threads -> {"call", "load", "register", "use", "run"}] /\ early \in [Threads -> BOOLEAN]
  BY SharedFacts DEF TypeOK
<1>3. /\ at' \in [Threads -> {"call", "load", "register", "use", "run"}]
      /\ at'[t] = IF executor = None THEN "load" ELSE "use"
      /\ \A q \in Threads \ {t} : at'[q] = at[q]
  BY <1>1, <1>2
<1>4. /\ early' \in [Threads -> BOOLEAN]
      /\ early'[t] <=> installed = <<>>
      /\ \A q \in Threads \ {t} : early'[q] <=> early[q]
  BY <1>1, <1>2, Zenon
<1>5. executor = None <=> installed = <<>>
  BY SharedFacts, ExecutorOf
<1>6. TypeOK'
  BY <1>1, <1>3, <1>4, SharedFacts DEF TypeOK
<1>7. \A q : IsInstalled(q)' <=> IsInstalled(q)
  BY <1>1 DEF IsInstalled
<1>8. CompleteInv'
  BY <1>1, <1>3, <1>5, <1>7, SharedFacts DEF CompleteInv
<1>9. \A q \in Threads : at'[q] = "run" => using'[q] \in Threads
  BY <1>1, <1>3, SharedFacts DEF TypeOK, UsedIsComplete
<1>10. \A q \in Threads : at'[q] \in {"load", "register"} => early'[q] /\ ~IsInstalled(q)'
  <2>1. installed = <<>> => ~IsInstalled(t)
    BY DEF IsInstalled
  <2>. QED  BY <1>3, <1>4, <1>5, <1>7, <2>1, SharedFacts
<1>11. \A q \in Threads : at'[q] = "call" /\ NotLoaded(q)' => early'[q]
  BY <1>1, <1>3, <1>4, SharedFacts DEF NotLoaded
<1>. QED  BY <1>1, <1>6, <1>8, <1>9, <1>10, <1>11, SharedFacts, SharedNext

\* A thread builds an executor that nobody has yet.
LEMMA BuildShared ==
  ASSUME SharedInv, NEW t \in Threads, Load(t) \/ Register(t)
  PROVE  SharedInv'
<1>1. /\ at[t] \in {"load", "register"}
      /\ at' = at \/ at' = [at EXCEPT ![t] = "register"]
      /\ \/ registry' = [registry EXCEPT ![t] = 0]
         \/ registry[t] < Len(Tools) /\ registry' = [registry EXCEPT ![t] = @ + 1]
      /\ executor' = executor /\ using' = using /\ results' = results
      /\ installed' = installed /\ early' = early
  BY DEF Load, Register, Go
<1>2. /\ at \in [Threads -> {"call", "load", "register", "use", "run"}]
      /\ registry \in [Threads -> 0..Len(Tools)]
  BY SharedFacts DEF TypeOK
<1>3. /\ at' \in [Threads -> {"call", "load", "register", "use", "run"}]
      /\ at'[t] \in {"load", "register"}
      /\ \A q \in Threads \ {t} : at'[q] = at[q]
  BY <1>1, <1>2
<1>4. /\ registry' \in [Threads -> 0..Len(Tools)]
      /\ \A q \in Threads \ {t} : registry'[q] = registry[q]
  <2>1. Len(Tools) \in Nat
    BY CallsAssumption
  <2>. QED  BY <1>1, <1>2, <2>1
<1>5. TypeOK'
  BY <1>1, <1>3, <1>4, SharedFacts DEF TypeOK
<1>6. (\A q : IsInstalled(q)' <=> IsInstalled(q)) /\ ~IsInstalled(t)
  BY <1>1, SharedFacts DEF IsInstalled
<1>7. CompleteInv'
  BY <1>1, <1>3, <1>4, <1>6, SharedFacts DEF CompleteInv
<1>8. \A q \in Threads : at'[q] = "run" => using'[q] \in Threads
  BY <1>1, <1>3, SharedFacts DEF TypeOK, UsedIsComplete
<1>9. \A q \in Threads : at'[q] \in {"load", "register"} => early'[q] /\ ~IsInstalled(q)'
  BY <1>1, <1>3, <1>6, SharedFacts
<1>10. \A q \in Threads : at'[q] = "call" /\ NotLoaded(q)' => early'[q]
  BY <1>1, <1>3, SharedFacts DEF NotLoaded
<1>. QED  BY <1>1, <1>5, <1>7, <1>8, <1>9, <1>10, SharedFacts, SharedNext

\* An executor is assigned that has all its tools, for the first time.
LEMMA InstallShared ==
  ASSUME SharedInv, NEW t \in Threads, Install(t)
  PROVE  SharedInv'
<1>1. /\ at[t] = "register" /\ registry[t] = Len(Tools)
      /\ executor' = t /\ installed' = Append(installed, t)
      /\ at' = [at EXCEPT ![t] = "use"]
      /\ registry' = registry /\ using' = using /\ results' = results /\ early' = early
  BY DEF Install, Go
<1>2. at \in [Threads -> {"call", "load", "register", "use", "run"}] /\ installed \in Seq(Threads)
  BY SharedFacts DEF TypeOK
<1>3. /\ at' \in [Threads -> {"call", "load", "register", "use", "run"}]
      /\ at'[t] = "use"
      /\ \A q \in Threads \ {t} : at'[q] = at[q]
  BY <1>1, <1>2
<1>4. /\ installed' \in Seq(Threads) /\ installed' # <<>>
      /\ Len(installed) \in Nat /\ Len(installed') = Len(installed) + 1
      /\ DOMAIN installed = 1..Len(installed)
      /\ DOMAIN installed' = 1..(Len(installed) + 1)
      /\ installed'[Len(installed) + 1] = t
      /\ \A i \in 1..Len(installed) : installed'[i] = installed[i]
  BY <1>1, <1>2, AppendOf, SMTT(30)
<1>5. TypeOK'
  <2>1. executor' = Last(installed')
    BY <1>1, <1>4 DEF Last
  <2>. QED  BY <1>1, <1>3, <1>4, <2>1, SharedFacts DEF TypeOK
<1>6. \A q : IsInstalled(q)' <=> IsInstalled(q) \/ q = t
  BY <1>4 DEF IsInstalled
<1>7. CompleteInv'
  BY <1>1, <1>3, <1>4, <1>6, SharedFacts DEF CompleteInv
<1>8. \A q \in Threads : at'[q] = "run" => using'[q] \in Threads
  BY <1>1, <1>3, SharedFacts DEF TypeOK, UsedIsComplete
<1>9. \A i, j \in DOMAIN installed' : installed'[i] = installed'[j] => i = j
  <2>1. \A i \in 1..Len(installed) : installed[i] # t
    BY <1>1, <1>4, SharedFacts DEF IsInstalled
  <2>. QED  BY <1>4, <2>1, SharedFacts
<1>10. \A q \in Threads : at'[q] \in {"load", "register"} => early'[q] /\ ~IsInstalled(q)'
  BY <1>1, <1>3, <1>6, SharedFacts
<1>11. \A q \in Threads : at'[q] = "call" /\ NotLoaded(q)' => early'[q]
  BY <1>1, <1>3, SharedFacts DEF NotLoaded
<1>. QED  BY <1>5, <1>7, <1>8, <1>9, <1>10, <1>11, SharedNext

\* A call begins to run on the executor of the moment.
LEMMA UseShared ==
  ASSUME SharedInv, NEW t \in Threads, Use(t)
  PROVE  SharedInv'
<1>1. /\ at[t] = "use" /\ using' = [using EXCEPT ![t] = executor]
      /\ at' = [at EXCEPT ![t] = "run"]
      /\ executor' = executor /\ registry' = registry /\ results' = results
      /\ installed' = installed /\ early' = early
  BY DEF Use, Go
<1>2. /\ at \in [Threads -> {"call", "load", "register", "use", "run"}]
      /\ using \in [Threads -> Threads \cup {None}]
  BY SharedFacts DEF TypeOK
<1>3. /\ at' \in [Threads -> {"call", "load", "register", "use", "run"}]
      /\ at'[t] = "run"
      /\ \A q \in Threads \ {t} : at'[q] = at[q]
  BY <1>1, <1>2
<1>4. executor \in Threads /\ IsInstalled(executor)
  BY <1>1, SharedFacts, ExecutorOf DEF CompleteInv
<1>5. /\ using' \in [Threads -> Threads \cup {None}]
      /\ using'[t] = executor
      /\ \A q \in Threads \ {t} : using'[q] = using[q]
  BY <1>1, <1>2, <1>4
<1>6. TypeOK'
  BY <1>1, <1>3, <1>5, SharedFacts DEF TypeOK
<1>7. \A q : IsInstalled(q)' <=> IsInstalled(q)
  BY <1>1 DEF IsInstalled
<1>8. CompleteInv'
  BY <1>1, <1>3, <1>4, <1>5, <1>7, SharedFacts DEF CompleteInv
<1>9. \A q \in Threads : at'[q] = "run" => using'[q] \in Threads
  <2>1. \A q \in Threads \ {t} : at[q] = "run" => using[q] \in Threads
    BY <1>2, SharedFacts DEF UsedIsComplete
  <2>. QED  BY <1>3, <1>4, <1>5, <2>1
<1>10. \A q \in Threads : at'[q] \in {"load", "register"} => early'[q] /\ ~IsInstalled(q)'
  BY <1>1, <1>3, <1>7, SharedFacts
<1>11. \A q \in Threads : at'[q] = "call" /\ NotLoaded(q)' => early'[q]
  BY <1>1, <1>3, SharedFacts DEF NotLoaded
<1>. QED  BY <1>1, <1>6, <1>8, <1>9, <1>10, <1>11, SharedFacts, SharedNext

\* A call ends: for want of an executor only if it began before there was one.
LEMMA AnswerShared ==
  ASSUME SharedInv, NEW t \in Threads, LoadFails(t) \/ Run(t)
  PROVE  SharedInv'
<1>1. PICK status \in {"answered", "failed", "not_loaded"} :
        /\ at[t] = "load" \/ (at[t] = "run" /\ status # "not_loaded")
        /\ results' = [results EXCEPT ![t] = Append(@, status)]
        /\ at' = [at EXCEPT ![t] = "call"]
        /\ executor' = executor /\ registry' = registry /\ using' = using
        /\ installed' = installed /\ early' = early
  BY DEF LoadFails, Run, Answered, Statuses, Go
<1>2. /\ at \in [Threads -> {"call", "load", "register", "use", "run"}]
      /\ results \in [Threads -> Seq({"answered", "failed", "not_loaded"})]
  BY SharedFacts DEF TypeOK
<1>3. /\ at' \in [Threads -> {"call", "load", "register", "use", "run"}]
      /\ at'[t] = "call"
      /\ \A q \in Threads \ {t} : at'[q] = at[q]
  BY <1>1, <1>2
<1>4. /\ Append(results[t], status) \in Seq({"answered", "failed", "not_loaded"})
      /\ Len(Append(results[t], status)) = Len(results[t]) + 1
      /\ Append(results[t], status)[Len(results[t]) + 1] = status
  BY <1>2, AppendOf
<1>5. /\ results' \in [Threads -> Seq({"answered", "failed", "not_loaded"})]
      /\ results'[t] = Append(results[t], status)
      /\ \A q \in Threads \ {t} : results'[q] = results[q]
  BY <1>1, <1>2, <1>4
<1>6. NotLoaded(t)' => status = "not_loaded"
  BY <1>4, <1>5 DEF NotLoaded, Last
<1>7. \A q : IsInstalled(q)' <=> IsInstalled(q)
  BY <1>1 DEF IsInstalled
<1>8. CompleteInv'
  BY <1>1, <1>3, <1>7, SharedFacts DEF CompleteInv
<1>9. \A q \in Threads : at'[q] = "run" => using'[q] \in Threads
  BY <1>1, <1>3, SharedFacts DEF TypeOK, UsedIsComplete
<1>10. \A q \in Threads : at'[q] \in {"load", "register"} => early'[q] /\ ~IsInstalled(q)'
  BY <1>1, <1>3, <1>7, SharedFacts
<1>11. \A q \in Threads : at'[q] = "call" /\ NotLoaded(q)' => early'[q]
  BY <1>1, <1>3, <1>5, <1>6, SharedFacts DEF NotLoaded
<1>12. TypeOK'
  <2>1. \A q \in Threads : Len(results'[q]) <= Len(Intents)
    <3>1. Len(results[t]) < Len(Intents) /\ Len(results[t]) \in Nat /\ Len(Intents) \in Nat
      BY <1>1, <1>2, CallsAssumption, SharedFacts DEF CompleteInv
    <3>2. \A q \in Threads : Len(results[q]) <= Len(Intents)
      BY SharedFacts DEF TypeOK
    <3>. QED  BY <1>4, <1>5, <3>1, <3>2
  <2>. QED  BY <1>1, <1>3, <1>5, <2>1, SharedFacts DEF TypeOK
<1>. QED  BY <1>1, <1>8, <1>9, <1>10, <1>11, <1>12, SharedFacts, SharedNext

\* Every step keeps the executor sound.
LEMMA NextShared == SharedInv /\ [Next]_vars => SharedInv'
<1>. SUFFICES ASSUME SharedInv, [Next]_vars PROVE SharedInv'
  OBVIOUS
<1>1. CASE UNCHANGED vars
  BY <1>1 DEF vars, SharedInv, ExecutorIsShared, CompleteInv, IsInstalled, TypeOK, UsedIsComplete,
              LoadsAreFirstCalls, FailureIsNotKept, NotLoaded
<1>. QED
  BY <1>1, LookShared, BuildShared, InstallShared, UseShared, AnswerShared DEF Next, Thread

\* Calls run on complete executors, a thread loads the model once at most and in
\* a call that began before there was one, and a failed load is that of one call.
THEOREM Shared == Spec => []ExecutorIsShared
<1>1. SharedInv => ExecutorIsShared
  BY DEF SharedInv
<1>. QED  BY <1>1, InitShared, NextShared, PTL DEF Spec

-----------------------------------------------------------------------------
\* ToolCalls: no search goes on for ever.

\* How many steps of the executor a call is away from its tool.
Distance == [place \in {"call", "load", "register", "use", "run"} |->
               CASE place = "call" -> 4 [] place = "load" -> 3 [] place = "register" -> 2
                 [] place = "use" -> 1 [] place = "run" -> 0]

\* What the search of a thread has still before it, what weighs most first: calls, the
\* steps of a call, tools to register.
Ahead(t) ==
  <<Len(Intents) - Len(results[t]), Distance[at[t]], Len(Tools) - registry[t]>>

Shorter == LexProductOrdering(OpToRel(<, Nat), Nat, 3)

AheadOK == \A t \in Threads : Ahead(t) \in [1..3 -> Nat]

\* Each place is a number.
LEMMA AheadType == ASSUME TypeOK PROVE AheadOK
<1>. SUFFICES ASSUME NEW t \in Threads PROVE Ahead(t) \in [1..3 -> Nat]
  BY DEF AheadOK
<1>1. Len(Intents) - Len(results[t]) \in Nat
  <2>1. Len(Intents) \in Nat /\ Len(results[t]) \in Nat /\ Len(results[t]) <= Len(Intents)
    BY CallsAssumption DEF TypeOK
  <2>. QED  BY <2>1
<1>2. Distance[at[t]] \in Nat
  BY DEF TypeOK, Distance
<1>3. Len(Tools) - registry[t] \in Nat
  BY CallsAssumption DEF TypeOK
<1>. QED  BY <1>1, <1>2, <1>3 DEF Ahead

\* Less at one place, the same before it.
LEMMA ShorterAt ==
  ASSUME NEW s \in [1..3 -> Nat], NEW r \in [1..3 -> Nat], NEW k \in 1..3,
         r[k] < s[k], \A j \in 1..(k - 1) : r[j] = s[j]
  PROVE  <<r, s>> \in Shorter
<1>1. <<r[k], s[k]>> \in OpToRel(<, Nat)
  BY DEF OpToRel
<1>. QED  BY <1>1 DEF Shorter, LexProductOrdering

LEMMA ThreadShortens ==
  ASSUME TypeOK, AheadOK, AheadOK', NEW t \in Threads, Thread(t)
  PROVE  <<Ahead(t)', Ahead(t)>> \in Shorter
<1>1. /\ Ahead(t) \in [1..3 -> Nat] /\ Ahead(t)' \in [1..3 -> Nat]
  BY DEF AheadOK
<1>2. /\ Len(Intents) \in Nat /\ Len(results[t]) \in Nat
      /\ Len(Tools) \in Nat /\ registry[t] \in Nat
      /\ results \in [Threads -> Seq({"answered", "failed", "not_loaded"})]
      /\ registry \in [Threads -> 0..Len(Tools)]
      /\ at \in [Threads -> {"call", "load", "register", "use", "run"}]
  BY CallsAssumption DEF TypeOK
<1>3. ASSUME NEW status \in {"answered", "failed", "not_loaded"}, Answered(t, status)
      PROVE  <<Ahead(t)', Ahead(t)>> \in Shorter
  <2>1. results'[t] = Append(results[t], status) /\ Len(results'[t]) = Len(results[t]) + 1
    BY <1>2, <1>3 DEF Answered
  <2>2. Ahead(t)'[1] < Ahead(t)[1]
    BY <1>2, <2>1 DEF Ahead
  <2>. QED  BY <1>1, <2>2, ShorterAt
<1>4. ASSUME results' = results, NEW place, Go(t, place),
             \/ at[t] = "call" /\ place \in {"load", "use"}
             \/ at[t] = "load" /\ place = "register"
             \/ at[t] = "register" /\ place = "use"
             \/ at[t] = "use" /\ place = "run"
      PROVE  <<Ahead(t)', Ahead(t)>> \in Shorter
  <2>1. at'[t] = place
    BY <1>2, <1>4 DEF Go
  <2>2. Ahead(t)'[1] = Ahead(t)[1]
    BY <1>4 DEF Ahead
  <2>3. Distance[place] < Distance[at[t]]
    BY <1>4 DEF Distance
  <2>4. Ahead(t)'[2] < Ahead(t)[2]
    BY <2>1, <2>3 DEF Ahead
  <2>5. \A j \in 1..(2 - 1) : Ahead(t)'[j] = Ahead(t)[j]
    BY <2>2
  <2>. QED  BY <1>1, <2>4, <2>5, ShorterAt
<1>5. CASE Register(t)
  <2>1. results' = results /\ at' = at /\ registry'[t] = registry[t] + 1
    BY <1>2, <1>5 DEF Register
  <2>2. Ahead(t)'[1] = Ahead(t)[1] /\ Ahead(t)'[2] = Ahead(t)[2] /\ Ahead(t)'[3] < Ahead(t)[3]
    BY <1>2, <2>1 DEF Ahead
  <2>3. \A j \in 1..(3 - 1) : Ahead(t)'[j] = Ahead(t)[j]
    BY <2>2
  <2>. QED  BY <1>1, <2>2, <2>3, ShorterAt
<1>6. CASE Look(t) \/ Load(t) \/ Install(t) \/ Use(t)
  BY <1>4, <1>6 DEF Look, Load, Install, Use
<1>7. CASE LoadFails(t) \/ Run(t)
  BY <1>3, <1>7 DEF LoadFails, Run, Statuses
<1>. QED  BY <1>5, <1>6, <1>7 DEF Thread

\* A thread leaves the search of another as it is.
LEMMA OthersStay ==
  ASSUME TypeOK, NEW q \in Threads, Thread(q), NEW t \in Threads, t # q
  PROVE  Ahead(t)' = Ahead(t)
<1>1. /\ results \in [Threads -> Seq({"answered", "failed", "not_loaded"})]
      /\ registry \in [Threads -> 0..Len(Tools)]
      /\ at \in [Threads -> {"call", "load", "register", "use", "run"}]
  BY DEF TypeOK
<1>2. results'[t] = results[t] /\ at'[t] = at[t] /\ registry'[t] = registry[t]
  BY <1>1 DEF Thread, Look, Load, Register, Install, LoadFails, Use, Run, Answered, Go
<1>. QED  BY <1>2 DEF Ahead

\* Every step of a thread brings its own search nearer to its end, in an order in which
\* nothing falls for ever, however the loads and the calls of the adapters end; no step
\* of another thread, which may replace the executor at any time, sets it back.
THEOREM SearchesRunDown ==
  /\ IsWellFoundedOn(Shorter, [1..3 -> Nat])
  /\ Spec => [][\A t \in Threads :
                  /\ Ahead(t) \in [1..3 -> Nat]
                  /\ IF Thread(t) THEN <<Ahead(t)', Ahead(t)>> \in Shorter
                                  ELSE Ahead(t)' = Ahead(t)]_vars
<1>1. IsWellFoundedOn(Shorter, [1..3 -> Nat])
  BY NatLessThanWellFounded, WFLexProductOrdering DEF Shorter
<1>2. ExecutorIsShared => TypeOK /\ AheadOK
  BY AheadType DEF ExecutorIsShared
<1>3. ASSUME TypeOK, AheadOK, AheadOK', [Next]_vars
      PROVE  [\A t \in Threads :
                  /\ Ahead(t) \in [1..3 -> Nat]
                  /\ IF Thread(t) THEN <<Ahead(t)', Ahead(t)>> \in Shorter
                                  ELSE Ahead(t)' = Ahead(t)]_vars
  BY <1>3, ThreadShortens, OthersStay DEF AheadOK, Next
<1>4. Spec => [][\A t \in Threads :
                  /\ Ahead(t) \in [1..3 -> Nat]
                  /\ IF Thread(t) THEN <<Ahead(t)', Ahead(t)>> \in Shorter
                                  ELSE Ahead(t)' = Ahead(t)]_vars
  BY <1>2, <1>3, Shared, PTL DEF Spec
<1>. QED  BY <1>1, <1>4

-----------------------------------------------------------------------------
\* DatabaseStores: the order of times.

\* Later positions have later times.
Ordered(s) == \A i, j \in DOMAIN s : i < j => s[i] < s[j]

\* s enumerates times in their order.
Enumerates(s, n, times) ==
  /\ s \in [1..n -> times]
  /\ Ordered(s)
  /\ \A t \in times : \E i \in 1..n : s[i] = t

\* A nonempty set of times has a first one.
LEMMA FirstTime ==
  ASSUME NEW S \in SUBSET Nat, S # {} PROVE \E x \in S : \A y \in S : x <= y
<1>1. \E x \in S : \A y \in S : <<y, x>> \notin OpToRel(<, Nat)
  BY NatLessThanWellFounded, WFMin
<1>2. ASSUME NEW x \in S, NEW y \in S, <<y, x>> \notin OpToRel(<, Nat) PROVE x <= y
  BY <1>2 DEF OpToRel
<1>. QED  BY <1>1, <1>2

\* With the first one in front of an enumeration of the others, all are enumerated.
LEMMA FirstThenOthers ==
  ASSUME NEW S \in SUBSET Nat, NEW x \in S, \A y \in S : x <= y,
         NEW n \in Nat \ {0}, NEW t, Enumerates(t, n - 1, S \ {x})
  PROVE  Enumerates([i \in 1..n |-> IF i = 1 THEN x ELSE t[i - 1]], n, S)
<1>. DEFINE s == [i \in 1..n |-> IF i = 1 THEN x ELSE t[i - 1]]
<1>t. t \in [1..(n - 1) -> S \ {x}] /\ Ordered(t)
  BY DEF Enumerates
<1>1. s \in [1..n -> S]
  <2>1. ASSUME NEW i \in 1..n, i # 1 PROVE i - 1 \in 1..(n - 1)
    BY <2>1
  <2>. QED  BY <2>1, <1>t
<1>2. ASSUME NEW i \in 1..n, NEW j \in 1..n, i < j PROVE s[i] < s[j]
  <2>1. j # 1 /\ j - 1 \in 1..(n - 1) /\ s[j] = t[j - 1]
    BY <1>2
  <2>2. CASE i = 1
    <3>1. t[j - 1] \in S \ {x} /\ s[i] = x
      BY <2>1, <2>2, <1>t
    <3>2. x <= t[j - 1] /\ x # t[j - 1] /\ x \in Nat /\ t[j - 1] \in Nat
      BY <3>1
    <3>. HIDE DEF s
    <3>. QED  BY <2>1, <3>1, <3>2
  <2>3. CASE i # 1
    <3>1. i - 1 \in 1..(n - 1) /\ s[i] = t[i - 1] /\ i - 1 < j - 1
      BY <1>2, <2>3
    <3>. QED  BY <2>1, <3>1, <1>t DEF Ordered
  <2>. QED  BY <2>2, <2>3
<1>3. ASSUME NEW y \in S PROVE \E i \in 1..n : s[i] = y
  <2>1. CASE y = x
    BY <2>1
  <2>2. CASE y # x
    <3>1. PICK i \in 1..(n - 1) : t[i] = y
      BY <2>2 DEF Enumerates
    <3>2. i + 1 \in 1..n /\ s[i + 1] = y
      BY <3>1
    <3>. QED  BY <3>2
  <2>. QED  BY <2>1, <2>2
<1>4. DOMAIN s = 1..n
  OBVIOUS
<1>5. Ordered(s)
  BY <1>2, <1>4 DEF Ordered
<1>. HIDE DEF s
<1>6. Enumerates(s, n, S)
  BY <1>1, <1>3, <1>5 DEF Enumerates
<1>. QED  BY <1>6 DEF s

\* Every finite set of times can be enumerated: take a smallest one that cannot.
LEMMA OrderExists ==
  ASSUME NEW S \in SUBSET Nat, IsFiniteSet(S)
  PROVE  \E s : Enumerates(s, Cardinality(S), S)
<1>. DEFINE Fails(T) == IsFiniteSet(T) /\ ~ \E s : Enumerates(s, Cardinality(T), T)
            Sizes == {n \in Nat : \E T \in SUBSET Nat : Fails(T) /\ Cardinality(T) = n}
<1>1. SUFFICES ASSUME Sizes # {} PROVE FALSE
  BY FS_CardinalityType
<1>2. PICK n \in Sizes : \A k \in Sizes : n <= k
  BY <1>1, FirstTime
<1>3. PICK T \in SUBSET Nat : Fails(T) /\ Cardinality(T) = n
  OBVIOUS
<1>4. IsFiniteSet(T) /\ n \in Nat
  BY <1>3
<1>5. T # {}
  <2>1. SUFFICES ASSUME T = {} PROVE FALSE
    OBVIOUS
  <2>2. n = 0
    BY <1>3, <2>1, FS_EmptySet
  <2>3. Enumerates(<<>>, 0, {})
    BY DEF Enumerates, Ordered
  <2>. QED  BY <1>3, <2>1, <2>2, <2>3
<1>6. PICK x \in T : \A y \in T : x <= y
  BY <1>5, FirstTime
<1>7. /\ IsFiniteSet(T \ {x}) /\ Cardinality(T \ {x}) = n - 1
      /\ n # 0
  BY <1>3, <1>4, <1>5, FS_RemoveElement, FS_EmptySet
<1>8. n - 1 \in Nat /\ n - 1 \notin Sizes
  BY <1>2, <1>4, <1>7
<1>9. ~ Fails(T \ {x})
  BY <1>7, <1>8
<1>10. PICK t : Enumerates(t, n - 1, T \ {x})
  BY <1>7, <1>9
<1>11. \E s : Enumerates(s, n, T)
  BY <1>4, <1>6, <1>7, <1>10, FirstThenOthers
<1>. QED  BY <1>3, <1>11

\* What InOrder chooses.
LEMMA InOrderEnumerates ==
  ASSUME NEW S \in SUBSET Nat, IsFiniteSet(S)
  PROVE  /\ Cardinality(S) \in Nat
         /\ Enumerates(InOrder(S), Cardinality(S), S)
<1>. DEFINE n == Cardinality(S)
            s == InOrder(S)
<1>1. n \in Nat /\ IsFiniteSet(1..n) /\ Cardinality(1..n) = n
  <2>1. n \in Nat
    BY FS_CardinalityType
  <2>. QED  BY <2>1, FS_Interval
<1>2. s \in [1..n -> S] /\ Ordered(s)
  BY OrderExists DEF InOrder, Enumerates, Ordered
<1>. HIDE DEF n, s
<1>3. s \in Injection(1..n, S)
  <2>1. ASSUME NEW i \in 1..n, NEW j \in 1..n, s[i] = s[j] PROVE i = j
    <3>0. s[i] \in S /\ s[j] \in S
      BY <1>2
    <3>a. s[i] \in Nat
      BY <3>0
    <3>1. ~ (s[i] < s[j]) /\ ~ (s[j] < s[i])
      BY <3>a, <2>1
    <3>2. ~ (i < j) /\ ~ (j < i)
      BY <1>2, <3>1 DEF Ordered
    <3>. QED  BY <1>1, <3>2
  <2>2. DOMAIN s = 1..n
    BY <1>2
  <2>. QED  BY <1>2, <2>1, <2>2 DEF Injection, IsInjective
<1>4. s \in Surjection(1..n, S)
  BY <1>1, <1>3, FS_Injection DEF n
<1>. QED  BY <1>1, <1>2, <1>4 DEF Enumerates, Surjection, n, s

\* There is one order only.
LEMMA OneOrder ==
  ASSUME NEW S \in SUBSET Nat, NEW n \in Nat, NEW f, NEW g,
         Enumerates(f, n, S), Enumerates(g, n, S)
  PROVE  f = g
<1>. DEFINE Differ == {i \in 1..n : f[i] # g[i]}
<1>t. f \in [1..n -> S] /\ g \in [1..n -> S]
  BY DEF Enumerates
<1>1. SUFFICES ASSUME Differ # {} PROVE FALSE
  BY <1>t
<1>d. Differ \in SUBSET Nat
  OBVIOUS
<1>2. PICK k \in Differ : \A j \in Differ : k <= j
  <2>. HIDE DEF Differ
  <2>. QED  BY <1>1, <1>d, FirstTime
<1>3. ASSUME NEW s, NEW t, Enumerates(s, n, S), Enumerates(t, n, S), s[k] < t[k],
             \A j \in 1..n : j < k => s[j] = t[j]
      PROVE  FALSE
  <2>1. s \in [1..n -> S] /\ t \in [1..n -> S] /\ k \in 1..n
    BY <1>3 DEF Enumerates
  <2>s. s[k] \in S /\ t[k] \in S
    BY <2>1
  <2>n. s[k] \in Nat /\ t[k] \in Nat
    BY <2>s
  <2>2. PICK j \in 1..n : t[j] = s[k]
    BY <1>3, <2>s DEF Enumerates
  <2>3. CASE j < k
    <3>1. s[j] = s[k]
      BY <1>3, <2>2, <2>3
    <3>2. s[j] < s[k]
      BY <1>3, <2>1, <2>3 DEF Enumerates, Ordered
    <3>. QED  BY <2>n, <3>1, <3>2
  <2>4. CASE j = k
    BY <1>3, <2>n, <2>2, <2>4
  <2>5. CASE k < j
    <3>1. t[k] < t[j]
      BY <1>3, <2>1, <2>5 DEF Enumerates, Ordered
    <3>. QED  BY <1>3, <2>2, <2>n, <3>1
  <2>. QED  BY <2>3, <2>4, <2>5, <2>1
<1>4. \A j \in 1..n : j < k => f[j] = g[j]
  BY <1>2
<1>5. f[k] \in Nat /\ g[k] \in Nat /\ f[k] # g[k]
  BY <1>t
<1>. HIDE DEF Differ
<1>6. f[k] < g[k] \/ g[k] < f[k]
  BY <1>5
<1>. QED  BY <1>3, <1>4, <1>6

\* A time after all others comes last.
LEMMA InOrderAppends ==
  ASSUME NEW S \in SUBSET Nat, IsFiniteSet(S), NEW m \in Nat, \A x \in S : x < m
  PROVE  InOrder(S \cup {m}) = Append(InOrder(S), m)
<1>. DEFINE n == Cardinality(S)
            s == InOrder(S)
            t == Append(s, m)
            T == S \cup {m}
<1>1. n \in Nat /\ Enumerates(s, n, S)
  BY InOrderEnumerates
<1>2. IsFiniteSet(T) /\ Cardinality(T) = n + 1 /\ T \in SUBSET Nat
  BY FS_AddElement
<1>. HIDE DEF n, s
<1>3. s \in [1..n -> S] /\ s \in Seq(S) /\ Len(s) = n
  <2>1. s \in [1..n -> S]
    BY <1>1 DEF Enumerates
  <2>. QED  BY <1>1, <2>1
<1>4. /\ t \in [1..(n + 1) -> T]
      /\ \A i \in 1..n : t[i] = s[i]
      /\ t[n + 1] = m
  <2>1. s \in Seq(T)
    BY <1>1, <1>3
  <2>2. t \in Seq(T) /\ Len(t) = n + 1
    BY <2>1, <1>3
  <2>3. t \in [1..(n + 1) -> T]
    <3>. HIDE DEF t, T
    <3>. QED  BY <2>2
  <2>. QED  BY <1>1, <1>3, <2>1, <2>3
<1>. HIDE DEF t
<1>5. Ordered(t)
  <2>1. ASSUME NEW i \in 1..(n + 1), NEW j \in 1..(n + 1), i < j PROVE t[i] < t[j]
    <3>1. i \in 1..n /\ t[i] = s[i]
      BY <1>1, <1>4, <2>1
    <3>2. CASE j = n + 1
      <4>1. s[i] \in S
        BY <1>3, <3>1
      <4>. QED  BY <1>4, <3>1, <3>2, <4>1
    <3>3. CASE j # n + 1
      <4>1. j \in 1..n /\ t[j] = s[j]
        BY <1>1, <1>4, <3>3
      <4>2. DOMAIN s = 1..n
        BY <1>3
      <4>. QED  BY <1>1, <2>1, <3>1, <4>1, <4>2 DEF Enumerates, Ordered
    <3>. QED  BY <3>2, <3>3
  <2>2. DOMAIN t = 1..(n + 1)
    BY <1>4
  <2>. QED  BY <2>1, <2>2 DEF Ordered
<1>6. ASSUME NEW x \in T PROVE \E i \in 1..(n + 1) : t[i] = x
  <2>1. CASE x = m
    BY <1>1, <1>4, <2>1
  <2>2. CASE x \in S
    <3>1. PICK i \in 1..n : s[i] = x
      BY <1>1, <2>2 DEF Enumerates
    <3>2. i \in 1..(n + 1) /\ t[i] = x
      BY <1>1, <1>4, <3>1
    <3>. QED  BY <3>2
  <2>. QED  BY <2>1, <2>2
<1>7. Enumerates(t, n + 1, T)
  BY <1>4, <1>5, <1>6 DEF Enumerates
<1>. HIDE DEF T
<1>8. Enumerates(InOrder(T), n + 1, T)
  BY <1>2, InOrderEnumerates
<1>9. InOrder(T) = t
  BY <1>1, <1>2, <1>7, <1>8, OneOrder
<1>. QED  BY <1>9 DEF T, t, s

\* What a query of the newest returns, and what it is turned into.
LEMMA MinOfTwo ==
  ASSUME NEW a \in Nat, NEW b \in Nat PROVE Min({a, b}) = IF a <= b THEN a ELSE b
BY DEF Min

LEMMA ListedIsLatest ==
  ASSUME NEW S \in SUBSET Nat, IsFiniteSet(S), NEW n \in Nat \ {0}
  PROVE  Reverse(Newest(n, S)) = Port!Latest(n, InOrder(S))
<1>. DEFINE s == InOrder(S)
            len == Cardinality(S)
            r == Reverse(s)
            m == IF n <= len THEN n ELSE len
<1>1. len \in Nat /\ s \in [1..len -> S]
  BY InOrderEnumerates DEF Enumerates
<1>. HIDE DEF s, len
<1>2. s \in Seq(S) /\ Len(s) = len
  BY <1>1
<1>3. r = [i \in 1..len |-> s[len - i + 1]]
  BY <1>2 DEF Reverse
<1>4. r \in Seq(S) /\ Len(r) = len
  <2>1. ASSUME NEW i \in 1..len PROVE s[len - i + 1] \in S
    BY <1>1
  <2>. QED  BY <1>1, <1>3, <2>1
<1>. HIDE DEF r
<1>5. m \in 0..len /\ Min({n, len}) = m
  BY <1>1, MinOfTwo
<1>6. Newest(n, S) = SubSeq(r, 1, m)
  BY <1>4, <1>5 DEF Newest, r, s
<1>. HIDE DEF m
<1>7. SubSeq(r, 1, m) = [i \in 1..m |-> s[len - i + 1]]
  BY <1>1, <1>3, <1>4, <1>5
<1>8. Reverse(Newest(n, S)) = [i \in 1..m |-> s[len - m + i]]
  <2>. DEFINE q == [i \in 1..m |-> s[len - i + 1]]
  <2>1. Len(q) = m
    BY <1>5, <1>1
  <2>2. Reverse(q) = [i \in 1..m |-> q[m - i + 1]]
    <3>. HIDE DEF q
    <3>1. Reverse(q) = [i \in 1..Len(q) |-> q[(Len(q) - i) + 1]]
      BY DEF Reverse
    <3>. QED  BY <2>1, <3>1
  <2>3. ASSUME NEW i \in 1..m PROVE q[m - i + 1] = s[len - m + i]
    <3>1. m - i + 1 \in 1..m /\ len - (m - i + 1) + 1 = len - m + i
      BY <1>1, <1>5
    <3>. QED  BY <3>1
  <2>. HIDE DEF q
  <2>4. Reverse(q) = [i \in 1..m |-> s[len - m + i]]
    BY <2>2, <2>3
  <2>5. Newest(n, S) = q
    BY <1>6, <1>7 DEF q
  <2>. QED  BY <2>4, <2>5
<1>9. Port!Latest(n, s) = [i \in 1..m |-> s[len - m + i]]
  <2>. DEFINE first == IF len > n THEN len - n + 1 ELSE 1
  <2>1. Port!Latest(n, s) = SubSeq(s, first, len)
    BY <1>2 DEF Port!Latest
  <2>2. first \in 1..(len + 1) /\ len - first + 1 = m /\ first = len - m + 1
    BY <1>1 DEF m
  <2>. HIDE DEF first
  <2>3. SubSeq(s, first, len) = [i \in 1..(len - first + 1) |-> s[first + i - 1]]
    BY <1>1, <1>2, <2>2, SMTT(20)
  <2>4. ASSUME NEW i \in 1..m PROVE s[first + i - 1] = s[len - m + i]
    <3>1. first + i - 1 = len - m + i
      BY <1>1, <1>5, <2>2
    <3>. QED  BY <3>1
  <2>. QED  BY <2>1, <2>2, <2>3, <2>4
<1>. QED  BY <1>8, <1>9 DEF s

\* A query that may return all of a set returns all of it.
LEMMA NewestAreAll ==
  ASSUME NEW S \in SUBSET Nat, IsFiniteSet(S), NEW n \in Nat, Cardinality(S) <= n
  PROVE  ToSet(Newest(n, S)) = S
<1>. DEFINE s == InOrder(S)
            len == Cardinality(S)
            r == Reverse(s)
<1>1. len \in Nat /\ Enumerates(s, len, S)
  BY InOrderEnumerates
<1>a. s \in [1..len -> S]
  BY <1>1 DEF Enumerates
<1>n. len <= n
  OBVIOUS
<1>. HIDE DEF s, len
<1>2. s \in Seq(S) /\ Len(s) = len
  BY <1>1, <1>a
<1>3. r = [i \in 1..len |-> s[len - i + 1]]
  BY <1>2 DEF Reverse
<1>4. r \in Seq(S) /\ Len(r) = len /\ DOMAIN r = 1..len
  <2>1. ASSUME NEW i \in 1..len PROVE s[len - i + 1] \in S
    BY <1>1, <1>a
  <2>. QED  BY <1>1, <1>3, <2>1
<1>. HIDE DEF r
<1>5. Min({n, len}) = len
  BY <1>1, <1>n, MinOfTwo
<1>6. Newest(n, S) = SubSeq(r, 1, len)
  BY <1>4, <1>5 DEF Newest, r, s
<1>7. SubSeq(r, 1, len) = r
  BY <1>1, <1>4
<1>8. ToSet(r) \subseteq S
  BY <1>4 DEF ToSet
<1>9. ASSUME NEW x \in S PROVE x \in ToSet(r)
  <2>1. PICK i \in 1..len : s[i] = x
    BY <1>1 DEF Enumerates
  <2>2. len - i + 1 \in 1..len /\ len - (len - i + 1) + 1 = i
    BY <1>1
  <2>3. r[len - i + 1] = x
    BY <1>3, <2>1, <2>2
  <2>. QED  BY <1>4, <2>2, <2>3 DEF ToSet
<1>. QED  BY <1>6, <1>7, <1>8, <1>9
-----------------------------------------------------------------------------
\* What the calls that are under way know, and what they do not.

CallOps == {"none", "upsert_set"} \cup ProfileCalls \cup HistoryCalls \cup ExampleCalls

CallRecord ==
  [op : CallOps, key : Users \cup Sessions \cup Examples \cup {"facts", "none"},
   seen : Nat, lapped : BOOLEAN]

\* A call is about something of its kind, and a message has its created_at.
CallsOK ==
  /\ call \in [Clients -> CallRecord]
  /\ \A c \in Clients :
       /\ call[c].op \in ProfileCalls \cup {"upsert_set", "delete_examples_by_user"} =>
            call[c].key \in Users
       /\ call[c].op \in HistoryCalls => call[c].key \in Sessions
       /\ call[c].op = "append_history" => call[c].seen \in 1..clock
       /\ call[c].op = "save_example" => call[c].key \in Examples
       /\ call[c].op = "search_examples" => call[c].key = "facts"

\* Of two writers for one key both are known to have met another.
OverlapsAreSeen ==
  \A c, d \in Clients :
    /\ c # d /\ call[c].op \in Writers /\ call[d].op \in Writers
    /\ call[c].key = call[d].key
    => call[c].lapped

\* A writer that was not lapped goes by what is still stored: the version that
\* it read is the current one, and no message is as late as its own.
UpToDate ==
  \A c \in Clients : ~ call[c].lapped =>
    /\ call[c].op = "upsert_set" => call[c].seen = keys[call[c].key]
    /\ call[c].op = "append_history" => \A m \in rows[call[c].key] : m < call[c].seen

StoresInv ==
  /\ StoresTypeOK
  /\ IsFiniteSet(table)
  /\ CallsOK
  /\ OverlapsAreSeen
  /\ UpToDate

-----------------------------------------------------------------------------
\* The invariant.

\* created_at is bounded, and what is stored under it is finite.
LEMMA RowsAreFinite ==
  ASSUME StoresTypeOK, NEW s \in Sessions
  PROVE  rows[s] \in SUBSET Nat /\ IsFiniteSet(rows[s])
<1>1. clock \in Nat
  BY FS_CardinalityType, StoresAssumption DEF StoresTypeOK
<1>2. rows[s] \in SUBSET (1..clock)
  BY DEF StoresTypeOK
<1>3. IsFiniteSet(1..clock)
  BY <1>1, FS_Interval
<1>. QED  BY <1>1, <1>2, <1>3, FS_Subset

LEMMA StoresInitInv == StoresInit => StoresInv
<1>. SUFFICES ASSUME StoresInit PROVE StoresInv
  OBVIOUS
<1>1. Cardinality(Messages) \in Nat
  BY FS_CardinalityType, StoresAssumption
<1>2. NoCall \in CallRecord /\ NoCall.op = "none" /\ NoCall.lapped = FALSE
  BY DEF NoCall, CallRecord, CallOps
<1>3. \A c \in Clients : call[c] = NoCall
  BY DEF StoresInit
<1>4. CallsOK
  <2>1. call \in [Clients -> CallRecord]
    BY <1>2 DEF StoresInit
  <2>. QED  BY <2>1, <1>2, <1>3 DEF CallsOK, ProfileCalls, HistoryCalls
<1>5. OverlapsAreSeen /\ UpToDate
  BY <1>2, <1>3 DEF OverlapsAreSeen, UpToDate, Writers
<1>6. StoresTypeOK
  BY <1>1, <1>2, <1>3, StoresAssumption DEF StoresInit, StoresTypeOK
<1>7. IsFiniteSet(table)
  BY FS_EmptySet DEF StoresInit
<1>. QED  BY <1>4, <1>5, <1>6, <1>7 DEF StoresInv

\* When a call returns, nobody's knowledge is out of date unless it was lapped by
\* that call.
LEMMA CallReturns ==
  ASSUME StoresInv, NEW c \in Clients,
         call' = [call EXCEPT ![c] = NoCall], UNCHANGED <<clock, calls>>,
         keys' \in [Users -> Nat], rows' \in [Sessions -> SUBSET (1..clock)],
         table' \subseteq Examples, IsFiniteSet(table'),
         \A u \in Users :
           keys'[u] = keys[u] \/ (call[c].op \in Writers /\ call[c].key = u),
         \A s \in Sessions :
           rows'[s] = rows[s] \/ (call[c].op \in Writers /\ call[c].key = s)
  PROVE  StoresInv'
<1>c. call \in [Clients -> CallRecord]
  BY DEF StoresInv, CallsOK
<1>n. NoCall \in CallRecord /\ NoCall.op = "none" /\ NoCall.lapped = FALSE
  BY DEF NoCall, CallRecord, CallOps
<1>1. call' \in [Clients -> CallRecord]
  BY <1>c, <1>n
<1>2. call'[c] = NoCall /\ \A d \in Clients : d # c => call'[d] = call[d]
  BY <1>c
<1>3. CallsOK'
  <2>1. ASSUME NEW d \in Clients
        PROVE  /\ call'[d].op \in ProfileCalls \cup {"upsert_set", "delete_examples_by_user"} =>
                    call'[d].key \in Users
               /\ call'[d].op \in HistoryCalls => call'[d].key \in Sessions
               /\ call'[d].op = "append_history" => call'[d].seen \in 1..clock'
               /\ call'[d].op = "save_example" => call'[d].key \in Examples
               /\ call'[d].op = "search_examples" => call'[d].key = "facts"
    <3>1. CASE d = c
      BY <3>1, <1>2, <1>n DEF ProfileCalls, HistoryCalls
    <3>2. CASE d # c
      BY <3>2, <1>2 DEF StoresInv, CallsOK
    <3>. QED  BY <3>1, <3>2
  <2>. QED  BY <1>1, <2>1 DEF CallsOK, CallRecord
<1>4. OverlapsAreSeen'
  <2>1. ASSUME NEW d \in Clients, NEW e \in Clients, d # e,
               call'[d].op \in Writers, call'[e].op \in Writers, call'[d].key = call'[e].key
        PROVE  call'[d].lapped
    <3>1. d # c /\ e # c
      BY <2>1, <1>2, <1>n DEF Writers
    <3>. QED  BY <2>1, <3>1, <1>2 DEF StoresInv, OverlapsAreSeen
  <2>. QED  BY <2>1 DEF OverlapsAreSeen, Writers
<1>5. UpToDate'
  <2>1. ASSUME NEW d \in Clients, ~ call'[d].lapped, call'[d].op = "upsert_set"
        PROVE  call'[d].seen = keys'[call'[d].key]
    <3>1. d # c /\ call'[d] = call[d]
      BY <2>1, <1>2, <1>n
    <3>2. call[d].op \in Writers
      BY <2>1, <3>1 DEF Writers
    <3>3. call[d].key \in Users /\ call[d].seen = keys[call[d].key]
      BY <2>1, <3>1 DEF StoresInv, CallsOK, UpToDate
    <3>4. ~ (call[c].op \in Writers /\ call[c].key = call[d].key)
      BY <2>1, <3>1, <3>2 DEF StoresInv, OverlapsAreSeen
    <3>. QED  BY <3>1, <3>3, <3>4
  <2>2. ASSUME NEW d \in Clients, ~ call'[d].lapped, call'[d].op = "append_history",
               NEW m \in rows'[call'[d].key]
        PROVE  m < call'[d].seen
    <3>1. d # c /\ call'[d] = call[d]
      BY <2>2, <1>2, <1>n
    <3>2. call[d].op \in Writers
      BY <2>2, <3>1 DEF Writers
    <3>3. call[d].key \in Sessions /\ \A k \in rows[call[d].key] : k < call[d].seen
      BY <2>2, <3>1 DEF StoresInv, CallsOK, UpToDate, HistoryCalls
    <3>4. ~ (call[c].op \in Writers /\ call[c].key = call[d].key)
      BY <2>2, <3>1, <3>2 DEF StoresInv, OverlapsAreSeen
    <3>. QED  BY <2>2, <3>1, <3>3, <3>4
  <2>. QED  BY <2>1, <2>2 DEF UpToDate
<1>6. StoresTypeOK'
  <2>1. ASSUME NEW d \in Clients, call'[d].lapped PROVE call'[d].op \in Writers
    <3>1. d # c /\ call'[d] = call[d]
      BY <2>1, <1>2, <1>n
    <3>. QED  BY <2>1, <3>1 DEF StoresInv, StoresTypeOK
  <2>. QED  BY <2>1 DEF StoresInv, StoresTypeOK, Writers
<1>. QED  BY <1>3, <1>4, <1>5, <1>6 DEF StoresInv

\* A call that is made knows of every writer for its key, and they of it.
LEMMA MakeInv ==
  ASSUME StoresInv, NEW c \in Clients, NEW i \in Interface, Make(c, i[1], i[2])
  PROVE  StoresInv'
<1>. DEFINE op == i[1]
            key == i[2]
            others == IF op \in Writers THEN Open(Writers, key) ELSE {}
            new == [op |-> op, key |-> key, seen |-> clock', lapped |-> others # {}]
<1>i. /\ op \in CallOps /\ key \in Users \cup Sessions \cup Examples \cup {"facts", "none"}
      /\ op \in ProfileCalls \cup {"delete_examples_by_user"} => key \in Users
      /\ op \in HistoryCalls => key \in Sessions
      /\ op = "save_example" => key \in Examples
      /\ op = "search_examples" => key = "facts"
      /\ op # "upsert_set"
  BY DEF Interface, CallOps, ProfileCalls, HistoryCalls, ExampleCalls
<1>m. /\ call[c] = NoCall
      /\ calls < MaxCalls /\ calls' = calls + 1
      /\ op = "append_history" => clock < Cardinality(Messages)
      /\ clock' = IF op = "append_history" THEN clock + 1 ELSE clock
      /\ call' = Opened(c, op, key, clock')
      /\ UNCHANGED <<keys, rows, table, reply>>
  BY DEF Make
<1>t. /\ Cardinality(Messages) \in Nat /\ clock \in 0..Cardinality(Messages)
      /\ calls \in 0..MaxCalls /\ MaxCalls \in Nat
      /\ keys \in [Users -> Nat] /\ rows \in [Sessions -> SUBSET (1..clock)]
      /\ table \subseteq Examples /\ IsFiniteSet(table)
      /\ call \in [Clients -> CallRecord]
  BY FS_CardinalityType, StoresAssumption DEF StoresInv, StoresTypeOK, CallsOK
<1>. HIDE DEF op, key
<1>1. clock' \in 0..Cardinality(Messages) /\ clock <= clock'
  BY <1>m, <1>t
<1>2. call' = [d \in Clients |-> IF d = c THEN new
                                 ELSE [call[d] EXCEPT !.lapped = @ \/ d \in others]]
  BY <1>m DEF Opened
<1>3. new \in CallRecord /\ new.op = op /\ new.key = key /\ new.seen = clock'
      /\ new.lapped = (others # {})
  BY <1>i, <1>1, <1>t DEF CallRecord
<1>. HIDE DEF new
<1>4. call'[c] = new
  BY <1>2
<1>5. ASSUME NEW d \in Clients, d # c
      PROVE  /\ call'[d] \in CallRecord
             /\ call'[d].op = call[d].op /\ call'[d].key = call[d].key
             /\ call'[d].seen = call[d].seen
             /\ call'[d].lapped = (call[d].lapped \/ d \in others)
  <2>1. call'[d] = [call[d] EXCEPT !.lapped = @ \/ d \in others]
    BY <1>2, <1>5
  <2>2. call[d] \in CallRecord
    BY <1>t
  <2>. QED  BY <2>1, <2>2 DEF CallRecord
<1>6. call' \in [Clients -> CallRecord]
  <2>1. \A d \in Clients : call'[d] \in CallRecord
    BY <1>3, <1>4, <1>5
  <2>2. call' = [d \in Clients |-> call'[d]]
    BY <1>2
  <2>. QED  BY <2>1, <2>2
<1>o. ASSUME NEW d \in others PROVE d \in Clients /\ d # c /\ op \in Writers /\ call[d].op \in Writers
  BY <1>m DEF Open, NoCall, Writers
<1>7. CallsOK'
  <2>1. ASSUME NEW d \in Clients
        PROVE  /\ call'[d].op \in ProfileCalls \cup {"upsert_set", "delete_examples_by_user"} =>
                    call'[d].key \in Users
               /\ call'[d].op \in HistoryCalls => call'[d].key \in Sessions
               /\ call'[d].op = "append_history" => call'[d].seen \in 1..clock'
               /\ call'[d].op = "save_example" => call'[d].key \in Examples
               /\ call'[d].op = "search_examples" => call'[d].key = "facts"
    <3>1. CASE d = c
      <4>1. op = "append_history" => clock' \in 1..clock'
        BY <1>m, <1>t
      <4>. QED  BY <3>1, <4>1, <1>3, <1>4, <1>i
    <3>2. CASE d # c
      <4>1. call[d].op = "append_history" => call[d].seen \in 1..clock
        BY DEF StoresInv, CallsOK
      <4>2. call[d].op = "append_history" => call[d].seen \in 1..clock'
        BY <4>1, <1>1, <1>t
      <4>. QED  BY <3>2, <4>2, <1>5 DEF StoresInv, CallsOK
    <3>. QED  BY <3>1, <3>2
  <2>. QED  BY <1>6, <2>1 DEF CallsOK, CallRecord
<1>8. OverlapsAreSeen'
  <2>1. ASSUME NEW d \in Clients, NEW e \in Clients, d # e,
               call'[d].op \in Writers, call'[e].op \in Writers, call'[d].key = call'[e].key
        PROVE  call'[d].lapped
    <3>1. CASE d = c
      <4>1. e \in others
        BY <2>1, <3>1, <1>3, <1>4, <1>5 DEF Open
      <4>. QED  BY <4>1, <3>1, <1>3, <1>4
    <3>2. CASE e = c
      <4>1. d \in others
        BY <2>1, <3>2, <1>3, <1>4, <1>5 DEF Open
      <4>. QED  BY <4>1, <2>1, <3>2, <1>5
    <3>3. CASE d # c /\ e # c
      <4>1. call[d].lapped
        BY <2>1, <3>3, <1>5 DEF StoresInv, OverlapsAreSeen
      <4>. QED  BY <4>1, <3>3, <1>5
    <3>. QED  BY <3>1, <3>2, <3>3
  <2>. QED  BY <2>1 DEF OverlapsAreSeen, Writers
<1>9. UpToDate'
  <2>1. ASSUME NEW d \in Clients, ~ call'[d].lapped, call'[d].op = "upsert_set"
        PROVE  call'[d].seen = keys'[call'[d].key]
    <3>1. d # c
      BY <2>1, <1>3, <1>4, <1>i
    <3>2. ~ call[d].lapped /\ call[d].op = "upsert_set"
      BY <2>1, <3>1, <1>5
    <3>3. call[d].seen = keys[call[d].key]
      BY <3>2 DEF StoresInv, UpToDate
    <3>4. call'[d].seen = call[d].seen /\ call'[d].key = call[d].key /\ keys' = keys
      BY <3>1, <1>5, <1>m
    <3>. QED  BY <3>3, <3>4
  <2>2. ASSUME NEW d \in Clients, ~ call'[d].lapped, call'[d].op = "append_history",
               NEW m \in rows'[call'[d].key]
        PROVE  m < call'[d].seen
    <3>1. CASE d = c
      <4>1. op = "append_history" /\ key \in Sessions /\ m \in rows[key] /\ call'[d].seen = clock'
        BY <2>2, <3>1, <1>3, <1>4, <1>i, <1>m DEF HistoryCalls
      <4>2. m \in 1..clock
        BY <4>1, <1>t
      <4>. QED  BY <4>1, <4>2, <1>m, <1>t
    <3>2. CASE d # c
      BY <2>2, <3>2, <1>5, <1>m DEF StoresInv, UpToDate
    <3>. QED  BY <3>1, <3>2
  <2>. QED  BY <2>1, <2>2 DEF UpToDate
<1>10. StoresTypeOK'
  <2>1. ASSUME NEW d \in Clients, call'[d].lapped PROVE call'[d].op \in Writers
    <3>1. CASE d = c
      <4>1. others # {}
        BY <2>1, <3>1, <1>3, <1>4
      <4>. QED  BY <4>1, <3>1, <1>o, <1>3, <1>4
    <3>2. CASE d # c
      BY <2>1, <3>2, <1>5, <1>o DEF StoresInv, StoresTypeOK
    <3>. QED  BY <3>1, <3>2
  <2>2. rows' \in [Sessions -> SUBSET (1..clock')]
    <3>1. 1..clock \subseteq 1..clock'
      BY <1>1, <1>t
    <3>. QED  BY <3>1, <1>m, <1>t
  <2>3. calls' \in 0..MaxCalls
    BY <1>m, <1>t
  <2>. QED  BY <2>1, <2>2, <2>3, <1>1, <1>m, <1>t DEF StoresTypeOK, Writers
<1>. QED  BY <1>7, <1>8, <1>9, <1>10, <1>m, <1>t DEF StoresInv

\* The GET of an upsert: what it reads is what is stored.
LEMMA UpsertGetInv ==
  ASSUME StoresInv, NEW c \in Clients, UpsertGet(c) PROVE StoresInv'
<1>u. /\ call[c].op = "upsert"
      /\ call' = [call EXCEPT ![c].op = "upsert_set", ![c].seen = keys[call[c].key]]
      /\ UNCHANGED <<keys, rows, table, clock, calls, reply>>
  BY DEF UpsertGet
<1>t. call \in [Clients -> CallRecord] /\ keys \in [Users -> Nat]
  BY DEF StoresInv, StoresTypeOK, CallsOK
<1>0. call[c].key \in Users /\ call[c] \in CallRecord
  BY <1>t, <1>u DEF StoresInv, CallsOK, ProfileCalls
<1>1. /\ call'[c] \in CallRecord
      /\ call'[c].op = "upsert_set" /\ call'[c].key = call[c].key
      /\ call'[c].seen = keys[call[c].key] /\ call'[c].lapped = call[c].lapped
  <2>1. call'[c] = [call[c] EXCEPT !.op = "upsert_set", !.seen = keys[call[c].key]]
    BY <1>u, <1>t
  <2>2. keys[call[c].key] \in Nat
    BY <1>0, <1>t
  <2>. QED  BY <1>0, <2>1, <2>2 DEF CallRecord, CallOps
<1>2. \A d \in Clients : d # c => call'[d] = call[d]
  BY <1>u, <1>t
<1>3. call' \in [Clients -> CallRecord]
  BY <1>u, <1>t, <1>1, <1>2
<1>4. CallsOK'
  <2>1. ASSUME NEW d \in Clients
        PROVE  /\ call'[d].op \in ProfileCalls \cup {"upsert_set", "delete_examples_by_user"} =>
                    call'[d].key \in Users
               /\ call'[d].op \in HistoryCalls => call'[d].key \in Sessions
               /\ call'[d].op = "append_history" => call'[d].seen \in 1..clock'
               /\ call'[d].op = "save_example" => call'[d].key \in Examples
               /\ call'[d].op = "search_examples" => call'[d].key = "facts"
    <3>1. CASE d = c
      BY <3>1, <1>0, <1>1 DEF HistoryCalls
    <3>2. CASE d # c
      BY <3>2, <1>2, <1>u DEF StoresInv, CallsOK
    <3>. QED  BY <3>1, <3>2
  <2>. QED  BY <1>3, <2>1 DEF CallsOK, CallRecord
<1>5. \A d \in Clients :
        /\ call'[d].lapped = call[d].lapped /\ call'[d].key = call[d].key
        /\ call'[d].op \in Writers <=> call[d].op \in Writers
  BY <1>1, <1>2, <1>u DEF Writers
<1>6. OverlapsAreSeen'
  <2>1. ASSUME NEW d \in Clients, NEW e \in Clients, d # e,
               call'[d].op \in Writers, call'[e].op \in Writers, call'[d].key = call'[e].key
        PROVE  call'[d].lapped
    BY <2>1, <1>5 DEF StoresInv, OverlapsAreSeen
  <2>. QED  BY <2>1 DEF OverlapsAreSeen, Writers
<1>7. UpToDate'
  <2>1. ASSUME NEW d \in Clients, ~ call'[d].lapped, call'[d].op = "upsert_set"
        PROVE  call'[d].seen = keys'[call'[d].key]
    <3>1. CASE d = c
      BY <3>1, <1>1, <1>u
    <3>2. CASE d # c
      BY <2>1, <3>2, <1>2, <1>u DEF StoresInv, UpToDate
    <3>. QED  BY <3>1, <3>2
  <2>2. ASSUME NEW d \in Clients, ~ call'[d].lapped, call'[d].op = "append_history",
               NEW m \in rows'[call'[d].key]
        PROVE  m < call'[d].seen
    <3>1. d # c
      BY <2>2, <1>1
    <3>. QED  BY <2>2, <3>1, <1>2, <1>u DEF StoresInv, UpToDate
  <2>. QED  BY <2>1, <2>2 DEF UpToDate
<1>8. StoresTypeOK'
  <2>1. \A d \in Clients : call'[d].lapped => call'[d].op \in Writers
    BY <1>5 DEF StoresInv, StoresTypeOK
  <2>. QED  BY <2>1, <1>u DEF StoresInv, StoresTypeOK, Writers
<1>. QED  BY <1>4, <1>6, <1>7, <1>8, <1>u DEF StoresInv

\* When a profile expires, the upserts that have read it are lapped.
LEMMA ExpireInv ==
  ASSUME StoresInv, NEW u \in Users, Expire(u) PROVE StoresInv'
<1>u. /\ keys' = [keys EXCEPT ![u] = 0]
      /\ call' = [c \in Clients |-> IF c \in Open({"upsert_set"}, u)
                                    THEN [call[c] EXCEPT !.lapped = TRUE] ELSE call[c]]
      /\ UNCHANGED <<rows, table, clock, calls, reply>>
  BY DEF Expire, Gone
<1>t. call \in [Clients -> CallRecord] /\ keys \in [Users -> Nat]
  BY DEF StoresInv, StoresTypeOK, CallsOK
<1>1. ASSUME NEW c \in Clients
      PROVE  /\ call'[c] \in CallRecord
             /\ call'[c].op = call[c].op /\ call'[c].key = call[c].key
             /\ call'[c].seen = call[c].seen
             /\ call'[c].lapped <=> call[c].lapped \/ (call[c].op = "upsert_set" /\ call[c].key = u)
  <2>0. call[c] \in CallRecord
    BY <1>t
  <2>1. CASE c \in Open({"upsert_set"}, u)
    <3>1. call'[c] = [call[c] EXCEPT !.lapped = TRUE]
      BY <1>u, <2>1
    <3>2. call[c].op = "upsert_set" /\ call[c].key = u
      BY <2>1 DEF Open
    <3>. QED  BY <2>0, <3>1, <3>2 DEF CallRecord
  <2>2. CASE c \notin Open({"upsert_set"}, u)
    <3>1. call'[c] = call[c]
      BY <1>u, <2>2
    <3>2. ~ (call[c].op = "upsert_set" /\ call[c].key = u)
      BY <2>2 DEF Open
    <3>. QED  BY <2>0, <3>1, <3>2
  <2>. QED  BY <2>1, <2>2
<1>2. StoresTypeOK'
  <2>1. keys' \in [Users -> Nat]
    BY <1>u, <1>t
  <2>2. \A c \in Clients : call'[c].lapped => call'[c].op \in Writers
    BY <1>1 DEF StoresInv, StoresTypeOK, Writers
  <2>. QED  BY <1>u, <2>1, <2>2 DEF StoresInv, StoresTypeOK, Writers
<1>3. CallsOK'
  <2>1. call' \in [Clients -> CallRecord]
    BY <1>u, <1>1
  <2>. QED  BY <1>u, <1>1, <2>1 DEF StoresInv, CallsOK, CallRecord
<1>4. OverlapsAreSeen'
  BY <1>1 DEF StoresInv, OverlapsAreSeen, Writers
<1>5. UpToDate'
  <2>1. ASSUME NEW c \in Clients, ~ call'[c].lapped, call'[c].op = "upsert_set"
        PROVE  call'[c].seen = keys'[call'[c].key]
    <3>1. call[c].key \in Users /\ call[c].key # u /\ call[c].seen = keys[call[c].key]
      BY <1>1, <2>1 DEF StoresInv, CallsOK, UpToDate
    <3>. QED  BY <1>u, <1>t, <1>1, <3>1
  <2>2. ASSUME NEW c \in Clients, ~ call'[c].lapped, call'[c].op = "append_history",
               NEW m \in rows'[call'[c].key]
        PROVE  m < call'[c].seen
    BY <1>u, <1>1, <2>2 DEF StoresInv, UpToDate
  <2>. QED  BY <2>1, <2>2 DEF UpToDate
<1>. QED  BY <1>2, <1>3, <1>4, <1>5, <1>u DEF StoresInv

-----------------------------------------------------------------------------
\* The steps that answer a call, and what they are to the port.

PortStep == Port!Next \/ ReturnsLapped \/ SearchesTooMany

\* Next of the port has the operation among its disjuncts.
LEMMA PortSteps ==
  /\ \A u \in Users :
       Port!Upsert(u) \/ Port!GetProfile(u) \/ Port!DeleteProfile(u) \/ Port!Forget(u)
         \/ Port!DeleteExamples(u) => PortStep
  /\ \A s \in Sessions :
       Port!ListHistory(s) \/ (\E m \in Messages : Port!AppendHistory(s, m)) => PortStep
  /\ \A r \in Examples : Port!SaveExample(r) => PortStep
  /\ Port!SearchExamples => PortStep
BY DEF PortStep, Port!Next

\* A call that another writer overlapped, or an expiry.
LEMMA LappedReturns ==
  ASSUME StoresInv, NEW c \in Clients, call[c].lapped,
         call' = [call EXCEPT ![c] = NoCall], UNCHANGED table,
         \A u \in Users \ {call[c].key} : keys'[u] = keys[u],
         \A s \in Sessions \ {call[c].key} : rows'[s] = rows[s]
  PROVE  ReturnsLapped
<1>1. call'[c] = NoCall
  BY DEF StoresInv, CallsOK
<1>. QED  BY <1>1 DEF ReturnsLapped

\* The SET of an upsert writes the next version, unless a writer or the end of the
\* time to live came between.
LEMMA UpsertSetStep ==
  ASSUME StoresInv, NEW c \in Clients, UpsertSet(c) PROVE StoresInv' /\ PortStep
<1>. DEFINE u == call[c].key
            version == NextVersion(call[c].seen)
<1>u. /\ call[c].op = "upsert_set"
      /\ keys' = [keys EXCEPT ![u] = version]
      /\ reply' = Reply("upsert", u, version)
      /\ call' = [call EXCEPT ![c] = NoCall]
      /\ UNCHANGED <<rows, table, clock, calls>>
  BY DEF UpsertSet
<1>t. /\ u \in Users /\ call[c].op \in Writers
      /\ call[c].seen \in Nat
      /\ keys \in [Users -> Nat] /\ rows \in [Sessions -> SUBSET (1..clock)]
      /\ table \subseteq Examples /\ IsFiniteSet(table)
  BY <1>u DEF StoresInv, StoresTypeOK, CallsOK, CallRecord, Writers
<1>v. version \in Nat
  BY <1>t DEF NextVersion
<1>. HIDE DEF version
<1>1. StoresInv'
  <2>1. keys' \in [Users -> Nat]
    BY <1>u, <1>t, <1>v
  <2>2. \A w \in Users : keys'[w] = keys[w] \/ (call[c].op \in Writers /\ call[c].key = w)
    BY <1>u, <1>t
  <2>. QED  BY <1>u, <1>t, <2>1, <2>2, CallReturns
<1>2. CASE call[c].lapped
  <2>1. \A w \in Users \ {call[c].key} : keys'[w] = keys[w]
    BY <1>u, <1>t
  <2>2. ReturnsLapped
    BY <1>u, <1>2, <2>1, LappedReturns
  <2>. QED  BY <1>1, <2>2 DEF PortStep
<1>3. CASE ~ call[c].lapped
  <2>1. version = keys[u] + 1
    <3>1. call[c].seen = keys[u]
      BY <1>u, <1>3 DEF StoresInv, UpToDate
    <3>. QED  BY <1>t, <3>1 DEF version, NextVersion
  <2>2. Port!Upsert(u)
    BY <1>u, <2>1 DEF Port!Upsert, Reply, Port!Reply
  <2>. QED  BY <1>1, <1>t, <2>2, PortSteps
<1>. QED  BY <1>2, <1>3

\* The other calls for a profile are one command each.
LEMMA ProfileStep ==
  ASSUME StoresInv, NEW c \in Clients, GetProfile(c) \/ DeleteProfile(c)
  PROVE  StoresInv' /\ PortStep
<1>. DEFINE u == call[c].key
<1>u. /\ call[c].op \in {"get", "delete"}
      /\ call' = [call EXCEPT ![c] = NoCall]
      /\ UNCHANGED <<rows, table, clock, calls>>
  BY DEF GetProfile, DeleteProfile, Returns
<1>t. /\ u \in Users
      /\ keys \in [Users -> Nat] /\ rows \in [Sessions -> SUBSET (1..clock)]
      /\ table \subseteq Examples /\ IsFiniteSet(table)
  BY <1>u DEF StoresInv, StoresTypeOK, CallsOK, ProfileCalls
<1>1. CASE GetProfile(c)
  <2>1. keys' = keys
    BY <1>1 DEF GetProfile
  <2>2. StoresInv'
    BY <1>u, <1>t, <2>1, CallReturns
  <2>3. Port!GetProfile(u)
    BY <1>1 DEF GetProfile, Returns, Port!GetProfile, Reply, Port!Reply
  <2>. QED  BY <1>t, <2>2, <2>3, PortSteps
<1>2. CASE DeleteProfile(c)
  <2>1. keys' = [keys EXCEPT ![u] = 0] /\ call[c].op \in Writers
    BY <1>2 DEF DeleteProfile, Gone, Writers
  <2>2. /\ keys' \in [Users -> Nat]
        /\ \A w \in Users : keys'[w] = keys[w] \/ (call[c].op \in Writers /\ call[c].key = w)
    BY <1>t, <2>1
  <2>3. StoresInv'
    BY <1>u, <1>t, <2>2, CallReturns
  <2>4. Port!DeleteProfile(u)
    BY <1>2 DEF DeleteProfile, Gone, Returns, Port!DeleteProfile, Reply, Port!Reply
  <2>. QED  BY <1>t, <2>3, <2>4, PortSteps
<1>. QED  BY <1>1, <1>2

\* The INSERT of a message puts it at the end of the history, unless another one
\* with a later created_at is stored already.
LEMMA AppendHistoryStep ==
  ASSUME StoresInv, NEW c \in Clients, AppendHistory(c) PROVE StoresInv' /\ PortStep
<1>. DEFINE s == call[c].key
            m == call[c].seen
<1>u. /\ call[c].op = "append_history"
      /\ rows' = [rows EXCEPT ![s] = @ \cup {m}]
      /\ call' = [call EXCEPT ![c] = NoCall]
      /\ reply' = Reply("append_history", s, m)
      /\ UNCHANGED <<keys, table, clock, calls>>
  BY DEF AppendHistory, Returns
<1>t. /\ s \in Sessions /\ call[c].op \in Writers
      /\ m \in 1..clock
      /\ keys \in [Users -> Nat] /\ rows \in [Sessions -> SUBSET (1..clock)]
      /\ table \subseteq Examples /\ IsFiniteSet(table)
      /\ clock \in 0..Cardinality(Messages)
  BY <1>u DEF StoresInv, StoresTypeOK, CallsOK, HistoryCalls, Writers
<1>1. StoresInv'
  <2>1. rows' \in [Sessions -> SUBSET (1..clock)]
    BY <1>u, <1>t
  <2>2. \A w \in Sessions : rows'[w] = rows[w] \/ (call[c].op \in Writers /\ call[c].key = w)
    BY <1>u, <1>t
  <2>. QED  BY <1>u, <1>t, <2>1, <2>2, CallReturns
<1>2. CASE call[c].lapped
  <2>1. \A w \in Sessions \ {call[c].key} : rows'[w] = rows[w]
    BY <1>u, <1>t
  <2>2. ReturnsLapped
    BY <1>u, <1>2, <2>1, LappedReturns
  <2>. QED  BY <1>1, <2>2 DEF PortStep
<1>3. CASE ~ call[c].lapped
  <2>1. \A k \in rows[s] : k < m
    BY <1>u, <1>3 DEF StoresInv, UpToDate
  <2>2. m \in Nat /\ m \in Messages
    <3>1. Cardinality(Messages) \in Nat /\ Messages = 1..Cardinality(Messages)
      BY FS_CardinalityType, StoresAssumption
    <3>2. m \in 1..Cardinality(Messages)
      BY <1>t, <3>1
    <3>. QED  BY <1>t, <3>1, <3>2
  <2>3. rows[s] \in SUBSET Nat /\ IsFiniteSet(rows[s])
    BY <1>t, RowsAreFinite DEF StoresInv
  <2>. HIDE DEF s, m
  <2>4. InOrder(rows[s] \cup {m}) = Append(InOrder(rows[s]), m)
    BY <2>1, <2>2, <2>3, InOrderAppends
  <2>5. [x \in Sessions |-> InOrder(rows'[x])] =
          [[x \in Sessions |-> InOrder(rows[x])] EXCEPT ![s] = Append(@, m)]
    <3>1. \A x \in Sessions :
            InOrder(rows'[x]) = IF x = s THEN Append(InOrder(rows[s]), m) ELSE InOrder(rows[x])
      BY <1>u, <1>t, <2>4
    <3>. QED  BY <1>t, <3>1
  <2>6. Port!AppendHistory(s, m)
    BY <1>u, <2>5 DEF Port!AppendHistory, Reply, Port!Reply
  <2>. QED  BY <1>1, <1>t, <2>2, <2>6, PortSteps
<1>. QED  BY <1>2, <1>3

\* The query of a history finds the latest messages, and they are turned round.
LEMMA ListHistoryStep ==
  ASSUME StoresInv, NEW c \in Clients, ListHistory(c) PROVE StoresInv' /\ PortStep
<1>. DEFINE s == call[c].key
<1>u. /\ call[c].op = "list_history"
      /\ call' = [call EXCEPT ![c] = NoCall]
      /\ reply' = Reply("list_history", s, Listed(s))
      /\ UNCHANGED <<keys, rows, table, clock, calls>>
  BY DEF ListHistory, Returns
<1>t. /\ s \in Sessions
      /\ keys \in [Users -> Nat] /\ rows \in [Sessions -> SUBSET (1..clock)]
      /\ table \subseteq Examples /\ IsFiniteSet(table)
  BY <1>u DEF StoresInv, StoresTypeOK, CallsOK, HistoryCalls
<1>1. StoresInv'
  BY <1>u, <1>t, CallReturns
<1>2. Listed(s) = Port!Latest(Limit, InOrder(rows[s]))
  <2>1. rows[s] \in SUBSET Nat /\ IsFiniteSet(rows[s])
    BY <1>t, RowsAreFinite DEF StoresInv
  <2>. HIDE DEF s
  <2>. QED  BY <2>1, ListedIsLatest, StoresAssumption DEF Listed
<1>3. Port!ListHistory(s)
  <2>. HIDE DEF s
  <2>. QED  BY <1>u, <1>t, <1>2 DEF Port!ListHistory, Reply, Port!Reply
<1>. QED  BY <1>1, <1>t, <1>3, PortSteps

\* The calls for examples are one transaction each.
LEMMA ExampleStep ==
  ASSUME StoresInv, NEW c \in Clients, SaveExample(c) \/ SearchExamples(c) \/ DeleteExamples(c)
  PROVE  StoresInv' /\ PortStep
<1>. DEFINE k == call[c].key
<1>u. /\ call' = [call EXCEPT ![c] = NoCall]
      /\ UNCHANGED <<keys, rows, clock, calls>>
  BY DEF SaveExample, SearchExamples, DeleteExamples, Returns
<1>t. /\ keys \in [Users -> Nat] /\ rows \in [Sessions -> SUBSET (1..clock)]
      /\ table \subseteq Examples /\ IsFiniteSet(table) /\ Examples \subseteq Nat
  BY StoresAssumption DEF StoresInv, StoresTypeOK
<1>0. ASSUME table' \subseteq Examples, IsFiniteSet(table') PROVE StoresInv'
  BY <1>0, <1>u, <1>t, CallReturns
<1>1. CASE SaveExample(c)
  <2>1. k \in Examples
    BY <1>1 DEF SaveExample, StoresInv, CallsOK
  <2>2. table' = table \cup {k}
    BY <1>1 DEF SaveExample
  <2>3. table' \subseteq Examples /\ IsFiniteSet(table')
    BY <1>t, <2>1, <2>2, FS_AddElement
  <2>4. Port!SaveExample(k)
    BY <1>1 DEF SaveExample, Returns, Port!SaveExample, Reply, Port!Reply
  <2>. QED  BY <1>0, <2>1, <2>3, <2>4, PortSteps
<1>2. CASE SearchExamples(c)
  <2>1. /\ table' = table /\ reply' = Reply("search_examples", k, BestOfNewest)
        /\ call[c].op = "search_examples"
    BY <1>2 DEF SearchExamples, Returns
  <2>k. k = "facts"
    BY <2>1 DEF StoresInv, CallsOK
  <2>2. StoresInv'
    BY <1>0, <1>t, <2>1
  <2>3. CASE Cardinality(table) > MaxScanned
    <3>1. reply'.op = "search_examples"
      BY <2>1 DEF Reply
    <3>2. SearchesTooMany
      BY <1>u, <2>1, <2>3, <3>1 DEF SearchesTooMany
    <3>. QED  BY <2>2, <3>2 DEF PortStep
  <2>4. CASE ~ (Cardinality(table) > MaxScanned)
    <3>1. Cardinality(table) <= MaxScanned /\ MaxScanned \in Nat
      BY <1>t, <2>4, FS_CardinalityType, StoresAssumption
    <3>2. ToSet(Newest(MaxScanned, table)) = table
      BY <1>t, <3>1, NewestAreAll
    <3>3. BestOfNewest = Port!Best(table)
      BY <3>2, Zenon DEF BestOfNewest
    <3>4. Port!SearchExamples
      BY <1>u, <2>1, <2>k, <3>3 DEF Port!SearchExamples, Reply, Port!Reply
    <3>. QED  BY <2>2, <3>4, PortSteps
  <2>. QED  BY <2>3, <2>4
<1>3. CASE DeleteExamples(c)
  <2>. DEFINE gone == Port!Contributed(k, table)
  <2>1. k \in Users
    BY <1>3 DEF DeleteExamples, StoresInv, CallsOK
  <2>2. table' = table \ gone
    BY <1>3 DEF DeleteExamples
  <2>3. table' \subseteq Examples /\ IsFiniteSet(table')
    <3>1. table' \in SUBSET table
      BY <2>2
    <3>. QED  BY <1>t, <3>1, FS_Subset
  <2>4. reply' = Port!Reply("delete_examples_by_user", k, Port!HowMany(gone))
    BY <1>3 DEF DeleteExamples, Returns, Reply, Port!Reply
  <2>5. Port!DeleteExamples(k)
    <3>. HIDE DEF k
    <3>1. UNCHANGED <<keys, [s \in Sessions |-> InOrder(rows[s])]>>
      BY <1>u
    <3>. QED  BY <2>2, <2>4, <3>1 DEF Port!DeleteExamples
  <2>. QED  BY <1>0, <2>1, <2>3, <2>5, PortSteps
<1>. QED  BY <1>1, <1>2, <1>3

\* Every step keeps the invariant, and is a step of the port, one of the two
\* exceptions, or invisible.
LEMMA StoresStep ==
  ASSUME StoresInv, [StoresNext]_storesVars
  PROVE  StoresInv' /\ [PortStep]_(Port!vars)
<1>. DEFINE Silent == UNCHANGED <<keys, rows, table, reply>>
<1>1. ASSUME Silent PROVE UNCHANGED Port!vars
  BY <1>1 DEF Port!vars
<1>2. CASE UNCHANGED storesVars
  <2>1. Silent /\ UNCHANGED <<call, clock, calls>>
    BY <1>2 DEF storesVars
  <2>2. StoresInv'
    BY <2>1 DEF StoresInv, StoresTypeOK, CallsOK, OverlapsAreSeen, UpToDate
  <2>. QED  BY <1>1, <2>1, <2>2
<1>3. ASSUME NEW c \in Clients, Client(c) PROVE StoresInv' /\ [PortStep]_(Port!vars)
  <2>1. ASSUME NEW i \in Interface, Make(c, i[1], i[2]) PROVE StoresInv' /\ [PortStep]_(Port!vars)
    <3>1. Silent
      BY <2>1 DEF Make
    <3>. QED  BY <1>1, <2>1, <3>1, MakeInv
  <2>2. CASE UpsertGet(c)
    <3>1. Silent
      BY <2>2 DEF UpsertGet
    <3>. QED  BY <1>1, <2>2, <3>1, UpsertGetInv
  <2>. QED
    BY <1>3, <2>1, <2>2, UpsertSetStep, ProfileStep, AppendHistoryStep, ListHistoryStep,
       ExampleStep DEF Client
<1>4. ASSUME NEW u \in Users, Expire(u) PROVE StoresInv' /\ [PortStep]_(Port!vars)
  <2>1. StoresInv'
    BY <1>4, ExpireInv
  <2>2. Port!Forget(u)
    BY <1>4 DEF Expire, Gone, Port!Forget
  <2>. QED  BY <2>1, <2>2, PortSteps
<1>. QED  BY <1>2, <1>3, <1>4 DEF StoresNext

\* Empty databases are a port that nobody has called.
LEMMA StoresInitPort == StoresInit => Port!Init
<1>. SUFFICES ASSUME StoresInit PROVE Port!Init
  OBVIOUS
<1>1. InOrder({}) = <<>>
  <2>1. IsFiniteSet({}) /\ Cardinality({}) = 0
    BY FS_EmptySet
  <2>2. Enumerates(InOrder({}), 0, {})
    BY <2>1, InOrderEnumerates
  <2>. QED  BY <2>2 DEF Enumerates
<1>2. [s \in Sessions |-> InOrder(rows[s])] = [s \in Sessions |-> <<>>]
  BY <1>1 DEF StoresInit
<1>. QED  BY <1>2 DEF StoresInit, Port!Init, Reply, Port!Reply

\* The adapters for Redis and PostgreSQL implement the storage port, however the
\* coroutines that call them interleave: an upsert of two commands takes effect at
\* its second one and created_at orders a history as the calls do, but for calls
\* that another writer of the same key overlapped, upserts between whose commands the
\* key expired, and searches of more examples than the query reads.
THEOREM AdaptersImplementPort == StoresSpec => ImplementsPort
<1>1. StoresInv => StoresTypeOK
  BY DEF StoresInv
<1>2. StoresInv /\ [StoresNext]_storesVars =>
        StoresInv' /\ [Port!Next \/ ReturnsLapped \/ SearchesTooMany]_(Port!vars)
  BY StoresStep DEF PortStep
<1>. QED
  BY <1>1, <1>2, StoresInitInv, StoresInitPort, PTL DEF StoresSpec, ImplementsPort

-----------------------------------------------------------------------------
\* HybridSearch: the lists of points.

LEMMA MinOf ==
  ASSUME NEW S \in SUBSET Nat, S # {} PROVE Min(S) \in S /\ \A y \in S : Min(S) <= y
BY FirstTime DEF Min

\* A list of points, of which there are no more than the model allows.
IsList(points) == points \in Seq(Points) /\ Len(points) <= MaxPoints

\* How many points up to place i have an id.
RankAt(i, points) == Cardinality({j \in 1..i : points[j].id # NoId})

LEMMA SearchConstants ==
  /\ RrfK \in Nat /\ RrfK > 0 /\ Scale \in Nat /\ Scale > 0 /\ MaxPoints \in Nat /\ MaxPoints > 0
  /\ DefaultTopK \in Nat /\ MaxTopK \in Nat /\ Multiplier \in Nat /\ Multiplier > 0
  /\ DefaultTopK \in 1..MaxTopK
  /\ NoId \notin Ids /\ Broken \subseteq Item
BY SearchAssumption

LEMMA PointOf ==
  ASSUME NEW p \in Points
  PROVE  /\ p.id \in Ids \cup {NoId}
         /\ p.id # NoId => p \in Item /\ p.id \in Ids /\ p.payload \in Payloads
                           /\ p = [id |-> p.id, payload |-> p.payload]
BY SearchConstants DEF Points, Item

LEMMA PlacesOf ==
  ASSUME NEW points, IsList(points), NEW id
  PROVE  /\ Places(id, points) \subseteq 1..Len(points) /\ Len(points) \in Nat
         /\ Len(points) <= MaxPoints
         /\ \A i \in Places(id, points) : points[i] \in Points /\ points[i].id = id
BY DEF IsList, Places

\* A later place has a higher rank, if it has an id.
LEMMA RankGrows ==
  ASSUME NEW points, NEW i \in Nat, NEW k \in Nat, i < k, points[k].id # NoId
  PROVE  RankAt(i, points) \in Nat /\ RankAt(k, points) \in Nat /\ RankAt(i, points) < RankAt(k, points)
<1>. DEFINE upTo(n) == {j \in 1..n : points[j].id # NoId}
<1>1. IsFiniteSet(1..k) /\ upTo(k) \in SUBSET (1..k)
  BY FS_Interval
<1>2. IsFiniteSet(upTo(k))
  BY <1>1, FS_Subset
<1>3. upTo(i) \in SUBSET upTo(k)
  OBVIOUS
<1>4. /\ IsFiniteSet(upTo(i)) /\ Cardinality(upTo(i)) <= Cardinality(upTo(k))
      /\ Cardinality(upTo(k)) = Cardinality(upTo(i)) => upTo(k) = upTo(i)
  BY <1>2, <1>3, FS_Subset
<1>5. k \in upTo(k) /\ k \notin upTo(i)
  OBVIOUS
<1>6. Cardinality(upTo(i)) \in Nat /\ Cardinality(upTo(k)) \in Nat
  BY <1>2, <1>4, FS_CardinalityType
<1>7. RankAt(i, points) = Cardinality(upTo(i)) /\ RankAt(k, points) = Cardinality(upTo(k))
  BY DEF RankAt
<1>. HIDE DEF upTo
<1>. QED  BY <1>4, <1>5, <1>6, <1>7

LEMMA RankIsBounded ==
  ASSUME NEW points, NEW i \in Nat, i > 0, points[i].id # NoId
  PROVE  RankAt(i, points) \in 1..i
<1>. DEFINE upTo == {j \in 1..i : points[j].id # NoId}
<1>1. IsFiniteSet(1..i) /\ Cardinality(1..i) = i
  <2>1. 1 \in Int /\ i \in Int /\ (IF 1 > i THEN 0 ELSE i - 1 + 1) = i
    OBVIOUS
  <2>. QED  BY <2>1, FS_Interval
<1>2. upTo \in SUBSET (1..i) /\ i \in upTo
  OBVIOUS
<1>3. IsFiniteSet(upTo) /\ Cardinality(upTo) <= i
  BY <1>1, <1>2, FS_Subset
<1>4. Cardinality(upTo) \in Nat /\ Cardinality(upTo) # 0
  BY <1>2, <1>3, FS_CardinalityType, FS_EmptySet
<1>5. RankAt(i, points) = Cardinality(upTo)
  BY DEF RankAt
<1>. HIDE DEF upTo
<1>. QED  BY <1>3, <1>4, <1>5

\* Ranks go with places.
LEMMA RanksOf ==
  ASSUME NEW points, IsList(points), NEW id \in Ids
  PROVE  /\ Ranks(id, points) = {RankAt(i, points) : i \in Places(id, points)}
         /\ Ranks(id, points) \subseteq 1..MaxPoints
         /\ Ranks(id, points) = {} <=> Places(id, points) = {}
<1>1. Ranks(id, points) = {RankAt(i, points) : i \in Places(id, points)}
  BY DEF Ranks, RankAt
<1>2. ASSUME NEW i \in Places(id, points) PROVE RankAt(i, points) \in 1..MaxPoints
  <2>1. i \in Nat /\ i > 0 /\ i <= MaxPoints /\ points[i].id # NoId
    BY PlacesOf, SearchConstants
  <2>2. RankAt(i, points) \in 1..i
    BY <2>1, RankIsBounded
  <2>. QED  BY <2>1, <2>2, SearchConstants
<1>. QED  BY <1>1, <1>2

-----------------------------------------------------------------------------
\* Scores.

LEMMA WeightOf ==
  ASSUME NEW rank \in 1..MaxPoints
  PROVE  Weight(rank) \in Nat /\ Weight(rank) > 0 /\ Weight(rank) * (RrfK + rank) = Scale
<1>. DEFINE d == RrfK + rank
<1>1. d \in Nat /\ d > 0 /\ Scale \in Nat /\ Scale > 0 /\ Scale % d = 0
  BY SearchAssumption, SearchConstants
<1>. HIDE DEF d
<1>2. Scale = d * (Scale \div d) + (Scale % d) /\ Scale \div d \in Int
  BY <1>1
<1>3. PICK w \in Int : w = Scale \div d
  BY <1>2
<1>4. Scale = d * w
  BY <1>1, <1>2, <1>3
<1>5. w > 0
  BY <1>1, <1>4
<1>6. w * d = Scale
  BY <1>1, <1>4
<1>. QED  BY <1>3, <1>5, <1>6 DEF Weight, d

\* What an id has of one rank.
LEMMA ShareOf ==
  ASSUME NEW rank \in 1..MaxPoints
  PROVE  /\ IsFiniteSet({rank} \X (1..Weight(rank)))
         /\ Cardinality({rank} \X (1..Weight(rank))) = Weight(rank)
<1>1. Weight(rank) \in Nat
  BY WeightOf
<1>2. IsFiniteSet(1..Weight(rank)) /\ Cardinality(1..Weight(rank)) = Weight(rank)
  <2>1. 1 \in Int /\ Weight(rank) \in Int /\ (IF 1 > Weight(rank) THEN 0 ELSE Weight(rank) - 1 + 1) = Weight(rank)
    BY <1>1
  <2>. QED  BY <2>1, FS_Interval
<1>3. IsFiniteSet({rank}) /\ Cardinality({rank}) = 1
  BY FS_Singleton
<1>. DEFINE units == 1..Weight(rank)
<1>4. IsFiniteSet(units)
  BY <1>2
<1>. HIDE DEF units
<1>5. /\ IsFiniteSet({rank} \X units)
      /\ Cardinality({rank} \X units) = Cardinality({rank}) * Cardinality(units)
  BY ONLY <1>3, <1>4, FS_Product
<1>6. /\ IsFiniteSet({rank} \X (1..Weight(rank)))
      /\ Cardinality({rank} \X (1..Weight(rank))) = 1 * Weight(rank)
  BY <1>2, <1>3, <1>5 DEF units
<1>. QED  BY <1>1, <1>6

\* An id has at least the weight of each of its ranks, and no more if it has one.
LEMMA SharesOf ==
  ASSUME NEW points, IsList(points), NEW id \in Ids
  PROVE  /\ Cardinality(Shares(id, points)) \in Nat
         /\ Ranks(id, points) = {} => Cardinality(Shares(id, points)) = 0
         /\ \A rank \in Ranks(id, points) : Weight(rank) <= Cardinality(Shares(id, points))
         /\ \A rank : Ranks(id, points) = {rank} => Cardinality(Shares(id, points)) = Weight(rank)
<1>. DEFINE Share(rank) == {rank} \X (1..Weight(rank))
            ranks == Ranks(id, points)
            shares == {Share(rank) : rank \in ranks}
<1>1. ranks \subseteq 1..MaxPoints
  BY RanksOf
<1>2. Shares(id, points) = UNION shares
  BY DEF Shares
<1>3. ASSUME NEW rank \in ranks
      PROVE  /\ IsFiniteSet(Share(rank)) /\ Cardinality(Share(rank)) = Weight(rank)
             /\ Weight(rank) \in Nat /\ Weight(rank) <= Scale
  <2>1. Weight(rank) \in Nat /\ Weight(rank) * (RrfK + rank) = Scale /\ rank \in Nat /\ rank >= 1
    BY <1>1, WeightOf
  <2>2. PICK d \in Nat : d = RrfK + rank
    BY <2>1, SearchConstants
  <2>3. d >= 1
    BY <2>1, <2>2, SearchConstants
  <2>4. ASSUME NEW w \in Nat, w * d = Scale PROVE w <= Scale
    BY <2>3, <2>4
  <2>. QED  BY <1>1, <2>1, <2>2, <2>4, ShareOf
<1>4. IsFiniteSet(UNION shares)
  <2>1. IsFiniteSet(1..MaxPoints) /\ IsFiniteSet(1..Scale)
    BY SearchConstants, FS_Interval
  <2>2. IsFiniteSet((1..MaxPoints) \X (1..Scale))
    BY <2>1, FS_Product
  <2>3. ASSUME NEW rank \in ranks PROVE Share(rank) \subseteq (1..MaxPoints) \X (1..Scale)
    <3>1. {rank} \subseteq 1..MaxPoints
      BY <1>1
    <3>2. \A w \in Nat : w <= Scale => 1..w \subseteq 1..Scale
      BY SearchConstants
    <3>3. 1..Weight(rank) \subseteq 1..Scale
      BY <1>3, <3>2
    <3>. QED  BY ONLY <3>1, <3>3
  <2>4. UNION shares \in SUBSET ((1..MaxPoints) \X (1..Scale))
    BY <2>3
  <2>. QED  BY <2>2, <2>4, FS_Subset
<1>5. ASSUME ranks = {} PROVE Cardinality(UNION shares) = 0
  <2>1. UNION shares = {}
    BY <1>5
  <2>. QED  BY <2>1, FS_EmptySet
<1>6. ASSUME NEW rank \in ranks PROVE Weight(rank) <= Cardinality(UNION shares)
  <2>1. Share(rank) \in SUBSET (UNION shares)
    OBVIOUS
  <2>. HIDE DEF shares, Share
  <2>2. Cardinality(Share(rank)) <= Cardinality(UNION shares)
    BY <1>4, <2>1, FS_Subset
  <2>. QED  BY <1>3, <2>2
<1>7. ASSUME NEW rank, ranks = {rank} PROVE Cardinality(UNION shares) = Weight(rank)
  <2>1. UNION shares = Share(rank) /\ rank \in ranks
    BY <1>7
  <2>. QED  BY <1>3, <2>1
<1>8. Cardinality(UNION shares) \in Nat
  BY <1>4, FS_CardinalityType
<1>. HIDE DEF shares
<1>. QED  BY <1>2, <1>5, <1>6, <1>7, <1>8

LEMMA ScoreOf ==
  ASSUME IsList(dense), IsList(sparse), NEW id \in Ids
  PROVE  Score(id) \in Nat
BY SharesOf DEF Score

-----------------------------------------------------------------------------
\* What was found.

LEMMA ConcatenationOf ==
  ASSUME NEW S, NEW s \in Seq(S), NEW t \in Seq(S)
  PROVE  /\ s \o t \in Seq(S) /\ Len(s \o t) = Len(s) + Len(t)
         /\ DOMAIN (s \o t) = 1..(Len(s) + Len(t))
         /\ \A i \in 1..Len(s) : (s \o t)[i] = s[i]
         /\ \A i \in 1..Len(t) : (s \o t)[Len(s) + i] = t[i]
<1>1. s \o t \in Seq(S) /\ Len(s \o t) = Len(s) + Len(t)
  OBVIOUS
<1>2. DOMAIN (s \o t) = 1..(Len(s) + Len(t))
  OBVIOUS
<1>3. \A i \in 1..Len(s) : (s \o t)[i] = s[i]
  OBVIOUS
<1>4. \A i \in 1..Len(t) : (s \o t)[Len(s) + i] = t[i]
  OBVIOUS
<1>. QED  BY ONLY <1>1, <1>2, <1>3, <1>4

LEMMA FoundOf ==
  ASSUME IsList(dense), IsList(sparse)
  PROVE  /\ Found \in Seq(Points) /\ Len(Found) = Len(dense) + Len(sparse)
         /\ DOMAIN Found = 1..(Len(dense) + Len(sparse))
         /\ Len(dense) \in Nat /\ Len(sparse) \in Nat
         /\ DOMAIN dense = 1..Len(dense) /\ DOMAIN sparse = 1..Len(sparse)
         /\ \A i \in 1..Len(dense) : Found[i] = dense[i]
         /\ \A i \in 1..Len(sparse) : Found[Len(dense) + i] = sparse[i]
         /\ \A i \in 1..Len(sparse) : Len(dense) + i \in 1..(Len(dense) + Len(sparse))
         /\ \A i \in 1..(Len(dense) + Len(sparse)) :
              i \in 1..Len(dense) \/ \E j \in 1..Len(sparse) : i = Len(dense) + j
<1>1. dense \in Seq(Points) /\ sparse \in Seq(Points)
  BY DEF IsList
<1>2. /\ Len(dense) \in Nat /\ Len(sparse) \in Nat
      /\ DOMAIN dense = 1..Len(dense) /\ DOMAIN sparse = 1..Len(sparse)
  BY ONLY <1>1
<1>3. /\ Found \in Seq(Points) /\ Len(Found) = Len(dense) + Len(sparse)
      /\ DOMAIN Found = 1..(Len(dense) + Len(sparse))
      /\ \A i \in 1..Len(dense) : Found[i] = dense[i]
      /\ \A i \in 1..Len(sparse) : Found[Len(dense) + i] = sparse[i]
  <2>1. Found = dense \o sparse
    BY DEF Found
  <2>. QED  BY ONLY <1>1, <2>1, ConcatenationOf
<1>4. \A i \in 1..Len(sparse) : Len(dense) + i \in 1..(Len(dense) + Len(sparse))
  BY ONLY <1>2
<1>5. ASSUME NEW i \in 1..(Len(dense) + Len(sparse)), i \notin 1..Len(dense)
      PROVE  i - Len(dense) \in 1..Len(sparse) /\ i = Len(dense) + (i - Len(dense))
  BY ONLY <1>2, <1>5
<1>6. \A i \in 1..(Len(dense) + Len(sparse)) :
        i \in 1..Len(dense) \/ \E j \in 1..Len(sparse) : i = Len(dense) + j
  BY <1>5
<1>. QED  BY ONLY <1>2, <1>3, <1>4, <1>6

\* Where an id was found.
LEMMA FoundAt ==
  ASSUME IsList(dense), IsList(sparse), NEW id
  PROVE  Places(id, Found) =
           Places(id, dense) \cup {Len(dense) + i : i \in Places(id, sparse)}
<1>1. ASSUME NEW i \in Places(id, Found)
      PROVE  i \in Places(id, dense) \cup {Len(dense) + j : j \in Places(id, sparse)}
  <2>1. i \in 1..(Len(dense) + Len(sparse)) /\ Found[i].id = id
    BY FoundOf DEF Places
  <2>2. CASE i \in 1..Len(dense)
    BY <2>1, <2>2, FoundOf DEF Places
  <2>3. ASSUME NEW j \in 1..Len(sparse), i = Len(dense) + j
        PROVE  j \in Places(id, sparse)
    BY <2>1, <2>3, FoundOf DEF Places
  <2>. QED  BY <2>1, <2>2, <2>3, FoundOf
<1>2. ASSUME NEW i \in Places(id, dense) PROVE i \in Places(id, Found)
  BY FoundOf DEF Places
<1>3. ASSUME NEW i \in Places(id, sparse) PROVE Len(dense) + i \in Places(id, Found)
  BY FoundOf DEF Places
<1>. QED  BY <1>1, <1>2, <1>3

\* The ids that were found are those that a query found, finitely many.
LEMMA FoundIdsOf ==
  ASSUME IsList(dense), IsList(sparse)
  PROVE  /\ FoundIds \subseteq Ids
         /\ IsFiniteSet(FoundIds)
         /\ Cardinality(FoundIds) \in Nat
         /\ \A id \in Ids : id \in FoundIds <=> Places(id, Found) # {}
         /\ \A id \in FoundIds : InDense(id) \/ InSparse(id)
<1>1. ASSUME NEW i \in DOMAIN Found PROVE Found[i].id \in Ids \cup {NoId}
  BY FoundOf, PointOf
<1>2. FoundIds \subseteq Ids
  BY <1>1 DEF FoundIds
<1>3. \A id \in Ids : id \in FoundIds <=> Places(id, Found) # {}
  BY SearchConstants DEF FoundIds, Places
<1>4. IsFiniteSet(FoundIds)
  <2>. DEFINE n == Len(dense) + Len(sparse)
              ids == {Found[i].id : i \in 1..n}
              f == [i \in 1..n |-> Found[i].id]
  <2>1. n \in Nat /\ DOMAIN Found = 1..n
    BY FoundOf
  <2>2. IsFiniteSet(1..n)
    BY <2>1, FS_Interval
  <2>3. f \in Surjection(1..n, ids)
    BY DEF Surjection
  <2>4. IsFiniteSet(ids)
    BY ONLY <2>2, <2>3, FS_Surjection
  <2>5. FoundIds \in SUBSET ids
    BY <2>1 DEF FoundIds
  <2>. HIDE DEF ids
  <2>. QED  BY ONLY <2>4, <2>5, FS_Subset
<1>5. ASSUME NEW id \in FoundIds PROVE InDense(id) \/ InSparse(id)
  BY <1>2, <1>3, FoundAt DEF InDense, InSparse
<1>6. Cardinality(FoundIds) \in Nat
  BY <1>4, FS_CardinalityType
<1>. QED  BY <1>2, <1>3, <1>4, <1>5, <1>6

\* An id was first seen where the dense query found it first, or else the sparse one.
LEMMA FirstSeenOf ==
  ASSUME IsList(dense), IsList(sparse), NEW id \in FoundIds
  PROVE  /\ FirstSeen(id) \in DOMAIN Found /\ FirstSeen(id) \in Nat
         /\ Found[FirstSeen(id)].id = id
         /\ InDense(id) => FirstSeen(id) = Min(Places(id, dense)) /\ FirstSeen(id) <= Len(dense)
         /\ ~InDense(id) => FirstSeen(id) = Len(dense) + Min(Places(id, sparse))
                            /\ FirstSeen(id) > Len(dense)
<1>. DEFINE first == FirstSeen(id)
<1>1. id \in Ids /\ Places(id, Found) # {}
  BY FoundIdsOf
<1>2. Places(id, Found) \subseteq DOMAIN Found /\ Places(id, Found) \in SUBSET Nat
  BY FoundOf DEF Places
<1>3. first \in Places(id, Found) /\ \A i \in Places(id, Found) : first <= i
  BY <1>1, <1>2, MinOf DEF FirstSeen
<1>4. first \in DOMAIN Found /\ first \in Nat /\ Found[first].id = id
  BY <1>2, <1>3 DEF Places
<1>5. Len(dense) \in Nat
  BY FoundOf
<1>6. ASSUME InDense(id) PROVE first = Min(Places(id, dense)) /\ first <= Len(dense)
  <2>1. Places(id, dense) # {} /\ Places(id, dense) \in SUBSET Nat /\ Places(id, dense) \subseteq 1..Len(dense)
    BY <1>6, PlacesOf DEF InDense
  <2>2. PICK m \in Nat : m = Min(Places(id, dense)) /\ m \in Places(id, dense)
                         /\ \A i \in Places(id, dense) : m <= i
    BY <2>1, MinOf
  <2>3. first <= m /\ m <= Len(dense)
    BY <1>3, <2>1, <2>2, FoundAt
  <2>4. first \in Places(id, dense)
    <3>1. \A i \in Places(id, sparse) : i \in Nat /\ i >= 1
      BY PlacesOf
    <3>. QED  BY <1>3, <1>4, <1>5, <2>3, <3>1, FoundAt
  <2>. QED  BY <1>4, <2>2, <2>3, <2>4
<1>7. ASSUME ~InDense(id) PROVE first = Len(dense) + Min(Places(id, sparse)) /\ first > Len(dense)
  <2>1. Places(id, Found) = {Len(dense) + i : i \in Places(id, sparse)}
    BY <1>7, FoundAt DEF InDense
  <2>2. Places(id, sparse) # {} /\ Places(id, sparse) \in SUBSET Nat /\ Places(id, sparse) \subseteq 1..Len(sparse)
    BY <1>1, <2>1, PlacesOf
  <2>3. PICK m \in Nat : m = Min(Places(id, sparse)) /\ m \in Places(id, sparse)
                         /\ \A i \in Places(id, sparse) : m <= i
    BY <2>2, MinOf
  <2>4. PICK k \in Places(id, sparse) : first = Len(dense) + k
    BY <1>3, <2>1
  <2>5. Len(dense) + m \in Places(id, Found)
    BY <2>1, <2>3
  <2>6. k \in Nat /\ m <= k /\ first <= Len(dense) + m /\ k >= 1
    BY <1>3, <2>2, <2>3, <2>4, <2>5, FoundOf
  <2>. QED  BY <1>5, <2>3, <2>4, <2>6
<1>. QED  BY <1>4, <1>6, <1>7

-----------------------------------------------------------------------------
\* The order of the ids.

\* Before is a strict total order of what was found: no two ids were first seen in one
\* place.
LEMMA BeforeOrders ==
  ASSUME IsList(dense), IsList(sparse), NEW a \in FoundIds, NEW b \in FoundIds
  PROVE  /\ ~Before(a, a)
         /\ Before(a, b) => ~Before(b, a)
         /\ a = b \/ Before(a, b) \/ Before(b, a)
         /\ \A c \in FoundIds : Before(a, b) /\ Before(b, c) => Before(a, c)
<1>1. \A x \in FoundIds : Score(x) \in Nat /\ FirstSeen(x) \in Nat
  BY FoundIdsOf, ScoreOf, FirstSeenOf
<1>2. FirstSeen(a) = FirstSeen(b) => a = b
  BY FirstSeenOf
<1>. QED  BY <1>1, <1>2 DEF Before

\* The place of an id in the order: there are Position(id, FoundIds) before it.
LEMMA PositionOf ==
  ASSUME IsList(dense), IsList(sparse), NEW id \in FoundIds
  PROVE  /\ Position(id, FoundIds) \in 0..(Cardinality(FoundIds) - 1)
         /\ Position(id, FoundIds) \in Nat
         /\ \A x \in FoundIds : Before(x, id) => Position(x, FoundIds) < Position(id, FoundIds)
<1>. DEFINE ahead(x) == {y \in FoundIds : Before(y, x)}
<1>1. IsFiniteSet(FoundIds) /\ Cardinality(FoundIds) \in Nat
  BY FoundIdsOf
<1>2. ASSUME NEW x \in FoundIds
      PROVE  /\ ahead(x) \in SUBSET FoundIds /\ IsFiniteSet(ahead(x)) /\ Cardinality(ahead(x)) \in Nat
             /\ Position(x, FoundIds) = Cardinality(ahead(x))
  <2>1. ahead(x) \in SUBSET FoundIds /\ Position(x, FoundIds) = Cardinality(ahead(x))
    BY DEF Position
  <2>. HIDE DEF ahead
  <2>. QED  BY <1>1, <2>1, FS_Subset, FS_CardinalityType
<1>3. Position(id, FoundIds) <= Cardinality(FoundIds) - 1
  <2>1. id \notin ahead(id)
    BY BeforeOrders
  <2>. HIDE DEF ahead
  <2>2. Cardinality(ahead(id)) <= Cardinality(FoundIds) /\ Cardinality(FoundIds) # Cardinality(ahead(id))
    BY <1>1, <1>2, <2>1, FS_Subset
  <2>. QED  BY <1>1, <1>2, <2>2
<1>4. ASSUME NEW x \in FoundIds, Before(x, id)
      PROVE  Position(x, FoundIds) < Position(id, FoundIds)
  <2>1. x \in ahead(id) /\ x \notin ahead(x)
    BY <1>4, BeforeOrders
  <2>2. ahead(x) \in SUBSET ahead(id)
    BY <1>4, BeforeOrders
  <2>. HIDE DEF ahead
  <2>3. Cardinality(ahead(x)) <= Cardinality(ahead(id)) /\ Cardinality(ahead(id)) # Cardinality(ahead(x))
    BY <1>2, <2>1, <2>2, FS_Subset
  <2>. QED  BY <1>2, <2>3
<1>5. Position(id, FoundIds) \in Nat
  BY <1>2
<1>. QED  BY <1>1, <1>3, <1>4, <1>5

\* The order of the places is that of the ids, and each place is taken once.
LEMMA PositionsDiffer ==
  ASSUME IsList(dense), IsList(sparse), NEW a \in FoundIds, NEW b \in FoundIds
  PROVE  /\ Position(a, FoundIds) = Position(b, FoundIds) => a = b
         /\ Before(a, b) <=> Position(a, FoundIds) < Position(b, FoundIds)
<1>1. /\ Position(a, FoundIds) \in Nat /\ Position(b, FoundIds) \in Nat
      /\ Before(a, b) => Position(a, FoundIds) < Position(b, FoundIds)
      /\ Before(b, a) => Position(b, FoundIds) < Position(a, FoundIds)
  BY PositionOf
<1>. QED  BY <1>1, BeforeOrders

LEMMA PositionsAreTaken ==
  ASSUME IsList(dense), IsList(sparse), NEW i \in 1..Cardinality(FoundIds)
  PROVE  \E id \in FoundIds : Position(id, FoundIds) = i - 1
<1>. DEFINE n == Cardinality(FoundIds)
            place == [id \in FoundIds |-> Position(id, FoundIds) + 1]
<1>1. n \in Nat /\ IsFiniteSet(FoundIds)
  BY FoundIdsOf
<1>2. \A id \in FoundIds : Position(id, FoundIds) \in 0..(n - 1) /\ Position(id, FoundIds) \in Nat
  BY PositionOf
<1>3. \A a, b \in FoundIds : Position(a, FoundIds) = Position(b, FoundIds) => a = b
  BY PositionsDiffer
<1>. HIDE DEF n
<1>4. place \in [FoundIds -> 1..n]
  BY <1>1, <1>2
<1>5. place \in Injection(FoundIds, 1..n)
  BY <1>2, <1>3, <1>4 DEF Injection, IsInjective
<1>6. IsFiniteSet(1..n) /\ Cardinality(1..n) = n
  <2>1. 1 \in Int /\ n \in Int /\ (IF 1 > n THEN 0 ELSE n - 1 + 1) = n
    BY <1>1
  <2>. QED  BY <2>1, FS_Interval
<1>. HIDE DEF place
<1>7. place \in Surjection(FoundIds, 1..n)
  BY <1>5, <1>6, FS_Injection DEF n
<1>8. PICK id \in FoundIds : place[id] = i
  BY <1>7 DEF Surjection, n
<1>. QED  BY <1>2, <1>8 DEF place

\* Every id that was found is ranked once, in its place.
LEMMA RankingOf ==
  ASSUME IsList(dense), IsList(sparse)
  PROVE  /\ Ranking \in Seq(FoundIds)
         /\ Len(Ranking) = Cardinality(FoundIds) /\ DOMAIN Ranking = 1..Cardinality(FoundIds)
         /\ \A i \in 1..Cardinality(FoundIds) :
              Ranking[i] \in FoundIds /\ Position(Ranking[i], FoundIds) = i - 1
         /\ \A id \in FoundIds :
              /\ Position(id, FoundIds) + 1 \in 1..Cardinality(FoundIds)
              /\ Ranking[Position(id, FoundIds) + 1] = id
<1>. DEFINE n == Cardinality(FoundIds)
<1>1. n \in Nat
  BY FoundIdsOf
<1>2. Ranking = [i \in 1..n |-> CHOOSE id \in FoundIds : Position(id, FoundIds) = i - 1]
  BY DEF Ranking, Ranked
<1>3. \A i \in 1..n : Ranking[i] \in FoundIds /\ Position(Ranking[i], FoundIds) = i - 1
  BY <1>2, PositionsAreTaken
<1>4. \A id \in FoundIds : Position(id, FoundIds) \in 0..(n - 1) /\ Position(id, FoundIds) \in Nat
  BY PositionOf
<1>5. \A a, b \in FoundIds : Position(a, FoundIds) = Position(b, FoundIds) => a = b
  BY PositionsDiffer
<1>. HIDE DEF n
<1>6. Ranking \in Seq(FoundIds) /\ Len(Ranking) = n /\ DOMAIN Ranking = 1..n
  <2>1. Ranking \in [1..n -> FoundIds]
    BY <1>2, <1>3
  <2>. QED  BY ONLY <1>1, <2>1
<1>7. \A id \in FoundIds : Position(id, FoundIds) + 1 \in 1..n /\ Ranking[Position(id, FoundIds) + 1] = id
  <2>1. ASSUME NEW id \in FoundIds
        PROVE  Position(id, FoundIds) + 1 \in 1..n /\ Ranking[Position(id, FoundIds) + 1] = id
    <3>1. Position(id, FoundIds) + 1 \in 1..n /\ (Position(id, FoundIds) + 1) - 1 = Position(id, FoundIds)
      BY <1>1, <1>4
    <3>. QED  BY <1>3, <1>5, <3>1
  <2>. QED  BY <2>1
<1>. QED  BY <1>3, <1>6, <1>7 DEF n

-----------------------------------------------------------------------------
\* The page.

\* An item of the page is the point at which its id was first seen.
LEMMA PageOfFound ==
  ASSUME IsList(dense), IsList(sparse), TopK \in 1..MaxTopK
  PROVE  /\ Page \in Seq(Item)
         /\ Len(Page) = Min({TopK, Cardinality(FoundIds)})
         /\ DOMAIN Page = 1..Min({TopK, Cardinality(FoundIds)})
         /\ \A i \in DOMAIN Page :
              /\ i \in Nat /\ i >= 1 /\ i <= TopK /\ i <= Cardinality(FoundIds)
              /\ Ranking[i] \in FoundIds /\ Position(Ranking[i], FoundIds) = i - 1
              /\ Page[i] = [id |-> Ranking[i], payload |-> PayloadOf(Ranking[i])]
              /\ Page[i] = Found[FirstSeen(Ranking[i])]
<1>. DEFINE n == Cardinality(FoundIds)
            m == Min({TopK, n})
<1>1. n \in Nat /\ TopK \in Nat /\ Len(Ranking) = n
  BY FoundIdsOf, RankingOf, SearchConstants
<1>2. m \in Nat /\ m <= TopK /\ m <= n
  BY <1>1, MinOfTwo
<1>3. Page = [i \in 1..m |-> [id |-> Ranking[i], payload |-> PayloadOf(Ranking[i])]]
  BY <1>1 DEF Page, PageOf
<1>4. ASSUME NEW i \in 1..m
      PROVE  /\ i \in Nat /\ i >= 1 /\ i <= TopK /\ i <= n
             /\ Ranking[i] \in FoundIds /\ Position(Ranking[i], FoundIds) = i - 1
             /\ Page[i] = [id |-> Ranking[i], payload |-> PayloadOf(Ranking[i])]
             /\ Page[i] = Found[FirstSeen(Ranking[i])]
             /\ Page[i] \in Item
  <2>1. i \in Nat /\ i >= 1 /\ i <= TopK /\ i <= n
    BY <1>1, <1>2
  <2>2. Ranking[i] \in FoundIds /\ Position(Ranking[i], FoundIds) = i - 1
    BY <1>1, <2>1, RankingOf
  <2>3. Page[i] = [id |-> Ranking[i], payload |-> PayloadOf(Ranking[i])]
    BY <1>3
  <2>4. /\ FirstSeen(Ranking[i]) \in DOMAIN Found
        /\ Found[FirstSeen(Ranking[i])] \in Points /\ Found[FirstSeen(Ranking[i])].id = Ranking[i]
        /\ Ranking[i] # NoId
    BY <2>2, FirstSeenOf, FoundOf, FoundIdsOf, SearchConstants
  <2>5. Found[FirstSeen(Ranking[i])] \in Item
        /\ Found[FirstSeen(Ranking[i])] = [id |-> Ranking[i], payload |-> PayloadOf(Ranking[i])]
    BY <2>4, PointOf DEF PayloadOf
  <2>. QED  BY <2>1, <2>2, <2>3, <2>5
<1>. HIDE DEF n, m
<1>5. Page \in Seq(Item) /\ Len(Page) = m /\ DOMAIN Page = 1..m
  <2>1. DOMAIN Page = 1..m /\ \A i \in 1..m : Page[i] \in Item
    BY <1>3, <1>4
  <2>2. Page \in [1..m -> Item]
    BY <1>3, <2>1
  <2>. QED  BY ONLY <1>2, <2>2
<1>. QED  BY <1>4, <1>5 DEF n, m

\* The page has the ids that fewer than TopK come before, in their order.
LEMMA PageShows ==
  ASSUME IsList(dense), IsList(sparse), TopK \in 1..MaxTopK, NEW id \in FoundIds
  PROVE  /\ \A i \in DOMAIN Page : Page[i].id = id <=> i = Position(id, FoundIds) + 1
         /\ Position(id, FoundIds) < TopK <=> Position(id, FoundIds) + 1 \in DOMAIN Page
<1>. DEFINE place == Position(id, FoundIds)
<1>1. /\ place \in Nat /\ place < Cardinality(FoundIds) /\ Cardinality(FoundIds) \in Nat /\ TopK \in Nat
      /\ Ranking[place + 1] = id
  BY PositionOf, FoundIdsOf, RankingOf, SearchConstants
<1>2. DOMAIN Page = 1..Min({TopK, Cardinality(FoundIds)})
  BY PageOfFound
<1>3. place < TopK <=> place + 1 \in DOMAIN Page
  BY <1>1, <1>2, MinOfTwo
<1>4. ASSUME NEW i \in DOMAIN Page PROVE Page[i].id = id <=> i = place + 1
  <2>1. i \in Nat /\ Position(Ranking[i], FoundIds) = i - 1 /\ Page[i].id = Ranking[i]
    <3>1. /\ i \in Nat /\ Position(Ranking[i], FoundIds) = i - 1
          /\ Page[i] = [id |-> Ranking[i], payload |-> PayloadOf(Ranking[i])]
      BY PageOfFound
    <3>2. Page[i].id = Ranking[i]
      BY ONLY <3>1
    <3>. QED  BY ONLY <3>1, <3>2
  <2>2. ASSUME Page[i].id = id PROVE i = place + 1
    <3>1. place = i - 1
      BY <2>1, <2>2
    <3>. QED  BY <1>1, <2>1, <3>1
  <2>3. ASSUME i = place + 1 PROVE Page[i].id = id
    BY <1>1, <2>1, <2>3
  <2>. QED  BY <2>2, <2>3
<1>. QED  BY <1>3, <1>4

\* What comes before an item of the page is on the page, before it.
LEMMA PageKeepsOrder ==
  ASSUME IsList(dense), IsList(sparse), TopK \in 1..MaxTopK,
         result.items = Page, NEW x \in FoundIds, NEW y \in FoundIds, Before(x, y), OnPage(y)
  PROVE  Precedes(x, y)
<1>1. PICK k \in DOMAIN Page : Page[k].id = y
  BY DEF OnPage
<1>2. /\ k = Position(y, FoundIds) + 1 /\ Position(y, FoundIds) < TopK
      /\ Position(x, FoundIds) < Position(y, FoundIds)
      /\ Position(x, FoundIds) \in Nat /\ Position(y, FoundIds) \in Nat /\ TopK \in Nat
  BY <1>1, PageShows, PositionOf, SearchConstants
<1>. DEFINE i == Position(x, FoundIds) + 1
<1>3. i \in DOMAIN Page /\ Page[i].id = x
  BY <1>2, PageShows
<1>4. ASSUME NEW j \in 1..i PROVE Page[j].id # y
  <2>1. j \in DOMAIN Page /\ j < k
    BY <1>2, <1>3, PageOfFound, FoundIdsOf, MinOfTwo
  <2>. QED  BY <1>2, <2>1, PageShows
<1>. HIDE DEF i
<1>. QED  BY <1>3, <1>4 DEF Precedes

-----------------------------------------------------------------------------
\* What the scores say of the order.

\* Two places among the first RrfK + 1 weigh more than any one place.
LEMMA TwoOutweighOne ==
  ASSUME NEW p \in 1..MaxPoints, NEW q \in 1..MaxPoints, NEW r \in 1..MaxPoints,
         p <= RrfK + 1, q <= RrfK + 1
  PROVE  Weight(p) + Weight(q) > Weight(r)
<1>1. /\ Weight(p) \in Nat /\ Weight(p) * (RrfK + p) = Scale
      /\ Weight(q) \in Nat /\ Weight(q) * (RrfK + q) = Scale
      /\ Weight(r) \in Nat /\ Weight(r) * (RrfK + r) = Scale
      /\ RrfK \in Nat /\ RrfK > 0 /\ Scale \in Nat /\ Scale > 0
      /\ p \in Nat /\ q \in Nat /\ r \in Nat /\ r >= 1
  BY WeightOf, SearchConstants
\* A place among the first weighs more than half of the first place.
<1>2. ASSUME NEW w \in Nat, NEW i \in Nat, i <= RrfK + 1, w * (RrfK + i) = Scale,
             NEW v \in Nat, v * (RrfK + r) = Scale
      PROVE  v < 2 * w
  <2>1. w * (RrfK + i) <= w * (2 * RrfK + 1)
    <3>1. PICK a \in Nat : a = (2 * RrfK + 1) - (RrfK + i)
      BY <1>1, <1>2
    <3>2. PICK b \in Nat : b = RrfK + i
      BY <1>1, <1>2
    <3>3. 2 * RrfK + 1 = a + b
      BY <1>1, <1>2, <3>1, <3>2
    <3>4. w * (a + b) = w * a + w * b /\ w * a >= 0
      BY ONLY <1>2, <3>1, <3>2
    <3>. QED  BY <1>2, <3>2, <3>3, <3>4
  <2>2. v * (RrfK + 1) <= Scale
    <3>1. PICK a \in Nat : a = (RrfK + r) - (RrfK + 1)
      BY <1>1
    <3>2. PICK b \in Nat : b = RrfK + 1
      BY <1>1
    <3>3. RrfK + r = a + b
      BY <1>1, <3>1, <3>2
    <3>4. v * (a + b) = v * a + v * b /\ v * a >= 0
      BY ONLY <1>2, <3>1, <3>2
    <3>. QED  BY <1>2, <3>2, <3>3, <3>4
  <2>3. w > 0
    BY <1>1, <1>2
  <2>4. ASSUME v >= 2 * w PROVE FALSE
    <3>1. PICK c \in Nat : v = 2 * w + c
      <4>1. v - 2 * w \in Nat /\ v = 2 * w + (v - 2 * w)
        BY <1>2, <2>4
      <4>. QED  BY <4>1
    <3>2. PICK b \in Nat : b = RrfK + 1
      BY <1>1
    <3>3. v * b = w * b + w * b + c * b /\ c * b >= 0
      BY ONLY <3>1, <1>2
    <3>4. RrfK + RrfK + 1 + 1 = b + b /\ 2 * RrfK + 1 = b + (b - 1)
      BY <1>1, <3>2
    <3>5. w * (b + (b - 1)) = w * b + w * b - w
      BY ONLY <1>2, <3>2
    <3>6. v * b <= w * (b + (b - 1))
      BY <1>1, <1>2, <2>1, <2>2, <3>2, <3>4
    <3>7. PICK d \in Int, e \in Int : d = c * b /\ e = w * b
      BY ONLY <1>2, <3>1, <3>2
    <3>. QED  BY <1>2, <2>3, <3>3, <3>5, <3>6, <3>7
  <2>. QED  BY <1>2, <2>4
<1>3. Weight(r) < 2 * Weight(p) /\ Weight(r) < 2 * Weight(q)
  BY <1>1, <1>2
<1>. QED  BY <1>1, <1>3

\* A better place weighs more.
LEMMA BetterWeighsMore ==
  ASSUME NEW p \in 1..MaxPoints, NEW q \in 1..MaxPoints, p < q
  PROVE  Weight(p) > Weight(q)
<1>1. PICK v \in Nat : v = Weight(p) /\ v > 0 /\ v * (RrfK + p) = Scale
  BY WeightOf
<1>2. PICK w \in Nat : w = Weight(q) /\ w > 0 /\ w * (RrfK + q) = Scale
  BY WeightOf
<1>3. PICK a \in Nat : a = RrfK + p
  BY SearchConstants
<1>4. PICK b \in Nat : b = q - p /\ b > 0
  BY SearchConstants
<1>5. RrfK + q = a + b
  BY <1>3, <1>4, SearchConstants
<1>6. v * a = w * (a + b)
  BY <1>1, <1>2, <1>3, <1>5
<1>7. ASSUME v <= w PROVE FALSE
  <2>1. PICK c \in Nat : w = v + c
    BY <1>7
  <2>2. w * (a + b) = v * a + c * a + w * b
    BY ONLY <1>1, <1>2, <1>3, <1>4, <2>1
  <2>3. c * a >= 0 /\ w * b > 0
    BY ONLY <1>2, <1>3, <1>4, <2>1
  <2>4. PICK d \in Int, e \in Int, f \in Int : d = c * a /\ e = w * b /\ f = v * a
    BY ONLY <1>1, <1>2, <1>3, <1>4, <2>1
  <2>. QED  BY <1>6, <2>2, <2>3, <2>4
<1>. QED  BY <1>1, <1>2, <1>7

\* An id that was found once, by one query, has the weight of that place.
LEMMA FoundOnce ==
  ASSUME IsList(dense), IsList(sparse), NEW id \in FoundIds,
         Cardinality(Places(id, Found)) = 1, ~(InDense(id) /\ InSparse(id))
  PROVE  \E rank \in 1..MaxPoints :
           /\ Score(id) = Weight(rank)
           /\ InDense(id) => Ranks(id, dense) = {rank}
           /\ InSparse(id) => Ranks(id, sparse) = {rank}
<1>1. id \in Ids /\ Places(id, Found) # {} /\ (InDense(id) \/ InSparse(id))
  BY FoundIdsOf
<1>2. IsFiniteSet(Places(id, Found))
  <2>1. IsFiniteSet(1..(Len(dense) + Len(sparse)))
    BY FoundOf, FS_Interval
  <2>2. Places(id, Found) \in SUBSET (1..(Len(dense) + Len(sparse)))
    BY FoundOf DEF Places
  <2>. QED  BY <2>1, <2>2, FS_Subset
<1>3. PICK k : Places(id, Found) = {k}
  BY <1>2, FS_Singleton
<1>4. CASE InDense(id)
  <2>1. Places(id, sparse) = {} /\ Places(id, dense) = {k}
    BY <1>3, <1>4, FoundAt DEF InDense, InSparse
  <2>2. Ranks(id, dense) = {RankAt(k, dense)} /\ RankAt(k, dense) \in 1..MaxPoints
    BY <1>1, <2>1, RanksOf
  <2>3. Ranks(id, sparse) = {}
    BY <1>1, <2>1, RanksOf
  <2>4. Score(id) = Weight(RankAt(k, dense)) + 0 /\ Weight(RankAt(k, dense)) \in Nat
    BY <1>1, <2>2, <2>3, SharesOf, WeightOf DEF Score
  <2>. QED  BY <1>4, <2>2, <2>4
<1>5. CASE InSparse(id)
  <2>1. Places(id, dense) = {}
    BY <1>5 DEF InDense, InSparse
  <2>2. PICK i : Places(id, sparse) = {i}
    <3>1. PICK i \in Places(id, sparse) : TRUE
      BY <1>5 DEF InSparse
    <3>2. ASSUME NEW j \in Places(id, sparse) PROVE j = i
      <4>1. Len(dense) + i = k /\ Len(dense) + j = k
        BY <1>3, <3>1, <3>2, FoundAt
      <4>2. i \in Nat /\ j \in Nat /\ Len(dense) \in Nat
        BY <3>1, <3>2, PlacesOf
      <4>. QED  BY <4>1, <4>2
    <3>. QED  BY <3>1, <3>2
  <2>3. Ranks(id, sparse) = {RankAt(i, sparse)} /\ RankAt(i, sparse) \in 1..MaxPoints
    BY <1>1, <2>2, RanksOf
  <2>4. Ranks(id, dense) = {}
    BY <1>1, <2>1, RanksOf
  <2>5. Score(id) = 0 + Weight(RankAt(i, sparse)) /\ Weight(RankAt(i, sparse)) \in Nat
    BY <1>1, <2>3, <2>4, SharesOf, WeightOf DEF Score
  <2>. QED  BY <1>5, <2>1, <2>3, <2>5 DEF InDense
<1>. QED  BY <1>1, <1>4, <1>5

\* What both queries found among their first has the higher score.
LEMMA AgreedComesFirst ==
  ASSUME IsList(dense), IsList(sparse), NEW x \in FoundIds, NEW y \in FoundIds, Agreed(x),
         ~(InDense(y) /\ InSparse(y)), Cardinality(Places(y, Found)) = 1
  PROVE  Before(x, y)
<1>1. PICK r \in 1..MaxPoints : Score(y) = Weight(r)
  BY FoundOnce
<1>2. PICK p \in Ranks(x, dense) : p <= RrfK + 1
  BY DEF Agreed
<1>3. PICK q \in Ranks(x, sparse) : q <= RrfK + 1
  BY DEF Agreed
<1>4. x \in Ids
  BY FoundIdsOf
<1>5. p \in 1..MaxPoints /\ q \in 1..MaxPoints
  BY <1>2, <1>3, <1>4, RanksOf
<1>6. Weight(p) + Weight(q) > Weight(r)
  BY <1>2, <1>3, <1>5, TwoOutweighOne
<1>7. /\ Weight(p) <= Cardinality(Shares(x, dense)) /\ Cardinality(Shares(x, dense)) \in Nat
      /\ Weight(q) <= Cardinality(Shares(x, sparse)) /\ Cardinality(Shares(x, sparse)) \in Nat
  BY <1>2, <1>3, <1>4, SharesOf
<1>8. Weight(p) \in Nat /\ Weight(q) \in Nat /\ Weight(r) \in Nat
  BY <1>5, WeightOf
<1>. QED  BY <1>1, <1>6, <1>7, <1>8 DEF Before, Score

\* Of two that one query each found once, the better placed comes first.
LEMMA BetterComesFirst ==
  ASSUME IsList(dense), IsList(sparse), NEW x \in FoundIds, NEW y \in FoundIds,
         InDense(x), ~InSparse(x), InSparse(y), ~InDense(y),
         Cardinality(Places(x, Found)) = 1, Cardinality(Places(y, Found)) = 1
  PROVE  IF Min(Ranks(x, dense)) <= Min(Ranks(y, sparse)) THEN Before(x, y) ELSE Before(y, x)
<1>1. PICK p \in 1..MaxPoints : Score(x) = Weight(p) /\ Ranks(x, dense) = {p}
  BY FoundOnce
<1>2. PICK q \in 1..MaxPoints : Score(y) = Weight(q) /\ Ranks(y, sparse) = {q}
  BY FoundOnce
<1>3. p \in Nat /\ q \in Nat
  OBVIOUS
<1>4. Min(Ranks(x, dense)) = p /\ Min(Ranks(y, sparse)) = q
  <2>1. \A k \in Nat : Min({k}) \in {k}
    BY MinOf
  <2>. QED  BY <1>1, <1>2, <1>3, <2>1
<1>5. CASE p < q
  <2>1. Score(x) > Score(y)
    BY <1>1, <1>2, <1>5, BetterWeighsMore
  <2>. QED  BY <1>3, <1>4, <1>5, <2>1 DEF Before
<1>6. CASE p = q
  <2>1. FirstSeen(x) <= Len(dense) /\ FirstSeen(y) > Len(dense)
    BY FirstSeenOf
  <2>2. FirstSeen(x) < FirstSeen(y)
    BY <2>1, FirstSeenOf, FoundOf
  <2>. QED  BY <1>1, <1>2, <1>3, <1>4, <1>6, <2>2 DEF Before
<1>7. CASE q < p
  <2>1. Score(y) > Score(x)
    BY <1>1, <1>2, <1>7, BetterWeighsMore
  <2>. QED  BY <1>3, <1>4, <1>7, <2>1 DEF Before
<1>. QED  BY <1>3, <1>5, <1>6, <1>7

-----------------------------------------------------------------------------
\* What Return answers with the lists that the queries found.
Outcome ==
  IF ToSet(Page) \cap Broken # {} THEN Failed
  ELSE [status |-> IF Page = <<>> THEN "empty" ELSE "success", items |-> Page]

\* PageIsSound speaks of the result; that the result is made of the lists that the
\* call still holds, and of valid ones, is what the steps before keep.
SearchInv ==
  /\ request \in Requests
  /\ stage \in {"called", "dense", "sparse", "done"}
  /\ IsList(dense) /\ IsList(sparse)
  /\ stage # "done" => result = NoResult
  /\ stage \in {"called", "dense"} => sparse = <<>>
  /\ stage \in {"dense", "sparse"} => TopK \in 1..MaxTopK
  /\ stage = "done" =>
       \/ result = Failed /\ sparse = <<>>
       \/ result = Outcome /\ TopK \in 1..MaxTopK

LEMMA InitSearchInv == SearchInit => SearchInv
BY SearchConstants DEF SearchInit, SearchInv, IsList

LEMMA AnswersAreLists ==
  ASSUME NEW answer \in Answers, TopK \in 1..MaxTopK PROVE IsList(answer)
<1>1. TopK \in Nat /\ TopK >= 1 /\ Multiplier \in Nat /\ MaxPoints \in Nat
  BY SearchConstants
<1>2. PICK product \in Nat : product = TopK * Multiplier
  BY <1>1
<1>3. CandidateK \in Nat
  BY <1>1, <1>2 DEF CandidateK, Max
<1>4. Min({CandidateK, MaxPoints}) \in Nat /\ Min({CandidateK, MaxPoints}) <= MaxPoints
  BY <1>1, <1>3, MinOfTwo
<1>5. PICK m \in 0..Min({CandidateK, MaxPoints}) : answer \in [1..m -> Points]
  BY DEF Answers, BoundedSeq, SeqOf
<1>6. m \in Nat /\ m <= MaxPoints
  BY <1>1, <1>4, <1>5
<1>7. answer \in Seq(Points) /\ Len(answer) = m
  BY ONLY <1>5, <1>6
<1>. QED  BY <1>6, <1>7 DEF IsList

\* The page is made of the request and the two lists alone.
LEMMA PageStays ==
  ASSUME request' = request, dense' = dense, sparse' = sparse
  PROVE  TopK' = TopK /\ Page' = Page
BY DEF TopK, Page, PageOf, PayloadOf, Ranking, Ranked, Position, Before, Score, Shares, Ranks,
       Places, FirstSeen, Found, FoundIds

LEMMA NextSearchInv == SearchInv /\ [SearchNext]_searchVars => SearchInv'
<1>. SUFFICES ASSUME SearchInv, [SearchNext]_searchVars PROVE SearchInv'
  OBVIOUS
<1>. USE DEF SearchInv
<1>1. CASE RejectTopK
  BY <1>1 DEF RejectTopK
<1>2. CASE QueryDense
  <2>1. TopK' = TopK
    BY <1>2 DEF QueryDense, TopK
  <2>2. IsList(dense)'
    BY <1>2, AnswersAreLists DEF QueryDense, IsList
  <2>. QED  BY <1>2, <2>1, <2>2 DEF QueryDense
<1>3. CASE QuerySparse
  <2>1. TopK' = TopK
    BY <1>3 DEF QuerySparse, TopK
  <2>2. IsList(sparse)'
    BY <1>3, AnswersAreLists DEF QuerySparse, IsList
  <2>3. IsList(dense)'
    BY <1>3 DEF QuerySparse, IsList
  <2>. QED  BY <1>3, <2>1, <2>2, <2>3 DEF QuerySparse
<1>4. CASE QueryRaises
  BY <1>4 DEF QueryRaises
<1>5. CASE Return
  <2>1. TopK' = TopK /\ Page' = Page
    BY <1>5, PageStays DEF Return
  <2>2. result' = Outcome'
    BY <1>5, <2>1 DEF Return, Outcome
  <2>3. IsList(dense)' /\ IsList(sparse)'
    BY <1>5 DEF Return, IsList
  <2>. QED  BY <1>5, <2>1, <2>2, <2>3 DEF Return
<1>6. CASE UNCHANGED searchVars
  <2>1. TopK' = TopK /\ Page' = Page
    BY <1>6, PageStays DEF searchVars
  <2>2. Outcome' = Outcome
    BY <2>1 DEF Outcome
  <2>. QED  BY <1>6, <2>1, <2>2 DEF searchVars, IsList
<1>. QED  BY <1>1, <1>2, <1>3, <1>4, <1>5, <1>6 DEF SearchNext

\* What the page shows of the lists, whenever it is returned.
LEMMA PageIsReturned ==
  ASSUME SearchInv, Succeeded
  PROVE  /\ IsList(dense) /\ IsList(sparse) /\ TopK \in 1..MaxTopK
         /\ result.items = Page /\ ToSet(Page) \cap Broken = {}
         /\ result.status = IF Page = <<>> THEN "empty" ELSE "success"
<1>1. result # Failed
  BY DEF Succeeded, Failed
<1>2. stage = "done" /\ result = Outcome /\ TopK \in 1..MaxTopK
  BY <1>1 DEF SearchInv, Succeeded
<1>3. Outcome # Failed
  BY <1>1, <1>2
<1>4. ToSet(Page) \cap Broken = {}
  BY <1>3 DEF Outcome
<1>5. result = [status |-> IF Page = <<>> THEN "empty" ELSE "success", items |-> Page]
  BY <1>2, <1>4 DEF Outcome
<1>. QED  BY <1>2, <1>4, <1>5 DEF SearchInv

LEMMA SearchTyped == SearchInv => SearchTypeOK
<1>. SUFFICES ASSUME SearchInv PROVE SearchTypeOK
  OBVIOUS
<1>1. /\ request \in Requests /\ stage \in {"called", "dense", "sparse", "done"}
      /\ dense \in Seq(Points) /\ sparse \in Seq(Points)
  BY DEF SearchInv, IsList
<1>2. CASE Succeeded
  <2>1. /\ result.items \in Seq(Item) /\ result.items = Page
        /\ result.status = IF Page = <<>> THEN "empty" ELSE "success"
    BY <1>2, PageIsReturned, PageOfFound
  <2>2. ASSUME NEW i \in DOMAIN Page, NEW j \in DOMAIN Page, Page[i].id = Page[j].id
        PROVE  i = j
    <3>1. IsList(dense) /\ IsList(sparse) /\ TopK \in 1..MaxTopK
      BY <1>2, PageIsReturned
    <3>2. Ranking[j] \in FoundIds
          /\ Page[j] = [id |-> Ranking[j], payload |-> PayloadOf(Ranking[j])]
      BY <3>1, PageOfFound
    <3>3. Page[j].id = Ranking[j]
      BY ONLY <3>2
    <3>. QED  BY <2>2, <3>1, <3>2, <3>3, PageShows
  <2>. QED  BY <1>1, <1>2, <2>1, <2>2 DEF SearchTypeOK, Succeeded
<1>3. CASE ~Succeeded
  <2>1. result = NoResult \/ result = Failed
    <3>1. CASE stage # "done"
      BY <3>1 DEF SearchInv
    <3>2. CASE stage = "done"
      BY <1>3, <3>2 DEF SearchInv, Succeeded, Outcome
    <3>. QED  BY <3>1, <3>2
  <2>2. stage = "done" <=> result = Failed
    BY <1>3, <2>1 DEF SearchInv, Succeeded, NoResult, Failed
  <2>3. result.items = <<>> /\ result.status \in {"none", "failed"} /\ (result.status = "failed" <=> result = Failed)
    BY <2>1 DEF NoResult, Failed
  <2>. QED  BY <1>1, <2>2, <2>3 DEF SearchTypeOK
<1>. QED  BY <1>2, <1>3

LEMMA SearchFull == SearchInv => PageIsFull
BY PageIsReturned, PageOfFound DEF PageIsFull

LEMMA SearchAgrees == SearchInv => AgreementFirst
<1>. SUFFICES ASSUME SearchInv, Succeeded, NEW x \in FoundIds, NEW y \in FoundIds,
                     Agreed(x), ~(InDense(y) /\ InSparse(y)),
                     Cardinality(Places(y, Found)) = 1, OnPage(y)
              PROVE  Precedes(x, y)
  BY DEF AgreementFirst
<1>1. IsList(dense) /\ IsList(sparse) /\ TopK \in 1..MaxTopK /\ result.items = Page
  BY PageIsReturned
<1>2. Before(x, y)
  BY <1>1, AgreedComesFirst
<1>. QED  BY <1>1, <1>2, PageKeepsOrder

LEMMA SearchBetter == SearchInv => BetterPlaceFirst
<1>. SUFFICES ASSUME SearchInv, Succeeded, NEW x \in FoundIds, NEW y \in FoundIds,
                     InDense(x), ~InSparse(x), InSparse(y), ~InDense(y),
                     Cardinality(Places(x, Found)) = 1, Cardinality(Places(y, Found)) = 1
              PROVE  IF Min(Ranks(x, dense)) <= Min(Ranks(y, sparse))
                       THEN OnPage(y) => Precedes(x, y)
                       ELSE OnPage(x) => Precedes(y, x)
  BY DEF BetterPlaceFirst
<1>1. IsList(dense) /\ IsList(sparse) /\ TopK \in 1..MaxTopK /\ result.items = Page
  BY PageIsReturned
<1>2. IF Min(Ranks(x, dense)) <= Min(Ranks(y, sparse)) THEN Before(x, y) ELSE Before(y, x)
  BY <1>1, BetterComesFirst
<1>. QED  BY <1>1, <1>2, PageKeepsOrder

LEMMA SearchPayload == SearchInv => PayloadIsTheFirst
<1>. SUFFICES ASSUME SearchInv, Succeeded, NEW i \in DOMAIN result.items,
                     NEW id, id = result.items[i].id,
                     NEW source, source = IF InDense(id) THEN dense ELSE sparse
              PROVE  result.items[i].payload = source[Min(Places(id, source))].payload
  BY DEF PayloadIsTheFirst
<1>1. IsList(dense) /\ IsList(sparse) /\ TopK \in 1..MaxTopK /\ result.items = Page
  BY PageIsReturned
<1>2. /\ Ranking[i] \in FoundIds
      /\ Page[i] = [id |-> Ranking[i], payload |-> PayloadOf(Ranking[i])]
      /\ Page[i] = Found[FirstSeen(Ranking[i])]
  BY <1>1, PageOfFound
<1>3. id = Ranking[i]
  BY <1>1, <1>2
<1>4. id \in FoundIds /\ result.items[i] = Found[FirstSeen(id)] /\ id \in Ids
  BY <1>1, <1>2, <1>3, FoundIdsOf
<1>5. CASE InDense(id)
  <2>1. FirstSeen(id) = Min(Places(id, dense)) /\ FirstSeen(id) \in Places(id, dense)
    BY <1>1, <1>4, <1>5, FirstSeenOf, PlacesOf, MinOf DEF InDense
  <2>2. Found[FirstSeen(id)] = dense[FirstSeen(id)]
    BY <1>1, <2>1, FoundOf, PlacesOf
  <2>. QED  BY <1>4, <1>5, <2>1, <2>2
<1>6. CASE ~InDense(id)
  <2>1. FirstSeen(id) = Len(dense) + Min(Places(id, sparse)) /\ InSparse(id)
    BY <1>1, <1>4, <1>6, FirstSeenOf, FoundIdsOf
  <2>2. Min(Places(id, sparse)) \in 1..Len(sparse)
    BY <1>1, <2>1, PlacesOf, MinOf DEF InSparse
  <2>3. Found[FirstSeen(id)] = sparse[Min(Places(id, sparse))]
    BY <1>1, <2>1, <2>2, FoundOf
  <2>. QED  BY <1>4, <1>6, <2>3
<1>. QED  BY <1>5, <1>6

LEMMA SearchFails == SearchInv => FailsForThePage
<1>. SUFFICES ASSUME SearchInv, stage = "done" PROVE FailsForThePage
  BY DEF FailsForThePage
<1>1. CASE Succeeded
  <2>1. ToSet(result.items) \cap Broken = {}
    BY <1>1, PageIsReturned
  <2>. QED  BY <1>1, <2>1 DEF FailsForThePage, Succeeded
<1>2. CASE ~Succeeded
  <2>1. result = Failed
    BY <1>2 DEF SearchInv, Succeeded, Outcome
  <2>2. ToSet(result.items) = {}
    BY <2>1 DEF Failed, ToSet
  <2>3. ASSUME sparse # <<>>
        PROVE  \E id \in FoundIds : Found[FirstSeen(id)] \in Broken /\ Position(id, FoundIds) < TopK
    <3>1. IsList(dense) /\ IsList(sparse) /\ TopK \in 1..MaxTopK /\ ToSet(Page) \cap Broken # {}
      BY <2>1, <2>3 DEF SearchInv, Outcome, Failed
    <3>2. PICK i \in DOMAIN Page : Page[i] \in Broken
      BY <3>1 DEF ToSet
    <3>3. /\ Ranking[i] \in FoundIds /\ Found[FirstSeen(Ranking[i])] \in Broken
          /\ Position(Ranking[i], FoundIds) = i - 1 /\ i <= TopK /\ i \in Nat
      BY <3>1, <3>2, PageOfFound
    <3>4. i - 1 < TopK
      BY <3>1, <3>3, SearchConstants
    <3>. QED  BY <3>3, <3>4
  <2>. QED  BY <2>2, <2>3 DEF FailsForThePage
<1>. QED  BY <1>1, <1>2

\* For every pair of answers to its two queries, of any length, a search returns a full
\* page without repetition: what both queries place among their first RrfK + 1 before
\* what one finds, the better placed first, each with the payload that came first; and
\* it fails for a payload of the page only.
THEOREM PagesAreSound == SearchSpec => []PageIsSound
<1>1. SearchInv => PageIsSound
  BY SearchTyped, SearchFull, SearchAgrees, SearchBetter, SearchPayload, SearchFails DEF PageIsSound
<1>. QED  BY <1>1, InitSearchInv, NextSearchInv, PTL DEF SearchSpec
=============================================================================
