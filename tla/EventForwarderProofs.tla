------------------------ MODULE EventForwarderProofs ------------------------
(***************************************************************************)
(* Safety of the event forwarder, for every number of boards, every list of *)
(* subscribers, every size of the queue and every number of cancellations; *)
(* and no dispatch goes on for ever.                                       *)
(***************************************************************************)
EXTENDS EventForwarder, TLAPS, WellFoundedInduction

-----------------------------------------------------------------------------
\* Sequences

\* What Tail leaves of a sequence.
LEMMA TailOf ==
  ASSUME NEW S, NEW s \in Seq(S), s # <<>>
  PROVE  /\ Head(s) = s[1] /\ Head(s) \in S
         /\ Tail(s) \in Seq(S)
         /\ Len(s) >= 1
         /\ Len(Tail(s)) = Len(s) - 1
         /\ DOMAIN s = 1..Len(s)
         /\ DOMAIN Tail(s) = 1..(Len(s) - 1)
         /\ \A i \in 1..(Len(s) - 1) : Tail(s)[i] = s[i + 1]
  OBVIOUS

\* What Append adds to a sequence.
LEMMA AppendOf ==
  ASSUME NEW S, NEW s \in Seq(S), NEW e \in S
  PROVE  /\ Append(s, e) \in Seq(S)
         /\ Len(Append(s, e)) = Len(s) + 1
         /\ DOMAIN s = 1..Len(s)
         /\ DOMAIN Append(s, e) = 1..(Len(s) + 1)
         /\ Append(s, e)[Len(s) + 1] = e
         /\ \A i \in 1..Len(s) : Append(s, e)[i] = s[i]
  OBVIOUS

-----------------------------------------------------------------------------
\* The accounts

\* What the accounts count are numbers.
LEMMA Counts ==
  EventsAreAccountedFor =>
    /\ unfinished \in Nat /\ dropped \in Nat /\ orphans \in Nat /\ cancels \in Nat
    /\ InHand \in Nat
    /\ Len(queue) \in Nat /\ Len(offered) \in Nat
    /\ Len(sent) \in Nat /\ Len(failed) \in Nat /\ Len(lost) \in Nat
BY ForwarderAssumption DEF EventsAreAccountedFor, TypeOK, InHand

\* Nothing was offered at first.
LEMMA InitAccounted == Init => EventsAreAccountedFor
BY ForwarderAssumption
   DEF Init, EventsAreAccountedFor, TypeOK, DroppedIsExact, LossNeedsCancel, JoinWaitsForLost,
       InHand, Idle

\* A step of a board or of a subscriber moves no event but the one that it offers.
LEMMA BoardAccounted ==
  ASSUME EventsAreAccountedFor, NEW r \in Runs, Board(r)
  PROVE  EventsAreAccountedFor'
<1>a. TypeOK
  BY DEF EventsAreAccountedFor
<1>b. DroppedIsExact /\ LossNeedsCancel /\ JoinWaitsForLost
  BY DEF EventsAreAccountedFor
<1>c. /\ unfinished \in Nat /\ dropped \in Nat /\ orphans \in Nat /\ cancels \in Nat
      /\ InHand \in Nat
      /\ Len(queue) \in Nat /\ Len(offered) \in Nat
      /\ Len(sent) \in Nat /\ Len(failed) \in Nat /\ Len(lost) \in Nat
  BY Counts
<1>1. CASE Emit(r)
  <2>1. /\ emitted' = [emitted EXCEPT ![r] = @ + 1] /\ rest' = [rest EXCEPT ![r] = subs]
        /\ due' = [due EXCEPT ![r] = \E i \in DOMAIN subs : subs[i] = Forwarder]
        /\ UNCHANGED <<subs, queue, unfinished, dropped, consumer, orphans, offered, sent,
                       failed, lost, cancels>>
    BY <1>1 DEF Emit, buffer, outcome
  <2>2. emitted' \in [Runs -> Nat] /\ rest' \in [Runs -> Seq(Handlers)]
    <3>1. emitted \in [Runs -> Nat] /\ rest \in [Runs -> Seq(Handlers)] /\ subs \in Seq(Handlers)
      BY <1>a DEF TypeOK
    <3>2. emitted' \in [Runs -> Nat]
      BY <2>1, <3>1
    <3>3. rest' \in [Runs -> Seq(Handlers)]
      BY <2>1, <3>1
    <3>. QED  BY <3>2, <3>3
  <2>3. due' \in [Runs -> BOOLEAN]
    <3>1. due \in [Runs -> BOOLEAN]
      BY <1>a DEF TypeOK
    <3>. QED  BY <2>1, <3>1, Zenon
  <2>4. TypeOK'
    BY <1>a, <2>1, <2>2, <2>3 DEF TypeOK
  <2>5. (DroppedIsExact /\ LossNeedsCancel /\ JoinWaitsForLost)'
    BY <1>b, <2>1 DEF DroppedIsExact, LossNeedsCancel, JoinWaitsForLost, InHand
  <2>. QED  BY <2>4, <2>5 DEF EventsAreAccountedFor
<1>2. CASE Observe(r)
  <2>1. /\ rest' = [rest EXCEPT ![r] = Tail(@)] /\ rest[r] # <<>>
        /\ UNCHANGED <<subs, emitted, due, queue, unfinished, dropped, consumer, orphans,
                       offered, sent, failed, lost, cancels>>
    BY <1>2 DEF Observe, buffer, outcome
  <2>2. rest' \in [Runs -> Seq(Handlers)]
    BY <1>a, <2>1, TailOf DEF TypeOK
  <2>3. TypeOK'
    BY <1>a, <2>1, <2>2 DEF TypeOK
  <2>4. (DroppedIsExact /\ LossNeedsCancel /\ JoinWaitsForLost)'
    BY <1>b, <2>1 DEF DroppedIsExact, LossNeedsCancel, JoinWaitsForLost, InHand
  <2>. QED  BY <2>3, <2>4 DEF EventsAreAccountedFor
<1>3. CASE Enqueue(r)
  <2>1. /\ rest' = [rest EXCEPT ![r] = Tail(@)] /\ rest[r] # <<>>
        /\ offered' = Append(offered, Event(r))
        /\ UNCHANGED <<subs, emitted, due, consumer, orphans, sent, failed, lost, cancels>>
    BY <1>3 DEF Enqueue, outcome
  <2>2. rest' \in [Runs -> Seq(Handlers)]
    BY <1>a, <2>1, TailOf DEF TypeOK
  <2>3. offered' \in Seq(Runs \X Nat) /\ Len(offered') = Len(offered) + 1
    <3>1. Event(r) \in Runs \X Nat
      BY <1>a DEF TypeOK, Event
    <3>2. offered \in Seq(Runs \X Nat)
      BY <1>a DEF TypeOK
    <3>. QED  BY <2>1, <3>1, <3>2, AppendOf
  <2>4. InHand' = InHand
    BY <2>1 DEF InHand
  <2>5. CASE HasRoom
    <3>1. queue' = Append(queue, Len(offered) + 1) /\ unfinished' = unfinished + 1
          /\ dropped' = dropped
      BY <1>3, <2>5 DEF Enqueue
    <3>2. queue' \in Seq(Nat) /\ Len(queue') = Len(queue) + 1
      BY <1>a, <1>c, <3>1, AppendOf DEF TypeOK
    <3>3. Len(queue') <= MaxQueue
      BY <1>c, <2>5, <3>2, ForwarderAssumption DEF HasRoom
    <3>4. TypeOK'
      <4>1. unfinished' \in Nat /\ dropped' = dropped
        BY <1>c, <3>1
      <4>2. UNCHANGED <<subs, emitted, due, consumer, orphans, sent, failed, lost, cancels>>
        BY <2>1
      <4>. QED  BY <1>a, <2>2, <2>3, <3>2, <3>3, <4>1, <4>2 DEF TypeOK
    <3>5. (DroppedIsExact /\ LossNeedsCancel /\ JoinWaitsForLost)'
      BY <1>b, <1>c, <2>1, <2>3, <2>4, <3>1, <3>2 DEF DroppedIsExact, LossNeedsCancel, JoinWaitsForLost
    <3>. QED  BY <3>4, <3>5 DEF EventsAreAccountedFor
  <2>6. CASE ~HasRoom
    <3>1. dropped' = dropped + 1 /\ UNCHANGED <<queue, unfinished>>
      BY <1>3, <2>6 DEF Enqueue, buffer
    <3>2. TypeOK'
      BY <1>a, <1>c, <2>1, <2>2, <2>3, <3>1, SMTT(20) DEF TypeOK
    <3>3. DroppedIsExact'
      BY <1>b, <1>c, <2>1, <2>3, <2>4, <3>1 DEF DroppedIsExact
    <3>4. LossNeedsCancel' /\ JoinWaitsForLost'
      BY <1>b, <1>c, <2>1, <2>3, <2>4, <3>1 DEF LossNeedsCancel, JoinWaitsForLost
    <3>. QED  BY <3>2, <3>3, <3>4 DEF EventsAreAccountedFor
  <2>. QED  BY <2>5, <2>6
<1>. QED  BY <1>1, <1>2, <1>3 DEF Board

\* A step of the task, or of a thread that it left behind, moves one event on.
LEMMA ConsumeAccounted == ASSUME EventsAreAccountedFor, Consume PROVE EventsAreAccountedFor'
<1>a. TypeOK
  BY DEF EventsAreAccountedFor
<1>b. DroppedIsExact /\ LossNeedsCancel /\ JoinWaitsForLost
  BY DEF EventsAreAccountedFor
<1>c. /\ unfinished \in Nat /\ dropped \in Nat /\ orphans \in Nat /\ cancels \in Nat
      /\ InHand \in Nat
      /\ Len(queue) \in Nat /\ Len(offered) \in Nat
      /\ Len(sent) \in Nat /\ Len(failed) \in Nat /\ Len(lost) \in Nat
  BY Counts
<1>d. queue # <<>> =>
        Head(queue) \in Nat /\ Tail(queue) \in Seq(Nat) /\ Len(Tail(queue)) = Len(queue) - 1
  BY <1>a, TailOf DEF TypeOK
<1>e. /\ consumer \in [at : {"idle", "waiting", "got", "sending"}, event : Nat]
      /\ queue \in Seq(Nat) /\ Len(queue) <= MaxQueue
  BY <1>a DEF TypeOK
<1>f. ASSUME NEW s \in {sent, failed, lost}
      PROVE  /\ Append(s, consumer.event) \in Seq(Nat)
             /\ Len(Append(s, consumer.event)) = Len(s) + 1
  <2>1. s \in Seq(Nat)
    BY <1>a DEF TypeOK
  <2>. QED  BY <1>e, <2>1, AppendOf
<1>g. \* The events of the boards, and their order, are left alone.
      UNCHANGED <<subs, emitted, rest, due, dropped, offered>>
  BY DEF Consume, StartWait, Get, TimeOut, Resume, Sent, SendFails, CancelWait, OrphanGets,
         OrphanTimesOut, dispatching
<1>1. CASE StartWait
  <2>1. /\ consumer.at = "idle" /\ consumer' = [at |-> "waiting", event |-> 0]
        /\ UNCHANGED <<queue, unfinished, orphans, sent, failed, lost, cancels>>
    BY <1>1 DEF StartWait, buffer, outcome, Idle
  <2>2. /\ consumer' \in [at : {"idle", "waiting", "got", "sending"}, event : Nat]
        /\ InHand' = InHand
    BY <1>e, <2>1 DEF InHand
  <2>3. TypeOK'
    BY <1>a, <1>g, <2>1, <2>2 DEF TypeOK
  <2>4. (DroppedIsExact /\ LossNeedsCancel /\ JoinWaitsForLost)'
    BY <1>b, <1>c, <1>g, <2>1, <2>2 DEF DroppedIsExact, LossNeedsCancel, JoinWaitsForLost
  <2>. QED  BY <2>3, <2>4 DEF EventsAreAccountedFor
<1>2. CASE Get
  <2>1. /\ consumer.at = "waiting" /\ consumer' = [at |-> "got", event |-> Head(queue)]
        /\ queue # <<>> /\ queue' = Tail(queue)
        /\ UNCHANGED <<unfinished, orphans, sent, failed, lost, cancels>>
    BY <1>2 DEF Get, outcome
  <2>2. /\ consumer' \in [at : {"idle", "waiting", "got", "sending"}, event : Nat]
        /\ InHand = 0 /\ InHand' = 1
    BY <1>d, <2>1 DEF InHand
  <2>3. queue' \in Seq(Nat) /\ Len(queue') = Len(queue) - 1 /\ Len(queue') <= MaxQueue
    BY <1>c, <1>d, <1>e, <2>1, ForwarderAssumption
  <2>4. TypeOK'
    BY <1>a, <1>g, <2>1, <2>2, <2>3 DEF TypeOK
  <2>5. (DroppedIsExact /\ LossNeedsCancel /\ JoinWaitsForLost)'
    BY <1>b, <1>c, <1>g, <2>1, <2>2, <2>3 DEF DroppedIsExact, LossNeedsCancel, JoinWaitsForLost
  <2>. QED  BY <2>4, <2>5 DEF EventsAreAccountedFor
<1>3. CASE TimeOut
  <2>1. /\ consumer.at = "waiting" /\ consumer' = [at |-> "idle", event |-> 0]
        /\ UNCHANGED <<queue, unfinished, orphans, sent, failed, lost, cancels>>
    BY <1>3 DEF TimeOut, buffer, outcome, Idle
  <2>2. /\ consumer' \in [at : {"idle", "waiting", "got", "sending"}, event : Nat]
        /\ InHand' = InHand
    BY <1>e, <2>1 DEF InHand
  <2>3. TypeOK'
    BY <1>a, <1>g, <2>1, <2>2 DEF TypeOK
  <2>4. (DroppedIsExact /\ LossNeedsCancel /\ JoinWaitsForLost)'
    BY <1>b, <1>c, <1>g, <2>1, <2>2 DEF DroppedIsExact, LossNeedsCancel, JoinWaitsForLost
  <2>. QED  BY <2>3, <2>4 DEF EventsAreAccountedFor
<1>4. CASE Resume
  <2>1. /\ consumer.at = "got" /\ consumer' = [consumer EXCEPT !.at = "sending"]
        /\ UNCHANGED <<queue, unfinished, orphans, sent, failed, lost, cancels>>
    BY <1>4 DEF Resume, buffer, outcome, Idle
  <2>2. /\ consumer' \in [at : {"idle", "waiting", "got", "sending"}, event : Nat]
        /\ InHand' = InHand
    BY <1>e, <2>1 DEF InHand
  <2>3. TypeOK'
    BY <1>a, <1>g, <2>1, <2>2 DEF TypeOK
  <2>4. (DroppedIsExact /\ LossNeedsCancel /\ JoinWaitsForLost)'
    BY <1>b, <1>c, <1>g, <2>1, <2>2 DEF DroppedIsExact, LossNeedsCancel, JoinWaitsForLost
  <2>. QED  BY <2>3, <2>4 DEF EventsAreAccountedFor
<1>5. CASE Sent
  <2>1. /\ consumer.at = "sending" /\ consumer' = [at |-> "idle", event |-> 0]
        /\ sent' = Append(sent, consumer.event) /\ unfinished' = unfinished - 1
        /\ UNCHANGED <<queue, orphans, failed, lost, cancels>>
    BY <1>5 DEF Sent, Idle
  <2>2. /\ consumer' \in [at : {"idle", "waiting", "got", "sending"}, event : Nat]
        /\ InHand = 1 /\ InHand' = 0
    BY <2>1 DEF InHand
  <2>3. sent' \in Seq(Nat) /\ Len(sent') = Len(sent) + 1
    BY <1>f, <2>1
  <2>4. unfinished' \in Nat
    BY <1>b, <1>c, <2>1, <2>2 DEF JoinWaitsForLost
  <2>5. TypeOK'
    BY <1>a, <1>g, <2>1, <2>2, <2>3, <2>4 DEF TypeOK
  <2>6. (DroppedIsExact /\ LossNeedsCancel /\ JoinWaitsForLost)'
    BY <1>b, <1>c, <1>g, <2>1, <2>2, <2>3 DEF DroppedIsExact, LossNeedsCancel, JoinWaitsForLost
  <2>. QED  BY <2>5, <2>6 DEF EventsAreAccountedFor
<1>6. CASE SendFails
  <2>1. /\ consumer.at = "sending" /\ consumer' = [at |-> "idle", event |-> 0]
        /\ failed' = Append(failed, consumer.event) /\ unfinished' = unfinished - 1
        /\ UNCHANGED <<queue, orphans, sent, lost, cancels>>
    BY <1>6 DEF SendFails, Idle
  <2>2. /\ consumer' \in [at : {"idle", "waiting", "got", "sending"}, event : Nat]
        /\ InHand = 1 /\ InHand' = 0
    BY <2>1 DEF InHand
  <2>3. failed' \in Seq(Nat) /\ Len(failed') = Len(failed) + 1
    BY <1>f, <2>1
  <2>4. unfinished' \in Nat
    BY <1>b, <1>c, <2>1, <2>2 DEF JoinWaitsForLost
  <2>5. TypeOK'
    BY <1>a, <1>g, <2>1, <2>2, <2>3, <2>4 DEF TypeOK
  <2>6. (DroppedIsExact /\ LossNeedsCancel /\ JoinWaitsForLost)'
    BY <1>b, <1>c, <1>g, <2>1, <2>2, <2>3 DEF DroppedIsExact, LossNeedsCancel, JoinWaitsForLost
  <2>. QED  BY <2>5, <2>6 DEF EventsAreAccountedFor
<1>7. CASE CancelWait
  <2>1. /\ cancels < MaxCancels /\ cancels' = cancels + 1
        /\ consumer' = [at |-> "idle", event |-> 0]
        /\ UNCHANGED <<queue, unfinished, sent, failed>>
    BY <1>7 DEF CancelWait, Idle, buffer
  <2>2. /\ consumer' \in [at : {"idle", "waiting", "got", "sending"}, event : Nat]
        /\ cancels' \in 0..MaxCancels
        /\ InHand' = 0
    BY <1>c, <2>1, ForwarderAssumption DEF InHand
  <2>3. CASE consumer.at = "got"
    <3>1. lost' = Append(lost, consumer.event) /\ orphans' = orphans
      BY <1>7, <2>3 DEF CancelWait
    <3>2. lost' \in Seq(Nat) /\ Len(lost') = Len(lost) + 1 /\ InHand = 1
      BY <1>f, <2>3, <3>1 DEF InHand
    <3>3. TypeOK'
      BY <1>a, <1>g, <2>1, <2>2, <3>1, <3>2 DEF TypeOK
    <3>4. (DroppedIsExact /\ LossNeedsCancel /\ JoinWaitsForLost)'
      BY <1>b, <1>c, <1>g, <2>1, <2>2, <3>1, <3>2 DEF DroppedIsExact, LossNeedsCancel, JoinWaitsForLost
    <3>. QED  BY <3>3, <3>4 DEF EventsAreAccountedFor
  <2>4. CASE consumer.at = "waiting"
    <3>1. lost' = lost /\ (orphans' = orphans \/ orphans' = orphans + 1)
      BY <1>7, <2>4 DEF CancelWait
    <3>2. orphans' \in Nat /\ InHand = 0
      BY <1>c, <2>4, <3>1 DEF InHand
    <3>3. TypeOK'
      BY <1>a, <1>g, <2>1, <2>2, <3>1, <3>2 DEF TypeOK
    <3>4. (DroppedIsExact /\ LossNeedsCancel /\ JoinWaitsForLost)'
      BY <1>b, <1>c, <1>g, <2>1, <2>2, <3>1, <3>2 DEF DroppedIsExact, LossNeedsCancel, JoinWaitsForLost
    <3>. QED  BY <3>3, <3>4 DEF EventsAreAccountedFor
  <2>. QED  BY <1>7, <2>3, <2>4 DEF CancelWait
<1>8. CASE OrphanGets
  <2>1. /\ orphans > 0 /\ orphans' = orphans - 1
        /\ queue # <<>> /\ queue' = Tail(queue) /\ lost' = Append(lost, Head(queue))
        /\ UNCHANGED <<unfinished, consumer, sent, failed, cancels>>
    BY <1>8 DEF OrphanGets
  <2>2. lost' \in Seq(Nat) /\ Len(lost') = Len(lost) + 1 /\ orphans' \in Nat
    <3>1. lost \in Seq(Nat)
      BY <1>a DEF TypeOK
    <3>. QED  BY <1>c, <1>d, <2>1, <3>1, AppendOf
  <2>3. /\ queue' \in Seq(Nat) /\ Len(queue') = Len(queue) - 1 /\ Len(queue') <= MaxQueue
        /\ InHand' = InHand
    BY <1>c, <1>d, <1>e, <2>1, ForwarderAssumption DEF InHand
  <2>4. TypeOK'
    BY <1>a, <1>g, <2>1, <2>2, <2>3 DEF TypeOK
  <2>5. (DroppedIsExact /\ LossNeedsCancel /\ JoinWaitsForLost)'
    <3>1. orphans' = orphans - 1 /\ UNCHANGED <<unfinished, sent, failed, cancels>>
      BY <2>1
    <3>2. DroppedIsExact'
      <4>1. /\ Len(queue') = Len(queue) - 1 /\ Len(lost') = Len(lost) + 1 /\ InHand' = InHand
            /\ UNCHANGED <<offered, dropped, sent, failed>>
        BY <1>g, <2>2, <2>3, <3>1
      <4>. QED  BY <1>b, <1>c, <4>1 DEF DroppedIsExact
    <3>3. LossNeedsCancel'
      BY <1>b, <1>c, <2>2, <3>1 DEF LossNeedsCancel
    <3>4. JoinWaitsForLost'
      BY <1>b, <1>c, <2>2, <2>3, <3>1 DEF JoinWaitsForLost
    <3>. QED  BY <3>2, <3>3, <3>4
  <2>. QED  BY <2>4, <2>5 DEF EventsAreAccountedFor
<1>9. CASE OrphanTimesOut
  <2>1. /\ orphans > 0 /\ orphans' = orphans - 1
        /\ UNCHANGED <<queue, unfinished, consumer, sent, failed, lost, cancels>>
    BY <1>9 DEF OrphanTimesOut, buffer, outcome
  <2>2. orphans' \in Nat /\ InHand' = InHand
    BY <1>c, <2>1 DEF InHand
  <2>3. TypeOK'
    BY <1>a, <1>g, <2>1, <2>2 DEF TypeOK
  <2>4. (DroppedIsExact /\ LossNeedsCancel /\ JoinWaitsForLost)'
    BY <1>b, <1>c, <1>g, <2>1, <2>2 DEF DroppedIsExact, LossNeedsCancel, JoinWaitsForLost
  <2>. QED  BY <2>3, <2>4 DEF EventsAreAccountedFor
<1>. QED  BY <1>1, <1>2, <1>3, <1>4, <1>5, <1>6, <1>7, <1>8, <1>9 DEF Consume

\* The accounts are right after every step.
LEMMA NextAccounted == EventsAreAccountedFor /\ [Next]_vars => EventsAreAccountedFor'
<1>. SUFFICES ASSUME EventsAreAccountedFor, [Next]_vars PROVE EventsAreAccountedFor'
  OBVIOUS
<1>1. ASSUME NEW h \in Handlers, Subscribe(h) PROVE EventsAreAccountedFor'
  <2>1. Append(subs, h) \in Seq(Handlers)
    BY AppendOf DEF EventsAreAccountedFor, TypeOK
  <2>. QED
    BY <1>1, <2>1 DEF Subscribe, EventsAreAccountedFor, TypeOK, DroppedIsExact, LossNeedsCancel,
                      JoinWaitsForLost, InHand, buffer, outcome
<1>2. CASE UNCHANGED vars
  BY <1>2 DEF vars, dispatching, buffer, outcome, EventsAreAccountedFor, TypeOK, DroppedIsExact,
              LossNeedsCancel, JoinWaitsForLost, InHand
<1>. QED  BY <1>1, <1>2, BoardAccounted, ConsumeAccounted DEF Next

\* Every event that was offered is in the queue, in the hands of the task, sent,
\* failed, lost or counted as dropped; only a cancelled call loses one; and
\* task_done was called for all the others that left the queue.
THEOREM Accounted == Spec => []EventsAreAccountedFor
BY InitAccounted, NextAccounted, PTL DEF Spec

-----------------------------------------------------------------------------
\* What a dispatch offers

\* No subscriber is in the sequence twice.
Distinct(s) == \A i, j \in DOMAIN s : s[i] = s[j] => i = j

\* The dispatch of the run has the forwarder before it.
Pending(r) == \E i \in DOMAIN rest[r] : rest[r][i] = Forwarder

\* The forwarder was subscribed for the latest event of the run and may see it.
Wanted(r) == due[r] /\ Rank(Event(r)) >= MinRank[Forwarder]

\* The latest event of the run was offered.
WasOffered(r) == \E i \in DOMAIN offered : offered[i] = Event(r)

\* The latest event is offered once at most, only if it is wanted, and it was
\* offered if the forwarder was called.
Dispatched(r) ==
  /\ Pending(r) => due[r] /\ ~WasOffered(r)
  /\ \A i, j \in DOMAIN offered : offered[i] = Event(r) /\ offered[j] = Event(r) => i = j
  /\ WasOffered(r) => Wanted(r)
  /\ Wanted(r) /\ emitted[r] > 0 /\ ~Pending(r) => WasOffered(r)

\* Nothing is offered that no run emitted.
OfferedWasEmitted == \A i \in DOMAIN offered : offered[i][2] <= emitted[offered[i][1]]

DispatchInv ==
  /\ TypeOK
  /\ Distinct(subs)
  /\ \A r \in Runs : Distinct(rest[r])
  /\ OfferedWasEmitted
  /\ \A r \in Runs : Dispatched(r)

\* Nothing is dispatched at first.
LEMMA InitDispatch == Init => DispatchInv
<1>. SUFFICES ASSUME Init PROVE DispatchInv
  OBVIOUS
<1>1. TypeOK
  BY InitAccounted DEF EventsAreAccountedFor
<1>2. Distinct(subs) /\ \A r \in Runs : Distinct(rest[r])
  BY DEF Init, Distinct
<1>3. OfferedWasEmitted
  BY DEF Init, OfferedWasEmitted
<1>4. ASSUME NEW r \in Runs PROVE Dispatched(r)
  BY DEF Init, Dispatched, Pending, WasOffered
<1>. QED  BY <1>1, <1>2, <1>3, <1>4 DEF DispatchInv

\* A dispatch takes the subscribers of its moment and has offered nothing yet.
LEMMA EmitDispatch ==
  ASSUME DispatchInv, NEW r \in Runs, Emit(r)
  PROVE  /\ \A q \in Runs : Distinct(rest'[q])
         /\ OfferedWasEmitted'
         /\ \A q \in Runs : Dispatched(q)'
<1>1. /\ emitted' = [emitted EXCEPT ![r] = @ + 1] /\ rest' = [rest EXCEPT ![r] = subs]
      /\ due' = [due EXCEPT ![r] = \E i \in DOMAIN subs : subs[i] = Forwarder]
      /\ offered' = offered
  BY DEF Emit
<1>2. /\ emitted \in [Runs -> Nat] /\ rest \in [Runs -> Seq(Handlers)]
      /\ offered \in Seq(Runs \X Nat)
  BY DEF DispatchInv, TypeOK
<1>3. due \in [Runs -> BOOLEAN]
  BY DEF DispatchInv, TypeOK
<1>4. /\ emitted'[r] = emitted[r] + 1 /\ rest'[r] = subs
      /\ \A q \in Runs \ {r} : emitted'[q] = emitted[q] /\ rest'[q] = rest[q]
  BY <1>1, <1>2
<1>5. /\ due'[r] = (\E i \in DOMAIN subs : subs[i] = Forwarder)
      /\ \A q \in Runs \ {r} : due'[q] = due[q]
  BY <1>1, <1>3, Zenon
<1>6. \A q \in Runs : Distinct(rest'[q])
  BY <1>4 DEF DispatchInv
<1>7. \A i \in DOMAIN offered : offered[i][1] \in Runs /\ offered[i][2] \in Nat
  BY <1>2
<1>8. OfferedWasEmitted'
  <2>1. ASSUME NEW q \in Runs
        PROVE  emitted[q] \in Nat /\ emitted'[q] \in Nat /\ emitted'[q] >= emitted[q]
    <3>1. emitted[q] \in Nat
      BY <1>2
    <3>2. CASE q = r
      BY <1>4, <3>1, <3>2
    <3>3. CASE q # r
      BY <1>4, <3>1, <3>3
    <3>. QED  BY <3>2, <3>3
  <2>2. ASSUME NEW i \in DOMAIN offered PROVE offered[i][2] <= emitted'[offered[i][1]]
    <3>1. offered[i][1] \in Runs /\ offered[i][2] \in Nat /\ offered[i][2] <= emitted[offered[i][1]]
      BY <1>7 DEF DispatchInv, OfferedWasEmitted
    <3>2. PICK q \in Runs : q = offered[i][1]
      BY <3>1
    <3>3. emitted[q] \in Nat /\ emitted'[q] \in Nat /\ emitted'[q] >= emitted[q]
      BY <2>1
    <3>. QED  BY <3>1, <3>2, <3>3
  <2>. QED  BY <1>1, <2>2 DEF OfferedWasEmitted
<1>9. Dispatched(r)'
  <2>1. Event(r)' = <<r, emitted[r] + 1>>
    BY <1>4 DEF Event
  <2>2. ~WasOffered(r)'
    <3>1. \A i \in DOMAIN offered : offered[i] # <<r, emitted[r] + 1>>
      BY <1>2, <1>7 DEF DispatchInv, OfferedWasEmitted
    <3>. QED  BY <1>1, <2>1, <3>1 DEF WasOffered
  <2>3. Pending(r)' <=> due'[r]
    BY <1>4, <1>5 DEF Pending
  <2>. QED  BY <2>2, <2>3 DEF Dispatched, Wanted, WasOffered
<1>10. ASSUME NEW q \in Runs \ {r} PROVE Dispatched(q)'
  <2>1. Event(q)' = Event(q)
    BY <1>4 DEF Event
  <2>2. /\ Pending(q)' <=> Pending(q)
        /\ WasOffered(q)' <=> WasOffered(q)
        /\ Wanted(q)' <=> Wanted(q)
    BY <1>1, <1>4, <1>5, <2>1 DEF Pending, WasOffered, Wanted, Rank
  <2>3. Dispatched(q)
    BY DEF DispatchInv
  <2>4. due'[q] = due[q] /\ emitted'[q] = emitted[q] /\ offered' = offered
    BY <1>1, <1>4, <1>5
  <2>. QED  BY <2>1, <2>2, <2>3, <2>4 DEF Dispatched
<1>. QED  BY <1>6, <1>8, <1>9, <1>10

\* What is left of a dispatch after its next subscriber was called.
LEMMA CallDispatch ==
  ASSUME DispatchInv, NEW r \in Runs, rest[r] # <<>>, rest' = [rest EXCEPT ![r] = Tail(@)]
  PROVE  /\ \A q \in Runs : Distinct(rest'[q])
         /\ \A q \in Runs \ {r} : Pending(q)' <=> Pending(q)
         /\ Head(rest[r]) = Forwarder => Pending(r) /\ ~Pending(r)'
         /\ Head(rest[r]) # Forwarder => (Pending(r)' <=> Pending(r))
<1>1. rest \in [Runs -> Seq(Handlers)] /\ rest[r] \in Seq(Handlers)
  BY DEF DispatchInv, TypeOK
<1>2. /\ rest'[r] = Tail(rest[r])
      /\ \A q \in Runs \ {r} : rest'[q] = rest[q]
  BY <1>1
<1>3. /\ Head(rest[r]) = rest[r][1] /\ Len(rest[r]) \in Nat /\ Len(rest[r]) >= 1
      /\ DOMAIN rest[r] = 1..Len(rest[r])
      /\ DOMAIN Tail(rest[r]) = 1..(Len(rest[r]) - 1)
      /\ \A i \in 1..(Len(rest[r]) - 1) : Tail(rest[r])[i] = rest[r][i + 1]
  BY <1>1, TailOf
<1>4. \A i, j \in 1..Len(rest[r]) : rest[r][i] = rest[r][j] => i = j
  BY <1>3 DEF DispatchInv, Distinct
<1>5. /\ DOMAIN rest'[r] = 1..(Len(rest[r]) - 1)
      /\ \A i \in 1..(Len(rest[r]) - 1) : i + 1 \in 1..Len(rest[r]) /\ rest'[r][i] = rest[r][i + 1]
  <2>1. DOMAIN rest'[r] = 1..(Len(rest[r]) - 1)
    BY <1>2, <1>3, Zenon
  <2>2. \A i \in 1..(Len(rest[r]) - 1) : rest'[r][i] = rest[r][i + 1]
    BY <1>2, <1>3, Zenon
  <2>3. \A i \in 1..(Len(rest[r]) - 1) : i + 1 \in 1..Len(rest[r])
    BY <1>3
  <2>. QED  BY <2>1, <2>2, <2>3
<1>6. \A q \in Runs : Distinct(rest'[q])
  <2>1. ASSUME NEW i \in DOMAIN rest'[r], NEW j \in DOMAIN rest'[r], rest'[r][i] = rest'[r][j]
        PROVE  i = j
    <3>1. i \in 1..(Len(rest[r]) - 1) /\ j \in 1..(Len(rest[r]) - 1)
      BY <1>5
    <3>2. i + 1 = j + 1
      BY <1>4, <1>5, <2>1, <3>1
    <3>. QED  BY <1>3, <3>1, <3>2
  <2>. QED  BY <1>2, <2>1 DEF DispatchInv, Distinct
<1>7. \A q \in Runs \ {r} : Pending(q)' <=> Pending(q)
  BY <1>2 DEF Pending
<1>8. Pending(r) <=> \E i \in 1..Len(rest[r]) : rest[r][i] = Forwarder
  BY <1>3 DEF Pending
<1>9. Pending(r)' <=> \E i \in 1..(Len(rest[r]) - 1) : rest[r][i + 1] = Forwarder
  BY <1>5 DEF Pending
<1>10. ASSUME Head(rest[r]) = Forwarder PROVE Pending(r) /\ ~Pending(r)'
  BY <1>3, <1>4, <1>8, <1>9, <1>10
<1>11. ASSUME Head(rest[r]) # Forwarder PROVE Pending(r)' <=> Pending(r)
  <2>1. Pending(r)' => Pending(r)
    BY <1>3, <1>8, <1>9
  <2>2. ASSUME Pending(r) PROVE Pending(r)'
    <3>1. PICK i \in 1..Len(rest[r]) : rest[r][i] = Forwarder
      BY <1>8, <2>2
    <3>2. i # 1
      BY <1>3, <1>11, <3>1
    <3>3. i - 1 \in 1..(Len(rest[r]) - 1) /\ (i - 1) + 1 = i
      BY <1>3, <3>1, <3>2
    <3>. QED  BY <1>9, <3>1, <3>3
  <2>. QED  BY <2>1, <2>2
<1>. QED  BY <1>6, <1>7, <1>10, <1>11

\* A subscriber that does not forward takes nothing from what is wanted.
LEMMA ObserveDispatch ==
  ASSUME DispatchInv, NEW r \in Runs, Observe(r)
  PROVE  /\ \A q \in Runs : Distinct(rest'[q])
         /\ OfferedWasEmitted'
         /\ \A q \in Runs : Dispatched(q)'
<1>1. /\ rest[r] # <<>> /\ rest' = [rest EXCEPT ![r] = Tail(@)]
      /\ emitted' = emitted /\ due' = due /\ offered' = offered
      /\ ~(Head(rest[r]) = Forwarder /\ Meets(Rank(Event(r)), Forwarder))
  BY DEF Observe, IsForwarded
<1>2. /\ \A q \in Runs : Distinct(rest'[q])
      /\ \A q \in Runs \ {r} : Pending(q)' <=> Pending(q)
      /\ Head(rest[r]) = Forwarder => Pending(r) /\ ~Pending(r)'
      /\ Head(rest[r]) # Forwarder => (Pending(r)' <=> Pending(r))
  BY <1>1, CallDispatch
<1>3. OfferedWasEmitted'
  BY <1>1 DEF DispatchInv, OfferedWasEmitted
<1>4. ASSUME NEW q \in Runs PROVE Dispatched(q)'
  <2>1. Event(q)' = Event(q) /\ (WasOffered(q)' <=> WasOffered(q)) /\ (Wanted(q)' <=> Wanted(q))
    BY <1>1 DEF Event, WasOffered, Wanted, Rank
  <2>2. Dispatched(q)
    BY DEF DispatchInv
  <2>3. (Pending(q)' <=> Pending(q)) => Dispatched(q)'
    BY <1>1, <2>1, <2>2 DEF Dispatched
  <2>4. CASE q = r /\ Head(rest[r]) = Forwarder
    <3>1. ~Wanted(q)
      BY <1>1, <2>4 DEF Meets, Wanted
    <3>. QED  BY <1>1, <1>2, <2>1, <2>2, <2>4, <3>1 DEF Dispatched
  <2>. QED  BY <1>2, <2>3, <2>4
<1>. QED  BY <1>2, <1>3, <1>4

\* The forwarder is offered what it may see, for the first time.
LEMMA EnqueueDispatch ==
  ASSUME DispatchInv, NEW r \in Runs, Enqueue(r)
  PROVE  /\ \A q \in Runs : Distinct(rest'[q])
         /\ OfferedWasEmitted'
         /\ \A q \in Runs : Dispatched(q)'
<1>1. /\ rest[r] # <<>> /\ rest' = [rest EXCEPT ![r] = Tail(@)]
      /\ emitted' = emitted /\ due' = due /\ offered' = Append(offered, Event(r))
      /\ Head(rest[r]) = Forwarder /\ Meets(Rank(Event(r)), Forwarder)
  BY DEF Enqueue, IsForwarded
<1>2. /\ \A q \in Runs : Distinct(rest'[q])
      /\ \A q \in Runs \ {r} : Pending(q)' <=> Pending(q)
      /\ Pending(r) /\ ~Pending(r)'
  BY <1>1, CallDispatch
<1>3. /\ emitted \in [Runs -> Nat] /\ offered \in Seq(Runs \X Nat)
      /\ \A q \in Runs : Event(q) \in Runs \X Nat
  BY DEF DispatchInv, TypeOK, Event
<1>4. /\ Len(offered) \in Nat
      /\ DOMAIN offered = 1..Len(offered)
      /\ DOMAIN offered' = 1..(Len(offered) + 1)
      /\ offered'[Len(offered) + 1] = Event(r)
      /\ \A i \in 1..Len(offered) : offered'[i] = offered[i]
  BY <1>1, <1>3, AppendOf
<1>5. OfferedWasEmitted'
  <2>1. \A i \in 1..Len(offered) : offered[i][2] <= emitted[offered[i][1]]
    BY <1>4 DEF DispatchInv, OfferedWasEmitted
  <2>2. Event(r)[1] = r /\ Event(r)[2] = emitted[r] /\ emitted[r] \in Nat
    BY <1>3 DEF Event
  <2>. QED  BY <1>1, <1>4, <2>1, <2>2 DEF OfferedWasEmitted
<1>6. \A q \in Runs : Event(q)' = Event(q) /\ (Wanted(q)' <=> Wanted(q))
  BY <1>1 DEF Event, Wanted, Rank
<1>7. Dispatched(r)'
  <2>1. Dispatched(r)
    BY DEF DispatchInv
  <2>2. due[r] /\ ~WasOffered(r)
    BY <1>2, <2>1 DEF Dispatched
  <2>3. Wanted(r)
    BY <1>1, <2>2 DEF Meets, Wanted
  <2>4. WasOffered(r)'
    BY <1>4, <1>6 DEF WasOffered
  <2>5. \A i, j \in DOMAIN offered' : offered'[i] = Event(r) /\ offered'[j] = Event(r) => i = j
    BY <1>4, <2>2 DEF WasOffered
  <2>. QED  BY <1>2, <1>6, <2>3, <2>4, <2>5 DEF Dispatched
<1>8. ASSUME NEW q \in Runs \ {r} PROVE Dispatched(q)'
  <2>1. Event(q) # Event(r)
    BY DEF Event
  <2>2. Dispatched(q)
    BY DEF DispatchInv
  <2>3. WasOffered(q)' <=> WasOffered(q)
    BY <1>4, <1>6, <2>1 DEF WasOffered
  <2>4. ASSUME NEW i \in DOMAIN offered', NEW j \in DOMAIN offered',
               offered'[i] = Event(q), offered'[j] = Event(q)
        PROVE  i = j
    <3>1. i \in DOMAIN offered /\ j \in DOMAIN offered
      BY <1>4, <2>1, <2>4
    <3>. QED  BY <1>4, <2>2, <2>4, <3>1 DEF Dispatched
  <2>5. due'[q] = due[q] /\ emitted'[q] = emitted[q] /\ (Pending(q)' <=> Pending(q))
    BY <1>1, <1>2
  <2>. QED  BY <1>6, <2>2, <2>3, <2>4, <2>5 DEF Dispatched
<1>. QED  BY <1>2, <1>5, <1>7, <1>8

\* Every step keeps the dispatches sound.
LEMMA NextDispatch == DispatchInv /\ EventsAreAccountedFor /\ [Next]_vars => DispatchInv'
<1>. SUFFICES ASSUME DispatchInv, EventsAreAccountedFor, [Next]_vars PROVE DispatchInv'
  OBVIOUS
<1>1. TypeOK'
  BY NextAccounted DEF EventsAreAccountedFor
<1>2. ASSUME NEW r \in Runs, Board(r) PROVE DispatchInv'
  <2>1. subs' = subs
    BY <1>2 DEF Board, Emit, Observe, Enqueue
  <2>2. /\ \A q \in Runs : Distinct(rest'[q])
        /\ OfferedWasEmitted'
        /\ \A q \in Runs : Dispatched(q)'
    BY <1>2, EmitDispatch, ObserveDispatch, EnqueueDispatch DEF Board
  <2>. QED  BY <1>1, <2>1, <2>2 DEF DispatchInv
<1>3. ASSUME UNCHANGED <<rest, emitted, due, offered>>, Distinct(subs') PROVE DispatchInv'
  <2>1. (\A r \in Runs : Distinct(rest'[r])) /\ OfferedWasEmitted'
    BY <1>3 DEF DispatchInv, OfferedWasEmitted
  <2>2. ASSUME NEW r \in Runs PROVE Dispatched(r)'
    BY <1>3 DEF DispatchInv, Dispatched, Pending, Wanted, WasOffered, Event, Rank
  <2>. QED  BY <1>1, <1>3, <2>1, <2>2 DEF DispatchInv
<1>4. ASSUME NEW h \in Handlers, Subscribe(h) PROVE DispatchInv'
  <2>1. /\ subs' = Append(subs, h) /\ UNCHANGED <<rest, emitted, due, offered>>
        /\ \A i \in DOMAIN subs : subs[i] # h
    BY <1>4 DEF Subscribe
  <2>2. subs \in Seq(Handlers) /\ Distinct(subs)
    BY DEF DispatchInv, TypeOK
  <2>3. /\ Len(subs) \in Nat /\ DOMAIN subs = 1..Len(subs)
        /\ DOMAIN subs' = 1..(Len(subs) + 1)
        /\ subs'[Len(subs) + 1] = h
        /\ \A i \in 1..Len(subs) : subs'[i] = subs[i]
    BY <2>1, <2>2, AppendOf
  <2>4. Distinct(subs')
    BY <2>1, <2>2, <2>3 DEF Distinct
  <2>. QED  BY <1>3, <2>1, <2>4
<1>5. CASE Consume
  <2>1. UNCHANGED <<subs, rest, emitted, due, offered>>
    BY <1>5 DEF Consume, StartWait, Get, TimeOut, Resume, Sent, SendFails, CancelWait,
                OrphanGets, OrphanTimesOut, dispatching
  <2>. QED  BY <1>3, <2>1 DEF DispatchInv
<1>6. CASE UNCHANGED vars
  <2>1. UNCHANGED <<subs, rest, emitted, due, offered>>
    BY <1>6 DEF vars, dispatching
  <2>. QED  BY <1>3, <2>1 DEF DispatchInv
<1>. QED  BY <1>2, <1>4, <1>5, <1>6 DEF Next

\* Sound dispatches offer the forwarder what it may see.
LEMMA DispatchOffers == DispatchInv => OfferedWhatIsVisible
<1>. SUFFICES ASSUME DispatchInv, NEW r \in Runs, rest[r] = <<>>, emitted[r] > 0
              PROVE  LET places == {i \in DOMAIN offered : offered[i] = Event(r)}
                     IN  IF due[r] /\ Rank(Event(r)) >= MinRank[Forwarder]
                           THEN \E i \in places : places = {i}
                           ELSE places = {}
  BY DEF OfferedWhatIsVisible
<1>1. Dispatched(r) /\ ~Pending(r)
  BY DEF DispatchInv, Pending
<1>2. CASE Wanted(r)
  <2>1. PICK i \in DOMAIN offered : offered[i] = Event(r)
    BY <1>1, <1>2 DEF Dispatched, WasOffered
  <2>2. {j \in DOMAIN offered : offered[j] = Event(r)} = {i}
    BY <1>1, <2>1 DEF Dispatched
  <2>. QED  BY <1>2, <2>2 DEF Wanted
<1>3. CASE ~Wanted(r)
  BY <1>1, <1>3 DEF Dispatched, Wanted, WasOffered
<1>. QED  BY <1>2, <1>3

-----------------------------------------------------------------------------
\* What is sent

\* The task holds an event.
Held == consumer.at \in {"got", "sending"}

\* The events that were sent come before the one in the hands of the task, that
\* one before the queue, and the queue is in order.
OrderInv ==
  /\ SentInOrder
  /\ \A i, j \in DOMAIN queue : i < j => queue[i] < queue[j]
  /\ \A i \in DOMAIN queue : queue[i] <= Len(offered)
  /\ \A i \in DOMAIN sent : sent[i] <= Len(offered)
  /\ \A i \in DOMAIN sent : \A j \in DOMAIN queue : sent[i] < queue[j]
  /\ Held => /\ consumer.event <= Len(offered)
             /\ \A j \in DOMAIN queue : consumer.event < queue[j]
             /\ \A i \in DOMAIN sent : sent[i] < consumer.event

\* Nothing was sent at first.
LEMMA InitOrder == Init => OrderInv
BY DEF Init, OrderInv, SentInOrder, Held, Idle

\* The types of what the order is about.
LEMMA OrderTypes ==
  TypeOK =>
    /\ queue \in Seq(Nat) /\ sent \in Seq(Nat)
    /\ Len(queue) \in Nat /\ Len(sent) \in Nat /\ Len(offered) \in Nat
    /\ DOMAIN queue = 1..Len(queue) /\ DOMAIN sent = 1..Len(sent)
    /\ \A i \in DOMAIN queue : queue[i] \in Nat
    /\ \A i \in DOMAIN sent : sent[i] \in Nat
    /\ consumer.event \in Nat
BY DEF TypeOK

\* A step that neither fills nor empties the queue, sends nothing and takes no
\* event up keeps the order.
LEMMA IdleOrder ==
  ASSUME OrderInv, queue' = queue, offered' = offered, sent' = sent,
         Held' => Held /\ consumer'.event = consumer.event
  PROVE  OrderInv'
<1>1. SentInOrder'
  BY DEF OrderInv, SentInOrder
<1>. QED  BY <1>1 DEF OrderInv

\* The last event offered comes after all others.
LEMMA EnqueueOrder ==
  ASSUME TypeOK, OrderInv, NEW r \in Runs, Enqueue(r)
  PROVE  OrderInv'
<1>1. /\ offered' = Append(offered, Event(r))
      /\ sent' = sent /\ consumer' = consumer
      /\ queue' = queue \/ queue' = Append(queue, Len(offered) + 1)
  BY DEF Enqueue, outcome, buffer
<1>2. Len(offered') = Len(offered) + 1
  <2>1. offered \in Seq(Runs \X Nat) /\ Event(r) \in Runs \X Nat
    BY DEF TypeOK, Event
  <2>. QED  BY <1>1, <2>1, AppendOf
<1>3. SentInOrder'
  BY <1>1 DEF OrderInv, SentInOrder
<1>4. CASE queue' = queue
  BY <1>1, <1>2, <1>3, <1>4, OrderTypes DEF OrderInv, Held
<1>5. CASE queue' = Append(queue, Len(offered) + 1)
  <2>1. /\ DOMAIN queue' = 1..(Len(queue) + 1)
        /\ queue'[Len(queue) + 1] = Len(offered) + 1
        /\ \A i \in 1..Len(queue) : queue'[i] = queue[i]
    BY <1>5, OrderTypes, AppendOf
  <2>2. \A j \in DOMAIN queue' : \/ j \in DOMAIN queue /\ queue'[j] = queue[j]
                                 \/ j = Len(queue) + 1 /\ queue'[j] = Len(offered) + 1
    BY <2>1, OrderTypes
  <2>3. /\ \A i \in DOMAIN queue : i \in Nat /\ i <= Len(queue) /\ queue[i] \in Nat
        /\ \A i \in DOMAIN sent : sent[i] \in Nat
        /\ Len(queue) \in Nat /\ Len(offered) \in Nat
    BY OrderTypes
  <2>4. \A i \in DOMAIN queue' : queue'[i] <= Len(offered')
    <3>1. \A i \in DOMAIN queue : queue[i] <= Len(offered)
      BY DEF OrderInv
    <3>. QED  BY <1>2, <2>2, <2>3, <3>1
  <2>5. \A i, j \in DOMAIN queue' : i < j => queue'[i] < queue'[j]
    <3>1. /\ \A i, j \in DOMAIN queue : i < j => queue[i] < queue[j]
          /\ \A i \in DOMAIN queue : queue[i] <= Len(offered)
      BY DEF OrderInv
    <3>. QED  BY <2>2, <2>3, <3>1
  <2>6. \A i \in DOMAIN sent : sent[i] <= Len(offered')
    BY <1>2, OrderTypes DEF OrderInv
  <2>7. \A i \in DOMAIN sent : \A j \in DOMAIN queue' : sent[i] < queue'[j]
    <3>1. /\ \A i \in DOMAIN sent : sent[i] <= Len(offered)
          /\ \A i \in DOMAIN sent : \A j \in DOMAIN queue : sent[i] < queue[j]
      BY DEF OrderInv
    <3>. QED  BY <2>2, <2>3, <3>1
  <2>8. ASSUME Held
        PROVE  /\ consumer.event <= Len(offered')
               /\ \A j \in DOMAIN queue' : consumer.event < queue'[j]
               /\ \A i \in DOMAIN sent : sent[i] < consumer.event
    <3>1. /\ consumer.event <= Len(offered) /\ consumer.event \in Nat
          /\ \A j \in DOMAIN queue : consumer.event < queue[j]
          /\ \A i \in DOMAIN sent : sent[i] < consumer.event
      BY <2>8, OrderTypes DEF OrderInv
    <3>. QED  BY <1>2, <2>2, <2>3, <3>1
  <2>. QED  BY <1>1, <1>3, <2>4, <2>5, <2>6, <2>7, <2>8 DEF OrderInv, Held
<1>. QED  BY <1>1, <1>4, <1>5

\* The event at the head of the queue comes before what the queue keeps.
LEMMA TakeOrder ==
  ASSUME TypeOK, OrderInv, queue # <<>>, queue' = Tail(queue),
         offered' = offered, sent' = sent,
         Held' => consumer'.event = Head(queue) \/ (Held /\ consumer'.event = consumer.event)
  PROVE  OrderInv'
<1>1. /\ Head(queue) = queue[1] /\ 1 \in DOMAIN queue
      /\ DOMAIN queue' = 1..(Len(queue) - 1)
      /\ \A j \in DOMAIN queue' : j + 1 \in DOMAIN queue /\ queue'[j] = queue[j + 1]
  <2>1. /\ Head(queue) = queue[1] /\ Len(queue) >= 1
        /\ DOMAIN Tail(queue) = 1..(Len(queue) - 1)
        /\ \A i \in 1..(Len(queue) - 1) : Tail(queue)[i] = queue[i + 1]
    BY OrderTypes, TailOf
  <2>. QED  BY <2>1, OrderTypes
<1>2. SentInOrder'
  BY DEF OrderInv, SentInOrder
<1>3. \A j \in DOMAIN queue' : j \in Nat /\ 1 < j + 1
  BY <1>1, OrderTypes
<1>4. \A i, j \in DOMAIN queue' : i < j => queue'[i] < queue'[j]
  BY <1>1, <1>3 DEF OrderInv
<1>5. /\ \A j \in DOMAIN queue' : queue'[j] <= Len(offered')
      /\ \A i \in DOMAIN sent : \A j \in DOMAIN queue' : sent[i] < queue'[j]
      /\ \A i \in DOMAIN sent : sent[i] <= Len(offered')
  BY <1>1 DEF OrderInv
<1>6. /\ Head(queue) <= Len(offered')
      /\ \A j \in DOMAIN queue' : Head(queue) < queue'[j]
      /\ \A i \in DOMAIN sent : sent[i] < Head(queue)
  BY <1>1, <1>3 DEF OrderInv
<1>7. ASSUME Held, consumer'.event = consumer.event
      PROVE  /\ consumer'.event <= Len(offered')
             /\ \A j \in DOMAIN queue' : consumer'.event < queue'[j]
             /\ \A i \in DOMAIN sent : sent[i] < consumer'.event
  BY <1>1, <1>7 DEF OrderInv
<1>8. Held' => /\ consumer'.event <= Len(offered')
               /\ \A j \in DOMAIN queue' : consumer'.event < queue'[j]
               /\ \A i \in DOMAIN sent : sent[i] < consumer'.event
  BY <1>6, <1>7
<1>. QED  BY <1>2, <1>4, <1>5, <1>8 DEF OrderInv

\* The event that was sent comes after all that were sent before.
LEMMA SentOrder == ASSUME TypeOK, OrderInv, Sent PROVE OrderInv'
<1>1. /\ consumer.at = "sending" /\ consumer'.at = "idle"
      /\ sent' = Append(sent, consumer.event) /\ queue' = queue /\ offered' = offered
  BY DEF Sent, Idle
<1>2. Held /\ ~Held'
  BY <1>1 DEF Held
<1>3. /\ DOMAIN sent' = 1..(Len(sent) + 1)
      /\ sent'[Len(sent) + 1] = consumer.event
      /\ \A i \in 1..Len(sent) : sent'[i] = sent[i]
  BY <1>1, OrderTypes, AppendOf
<1>4. SentInOrder'
  <2>1. ASSUME NEW i \in DOMAIN sent', NEW j \in DOMAIN sent', i < j
        PROVE  sent'[i] < sent'[j]
    <3>1. i \in DOMAIN sent /\ sent'[i] = sent[i]
      BY <1>3, <2>1, OrderTypes
    <3>2. CASE j \in DOMAIN sent
      BY <1>3, <2>1, <3>1, <3>2, OrderTypes DEF OrderInv, SentInOrder
    <3>3. CASE j = Len(sent) + 1
      BY <1>2, <1>3, <3>1, <3>3 DEF OrderInv
    <3>. QED  BY <1>3, <2>1, <3>2, <3>3, OrderTypes
  <2>. QED  BY <2>1 DEF SentInOrder
<1>5. \A i \in DOMAIN sent' :
        sent'[i] <= Len(offered) /\ \A j \in DOMAIN queue : sent'[i] < queue[j]
  BY <1>2, <1>3, OrderTypes DEF OrderInv
<1>. QED  BY <1>1, <1>2, <1>4, <1>5 DEF OrderInv

\* Every step keeps the order.
LEMMA NextOrder == TypeOK /\ OrderInv /\ [Next]_vars => OrderInv'
<1>. SUFFICES ASSUME TypeOK, OrderInv, [Next]_vars PROVE OrderInv'
  OBVIOUS
<1>1. ASSUME NEW r \in Runs, Emit(r) \/ Observe(r) PROVE OrderInv'
  <2>1. UNCHANGED <<queue, offered, sent, consumer>>
    BY <1>1 DEF Emit, Observe, buffer, outcome
  <2>. QED  BY <2>1, IdleOrder DEF Held
<1>2. ASSUME NEW h \in Handlers, Subscribe(h) PROVE OrderInv'
  <2>1. UNCHANGED <<queue, offered, sent, consumer>>
    BY <1>2 DEF Subscribe, buffer, outcome
  <2>. QED  BY <2>1, IdleOrder DEF Held
<1>3. CASE StartWait \/ TimeOut \/ SendFails \/ CancelWait
  <2>1. UNCHANGED <<queue, offered, sent>> /\ consumer'.at \in {"idle", "waiting"}
    BY <1>3 DEF StartWait, TimeOut, SendFails, CancelWait, Idle, buffer, outcome
  <2>. QED  BY <2>1, IdleOrder DEF Held
<1>4. CASE Resume
  <2>1. /\ UNCHANGED <<queue, offered, sent>>
        /\ consumer.at = "got" /\ consumer' = [consumer EXCEPT !.at = "sending"]
    BY <1>4 DEF Resume, buffer, outcome
  <2>2. consumer'.event = consumer.event
    BY <2>1 DEF TypeOK
  <2>. QED  BY <2>1, <2>2, IdleOrder DEF Held
<1>5. CASE OrphanTimesOut
  <2>1. UNCHANGED <<queue, offered, sent, consumer>>
    BY <1>5 DEF OrphanTimesOut, buffer, outcome
  <2>. QED  BY <2>1, IdleOrder DEF Held
<1>6. CASE Get
  <2>1. /\ queue # <<>> /\ queue' = Tail(queue) /\ offered' = offered /\ sent' = sent
        /\ consumer'.event = Head(queue)
    BY <1>6 DEF Get, outcome
  <2>. QED  BY <2>1, TakeOrder
<1>7. CASE OrphanGets
  <2>1. /\ queue # <<>> /\ queue' = Tail(queue) /\ offered' = offered /\ sent' = sent
        /\ consumer' = consumer
    BY <1>7 DEF OrphanGets
  <2>. QED  BY <2>1, TakeOrder DEF Held
<1>8. CASE UNCHANGED vars
  <2>1. UNCHANGED <<queue, offered, sent, consumer>>
    BY <1>8 DEF vars, buffer, outcome
  <2>. QED  BY <2>1, IdleOrder DEF Held
<1>. QED  BY <1>1, <1>2, <1>3, <1>4, <1>5, <1>6, <1>7, <1>8, EnqueueOrder, SentOrder
          DEF Next, Board, Consume

\* The forwarder is offered every event it was subscribed for and may see, once,
\* and what is sent leaves in the order in which it was offered.
THEOREM Faithful == Spec => []ForwardsFaithfully
<1>1. Init => EventsAreAccountedFor /\ DispatchInv /\ OrderInv
  BY InitAccounted, InitDispatch, InitOrder
<1>2. EventsAreAccountedFor /\ DispatchInv /\ OrderInv /\ [Next]_vars =>
        (EventsAreAccountedFor /\ DispatchInv /\ OrderInv)'
  BY NextAccounted, NextDispatch, NextOrder DEF EventsAreAccountedFor
<1>3. EventsAreAccountedFor /\ DispatchInv /\ OrderInv => ForwardsFaithfully
  BY DispatchOffers DEF ForwardsFaithfully, OrderInv
<1>. QED  BY <1>1, <1>2, <1>3, PTL DEF Spec

-----------------------------------------------------------------------------
\* No dispatch goes on for ever.

\* What a run has still before it, what weighs most first: events to emit, subscribers
\* to call.
Ahead(r) == <<Len(Visibility[r]) - emitted[r], Len(rest[r])>>

Shorter == LexProductOrdering(OpToRel(<, Nat), Nat, 2)

\* No run emits more events than it has.
EmittedFits == \A r \in Runs : emitted[r] <= Len(Visibility[r])

AheadOK == \A r \in Runs : Ahead(r) \in [1..2 -> Nat]

LEMMA LengthsOf == \A r \in Runs : Len(Visibility[r]) \in Nat
BY ForwarderAssumption

\* Only a board dispatches.
LEMMA OthersCall ==
  ASSUME Consume \/ (\E h \in Handlers : Subscribe(h)) \/ UNCHANGED vars
  PROVE  emitted' = emitted /\ rest' = rest
<1>1. UNCHANGED dispatching => emitted' = emitted /\ rest' = rest
  BY DEF dispatching
<1>2. CASE Consume
  BY <1>1, <1>2 DEF Consume, StartWait, Get, TimeOut, Resume, Sent, SendFails, CancelWait,
     OrphanGets, OrphanTimesOut
<1>3. CASE (\E h \in Handlers : Subscribe(h)) \/ UNCHANGED vars
  BY <1>1, <1>3 DEF Subscribe, vars
<1>. QED  BY <1>2, <1>3

LEMMA InitEmitted == Init => EmittedFits
<1>. SUFFICES ASSUME Init, NEW r \in Runs PROVE emitted[r] <= Len(Visibility[r])
  BY DEF EmittedFits
<1>1. emitted[r] = 0
  BY DEF Init
<1>. QED  BY <1>1, LengthsOf

LEMMA NextEmitted == TypeOK /\ EmittedFits /\ [Next]_vars => EmittedFits'
<1>. SUFFICES ASSUME TypeOK, EmittedFits, [Next]_vars PROVE EmittedFits'
  OBVIOUS
<1>1. emitted \in [Runs -> Nat]
  BY DEF TypeOK
<1>2. ASSUME NEW r \in Runs, Emit(r) PROVE EmittedFits'
  BY <1>1, <1>2, LengthsOf DEF Emit, EmittedFits
<1>3. ASSUME emitted' = emitted PROVE EmittedFits'
  BY <1>3 DEF EmittedFits
<1>4. ASSUME NEW r \in Runs, Board(r) PROVE EmittedFits'
  BY <1>2, <1>3, <1>4 DEF Board, Observe, Enqueue
<1>5. CASE Consume \/ (\E h \in Handlers : Subscribe(h)) \/ UNCHANGED vars
  BY <1>3, <1>5, OthersCall
<1>. QED  BY <1>4, <1>5 DEF Next

\* Each place is a number.
LEMMA AheadType == ASSUME TypeOK, EmittedFits PROVE AheadOK
<1>. SUFFICES ASSUME NEW r \in Runs PROVE Ahead(r) \in [1..2 -> Nat]
  BY DEF AheadOK
<1>1. Len(Visibility[r]) - emitted[r] \in Nat
  <2>1. /\ Len(Visibility[r]) \in Nat /\ emitted[r] \in Nat
        /\ emitted[r] <= Len(Visibility[r])
    BY LengthsOf DEF TypeOK, EmittedFits
  <2>. QED  BY ONLY <2>1
<1>2. Len(rest[r]) \in Nat
  BY DEF TypeOK
<1>. QED  BY <1>1, <1>2 DEF Ahead

\* Less at one place, the same before it.
LEMMA ShorterAt ==
  ASSUME NEW s \in [1..2 -> Nat], NEW t \in [1..2 -> Nat], NEW k \in 1..2,
         t[k] < s[k], \A j \in 1..(k - 1) : t[j] = s[j]
  PROVE  <<t, s>> \in Shorter
<1>1. <<t[k], s[k]>> \in OpToRel(<, Nat)
  BY DEF OpToRel
<1>. QED  BY <1>1 DEF Shorter, LexProductOrdering

LEMMA BoardShortens ==
  ASSUME TypeOK, AheadOK, AheadOK', NEW r \in Runs, Board(r)
  PROVE  <<Ahead(r)', Ahead(r)>> \in Shorter
<1>1. Ahead(r) \in [1..2 -> Nat] /\ Ahead(r)' \in [1..2 -> Nat]
  BY DEF AheadOK
<1>2. /\ Len(Visibility[r]) \in Nat
      /\ emitted \in [Runs -> Nat] /\ rest \in [Runs -> Seq(Handlers)]
  BY LengthsOf DEF TypeOK
<1>3. CASE Emit(r)
  <2>1. emitted'[r] = emitted[r] + 1
    BY <1>2, <1>3 DEF Emit
  <2>2. Ahead(r)'[1] < Ahead(r)[1]
    BY <1>2, <2>1 DEF Ahead
  <2>. QED  BY <1>1, <2>2, ShorterAt
<1>4. CASE Observe(r) \/ Enqueue(r)
  <2>1. emitted' = emitted /\ rest[r] # <<>> /\ rest'[r] = Tail(rest[r])
    BY <1>2, <1>4 DEF Observe, Enqueue
  <2>2. Len(rest[r]) \in Nat /\ Len(rest'[r]) = Len(rest[r]) - 1
    BY <1>2, <2>1, TailOf
  <2>3. Ahead(r)'[1] = Ahead(r)[1] /\ Ahead(r)'[2] < Ahead(r)[2]
    BY <2>1, <2>2 DEF Ahead
  <2>4. \A j \in 1..(2 - 1) : Ahead(r)'[j] = Ahead(r)[j]
    BY <2>3
  <2>. QED  BY <1>1, <2>3, <2>4, ShorterAt
<1>. QED  BY <1>3, <1>4 DEF Board

\* Nobody else calls the subscribers of a run.
LEMMA OthersStay ==
  ASSUME TypeOK, NEW r \in Runs, [Next]_vars, ~Board(r)
  PROVE  Ahead(r)' = Ahead(r)
<1>1. emitted \in [Runs -> Nat] /\ rest \in [Runs -> Seq(Handlers)]
  BY DEF TypeOK
<1>2. ASSUME NEW q \in Runs, Board(q) PROVE emitted'[r] = emitted[r] /\ rest'[r] = rest[r]
  BY <1>1, <1>2 DEF Board, Emit, Observe, Enqueue
<1>3. CASE Consume \/ (\E h \in Handlers : Subscribe(h)) \/ UNCHANGED vars
  BY <1>3, OthersCall DEF Ahead
<1>4. CASE \E q \in Runs : Board(q)
  BY <1>2, <1>4 DEF Ahead
<1>. QED  BY <1>3, <1>4 DEF Next

\* Every step of a board brings its dispatches nearer to their end, in an order in which
\* nothing falls for ever; nothing that the other boards, the task that forwards, its
\* threads or a new subscriber do sets it back, a full queue included.
THEOREM DispatchesRunDown ==
  /\ IsWellFoundedOn(Shorter, [1..2 -> Nat])
  /\ Spec => [][\A r \in Runs :
                  /\ Ahead(r) \in [1..2 -> Nat]
                  /\ IF Board(r) THEN <<Ahead(r)', Ahead(r)>> \in Shorter
                                 ELSE Ahead(r)' = Ahead(r)]_vars
<1>1. IsWellFoundedOn(Shorter, [1..2 -> Nat])
  BY NatLessThanWellFounded, WFLexProductOrdering DEF Shorter
<1>2. Spec => []EmittedFits
  <2>1. EventsAreAccountedFor => TypeOK
    BY DEF EventsAreAccountedFor
  <2>. QED  BY <2>1, InitEmitted, NextEmitted, Accounted, PTL DEF Spec
<1>3. EventsAreAccountedFor /\ EmittedFits => TypeOK /\ AheadOK
  BY AheadType DEF EventsAreAccountedFor
<1>4. ASSUME TypeOK, AheadOK, AheadOK', [Next]_vars
      PROVE  [\A r \in Runs :
                  /\ Ahead(r) \in [1..2 -> Nat]
                  /\ IF Board(r) THEN <<Ahead(r)', Ahead(r)>> \in Shorter
                                 ELSE Ahead(r)' = Ahead(r)]_vars
  BY <1>4, BoardShortens, OthersStay DEF AheadOK
<1>5. Spec => [][\A r \in Runs :
                  /\ Ahead(r) \in [1..2 -> Nat]
                  /\ IF Board(r) THEN <<Ahead(r)', Ahead(r)>> \in Shorter
                                 ELSE Ahead(r)' = Ahead(r)]_vars
  BY <1>2, <1>3, <1>4, Accounted, PTL DEF Spec
<1>. QED  BY <1>1, <1>5
=============================================================================
