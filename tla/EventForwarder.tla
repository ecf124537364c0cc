--------------------------- MODULE EventForwarder ---------------------------
(***************************************************************************)
(* The read-only hooks of the runtime (src/src/runtime/hooks.py): boards    *)
(* that run in threads of their own dispatch their events to the            *)
(* subscribers of one HookDispatcher.  One subscriber is the enqueue of a   *)
(* BufferedEventForwarder, whose queue an asynchronous task empties with    *)
(* forward_one.                                                            *)
(*                                                                         *)
(* asyncio.to_thread waits in a thread for Queue.get.  When the task is     *)
(* cancelled the thread stays behind, and nobody reads what it gets.        *)
(*                                                                         *)
(* An event in the queue is named by its place in the order in which the    *)
(* events were offered to enqueue.                                         *)
(***************************************************************************)
EXTENDS Naturals, Sequences

CONSTANTS
  Runs,        \* the boards
  Visibility,  \* ranks of the events that a run emits, in order
  Observers,   \* the other subscribers
  Forwarder,   \* BufferedEventForwarder.enqueue as a subscriber
  MinRank,     \* HookSubscription.min_visibility of each subscriber
  MaxQueue,    \* max_queue_size
  MaxCancels   \* bound of the model: how often the task is cancelled

\* DEVELOPER, ADMIN, USER
Ranks == 0..2

Handlers == Observers \cup {Forwarder}

ASSUME ForwarderAssumption ==
  /\ Visibility \in [Runs -> Seq(Ranks)]
  /\ Forwarder \notin Observers
  /\ MinRank \in [Handlers -> Ranks]
  /\ MaxQueue \in Nat \ {0}
  /\ MaxCancels \in Nat

VARIABLES
  subs,        \* _subscriptions
  emitted,     \* events that each run appended to its board
  rest,        \* subscribers that the dispatch of each run has yet to call
  queue,       \* _queue
  unfinished,  \* its counter of tasks that are not done
  dropped,     \* dropped_count
  consumer,    \* where the call of forward_one is, and the event it holds
  orphans,     \* threads in Queue.get whose task was cancelled
  \* history variables
  due,         \* was the forwarder subscribed for the latest event of the run?
  offered,     \* events given to enqueue, in order
  sent,        \* events whose sender returned, in order
  failed,      \* events whose sender raised or was cancelled
  lost,        \* events that nobody has any more
  cancels      \* how often forward_one was cancelled before it had an event

dispatching == <<subs, emitted, rest, due>>
buffer == <<queue, unfinished>>
outcome == <<sent, failed, lost>>
vars == <<dispatching, buffer, dropped, consumer, orphans, offered, outcome, cancels>>

\* The event that run r appended last.
Event(r) == <<r, emitted[r]>>

Rank(e) == Visibility[e[1]][e[2]]

Idle == [at |-> "idle", event |-> 0]

Init ==
  /\ subs = <<>>
  /\ emitted = [r \in Runs |-> 0]
  /\ rest = [r \in Runs |-> <<>>]
  /\ due = [r \in Runs |-> FALSE]
  /\ queue = <<>>
  /\ unfinished = 0
  /\ dropped = 0
  /\ consumer = Idle
  /\ orphans = 0
  /\ offered = <<>>
  /\ sent = <<>>
  /\ failed = <<>>
  /\ lost = <<>>
  /\ cancels = 0

-----------------------------------------------------------------------------
\* HookDispatcher

\* subscribe, for a handler that is not there yet
Subscribe(h) ==
  /\ \A i \in DOMAIN subs : subs[i] # h
  /\ subs' = Append(subs, h)
  /\ UNCHANGED <<emitted, rest, due, buffer, dropped, consumer, orphans, offered,
                 outcome, cancels>>

\* Mutant: the ranks are compared the other way round.
MeetsAtMost(rank, h) == rank <= MinRank[h]

\* _meets_visibility
Meets(rank, h) == rank >= MinRank[h]

\* append_event and the beginning of dispatch: the subscribers of this moment.
Emit(r) ==
  /\ rest[r] = <<>>
  /\ emitted[r] < Len(Visibility[r])
  /\ emitted' = [emitted EXCEPT ![r] = @ + 1]
  /\ rest' = [rest EXCEPT ![r] = subs]
  /\ due' = [due EXCEPT ![r] = \E i \in DOMAIN subs : subs[i] = Forwarder]
  /\ UNCHANGED <<subs, buffer, dropped, consumer, orphans, offered, outcome, cancels>>

\* The forwarder is the next subscriber, and it may see the event.
IsForwarded(r) == Head(rest[r]) = Forwarder /\ Meets(Rank(Event(r)), Forwarder)

\* Mutant: the exception of an observer ends the dispatch.
ObserveUnisolated(r) ==
  /\ rest[r] # <<>>
  /\ ~IsForwarded(r)
  /\ \E left \in {Tail(rest[r]), <<>>} : rest' = [rest EXCEPT ![r] = left]
  /\ UNCHANGED <<subs, emitted, due, buffer, dropped, consumer, orphans, offered,
                 outcome, cancels>>

\* The next subscriber may not see the event, or is an observer, which is called
\* with a copy of it and returns or raises: that is the same for the dispatch.
Observe(r) ==
  /\ rest[r] # <<>>
  /\ ~IsForwarded(r)
  /\ rest' = [rest EXCEPT ![r] = Tail(@)]
  /\ UNCHANGED <<subs, emitted, due, buffer, dropped, consumer, orphans, offered,
                 outcome, cancels>>

-----------------------------------------------------------------------------
\* BufferedEventForwarder

\* Mutant: one place too many.
HasRoomForOneMore == Len(queue) <= MaxQueue

HasRoom == Len(queue) < MaxQueue

\* Mutant: enqueue waits for a free place (put instead of put_nowait).
EnqueueWaiting(r) ==
  /\ rest[r] # <<>>
  /\ IsForwarded(r)
  /\ HasRoom
  /\ rest' = [rest EXCEPT ![r] = Tail(@)]
  /\ offered' = Append(offered, Event(r))
  /\ queue' = Append(queue, Len(offered) + 1)
  /\ unfinished' = unfinished + 1
  /\ UNCHANGED <<subs, emitted, due, dropped, consumer, orphans, outcome, cancels>>

\* Mutant: a full queue gives up its oldest event, which is not counted.
EnqueueEvicting(r) ==
  /\ rest[r] # <<>>
  /\ IsForwarded(r)
  /\ rest' = [rest EXCEPT ![r] = Tail(@)]
  /\ offered' = Append(offered, Event(r))
  /\ queue' = Append(IF HasRoom THEN queue ELSE Tail(queue), Len(offered) + 1)
  /\ unfinished' = unfinished + (IF HasRoom THEN 1 ELSE 0)
  /\ UNCHANGED <<subs, emitted, due, dropped, consumer, orphans, outcome, cancels>>

\* enqueue: a full queue drops the event.
Enqueue(r) ==
  /\ rest[r] # <<>>
  /\ IsForwarded(r)
  /\ rest' = [rest EXCEPT ![r] = Tail(@)]
  /\ offered' = Append(offered, Event(r))
  /\ IF HasRoom
       THEN /\ queue' = Append(queue, Len(offered) + 1)
            /\ unfinished' = unfinished + 1
            /\ UNCHANGED dropped
       ELSE /\ dropped' = dropped + 1
            /\ UNCHANGED buffer
  /\ UNCHANGED <<subs, emitted, due, consumer, orphans, outcome, cancels>>

\* forward_one is called and a thread waits in Queue.get.
StartWait ==
  /\ consumer.at = "idle"
  /\ consumer' = [at |-> "waiting", event |-> 0]
  /\ UNCHANGED <<dispatching, buffer, dropped, orphans, offered, outcome, cancels>>

\* The thread gets an event; the task has not been resumed.
Get ==
  /\ consumer.at = "waiting"
  /\ queue # <<>>
  /\ consumer' = [at |-> "got", event |-> Head(queue)]
  /\ queue' = Tail(queue)
  /\ UNCHANGED <<dispatching, unfinished, dropped, orphans, offered, outcome, cancels>>

\* Mutant: the wait is given up in the task and not in Queue.get.
TimeOutInTask ==
  /\ consumer.at = "waiting"
  /\ queue = <<>>
  /\ consumer' = Idle
  /\ orphans' = orphans + 1
  /\ orphans < 2
  /\ UNCHANGED <<dispatching, buffer, dropped, offered, outcome, cancels>>

\* Queue.get raises Empty when its timeout is over: forward_one returns False.
TimeOut ==
  /\ consumer.at = "waiting"
  /\ queue = <<>>
  /\ consumer' = Idle
  /\ UNCHANGED <<dispatching, buffer, dropped, orphans, offered, outcome, cancels>>

\* The task is resumed with the event and awaits the sender.
Resume ==
  /\ consumer.at = "got"
  /\ consumer' = [consumer EXCEPT !.at = "sending"]
  /\ UNCHANGED <<dispatching, buffer, dropped, orphans, offered, outcome, cancels>>

Sent ==
  /\ consumer.at = "sending"
  /\ sent' = Append(sent, consumer.event)
  /\ unfinished' = unfinished - 1
  /\ consumer' = Idle
  /\ UNCHANGED <<dispatching, queue, dropped, orphans, offered, failed, lost, cancels>>

\* Mutant: an event that was not sent is put back in the queue.
SendAgain ==
  /\ consumer.at = "sending"
  /\ HasRoom
  /\ queue' = Append(queue, consumer.event)
  /\ consumer' = Idle
  /\ UNCHANGED <<dispatching, unfinished, dropped, orphans, offered, outcome, cancels>>

\* Mutant: task_done is called only after the sender returned.
SendFailsUndone ==
  /\ consumer.at = "sending"
  /\ failed' = Append(failed, consumer.event)
  /\ consumer' = Idle
  /\ UNCHANGED <<dispatching, buffer, dropped, orphans, offered, sent, lost, cancels>>

\* The sender raises, or the task is cancelled in it.
SendFails ==
  /\ consumer.at = "sending"
  /\ failed' = Append(failed, consumer.event)
  /\ unfinished' = unfinished - 1
  /\ consumer' = Idle
  /\ UNCHANGED <<dispatching, queue, dropped, orphans, offered, sent, lost, cancels>>

\* The task is cancelled while it waits for the thread: before the thread began,
\* while it is in Queue.get, or after it got an event.
CancelWait ==
  /\ consumer.at \in {"waiting", "got"}
  /\ cancels < MaxCancels
  /\ cancels' = cancels + 1
  /\ consumer' = Idle
  /\ IF consumer.at = "got"
       THEN lost' = Append(lost, consumer.event) /\ UNCHANGED orphans
       ELSE orphans' \in {orphans, orphans + 1} /\ UNCHANGED lost
  /\ UNCHANGED <<dispatching, buffer, dropped, offered, sent, failed>>

\* A thread that was left behind gets an event, or its timeout is over.
OrphanGets ==
  /\ orphans > 0
  /\ queue # <<>>
  /\ orphans' = orphans - 1
  /\ queue' = Tail(queue)
  /\ lost' = Append(lost, Head(queue))
  /\ UNCHANGED <<dispatching, unfinished, dropped, consumer, offered, sent, failed, cancels>>

OrphanTimesOut ==
  /\ orphans > 0
  /\ queue = <<>>
  /\ orphans' = orphans - 1
  /\ UNCHANGED <<dispatching, buffer, dropped, consumer, offered, outcome, cancels>>

Board(r) == Emit(r) \/ Observe(r) \/ Enqueue(r)

Consume ==
  StartWait \/ Get \/ TimeOut \/ Resume \/ Sent \/ SendFails \/ CancelWait
    \/ OrphanGets \/ OrphanTimesOut

Next ==
  \/ \E r \in Runs : Board(r)
  \/ \E h \in Handlers : Subscribe(h)
  \/ Consume

\* The threads of the boards run.  Nothing is assumed of the task that forwards.
Spec == Init /\ [][Next]_vars /\ \A r \in Runs : WF_vars(Board(r))

-----------------------------------------------------------------------------
\* Properties.

\* Events that forward_one holds, as a number.
InHand == IF consumer.at \in {"got", "sending"} THEN 1 ELSE 0

TypeOK ==
  /\ subs \in Seq(Handlers)
  /\ emitted \in [Runs -> Nat]
  /\ rest \in [Runs -> Seq(Handlers)]
  /\ due \in [Runs -> BOOLEAN]
  /\ queue \in Seq(Nat) /\ Len(queue) <= MaxQueue
  /\ unfinished \in Nat
  /\ dropped \in Nat
  /\ consumer \in [at : {"idle", "waiting", "got", "sending"}, event : Nat]
  /\ orphans \in Nat
  /\ offered \in Seq(Runs \X Nat)
  /\ sent \in Seq(Nat) /\ failed \in Seq(Nat) /\ lost \in Seq(Nat)
  /\ cancels \in 0..MaxCancels

\* When a dispatch is over, the forwarder was offered the event exactly once if
\* it was subscribed and may see it, whatever the other subscribers did before
\* and whatever the other runs dispatched in between; and never otherwise.
OfferedWhatIsVisible ==
  \A r \in Runs :
    rest[r] = <<>> /\ emitted[r] > 0 =>
      LET places == {i \in DOMAIN offered : offered[i] = Event(r)}
      IN  IF due[r] /\ Rank(Event(r)) >= MinRank[Forwarder]
            THEN \E i \in places : places = {i}
            ELSE places = {}

\* dropped_count is exact: every event that was offered is in the queue, in the
\* hands of the task, sent, failed, lost or counted as dropped.
DroppedIsExact ==
  Len(offered) =
    dropped + Len(queue) + InHand + Len(sent) + Len(failed) + Len(lost)

\* Events leave in the order in which they were offered, none twice, although
\* calls were cancelled, threads were left behind and senders failed.
SentInOrder == \A i, j \in DOMAIN sent : i < j => sent[i] < sent[j]

\* An event is lost without a trace only to a cancelled call: one for each, at
\* most.  A timeout loses none.
LossNeedsCancel == Len(lost) + orphans <= cancels

\* task_done was called for every event that came out of the queue and reached
\* the sender: what Queue.join would wait for beyond the queue is in the hands of
\* the task or lost for good.
JoinWaitsForLost == unfinished = Len(queue) + InHand + Len(lost)

\* Each event is dispatched once, forwarded in order or lost for a known reason.
EventsAreAccountedFor == TypeOK /\ DroppedIsExact /\ LossNeedsCancel /\ JoinWaitsForLost

\* What the forwarder is offered, and sends, is what the boards emit.
ForwardsFaithfully == OfferedWhatIsVisible /\ SentInOrder

\* A run ends its dispatches although nobody empties the queue and observers
\* fail: the boards do not depend on their hooks.
BoardsAreNotHeldUp ==
  \A r \in Runs : <>(emitted[r] = Len(Visibility[r]) /\ rest[r] = <<>>)
=============================================================================
