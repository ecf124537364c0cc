----------------------------- MODULE ChatStream -----------------------------
(***************************************************************************)
(* POST /chat: stream_ai (src/main.py), the two generators behind it,       *)
(* build_chat_stream and iter_agent_events (src/src/api/sse.py), the hook   *)
(* that carries the milestones of a run from the thread of its board to the *)
(* event loop, and the token store of src/src/api/session_auth.py.          *)
(*                                                                         *)
(* One action is what the event loop or a thread does between two           *)
(* suspensions.  The run itself (Harness) is abstracted to its milestones   *)
(* and its end.  The server that pulls the generators and notices that a    *)
(* client is gone is Starlette's: it sends each frame before it asks for    *)
(* the next, and cancels what it waits for when the client is gone.         *)
(***************************************************************************)
EXTENDS Naturals, Sequences, FiniteSets, SequencesExt

CONSTANTS
  Streams,        \* the requests
  Users,
  Tokens,
  UserOf,         \* req.user_id
  TokenOf,        \* req.token
  NoToken,        \* the user is not bound
  Window,         \* window_size of the history, in messages
  Chunks,         \* frames that an answer is cut into
  MaxMilestones,  \* bound of the model on the milestones of a run, by stream
  Leaving         \* bound of the model: the streams whose client may go away

ASSUME ChatAssumption ==
  /\ UserOf \in [Streams -> Users]
  /\ TokenOf \in [Streams -> Tokens]
  /\ NoToken \notin Tokens
  /\ Window \in Nat \ {0} /\ Window % 2 = 0
  /\ Chunks \in Nat \ {0}
  /\ MaxMilestones \in [Streams -> Nat]
  /\ Leaving \subseteq Streams
  /\ Streams \cap Users = {}

VARIABLES
  bindings,   \* InMemoryTokenBindingStore, by user
  lists,      \* the list objects that history_store has referred to
  stored,     \* history_store: the list of each user, named by who made it
  captured,   \* stored_history of each stream: the list, or "none"
  client,     \* is the client still there?
  phase,      \* where the generators of each stream are
  out,        \* what iter_agent_events yields without waiting
  frames,     \* what the stream handed to the server
  run,        \* the background task run_with_dispatcher
  emitted,    \* USER milestones of each run
  callbacks,  \* what the thread of a run asked the event loop to call
  queue,      \* the asyncio.Queue of each stream
  \* history variables
  saved,      \* streams that put their turn in the history, by user
  elsewhere   \* open streams that had another list when this one saved its turn

auth == <<bindings>>
history == <<lists, stored, captured, saved, elsewhere>>
stream == <<client, phase, out, frames>>
background == <<run, emitted, callbacks, queue>>
vars == <<auth, history, stream, background>>

Phases == {"new", "rejected", "starting", "waiting", "checking", "sending", "closed"}

RunStates == {"none", "preparing", "board", "finalizing", "answered", "failed", "cancelled"}

\* run_task has not ended.
RunIsLive(s) == run[s] \in {"preparing", "board", "finalizing"}

\* Events and frames have a type and, where there are several, a number.
Milestones == {"milestone"} \X (Nat \ {0})

Pieces == {"chunk"} \X (1..Chunks)

RunStarted == <<"run_started", 0>>
DoneFrame == <<"done", 0>>
ErrorFrame == <<"error", 0>>
EndMark == <<"[DONE]", 0>>

Frames == Milestones \cup Pieces \cup {RunStarted, DoneFrame, ErrorFrame, EndMark}

Progress(n) == [i \in 1..n |-> <<"milestone", i>>]

Answer == [i \in 1..Chunks |-> <<"chunk", i>>]

\* None, that ends a queue, and the end of a thread among the callbacks.
Sentinel == <<"None", 0>>

\* The generators of the stream are suspended somewhere.
Open(s) == phase[s] \in {"waiting", "checking", "sending"}

Messages == Streams \X {"user", "assistant"}

Turn(s) == << <<s, "user">>, <<s, "assistant">> >>

\* Mutant: the window may start with an answer whose question is gone.
WindowOfOneMore(n, messages) ==
  SubSeq(messages, IF Len(messages) > n + 1 THEN Len(messages) - n ELSE 1, Len(messages))

\* sliding_window_context_manager
LastMessages(n, messages) ==
  SubSeq(messages, IF Len(messages) > n THEN Len(messages) - n + 1 ELSE 1, Len(messages))

Init ==
  /\ bindings = [u \in Users |-> NoToken]
  /\ lists = [x \in Users \cup Streams |-> <<>>]
  /\ stored = [u \in Users |-> u]
  /\ captured = [s \in Streams |-> "none"]
  /\ client = [s \in Streams |-> TRUE]
  /\ phase = [s \in Streams |-> "new"]
  /\ out = [s \in Streams |-> <<>>]
  /\ frames = [s \in Streams |-> <<>>]
  /\ run = [s \in Streams |-> "none"]
  /\ emitted = [s \in Streams |-> 0]
  /\ callbacks = [s \in Streams |-> <<>>]
  /\ queue = [s \in Streams |-> <<>>]
  /\ saved = [u \in Users |-> <<>>]
  /\ elsewhere = [s \in Streams |-> {}]

\* The thread of the board has not ended.
ThreadWorks(s) ==
  run[s] = "board" /\ \A i \in DOMAIN callbacks[s] : callbacks[s][i] # Sentinel

Go(s, from, to) == phase[s] = from /\ phase' = [phase EXCEPT ![s] = to]

\* The frame f is handed to the server.
Send(s, f) == frames' = [frames EXCEPT ![s] = Append(@, f)]

-----------------------------------------------------------------------------
\* The request.

\* Mutant: the last token is bound, whoever brings it.
BindAny(u, t) == bindings[u] = NoToken \/ bindings[u] # t

\* authenticate_or_bind: the first token of a user is bound.
BindsFirst(u, t) == bindings[u] = NoToken

StreamAI(s) ==
  LET u == UserOf[s]
      t == TokenOf[s]
  IN  /\ phase[s] = "new"
      /\ \/ /\ BindsFirst(u, t)
            /\ bindings' = [bindings EXCEPT ![u] = t]
            /\ phase' = [phase EXCEPT ![s] = "starting"]
         \/ /\ ~ BindsFirst(u, t) /\ bindings[u] = t
            /\ phase' = [phase EXCEPT ![s] = "starting"]
            /\ UNCHANGED bindings
         \/ /\ ~ BindsFirst(u, t) /\ bindings[u] # t
            /\ phase' = [phase EXCEPT ![s] = "rejected"]
            /\ UNCHANGED bindings
      /\ UNCHANGED <<history, client, out, frames, background>>

\* The generators start, up to the first wait for an event.
BuildChatStream(s) ==
  /\ Go(s, "starting", "waiting")
  /\ captured' = [captured EXCEPT ![s] = stored[UserOf[s]]]
  /\ run' = [run EXCEPT ![s] = "preparing"]
  /\ UNCHANGED <<auth, lists, stored, saved, elsewhere, client, out, frames, emitted, callbacks, queue>>

-----------------------------------------------------------------------------
\* The run in the background.

StartBoard(s) ==
  /\ run[s] = "preparing"
  /\ run' = [run EXCEPT ![s] = "board"]
  /\ UNCHANGED <<auth, history, stream, emitted, callbacks, queue>>

\* The thread of the board appends an event that the user may see.
EventSink(s) ==
  /\ ThreadWorks(s)
  /\ emitted[s] < MaxMilestones[s]
  /\ emitted' = [emitted EXCEPT ![s] = @ + 1]
  /\ callbacks' = [callbacks EXCEPT ![s] = Append(@, <<"milestone", emitted[s] + 1>>)]
  /\ UNCHANGED <<auth, history, stream, run, queue>>

\* Mutant: the end of the board overtakes the events it asked to be queued.
AheadOfEvents(s) == <<Sentinel>> \o callbacks[s]

\* The thread ends: the event loop is to wake the task up.
BehindEvents(s) == Append(callbacks[s], Sentinel)

BoardEnds(s) ==
  /\ ThreadWorks(s)
  /\ callbacks' = [callbacks EXCEPT ![s] = BehindEvents(s)]
  /\ UNCHANGED <<auth, history, stream, run, emitted, queue>>

\* The event loop makes the first call it was asked for.
EventLoop(s) ==
  /\ callbacks[s] # <<>>
  /\ callbacks' = [callbacks EXCEPT ![s] = Tail(@)]
  /\ LET call == Head(callbacks[s])
     IN  IF call = Sentinel
           THEN /\ run' = [run EXCEPT ![s] = IF @ = "board" THEN "finalizing" ELSE @]
                /\ UNCHANGED queue
           ELSE /\ queue' = [queue EXCEPT ![s] = Append(@, call)]
                /\ UNCHANGED run
  /\ UNCHANGED <<auth, history, stream, emitted>>

\* Mutant: a run that fails does not tell the reader.
WakeIfAnswered(s, result) == IF result = "answered" THEN Append(queue[s], Sentinel) ELSE queue[s]

\* However run_with_dispatcher ends, it puts the sentinel in the queue.
WakeReader(s, result) == Append(queue[s], Sentinel)

\* handle_async returns, or it raises, in prepare, in the thread or in finalize.
EndRun(s) ==
  \E result \in {"answered", "failed"} :
    /\ \/ run[s] = "finalizing"
       \/ run[s] = "preparing" /\ result = "failed"
    /\ run' = [run EXCEPT ![s] = result]
    /\ queue' = [queue EXCEPT ![s] = WakeReader(s, result)]
    /\ UNCHANGED <<auth, history, stream, emitted, callbacks>>

-----------------------------------------------------------------------------
\* The generators.

\* iter_agent_events has the next event, or the sentinel and with it the result.
TakeEvent(s) ==
  LET item == Head(queue[s])
      first == IF frames[s] = <<>> THEN <<RunStarted>> ELSE <<>>
  IN  /\ phase[s] = "waiting"
      /\ queue[s] # <<>>
      /\ queue' = [queue EXCEPT ![s] = Tail(@)]
      /\ \/ /\ item # Sentinel
            /\ out' = [out EXCEPT ![s] = Append(first, item)]
            /\ phase' = [phase EXCEPT ![s] = "checking"]
            /\ UNCHANGED frames
         \/ /\ item = Sentinel /\ run[s] = "answered"
            /\ out' = [out EXCEPT ![s] = first \o Answer]
            /\ phase' = [phase EXCEPT ![s] = "checking"]
            /\ UNCHANGED frames
         \/ /\ item = Sentinel /\ run[s] # "answered"
            /\ Send(s, ErrorFrame)
            /\ phase' = [phase EXCEPT ![s] = "sending"]
            /\ UNCHANGED out
      /\ UNCHANGED <<auth, history, client, run, emitted, callbacks>>

\* The client is there: the event becomes a frame.
Connected(s) ==
  /\ Go(s, "checking", "sending")
  /\ client[s]
  /\ Send(s, Head(out[s]))
  /\ out' = [out EXCEPT ![s] = Tail(@)]
  /\ UNCHANGED <<auth, history, client, background>>

\* It is not: the stream returns, by way of its finally clause.
Disconnected(s) ==
  /\ Go(s, "checking", "sending")
  /\ ~ client[s]
  /\ Send(s, EndMark)
  /\ out' = [out EXCEPT ![s] = <<>>]
  /\ UNCHANGED <<auth, history, client, background>>

LastFrame(s) == frames[s][Len(frames[s])]

ElsewhereNow(s) ==
  {q \in Streams : Open(q) /\ UserOf[q] = UserOf[s] /\ captured[q] # captured[s]}

\* Mutant: the stream extends a copy of the list that it was given.
SaveTurnOfACopy(s) ==
  LET u == UserOf[s]
  IN  /\ lists' = [lists EXCEPT ![s] = LastMessages(Window, lists[captured[s]] \o Turn(s))]
      /\ stored' = [stored EXCEPT ![u] = s]
      /\ saved' = [saved EXCEPT ![u] = Append(@, s)]
      /\ elsewhere' = [elsewhere EXCEPT ![s] = ElsewhereNow(s)]
      /\ UNCHANGED captured

\* All chunks are out: the turn extends the list that the stream was given, and
\* the last messages of it become the history, in a new list.
SaveTurn(s) ==
  LET u == UserOf[s]
      extended == lists[captured[s]] \o Turn(s)
  IN  /\ lists' = [lists EXCEPT ![captured[s]] = extended, ![s] = LastMessages(Window, extended)]
      /\ stored' = [stored EXCEPT ![u] = s]
      /\ saved' = [saved EXCEPT ![u] = Append(@, s)]
      /\ elsewhere' = [elsewhere EXCEPT ![s] = ElsewhereNow(s)]
      /\ UNCHANGED captured

\* The server has sent the frame and asks for the next one.
Resume(s) ==
  /\ phase[s] = "sending"
  /\ \/ /\ LastFrame(s) = EndMark
        /\ phase' = [phase EXCEPT ![s] = "closed"]
        /\ UNCHANGED <<history, frames>>
     \/ /\ LastFrame(s) \in {DoneFrame, ErrorFrame}
        /\ Send(s, EndMark)
        /\ UNCHANGED <<history, phase>>
     \/ /\ out[s] # <<>>
        /\ phase' = [phase EXCEPT ![s] = "checking"]
        /\ UNCHANGED <<history, frames>>
     \/ /\ out[s] = <<>> /\ LastFrame(s) \in Milestones
        /\ phase' = [phase EXCEPT ![s] = "waiting"]
        /\ UNCHANGED <<history, frames>>
     \/ /\ out[s] = <<>> /\ LastFrame(s) = <<"chunk", Chunks>>
        /\ SaveTurn(s)
        /\ Send(s, DoneFrame)
        /\ UNCHANGED phase
  /\ UNCHANGED <<auth, client, out, background>>

-----------------------------------------------------------------------------
\* The client goes away.

Disconnect(s) ==
  /\ s \in Leaving
  /\ client[s]
  /\ phase[s] = "starting" \/ Open(s)
  /\ client' = [client EXCEPT ![s] = FALSE]
  /\ UNCHANGED <<auth, history, phase, out, frames, background>>

\* The server cancels what it waits for: the queue, is_disconnected, or its own
\* send.  In the first two the finally clause of the stream yields once more, but
\* only iter_agent_events cancels the run, and only when it is the one that waits.
ServerCancels(s) ==
  /\ ~ client[s]
  /\ \/ /\ phase[s] \in {"starting", "sending"}
        /\ phase' = [phase EXCEPT ![s] = "closed"]
        /\ UNCHANGED <<frames, run, queue>>
     \/ /\ phase[s] \in {"waiting", "checking"}
        /\ phase' = [phase EXCEPT ![s] = "sending"]
        /\ Send(s, EndMark)
        /\ IF phase[s] = "waiting" /\ RunIsLive(s)
             THEN /\ run' = [run EXCEPT ![s] = "cancelled"]
                  /\ queue' = [queue EXCEPT ![s] = Append(@, Sentinel)]
             ELSE UNCHANGED <<run, queue>>
  /\ out' = [out EXCEPT ![s] = <<>>]
  /\ UNCHANGED <<auth, history, client, emitted, callbacks>>

Generators(s) == BuildChatStream(s) \/ TakeEvent(s) \/ Connected(s) \/ Disconnected(s) \/ Resume(s)

\* What the event loop and the threads do for the run, short of new milestones.
Background(s) == StartBoard(s) \/ BoardEnds(s) \/ EventLoop(s) \/ EndRun(s)

Next ==
  \E s \in Streams :
    \/ StreamAI(s)
    \/ Generators(s)
    \/ EventSink(s)
    \/ Background(s)
    \/ Disconnect(s)
    \/ ServerCancels(s)

\* The event loop runs what is ready, a board stops (TaskBoard), the storage
\* answers, and a client reads what it is sent or goes away.
Fairness ==
  \A s \in Streams : WF_vars(Generators(s)) /\ WF_vars(Background(s))

Spec == Init /\ [][Next]_vars /\ Fairness

-----------------------------------------------------------------------------
\* Properties.

\* The types of the stores, the streams and the runs; the history of a user is
\* never longer than the window.
TypeOK ==
  /\ bindings \in [Users -> Tokens \cup {NoToken}]
  /\ lists \in [Users \cup Streams -> Seq(Messages)]
  /\ stored \in [Users -> Users \cup Streams]
  /\ \A u \in Users : Len(lists[stored[u]]) <= Window
  /\ captured \in [Streams -> Users \cup Streams \cup {"none"}]
  /\ client \in [Streams -> BOOLEAN]
  /\ phase \in [Streams -> Phases]
  /\ out \in [Streams -> Seq(Frames)]
  /\ frames \in [Streams -> Seq(Frames)]
  /\ run \in [Streams -> RunStates]
  /\ emitted \in [Streams -> Nat]
  /\ \A s \in Streams : emitted[s] <= MaxMilestones[s]
  /\ callbacks \in [Streams -> Seq(Milestones \cup {Sentinel})]
  /\ queue \in [Streams -> Seq(Milestones \cup {Sentinel})]
  /\ saved \in [Users -> Seq(Streams)]
  /\ elsewhere \in [Streams -> SUBSET Streams]

\* What a client that stays receives: all milestones of the run, in order and
\* before the answer, then the whole answer, or an error in its place.
Started(s) == IF emitted[s] = 0 THEN <<>> ELSE <<RunStarted>> \o Progress(emitted[s])
Answered(s) == <<RunStarted>> \o Progress(emitted[s]) \o Answer \o <<DoneFrame, EndMark>>
Refused(s) == Started(s) \o <<ErrorFrame, EndMark>>

\* The frames of a stream are a beginning of such a transcript, cut short by the
\* end mark only when the client is gone; a stream that its client saw close is
\* a complete one.  Threads, event loop and queue lose and reorder nothing.
Transcript ==
  \A s \in Streams :
    LET n == Len(frames[s])
        cut == n > 0 /\ ~ client[s] /\ frames[s][n] = EndMark
        shown == IF cut THEN SubSeq(frames[s], 1, n - 1) ELSE frames[s]
    IN  /\ \/ IsPrefix(shown, Answered(s))
           \/ IsPrefix(shown, Refused(s))
        /\ client[s] /\ phase[s] = "closed" => frames[s] \in {Answered(s), Refused(s)}

\* A history consists of whole turns, a question and its answer, each turn once,
\* however the streams of a user overlap.
HistoryIsWhole ==
  \A u \in Users :
    LET h == lists[stored[u]]
        turns == 1..((Len(h) + 1) \div 2)
    IN  /\ \A i \in turns : \E s \in Streams : SubSeq(h, 2 * i - 1, 2 * i) = Turn(s)
        /\ \A i, j \in turns : i # j => h[2 * i] # h[2 * j]

\* A turn stays in the history until the window has moved past it: only a stream
\* that was open when the turn was saved, was given another list, and ends later
\* writes over it.  Streams that were given the same list keep each other's turns.
HistoryIsKept ==
  \A u \in Users : \A i \in DOMAIN saved[u] :
    LET s == saved[u][i]
        later == {saved[u][j] : j \in (i + 1)..Len(saved[u])}
    IN  2 * (Len(saved[u]) - i + 1) <= Window =>
          \/ elsewhere[s] \cap later # {}
          \/ \E j \in DOMAIN lists[stored[u]] : lists[stored[u]][j] = <<s, "user">>

\* All streams that were let in for a user came with the same token, the one that
\* was first.
OneTokenPerUser ==
  \A s, q \in Streams :
    UserOf[s] = UserOf[q] /\ {phase[s], phase[q]} \cap {"new", "rejected"} = {} =>
      TokenOf[s] = TokenOf[q]

\* What a user has in the stores is the user's own and whole, and stays.
HistoriesAreSound == OneTokenPerUser /\ HistoryIsWhole /\ HistoryIsKept

\* Every stream that was let in ends, whatever fails and whoever goes away.
StreamsEnd == <>[](\A s \in Streams : phase[s] \in {"new", "rejected", "closed"})

-----------------------------------------------------------------------------
\* Statements of the comments.

\* sse.py, 216: whether a stream ends normally or is cut off, the generation in
\* the background must be stopped.
GenerationIsStopped == \A s \in Streams : phase[s] = "closed" => ~ RunIsLive(s)
=============================================================================
