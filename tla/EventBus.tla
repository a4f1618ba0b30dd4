------------------------------ MODULE EventBus ------------------------------
(***************************************************************************)
(* engine/api/bus.py: SSEEventBus, and the generator of engine/api/routes/ *)
(* events.py that streams it to one client.                                *)
(*                                                                         *)
(* Supervisor threads emit; each emit copies the list of subscribers under *)
(* the lock and then schedules one put per subscriber on the event loop    *)
(* with call_soon_threadsafe.  The loop is one thread: it runs scheduled   *)
(* puts in order, and in between resumes generators and accepts clients.   *)
(* Event n of emitter e is <<e, n>>; shutdown() emits the sentinel.        *)
(***************************************************************************)
EXTENDS Integers, Sequences, FiniteSets, SequencesExt

CONSTANTS
    Emitters,     \* supervisor threads that emit events
    Shutdown,     \* the caller of shutdown()
    Subscribers,  \* SSE clients
    MaxEvents,    \* bound: events of one emitter
    Wanted        \* [Subscribers -> the events its type_filter lets through, by number]

Callers == Emitters \cup {Shutdown}

ASSUME BusConstants ==
    /\ Shutdown \notin Emitters
    /\ MaxEvents \in Nat \ {0}
    /\ Wanted \in [Subscribers -> SUBSET (1..MaxEvents)]

VARIABLES
    loop,         \* "unattached", "running" or "stopped"
    subs,         \* Seq: _subscribers
    sent,         \* [Callers -> emits begun]
    targets,      \* [Callers -> Seq: subscribers its emit has still to reach]
    ready,        \* Seq of <<subscriber, event>>: callbacks of the event loop
    queue,        \* [Subscribers -> Seq of events]: the client's asyncio.Queue
    stream,       \* [Subscribers -> "none", "open" or "closed"]
    received,     \* [Subscribers -> Seq of events sent to the client] (history)
    since         \* [Subscribers -> sent, at the moment of subscribing] (history)

vars == <<loop, subs, sent, targets, ready, queue, stream, received, since>>

Init ==
    /\ loop = "unattached"
    /\ subs = << >>
    /\ sent = [c \in Callers |-> 0]
    /\ targets = [c \in Callers |-> << >>]
    /\ ready = << >>
    /\ queue = [s \in Subscribers |-> << >>]
    /\ stream = [s \in Subscribers |-> "none"]
    /\ received = [s \in Subscribers |-> << >>]
    /\ since = [s \in Subscribers |-> sent]

(* Lifespan startup. *)
AttachLoop ==
    /\ loop = "unattached"
    /\ loop' = "running"
    /\ UNCHANGED <<subs, sent, targets, ready, queue, stream, received, since>>

(* emit and shutdown: dropped without a running loop, else the snapshot of  *)
(* the subscribers is taken.                                                *)
BeginEmit(c) ==
    /\ targets[c] = << >>
    /\ sent[c] < IF c = Shutdown THEN 1 ELSE MaxEvents
    /\ c = Shutdown => loop = "running"
    /\ sent' = [sent EXCEPT ![c] = @ + 1]
    /\ targets' = [targets EXCEPT ![c] = IF loop = "running" THEN subs ELSE << >>]
    /\ UNCHANGED <<loop, subs, ready, queue, stream, received, since>>

(* Mutation: the put is scheduled in front of those already waiting. *)
ScheduleInFront(c) ==
    /\ targets[c] # << >>
    /\ targets' = [targets EXCEPT ![c] = Tail(@)]
    /\ ready' = << <<Head(targets[c]), <<c, sent[c]>>>> >> \o ready
    /\ UNCHANGED <<loop, subs, sent, queue, stream, received, since>>

(* Mutation: only the first subscriber is served. *)
ScheduleFirstOnly(c) ==
    /\ targets[c] # << >>
    /\ targets' = [targets EXCEPT ![c] = << >>]
    /\ ready' = Append(ready, <<Head(targets[c]), <<c, sent[c]>>>>)
    /\ UNCHANGED <<loop, subs, sent, queue, stream, received, since>>

(* One turn of the loop over the snapshot: call_soon_threadsafe, whose      *)
(* RuntimeError after the loop was closed is ignored.                       *)
Schedule(c) ==
    /\ targets[c] # << >>
    /\ targets' = [targets EXCEPT ![c] = Tail(@)]
    /\ ready' = IF loop = "running"
                THEN Append(ready, <<Head(targets[c]), <<c, sent[c]>>>>)
                ELSE ready
    /\ UNCHANGED <<loop, subs, sent, queue, stream, received, since>>

(* shutdown() is called from the lifespan coroutine: while it runs, the     *)
(* loop's thread does nothing else.                                         *)
LoopFree == loop = "running" /\ targets[Shutdown] = << >>

(* put_nowait, on the event loop.  A queue nobody reads any more still      *)
(* takes it.                                                                *)
Deliver ==
    /\ LoopFree
    /\ ready # << >>
    /\ ready' = Tail(ready)
    /\ queue' = [queue EXCEPT ![Head(ready)[1]] = Append(@, Head(ready)[2])]
    /\ UNCHANGED <<loop, subs, sent, targets, stream, received, since>>

Subscribe(s) ==
    /\ LoopFree
    /\ stream[s] = "none"
    /\ stream' = [stream EXCEPT ![s] = "open"]
    /\ subs' = Append(subs, s)
    /\ since' = [since EXCEPT ![s] = sent]
    /\ UNCHANGED <<loop, sent, targets, ready, queue, received>>

(* The finally clause of the generator: unsubscribe, _subscribers.remove. *)
CloseStream(s) ==
    /\ stream' = [stream EXCEPT ![s] = "closed"]
    /\ \E i \in 1..Len(subs) : subs[i] = s /\ subs' = RemoveAt(subs, i)

(* Mutation: the generator passes the sentinel over. *)
StreamNextIgnoringSentinel(s) ==
    /\ LoopFree
    /\ stream[s] = "open"
    /\ queue[s] # << >>
    /\ queue' = [queue EXCEPT ![s] = Tail(@)]
    /\ received' = IF Head(queue[s])[1] # Shutdown /\ Head(queue[s])[2] \in Wanted[s]
                   THEN [received EXCEPT ![s] = Append(@, Head(queue[s]))]
                   ELSE received
    /\ UNCHANGED <<loop, subs, stream, sent, targets, ready, since>>

(* The generator gets the next event: the sentinel ends the stream, the     *)
(* type filter passes events over.  (A timeout only yields a heartbeat.)    *)
StreamNext(s) ==
    /\ LoopFree
    /\ stream[s] = "open"
    /\ queue[s] # << >>
    /\ queue' = [queue EXCEPT ![s] = Tail(@)]
    /\ IF Head(queue[s])[1] = Shutdown
       THEN CloseStream(s) /\ UNCHANGED received
       ELSE /\ received' = IF Head(queue[s])[2] \in Wanted[s]
                           THEN [received EXCEPT ![s] = Append(@, Head(queue[s]))]
                           ELSE received
            /\ UNCHANGED <<subs, stream>>
    /\ UNCHANGED <<loop, sent, targets, ready, since>>

Disconnect(s) ==
    /\ LoopFree
    /\ stream[s] = "open"
    /\ CloseStream(s)
    /\ UNCHANGED <<loop, sent, targets, ready, queue, received, since>>

(* The server's event loop ends some time after shutdown() returned. *)
StopLoop ==
    /\ LoopFree
    /\ sent[Shutdown] = 1
    /\ loop' = "stopped"
    /\ UNCHANGED <<subs, sent, targets, ready, queue, stream, received, since>>

Next ==
    \/ AttachLoop
    \/ \E c \in Callers : BeginEmit(c) \/ Schedule(c)
    \/ Deliver
    \/ \E s \in Subscribers : Subscribe(s) \/ StreamNext(s) \/ Disconnect(s)
    \/ StopLoop

Spec == Init /\ [][Next]_vars

(* Emitting threads finish their fan-out; the event loop runs its callbacks *)
(* and resumes every generator that has an event.                           *)
FairSpec ==
    /\ Spec
    /\ \A c \in Callers : WF_vars(Schedule(c))
    /\ WF_vars(Deliver)
    /\ \A s \in Subscribers : WF_vars(StreamNext(s))

-----------------------------------------------------------------------------
(* A client receives, of each emitter, the wanted events that followed its  *)
(* subscription, each once, in the order of emission and without a gap,     *)
(* although emitters, subscriptions and the event loop interleave.  This is *)
(* the order of one emitting thread: several may emit for one task.         *)
StreamInOrder ==
    \A s \in Subscribers : \A i \in 1..Len(received[s]) :
        LET e == received[s][i][1]
            n == received[s][i][2]
        IN  /\ e \in Emitters /\ n \in Wanted[s] /\ since[s][e] < n /\ n <= sent[e]
            /\ \A j \in 1..Len(received[s]) : received[s][j][1] = e /\ i < j => n < received[s][j][2]
            /\ \A m \in Wanted[s] : since[s][e] < m /\ m < n => Contains(received[s], <<e, m>>)

(* Every wanted event emitted while a client is connected reaches it,       *)
(* unless the client leaves or the server stops first.                      *)
EventsReachClients ==
    \A s \in Subscribers, e \in Emitters : \A n \in Wanted[s] :
        (stream[s] = "open" /\ since[s][e] < n /\ n <= sent[e])
            ~> (Contains(received[s], <<e, n>>) \/ stream[s] = "closed" \/ loop = "stopped")

(* shutdown() ends every stream that was open when it was called: a client  *)
(* is never left waiting for heartbeats while the loop still runs.          *)
ShutdownEndsStreams ==
    \A s \in Subscribers :
        (stream[s] = "open" /\ sent[Shutdown] = 1 /\ since[s][Shutdown] = 0)
            ~> (stream[s] = "closed" \/ loop = "stopped")
=============================================================================
