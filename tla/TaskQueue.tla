----------------------------- MODULE TaskQueue -----------------------------
(***************************************************************************)
(* engine/runtime/queue.py: BoundedTaskQueue, a deque behind two methods   *)
(* that first look at its length and then change it, without a lock.  The  *)
(* interpreter may switch threads between the two, so each is a step.      *)
(***************************************************************************)
EXTENDS Integers, Sequences, FiniteSets

CONSTANTS
    Threads,   \* request threads and the queue's consumer
    TaskIds,   \* task ids, each enqueued at most once here
    MaxSize,   \* max_size
    NoTask     \* None

ASSUME QueueConstants ==
    /\ IsFiniteSet(Threads)
    /\ NoTask \notin TaskIds
    /\ MaxSize \in Nat

VARIABLES
    deque,     \* _queue
    pc,        \* [Threads -> "idle", "append" or "popleft"]
    arg,       \* [Threads -> the id being enqueued]
    taken,     \* Seq: ids that dequeue returned (history)
    appended,  \* Seq: ids that enqueue appended (history)
    refused    \* the ids refused with QueueFull (history)

vars == <<deque, pc, arg, taken, appended, refused>>

Init ==
    /\ deque = << >>
    /\ pc = [t \in Threads |-> "idle"]
    /\ arg = [t \in Threads |-> NoTask]
    /\ taken = << >>
    /\ appended = << >>
    /\ refused = {}

Fresh(k) ==
    /\ \A t \in Threads : arg[t] # k
    /\ k \notin refused
    /\ \A i \in 1..Len(appended) : appended[i] # k

(* Mutation: > instead of >=. *)
FullOffByOne == Len(deque) > MaxSize

Full == Len(deque) >= MaxSize

(* enqueue: the length test, which raises QueueFull. *)
EnqueueCheck(t, k) ==
    /\ pc[t] = "idle"
    /\ Fresh(k)
    /\ IF Full
       THEN refused' = refused \cup {k} /\ UNCHANGED <<pc, arg>>
       ELSE /\ pc' = [pc EXCEPT ![t] = "append"]
            /\ arg' = [arg EXCEPT ![t] = k]
            /\ UNCHANGED refused
    /\ UNCHANGED <<deque, taken, appended>>

(* Mutation: appendleft. *)
AppendTaskLeft(t) ==
    /\ pc[t] = "append"
    /\ deque' = <<arg[t]>> \o deque
    /\ appended' = Append(appended, arg[t])
    /\ pc' = [pc EXCEPT ![t] = "idle"]
    /\ arg' = [arg EXCEPT ![t] = NoTask]
    /\ UNCHANGED <<taken, refused>>

AppendTask(t) ==
    /\ pc[t] = "append"
    /\ deque' = Append(deque, arg[t])
    /\ appended' = Append(appended, arg[t])
    /\ pc' = [pc EXCEPT ![t] = "idle"]
    /\ arg' = [arg EXCEPT ![t] = NoTask]
    /\ UNCHANGED <<taken, refused>>

(* dequeue: an empty queue returns None at once. *)
DequeueCheck(t) ==
    /\ pc[t] = "idle"
    /\ deque # << >>
    /\ pc' = [pc EXCEPT ![t] = "popleft"]
    /\ UNCHANGED <<deque, arg, taken, appended, refused>>

(* popleft of a deque that was emptied meanwhile raises IndexError. *)
PopLeft(t) ==
    /\ pc[t] = "popleft"
    /\ IF deque = << >>
       THEN UNCHANGED <<deque, taken>>
       ELSE taken' = Append(taken, Head(deque)) /\ deque' = Tail(deque)
    /\ pc' = [pc EXCEPT ![t] = "idle"]
    /\ UNCHANGED <<arg, appended, refused>>

Next ==
    \E t \in Threads :
        \/ \E k \in TaskIds : EnqueueCheck(t, k)
        \/ AppendTask(t) \/ DequeueCheck(t) \/ PopLeft(t)

Spec == Init /\ [][Next]_vars

-----------------------------------------------------------------------------
Appending == {t \in Threads : pc[t] = "append"}

(* Every id that enqueue appended is returned by at most one dequeue, in    *)
(* order, or still waits in the queue, although both methods race.          *)
FirstInFirstOut == appended = taken \o deque

(* "FIFO queue with a maximum capacity": the race between the length test   *)
(* and the append can exceed max_size, but by no more than one entry for    *)
(* each other thread.                                                       *)
OvershootBounded ==
    MaxSize > 0 => Len(deque) + Cardinality(Appending) <= MaxSize + Cardinality(Threads) - 1
=============================================================================
