--------------------------- MODULE EventBusProofs ---------------------------
(***************************************************************************)
(* Proofs about EventBus, for any emitters, clients, filters and number of *)
(* events.  An event of one emitter for one client is at one of four       *)
(* places: the emit that has still to reach the client, the callbacks of   *)
(* the event loop, the client's queue, and what the client received.  The  *)
(* invariant says that events pass these places in the order of emission   *)
(* and that, while the client is connected, none gets lost on the way.     *)
(***************************************************************************)
EXTENDS EventBus, SequenceTheorems, TLAPS

Events == Callers \X Nat
Puts == Subscribers \X Events

(* The values the variables take. *)
BusTypeOK ==
    /\ loop \in {"unattached", "running", "stopped"}
    /\ subs \in Seq(Subscribers)
    /\ sent \in [Callers -> Nat]
    /\ targets \in [Callers -> Seq(Subscribers)]
    /\ ready \in Seq(Puts)
    /\ queue \in [Subscribers -> Seq(Events)]
    /\ stream \in [Subscribers -> {"none", "open", "closed"}]
    /\ received \in [Subscribers -> Seq(Events)]
    /\ since \in [Subscribers -> [Callers -> Nat]]

Distinct(q) == \A i, j \in 1..Len(q) : q[i] = q[j] => i = j

(* _subscribers holds the clients that are connected, once, and the copies  *)
(* of it that emits work on hold no client twice.                           *)
SubscribedOnce ==
    /\ Distinct(subs)
    /\ \A c \in Callers : Distinct(targets[c])
    /\ \A s \in Subscribers : Contains(subs, s) <=> stream[s] = "open"

(* There is nothing for a client that has not subscribed yet. *)
NothingBefore(s) ==
    stream[s] = "none" =>
        /\ \A c \in Callers : ~Contains(targets[c], s)
        /\ \A i \in 1..Len(ready) : ready[i][1] # s
        /\ Len(queue[s]) = 0
        /\ Len(received[s]) = 0

(* An event of q[j]'s emitter that comes before it in p was emitted before. *)
Before(p, q) ==
    \A i \in 1..Len(p), j \in 1..Len(q) : p[i][1] = q[j][1] => p[i][2] < q[j][2]

Ascending(p) ==
    \A i, j \in 1..Len(p) : p[i][1] = p[j][1] /\ i < j => p[i][2] < p[j][2]

(* The same for the callbacks in r that concern s. *)
BeforePuts(p, r, s) ==
    \A i \in 1..Len(p), j \in 1..Len(r) :
        r[j][1] = s /\ p[i][1] = r[j][2][1] => p[i][2] < r[j][2][2]

AscendingPuts(r, s) ==
    \A i, j \in 1..Len(r) :
        r[i][1] = s /\ r[j][1] = s /\ r[i][2][1] = r[j][2][1] /\ i < j
            => r[i][2][2] < r[j][2][2]

InOrder(s) ==
    /\ Ascending(received[s])
    /\ Ascending(queue[s])
    /\ AscendingPuts(ready, s)
    /\ Before(received[s], queue[s])
    /\ BeforePuts(received[s], ready, s)
    /\ BeforePuts(queue[s], ready, s)

(* An event v that left its emit for s: emitted after the subscription, and *)
(* before the event that has still to reach s.                              *)
Emitted(v, s) ==
    /\ since[s][v[1]] < v[2]
    /\ v[2] <= sent[v[1]]
    /\ Contains(targets[v[1]], s) => v[2] < sent[v[1]]

AllEmitted(s) ==
    /\ \A i \in 1..Len(received[s]) : Emitted(received[s][i], s)
    /\ \A i \in 1..Len(queue[s]) : Emitted(queue[s][i], s)
    /\ \A i \in 1..Len(ready) : ready[i][1] = s => Emitted(ready[i][2], s)
    /\ \A c \in Callers : since[s][c] <= sent[c]
    /\ \A c \in Callers : Contains(targets[c], s) => since[s][c] < sent[c]

(* Where a wanted event is while its client is connected. *)
Somewhere(s, e, n) ==
    \/ Contains(received[s], <<e, n>>)
    \/ Contains(queue[s], <<e, n>>)
    \/ Contains(ready, <<s, <<e, n>>>>)
    \/ Contains(targets[e], s) /\ n = sent[e]

NoneLost(s) ==
    stream[s] = "open" /\ loop = "running" =>
        \A e \in Emitters : \A n \in Wanted[s] :
            since[s][e] < n /\ n <= sent[e] => Somewhere(s, e, n)

(* What was received is wanted and has no gap. *)
NoGap(s) ==
    \A i \in 1..Len(received[s]) :
        /\ received[s][i][1] \in Emitters
        /\ received[s][i][2] \in Wanted[s]
        /\ \A m \in Wanted[s] :
               since[s][received[s][i][1]] < m /\ m < received[s][i][2]
                   => Contains(received[s], <<received[s][i][1], m>>)

BusInv ==
    /\ BusTypeOK
    /\ SubscribedOnce
    /\ loop = "unattached" => \A s \in Subscribers : stream[s] = "none"
    /\ \A s \in Subscribers :
           NothingBefore(s) /\ InOrder(s) /\ AllEmitted(s) /\ NoneLost(s) /\ NoGap(s)

-----------------------------------------------------------------------------
(* The removal of one element. *)
LEMMA RemoveAtProperties ==
    ASSUME NEW S, NEW q \in Seq(S), NEW k \in 1..Len(q)
    PROVE  /\ RemoveAt(q, k) \in Seq(S)
           /\ Len(RemoveAt(q, k)) = Len(q) - 1
           /\ \A i \in 1..(Len(q) - 1) :
                  RemoveAt(q, k)[i] = IF i < k THEN q[i] ELSE q[i + 1]
  <1> DEFINE front == SubSeq(q, 1, k - 1)
             back == SubSeq(q, k + 1, Len(q))
  <1>0. k \in Nat /\ k >= 1 /\ k <= Len(q) /\ Len(q) \in Nat
    OBVIOUS
  <1>1. /\ front \in Seq(S) /\ Len(front) = k - 1
        /\ \A i \in 1..(k - 1) : front[i] = q[i]
    BY <1>0
  <1>2. /\ back \in Seq(S) /\ Len(back) = Len(q) - k
        /\ \A i \in 1..(Len(q) - k) : back[i] = q[k + i]
    BY <1>0
  <1>3. RemoveAt(q, k) = front \o back
    BY DEF RemoveAt
  <1> HIDE DEF front, back
  <1>4. /\ front \o back \in Seq(S) /\ Len(front \o back) = Len(front) + Len(back)
        /\ \A i \in 1..(Len(front) + Len(back)) :
               (front \o back)[i] = IF i <= Len(front) THEN front[i] ELSE back[i - Len(front)]
    BY <1>1, <1>2, ConcatProperties
  <1>5. Len(front) + Len(back) = Len(q) - 1
    BY <1>0, <1>1, <1>2
  <1>6. ASSUME NEW i \in 1..(Len(q) - 1)
        PROVE  (front \o back)[i] = IF i < k THEN q[i] ELSE q[i + 1]
    <2>1. (front \o back)[i] = IF i <= Len(front) THEN front[i] ELSE back[i - Len(front)]
      BY <1>4, <1>5
    <2>2. CASE i < k
      <3>1. i \in 1..(k - 1) /\ i <= Len(front)
        BY <1>0, <1>1, <2>2
      <3> QED  BY <1>1, <2>1, <2>2, <3>1
    <2>3. CASE ~(i < k)
      <3>1. i - (k - 1) \in 1..(Len(q) - k) /\ ~(i <= Len(front)) /\ k + (i - (k - 1)) = i + 1
        BY <1>0, <1>1, <2>3
      <3> QED  BY <1>1, <1>2, <2>1, <2>3, <3>1
    <2> QED  BY <2>2, <2>3
  <1> QED  BY <1>3, <1>4, <1>5, <1>6

(* Without it, a sequence that holds no element twice holds all others. *)
LEMMA RemoveAtOnce ==
    ASSUME NEW S, NEW q \in Seq(S), NEW k \in 1..Len(q), Distinct(q)
    PROVE  /\ Distinct(RemoveAt(q, k))
           /\ \A x : Contains(RemoveAt(q, k), x) <=> Contains(q, x) /\ x # q[k]
  <1> DEFINE r == RemoveAt(q, k)
  <1>1. /\ r \in Seq(S) /\ Len(r) = Len(q) - 1 /\ Len(q) \in Nat
        /\ \A i \in 1..(Len(q) - 1) : r[i] = IF i < k THEN q[i] ELSE q[i + 1]
    BY RemoveAtProperties
  <1> HIDE DEF r
  <1>2. Distinct(r)
    <2> SUFFICES ASSUME NEW i \in 1..Len(r), NEW j \in 1..Len(r), r[i] = r[j] PROVE i = j
      BY DEF Distinct
    <2>1. PICK a \in 1..Len(q) : r[i] = q[a] /\ a = IF i < k THEN i ELSE i + 1
      BY <1>1
    <2>2. PICK b \in 1..Len(q) : r[j] = q[b] /\ b = IF j < k THEN j ELSE j + 1
      BY <1>1
    <2>3. a = b
      BY <2>1, <2>2 DEF Distinct
    <2>4. i \in Int /\ j \in Int /\ k \in Int
      BY <1>1
    <2> QED  BY <2>1, <2>2, <2>3, <2>4
  <1>3. ASSUME NEW x, Contains(r, x) PROVE Contains(q, x) /\ x # q[k]
    BY <1>1, <1>3 DEF Contains, Distinct
  <1>4. ASSUME NEW x, Contains(q, x), x # q[k] PROVE Contains(r, x)
    <2>1. PICK i \in 1..Len(q) : q[i] = x
      BY <1>4 DEF Contains
    <2>2. CASE i < k
      BY <1>1, <2>1, <2>2 DEF Contains
    <2>3. CASE i > k
      <3>1. i - 1 \in 1..Len(r) /\ r[i - 1] = x
        BY <1>1, <2>1, <2>3
      <3> QED  BY <3>1 DEF Contains
    <2> QED  BY <1>4, <2>1, <2>2, <2>3
  <1> QED  BY <1>2, <1>3, <1>4 DEF r

(* The first element leaves. *)
LEMMA FirstLeaves ==
    ASSUME NEW S, NEW q \in Seq(S), q # << >>
    PROVE  /\ Tail(q) \in Seq(S) /\ Len(Tail(q)) = Len(q) - 1 /\ Len(q) \in Nat /\ Len(q) > 0
           /\ Head(q) \in S /\ Head(q) = q[1]
           /\ \A i \in 1..(Len(q) - 1) : Tail(q)[i] = q[i + 1]
  OBVIOUS

(* An element arrives. *)
LEMMA LastArrives ==
    ASSUME NEW S, NEW q \in Seq(S), NEW x \in S
    PROVE  /\ Append(q, x) \in Seq(S) /\ Len(Append(q, x)) = Len(q) + 1 /\ Len(q) \in Nat
           /\ \A i \in 1..Len(q) : Append(q, x)[i] = q[i]
           /\ Append(q, x)[Len(q) + 1] = x
  OBVIOUS

-----------------------------------------------------------------------------
(* What the invariant says of one client. *)
OfClient(s) ==
    NothingBefore(s) /\ InOrder(s) /\ AllEmitted(s) /\ NoneLost(s) /\ NoGap(s)

(* The invariant's parts, in the next state. *)
LEMMA BusPrimed ==
    ASSUME BusTypeOK', SubscribedOnce',
           loop' = "unattached" => \A s \in Subscribers : stream'[s] = "none",
           \A s \in Subscribers : OfClient(s)'
    PROVE  BusInv'
  BY DEF BusInv, OfClient

(* No clients and no events satisfy the invariant. *)
LEMMA BusInitial == Init => BusInv
  <1> SUFFICES ASSUME Init PROVE BusInv
    OBVIOUS
  <1>1. BusTypeOK
    BY DEF Init, BusTypeOK
  <1>2. SubscribedOnce
    BY DEF Init, SubscribedOnce, Distinct, Contains
  <1>3. loop = "unattached" => \A s \in Subscribers : stream[s] = "none"
    BY DEF Init
  <1>4. ASSUME NEW s \in Subscribers PROVE OfClient(s)
    <2>1. /\ Len(received[s]) = 0 /\ Len(queue[s]) = 0 /\ Len(ready) = 0
          /\ stream[s] = "none"
          /\ \A c \in Callers : Len(targets[c]) = 0 /\ since[s][c] = 0 /\ sent[c] = 0
      BY DEF Init
    <2>2. \A c \in Callers : ~Contains(targets[c], s)
      BY <2>1 DEF Contains
    <2>3. NothingBefore(s) /\ AllEmitted(s)
      BY <2>1, <2>2 DEF NothingBefore, AllEmitted
    <2>4. InOrder(s)
      BY <2>1 DEF InOrder, Ascending, AscendingPuts, Before, BeforePuts
    <2>5. NoneLost(s) /\ NoGap(s)
      BY <2>1 DEF NoneLost, NoGap
    <2> QED  BY <2>3, <2>4, <2>5 DEF OfClient
  <1> QED  BY <1>1, <1>2, <1>3, <1>4 DEF BusInv, OfClient

(* A client none of whose places changes. *)
LEMMA SameForClient ==
    ASSUME BusInv, NEW s \in Subscribers,
           UNCHANGED <<sent, targets, ready>>,
           received'[s] = received[s], queue'[s] = queue[s],
           stream'[s] = stream[s] \/ (stream[s] = "open" /\ stream'[s] = "closed"),
           since'[s] = since[s],
           loop' = loop \/ loop' = "stopped" \/ stream[s] = "none"
    PROVE  OfClient(s)'
  <1>0. OfClient(s)
    BY DEF BusInv, OfClient
  <1>1. NothingBefore(s)' /\ InOrder(s)' /\ NoGap(s)'
    BY <1>0 DEF OfClient, NothingBefore, InOrder, NoGap
  <1>2. AllEmitted(s)'
    BY <1>0 DEF OfClient, AllEmitted, Emitted
  <1>3. NoneLost(s)'
    BY <1>0 DEF OfClient, NoneLost, Somewhere
  <1> QED  BY <1>1, <1>2, <1>3 DEF OfClient

(* Attaching and stopping the loop. *)
LEMMA LoopStep == ASSUME BusInv, AttachLoop \/ StopLoop PROVE BusInv'
  <1>1. UNCHANGED <<subs, sent, targets, ready, queue, stream, received, since>>
    BY DEF AttachLoop, StopLoop
  <1>2. BusTypeOK' /\ loop' # "unattached"
    BY <1>1 DEF AttachLoop, StopLoop, BusInv, BusTypeOK
  <1>3. SubscribedOnce'
    BY <1>1 DEF BusInv, SubscribedOnce
  <1>4. ASSUME NEW s \in Subscribers PROVE OfClient(s)'
    <2>1. loop' = "stopped" \/ stream[s] = "none"
      BY DEF AttachLoop, StopLoop, BusInv
    <2> QED  BY <1>1, <2>1, SameForClient
  <1> QED  BY <1>2, <1>3, <1>4, BusPrimed

(* A client leaves: Disconnect. *)
LEMMA LeaveStep == ASSUME BusInv, NEW q \in Subscribers, Disconnect(q) PROVE BusInv'
  <1>1. /\ stream[q] = "open" /\ loop = "running" /\ CloseStream(q)
        /\ UNCHANGED <<loop, sent, targets, ready, queue, received, since>>
    BY DEF Disconnect, LoopFree
  <1>2. PICK k \in 1..Len(subs) : subs[k] = q /\ subs' = RemoveAt(subs, k)
    BY <1>1 DEF CloseStream
  <1>3. /\ subs \in Seq(Subscribers) /\ Distinct(subs)
        /\ \A s \in Subscribers : Contains(subs, s) <=> stream[s] = "open"
    BY DEF BusInv, BusTypeOK, SubscribedOnce
  <1>4. /\ subs' \in Seq(Subscribers) /\ Distinct(subs')
        /\ \A s \in Subscribers : Contains(subs', s) <=> Contains(subs, s) /\ s # q
    BY <1>2, <1>3, RemoveAtProperties, RemoveAtOnce
  <1>5. stream' = [stream EXCEPT ![q] = "closed"]
    BY <1>1 DEF CloseStream
  <1>6. BusTypeOK'
    BY <1>1, <1>4, <1>5 DEF BusInv, BusTypeOK
  <1>7. SubscribedOnce'
    <2>1. \A c \in Callers : Distinct(targets[c])'
      BY <1>1 DEF BusInv, SubscribedOnce
    <2>2. \A s \in Subscribers : stream'[s] = "open" <=> stream[s] = "open" /\ s # q
      BY <1>5 DEF BusInv, BusTypeOK
    <2> QED  BY <1>3, <1>4, <2>1, <2>2 DEF SubscribedOnce
  <1>8. ASSUME NEW s \in Subscribers PROVE OfClient(s)'
    <2>1. stream'[s] = stream[s] \/ (stream[s] = "open" /\ stream'[s] = "closed")
      BY <1>1, <1>5 DEF BusInv, BusTypeOK
    <2> QED  BY <1>1, <2>1, SameForClient
  <1> QED  BY <1>1, <1>6, <1>7, <1>8, BusPrimed

(* A client subscribes: nothing is there for it yet, and only later events  *)
(* count.                                                                   *)
LEMMA SubscribeStep == ASSUME BusInv, NEW q \in Subscribers, Subscribe(q) PROVE BusInv'
  <1>1. /\ stream[q] = "none" /\ loop = "running"
        /\ stream' = [stream EXCEPT ![q] = "open"]
        /\ subs' = Append(subs, q)
        /\ since' = [since EXCEPT ![q] = sent]
        /\ UNCHANGED <<loop, sent, targets, ready, queue, received>>
    BY DEF Subscribe, LoopFree
  <1>2. BusTypeOK
    BY DEF BusInv
  <1>3. BusTypeOK'
    BY <1>1, <1>2 DEF BusTypeOK
  <1>4. SubscribedOnce'
    <2>1. subs \in Seq(Subscribers) /\ Len(subs) \in Nat /\ ~Contains(subs, q) /\ Distinct(subs)
      BY <1>1, <1>2 DEF BusInv, BusTypeOK, SubscribedOnce
    <2>2. /\ Len(subs') = Len(subs) + 1
          /\ \A i \in 1..Len(subs) : subs'[i] = subs[i]
          /\ subs'[Len(subs) + 1] = q
      BY <1>1, <2>1, LastArrives
    <2>3. Distinct(subs')
      BY <2>1, <2>2 DEF Distinct, Contains
    <2>4. \A s \in Subscribers : Contains(subs', s) <=> Contains(subs, s) \/ s = q
      BY <2>1, <2>2 DEF Contains
    <2>5. \A s \in Subscribers : stream'[s] = "open" <=> stream[s] = "open" \/ s = q
      BY <1>1, <1>2 DEF BusTypeOK
    <2>6. \A s \in Subscribers : Contains(subs', s) <=> stream'[s] = "open"
      BY <2>4, <2>5 DEF BusInv, SubscribedOnce
    <2> QED  BY <1>1, <2>3, <2>6 DEF BusInv, SubscribedOnce
  <1>5. ASSUME NEW s \in Subscribers, s # q PROVE OfClient(s)'
    <2>1. stream'[s] = stream[s] /\ since'[s] = since[s]
      BY <1>1, <1>2, <1>5 DEF BusTypeOK
    <2> QED  BY <1>1, <2>1, SameForClient
  <1>6. OfClient(q)'
    <2>1. /\ \A c \in Callers : ~Contains(targets[c], q)
          /\ \A i \in 1..Len(ready) : ready[i][1] # q
          /\ Len(queue[q]) = 0 /\ Len(received[q]) = 0
      BY <1>1 DEF BusInv, NothingBefore
    <2>2. stream'[q] = "open" /\ since'[q] = sent
      BY <1>1, <1>2 DEF BusTypeOK
    <2>3. \A c \in Callers : sent[c] \in Nat
      BY <1>2 DEF BusTypeOK
    <2>4. NothingBefore(q)'
      BY <2>2 DEF NothingBefore
    <2>5. InOrder(q)'
      BY <1>1, <2>1 DEF InOrder, Ascending, AscendingPuts, Before, BeforePuts
    <2>6. AllEmitted(q)'
      BY <1>1, <2>1, <2>2, <2>3 DEF AllEmitted
    <2>7. NoneLost(q)'
      <3>1. \A e \in Emitters, n \in Wanted[q] : ~(sent[e] < n /\ n <= sent[e])
        <4>1. \A e \in Emitters, n \in Wanted[q] : sent[e] \in Nat /\ n \in Nat
          BY <2>3, BusConstants DEF Callers
        <4> QED  BY <4>1
      <3> QED  BY <1>1, <2>2, <3>1 DEF NoneLost
    <2>8. NoGap(q)'
      BY <1>1, <2>1 DEF NoGap
    <2> QED  BY <2>4, <2>5, <2>6, <2>7, <2>8 DEF OfClient
  <1> QED  BY <1>1, <1>3, <1>4, <1>5, <1>6, BusPrimed

(* What is at the places is an event. *)
LEMMA EventsTyped ==
    ASSUME BusTypeOK, NEW s \in Subscribers
    PROVE  /\ \A i \in 1..Len(received[s]) : received[s][i] \in Events
           /\ \A i \in 1..Len(queue[s]) : queue[s][i] \in Events
           /\ \A i \in 1..Len(ready) : ready[i] \in Puts /\ ready[i][2] \in Events
  <1>1. received[s] \in Seq(Events) /\ queue[s] \in Seq(Events) /\ ready \in Seq(Puts)
    BY DEF BusTypeOK
  <1>2. \A i \in 1..Len(ready) : ready[i] \in Puts
    BY <1>1
  <1>3. \A p \in Puts : p[2] \in Events
    BY DEF Puts
  <1> QED  BY <1>1, <1>2, <1>3

(* An emit takes its copy of the clients: whoever is connected will be      *)
(* reached, whoever is not will not.                                        *)
LEMMA EmitStep == ASSUME BusInv, NEW c \in Callers, BeginEmit(c) PROVE BusInv'
  <1>1. /\ targets[c] = << >>
        /\ sent' = [sent EXCEPT ![c] = @ + 1]
        /\ targets' = [targets EXCEPT ![c] = IF loop = "running" THEN subs ELSE << >>]
        /\ UNCHANGED <<loop, subs, ready, queue, stream, received, since>>
    BY DEF BeginEmit
  <1>2. BusTypeOK /\ SubscribedOnce
    BY DEF BusInv
  <1>3. BusTypeOK'
    <2>1. sent' \in [Callers -> Nat]
      BY <1>1, <1>2, SMTT(40) DEF BusTypeOK
    <2>2. targets' \in [Callers -> Seq(Subscribers)]
      BY <1>1, <1>2 DEF BusTypeOK
    <2> QED  BY <1>1, <1>2, <2>1, <2>2 DEF BusTypeOK
  <1>4. /\ sent'[c] = sent[c] + 1
        /\ targets'[c] = IF loop = "running" THEN subs ELSE << >>
        /\ \A d \in Callers \ {c} : targets'[d] = targets[d] /\ sent'[d] = sent[d]
        /\ \A d \in Callers : sent[d] \in Nat
    BY <1>1, <1>2 DEF BusTypeOK
  <1>5. SubscribedOnce'
    <2>1. Distinct(targets'[c])
      BY <1>2, <1>4 DEF SubscribedOnce, Distinct
    <2> QED  BY <1>1, <1>2, <1>4, <2>1 DEF SubscribedOnce
  <1>6. ASSUME NEW s \in Subscribers PROVE OfClient(s)'
    <2>0. OfClient(s)
      BY DEF BusInv, OfClient
    <2>1. /\ ~Contains(targets[c], s)
          /\ Contains(targets'[c], s) <=> loop = "running" /\ stream[s] = "open"
      BY <1>1, <1>2, <1>4 DEF Contains, SubscribedOnce
    <2>2. NothingBefore(s)'
      BY <1>1, <1>4, <2>0, <2>1 DEF OfClient, NothingBefore
    <2>3. InOrder(s)' /\ NoGap(s)'
      BY <1>1, <2>0 DEF OfClient, InOrder, NoGap
    <2>4. AllEmitted(s)'
      <3>1. ASSUME NEW v \in Events, Emitted(v, s) PROVE Emitted(v, s)'
        <4>1. v[1] \in Callers /\ v[2] \in Nat /\ sent[v[1]] \in Nat
          BY <1>4 DEF Events
        <4>2. since'[s] = since[s]
          BY <1>1
        <4>3. CASE v[1] = c
          BY <1>4, <3>1, <4>1, <4>2, <4>3 DEF Emitted
        <4>4. CASE v[1] # c
          BY <1>4, <3>1, <4>1, <4>2, <4>4 DEF Emitted
        <4> QED  BY <4>3, <4>4
      <3>2. /\ \A i \in 1..Len(received[s]) : received[s][i] \in Events
            /\ \A i \in 1..Len(queue[s]) : queue[s][i] \in Events
            /\ \A i \in 1..Len(ready) : ready[i][2] \in Events
        BY <1>2, EventsTyped
      <3>3. \A d \in Callers : since[s][d] \in Nat
        BY <1>2 DEF BusTypeOK
      <3>4. \A d \in Callers : since'[s][d] <= sent'[d]
        BY <1>1, <1>4, <2>0, <3>3 DEF OfClient, AllEmitted
      <3>5. \A d \in Callers : Contains(targets'[d], s) => since'[s][d] < sent'[d]
        BY <1>1, <1>4, <2>0, <3>3 DEF OfClient, AllEmitted
      <3> QED  BY <1>1, <2>0, <3>1, <3>2, <3>4, <3>5 DEF OfClient, AllEmitted
    <2>5. NoneLost(s)'
      <3> SUFFICES ASSUME stream[s] = "open", loop = "running",
                          NEW e \in Emitters, NEW n \in Wanted[s],
                          since[s][e] < n, n <= sent'[e]
                   PROVE  Somewhere(s, e, n)'
        BY <1>1 DEF NoneLost
      <3>0. n \in Nat /\ e \in Callers
        BY BusConstants DEF Callers
      <3>1. CASE n <= sent[e]
        <4>1. Somewhere(s, e, n)
          BY <2>0, <3>1 DEF OfClient, NoneLost
        <4>2. CASE e = c
          BY <1>1, <2>1, <4>1, <4>2 DEF Somewhere
        <4>3. CASE e # c
          BY <1>1, <1>4, <3>0, <4>1, <4>3 DEF Somewhere
        <4> QED  BY <4>2, <4>3
      <3>2. CASE ~(n <= sent[e])
        <4>1. e = c /\ n = sent'[e]
          BY <1>4, <3>0, <3>2
        <4> QED  BY <2>1, <4>1 DEF Somewhere
      <3> QED  BY <3>1, <3>2
    <2> QED  BY <2>2, <2>3, <2>4, <2>5 DEF OfClient
  <1> QED  BY <1>1, <1>3, <1>5, <1>6, BusPrimed DEF BusInv

(* A sequence that holds no element twice, without its first one. *)
LEMMA TailOnce ==
    ASSUME NEW S, NEW q \in Seq(S), q # << >>, Distinct(q)
    PROVE  /\ Distinct(Tail(q))
           /\ \A x : Contains(Tail(q), x) <=> Contains(q, x) /\ x # Head(q)
  <1>1. /\ Tail(q) \in Seq(S) /\ Len(Tail(q)) = Len(q) - 1 /\ Len(q) \in Nat /\ Len(q) > 0
        /\ Head(q) = q[1]
        /\ \A i \in 1..(Len(q) - 1) : Tail(q)[i] = q[i + 1]
    BY FirstLeaves
  <1>2. PICK t : t = Tail(q)
    OBVIOUS
  <1>3. ASSUME NEW i \in 1..Len(t), NEW j \in 1..Len(t), t[i] = t[j] PROVE i = j
    <2>1. i + 1 \in 1..Len(q) /\ j + 1 \in 1..Len(q) /\ q[i + 1] = q[j + 1]
      BY <1>1, <1>2, <1>3
    <2> QED  BY <2>1 DEF Distinct
  <1>4. ASSUME NEW x, Contains(t, x) PROVE Contains(q, x) /\ x # Head(q)
    <2>1. PICK i \in 1..Len(t) : t[i] = x
      BY <1>4 DEF Contains
    <2>2. i + 1 \in 1..Len(q) /\ q[i + 1] = x /\ 1 \in 1..Len(q) /\ i + 1 # 1
      BY <1>1, <1>2, <2>1
    <2> QED  BY <1>1, <2>2 DEF Contains, Distinct
  <1>5. ASSUME NEW x, Contains(q, x), x # Head(q) PROVE Contains(t, x)
    <2>1. PICK i \in 1..Len(q) : q[i] = x
      BY <1>5 DEF Contains
    <2>2. i - 1 \in 1..Len(t) /\ t[i - 1] = x
      BY <1>1, <1>2, <1>5, <2>1
    <2> QED  BY <2>2 DEF Contains
  <1> QED  BY <1>2, <1>3, <1>4, <1>5 DEF Distinct

(* One put is scheduled: the event leaves the emit and goes behind all      *)
(* earlier events of the same emitter.                                      *)
LEMMA ScheduleStep == ASSUME BusInv, NEW c \in Callers, Schedule(c) PROVE BusInv'
  <1>1. /\ targets[c] # << >>
        /\ targets' = [targets EXCEPT ![c] = Tail(@)]
        /\ ready' = IF loop = "running"
                    THEN Append(ready, <<Head(targets[c]), <<c, sent[c]>>>>) ELSE ready
        /\ UNCHANGED <<loop, subs, sent, queue, stream, received, since>>
    BY DEF Schedule
  <1>2. BusTypeOK /\ SubscribedOnce
    BY DEF BusInv
  <1>3. targets[c] \in Seq(Subscribers) /\ sent[c] \in Nat /\ Distinct(targets[c])
    BY <1>2 DEF BusTypeOK, SubscribedOnce
  <1>4. /\ Head(targets[c]) \in Subscribers /\ Tail(targets[c]) \in Seq(Subscribers)
        /\ Distinct(Tail(targets[c]))
        /\ \A s \in Subscribers : Contains(Tail(targets[c]), s)
                                      <=> Contains(targets[c], s) /\ s # Head(targets[c])
        /\ Contains(targets[c], Head(targets[c]))
    <2>1. Contains(targets[c], Head(targets[c]))
      BY <1>1, <1>3, FirstLeaves DEF Contains
    <2> QED  BY <1>1, <1>3, <2>1, FirstLeaves, TailOnce
  <1>5. PICK x \in Subscribers : x = Head(targets[c])
    BY <1>4
  <1>6. /\ targets'[c] = Tail(targets[c])
        /\ \A d \in Callers \ {c} : targets'[d] = targets[d]
        /\ \A s \in Subscribers : Contains(targets'[c], s) <=> Contains(targets[c], s) /\ s # x
    BY <1>1, <1>2, <1>4, <1>5 DEF BusTypeOK
  <1>7. <<x, <<c, sent[c]>>>> \in Puts
    BY <1>3 DEF Puts, Events
  <1>8. BusTypeOK'
    <2>1. targets' \in [Callers -> Seq(Subscribers)]
      BY <1>1, <1>2, <1>4 DEF BusTypeOK
    <2>2. ready' \in Seq(Puts)
      BY <1>1, <1>2, <1>5, <1>7, LastArrives DEF BusTypeOK
    <2> QED  BY <1>1, <1>2, <2>1, <2>2 DEF BusTypeOK
  <1>9. SubscribedOnce'
    BY <1>1, <1>2, <1>4, <1>6 DEF SubscribedOnce
  <1>10. /\ ready \in Seq(Puts) /\ Len(ready) \in Nat
         /\ Len(ready') = IF loop = "running" THEN Len(ready) + 1 ELSE Len(ready)
         /\ \A i \in 1..Len(ready) : ready'[i] = ready[i]
         /\ loop = "running" => ready'[Len(ready) + 1] = <<x, <<c, sent[c]>>>>
    BY <1>1, <1>2, <1>5, <1>7, LastArrives DEF BusTypeOK
  <1>11. ASSUME NEW j \in 1..Len(ready')
         PROVE  \/ j \in 1..Len(ready) /\ ready'[j] = ready[j]
                \/ loop = "running" /\ j = Len(ready) + 1 /\ ready'[j] = <<x, <<c, sent[c]>>>>
    BY <1>10
  <1>12. ASSUME NEW s \in Subscribers PROVE OfClient(s)'
    <2>0. NothingBefore(s) /\ InOrder(s) /\ AllEmitted(s) /\ NoneLost(s) /\ NoGap(s)
      BY DEF BusInv
    <2>1. NothingBefore(s)'
      BY <1>1, <1>4, <1>5, <1>6, <1>11, <2>0 DEF NothingBefore
    <2>2. NoGap(s)'
      BY <1>1, <2>0 DEF NoGap
    <2>3. s = x => /\ \A i \in 1..Len(received[s]) :
                          received[s][i][1] = c => received[s][i][2] < sent[c]
                   /\ \A i \in 1..Len(queue[s]) :
                          queue[s][i][1] = c => queue[s][i][2] < sent[c]
                   /\ \A i \in 1..Len(ready) :
                          ready[i][1] = s /\ ready[i][2][1] = c => ready[i][2][2] < sent[c]
      BY <1>4, <1>5, <2>0 DEF AllEmitted, Emitted
    <2>4. InOrder(s)'
      <3>1. AscendingPuts(ready', s)
        <4> SUFFICES ASSUME NEW i \in 1..Len(ready'), NEW j \in 1..Len(ready'),
                            ready'[i][1] = s, ready'[j][1] = s,
                            ready'[i][2][1] = ready'[j][2][1], i < j
                     PROVE  ready'[i][2][2] < ready'[j][2][2]
          BY DEF AscendingPuts
        <4>1. CASE j \in 1..Len(ready) /\ ready'[j] = ready[j]
          <5>1. i \in 1..Len(ready) /\ ready'[i] = ready[i]
            BY <1>10, <4>1
          <5> QED  BY <2>0, <4>1, <5>1 DEF InOrder, AscendingPuts
        <4>2. CASE j = Len(ready) + 1 /\ ready'[j] = <<x, <<c, sent[c]>>>>
          <5>1. i \in 1..Len(ready) /\ ready'[i] = ready[i]
            BY <1>10, <4>2
          <5> QED  BY <2>3, <4>2, <5>1
        <4> QED  BY <1>11, <4>1, <4>2
      <3>2. BeforePuts(received[s], ready', s)
        BY <1>11, <2>0, <2>3 DEF InOrder, BeforePuts
      <3>3. BeforePuts(queue[s], ready', s)
        BY <1>11, <2>0, <2>3 DEF InOrder, BeforePuts
      <3> QED  BY <1>1, <2>0, <3>1, <3>2, <3>3 DEF InOrder
    <2>5. AllEmitted(s)'
      <3>1. ASSUME NEW v \in Events, Emitted(v, s) PROVE Emitted(v, s)'
        <4>1. v[1] \in Callers
          BY DEF Events
        <4> QED  BY <1>1, <1>6, <3>1, <4>1 DEF Emitted
      <3>2. /\ \A i \in 1..Len(received[s]) : received[s][i] \in Events
            /\ \A i \in 1..Len(queue[s]) : queue[s][i] \in Events
            /\ \A i \in 1..Len(ready) : ready[i][2] \in Events
        BY <1>2, EventsTyped
      <3>3. ASSUME NEW v \in Events, v = <<c, sent[c]>>, s = x PROVE Emitted(v, s)'
        <4>1. v[1] = c /\ v[2] = sent[c]
          BY <3>3
        <4>2. since[s][c] < sent[c]
          BY <1>4, <1>5, <2>0, <3>3 DEF AllEmitted
        <4>3. ~Contains(targets'[c], s)
          BY <1>6, <3>3
        <4> QED  BY <1>1, <1>3, <4>1, <4>2, <4>3 DEF Emitted
      <3>4. ASSUME NEW i \in 1..Len(ready'), ready'[i][1] = s
            PROVE  Emitted(ready[i][2], s)'
        <4>1. CASE i \in 1..Len(ready) /\ ready'[i] = ready[i]
          <5>1. PICK v \in Events : v = ready[i][2]
            BY <3>2, <4>1
          <5>2. Emitted(v, s)
            BY <2>0, <3>4, <4>1, <5>1 DEF AllEmitted
          <5>3. Emitted(v, s)'
            BY <3>1, <5>2
          <5> QED  BY <4>1, <5>1, <5>3
        <4>2. CASE ready'[i] = <<x, <<c, sent[c]>>>>
          <5>1. PICK v \in Events : v = <<c, sent[c]>>
            BY <1>3 DEF Events
          <5>2. s = x /\ ready'[i][2] = v
            BY <3>4, <4>2, <5>1
          <5>3. Emitted(v, s)'
            BY <3>3, <5>1, <5>2
          <5> QED  BY <5>2, <5>3
        <4> QED  BY <1>11, <4>1, <4>2
      <3>5. \A d \in Callers : Contains(targets'[d], s) => since'[s][d] < sent'[d]
        BY <1>1, <1>6, <2>0 DEF AllEmitted
      <3> QED  BY <1>1, <2>0, <3>1, <3>2, <3>4, <3>5 DEF AllEmitted
    <2>6. NoneLost(s)'
      <3> SUFFICES ASSUME stream[s] = "open", loop = "running",
                          NEW e \in Emitters, NEW n \in Wanted[s],
                          since[s][e] < n, n <= sent[e]
                   PROVE  Somewhere(s, e, n)'
        BY <1>1 DEF NoneLost
      <3>1. Somewhere(s, e, n)
        BY <2>0 DEF NoneLost
      <3>2. CASE Contains(ready, <<s, <<e, n>>>>)
        <4>1. Contains(ready', <<s, <<e, n>>>>)
          BY <1>10, <3>2 DEF Contains
        <4> QED  BY <4>1 DEF Somewhere
      <3>3. CASE Contains(targets[e], s) /\ n = sent[e]
        <4>1. e \in Callers
          BY DEF Callers
        <4>2. CASE e = c /\ s = x
          <5>1. ready'[Len(ready) + 1] = <<s, <<e, n>>>> /\ Len(ready) + 1 \in 1..Len(ready')
            BY <1>10, <3>3, <4>2
          <5>2. Contains(ready', <<s, <<e, n>>>>)
            BY <5>1 DEF Contains
          <5> QED  BY <5>2 DEF Somewhere
        <4>3. CASE ~(e = c /\ s = x)
          BY <1>1, <1>6, <3>3, <4>1, <4>3 DEF Somewhere
        <4> QED  BY <4>2, <4>3
      <3> QED  BY <1>1, <3>1, <3>2, <3>3 DEF Somewhere
    <2> QED  BY <2>1, <2>2, <2>4, <2>5, <2>6 DEF OfClient
  <1> QED  BY <1>1, <1>8, <1>9, <1>12, BusPrimed DEF BusInv

(* The event loop runs the first callback: the event goes to the end of its *)
(* client's queue, behind all that were there and before all that wait.     *)
LEMMA DeliverStep == ASSUME BusInv, Deliver PROVE BusInv'
  <1>1. /\ ready # << >> /\ ready' = Tail(ready)
        /\ queue' = [queue EXCEPT ![Head(ready)[1]] = Append(@, Head(ready)[2])]
        /\ UNCHANGED <<loop, subs, sent, targets, stream, received, since>>
    BY DEF Deliver
  <1>2. BusTypeOK /\ SubscribedOnce
    BY DEF BusInv
  <1>3. /\ ready \in Seq(Puts) /\ Len(ready) \in Nat /\ Len(ready) > 0
        /\ Tail(ready) \in Seq(Puts) /\ Head(ready) \in Puts /\ Head(ready) = ready[1]
        /\ Len(ready') = Len(ready) - 1
        /\ \A i \in 1..(Len(ready) - 1) : ready'[i] = ready[i + 1]
    BY <1>1, <1>2, FirstLeaves DEF BusTypeOK
  <1>4. PICK x \in Subscribers, v \in Events : ready[1] = <<x, v>>
    BY <1>3 DEF Puts
  <1>5. queue' = [queue EXCEPT ![x] = Append(@, v)]
    <2>1. Head(ready)[1] = x /\ Head(ready)[2] = v
      BY <1>3, <1>4
    <2> QED  BY <1>1, <2>1
  <1>6. queue[x] \in Seq(Events)
    BY <1>2 DEF BusTypeOK
  <1>7. /\ queue'[x] = Append(queue[x], v)
        /\ \A s \in Subscribers \ {x} : queue'[s] = queue[s]
    BY <1>2, <1>5 DEF BusTypeOK
  <1>8. /\ Append(queue[x], v) \in Seq(Events) /\ Len(queue[x]) \in Nat
        /\ Len(queue'[x]) = Len(queue[x]) + 1
        /\ \A i \in 1..Len(queue[x]) : queue'[x][i] = queue[x][i]
        /\ queue'[x][Len(queue[x]) + 1] = v
    BY <1>6, <1>7, LastArrives
  <1>9. BusTypeOK'
    BY <1>1, <1>2, <1>3, <1>5, <1>8 DEF BusTypeOK
  <1>10. SubscribedOnce'
    BY <1>1, <1>2 DEF SubscribedOnce
  <1>11. ASSUME NEW s \in Subscribers PROVE OfClient(s)'
    <2>0. NothingBefore(s) /\ InOrder(s) /\ AllEmitted(s) /\ NoneLost(s) /\ NoGap(s)
      BY DEF BusInv
    <2>1. ASSUME NEW i \in 1..Len(ready')
          PROVE  i + 1 \in 1..Len(ready) /\ ready'[i] = ready[i + 1]
      BY <1>3
    <2>2. ASSUME NEW i \in 1..Len(queue'[s])
          PROVE  \/ i \in 1..Len(queue[s]) /\ queue'[s][i] = queue[s][i]
                 \/ s = x /\ i = Len(queue[s]) + 1 /\ queue'[s][i] = v
      BY <1>7, <1>8
    <2>3. NoGap(s)'
      BY <1>1, <2>0 DEF NoGap
    <2>4. NothingBefore(s)'
      <3>1. stream[s] = "none" => s # x
        BY <1>3, <1>4, <2>0 DEF NothingBefore
      <3> QED  BY <1>1, <1>7, <2>0, <2>1, <3>1 DEF NothingBefore
    <2>5. s = x => /\ \A i \in 1..Len(received[s]) :
                          received[s][i][1] = v[1] => received[s][i][2] < v[2]
                   /\ \A i \in 1..Len(queue[s]) :
                          queue[s][i][1] = v[1] => queue[s][i][2] < v[2]
                   /\ \A i \in 1..Len(ready) :
                          ready[i][1] = s /\ ready[i][2][1] = v[1] /\ 1 < i
                              => v[2] < ready[i][2][2]
      <3>1. s = x => ready[1][1] = s /\ ready[1][2] = v /\ 1 \in 1..Len(ready)
        BY <1>3, <1>4
      <3>2. ASSUME s = x, NEW i \in 1..Len(received[s]), received[s][i][1] = v[1]
            PROVE  received[s][i][2] < v[2]
        BY <2>0, <3>1, <3>2 DEF InOrder, BeforePuts
      <3>3. ASSUME s = x, NEW i \in 1..Len(queue[s]), queue[s][i][1] = v[1]
            PROVE  queue[s][i][2] < v[2]
        BY <2>0, <3>1, <3>3 DEF InOrder, BeforePuts
      <3>4. ASSUME s = x, NEW i \in 1..Len(ready),
                   ready[i][1] = s, ready[i][2][1] = v[1], 1 < i
            PROVE  v[2] < ready[i][2][2]
        BY <2>0, <3>1, <3>4 DEF InOrder, AscendingPuts
      <3> QED  BY <3>2, <3>3, <3>4
    <2>6. InOrder(s)'
      <3>1. AscendingPuts(ready', s)
        <4> SUFFICES ASSUME NEW i \in 1..Len(ready'), NEW j \in 1..Len(ready'),
                            ready'[i][1] = s, ready'[j][1] = s,
                            ready'[i][2][1] = ready'[j][2][1], i < j
                     PROVE  ready'[i][2][2] < ready'[j][2][2]
          BY DEF AscendingPuts
        <4>1. /\ i + 1 \in 1..Len(ready) /\ ready'[i] = ready[i + 1]
              /\ j + 1 \in 1..Len(ready) /\ ready'[j] = ready[j + 1]
              /\ i + 1 < j + 1
          BY <2>1
        <4> QED  BY <2>0, <4>1 DEF InOrder, AscendingPuts
      <3>2. BeforePuts(received[s], ready', s)
        BY <2>0, <2>1 DEF InOrder, BeforePuts
      <3>3. BeforePuts(queue'[s], ready', s)
        <4> SUFFICES ASSUME NEW i \in 1..Len(queue'[s]), NEW j \in 1..Len(ready'),
                            ready'[j][1] = s, queue'[s][i][1] = ready'[j][2][1]
                     PROVE  queue'[s][i][2] < ready'[j][2][2]
          BY DEF BeforePuts
        <4>1. j + 1 \in 1..Len(ready) /\ ready'[j] = ready[j + 1] /\ 1 < j + 1
          BY <2>1
        <4>2. CASE i \in 1..Len(queue[s]) /\ queue'[s][i] = queue[s][i]
          BY <2>0, <4>1, <4>2 DEF InOrder, BeforePuts
        <4>3. CASE s = x /\ queue'[s][i] = v
          BY <2>5, <4>1, <4>3
        <4> QED  BY <2>2, <4>2, <4>3
      <3>4. Ascending(queue'[s])
        <4> SUFFICES ASSUME NEW i \in 1..Len(queue'[s]), NEW j \in 1..Len(queue'[s]),
                            queue'[s][i][1] = queue'[s][j][1], i < j
                     PROVE  queue'[s][i][2] < queue'[s][j][2]
          BY DEF Ascending
        <4>0. Len(queue[s]) \in Nat
          BY <1>2 DEF BusTypeOK
        <4>1. CASE j \in 1..Len(queue[s]) /\ queue'[s][j] = queue[s][j]
          <5>1. i \in 1..Len(queue[s]) /\ queue'[s][i] = queue[s][i]
            BY <2>2, <4>0, <4>1
          <5> QED  BY <2>0, <4>1, <5>1 DEF InOrder, Ascending
        <4>2. CASE s = x /\ j = Len(queue[s]) + 1 /\ queue'[s][j] = v
          <5>1. i \in 1..Len(queue[s]) /\ queue'[s][i] = queue[s][i]
            BY <2>2, <4>0, <4>2
          <5> QED  BY <2>5, <4>2, <5>1
        <4> QED  BY <2>2, <4>1, <4>2
      <3>5. Before(received[s], queue'[s])
        <4> SUFFICES ASSUME NEW i \in 1..Len(received[s]), NEW j \in 1..Len(queue'[s]),
                            received[s][i][1] = queue'[s][j][1]
                     PROVE  received[s][i][2] < queue'[s][j][2]
          BY DEF Before
        <4>1. CASE j \in 1..Len(queue[s]) /\ queue'[s][j] = queue[s][j]
          BY <2>0, <4>1 DEF InOrder, Before
        <4>2. CASE s = x /\ queue'[s][j] = v
          BY <2>5, <4>2
        <4> QED  BY <2>2, <4>1, <4>2
      <3> QED  BY <1>1, <2>0, <3>1, <3>2, <3>3, <3>4, <3>5 DEF InOrder
    <2>7. AllEmitted(s)'
      <3>1. ASSUME NEW w \in Events, Emitted(w, s) PROVE Emitted(w, s)'
        BY <1>1, <3>1 DEF Emitted
      <3>2. s = x => Emitted(v, s)
        <4>1. s = x => ready[1][1] = s /\ 1 \in 1..Len(ready) /\ ready[1][2] = v
          BY <1>3, <1>4
        <4> QED  BY <2>0, <4>1 DEF AllEmitted
      <3>3. ASSUME NEW i \in 1..Len(queue'[s]) PROVE Emitted(queue[s][i], s)'
        <4>1. PICK w \in Events : w = queue'[s][i] /\ Emitted(w, s)
          BY <1>2, <2>0, <2>2, <3>2, EventsTyped DEF AllEmitted
        <4>2. Emitted(w, s)'
          BY <3>1, <4>1
        <4> QED  BY <4>1, <4>2
      <3>4. ASSUME NEW i \in 1..Len(ready'), ready'[i][1] = s
            PROVE  Emitted(ready[i][2], s)'
        <4>1. PICK w \in Events : w = ready'[i][2] /\ Emitted(w, s)
          BY <1>2, <2>0, <2>1, <3>4, EventsTyped DEF AllEmitted
        <4>2. Emitted(w, s)'
          BY <3>1, <4>1
        <4> QED  BY <4>1, <4>2
      <3>5. ASSUME NEW i \in 1..Len(received[s]) PROVE Emitted(received[s][i], s)'
        <4>1. PICK w \in Events : w = received[s][i] /\ Emitted(w, s)
          BY <1>2, <2>0, EventsTyped DEF AllEmitted
        <4>2. Emitted(w, s)'
          BY <3>1, <4>1
        <4> QED  BY <1>1, <4>1, <4>2
      <3> QED  BY <1>1, <2>0, <3>3, <3>4, <3>5 DEF AllEmitted
    <2>8. NoneLost(s)'
      <3> SUFFICES ASSUME stream[s] = "open", loop = "running",
                          NEW e \in Emitters, NEW n \in Wanted[s],
                          since[s][e] < n, n <= sent[e]
                   PROVE  Somewhere(s, e, n)'
        BY <1>1 DEF NoneLost
      <3>1. Somewhere(s, e, n)
        BY <2>0 DEF NoneLost
      <3>2. CASE Contains(queue[s], <<e, n>>)
        <4>1. PICK i \in 1..Len(queue[s]) : queue[s][i] = <<e, n>>
          BY <3>2 DEF Contains
        <4>2. i \in 1..Len(queue'[s]) /\ queue'[s][i] = <<e, n>>
          BY <1>7, <1>8, <4>1
        <4>3. Contains(queue'[s], <<e, n>>)
          BY <4>2 DEF Contains
        <4> QED  BY <4>3 DEF Somewhere
      <3>3. CASE Contains(ready, <<s, <<e, n>>>>)
        <4>1. PICK i \in 1..Len(ready) : ready[i] = <<s, <<e, n>>>>
          BY <3>3 DEF Contains
        <4>2. CASE i = 1
          <5>1. s = x /\ v = <<e, n>>
            BY <1>4, <4>1, <4>2
          <5>2. Len(queue[x]) + 1 \in 1..Len(queue'[x]) /\ queue'[x][Len(queue[x]) + 1] = v
            BY <1>8
          <5>3. Contains(queue'[s], <<e, n>>)
            BY <5>1, <5>2 DEF Contains
          <5> QED  BY <5>3 DEF Somewhere
        <4>3. CASE i # 1
          <5>1. i - 1 \in 1..Len(ready') /\ ready'[i - 1] = <<s, <<e, n>>>>
            BY <1>3, <4>1, <4>3
          <5>2. Contains(ready', <<s, <<e, n>>>>)
            BY <5>1 DEF Contains
          <5> QED  BY <5>2 DEF Somewhere
        <4> QED  BY <4>2, <4>3
      <3> QED  BY <1>1, <3>1, <3>2, <3>3 DEF Somewhere
    <2> QED  BY <2>3, <2>4, <2>6, <2>7, <2>8 DEF OfClient
  <1> QED  BY <1>1, <1>9, <1>10, <1>11, BusPrimed DEF BusInv

(* The first event v of q's queue goes to the client, or nowhere: an event  *)
(* that is not wanted, or the sentinel, after which the stream is closed.   *)
Takes(q, v) ==
    /\ queue[q] # << >> /\ v = Head(queue[q])
    /\ queue' = [queue EXCEPT ![q] = Tail(@)]
    /\ \/ /\ v[1] \in Emitters /\ v[2] \in Wanted[q]
          /\ received' = [received EXCEPT ![q] = Append(@, v)]
          /\ UNCHANGED <<subs, stream>>
       \/ /\ v[1] \in Emitters /\ v[2] \notin Wanted[q]
          /\ UNCHANGED <<received, subs, stream>>
       \/ CloseStream(q) /\ UNCHANGED received

(* The client that takes an event. *)
LEMMA TakesKeepsClient ==
    ASSUME BusInv, NEW q \in Subscribers, NEW v \in Events, Takes(q, v),
           stream[q] = "open", loop = "running",
           UNCHANGED <<loop, sent, targets, ready, since>>
    PROVE  OfClient(q)'
  <1>0. NothingBefore(q) /\ InOrder(q) /\ AllEmitted(q) /\ NoneLost(q) /\ NoGap(q)
    BY DEF BusInv
  <1>1. BusTypeOK
    BY DEF BusInv
  <1>2. queue[q] \in Seq(Events) /\ received[q] \in Seq(Events) /\ Len(received[q]) \in Nat
    BY <1>1 DEF BusTypeOK
  <1>3. /\ Len(queue[q]) \in Nat /\ Len(queue[q]) > 0 /\ queue[q][1] = v
        /\ Len(Tail(queue[q])) = Len(queue[q]) - 1
        /\ \A i \in 1..(Len(queue[q]) - 1) : Tail(queue[q])[i] = queue[q][i + 1]
    BY <1>2, FirstLeaves DEF Takes
  <1>4. queue'[q] = Tail(queue[q])
    BY <1>1 DEF Takes, BusTypeOK
  <1>5. ASSUME NEW i \in 1..Len(queue'[q])
        PROVE  i + 1 \in 1..Len(queue[q]) /\ queue'[q][i] = queue[q][i + 1]
    BY <1>3, <1>4
  <1>6. stream'[q] \in {"open", "closed"}
    BY <1>1 DEF Takes, CloseStream, BusTypeOK
  <1>7. NothingBefore(q)'
    BY <1>6 DEF NothingBefore
  <1>8. /\ \A i \in 1..Len(received[q]) :
               received[q][i][1] = v[1] => received[q][i][2] < v[2]
        /\ \A i \in 1..Len(queue[q]) :
               queue[q][i][1] = v[1] /\ 1 < i => v[2] < queue[q][i][2]
        /\ \A i \in 1..Len(ready) :
               ready[i][1] = q /\ ready[i][2][1] = v[1] => v[2] < ready[i][2][2]
    <2>1. 1 \in 1..Len(queue[q])
      BY <1>3
    <2>2. ASSUME NEW i \in 1..Len(received[q]), received[q][i][1] = v[1]
          PROVE  received[q][i][2] < v[2]
      BY <1>0, <1>3, <2>1, <2>2 DEF InOrder, Before
    <2>3. ASSUME NEW i \in 1..Len(queue[q]), queue[q][i][1] = v[1], 1 < i
          PROVE  v[2] < queue[q][i][2]
      BY <1>0, <1>3, <2>1, <2>3 DEF InOrder, Ascending
    <2>4. ASSUME NEW i \in 1..Len(ready), ready[i][1] = q, ready[i][2][1] = v[1]
          PROVE  v[2] < ready[i][2][2]
      BY <1>0, <1>3, <2>1, <2>4 DEF InOrder, BeforePuts
    <2> QED  BY <2>2, <2>3, <2>4
  <1>9. Ascending(queue'[q]) /\ BeforePuts(queue'[q], ready, q)
    <2>1. ASSUME NEW i \in 1..Len(queue'[q]), NEW j \in 1..Len(queue'[q]),
                 queue'[q][i][1] = queue'[q][j][1], i < j
          PROVE  queue'[q][i][2] < queue'[q][j][2]
      <3>1. /\ i + 1 \in 1..Len(queue[q]) /\ queue'[q][i] = queue[q][i + 1]
            /\ j + 1 \in 1..Len(queue[q]) /\ queue'[q][j] = queue[q][j + 1]
            /\ i + 1 < j + 1
        BY <1>5, <2>1
      <3> QED  BY <1>0, <2>1, <3>1 DEF InOrder, Ascending
    <2>2. BeforePuts(queue'[q], ready, q)
      BY <1>0, <1>5 DEF InOrder, BeforePuts
    <2> QED  BY <2>1, <2>2 DEF Ascending
  <1>10. Before(received[q], queue'[q])
    BY <1>0, <1>5 DEF InOrder, Before
  <1>11. Emitted(v, q)
    BY <1>0, <1>3 DEF AllEmitted
  <1>12. \A w : Emitted(w, q) => Emitted(w, q)'
    BY DEF Emitted
  <1>13. \A i \in 1..Len(queue'[q]) : Emitted(queue'[q][i], q)
    BY <1>0, <1>5 DEF AllEmitted
  <1>14. CASE received' = received
    <2>1. InOrder(q)'
      BY <1>0, <1>9, <1>10, <1>14 DEF InOrder
    <2>2. NoGap(q)'
      BY <1>0, <1>14 DEF NoGap
    <2>3. AllEmitted(q)'
      BY <1>0, <1>13, <1>14 DEF AllEmitted, Emitted
    <2>4. NoneLost(q)'
      <3> SUFFICES ASSUME stream'[q] = "open",
                          NEW e \in Emitters, NEW n \in Wanted[q],
                          since[q][e] < n, n <= sent[e]
                   PROVE  Somewhere(q, e, n)'
        BY DEF NoneLost
      <3>1. v[2] \notin Wanted[q]
        <4>1. CASE CloseStream(q)
          BY <1>1, <4>1 DEF CloseStream, BusTypeOK
        <4>2. CASE received' = [received EXCEPT ![q] = Append(@, v)]
          <5>1. Len(received'[q]) = Len(received[q]) + 1
            BY <1>1, <1>2, <4>2, LastArrives DEF BusTypeOK
          <5> QED  BY <1>2, <1>14, <5>1
        <4> QED  BY <4>1, <4>2 DEF Takes
      <3>2. Somewhere(q, e, n)
        BY <1>0 DEF NoneLost
      <3>3. CASE Contains(queue[q], <<e, n>>)
        <4>1. PICK i \in 1..Len(queue[q]) : queue[q][i] = <<e, n>>
          BY <3>3 DEF Contains
        <4>2. i # 1
          BY <1>3, <3>1, <4>1
        <4>3. i - 1 \in 1..Len(queue'[q]) /\ queue'[q][i - 1] = <<e, n>>
          BY <1>3, <1>4, <4>1, <4>2
        <4>4. Contains(queue'[q], <<e, n>>)
          BY <4>3 DEF Contains
        <4> QED  BY <4>4 DEF Somewhere
      <3> QED  BY <1>14, <3>2, <3>3 DEF Somewhere
    <2> QED  BY <1>7, <2>1, <2>2, <2>3, <2>4 DEF OfClient
  <1>15. CASE /\ v[1] \in Emitters /\ v[2] \in Wanted[q]
              /\ received' = [received EXCEPT ![q] = Append(@, v)]
              /\ UNCHANGED stream
    <2>1. received'[q] = Append(received[q], v)
      BY <1>1, <1>15 DEF BusTypeOK
    <2>2. /\ Len(received'[q]) = Len(received[q]) + 1
          /\ \A i \in 1..Len(received[q]) : received'[q][i] = received[q][i]
          /\ received'[q][Len(received[q]) + 1] = v
      BY <1>2, <2>1, LastArrives
    <2>3. ASSUME NEW i \in 1..Len(received'[q])
          PROVE  \/ i \in 1..Len(received[q]) /\ received'[q][i] = received[q][i]
                 \/ i = Len(received[q]) + 1 /\ received'[q][i] = v
      BY <1>2, <2>2
    <2>4. InOrder(q)'
      <3>1. Ascending(received'[q])
        <4> SUFFICES ASSUME NEW i \in 1..Len(received'[q]), NEW j \in 1..Len(received'[q]),
                            received'[q][i][1] = received'[q][j][1], i < j
                     PROVE  received'[q][i][2] < received'[q][j][2]
          BY DEF Ascending
        <4>1. i \in 1..Len(received[q]) /\ received'[q][i] = received[q][i]
          BY <1>2, <2>2, <2>3
        <4>2. CASE j \in 1..Len(received[q]) /\ received'[q][j] = received[q][j]
          BY <1>0, <4>1, <4>2 DEF InOrder, Ascending
        <4>3. CASE received'[q][j] = v
          BY <1>8, <4>1, <4>3
        <4> QED  BY <2>3, <4>2, <4>3
      <3>2. Before(received'[q], queue'[q])
        <4> SUFFICES ASSUME NEW i \in 1..Len(received'[q]), NEW j \in 1..Len(queue'[q]),
                            received'[q][i][1] = queue'[q][j][1]
                     PROVE  received'[q][i][2] < queue'[q][j][2]
          BY DEF Before
        <4>1. j + 1 \in 1..Len(queue[q]) /\ queue'[q][j] = queue[q][j + 1] /\ 1 < j + 1
          BY <1>5
        <4>2. CASE i \in 1..Len(received[q]) /\ received'[q][i] = received[q][i]
          BY <1>10, <4>2 DEF Before
        <4>3. CASE received'[q][i] = v
          BY <1>8, <4>1, <4>3
        <4> QED  BY <2>3, <4>2, <4>3
      <3>3. BeforePuts(received'[q], ready, q)
        BY <1>0, <1>8, <2>3 DEF InOrder, BeforePuts
      <3> QED  BY <1>0, <1>9, <3>1, <3>2, <3>3 DEF InOrder
    <2>5. AllEmitted(q)'
      <3>1. \A i \in 1..Len(received'[q]) : Emitted(received'[q][i], q)
        BY <1>0, <1>11, <2>3 DEF AllEmitted
      <3> QED  BY <1>0, <1>13, <3>1 DEF AllEmitted, Emitted
    <2>6. \A w : Contains(received[q], w) \/ w = v => Contains(received'[q], w)
      <3>1. Len(received[q]) + 1 \in 1..Len(received'[q])
        BY <1>2, <2>2
      <3> QED  BY <1>2, <2>2, <3>1, SMTT(30) DEF Contains
    <2>7. NoneLost(q)'
      <3> SUFFICES ASSUME NEW e \in Emitters, NEW n \in Wanted[q],
                          since[q][e] < n, n <= sent[e]
                   PROVE  Somewhere(q, e, n)'
        BY DEF NoneLost
      <3>1. Somewhere(q, e, n)
        BY <1>0 DEF NoneLost
      <3>2. CASE Contains(queue[q], <<e, n>>)
        <4>1. PICK i \in 1..Len(queue[q]) : queue[q][i] = <<e, n>>
          BY <3>2 DEF Contains
        <4>2. CASE i = 1
          BY <1>3, <2>6, <4>1, <4>2 DEF Somewhere
        <4>3. CASE i # 1
          <5>1. i - 1 \in 1..Len(queue'[q]) /\ queue'[q][i - 1] = <<e, n>>
            BY <1>3, <1>4, <4>1, <4>3
          <5>2. Contains(queue'[q], <<e, n>>)
            BY <5>1 DEF Contains
          <5> QED  BY <5>2 DEF Somewhere
        <4> QED  BY <4>2, <4>3
      <3> QED  BY <2>6, <3>1, <3>2 DEF Somewhere
    <2>8. ASSUME NEW m \in Wanted[q], since[q][v[1]] < m, m < v[2]
          PROVE  Contains(received[q], <<v[1], m>>)
      <3>0. v[1] \in Callers /\ v[2] \in Nat /\ sent[v[1]] \in Nat /\ m \in Nat
        BY <1>1, BusConstants DEF Events, BusTypeOK
      <3>1. v[2] <= sent[v[1]] /\ (Contains(targets[v[1]], q) => v[2] < sent[v[1]])
        BY <1>11 DEF Emitted
      <3>2. m <= sent[v[1]]
        BY <2>8, <3>0, <3>1
      <3>3. Somewhere(q, v[1], m)
        BY <1>0, <1>15, <2>8, <3>2 DEF NoneLost
      <3>4. ~Contains(queue[q], <<v[1], m>>)
        <4> SUFFICES ASSUME NEW i \in 1..Len(queue[q]), queue[q][i] = <<v[1], m>> PROVE FALSE
          BY DEF Contains
        <4>1. CASE i = 1
          BY <1>3, <2>8, <3>0, <4>1
        <4>2. CASE i # 1
          <5>1. 1 < i /\ queue[q][i][1] = v[1] /\ queue[q][i][2] = m
            BY <4>2
          <5>2. v[2] < m
            BY <1>8, <5>1
          <5> QED  BY <2>8, <3>0, <5>2
        <4> QED  BY <4>1, <4>2
      <3>5. ~Contains(ready, <<q, <<v[1], m>>>>)
        <4> SUFFICES ASSUME NEW i \in 1..Len(ready), ready[i] = <<q, <<v[1], m>>>> PROVE FALSE
          BY DEF Contains
        <4>1. ready[i][1] = q /\ ready[i][2][1] = v[1] /\ ready[i][2][2] = m
          OBVIOUS
        <4>2. v[2] < m
          BY <1>8, <4>1
        <4> QED  BY <2>8, <3>0, <4>2
      <3>6. ~(Contains(targets[v[1]], q) /\ m = sent[v[1]])
        BY <2>8, <3>0, <3>1
      <3> QED  BY <3>3, <3>4, <3>5, <3>6 DEF Somewhere
    <2>9. NoGap(q)'
      <3> SUFFICES ASSUME NEW i \in 1..Len(received'[q])
                   PROVE  /\ received'[q][i][1] \in Emitters
                          /\ received'[q][i][2] \in Wanted[q]
                          /\ \A m \in Wanted[q] :
                                 since[q][received'[q][i][1]] < m /\ m < received'[q][i][2]
                                     => Contains(received'[q], <<received'[q][i][1], m>>)
        BY DEF NoGap
      <3>1. CASE i \in 1..Len(received[q]) /\ received'[q][i] = received[q][i]
        BY <1>0, <2>6, <3>1 DEF NoGap
      <3>2. CASE received'[q][i] = v
        BY <1>15, <2>6, <2>8, <3>2
      <3> QED  BY <2>3, <3>1, <3>2
    <2> QED  BY <1>7, <2>4, <2>5, <2>7, <2>9 DEF OfClient
  <1> QED  BY <1>14, <1>15 DEF Takes


(* The generator takes an event. *)
LEMMA StreamStep == ASSUME BusInv, NEW q \in Subscribers, StreamNext(q) PROVE BusInv'
  <1>1. /\ stream[q] = "open" /\ loop = "running" /\ queue[q] # << >>
        /\ queue' = [queue EXCEPT ![q] = Tail(@)]
        /\ UNCHANGED <<loop, sent, targets, ready, since>>
    BY DEF StreamNext, LoopFree
  <1>2. BusTypeOK
    BY DEF BusInv
  <1>3. queue[q] \in Seq(Events) /\ received[q] \in Seq(Events)
    BY <1>2 DEF BusTypeOK
  <1>4. Tail(queue[q]) \in Seq(Events) /\ Head(queue[q]) \in Events
    BY <1>1, <1>3, FirstLeaves
  <1>5. PICK v \in Events : v = Head(queue[q])
    BY <1>4
  <1>6. v[1] # Shutdown => v[1] \in Emitters
    BY DEF Events, Callers
  <1>7. Takes(q, v)
    <2>1. CASE v[1] = Shutdown
      BY <1>1, <1>5, <2>1 DEF StreamNext, Takes
    <2>2. CASE v[1] # Shutdown /\ v[2] \in Wanted[q]
      BY <1>1, <1>5, <1>6, <2>2 DEF StreamNext, Takes
    <2>3. CASE v[1] # Shutdown /\ v[2] \notin Wanted[q]
      BY <1>1, <1>5, <1>6, <2>3 DEF StreamNext, Takes
    <2> QED  BY <2>1, <2>2, <2>3
  <1>8. received' = received \/ received' = [received EXCEPT ![q] = Append(@, v)]
    BY <1>7 DEF Takes
  <1>9. \/ UNCHANGED <<subs, stream>>
        \/ CloseStream(q)
    BY <1>7 DEF Takes
  <1>10. queue' \in [Subscribers -> Seq(Events)] /\ received' \in [Subscribers -> Seq(Events)]
    <2>1. Append(received[q], v) \in Seq(Events)
      BY <1>3, LastArrives
    <2> QED  BY <1>1, <1>2, <1>4, <1>8, <2>1 DEF BusTypeOK
  <1>11. /\ subs' \in Seq(Subscribers) /\ stream' \in [Subscribers -> {"none", "open", "closed"}]
         /\ SubscribedOnce'
    <2>1. CASE UNCHANGED <<subs, stream>>
      BY <1>1, <1>2, <2>1 DEF BusInv, BusTypeOK, SubscribedOnce
    <2>2. CASE CloseStream(q)
      <3>1. PICK k \in 1..Len(subs) : subs[k] = q /\ subs' = RemoveAt(subs, k)
        BY <2>2 DEF CloseStream
      <3>2. /\ subs \in Seq(Subscribers) /\ Distinct(subs)
            /\ \A s \in Subscribers : Contains(subs, s) <=> stream[s] = "open"
        BY DEF BusInv, BusTypeOK, SubscribedOnce
      <3>3. /\ subs' \in Seq(Subscribers) /\ Distinct(subs')
            /\ \A s \in Subscribers : Contains(subs', s) <=> Contains(subs, s) /\ s # q
        BY <3>1, <3>2, RemoveAtProperties, RemoveAtOnce
      <3>4. stream' = [stream EXCEPT ![q] = "closed"]
        BY <2>2 DEF CloseStream
      <3>5. \A c \in Callers : Distinct(targets[c])'
        BY <1>1 DEF BusInv, SubscribedOnce
      <3>6. /\ stream' \in [Subscribers -> {"none", "open", "closed"}]
            /\ \A s \in Subscribers : stream'[s] = "open" <=> stream[s] = "open" /\ s # q
        BY <1>2, <3>4 DEF BusTypeOK
      <3> QED  BY <3>2, <3>3, <3>5, <3>6 DEF SubscribedOnce
    <2> QED  BY <1>9, <2>1, <2>2
  <1>12. BusTypeOK'
    BY <1>1, <1>2, <1>10, <1>11 DEF BusTypeOK
  <1>13. ASSUME NEW s \in Subscribers, s # q PROVE OfClient(s)'
    <2>1. received'[s] = received[s] /\ queue'[s] = queue[s] /\ stream'[s] = stream[s]
      BY <1>1, <1>2, <1>8, <1>9, <1>13 DEF BusTypeOK, CloseStream
    <2> QED  BY <1>1, <2>1, SameForClient
  <1>14. OfClient(q)'
    BY <1>1, <1>7, TakesKeepsClient
  <1> QED  BY <1>1, <1>11, <1>12, <1>13, <1>14, BusPrimed

(* Every step keeps the invariant. *)
LEMMA BusStep == BusInv /\ [Next]_vars => BusInv'
  <1> SUFFICES ASSUME BusInv, [Next]_vars PROVE BusInv'
    OBVIOUS
  <1>1. CASE AttachLoop \/ StopLoop
    BY <1>1, LoopStep
  <1>2. ASSUME NEW c \in Callers, BeginEmit(c) \/ Schedule(c) PROVE BusInv'
    BY <1>2, EmitStep, ScheduleStep
  <1>3. CASE Deliver
    BY <1>3, DeliverStep
  <1>4. ASSUME NEW s \in Subscribers, Subscribe(s) \/ StreamNext(s) \/ Disconnect(s) PROVE BusInv'
    BY <1>4, SubscribeStep, StreamStep, LeaveStep
  <1>5. CASE UNCHANGED vars
    <2>1. /\ BusTypeOK' /\ SubscribedOnce'
          /\ loop' = "unattached" => \A s \in Subscribers : stream'[s] = "none"
      BY <1>5 DEF BusInv, BusTypeOK, SubscribedOnce, vars
    <2>2. ASSUME NEW s \in Subscribers PROVE OfClient(s)'
      BY <1>5, SameForClient DEF vars
    <2> QED  BY <2>1, <2>2, BusPrimed
  <1> QED  BY <1>1, <1>2, <1>3, <1>4, <1>5 DEF Next

(* Events pass from an emit through the event loop and a queue to a client  *)
(* in the order of emission, and none is lost while the client is there.    *)
LEMMA BusInvariant == Spec => []BusInv
  BY BusInitial, BusStep, PTL DEF Spec

(* SSEEventBus with any number of emitting threads and clients: whatever    *)
(* the order in which emits, callbacks of the event loop, subscriptions and *)
(* generators take their steps, a client receives the wanted events of each *)
(* emitter that followed its subscription, in order, once and without gap.  *)
THEOREM StreamTheorem == Spec => []StreamInOrder
  <1>1. BusInv => StreamInOrder
    <2> SUFFICES ASSUME BusInv, NEW s \in Subscribers, NEW i \in 1..Len(received[s])
                 PROVE  /\ received[s][i][1] \in Emitters
                        /\ received[s][i][2] \in Wanted[s]
                        /\ since[s][received[s][i][1]] < received[s][i][2]
                        /\ received[s][i][2] <= sent[received[s][i][1]]
                        /\ \A j \in 1..Len(received[s]) :
                               received[s][j][1] = received[s][i][1] /\ i < j
                                   => received[s][i][2] < received[s][j][2]
                        /\ \A m \in Wanted[s] :
                               since[s][received[s][i][1]] < m /\ m < received[s][i][2]
                                   => Contains(received[s], <<received[s][i][1], m>>)
      BY DEF StreamInOrder
    <2>1. InOrder(s) /\ AllEmitted(s) /\ NoGap(s)
      BY DEF BusInv
    <2>2. Emitted(received[s][i], s)
      BY <2>1 DEF AllEmitted
    <2>3. \A j \in 1..Len(received[s]) :
              received[s][j][1] = received[s][i][1] /\ i < j => received[s][i][2] < received[s][j][2]
      BY <2>1 DEF InOrder, Ascending
    <2> QED  BY <2>1, <2>2, <2>3 DEF Emitted, NoGap
  <1> QED  BY <1>1, BusInvariant, PTL
=============================================================================
