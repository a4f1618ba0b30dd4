--------------------------- MODULE EngineCluster ---------------------------
(***************************************************************************)
(* engine/api/cluster: the coordinator's EngineRegistry and the routes     *)
(* that list, register and probe engines and forward a task to one of them.*)
(* Routes run in the server's thread pool.  select() copies the list of    *)
(* nodes under the lock and filters and sorts it outside; the node objects *)
(* are shared, so a heartbeat in between is seen.  The HTTP call has a     *)
(* timeout; the engine may be down, slow, or answer after nobody waits.    *)
(***************************************************************************)
EXTENDS Integers, Sequences, FiniteSets

CONSTANTS
    Machines,      \* engines, each at one base_url
    Gpu,           \* the machines whose tags say pool=gpu
    Callers,       \* clients, each with one task to be run
    NoNode,        \* not routed
    MaxIds,        \* bound: registrations
    MaxTries       \* bound: requests of one client

Ids == 1..MaxIds

ASSUME NoNodeIsNoId == NoNode \notin Nat

VARIABLES
    nodes,         \* Seq of [machine, healthy]: every EngineNode made, by engine_id
    registered,    \* the ids in _nodes
    up,            \* the machines that run
    recent,        \* Seq of ids, the latest last_seen first
    routed,        \* [Callers -> the client's request]
    wire,          \* [Callers -> set of <<machine, try>>: posts on their way]
    answer,        \* [Callers -> "none", "ok", "error" or "unreadable": the response]
    tries,         \* [Callers -> requests begun]
    runs,          \* [Callers -> number of times an engine ran the task] (history)
    unclear        \* [Callers -> posted requests answered with a failure] (history)

clusterVars == <<nodes, registered, up, recent, routed, wire, answer, tries, runs, unclear>>

(* A request: the tags asked for, the candidates, the node chosen and the   *)
(* HTTP status.                                                             *)
NoRoute == [pc |-> "idle", tags |-> FALSE, found |-> {}, node |-> NoNode, status |-> 0]

ClusterInit ==
    /\ nodes = << >>
    /\ registered = {}
    /\ up = Machines
    /\ recent = << >>
    /\ routed = [c \in Callers |-> NoRoute]
    /\ wire = [c \in Callers |-> {}]
    /\ answer = [c \in Callers |-> "none"]
    /\ tries = [c \in Callers |-> 0]
    /\ runs = [c \in Callers |-> 0]
    /\ unclear = [c \in Callers |-> 0]

registryVars == <<nodes, registered, recent>>
callVars == <<routed, wire, answer, tries, runs, unclear>>

NewNode(m) == [machine |-> m, healthy |-> TRUE]

(* _get_node_or_404 *)
Known(i) == i \in registered

(* register_engine: a fresh engine_id each time, also for a machine that    *)
(* registers again; its old entry stays.                                    *)
RegisterEngine(m) ==
    /\ Len(nodes) < MaxIds /\ m \in up
    /\ nodes' = Append(nodes, NewNode(m))
    /\ registered' = registered \cup {Len(nodes) + 1}
    /\ recent' = <<Len(nodes) + 1>> \o recent
    /\ UNCHANGED up /\ UNCHANGED callVars

(* deregister_engine of an unknown id answers 404. *)
DeregisterEngine(i) ==
    /\ Known(i)
    /\ registered' = registered \ {i}
    /\ UNCHANGED <<nodes, recent, up>> /\ UNCHANGED callVars

(* EngineRegistry.heartbeat *)
Heartbeat(i, healthy) ==
    /\ nodes' = [nodes EXCEPT ![i].healthy = healthy]
    /\ recent' = <<i>> \o SelectSeq(recent, LAMBDA j : j # i)

(* engine_heartbeat: the machine reports itself healthy or not; an unknown  *)
(* id answers 404.                                                          *)
EngineHeartbeat(i, healthy) ==
    /\ Known(i) /\ nodes[i].machine \in up
    /\ Heartbeat(i, healthy)
    /\ UNCHANGED <<registered, up>> /\ UNCHANGED callVars

MachineStops(m) ==
    /\ m \in up
    /\ up' = up \ {m}
    /\ UNCHANGED registryVars /\ UNCHANGED callVars

-----------------------------------------------------------------------------
SetRoute(c, r) == routed' = [routed EXCEPT ![c] = r]

FinishRoute(c, code) ==
    SetRoute(c, [NoRoute EXCEPT !.pc = "done", !.status = code])

CanBegin(c) == routed[c].pc \in {"idle", "done"} /\ tries[c] < MaxTries /\ routed[c].status # 200

BeginRoute(c, r) ==
    /\ SetRoute(c, r)
    /\ tries' = [tries EXCEPT ![c] = @ + 1]
    /\ UNCHANGED <<up, wire, answer, runs, unclear>> /\ UNCHANGED registryVars

(* run_task_auto_route: select copies the nodes under the lock. *)
AutoRoute(c, tags) ==
    /\ CanBegin(c)
    /\ BeginRoute(c, [NoRoute EXCEPT !.pc = "filter", !.tags = tags,
                             !.found = registered])

MatchesTags(i, tags) == tags => nodes[i].machine \in Gpu

(* Still select: filter by health and tags; no candidate answers 400. *)
Filter(c) ==
    LET found == {i \in routed[c].found : nodes[i].healthy /\ MatchesTags(i, routed[c].tags)}
    IN  /\ routed[c].pc = "filter"
        /\ IF found = {}
           THEN FinishRoute(c, 400)
           ELSE SetRoute(c, [routed[c] EXCEPT !.pc = "sort", !.found = found])
        /\ UNCHANGED <<up, wire, answer, tries, runs, unclear>> /\ UNCHANGED registryVars

Post(c, i, try) == wire' = [wire EXCEPT ![c] = @ \cup {<<nodes[i].machine, try>>}]

(* sorted by last_seen, descending: the first. *)
MostRecent(i, found) ==
    \E n \in 1..Len(recent) : recent[n] = i /\ \A m \in 1..(n - 1) : recent[m] \notin found

(* The task is posted to the first candidate. *)
RouteToFirst(c) ==
    /\ routed[c].pc = "sort"
    /\ \E i \in routed[c].found :
           /\ MostRecent(i, routed[c].found)
           /\ SetRoute(c, [routed[c] EXCEPT !.pc = "wait", !.node = i])
           /\ Post(c, i, tries[c])
    /\ UNCHANGED <<up, answer, tries, runs, unclear>> /\ UNCHANGED registryVars

(* run_task_on_engine: the node named by the caller, or 404. *)
RunOnEngine(c, i) ==
    /\ CanBegin(c)
    /\ tries' = [tries EXCEPT ![c] = @ + 1]
    /\ IF Known(i)
       THEN /\ SetRoute(c, [NoRoute EXCEPT !.pc = "wait", !.node = i])
            /\ Post(c, i, tries[c] + 1)
       ELSE FinishRoute(c, 404) /\ UNCHANGED wire
    /\ UNCHANGED <<up, answer, runs, unclear>> /\ UNCHANGED registryVars

(* get_engine_health and get_engine_snapshot: the same lookup and the same  *)
(* failures; nothing is executed.                                           *)
ProbeEngine(c, i, code) ==
    /\ CanBegin(c)
    /\ IF ~Known(i) THEN code = 404
       ELSE nodes[i].machine \in up \/ code = 502
    /\ code = 404 => ~Known(i)
    /\ BeginRoute(c, [NoRoute EXCEPT !.pc = "done", !.status = code])

(* The engine handles a post that reached it, counted as an execution also  *)
(* when it answers with an error status or with what is no JSON object; its *)
(* response is of use only to a request that is still waiting.              *)
EngineExecutes(c, p, response) ==
    /\ p[1] \in up
    /\ wire' = [wire EXCEPT ![c] = @ \ {p}]
    /\ runs' = [runs EXCEPT ![c] = @ + 1]
    /\ answer' = IF routed[c].pc = "wait" /\ p[2] = tries[c]
                 THEN [answer EXCEPT ![c] = response]
                 ELSE answer
    /\ UNCHANGED <<up, routed, tries, unclear>> /\ UNCHANGED registryVars

(* A post to a machine that is down is lost. *)
PostLost(c, p) ==
    /\ p[1] \notin up
    /\ wire' = [wire EXCEPT ![c] = @ \ {p}]
    /\ UNCHANGED <<up, routed, answer, tries, runs, unclear>> /\ UNCHANGED registryVars

(* The response, if any, has been read. *)
Heard(c) == answer' = [answer EXCEPT ![c] = "none"]

(* raise_for_status passed: the result goes to the caller. *)
ReturnResult(c) ==
    /\ routed[c].pc = "wait" /\ answer[c] = "ok"
    /\ FinishRoute(c, 200) /\ Heard(c)
    /\ UNCHANGED <<up, wire, tries, runs, unclear>> /\ UNCHANGED registryVars

(* A request that was posted ends in a failure, which does not say whether  *)
(* the engine ran the task.                                                 *)
FailRoute(c, code) ==
    /\ FinishRoute(c, code) /\ Heard(c)
    /\ unclear' = [unclear EXCEPT ![c] = @ + 1]
    /\ UNCHANGED <<up, wire, tries, runs>> /\ UNCHANGED registryVars

(* response.json() raises JSONDecodeError, a ValueError, which the app's    *)
(* handler answers with 400; a JSON value that is no object fails the       *)
(* response model, 500.                                                     *)
AnswerUnreadable(c, code) ==
    /\ routed[c].pc = "wait" /\ answer[c] = "unreadable"
    /\ FailRoute(c, code)

Unreachable(c) == routed[c].pc = "wait" /\ answer[c] \in {"none", "error"}

(* Mutation: on an HTTP error the coordinator posts once more by itself. *)
AnswerBadGatewayRetrying(c) ==
    /\ Unreachable(c)
    /\ Post(c, routed[c].node, tries[c])
    /\ UNCHANGED <<up, routed, answer, tries, runs, unclear>> /\ UNCHANGED registryVars

(* httpx.HTTPError: an error status, a refused connection or the timeout    *)
(* answers 502, whatever became of the post.                                *)
AnswerBadGateway(c) ==
    /\ Unreachable(c)
    /\ FailRoute(c, 502)

Handle(c) ==
    \/ Filter(c) \/ RouteToFirst(c) \/ ReturnResult(c) \/ AnswerBadGateway(c)
    \/ \E code \in {400, 500} : AnswerUnreadable(c, code)

ClusterNext ==
    \/ \E m \in Machines : RegisterEngine(m) \/ MachineStops(m)
    \/ \E i \in Ids : DeregisterEngine(i) \/ \E h \in BOOLEAN : EngineHeartbeat(i, h)
    \/ \E c \in Callers :
           \/ \E tags \in BOOLEAN : AutoRoute(c, tags)
           \/ \E i \in Ids : \/ RunOnEngine(c, i)
                            \/ \E code \in {204, 400, 404, 500, 502} : ProbeEngine(c, i, code)
           \/ \E p \in wire[c] : \/ PostLost(c, p)
                               \/ \E a \in {"ok", "error", "unreadable"} : EngineExecutes(c, p, a)
           \/ Handle(c)

ClusterSpec == ClusterInit /\ [][ClusterNext]_clusterVars

-----------------------------------------------------------------------------
Waiting(c) == routed[c].pc = "wait"

(* A request is worth at most one execution, although posts arrive late or  *)
(* after the answer and clients try again: every execution of a client's    *)
(* task belongs to a request of its own, which was answered 200, was told   *)
(* to have failed after it was posted, or still waits.  A refusal of any    *)
(* other kind executed nothing, and 200 means that the task ran.            *)
RoutedOnce ==
    \A c \in Callers :
        /\ runs[c] <= unclear[c] + (IF Waiting(c) \/ routed[c].status = 200 THEN 1 ELSE 0)
        /\ routed[c].status = 200 => runs[c] >= 1
=============================================================================
