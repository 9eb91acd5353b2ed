------------------------------- MODULE Swarm -------------------------------
(***************************************************************************)
(* Tasks delegated to worker agents: transport/server.go, client.go and    *)
(* the tables of hub/hub.go.                                               *)
(*                                                                         *)
(* Each connection is a worker of its own.  Its goroutine on the leader    *)
(* registers it, reads its messages and cleans up behind it; DispatchTask  *)
(* runs in other goroutines and meets it at Server.mu and Swarm.mu.        *)
(***************************************************************************)
EXTENDS Naturals, Sequences, FiniteSets

CONSTANTS
    Peers,      \* connections of worker agents
    Dispatches, \* calls of DispatchTask
    NoPeer

VARIABLES
    joined,     \* Swarm.workers
    active,     \* Swarm.tasks
    listed,     \* Server.conns and the keys of Server.tasks, which change together
    owned,      \* Server.tasks: the pending tasks of each worker
    waiting,    \* Server.pending: the tasks that have a channel there
    answer,     \* what was sent to the channel of each task
    server,     \* the goroutine of each connection
    dispatch,   \* the DispatchTask of each task
    open,       \* connections that are not closed
    requests,   \* task requests on the way, or being handled by the client
    replies     \* messages of each client, in order

swarmVars == <<joined, active, listed, owned, waiting, answer, server, dispatch, open,
               requests, replies>>
hubVars == <<joined, active>>
mapVars == <<listed, owned, waiting>>
wireVars == <<open, requests, replies>>

Quiet == [pc |-> "new", task |-> "none", ok |-> FALSE, fail |-> {}, tell |-> {}]

ServerPcs == {"new", "validate", "join", "list", "confirm", "read", "answer", "complete",
              "collect", "fail", "gone"}
DispatchPcs == {"new", "found", "added", "tracked", "await", "untrack", "returned"}

ServerRecs == [pc: ServerPcs, task: Dispatches \cup {"none"}, ok: BOOLEAN,
               fail: SUBSET Dispatches, tell: SUBSET Dispatches]
DispatchRecs == [pc: DispatchPcs, peer: Peers \cup {NoPeer}]
ReplyRecs == [task: Dispatches, ok: BOOLEAN]

SwarmTypeOK ==
    /\ joined \subseteq Peers /\ listed \subseteq Peers /\ open \subseteq Peers
    /\ active \subseteq Dispatches /\ waiting \subseteq Dispatches
    /\ owned \in [Peers -> SUBSET Dispatches]
    /\ answer \in [Dispatches -> Seq({"result", "error", "lost"})]
    /\ server \in [Peers -> ServerRecs]
    /\ dispatch \in [Dispatches -> DispatchRecs]
    /\ requests \in [Peers -> SUBSET Dispatches]
    /\ replies \in [Peers -> Seq(ReplyRecs)]

SwarmInit ==
    /\ joined = {} /\ active = {} /\ listed = {} /\ waiting = {}
    /\ owned = [p \in Peers |-> {}]
    /\ answer = [t \in Dispatches |-> <<>>]
    /\ server = [p \in Peers |-> Quiet]
    /\ dispatch = [t \in Dispatches |-> [pc |-> "new", peer |-> NoPeer]]
    /\ open = {} /\ requests = [p \in Peers |-> {}] /\ replies = [p \in Peers |-> <<>>]

ServerAt(p, pc) == server' = [server EXCEPT ![p].pc = pc]

-----------------------------------------------------------------------------
(* The goroutine of a connection.                                          *)

\* Client.Connect dials and sends its registration.
Connect(p) ==
    /\ server[p].pc = "new"
    /\ ServerAt(p, "validate") /\ open' = open \cup {p}
    /\ UNCHANGED <<hubVars, mapVars, answer, dispatch, requests, replies>>

\* readRegistration: a wrong first message, swarm code or field ends it.
ValidateRegistration(p) ==
    /\ server[p].pc = "validate"
    /\ \/ ServerAt(p, "join") /\ UNCHANGED open
       \/ ServerAt(p, "gone") /\ open' = open \ {p}
    /\ UNCHANGED <<hubVars, mapVars, answer, dispatch, requests, replies>>

AddWorker(p) ==
    /\ server[p].pc = "join"
    /\ ServerAt(p, "list")
    /\ joined' = joined \cup {p}
    /\ UNCHANGED <<active, mapVars, answer, dispatch, wireVars>>

\* conns and tasks, under Server.mu.
ListWorker(p) ==
    /\ server[p].pc = "list"
    /\ ServerAt(p, "confirm")
    /\ listed' = listed \cup {p}
    /\ UNCHANGED <<hubVars, owned, waiting, answer, dispatch, wireVars>>

\* The confirmation is written, or writing fails.
Confirm(p) ==
    /\ server[p].pc = "confirm"
    /\ \/ p \in open /\ ServerAt(p, "read")
       \/ ServerAt(p, "collect")
    /\ UNCHANGED <<hubVars, mapVars, answer, dispatch, wireVars>>

\* handleTaskResult and handleTaskError: whoever does not own the task is
\* ignored; the task leaves both maps before it is answered.
TakeReply(p) ==
    LET reply == Head(replies[p]) IN
    /\ server[p].pc = "read" /\ replies[p] # <<>>
    /\ replies' = [replies EXCEPT ![p] = Tail(@)]
    /\ IF p \in listed /\ reply.task \in owned[p]
       THEN /\ server' = [server EXCEPT ![p] = [@ EXCEPT
                            !.pc = IF reply.task \in waiting THEN "answer" ELSE "complete",
                            !.task = reply.task, !.ok = reply.ok]]
            /\ waiting' = waiting \ {reply.task}
            /\ owned' = [owned EXCEPT ![p] = @ \ {reply.task}]
       ELSE UNCHANGED <<server, waiting, owned>>
    /\ UNCHANGED <<hubVars, listed, answer, dispatch, open, requests>>

\* ch <- response: the channel has room for one.
Answer(p) ==
    LET t == server[p].task IN
    /\ server[p].pc = "answer" /\ answer[t] = <<>>
    /\ answer' = [answer EXCEPT ![t] = <<IF server[p].ok THEN "result" ELSE "error">>]
    /\ ServerAt(p, "complete")
    /\ UNCHANGED <<hubVars, mapVars, dispatch, wireVars>>

\* CompleteTask or FailTask; an error if the task is gone already.
CompleteTask(p) ==
    /\ server[p].pc = "complete"
    /\ active' = active \ {server[p].task}
    /\ ServerAt(p, "read")
    /\ UNCHANGED <<joined, mapVars, answer, dispatch, wireVars>>

\* The connection breaks.
PeerLeaves(p) ==
    /\ p \in open
    /\ open' = open \ {p}
    /\ replies' = [replies EXCEPT ![p] = <<>>]
    /\ requests' = [requests EXCEPT ![p] = {}]
    /\ UNCHANGED <<hubVars, mapVars, answer, server, dispatch>>

ReadFails(p) ==
    /\ server[p].pc = "read" /\ p \notin open
    /\ ServerAt(p, "collect")
    /\ UNCHANGED <<hubVars, mapVars, answer, dispatch, wireVars>>

\* cleanup, under Server.mu.
CollectPending(p) ==
    /\ server[p].pc = "collect"
    /\ server' = [server EXCEPT ![p] = [@ EXCEPT !.pc = "fail", !.fail = owned[p],
                                                 !.tell = owned[p] \cap waiting]]
    /\ waiting' = waiting \ owned[p]
    /\ owned' = [owned EXCEPT ![p] = {}]
    /\ listed' = listed \ {p}
    /\ UNCHANGED <<hubVars, answer, dispatch, wireVars>>

\* ... outside the lock, one task after another: the dispatcher is told, then
\* the swarm forgets the task.
TellDisconnected(p) ==
    \E t \in server[p].fail \cap server[p].tell :
        /\ server[p].pc = "fail" /\ answer[t] = <<>>
        /\ answer' = [answer EXCEPT ![t] = <<"lost">>]
        /\ server' = [server EXCEPT ![p].tell = @ \ {t}]
        /\ UNCHANGED <<hubVars, mapVars, dispatch, wireVars>>

FailTask(p) ==
    \E t \in server[p].fail \ server[p].tell :
        /\ server[p].pc = "fail"
        /\ active' = active \ {t}
        /\ server' = [server EXCEPT ![p].fail = @ \ {t}]
        /\ UNCHANGED <<joined, mapVars, answer, dispatch, wireVars>>

\* RemoveWorker, and the connection is closed.
CleanupEnds(p) ==
    /\ server[p].pc = "fail" /\ server[p].fail = {}
    /\ joined' = joined \ {p}
    /\ ServerAt(p, "gone")
    /\ open' = open \ {p}
    /\ replies' = [replies EXCEPT ![p] = <<>>] /\ requests' = [requests EXCEPT ![p] = {}]
    /\ UNCHANGED <<active, mapVars, answer, dispatch>>

-----------------------------------------------------------------------------
(* DispatchTask.                                                           *)

DispatchAt(t, pc) == dispatch' = [dispatch EXCEPT ![t].pc = pc]

\* The caller chose a worker from the swarm's snapshot, now or earlier; it has
\* a connection, or the call fails.
DispatchTask(t) ==
    \E p \in Peers :
        /\ dispatch[t].pc = "new"
        /\ server[p].pc \notin {"new", "validate", "join"}
        /\ dispatch' = [dispatch EXCEPT ![t] =
                            [pc |-> IF p \in listed THEN "found" ELSE "returned", peer |-> p]]
        /\ UNCHANGED <<hubVars, mapVars, answer, server, wireVars>>

AddTask(t) ==
    /\ dispatch[t].pc = "found"
    /\ active' = active \cup {t}
    /\ DispatchAt(t, "added")
    /\ UNCHANGED <<joined, mapVars, answer, server, wireVars>>

\* The worker may have been cleaned up meanwhile: then nobody owns the task.
TrackTask(t) ==
    LET p == dispatch[t].peer IN
    /\ dispatch[t].pc = "added"
    /\ waiting' = waiting \cup {t}
    /\ owned' = IF p \in listed THEN [owned EXCEPT ![p] = @ \cup {t}] ELSE owned
    /\ DispatchAt(t, "tracked")
    /\ UNCHANGED <<hubVars, listed, answer, server, wireVars>>

\* The request is written, or writing fails and the swarm forgets the task.
SendRequest(t) ==
    LET p == dispatch[t].peer IN
    /\ dispatch[t].pc = "tracked"
    /\ \/ /\ p \in open
          /\ requests' = [requests EXCEPT ![p] = @ \cup {t}]
          /\ DispatchAt(t, "await")
          /\ UNCHANGED active
       \/ /\ active' = active \ {t}
          /\ DispatchAt(t, "untrack")
          /\ UNCHANGED requests
    /\ UNCHANGED <<joined, mapVars, answer, server, open, replies>>

\* Mutant of AwaitTask: a cancelled caller leaves the task to the swarm.
AwaitTaskKeeping(t) ==
    /\ dispatch[t].pc = "await"
    /\ DispatchAt(t, "untrack")
    /\ UNCHANGED <<hubVars, mapVars, answer, server, wireVars>>

\* The answer or the end of the caller's context, in any order.
AwaitTask(t) ==
    /\ dispatch[t].pc = "await"
    /\ \/ answer[t] # <<>> /\ UNCHANGED active
       \/ active' = active \ {t}         \* the context is cancelled
    /\ DispatchAt(t, "untrack")
    /\ UNCHANGED <<joined, mapVars, answer, server, wireVars>>

UntrackTask(t) ==
    /\ dispatch[t].pc = "untrack"
    /\ waiting' = waiting \ {t}
    /\ owned' = [owned EXCEPT ![dispatch[t].peer] = @ \ {t}]
    /\ DispatchAt(t, "returned")
    /\ UNCHANGED <<hubVars, listed, answer, server, wireVars>>

-----------------------------------------------------------------------------
\* Client.handleTask, one goroutine per request: in whatever order they end.
HandleTask(p) ==
    \E t \in requests[p], ok \in BOOLEAN :
        /\ p \in open
        /\ requests' = [requests EXCEPT ![p] = @ \ {t}]
        /\ replies' = [replies EXCEPT ![p] = Append(@, [task |-> t, ok |-> ok])]
        /\ UNCHANGED <<hubVars, mapVars, answer, server, dispatch, open>>

SwarmNext ==
    \/ \E p \in Peers :
         \/ Connect(p) \/ ValidateRegistration(p) \/ AddWorker(p) \/ ListWorker(p) \/ Confirm(p)
         \/ TakeReply(p) \/ Answer(p) \/ CompleteTask(p) \/ PeerLeaves(p) \/ ReadFails(p)
         \/ CollectPending(p) \/ TellDisconnected(p) \/ FailTask(p) \/ CleanupEnds(p)
         \/ HandleTask(p)
    \/ \E t \in Dispatches : DispatchTask(t) \/ AddTask(t) \/ TrackTask(t) \/ SendRequest(t)
                          \/ AwaitTask(t) \/ UntrackTask(t)

SwarmSpec == SwarmInit /\ [][SwarmNext]_swarmVars

-----------------------------------------------------------------------------
\* The connection's goroutine is about to make the swarm forget the task.
BeingFinished(p, t) ==
    \/ server[p].pc \in {"answer", "complete"} /\ server[p].task = t
    \/ t \in server[p].fail

\* Whichever of the result, the worker's disconnect, a failed write and the
\* caller's cancellation comes first, and whatever comes second: once
\* DispatchTask has returned nothing is left of its task in Server.pending, in
\* the tasks of any worker or, as soon as the goroutine that answered it is
\* through, in Swarm.tasks; and no goroutine of a connection is stuck sending a
\* second answer.
NothingLeftOfTask ==
    \A t \in Dispatches :
        /\ dispatch[t].pc = "returned" =>
             /\ t \notin waiting /\ \A p \in Peers : t \notin owned[p]
             /\ t \in active => \E p \in Peers : BeingFinished(p, t)
        /\ \A p \in Peers : server[p].pc = "answer" /\ server[p].task = t => answer[t] = <<>>
=============================================================================
