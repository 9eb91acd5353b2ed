---------------------------- MODULE RemoteWorkers ----------------------------
(***************************************************************************)
(* Worker processes on another node: the maps and channels of the leader's *)
(* LeaderService, one RemoteWorker per attempt to spawn, the Manager's use *)
(* of the handle, and the NodeBridge that runs the processes.  The control *)
(* stream of the one node is a link that can break: its two ends notice    *)
(* separately and what was under way is lost.                              *)
(*                                                                         *)
(* A handle names an attempt to spawn and the process it asks for.  The    *)
(* messages of the code carry the session only (the request ID is the      *)
(* session ID), so an answer meets whatever attempt is current.            *)
(***************************************************************************)
EXTENDS Integers, Sequences

CONSTANTS
    Handles,     \* attempts to spawn; bound: as many as there are handles
    Sessions,
    NoHandle, NoSession,
    MaxBreaks    \* bound: how often the link breaks

ASSUME RemoteAssumption ==
    /\ NoHandle \notin Handles /\ NoSession \notin Sessions /\ MaxBreaks \in Nat

VARIABLES
    rw,          \* the attempts, with their RemoteWorker and the caller that waits
    workers,     \* LeaderService.workers
    spawnChans,  \* LeaderService.spawnChans: the attempt whose channel it is
    removing,    \* the session handleWorkerExited has still to remove
    proc,        \* the processes on the node
    local,       \* NodeBridge.workers
    toNode,      \* commands under way or in a goroutine of runConcurrent: unordered
    toLeader,    \* answers, in the order of the stream
    leaderUp, nodeUp, \* whether the leader has a connection; whether the node has
    breaks

RemoteVars == <<rw, workers, spawnChans, removing, proc, local, toNode, toLeader,
                leaderUp, nodeUp, breaks>>
leaderVars == <<rw, workers, spawnChans, removing>>
nodeVars == <<proc, local>>
linkVars == <<leaderUp, nodeUp, breaks>>

AttemptPcs == {"unused", "registered", "awaiting", "held", "stopping", "killing", "gone"}
Attempts == [pc: AttemptPcs, sid: Sessions \cup {NoSession}, closed: BOOLEAN,
             spawned: 0..2, error: BOOLEAN,           \* the spawn channel's content
             call: {"none", "waiting", "done"}, got: 0..2]  \* ... and the tool call's
Commands == [kind: {"spawn", "answer", "tool", "shutdown", "kill"}, by: Handles]
Answers == [kind: {"spawned", "failed", "tool", "exited"}, sid: Sessions, by: Handles]

RemoteTypeOK ==
    /\ rw \in [Handles -> Attempts]
    /\ workers \in [Sessions -> Handles \cup {NoHandle}]
    /\ spawnChans \in [Sessions -> Handles \cup {NoHandle}]
    /\ removing \in Sessions \cup {NoSession}
    /\ proc \in [Handles -> {"none", "up", "stopping", "exited", "reaped"}]
    /\ local \in [Sessions -> Handles \cup {NoHandle}]
    /\ toNode \subseteq Commands
    /\ toLeader \in Seq(Answers)
    /\ leaderUp \in BOOLEAN /\ nodeUp \in BOOLEAN /\ breaks \in 0..MaxBreaks

RemoteInit ==
    /\ rw = [h \in Handles |-> [pc |-> "unused", sid |-> NoSession, closed |-> FALSE,
                                spawned |-> 0, error |-> FALSE, call |-> "none", got |-> 0]]
    /\ workers = [x \in Sessions |-> NoHandle]
    /\ spawnChans = [x \in Sessions |-> NoHandle]
    /\ removing = NoSession
    /\ proc = [h \in Handles |-> "none"]
    /\ local = [x \in Sessions |-> NoHandle]
    /\ toNode = {} /\ toLeader = <<>>
    /\ leaderUp = TRUE /\ nodeUp = TRUE /\ breaks = 0

-----------------------------------------------------------------------------
(***************************************************************************)
(* Messages.                                                               *)
(***************************************************************************)
\* SendToNode: an error when the leader has no connection, lost when the node
\* has already let go of it.
Command(kind, h) == toNode' = IF leaderUp /\ nodeUp THEN toNode \cup {[kind |-> kind, by |-> h]}
                              ELSE toNode

\* WorkerStream.send on the stream the node has now; the error is ignored.
Tell(kind, h) == toLeader' = IF leaderUp /\ nodeUp
                             THEN Append(toLeader, [kind |-> kind, sid |-> rw[h].sid, by |-> h])
                             ELSE toLeader

Forget(map, x) == [map EXCEPT ![x] = NoHandle]

-----------------------------------------------------------------------------
(***************************************************************************)
(* The leader: SpawnOnNode and the handle it returns.                      *)
(***************************************************************************)
Active(x) == {h \in Handles : rw[h].sid = x /\ rw[h].pc \notin {"unused", "gone"}}

\* SpawnOnNode: the node is online and the attempt is registered.  The Manager
\* has one attempt per session at a time; which of the unused handles names it
\* does not matter.
SpawnOnNode(h, x) ==
    /\ rw[h].pc = "unused" /\ leaderUp /\ Active(x) = {}
    /\ h = CHOOSE g \in Handles : rw[g].pc = "unused"
    /\ rw' = [rw EXCEPT ![h].pc = "registered", ![h].sid = x]
    /\ workers' = [workers EXCEPT ![x] = h]
    /\ spawnChans' = [spawnChans EXCEPT ![x] = h]
    /\ UNCHANGED <<removing, nodeVars, toNode, toLeader, linkVars>>

\* cleanupSpawn and rw.Close: the attempt failed.
CleanupSpawn(h) ==
    /\ rw' = [rw EXCEPT ![h].pc = "gone", ![h].closed = TRUE]
    /\ workers' = Forget(workers, rw[h].sid)
    /\ spawnChans' = Forget(spawnChans, rw[h].sid)

\* sendAndAwaitSpawn sends the request ...
SendSpawn(h) ==
    /\ rw[h].pc = "registered"
    /\ Command("spawn", h)
    /\ IF leaderUp THEN rw' = [rw EXCEPT ![h].pc = "awaiting"] /\ UNCHANGED <<workers, spawnChans>>
                   ELSE CleanupSpawn(h)
    /\ UNCHANGED <<removing, nodeVars, toLeader, linkVars>>

\* ... and takes the result, or gives up: spawnTimeout or a cancelled context.
AwaitSpawn(h) ==
    /\ rw[h].pc = "awaiting"
    /\ \/ /\ rw[h].spawned > 0 /\ ~rw[h].error
          /\ rw' = [rw EXCEPT ![h].pc = "held"]
          /\ UNCHANGED <<workers, spawnChans>>
       \/ CleanupSpawn(h)
    /\ UNCHANGED <<removing, nodeVars, toNode, toLeader, linkVars>>

\* RemoteWorker.ExecuteTool up to its wait.
ExecuteTool(h) ==
    /\ rw[h].pc = "held" /\ rw[h].call = "none" /\ ~rw[h].closed
    /\ Command("tool", h)
    /\ rw' = [rw EXCEPT ![h].call = IF leaderUp THEN "waiting" ELSE "done"]
    /\ UNCHANGED <<workers, spawnChans, removing, nodeVars, toLeader, linkVars>>

\* ExecuteTool returns: a result, a closed worker or a cancelled context.
ToolReturns(h) ==
    /\ rw[h].call = "waiting"
    /\ rw' = [rw EXCEPT ![h].call = "done"]
    /\ UNCHANGED <<workers, spawnChans, removing, nodeVars, toNode, toLeader, linkVars>>

\* shutdownHandle: Shutdown, and Kill when the grace period is over.
ShutdownHandle(h) ==
    /\ \/ rw[h].pc = "held" /\ Command("shutdown", h) /\ rw' = [rw EXCEPT ![h].pc = "stopping"]
       \/ rw[h].pc = "stopping" /\ ~rw[h].closed
          /\ Command("kill", h) /\ rw' = [rw EXCEPT ![h].pc = "killing"]
    /\ UNCHANGED <<workers, spawnChans, removing, nodeVars, toLeader, linkVars>>

\* handle.Close once Done is closed: of a stopped worker, or of one that died.
CloseHandle(h) ==
    /\ rw[h].pc \in {"held", "stopping", "killing"} /\ rw[h].closed
    /\ workers' = Forget(workers, rw[h].sid)
    /\ rw' = [rw EXCEPT ![h].pc = "gone"]
    /\ UNCHANGED <<spawnChans, removing, nodeVars, toNode, toLeader, linkVars>>

\* KillWorkersOnNode, when the node is revoked.
KillWorkersOnNode ==
    LET hit == {workers[x] : x \in Sessions} \ {NoHandle} IN
    /\ hit # {}
    /\ workers' = [x \in Sessions |-> NoHandle]
    /\ rw' = [h \in Handles |-> IF h \in hit THEN [rw[h] EXCEPT !.closed = TRUE] ELSE rw[h]]
    /\ toNode' = IF leaderUp /\ nodeUp
                 THEN toNode \cup {[kind |-> "kill", by |-> h] : h \in hit} ELSE toNode
    /\ UNCHANGED <<spawnChans, removing, nodeVars, toLeader, linkVars>>

(***************************************************************************)
(* The leader's read loop.  It handles one answer at a time, and a send to *)
(* a channel that is full would block it for ever.                         *)
(***************************************************************************)
Arrived(kinds) == removing = NoSession /\ toLeader # <<>> /\ Head(toLeader).kind \in kinds

\* OnSpawnResult: the channel is taken out of the map and gets the result.
OnSpawnResult ==
    LET x == Head(toLeader).sid
        h == spawnChans[x] IN
    /\ Arrived({"spawned", "failed"})
    /\ toLeader' = Tail(toLeader)
    /\ rw' = IF h = NoHandle THEN rw
             ELSE [rw EXCEPT ![h].spawned = @ + 1, ![h].error = Head(toLeader).kind = "failed"]
    /\ spawnChans' = Forget(spawnChans, x)
    /\ UNCHANGED <<workers, removing, nodeVars, toNode, linkVars>>

\* deliverToolResult and DeliverToolResult: the call must still be pending.
OnToolResult ==
    LET h == workers[Head(toLeader).sid] IN
    /\ Arrived({"tool"})
    /\ toLeader' = Tail(toLeader)
    /\ rw' = IF h = Head(toLeader).by /\ h # NoHandle /\ rw[h].call = "waiting"
             THEN [rw EXCEPT ![h].got = @ + 1] ELSE rw
    /\ UNCHANGED <<workers, spawnChans, removing, nodeVars, toNode, linkVars>>

\* handleWorkerExited: rw.Close ...
OnWorkerExited ==
    LET x == Head(toLeader).sid
        h == workers[x] IN
    /\ Arrived({"exited"})
    /\ toLeader' = Tail(toLeader)
    /\ rw' = IF h = NoHandle THEN rw ELSE [rw EXCEPT ![h].closed = TRUE]
    /\ removing' = IF h = NoHandle THEN NoSession ELSE x
    /\ UNCHANGED <<workers, spawnChans, nodeVars, toNode, linkVars>>

\* ... then removeWorker, of whatever the session has by then.
RemoveWorker ==
    /\ removing # NoSession
    /\ workers' = Forget(workers, removing)
    /\ removing' = NoSession
    /\ UNCHANGED <<rw, spawnChans, nodeVars, toNode, toLeader, linkVars>>

-----------------------------------------------------------------------------
(***************************************************************************)
(* The node: NodeBridge.                                                   *)
(***************************************************************************)
Handling(kind, h) == [kind |-> kind, by |-> h] \in toNode
Handled(kind, h) == toNode' = toNode \ {[kind |-> kind, by |-> h]}

\* handleSpawn up to the point where the process is watched ...
HandleSpawn(h) ==
    /\ Handling("spawn", h)
    /\ \/ /\ proc' = [proc EXCEPT ![h] = "up"]
          /\ local' = [local EXCEPT ![rw[h].sid] = h]
          /\ toNode' = (toNode \ {[kind |-> "spawn", by |-> h]}) \cup {[kind |-> "answer", by |-> h]}
          /\ UNCHANGED toLeader
       \/ /\ Handled("spawn", h) /\ Tell("failed", h)   \* no directory, no process, not ready
          /\ UNCHANGED nodeVars
    /\ UNCHANGED <<leaderVars, linkVars>>

\* ... and SendSpawnResult.
AnswerSpawn(h) ==
    /\ Handling("answer", h)
    /\ Handled("answer", h) /\ Tell("spawned", h)
    /\ UNCHANGED <<leaderVars, nodeVars, linkVars>>

\* Mutant of HandleExecuteTool: without the return the missing worker is
\* answered twice.
HandleExecuteToolTwice(h) ==
    /\ Handling("tool", h)
    /\ Handled("tool", h)
    /\ toLeader' = IF leaderUp /\ nodeUp
                   THEN LET m == [kind |-> "tool", sid |-> rw[h].sid, by |-> h]
                        IN toLeader \o (IF local[rw[h].sid] = NoHandle THEN <<m, m>> ELSE <<m>>)
                   ELSE toLeader
    /\ UNCHANGED <<leaderVars, nodeVars, linkVars>>

\* handleExecuteTool: one answer, also when there is no worker or it fails.
HandleExecuteTool(h) ==
    /\ Handling("tool", h)
    /\ Handled("tool", h) /\ Tell("tool", h)
    /\ UNCHANGED <<leaderVars, nodeVars, linkVars>>

\* handleShutdown and handleKill act on the worker the session has now.
HandleStop(h) ==
    LET p == local[rw[h].sid] IN
    /\ \/ /\ Handling("shutdown", h) /\ Handled("shutdown", h)
          /\ proc' = IF p # NoHandle /\ proc[p] = "up" THEN [proc EXCEPT ![p] = "stopping"] ELSE proc
       \/ /\ Handling("kill", h) /\ Handled("kill", h)
          /\ proc' = IF p # NoHandle /\ proc[p] \in {"up", "stopping"}
                     THEN [proc EXCEPT ![p] = "exited"] ELSE proc
    /\ UNCHANGED <<leaderVars, local, toLeader, linkVars>>

\* A process ends, by itself or because it was asked to.
ProcExits(h) ==
    /\ proc[h] \in {"up", "stopping"}
    /\ proc' = [proc EXCEPT ![h] = "exited"]
    /\ UNCHANGED <<leaderVars, local, toNode, toLeader, linkVars>>

\* watchWorkerExit: the session's entry goes, whichever process it names.
WatchWorkerExit(h) ==
    /\ proc[h] = "exited"
    /\ proc' = [proc EXCEPT ![h] = "reaped"]
    /\ local' = Forget(local, rw[h].sid)
    /\ Tell("exited", h)
    /\ UNCHANGED <<leaderVars, toNode, linkVars>>

-----------------------------------------------------------------------------
(***************************************************************************)
(* The link.                                                               *)
(***************************************************************************)
\* The node's end fails: what was sent is lost, the commands (or those it had received)
\* go on, and ShutdownAll stops or kills every worker.
NodeDisconnects ==
    /\ nodeUp /\ (leaderUp => breaks < MaxBreaks)
    /\ breaks' = IF leaderUp THEN breaks + 1 ELSE breaks
    /\ nodeUp' = FALSE
    /\ toLeader' = <<>>
    /\ toNode' \in {toNode, {}}
    /\ proc' = [h \in Handles |-> IF proc[h] = "up" /\ h = local[rw[h].sid]
                                  THEN "stopping" ELSE proc[h]]
    /\ UNCHANGED <<leaderVars, local, leaderUp>>

\* The leader's end fails: cleanupNode.  No RemoteWorker is closed.
LeaderDisconnects ==
    /\ leaderUp /\ (nodeUp => breaks < MaxBreaks)
    /\ breaks' = IF nodeUp THEN breaks + 1 ELSE breaks
    /\ leaderUp' = FALSE
    /\ toLeader' = <<>>
    /\ UNCHANGED <<leaderVars, nodeVars, toNode, nodeUp>>

\* The worker's loop connects again.
Reconnect ==
    /\ ~leaderUp /\ ~nodeUp
    /\ leaderUp' = TRUE /\ nodeUp' = TRUE
    /\ UNCHANGED <<leaderVars, nodeVars, toNode, toLeader, breaks>>

RemoteNext ==
    \/ \E h \in Handles :
         \/ \E x \in Sessions : SpawnOnNode(h, x)
         \/ SendSpawn(h) \/ AwaitSpawn(h) \/ ExecuteTool(h) \/ ToolReturns(h)
         \/ ShutdownHandle(h) \/ CloseHandle(h)
         \/ HandleSpawn(h) \/ AnswerSpawn(h) \/ HandleExecuteTool(h) \/ HandleStop(h)
         \/ ProcExits(h) \/ WatchWorkerExit(h)
    \/ KillWorkersOnNode
    \/ OnSpawnResult \/ OnToolResult \/ OnWorkerExited \/ RemoveWorker
    \/ NodeDisconnects \/ LeaderDisconnects \/ Reconnect

RemoteSpec == RemoteInit /\ [][RemoteNext]_RemoteVars

-----------------------------------------------------------------------------
\* The leader's read loop never blocks on a channel: each holds one answer,
\* and late, repeated and misrouted answers never bring a second one while it
\* is registered, across timeouts, retries under the same request ID, exits
\* and reconnects.
AnswersFit == \A h \in Handles : rw[h].spawned <= 1 /\ rw[h].got <= 1

=============================================================================
