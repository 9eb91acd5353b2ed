---------------------------- MODULE ClusterNodes ----------------------------
(***************************************************************************)
(* How worker nodes join a leader: the control streams of internal/cluster *)
(* with the goroutine that serves each of them (LeaderStream.NodeStream),  *)
(* the reconnect loop of a worker node (cmd/hiro/worker_node.go), the node *)
(* and pending registries, the approval lists of the configuration and the *)
(* operator's requests of api/cluster_nodes.go.                            *)
(*                                                                         *)
(* A stream is one attempt of a worker to connect.  Its two ends notice    *)
(* that it broke, or that the other end let go, each in a step of its own. *)
(***************************************************************************)
EXTENDS Integers, FiniteSets

CONSTANTS
    Nodes,        \* worker nodes
    Streams,      \* stream identities; one is reused once both ends are done with it
    NoStream,
    MaxPending,   \* maxPendingNodes
    MaxFaults,    \* bound: broken streams, restarts and failed saves
    MaxRequests   \* bound: requests of the operator

ASSUME ClusterAssumption ==
    /\ Nodes # {} /\ NoStream \notin Streams
    /\ MaxPending \in Nat /\ MaxFaults \in Nat /\ MaxRequests \in Nat

VARIABLES
    lists,       \* config.Cluster: approved and revoked nodes
    savedLists,  \* the same in config.yaml
    pending,     \* PendingRegistry.nodes
    savedPending,\* its YAML file
    registry,    \* NodeRegistry: "absent", "online" or "offline"
    conns,       \* LeaderStream.conns: the stream of a node, or NoStream
    stream,      \* the streams, with the goroutine of the leader that serves each
    node,        \* the worker nodes
    revoking,    \* requests to revoke a node that are under way
    faults, requests

listVars == <<lists, savedLists, pending, savedPending>>
ClusterVars == <<listVars, registry, conns, stream, node, revoking, faults, requests>>

HandlerPcs == {"recv", "granted", "revoked", "unknown", "registered", "published",
               "reading", "closing", "unlinked", "ended"}
NodePcs == {"dial", "waiting", "reading", "cleanup", "sleep", "stopped"}
Lists == [approved: SUBSET Nodes, revoked: SUBSET Nodes]
StreamRecs == [owner: Nodes, pc: HandlerPcs, up: BOOLEAN, done: BOOLEAN,
               reply: {"none", "registered", "pending", "rejected"}]
NodeRecs == [pc: NodePcs, stream: Streams \cup {NoStream},
             status: {"connecting", "connected", "pending", "revoked", "disconnected"}]

ClusterTypeOK ==
    /\ lists \in Lists /\ savedLists \in Lists
    /\ pending \subseteq Nodes /\ savedPending \subseteq Nodes
    /\ Cardinality(pending) <= MaxPending
    /\ registry \in [Nodes -> {"absent", "online", "offline"}]
    /\ conns \in [Nodes -> Streams \cup {NoStream}]
    /\ stream \in [Streams -> StreamRecs]
    /\ node \in [Nodes -> NodeRecs]
    /\ revoking \in [Nodes -> {"no", "listed", "disconnected"}]
    /\ faults \in 0..MaxFaults /\ requests \in 0..MaxRequests

NoLists == [approved |-> {}, revoked |-> {}]

ClusterInit ==
    /\ lists = NoLists /\ savedLists = NoLists
    /\ pending = {} /\ savedPending = {}
    /\ registry = [n \in Nodes |-> "absent"]
    /\ conns = [n \in Nodes |-> NoStream]
    /\ stream = [s \in Streams |-> [owner |-> CHOOSE n \in Nodes : TRUE, pc |-> "ended",
                                    up |-> FALSE, done |-> FALSE, reply |-> "none"]]
    /\ node = [n \in Nodes |-> [pc |-> "dial", stream |-> NoStream, status |-> "connecting"]]
    /\ revoking = [n \in Nodes |-> "no"]
    /\ faults = 0 /\ requests = 0

\* A step that needs the environment to go wrong.
Fault == faults < MaxFaults /\ faults' = faults + 1

-----------------------------------------------------------------------------
(***************************************************************************)
(* The lists.  A save may fail: the change is then only in memory.         *)
(***************************************************************************)
\* NodeApprovalCheck: a revocation counts more than an approval.
Verdict(n) ==
    CASE n \in lists.revoked -> "revoked"
      [] n \in lists.approved \ lists.revoked -> "granted"
      [] OTHER -> "unknown"

\* cp.Save after the change that gives new.
SaveLists(new) ==
    /\ lists' = new
    /\ \/ savedLists' = new /\ UNCHANGED faults
       \/ Fault /\ UNCHANGED savedLists

\* saveLocked after the change that gives new; its error is only logged.
SavePending(new) ==
    /\ pending' = new
    /\ \/ savedPending' = new /\ UNCHANGED faults
       \/ Fault /\ UNCHANGED savedPending

\* AddOrUpdate has room for n.
HasRoom(n) == n \in pending \/ Cardinality(pending) < MaxPending

-----------------------------------------------------------------------------
(***************************************************************************)
(* The goroutine of the leader that serves a stream.                       *)
(***************************************************************************)
Unused(s) == stream[s].pc = "ended" /\ \A n \in Nodes : node[n].stream # s
Serves(s, pc) == stream[s].pc = pc
HandlerAt(s, pc) == stream' = [stream EXCEPT ![s].pc = pc]

\* NodeStream: the registration message arrives and the approval is checked.
CheckApproval(s) ==
    /\ Serves(s, "recv")
    /\ HandlerAt(s, IF stream[s].up THEN Verdict(stream[s].owner) ELSE "ended")
    /\ UNCHANGED <<listVars, registry, conns, node, revoking, faults, requests>>

\* handleUnapprovedNode for a revoked node.
RejectRevoked(s) ==
    /\ Serves(s, "revoked")
    /\ stream' = [stream EXCEPT ![s].pc = "ended", ![s].reply = "rejected"]
    /\ UNCHANGED <<listVars, registry, conns, node, revoking, faults, requests>>

\* handleUnapprovedNode for a node in neither list: with the registry full it
\* gets the same answer as a revoked node.
AddPending(s) ==
    LET n == stream[s].owner IN
    /\ Serves(s, "unknown")
    /\ \/ /\ HasRoom(n)
          /\ SavePending(pending \cup {n})
          /\ stream' = [stream EXCEPT ![s].pc = "ended", ![s].reply = "pending"]
       \/ /\ ~HasRoom(n)
          /\ stream' = [stream EXCEPT ![s].pc = "ended", ![s].reply = "rejected"]
          /\ UNCHANGED <<pending, savedPending, faults>>
    /\ UNCHANGED <<lists, savedLists, registry, conns, node, revoking, requests>>

\* runApprovedNode: pending.Remove and registry.Register.
RegisterNode(s) ==
    LET n == stream[s].owner IN
    /\ Serves(s, "granted")
    /\ IF n \in pending THEN SavePending(pending \ {n})
                        ELSE UNCHANGED <<pending, savedPending, faults>>
    /\ registry' = [registry EXCEPT ![n] = "online"]
    /\ HandlerAt(s, "registered")
    /\ UNCHANGED <<lists, savedLists, conns, node, revoking, requests>>

\* ... the connection becomes the node's one ...
PublishConn(s) ==
    /\ Serves(s, "registered")
    /\ conns' = [conns EXCEPT ![stream[s].owner] = s]
    /\ HandlerAt(s, "published")
    /\ UNCHANGED <<listVars, registry, node, revoking, faults, requests>>

\* Mutant of SendRegistered: the failed send returns without cleanupNode.
SendRegisteredAndReturn(s) ==
    /\ Serves(s, "published")
    /\ \/ stream' = [stream EXCEPT ![s].pc = "reading", ![s].reply = "registered"]
       \/ ~stream[s].up /\ HandlerAt(s, "ended")
    /\ UNCHANGED <<listVars, registry, conns, node, revoking, faults, requests>>

\* ... and NodeRegistered is sent.  On a broken stream Send may still succeed.
SendRegistered(s) ==
    /\ Serves(s, "published")
    /\ \/ stream' = [stream EXCEPT ![s].pc = "reading", ![s].reply = "registered"]
       \/ ~stream[s].up /\ HandlerAt(s, "closing")
    /\ UNCHANGED <<listVars, registry, conns, node, revoking, faults, requests>>

\* readLoop returns: DisconnectNode closed conn.done, or Recv failed.
ReadLoopEnds(s) ==
    /\ Serves(s, "reading")
    /\ stream[s].done \/ ~stream[s].up
    /\ HandlerAt(s, "closing")
    /\ UNCHANGED <<listVars, registry, conns, node, revoking, faults, requests>>

\* cleanupNode: the entry of the node is deleted, whichever stream it names.
DeleteConn(s) ==
    /\ Serves(s, "closing")
    /\ conns' = [conns EXCEPT ![stream[s].owner] = NoStream]
    /\ HandlerAt(s, "unlinked")
    /\ UNCHANGED <<listVars, registry, node, revoking, faults, requests>>

\* cleanupNode: registry.SetOffline; the handler returns.
SetOffline(s) ==
    LET n == stream[s].owner IN
    /\ Serves(s, "unlinked")
    /\ registry' = [registry EXCEPT ![n] = IF @ = "absent" THEN @ ELSE "offline"]
    /\ HandlerAt(s, "ended")
    /\ UNCHANGED <<listVars, conns, node, revoking, faults, requests>>

-----------------------------------------------------------------------------
(***************************************************************************)
(* A worker node.                                                          *)
(***************************************************************************)
\* The worker's end of the stream is of no more use.
Lost(n) == LET s == node[n].stream IN ~stream[s].up \/ stream[s].pc = "ended"

\* Connect: dial, open the stream and send NodeRegister.
Dial(n) ==
    /\ node[n].pc = "dial"
    /\ \E s \in Streams :
         /\ Unused(s)
         /\ stream' = [stream EXCEPT ![s] = [owner |-> n, pc |-> "recv", up |-> TRUE,
                                             done |-> FALSE, reply |-> "none"]]
         /\ node' = [node EXCEPT ![n].pc = "waiting", ![n].stream = s]
    /\ UNCHANGED <<listVars, registry, conns, revoking, faults, requests>>

\* Connect fails before there is a stream: the leader cannot be reached.
DialFails(n) ==
    /\ node[n].pc = "dial"
    /\ Fault
    /\ node' = [node EXCEPT ![n].pc = "cleanup", ![n].status = "disconnected"]
    /\ UNCHANGED <<listVars, registry, conns, stream, revoking, requests>>

\* Mutant of TakeReply: a node that has to wait for approval gives up as well.
TakeReplyGivingUp(n) ==
    LET r == stream[node[n].stream].reply IN
    /\ node[n].pc = "waiting" /\ r # "none"
    /\ node' = [node EXCEPT
         ![n].pc = IF r = "registered" THEN "reading"
                   ELSE IF r = "pending" THEN "stopped" ELSE "cleanup",
         ![n].status = CASE r = "registered" -> "connected"
                         [] r = "pending" -> "pending"
                         [] r = "rejected" -> "revoked"]
    /\ UNCHANGED <<listVars, registry, conns, stream, revoking, faults, requests>>

\* Connect takes the leader's answer (onConnected, or an error for updateConnStatus).
TakeReply(n) ==
    LET r == stream[node[n].stream].reply IN
    /\ node[n].pc = "waiting" /\ r # "none"
    /\ node' = [node EXCEPT
         ![n].pc = IF r = "registered" THEN "reading" ELSE "cleanup",
         ![n].status = CASE r = "registered" -> "connected"
                         [] r = "pending" -> "pending"
                         [] r = "rejected" -> "revoked"]
    /\ UNCHANGED <<listVars, registry, conns, stream, revoking, faults, requests>>

\* Recv fails, while the worker waits for the answer or in its readLoop.
RecvFails(n) ==
    /\ \/ node[n].pc = "waiting" /\ Lost(n)
          /\ (stream[node[n].stream].up => stream[node[n].stream].reply = "none")
       \/ node[n].pc = "reading" /\ Lost(n)
    /\ node' = [node EXCEPT ![n].pc = "cleanup", ![n].status = "disconnected"]
    /\ UNCHANGED <<listVars, registry, conns, stream, revoking, faults, requests>>

\* Connect returns and closes its connection; ShutdownAll and resetSyncState
\* run; a node that was rejected waits for its operator, any other retries.
CleanUp(n) ==
    LET s == node[n].stream IN
    /\ node[n].pc = "cleanup"
    /\ stream' = IF s = NoStream THEN stream ELSE [stream EXCEPT ![s].up = FALSE]
    /\ node' = [node EXCEPT ![n].stream = NoStream,
                            ![n].pc = IF node[n].status = "revoked" THEN "stopped" ELSE "sleep"]
    /\ UNCHANGED <<listVars, registry, conns, revoking, faults, requests>>

\* The reconnect delay is over.
Retry(n) ==
    /\ node[n].pc = "sleep"
    /\ node' = [node EXCEPT ![n].pc = "dial", ![n].status = "connecting"]
    /\ UNCHANGED <<listVars, registry, conns, stream, revoking, faults, requests>>

-----------------------------------------------------------------------------
(***************************************************************************)
(* The operator of the leader.                                             *)
(***************************************************************************)
Request == requests < MaxRequests /\ requests' = requests + 1

\* handleApproveNode.  Its removal from the pending file and its save of the
\* configuration may fail separately; one fault stands for either.
Approve(n) ==
    /\ Request
    /\ n \in pending
    /\ pending' = pending \ {n}
    /\ lists' = [lists EXCEPT !.approved = @ \cup {n}]
    /\ \/ savedPending' = pending' /\ savedLists' = lists' /\ UNCHANGED faults
       \/ Fault /\ savedPending' = pending' /\ UNCHANGED savedLists
       \/ Fault /\ UNCHANGED savedPending /\ savedLists' = lists'
    /\ UNCHANGED <<registry, conns, stream, node, revoking>>

\* handleDismissNode
Dismiss(n) ==
    /\ Request
    /\ n \in pending
    /\ SavePending(pending \ {n})
    /\ UNCHANGED <<lists, savedLists, registry, conns, stream, node, revoking>>

\* handleRemoveApproved: cp.RevokeNode ...
Revoke(n) ==
    /\ Request
    /\ revoking[n] = "no"
    /\ lists' = [approved |-> lists.approved \ {n}, revoked |-> lists.revoked \cup {n}]
    /\ revoking' = [revoking EXCEPT ![n] = "listed"]
    /\ UNCHANGED <<savedLists, pending, savedPending, registry, conns, stream, node, faults>>

\* ... disconnectNode: the connection the node has at this moment is closed ...
RevokeDisconnects(n) ==
    /\ revoking[n] = "listed"
    /\ stream' = IF conns[n] = NoStream THEN stream
                 ELSE [stream EXCEPT ![conns[n]].done = TRUE]
    /\ revoking' = [revoking EXCEPT ![n] = "disconnected"]
    /\ UNCHANGED <<listVars, registry, conns, node, faults, requests>>

\* ... Unregister, and the configuration is saved.
RevokeEnds(n) ==
    /\ revoking[n] = "disconnected"
    /\ registry' = [registry EXCEPT ![n] = "absent"]
    /\ SaveLists(lists)
    /\ revoking' = [revoking EXCEPT ![n] = "no"]
    /\ UNCHANGED <<pending, savedPending, conns, stream, node, requests>>

\* handleClearRevoked
ClearRevoked(n) ==
    /\ Request
    /\ n \in lists.revoked
    /\ SaveLists([lists EXCEPT !.revoked = @ \ {n}])
    /\ UNCHANGED <<pending, savedPending, registry, conns, stream, node, revoking>>

\* handleClusterReset: every registered node is disconnected and forgotten and
\* the configuration removed.  The restart it asks for is LeaderRestart, after
\* which the operator sets the leader up again.
ResetCluster ==
    /\ Request
    /\ stream' = [s \in Streams |->
         IF \E n \in Nodes : registry[n] # "absent" /\ conns[n] = s
         THEN [stream[s] EXCEPT !.done = TRUE] ELSE stream[s]]
    /\ registry' = [n \in Nodes |-> "absent"]
    /\ pending' = {} /\ savedPending' = {}
    /\ lists' = NoLists
    /\ \/ savedLists' = NoLists /\ UNCHANGED faults
       \/ Fault /\ UNCHANGED savedLists
    /\ UNCHANGED <<conns, node, revoking>>

-----------------------------------------------------------------------------
(***************************************************************************)
(* What goes wrong.                                                        *)
(***************************************************************************)
StreamBreaks(s) ==
    /\ ~Unused(s) /\ stream[s].up
    /\ Fault
    /\ stream' = [stream EXCEPT ![s].up = FALSE]
    /\ UNCHANGED <<listVars, registry, conns, node, revoking, requests>>

\* The leader process restarts: it loads config.yaml and the pending file.
LeaderRestart ==
    /\ Fault
    /\ lists' = savedLists /\ pending' = savedPending
    /\ registry' = [n \in Nodes |-> "absent"]
    /\ conns' = [n \in Nodes |-> NoStream]
    /\ stream' = [s \in Streams |-> [stream[s] EXCEPT !.pc = "ended", !.up = FALSE]]
    /\ revoking' = [n \in Nodes |-> "no"]
    /\ UNCHANGED <<savedLists, savedPending, node, requests>>

\* A worker node restarts, after a crash or because its operator asked for it.
NodeRestart(n) ==
    LET s == node[n].stream IN
    /\ Fault
    /\ stream' = IF s = NoStream THEN stream ELSE [stream EXCEPT ![s].up = FALSE]
    /\ node' = [node EXCEPT ![n] = [pc |-> "dial", stream |-> NoStream, status |-> "connecting"]]
    /\ UNCHANGED <<listVars, registry, conns, revoking, requests>>

-----------------------------------------------------------------------------
Serve(s) ==
    \/ CheckApproval(s) \/ RejectRevoked(s) \/ AddPending(s)
    \/ RegisterNode(s) \/ PublishConn(s) \/ SendRegistered(s)
    \/ ReadLoopEnds(s) \/ DeleteConn(s) \/ SetOffline(s)
ConnectLoop(n) == Dial(n) \/ TakeReply(n) \/ RecvFails(n) \/ CleanUp(n) \/ Retry(n)
Operate(n) ==
    \/ Approve(n) \/ Dismiss(n) \/ Revoke(n) \/ RevokeDisconnects(n) \/ RevokeEnds(n)
    \/ ClearRevoked(n)

ClusterNext ==
    \/ \E s \in Streams : Serve(s) \/ StreamBreaks(s)
    \/ \E n \in Nodes : ConnectLoop(n) \/ DialFails(n) \/ Operate(n) \/ NodeRestart(n)
    \/ ResetCluster \/ LeaderRestart

\* The goroutines of the leader and the worker's loop run on; requests and
\* faults need not happen.
ClusterFairness ==
    /\ \A s \in Streams : WF_ClusterVars(Serve(s))
    /\ \A n \in Nodes : WF_ClusterVars(ConnectLoop(n))

ClusterSpec == ClusterInit /\ [][ClusterNext]_ClusterVars /\ ClusterFairness

-----------------------------------------------------------------------------
(***************************************************************************)
(* Properties.                                                             *)
(***************************************************************************)
\* A goroutine of the leader that has still to clean up after node n.
Serving(n) == {s \in Streams : stream[s].owner = n
                 /\ stream[s].pc \in {"registered", "published", "reading", "closing", "unlinked"}}

\* A node that the leader lists as online, or for which it has a connection to
\* send to, is served by a goroutine that will still run cleanupNode: neither
\* entry is left behind when a send fails, a stream is replaced or a node is
\* revoked while it connects.
RegistryIsServed ==
    \A n \in Nodes :
      /\ registry[n] = "online" => Serving(n) # {}
      /\ conns[n] # NoStream =>
           conns[n] \in Serving(n) /\ stream[conns[n]].pc \in {"published", "reading", "closing"}

\* A node whose approval stands gets in and stays in, however its attempts,
\* its registration as pending, restarts and failed saves interleaved with it,
\* unless it has been told before that it is rejected, which ends its retries.
ApprovedGetsIn ==
    \A n \in Nodes :
      <>[](n \in lists.approved \ lists.revoked) =>
        <>[](node[n].pc = "reading" \/ node[n].status = "revoked")

=============================================================================
