----------------------------- MODULE LinkProofs -----------------------------
(***************************************************************************)
(* Proofs about the streams between worker nodes and their leader          *)
(* (ClusterNodes), for any number of nodes and of streams of one node that *)
(* are served at once, and any bounds.                                     *)
(***************************************************************************)
EXTENDS ClusterNodes, FiniteSetTheorems, TLAPS

(***************************************************************************)
(* The pending lists are bounded, in memory and in the file: a restart of  *)
(* the leader makes the file the list.  They are finite, which gives their *)
(* size a meaning.                                                         *)
(***************************************************************************)
Bounded(S) == IsFiniteSet(S) /\ Cardinality(S) <= MaxPending

\* A node that waits for an answer or reads has a stream.
HasStream == \A n \in Nodes : node[n].pc \in {"waiting", "reading"} => node[n].stream # NoStream

\* The connection of a node is a stream of that node whose goroutine has
\* published it and not yet deleted it.
Published == {"published", "reading", "closing"}
ConnsServed ==
    \A n \in Nodes : conns[n] # NoStream =>
        stream[conns[n]].owner = n /\ stream[conns[n]].pc \in Published

\* A node that is online has a goroutine that will set it offline.
ToCleanUp == {"registered", "published", "reading", "closing", "unlinked"}
OnlineServed ==
    \A n \in Nodes : registry[n] = "online" =>
        \E s \in Streams : stream[s].owner = n /\ stream[s].pc \in ToCleanUp

ListsOK ==
    /\ lists \in Lists /\ savedLists \in Lists
    /\ pending \subseteq Nodes /\ savedPending \subseteq Nodes
    /\ Bounded(pending) /\ Bounded(savedPending)

LinksOK ==
    /\ registry \in [Nodes -> {"absent", "online", "offline"}]
    /\ conns \in [Nodes -> Streams \cup {NoStream}]
    /\ stream \in [Streams -> StreamRecs]
    /\ node \in [Nodes -> NodeRecs]
    /\ revoking \in [Nodes -> {"no", "listed", "disconnected"}]

BoundsOK == faults \in 0..MaxFaults /\ requests \in 0..MaxRequests

ClusterInv ==
    /\ ListsOK /\ LinksOK /\ BoundsOK
    /\ HasStream /\ ConnsServed /\ OnlineServed

-----------------------------------------------------------------------------
(***************************************************************************)
(* The lists.                                                              *)
(***************************************************************************)
LEMMA EmptyBounded == Bounded({})
BY FS_EmptySet, ClusterAssumption DEF Bounded

LEMMA RemoveBounded ==
    ASSUME NEW S, NEW n, Bounded(S)
    PROVE  Bounded(S \ {n})
<1>1. IsFiniteSet(S) /\ Cardinality(S) <= MaxPending
  BY DEF Bounded
<1>2. IsFiniteSet(S \ {n})
  BY <1>1, FS_RemoveElement
<1>3. Cardinality(S \ {n}) <= Cardinality(S)
  BY <1>1, FS_Subset
<1>4. Cardinality(S) \in Nat /\ Cardinality(S \ {n}) \in Nat
  BY <1>1, <1>2, FS_CardinalityType
<1> QED BY <1>1, <1>2, <1>3, <1>4, ClusterAssumption DEF Bounded

\* AddOrUpdate: with room for it, the list with one more node is bounded.
LEMMA AddBounded ==
    ASSUME NEW n \in Nodes, Bounded(pending), HasRoom(n)
    PROVE  Bounded(pending \cup {n})
<1>1. IsFiniteSet(pending) /\ Cardinality(pending) <= MaxPending
  BY DEF Bounded
<1>2. CASE n \in pending
  <2>1. pending \cup {n} = pending
    BY <1>2
  <2> QED BY <2>1
<1>3. CASE n \notin pending
  <2>1. IsFiniteSet(pending \cup {n}) /\ Cardinality(pending \cup {n}) = Cardinality(pending) + 1
    BY <1>1, <1>3, FS_AddElement
  <2>2. Cardinality(pending) < MaxPending
    BY <1>3 DEF HasRoom
  <2>3. Cardinality(pending) \in Nat
    BY <1>1, FS_CardinalityType
  <2> QED BY <2>1, <2>2, <2>3, ClusterAssumption DEF Bounded
<1> QED BY <1>2, <1>3

LEMMA FaultBound ==
    ASSUME BoundsOK, Fault
    PROVE  faults' \in 0..MaxFaults
BY ClusterAssumption DEF BoundsOK, Fault

LEMMA RequestBound ==
    ASSUME BoundsOK, Request
    PROVE  requests' \in 0..MaxRequests
BY ClusterAssumption DEF BoundsOK, Request

LEMMA SavedPending ==
    ASSUME ListsOK, BoundsOK, NEW new, new \subseteq Nodes, Bounded(new), SavePending(new)
    PROVE  /\ pending' = new
           /\ savedPending' \subseteq Nodes /\ Bounded(savedPending')
           /\ faults' \in 0..MaxFaults
<1>1. CASE savedPending' = new /\ UNCHANGED faults
  BY <1>1 DEF SavePending, BoundsOK
<1>2. CASE Fault /\ UNCHANGED savedPending
  <2>1. savedPending' = savedPending
    BY <1>2
  <2> QED BY <1>2, <2>1, FaultBound DEF SavePending, ListsOK
<1> QED BY <1>1, <1>2 DEF SavePending

LEMMA SavedLists ==
    ASSUME ListsOK, BoundsOK, NEW new \in Lists, SaveLists(new)
    PROVE  lists' \in Lists /\ savedLists' \in Lists /\ faults' \in 0..MaxFaults
<1>1. CASE savedLists' = new /\ UNCHANGED faults
  BY <1>1 DEF SaveLists, BoundsOK
<1>2. CASE Fault /\ UNCHANGED savedLists
  BY <1>2, FaultBound DEF SaveLists, ListsOK
<1> QED BY <1>1, <1>2 DEF SaveLists

-----------------------------------------------------------------------------
(***************************************************************************)
(* The goroutines of the leader.  A step that changes one stream keeps     *)
(* both maps served when the goroutine that has to clean up still has to.  *)
(***************************************************************************)
LEMMA StreamChanges ==
    ASSUME ClusterInv, NEW s \in Streams, NEW rec \in StreamRecs,
           stream' = [stream EXCEPT ![s] = rec],
           stream[s].pc \in ToCleanUp => rec.owner = stream[s].owner /\ rec.pc \in ToCleanUp,
           stream[s].pc \in Published => rec.pc \in Published,
           UNCHANGED <<registry, conns>>
    PROVE  /\ stream' \in [Streams -> StreamRecs]
           /\ ConnsServed' /\ OnlineServed'
<1>0. /\ stream \in [Streams -> StreamRecs] /\ ConnsServed /\ OnlineServed
      /\ conns \in [Nodes -> Streams \cup {NoStream}]
  BY DEF ClusterInv, LinksOK
<1>1. stream' \in [Streams -> StreamRecs]
  BY <1>0
<1>2. ConnsServed'
  <2> SUFFICES ASSUME NEW n \in Nodes, conns[n] # NoStream
               PROVE  stream'[conns[n]].owner = n /\ stream'[conns[n]].pc \in Published
    BY DEF ConnsServed
  <2>1. conns[n] \in Streams /\ stream[conns[n]].owner = n /\ stream[conns[n]].pc \in Published
    BY <1>0 DEF ConnsServed
  <2>2. CASE conns[n] = s
    BY <1>0, <2>1, <2>2 DEF Published, ToCleanUp
  <2>3. CASE conns[n] # s
    BY <1>0, <2>1, <2>3
  <2> QED BY <2>2, <2>3
<1>3. OnlineServed'
  <2> SUFFICES ASSUME NEW n \in Nodes, registry[n] = "online"
               PROVE  \E t \in Streams : stream'[t].owner = n /\ stream'[t].pc \in ToCleanUp
    BY DEF OnlineServed
  <2>1. PICK t \in Streams : stream[t].owner = n /\ stream[t].pc \in ToCleanUp
    BY <1>0 DEF OnlineServed
  <2>2. stream'[t].owner = n /\ stream'[t].pc \in ToCleanUp
    BY <1>0, <2>1
  <2> QED BY <2>2
<1> QED BY <1>1, <1>2, <1>3

\* What is left of the invariant when the lists, the nodes and the operator
\* do nothing.
LEMMA OnlyStreams ==
    ASSUME ClusterInv, UNCHANGED <<listVars, node, revoking, faults, requests>>,
           registry' \in [Nodes -> {"absent", "online", "offline"}],
           conns' \in [Nodes -> Streams \cup {NoStream}],
           stream' \in [Streams -> StreamRecs], ConnsServed', OnlineServed'
    PROVE  ClusterInv'
<1>1. ListsOK'
  BY DEF ClusterInv, ListsOK, Bounded, listVars
<1>2. LinksOK' /\ BoundsOK' /\ HasStream'
  BY DEF ClusterInv, LinksOK, BoundsOK, HasStream
<1> QED BY <1>1, <1>2 DEF ClusterInv

LEMMA HandlerMoves ==
    ASSUME ClusterInv, NEW s \in Streams, NEW rec \in StreamRecs,
           stream' = [stream EXCEPT ![s] = rec],
           stream[s].pc \in ToCleanUp => rec.owner = stream[s].owner /\ rec.pc \in ToCleanUp,
           stream[s].pc \in Published => rec.pc \in Published,
           UNCHANGED <<listVars, registry, conns, node, revoking, faults, requests>>
    PROVE  ClusterInv'
<1>1. /\ stream' \in [Streams -> StreamRecs]
      /\ ConnsServed' /\ OnlineServed'
  BY StreamChanges
<1>2. /\ registry' \in [Nodes -> {"absent", "online", "offline"}]
      /\ conns' \in [Nodes -> Streams \cup {NoStream}]
  BY DEF ClusterInv, LinksOK
<1> QED BY <1>1, <1>2, OnlyStreams

LEMMA CheckApprovalStep ==
    ASSUME ClusterInv, NEW s \in Streams, CheckApproval(s)
    PROVE  ClusterInv'
<1> DEFINE new == IF stream[s].up THEN Verdict(stream[s].owner) ELSE "ended"
           rec == [stream[s] EXCEPT !.pc = new]
<1>1. stream \in [Streams -> StreamRecs]
  BY DEF ClusterInv, LinksOK
<1>2. new \in HandlerPcs
  BY DEF Verdict, HandlerPcs
<1>3. rec \in StreamRecs
  BY <1>1, <1>2 DEF StreamRecs
<1>4. stream' = [stream EXCEPT ![s] = rec] /\ stream[s].pc = "recv"
  BY <1>1 DEF CheckApproval, HandlerAt, Serves
<1>5. stream[s].pc \notin ToCleanUp /\ stream[s].pc \notin Published
  BY <1>4 DEF ToCleanUp, Published
<1>6. UNCHANGED <<listVars, registry, conns, node, revoking, faults, requests>>
  BY DEF CheckApproval
<1> HIDE DEF new, rec
<1> QED BY <1>3, <1>4, <1>5, <1>6, HandlerMoves

LEMMA RejectRevokedStep ==
    ASSUME ClusterInv, NEW s \in Streams, RejectRevoked(s)
    PROVE  ClusterInv'
<1> DEFINE rec == [stream[s] EXCEPT !.pc = "ended", !.reply = "rejected"]
<1>1. stream \in [Streams -> StreamRecs]
  BY DEF ClusterInv, LinksOK
<1>3. rec \in StreamRecs
  BY <1>1 DEF StreamRecs, HandlerPcs
<1>4. stream' = [stream EXCEPT ![s] = rec] /\ stream[s].pc = "revoked"
  BY <1>1 DEF RejectRevoked, Serves
<1>5. stream[s].pc \notin ToCleanUp /\ stream[s].pc \notin Published
  BY <1>4 DEF ToCleanUp, Published
<1>6. UNCHANGED <<listVars, registry, conns, node, revoking, faults, requests>>
  BY DEF RejectRevoked
<1> HIDE DEF rec
<1> QED BY <1>3, <1>4, <1>5, <1>6, HandlerMoves

LEMMA SendRegisteredStep ==
    ASSUME ClusterInv, NEW s \in Streams, SendRegistered(s)
    PROVE  ClusterInv'
<1>1. stream \in [Streams -> StreamRecs]
  BY DEF ClusterInv, LinksOK
<1>2. /\ stream[s].pc = "published"
      /\ UNCHANGED <<listVars, registry, conns, node, revoking, faults, requests>>
  BY DEF SendRegistered, Serves
<1>3. PICK rec \in StreamRecs : /\ stream' = [stream EXCEPT ![s] = rec]
                                /\ rec.owner = stream[s].owner
                                /\ rec.pc \in {"reading", "closing"}
  <2>1. CASE stream' = [stream EXCEPT ![s].pc = "reading", ![s].reply = "registered"]
    <3> DEFINE r == [stream[s] EXCEPT !.pc = "reading", !.reply = "registered"]
    <3>1. r \in StreamRecs /\ r.owner = stream[s].owner /\ r.pc = "reading"
      BY <1>1 DEF StreamRecs, HandlerPcs
    <3>2. stream' = [stream EXCEPT ![s] = r]
      BY <1>1, <2>1
    <3> QED BY <3>1, <3>2
  <2>2. CASE stream' = [stream EXCEPT ![s].pc = "closing"]
    <3> DEFINE r == [stream[s] EXCEPT !.pc = "closing"]
    <3>1. r \in StreamRecs /\ r.owner = stream[s].owner /\ r.pc = "closing"
      BY <1>1 DEF StreamRecs, HandlerPcs
    <3>2. stream' = [stream EXCEPT ![s] = r]
      BY <1>1, <2>2
    <3> QED BY <3>1, <3>2
  <2> QED BY <2>1, <2>2 DEF SendRegistered, HandlerAt
<1>4. rec.pc \in ToCleanUp /\ rec.pc \in Published
  BY <1>3 DEF ToCleanUp, Published
<1> QED BY <1>2, <1>3, <1>4, HandlerMoves

LEMMA ReadLoopEndsStep ==
    ASSUME ClusterInv, NEW s \in Streams, ReadLoopEnds(s)
    PROVE  ClusterInv'
<1> DEFINE rec == [stream[s] EXCEPT !.pc = "closing"]
<1>1. stream \in [Streams -> StreamRecs]
  BY DEF ClusterInv, LinksOK
<1>3. rec \in StreamRecs /\ rec.owner = stream[s].owner /\ rec.pc = "closing"
  BY <1>1 DEF StreamRecs, HandlerPcs
<1>4. stream' = [stream EXCEPT ![s] = rec]
  BY <1>1 DEF ReadLoopEnds, HandlerAt
<1>5. rec.pc \in ToCleanUp /\ rec.pc \in Published
  BY <1>3 DEF ToCleanUp, Published
<1>6. UNCHANGED <<listVars, registry, conns, node, revoking, faults, requests>>
  BY DEF ReadLoopEnds
<1> HIDE DEF rec
<1> QED BY <1>3, <1>4, <1>5, <1>6, HandlerMoves

\* Only the lists change, and one stream.
LEMMA ListsAndStream ==
    ASSUME ClusterInv, ListsOK', BoundsOK', UNCHANGED <<node, revoking>>,
           registry' \in [Nodes -> {"absent", "online", "offline"}],
           conns' \in [Nodes -> Streams \cup {NoStream}],
           stream' \in [Streams -> StreamRecs], ConnsServed', OnlineServed'
    PROVE  ClusterInv'
<1>1. LinksOK' /\ HasStream'
  BY DEF ClusterInv, LinksOK, HasStream
<1> QED BY <1>1 DEF ClusterInv

LEMMA AddPendingStep ==
    ASSUME ClusterInv, NEW s \in Streams, AddPending(s)
    PROVE  ClusterInv'
<1> DEFINE n == stream[s].owner
<1>1. /\ stream \in [Streams -> StreamRecs] /\ n \in Nodes
      /\ registry' \in [Nodes -> {"absent", "online", "offline"}]
      /\ conns' \in [Nodes -> Streams \cup {NoStream}]
  BY DEF ClusterInv, LinksOK, StreamRecs, AddPending
<1>2. ListsOK /\ BoundsOK
  BY DEF ClusterInv
<1>3. /\ stream[s].pc = "unknown"
      /\ UNCHANGED <<lists, savedLists, registry, conns, node, revoking, requests>>
  BY DEF AddPending, Serves
<1>4. PICK rec \in StreamRecs : stream' = [stream EXCEPT ![s] = rec]
  <2>1. CASE stream' = [stream EXCEPT ![s].pc = "ended", ![s].reply = "pending"]
    <3> DEFINE r == [stream[s] EXCEPT !.pc = "ended", !.reply = "pending"]
    <3>1. r \in StreamRecs
      BY <1>1 DEF StreamRecs, HandlerPcs
    <3>2. stream' = [stream EXCEPT ![s] = r]
      BY <1>1, <2>1
    <3> QED BY <3>1, <3>2
  <2>2. CASE stream' = [stream EXCEPT ![s].pc = "ended", ![s].reply = "rejected"]
    <3> DEFINE r == [stream[s] EXCEPT !.pc = "ended", !.reply = "rejected"]
    <3>1. r \in StreamRecs
      BY <1>1 DEF StreamRecs, HandlerPcs
    <3>2. stream' = [stream EXCEPT ![s] = r]
      BY <1>1, <2>2
    <3> QED BY <3>1, <3>2
  <2> QED BY <2>1, <2>2 DEF AddPending
<1>5. stream[s].pc \notin ToCleanUp /\ stream[s].pc \notin Published
  BY <1>3 DEF ToCleanUp, Published
<1>6. stream' \in [Streams -> StreamRecs] /\ ConnsServed' /\ OnlineServed'
  BY <1>3, <1>4, <1>5, StreamChanges
<1>7. ListsOK' /\ BoundsOK'
  <2>1. CASE HasRoom(n) /\ SavePending(pending \cup {n})
    <3>1. Bounded(pending \cup {n}) /\ pending \cup {n} \subseteq Nodes
      BY <1>1, <1>2, <2>1, AddBounded DEF ListsOK
    <3>2. /\ pending' = pending \cup {n}
          /\ savedPending' \subseteq Nodes /\ Bounded(savedPending')
          /\ faults' \in 0..MaxFaults
      BY <1>2, <2>1, <3>1, SavedPending
    <3>3. Bounded(pending') /\ pending' \subseteq Nodes
      BY <3>1, <3>2
    <3>4. Bounded(pending)' /\ Bounded(savedPending)'
      BY <3>2, <3>3 DEF Bounded
    <3> QED BY <1>2, <1>3, <3>2, <3>3, <3>4 DEF ListsOK, BoundsOK
  <2>2. CASE UNCHANGED <<pending, savedPending, faults>>
    BY <1>2, <1>3, <2>2 DEF ListsOK, BoundsOK, Bounded
  <2> QED BY <2>1, <2>2 DEF AddPending
<1> QED BY <1>1, <1>3, <1>6, <1>7, ListsAndStream

LEMMA RegisterNodeStep ==
    ASSUME ClusterInv, NEW s \in Streams, RegisterNode(s)
    PROVE  ClusterInv'
<1> DEFINE n == stream[s].owner
           rec == [stream[s] EXCEPT !.pc = "registered"]
<1>1. /\ stream \in [Streams -> StreamRecs] /\ n \in Nodes
      /\ registry \in [Nodes -> {"absent", "online", "offline"}]
      /\ conns \in [Nodes -> Streams \cup {NoStream}]
  BY DEF ClusterInv, LinksOK, StreamRecs
<1>2. ListsOK /\ BoundsOK /\ ConnsServed /\ OnlineServed
  BY DEF ClusterInv
<1>3. /\ stream[s].pc = "granted"
      /\ UNCHANGED <<lists, savedLists, conns, node, revoking, requests>>
      /\ registry' = [registry EXCEPT ![n] = "online"]
      /\ stream' = [stream EXCEPT ![s] = rec]
  BY <1>1 DEF RegisterNode, Serves, HandlerAt
<1>4. rec \in StreamRecs /\ rec.pc = "registered" /\ rec.owner = n
  BY <1>1 DEF StreamRecs, HandlerPcs
<1> HIDE DEF rec
<1>5. stream[s].pc \notin ToCleanUp /\ stream[s].pc \notin Published /\ rec.pc \in ToCleanUp
  BY <1>3, <1>4 DEF ToCleanUp, Published
<1>6. stream' \in [Streams -> StreamRecs] /\ registry' \in [Nodes -> {"absent", "online", "offline"}]
  BY <1>1, <1>3, <1>4
<1>7. ConnsServed'
  <2> SUFFICES ASSUME NEW m \in Nodes, conns[m] # NoStream
               PROVE  stream'[conns[m]].owner = m /\ stream'[conns[m]].pc \in Published
    BY <1>3 DEF ConnsServed
  <2>1. conns[m] \in Streams /\ stream[conns[m]].owner = m /\ stream[conns[m]].pc \in Published
    BY <1>1, <1>2 DEF ConnsServed
  <2>2. conns[m] # s
    BY <1>5, <2>1
  <2> QED BY <1>1, <1>3, <2>1, <2>2
<1>8. OnlineServed'
  <2> SUFFICES ASSUME NEW m \in Nodes, registry'[m] = "online"
               PROVE  \E t \in Streams : stream'[t].owner = m /\ stream'[t].pc \in ToCleanUp
    BY DEF OnlineServed
  <2>1. CASE m = n
    <3>1. stream'[s].owner = m /\ stream'[s].pc \in ToCleanUp
      BY <1>1, <1>3, <1>4, <1>5, <2>1
    <3> QED BY <3>1
  <2>2. CASE m # n
    <3>1. PICK t \in Streams : stream[t].owner = m /\ stream[t].pc \in ToCleanUp
      BY <1>1, <1>2, <1>3, <2>2 DEF OnlineServed
    <3>2. stream'[t].owner = m /\ stream'[t].pc \in ToCleanUp
      BY <1>1, <1>3, <2>2, <3>1
    <3> QED BY <3>2
  <2> QED BY <2>1, <2>2
<1>9. ListsOK' /\ BoundsOK'
  <2>1. CASE SavePending(pending \ {n})
    <3>1. Bounded(pending \ {n}) /\ pending \ {n} \subseteq Nodes
      BY <1>2, RemoveBounded DEF ListsOK
    <3>2. /\ pending' = pending \ {n}
          /\ savedPending' \subseteq Nodes /\ Bounded(savedPending')
          /\ faults' \in 0..MaxFaults
      BY <1>2, <2>1, <3>1, SavedPending
    <3>3. Bounded(pending') /\ pending' \subseteq Nodes
      BY <3>1, <3>2
    <3>4. Bounded(pending)' /\ Bounded(savedPending)'
      BY <3>2, <3>3 DEF Bounded
    <3> QED BY <1>2, <1>3, <3>2, <3>3, <3>4 DEF ListsOK, BoundsOK
  <2>2. CASE UNCHANGED <<pending, savedPending, faults>>
    BY <1>2, <1>3, <2>2 DEF ListsOK, BoundsOK, Bounded
  <2> QED BY <2>1, <2>2 DEF RegisterNode
<1>10. conns' \in [Nodes -> Streams \cup {NoStream}]
  BY <1>1, <1>3
<1> QED BY <1>3, <1>6, <1>7, <1>8, <1>9, <1>10, ListsAndStream

LEMMA PublishConnStep ==
    ASSUME ClusterInv, NEW s \in Streams, PublishConn(s)
    PROVE  ClusterInv'
<1> DEFINE n == stream[s].owner
           rec == [stream[s] EXCEPT !.pc = "published"]
<1>1. /\ stream \in [Streams -> StreamRecs] /\ n \in Nodes
      /\ registry \in [Nodes -> {"absent", "online", "offline"}]
      /\ conns \in [Nodes -> Streams \cup {NoStream}]
  BY DEF ClusterInv, LinksOK, StreamRecs
<1>2. ConnsServed /\ OnlineServed
  BY DEF ClusterInv
<1>3. /\ stream[s].pc = "registered"
      /\ UNCHANGED <<listVars, registry, node, revoking, faults, requests>>
      /\ conns' = [conns EXCEPT ![n] = s]
      /\ stream' = [stream EXCEPT ![s] = rec]
  BY <1>1 DEF PublishConn, Serves, HandlerAt
<1>4. rec \in StreamRecs /\ rec.pc = "published" /\ rec.owner = n
  BY <1>1 DEF StreamRecs, HandlerPcs
<1> HIDE DEF rec
<1>5. rec.pc \in ToCleanUp /\ rec.pc \in Published
  BY <1>4 DEF ToCleanUp, Published
<1>6. /\ stream' \in [Streams -> StreamRecs] /\ conns' \in [Nodes -> Streams \cup {NoStream}]
      /\ registry' \in [Nodes -> {"absent", "online", "offline"}]
  BY <1>1, <1>3, <1>4
<1>7. ConnsServed'
  <2> SUFFICES ASSUME NEW m \in Nodes, conns'[m] # NoStream
               PROVE  stream'[conns'[m]].owner = m /\ stream'[conns'[m]].pc \in Published
    BY DEF ConnsServed
  <2>1. CASE m = n
    <3>1. conns'[m] = s
      BY <1>1, <1>3, <2>1
    <3> QED BY <1>1, <1>3, <1>4, <1>5, <2>1, <3>1
  <2>2. CASE m # n
    <3>1. conns'[m] = conns[m]
      BY <1>1, <1>3, <2>2
    <3>2. conns[m] \in Streams /\ stream[conns[m]].owner = m /\ stream[conns[m]].pc \in Published
      BY <1>1, <1>2, <3>1 DEF ConnsServed
    <3>3. conns[m] # s
      BY <2>2, <3>2
    <3> QED BY <1>1, <1>3, <3>1, <3>2, <3>3
  <2> QED BY <2>1, <2>2
<1>8. OnlineServed'
  <2> SUFFICES ASSUME NEW m \in Nodes, registry[m] = "online"
               PROVE  \E t \in Streams : stream'[t].owner = m /\ stream'[t].pc \in ToCleanUp
    BY <1>3 DEF OnlineServed
  <2>1. PICK t \in Streams : stream[t].owner = m /\ stream[t].pc \in ToCleanUp
    BY <1>2 DEF OnlineServed
  <2>2. stream'[t].owner = m /\ stream'[t].pc \in ToCleanUp
    BY <1>1, <1>3, <1>4, <1>5, <2>1
  <2> QED BY <2>2
<1> QED BY <1>3, <1>6, <1>7, <1>8, OnlyStreams

LEMMA DeleteConnStep ==
    ASSUME ClusterInv, NEW s \in Streams, DeleteConn(s)
    PROVE  ClusterInv'
<1> DEFINE n == stream[s].owner
           rec == [stream[s] EXCEPT !.pc = "unlinked"]
<1>1. /\ stream \in [Streams -> StreamRecs] /\ n \in Nodes
      /\ registry \in [Nodes -> {"absent", "online", "offline"}]
      /\ conns \in [Nodes -> Streams \cup {NoStream}]
  BY DEF ClusterInv, LinksOK, StreamRecs
<1>2. ConnsServed /\ OnlineServed
  BY DEF ClusterInv
<1>3. /\ UNCHANGED <<listVars, registry, node, revoking, faults, requests>>
      /\ conns' = [conns EXCEPT ![n] = NoStream]
      /\ stream' = [stream EXCEPT ![s] = rec]
  BY <1>1 DEF DeleteConn, HandlerAt
<1>4. rec \in StreamRecs /\ rec.pc = "unlinked" /\ rec.owner = n
  BY <1>1 DEF StreamRecs, HandlerPcs
<1> HIDE DEF rec
<1>5. rec.pc \in ToCleanUp
  BY <1>4 DEF ToCleanUp
<1>6. /\ stream' \in [Streams -> StreamRecs] /\ conns' \in [Nodes -> Streams \cup {NoStream}]
      /\ registry' \in [Nodes -> {"absent", "online", "offline"}]
  BY <1>1, <1>3, <1>4
<1>7. ConnsServed'
  <2> SUFFICES ASSUME NEW m \in Nodes, conns'[m] # NoStream
               PROVE  stream'[conns'[m]].owner = m /\ stream'[conns'[m]].pc \in Published
    BY DEF ConnsServed
  <2>1. m # n /\ conns'[m] = conns[m]
    BY <1>1, <1>3
  <2>2. conns[m] \in Streams /\ stream[conns[m]].owner = m /\ stream[conns[m]].pc \in Published
    BY <1>1, <1>2, <2>1 DEF ConnsServed
  <2>3. conns[m] # s
    BY <2>1, <2>2
  <2> QED BY <1>1, <1>3, <2>1, <2>2, <2>3
<1>8. OnlineServed'
  <2> SUFFICES ASSUME NEW m \in Nodes, registry[m] = "online"
               PROVE  \E t \in Streams : stream'[t].owner = m /\ stream'[t].pc \in ToCleanUp
    BY <1>3 DEF OnlineServed
  <2>1. PICK t \in Streams : stream[t].owner = m /\ stream[t].pc \in ToCleanUp
    BY <1>2 DEF OnlineServed
  <2>2. stream'[t].owner = m /\ stream'[t].pc \in ToCleanUp
    BY <1>1, <1>3, <1>4, <1>5, <2>1
  <2> QED BY <2>2
<1> QED BY <1>3, <1>6, <1>7, <1>8, OnlyStreams

LEMMA SetOfflineStep ==
    ASSUME ClusterInv, NEW s \in Streams, SetOffline(s)
    PROVE  ClusterInv'
<1> DEFINE n == stream[s].owner
           rec == [stream[s] EXCEPT !.pc = "ended"]
<1>1. /\ stream \in [Streams -> StreamRecs] /\ n \in Nodes
      /\ registry \in [Nodes -> {"absent", "online", "offline"}]
      /\ conns \in [Nodes -> Streams \cup {NoStream}]
  BY DEF ClusterInv, LinksOK, StreamRecs
<1>2. ConnsServed /\ OnlineServed
  BY DEF ClusterInv
<1>3. /\ stream[s].pc = "unlinked"
      /\ UNCHANGED <<listVars, conns, node, revoking, faults, requests>>
      /\ registry' = [registry EXCEPT ![n] = IF @ = "absent" THEN @ ELSE "offline"]
      /\ stream' = [stream EXCEPT ![s] = rec]
  BY <1>1 DEF SetOffline, Serves, HandlerAt
<1>4. rec \in StreamRecs
  BY <1>1 DEF StreamRecs, HandlerPcs
<1> HIDE DEF rec
<1>5. stream[s].pc \notin Published
  BY <1>3 DEF Published
<1>6. /\ stream' \in [Streams -> StreamRecs] /\ conns' \in [Nodes -> Streams \cup {NoStream}]
      /\ registry' \in [Nodes -> {"absent", "online", "offline"}]
      /\ registry'[n] # "online"
  BY <1>1, <1>3, <1>4
<1>7. ConnsServed'
  <2> SUFFICES ASSUME NEW m \in Nodes, conns[m] # NoStream
               PROVE  stream'[conns[m]].owner = m /\ stream'[conns[m]].pc \in Published
    BY <1>3 DEF ConnsServed
  <2>1. conns[m] \in Streams /\ stream[conns[m]].owner = m /\ stream[conns[m]].pc \in Published
    BY <1>1, <1>2 DEF ConnsServed
  <2>2. conns[m] # s
    BY <1>5, <2>1
  <2> QED BY <1>1, <1>3, <2>1, <2>2
<1>8. OnlineServed'
  <2> SUFFICES ASSUME NEW m \in Nodes, registry'[m] = "online"
               PROVE  \E t \in Streams : stream'[t].owner = m /\ stream'[t].pc \in ToCleanUp
    BY DEF OnlineServed
  <2>1. m # n /\ registry[m] = "online"
    BY <1>1, <1>3, <1>6
  <2>2. PICK t \in Streams : stream[t].owner = m /\ stream[t].pc \in ToCleanUp
    BY <1>2, <2>1 DEF OnlineServed
  <2>3. stream'[t].owner = m /\ stream'[t].pc \in ToCleanUp
    BY <1>1, <1>3, <2>1, <2>2
  <2> QED BY <2>3
<1> QED BY <1>3, <1>6, <1>7, <1>8, OnlyStreams

-----------------------------------------------------------------------------
(***************************************************************************)
(* The worker nodes.                                                       *)
(***************************************************************************)
LEMMA NodeMoves ==
    ASSUME ClusterInv, NEW n \in Nodes, NEW rec \in NodeRecs,
           node' = [node EXCEPT ![n] = rec],
           rec.pc \in {"waiting", "reading"} => rec.stream # NoStream,
           stream' \in [Streams -> StreamRecs], ConnsServed', OnlineServed',
           BoundsOK', UNCHANGED <<listVars, registry, conns, revoking>>
    PROVE  ClusterInv'
<1>1. ListsOK'
  BY DEF ClusterInv, ListsOK, Bounded, listVars
<1>2. LinksOK'
  BY DEF ClusterInv, LinksOK
<1>3. HasStream'
  BY DEF ClusterInv, HasStream, LinksOK
<1> QED BY <1>1, <1>2, <1>3 DEF ClusterInv

\* Streams and goroutines stay as they are.
LEMMA StreamsStay ==
    ASSUME ClusterInv, UNCHANGED <<stream, registry, conns>>
    PROVE  stream' \in [Streams -> StreamRecs] /\ ConnsServed' /\ OnlineServed'
BY DEF ClusterInv, LinksOK, ConnsServed, OnlineServed

\* One end lets go of a stream, or it breaks: no goroutine moves.
LEMMA HangUp ==
    ASSUME ClusterInv, NEW s \in Streams, stream' = [stream EXCEPT ![s].up = FALSE],
           UNCHANGED <<registry, conns>>
    PROVE  stream' \in [Streams -> StreamRecs] /\ ConnsServed' /\ OnlineServed'
<1> DEFINE rec == [stream[s] EXCEPT !.up = FALSE]
<1>1. stream \in [Streams -> StreamRecs]
  BY DEF ClusterInv, LinksOK
<1>2. rec \in StreamRecs /\ rec.owner = stream[s].owner /\ rec.pc = stream[s].pc
  BY <1>1 DEF StreamRecs
<1>3. stream' = [stream EXCEPT ![s] = rec]
  BY <1>1
<1> HIDE DEF rec
<1> QED BY <1>2, <1>3, StreamChanges

\* ... or the node had none.
LEMMA LetGo ==
    ASSUME ClusterInv, NEW n \in Nodes,
           stream' = IF node[n].stream = NoStream THEN stream
                     ELSE [stream EXCEPT ![node[n].stream].up = FALSE],
           UNCHANGED <<registry, conns>>
    PROVE  stream' \in [Streams -> StreamRecs] /\ ConnsServed' /\ OnlineServed'
<1>1. node[n].stream \in Streams \cup {NoStream}
  BY DEF ClusterInv, LinksOK, NodeRecs
<1>2. CASE node[n].stream = NoStream
  BY <1>2, StreamsStay
<1>3. CASE node[n].stream # NoStream
  BY <1>1, <1>3, HangUp
<1> QED BY <1>2, <1>3

LEMMA DialStep ==
    ASSUME ClusterInv, NEW n \in Nodes, Dial(n)
    PROVE  ClusterInv'
<1>1. /\ stream \in [Streams -> StreamRecs] /\ node \in [Nodes -> NodeRecs]
      /\ BoundsOK
  BY DEF ClusterInv, LinksOK
<1>2. PICK s \in Streams :
        /\ Unused(s)
        /\ stream' = [stream EXCEPT ![s] = [owner |-> n, pc |-> "recv", up |-> TRUE,
                                            done |-> FALSE, reply |-> "none"]]
        /\ node' = [node EXCEPT ![n].pc = "waiting", ![n].stream = s]
  BY DEF Dial
<1>3. UNCHANGED <<listVars, registry, conns, revoking, faults, requests>>
  BY DEF Dial
<1> DEFINE new == [owner |-> n, pc |-> "recv", up |-> TRUE, done |-> FALSE, reply |-> "none"]
           rec == [node[n] EXCEPT !.pc = "waiting", !.stream = s]
<1>4. new \in StreamRecs
  BY DEF StreamRecs, HandlerPcs
<1>5. stream[s].pc \notin ToCleanUp /\ stream[s].pc \notin Published
  BY <1>2 DEF Unused, ToCleanUp, Published
<1>6. rec \in NodeRecs /\ rec.stream # NoStream
  BY <1>1, ClusterAssumption DEF NodeRecs, NodePcs
<1>7. node' = [node EXCEPT ![n] = rec]
  BY <1>1, <1>2
<1>8. stream' = [stream EXCEPT ![s] = new]
  BY <1>2
<1>9. BoundsOK'
  BY <1>1, <1>3 DEF BoundsOK
<1> HIDE DEF new, rec
<1>10. stream' \in [Streams -> StreamRecs] /\ ConnsServed' /\ OnlineServed'
  BY <1>3, <1>4, <1>5, <1>8, StreamChanges
<1> QED BY <1>3, <1>6, <1>7, <1>9, <1>10, NodeMoves

LEMMA TakeReplyStep ==
    ASSUME ClusterInv, NEW n \in Nodes, TakeReply(n)
    PROVE  ClusterInv'
<1>1. /\ stream \in [Streams -> StreamRecs] /\ node \in [Nodes -> NodeRecs]
      /\ BoundsOK /\ HasStream
  BY DEF ClusterInv, LinksOK
<1>2. node[n].stream \in Streams /\ node[n].stream # NoStream
  BY <1>1 DEF TakeReply, HasStream, NodeRecs
<1> DEFINE r == stream[node[n].stream].reply
           st == CASE r = "registered" -> "connected" [] r = "pending" -> "pending"
                   [] r = "rejected" -> "revoked"
           rec == [node[n] EXCEPT !.pc = IF r = "registered" THEN "reading" ELSE "cleanup",
                                  !.status = st]
<1>3. r \in {"registered", "pending", "rejected"}
  BY <1>1, <1>2 DEF TakeReply, StreamRecs
<1>4. st \in {"connected", "pending", "revoked"}
  <2>1. CASE r = "registered"
    BY <2>1
  <2>2. CASE r = "pending"
    BY <2>2
  <2>3. CASE r = "rejected"
    BY <2>3
  <2> QED BY <1>3, <2>1, <2>2, <2>3
<1>5. node' = [node EXCEPT ![n] = rec]
  <2> DEFINE pc == IF r = "registered" THEN "reading" ELSE "cleanup"
  <2>1. node' = [node EXCEPT ![n].pc = pc, ![n].status = st]
    BY Zenon DEF TakeReply
  <2> HIDE DEF st, r
  <2> QED BY <1>1, <2>1
<1>6. UNCHANGED <<listVars, registry, conns, stream, revoking, faults, requests>>
  BY DEF TakeReply
<1> HIDE DEF st, r
<1>7. rec \in NodeRecs /\ rec.stream # NoStream
  BY <1>1, <1>2, <1>4 DEF NodeRecs, NodePcs
<1>8. BoundsOK'
  BY <1>1, <1>6 DEF BoundsOK
<1>9. stream' \in [Streams -> StreamRecs] /\ ConnsServed' /\ OnlineServed'
  BY <1>6, StreamsStay
<1> HIDE DEF rec
<1> QED BY <1>5, <1>6, <1>7, <1>8, <1>9, NodeMoves

LEMMA RecvFailsStep ==
    ASSUME ClusterInv, NEW n \in Nodes, RecvFails(n)
    PROVE  ClusterInv'
<1> DEFINE rec == [node[n] EXCEPT !.pc = "cleanup", !.status = "disconnected"]
<1>1. node \in [Nodes -> NodeRecs] /\ BoundsOK
  BY DEF ClusterInv, LinksOK
<1>2. UNCHANGED <<listVars, registry, conns, stream, revoking, faults, requests>>
  BY DEF RecvFails
<1>3. node' = [node EXCEPT ![n] = rec]
  BY <1>1 DEF RecvFails
<1>4. rec \in NodeRecs /\ rec.pc = "cleanup"
  BY <1>1 DEF NodeRecs, NodePcs
<1>5. BoundsOK'
  BY <1>1, <1>2 DEF BoundsOK
<1>6. stream' \in [Streams -> StreamRecs] /\ ConnsServed' /\ OnlineServed'
  BY <1>2, StreamsStay
<1> HIDE DEF rec
<1> QED BY <1>2, <1>3, <1>4, <1>5, <1>6, NodeMoves

LEMMA DialFailsStep ==
    ASSUME ClusterInv, NEW n \in Nodes, DialFails(n)
    PROVE  ClusterInv'
<1> DEFINE rec == [node[n] EXCEPT !.pc = "cleanup", !.status = "disconnected"]
<1>1. node \in [Nodes -> NodeRecs] /\ BoundsOK
  BY DEF ClusterInv, LinksOK
<1>2. UNCHANGED <<listVars, registry, conns, stream, revoking, requests>>
  BY DEF DialFails
<1>3. node' = [node EXCEPT ![n] = rec]
  BY <1>1 DEF DialFails
<1>4. rec \in NodeRecs /\ rec.pc = "cleanup"
  BY <1>1 DEF NodeRecs, NodePcs
<1>5. faults' \in 0..MaxFaults
  BY <1>1, FaultBound DEF DialFails
<1>6. BoundsOK'
  BY <1>1, <1>2, <1>5 DEF BoundsOK
<1>7. stream' \in [Streams -> StreamRecs] /\ ConnsServed' /\ OnlineServed'
  BY <1>2, StreamsStay
<1> HIDE DEF rec
<1> QED BY <1>2, <1>3, <1>4, <1>6, <1>7, NodeMoves

LEMMA CleanUpStep ==
    ASSUME ClusterInv, NEW n \in Nodes, CleanUp(n)
    PROVE  ClusterInv'
<1> DEFINE rec == [node[n] EXCEPT !.stream = NoStream,
                                  !.pc = IF node[n].status = "revoked" THEN "stopped" ELSE "sleep"]
<1>1. node \in [Nodes -> NodeRecs] /\ BoundsOK
  BY DEF ClusterInv, LinksOK
<1>2. UNCHANGED <<listVars, registry, conns, revoking, faults, requests>>
  BY DEF CleanUp
<1>3. node' = [node EXCEPT ![n] = rec]
  BY <1>1 DEF CleanUp
<1>4. rec \in NodeRecs /\ rec.pc \notin {"waiting", "reading"}
  BY <1>1 DEF NodeRecs, NodePcs
<1>5. BoundsOK'
  BY <1>1, <1>2 DEF BoundsOK
<1>6. stream' \in [Streams -> StreamRecs] /\ ConnsServed' /\ OnlineServed'
  BY <1>2, LetGo DEF CleanUp
<1> HIDE DEF rec
<1> QED BY <1>2, <1>3, <1>4, <1>5, <1>6, NodeMoves

LEMMA RetryStep ==
    ASSUME ClusterInv, NEW n \in Nodes, Retry(n)
    PROVE  ClusterInv'
<1> DEFINE rec == [node[n] EXCEPT !.pc = "dial", !.status = "connecting"]
<1>1. node \in [Nodes -> NodeRecs] /\ BoundsOK
  BY DEF ClusterInv, LinksOK
<1>2. UNCHANGED <<listVars, registry, conns, stream, revoking, faults, requests>>
  BY DEF Retry
<1>3. node' = [node EXCEPT ![n] = rec]
  BY <1>1 DEF Retry
<1>4. rec \in NodeRecs /\ rec.pc = "dial"
  BY <1>1 DEF NodeRecs, NodePcs
<1>5. BoundsOK'
  BY <1>1, <1>2 DEF BoundsOK
<1>6. stream' \in [Streams -> StreamRecs] /\ ConnsServed' /\ OnlineServed'
  BY <1>2, StreamsStay
<1> HIDE DEF rec
<1> QED BY <1>2, <1>3, <1>4, <1>5, <1>6, NodeMoves

LEMMA NodeRestartStep ==
    ASSUME ClusterInv, NEW n \in Nodes, NodeRestart(n)
    PROVE  ClusterInv'
<1> DEFINE rec == [pc |-> "dial", stream |-> NoStream, status |-> "connecting"]
<1>1. BoundsOK
  BY DEF ClusterInv
<1>2. UNCHANGED <<listVars, registry, conns, revoking, requests>>
  BY DEF NodeRestart
<1>3. node' = [node EXCEPT ![n] = rec]
  BY DEF NodeRestart
<1>4. rec \in NodeRecs /\ rec.pc = "dial"
  BY DEF NodeRecs, NodePcs
<1>5. faults' \in 0..MaxFaults
  BY <1>1, FaultBound DEF NodeRestart
<1>6. BoundsOK'
  BY <1>1, <1>2, <1>5 DEF BoundsOK
<1>7. stream' \in [Streams -> StreamRecs] /\ ConnsServed' /\ OnlineServed'
  BY <1>2, LetGo DEF NodeRestart
<1> HIDE DEF rec
<1> QED BY <1>2, <1>3, <1>4, <1>6, <1>7, NodeMoves

-----------------------------------------------------------------------------
(***************************************************************************)
(* The operator, and what goes wrong.                                      *)
(***************************************************************************)
LEMMA OnlyLists ==
    ASSUME ClusterInv, ListsOK', BoundsOK', UNCHANGED <<registry, conns, stream, node>>,
           revoking' \in [Nodes -> {"no", "listed", "disconnected"}]
    PROVE  ClusterInv'
<1>1. stream' \in [Streams -> StreamRecs] /\ ConnsServed' /\ OnlineServed'
  BY StreamsStay
<1>2. LinksOK' /\ HasStream'
  BY <1>1 DEF ClusterInv, LinksOK, HasStream
<1> QED BY <1>1, <1>2 DEF ClusterInv

LEMMA ApproveStep ==
    ASSUME ClusterInv, NEW n \in Nodes, Approve(n)
    PROVE  ClusterInv'
<1>1. ListsOK /\ BoundsOK
  BY DEF ClusterInv
<1>2. requests' \in 0..MaxRequests
  BY <1>1, RequestBound DEF Approve
<1>3. faults' \in 0..MaxFaults
  <2>1. CASE UNCHANGED faults
    BY <1>1, <2>1 DEF BoundsOK
  <2>2. CASE Fault
    BY <1>1, <2>2, FaultBound
  <2> QED BY <2>1, <2>2 DEF Approve
<1>4. lists' \in Lists
  BY <1>1 DEF ListsOK, Lists, Approve
<1>5. savedLists' \in Lists
  BY <1>1, <1>4 DEF ListsOK, Approve
<1>6. pending' = pending \ {n} /\ (savedPending' = pending' \/ savedPending' = savedPending)
  BY DEF Approve
<1>7. Bounded(pending \ {n}) /\ pending \ {n} \subseteq Nodes
  BY <1>1, RemoveBounded DEF ListsOK
<1>8. Bounded(pending)' /\ Bounded(savedPending)'
  BY <1>1, <1>6, <1>7 DEF ListsOK, Bounded
<1>9. ListsOK' /\ BoundsOK'
  BY <1>1, <1>2, <1>3, <1>4, <1>5, <1>6, <1>7, <1>8 DEF ListsOK, BoundsOK
<1>10. /\ UNCHANGED <<registry, conns, stream, node>>
       /\ revoking' \in [Nodes -> {"no", "listed", "disconnected"}]
  BY DEF Approve, ClusterInv, LinksOK
<1> QED BY <1>9, <1>10, OnlyLists

LEMMA DismissStep ==
    ASSUME ClusterInv, NEW n \in Nodes, Dismiss(n)
    PROVE  ClusterInv'
<1>1. ListsOK /\ BoundsOK
  BY DEF ClusterInv
<1>2. requests' \in 0..MaxRequests
  BY <1>1, RequestBound DEF Dismiss
<1>3. Bounded(pending \ {n}) /\ pending \ {n} \subseteq Nodes
  BY <1>1, RemoveBounded DEF ListsOK
<1>4. /\ pending' = pending \ {n}
      /\ savedPending' \subseteq Nodes /\ Bounded(savedPending')
      /\ faults' \in 0..MaxFaults
  BY <1>1, <1>3, SavedPending DEF Dismiss
<1>5. Bounded(pending)' /\ Bounded(savedPending)'
  BY <1>3, <1>4 DEF Bounded
<1>6. ListsOK' /\ BoundsOK'
  BY <1>1, <1>2, <1>3, <1>4, <1>5 DEF ListsOK, BoundsOK, Dismiss
<1>7. /\ UNCHANGED <<registry, conns, stream, node>>
      /\ revoking' \in [Nodes -> {"no", "listed", "disconnected"}]
  BY DEF Dismiss, ClusterInv, LinksOK
<1> QED BY <1>6, <1>7, OnlyLists

LEMMA RevokeStep ==
    ASSUME ClusterInv, NEW n \in Nodes, Revoke(n)
    PROVE  ClusterInv'
<1>1. ListsOK /\ BoundsOK
  BY DEF ClusterInv
<1>2. requests' \in 0..MaxRequests
  BY <1>1, RequestBound DEF Revoke
<1>3. lists' \in Lists
  BY <1>1 DEF ListsOK, Lists, Revoke
<1>4. ListsOK' /\ BoundsOK'
  BY <1>1, <1>2, <1>3 DEF ListsOK, BoundsOK, Bounded, Revoke
<1>5. /\ UNCHANGED <<registry, conns, stream, node>>
      /\ revoking' \in [Nodes -> {"no", "listed", "disconnected"}]
  BY DEF Revoke, ClusterInv, LinksOK
<1> QED BY <1>4, <1>5, OnlyLists

LEMMA ClearRevokedStep ==
    ASSUME ClusterInv, NEW n \in Nodes, ClearRevoked(n)
    PROVE  ClusterInv'
<1> DEFINE new == [lists EXCEPT !.revoked = @ \ {n}]
<1>1. ListsOK /\ BoundsOK
  BY DEF ClusterInv
<1>2. requests' \in 0..MaxRequests
  BY <1>1, RequestBound DEF ClearRevoked
<1>3. new \in Lists
  BY <1>1 DEF ListsOK, Lists
<1>4. SaveLists(new)
  BY DEF ClearRevoked
<1> HIDE DEF new
<1>5. lists' \in Lists /\ savedLists' \in Lists /\ faults' \in 0..MaxFaults
  BY <1>1, <1>3, <1>4, SavedLists
<1>6. ListsOK' /\ BoundsOK'
  BY <1>1, <1>2, <1>5 DEF ListsOK, BoundsOK, Bounded, ClearRevoked
<1>7. /\ UNCHANGED <<registry, conns, stream, node>>
      /\ revoking' \in [Nodes -> {"no", "listed", "disconnected"}]
  BY DEF ClearRevoked, ClusterInv, LinksOK
<1> QED BY <1>6, <1>7, OnlyLists

LEMMA RevokeDisconnectsStep ==
    ASSUME ClusterInv, NEW n \in Nodes, RevokeDisconnects(n)
    PROVE  ClusterInv'
<1>1. /\ stream \in [Streams -> StreamRecs] /\ conns[n] \in Streams \cup {NoStream}
      /\ ListsOK /\ BoundsOK /\ HasStream
  BY DEF ClusterInv, LinksOK
<1>2. /\ UNCHANGED <<listVars, registry, conns, node, faults, requests>>
      /\ revoking' \in [Nodes -> {"no", "listed", "disconnected"}]
  BY DEF RevokeDisconnects, ClusterInv, LinksOK
<1>3. stream' \in [Streams -> StreamRecs] /\ ConnsServed' /\ OnlineServed'
  <2>1. CASE conns[n] = NoStream
    BY <1>2, <2>1, StreamsStay DEF RevokeDisconnects
  <2>2. CASE conns[n] # NoStream
    <3> DEFINE s == conns[n]
               rec == [stream[s] EXCEPT !.done = TRUE]
    <3>1. s \in Streams
      BY <1>1, <2>2
    <3>2. rec \in StreamRecs /\ rec.owner = stream[s].owner /\ rec.pc = stream[s].pc
      BY <1>1, <3>1 DEF StreamRecs
    <3>3. stream' = [stream EXCEPT ![s] = rec]
      BY <1>1, <2>2 DEF RevokeDisconnects
    <3> HIDE DEF rec, s
    <3> QED BY <1>2, <3>1, <3>2, <3>3, StreamChanges
  <2> QED BY <2>1, <2>2
<1>4. ListsOK' /\ BoundsOK' /\ HasStream'
  BY <1>1, <1>2 DEF ListsOK, BoundsOK, HasStream, Bounded, listVars
<1>5. LinksOK'
  BY <1>2, <1>3 DEF ClusterInv, LinksOK
<1> QED BY <1>3, <1>4, <1>5 DEF ClusterInv

\* Taking nodes off the registry leaves what is served as it is.
LEMMA RevokeEndsStep ==
    ASSUME ClusterInv, NEW n \in Nodes, RevokeEnds(n)
    PROVE  ClusterInv'
<1>1. LinksOK /\ ListsOK /\ BoundsOK /\ HasStream /\ ConnsServed /\ OnlineServed
  BY DEF ClusterInv
<1>2. lists \in Lists /\ SaveLists(lists)
  BY <1>1 DEF RevokeEnds, ListsOK
<1>3. lists' \in Lists /\ savedLists' \in Lists /\ faults' \in 0..MaxFaults
  BY <1>1, <1>2, SavedLists
<1>4. ListsOK' /\ BoundsOK'
  BY <1>1, <1>3 DEF ListsOK, BoundsOK, Bounded, RevokeEnds
<1>5. LinksOK' /\ HasStream' /\ ConnsServed'
  BY <1>1 DEF RevokeEnds, LinksOK, HasStream, ConnsServed
<1>6. OnlineServed'
  BY <1>1 DEF RevokeEnds, OnlineServed, LinksOK
<1> QED BY <1>4, <1>5, <1>6 DEF ClusterInv

LEMMA ResetClusterStep ==
    ASSUME ClusterInv, ResetCluster
    PROVE  ClusterInv'
<1>1. LinksOK /\ ListsOK /\ BoundsOK /\ HasStream /\ ConnsServed /\ OnlineServed
  BY DEF ClusterInv
<1>2. requests' \in 0..MaxRequests
  BY <1>1, RequestBound DEF ResetCluster
<1>3. faults' \in 0..MaxFaults
  <2>1. CASE UNCHANGED faults
    BY <1>1, <2>1 DEF BoundsOK
  <2>2. CASE Fault
    BY <1>1, <2>2, FaultBound
  <2> QED BY <2>1, <2>2 DEF ResetCluster
<1>4. NoLists \in Lists
  BY DEF NoLists, Lists
<1>5. lists' \in Lists /\ savedLists' \in Lists /\ pending' = {} /\ savedPending' = {}
  BY <1>1, <1>4 DEF ResetCluster, ListsOK
<1>6. Bounded(pending)' /\ Bounded(savedPending)'
  BY <1>5, EmptyBounded DEF Bounded
<1>7. ListsOK' /\ BoundsOK'
  BY <1>2, <1>3, <1>5, <1>6 DEF ListsOK, BoundsOK
<1>8. stream \in [Streams -> StreamRecs] /\ conns \in [Nodes -> Streams \cup {NoStream}]
  BY <1>1 DEF LinksOK
<1>9. /\ UNCHANGED <<conns, node, revoking>>
      /\ registry' = [n \in Nodes |-> "absent"]
      /\ stream' = [s \in Streams |->
           IF \E n \in Nodes : registry[n] # "absent" /\ conns[n] = s
           THEN [stream[s] EXCEPT !.done = TRUE] ELSE stream[s]]
  BY DEF ResetCluster
<1>10. \A s \in Streams : /\ stream'[s] \in StreamRecs
                          /\ stream'[s].owner = stream[s].owner /\ stream'[s].pc = stream[s].pc
  <2> SUFFICES ASSUME NEW s \in Streams
               PROVE  /\ stream'[s] \in StreamRecs
                      /\ stream'[s].owner = stream[s].owner /\ stream'[s].pc = stream[s].pc
    OBVIOUS
  <2>1. stream[s] \in StreamRecs
    BY <1>8
  <2>2. stream'[s] = [stream[s] EXCEPT !.done = TRUE] \/ stream'[s] = stream[s]
    BY <1>9
  <2> QED BY <2>1, <2>2 DEF StreamRecs
<1>11. stream' \in [Streams -> StreamRecs]
  BY <1>9, <1>10
<1>12. ConnsServed'
  BY <1>1, <1>8, <1>9, <1>10 DEF ConnsServed
<1>13. OnlineServed'
  BY <1>9 DEF OnlineServed
<1>14. LinksOK' /\ HasStream'
  BY <1>1, <1>9, <1>11 DEF LinksOK, HasStream
<1> QED BY <1>7, <1>12, <1>13, <1>14 DEF ClusterInv

LEMMA StreamBreaksStep ==
    ASSUME ClusterInv, NEW s \in Streams, StreamBreaks(s)
    PROVE  ClusterInv'
<1>1. ListsOK /\ BoundsOK
  BY DEF ClusterInv
<1>2. /\ stream' = [stream EXCEPT ![s].up = FALSE]
      /\ UNCHANGED <<listVars, registry, conns, node, revoking, requests>>
  BY DEF StreamBreaks
<1>3. faults' \in 0..MaxFaults
  BY <1>1, FaultBound DEF StreamBreaks
<1>4. stream' \in [Streams -> StreamRecs] /\ ConnsServed' /\ OnlineServed'
  BY <1>2, HangUp
<1>5. ListsOK' /\ BoundsOK'
  BY <1>1, <1>2, <1>3 DEF ListsOK, BoundsOK, Bounded, listVars
<1>6. /\ registry' \in [Nodes -> {"absent", "online", "offline"}]
      /\ conns' \in [Nodes -> Streams \cup {NoStream}]
  BY <1>2 DEF ClusterInv, LinksOK
<1> QED BY <1>2, <1>4, <1>5, <1>6, ListsAndStream

LEMMA LeaderRestartStep ==
    ASSUME ClusterInv, LeaderRestart
    PROVE  ClusterInv'
<1>1. LinksOK /\ ListsOK /\ BoundsOK /\ HasStream
  BY DEF ClusterInv
<1>2. faults' \in 0..MaxFaults
  BY <1>1, FaultBound DEF LeaderRestart
<1>3. ListsOK' /\ BoundsOK'
  BY <1>1, <1>2 DEF LeaderRestart, ListsOK, BoundsOK, Bounded
<1>4. stream' \in [Streams -> StreamRecs]
  BY <1>1, ZenonT(30) DEF LeaderRestart, LinksOK, StreamRecs, HandlerPcs
<1>5. LinksOK' /\ HasStream'
  BY <1>1, <1>4 DEF LeaderRestart, LinksOK, HasStream
<1>6. ConnsServed' /\ OnlineServed'
  BY DEF LeaderRestart, ConnsServed, OnlineServed
<1> QED BY <1>3, <1>5, <1>6 DEF ClusterInv

-----------------------------------------------------------------------------
LEMMA ClusterStarts == ClusterInit => ClusterInv
<1> SUFFICES ASSUME ClusterInit PROVE ClusterInv
  OBVIOUS
<1>1. (CHOOSE n \in Nodes : TRUE) \in Nodes
  BY ClusterAssumption
<1>2. ListsOK
  BY EmptyBounded DEF ClusterInit, ListsOK, Lists, NoLists
<1>3. BoundsOK
  BY ClusterAssumption DEF ClusterInit, BoundsOK
<1>4. LinksOK
  BY <1>1 DEF ClusterInit, LinksOK, StreamRecs, HandlerPcs, NodeRecs, NodePcs
<1>5. HasStream /\ ConnsServed /\ OnlineServed
  BY DEF ClusterInit, HasStream, ConnsServed, OnlineServed
<1> QED BY <1>2, <1>3, <1>4, <1>5 DEF ClusterInv

LEMMA ClusterSteps == ClusterInv /\ [ClusterNext]_ClusterVars => ClusterInv'
<1> SUFFICES ASSUME ClusterInv, [ClusterNext]_ClusterVars PROVE ClusterInv'
  OBVIOUS
<1>1. CASE UNCHANGED ClusterVars
  <2>1. UNCHANGED <<listVars, registry, conns, stream, node, revoking, faults, requests>>
    BY <1>1 DEF ClusterVars
  <2>2. ListsOK' /\ BoundsOK'
    BY <2>1 DEF ClusterInv, ListsOK, BoundsOK, Bounded, listVars
  <2>3. revoking' \in [Nodes -> {"no", "listed", "disconnected"}]
    BY <2>1 DEF ClusterInv, LinksOK
  <2> QED BY <2>1, <2>2, <2>3, OnlyLists
<1>2. ASSUME NEW s \in Streams, Serve(s) PROVE ClusterInv'
  BY <1>2, CheckApprovalStep, RejectRevokedStep, AddPendingStep, RegisterNodeStep,
     PublishConnStep, SendRegisteredStep, ReadLoopEndsStep, DeleteConnStep, SetOfflineStep
     DEF Serve
<1>3. ASSUME NEW n \in Nodes, ConnectLoop(n) \/ DialFails(n) \/ NodeRestart(n) PROVE ClusterInv'
  BY <1>3, DialStep, TakeReplyStep, RecvFailsStep, CleanUpStep, RetryStep, DialFailsStep,
     NodeRestartStep DEF ConnectLoop
<1>4. ASSUME NEW n \in Nodes, Operate(n) PROVE ClusterInv'
  BY <1>4, ApproveStep, DismissStep, RevokeStep, RevokeDisconnectsStep, RevokeEndsStep,
     ClearRevokedStep DEF Operate
<1>5. CASE ClusterNext
  BY <1>2, <1>3, <1>4, <1>5, StreamBreaksStep, ResetClusterStep, LeaderRestartStep
     DEF ClusterNext
<1> QED BY <1>1, <1>5

LEMMA ClusterImplies == ClusterInv => ClusterTypeOK /\ RegistryIsServed
<1> SUFFICES ASSUME ClusterInv PROVE ClusterTypeOK /\ RegistryIsServed
  OBVIOUS
<1>1. ClusterTypeOK
  BY DEF ClusterInv, ClusterTypeOK, ListsOK, LinksOK, BoundsOK, Bounded
<1>2. RegistryIsServed
  <2> SUFFICES ASSUME NEW n \in Nodes
               PROVE  /\ registry[n] = "online" => Serving(n) # {}
                      /\ conns[n] # NoStream =>
                           conns[n] \in Serving(n) /\ stream[conns[n]].pc \in Published
    BY DEF RegistryIsServed, Published
  <2>1. registry[n] = "online" => Serving(n) # {}
    BY DEF ClusterInv, OnlineServed, Serving, ToCleanUp
  <2>2. conns[n] # NoStream =>
          conns[n] \in Serving(n) /\ stream[conns[n]].pc \in Published
    BY DEF ClusterInv, LinksOK, ConnsServed, Serving, Published
  <2> QED BY <2>1, <2>2
<1> QED BY <1>1, <1>2

LEMMA ClusterAlways == ClusterSpec => []ClusterInv
BY ClusterStarts, ClusterSteps, PTL DEF ClusterSpec

\* Whatever streams, registrations, approvals, restarts and failed saves
\* interleave, the state of leader and nodes is well typed; in particular the
\* list of pending nodes never exceeds maxPendingNodes, also when a restart
\* reads it from a file that an earlier save did not reach (pending.go).
THEOREM ClusterTypeCorrect == ClusterSpec => []ClusterTypeOK
BY ClusterAlways, ClusterImplies, PTL

\* A node that is listed as online and a connection in the map of the leader
\* always have a goroutine that will run cleanupNode, with any number of
\* streams of one node served at once (leader_stream.go runApprovedNode).
THEOREM RegistryStaysServed == ClusterSpec => []RegistryIsServed
BY ClusterAlways, ClusterImplies, PTL

=============================================================================
