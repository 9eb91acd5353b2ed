------------------------------ MODULE MCCluster ------------------------------
(***************************************************************************)
(* The two components with liveness properties, checked together: part     *)
(* chooses which of them a behaviour runs, and the other stays as it       *)
(* started.  Each has its own fairness, asked only when it runs.           *)
(***************************************************************************)
EXTENDS ClusterNodes, NotificationQueue

VARIABLE part

sumVars == <<ClusterVars, queueVars, part>>

Init == part \in {"cluster", "queue"} /\ ClusterInit /\ QueueInit

Next ==
    \/ part = "cluster" /\ ClusterNext /\ UNCHANGED <<queueVars, part>>
    \/ part = "queue" /\ QueueNext /\ UNCHANGED <<ClusterVars, part>>

Spec ==
    /\ Init /\ [][Next]_sumVars
    /\ part = "cluster" => ClusterFairness
    /\ part = "queue" => QueueFairness

=============================================================================
