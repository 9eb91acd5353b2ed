------------------------------- MODULE MCFleet -------------------------------
(***************************************************************************)
(* Small instances of the components around the agents: the worker         *)
(* processes and files of the nodes, terminal sessions, the control plane  *)
(* and the swarm.  They share no state; part chooses which one a behaviour *)
(* runs, and the others stay as they started.                              *)
(***************************************************************************)
EXTENDS RemoteWorkers, FileSync, TerminalSessions, ControlPlane, Swarm

VARIABLE part

fleetVars == <<RemoteVars, SyncVars, termVars, cpVars, swarmVars, part>>

Init ==
    /\ part \in {"remote", "sync", "term", "control", "swarm"}
    /\ RemoteInit /\ SyncInit /\ TermInit /\ CPInit /\ SwarmInit

Next ==
    \/ part = "remote" /\ RemoteNext /\ UNCHANGED <<SyncVars, termVars, cpVars, swarmVars, part>>
    \/ part = "sync" /\ SyncNext /\ UNCHANGED <<RemoteVars, termVars, cpVars, swarmVars, part>>
    \/ part = "term" /\ TermNext /\ UNCHANGED <<RemoteVars, SyncVars, cpVars, swarmVars, part>>
    \/ part = "control" /\ CPNext /\ UNCHANGED <<RemoteVars, SyncVars, termVars, swarmVars, part>>
    \/ part = "swarm" /\ SwarmNext /\ UNCHANGED <<RemoteVars, SyncVars, termVars, cpVars, part>>

Spec == Init /\ [][Next]_fleetVars

=============================================================================
