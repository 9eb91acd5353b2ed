----------------------------- MODULE MCInstances -----------------------------
(***************************************************************************)
(* Small instances of the components behind an agent instance: the tree of *)
(* instances, tool rules and their patterns, the conversation and what it  *)
(* is told about its surroundings, the channels, background tasks, and the *)
(* way from its node to the leader.  They share no state; part chooses     *)
(* which one a behaviour runs, and the others stay as they started.        *)
(***************************************************************************)
EXTENDS InstanceTree, ToolRules, Wildcard, Conversation, ContextDeltas,
        ChannelRouter, ChannelAccess, BackgroundTasks, LeaderDial

VARIABLE part

instanceVars == <<treeVars, rulesVars, wildVars, convVars, deltaVars, routerVars,
                  accessVars, tasksVars, DialVars, part>>

Parts == {"tree", "rules", "wildcard", "conversation", "deltas", "router", "access",
          "tasks", "dial"}

NoConfigs == [i \in Family |-> [allow |-> {}, deny |-> {}]]

\* A component with several initial states starts in one of them that does not
\* matter unless it is the part that runs.
Init ==
    /\ part \in Parts
    /\ TreeInit /\ ConvInit /\ RouterInit /\ TasksInit
    /\ DialInit /\ (part # "dial" => tracker = {} /\ reachable = {})
    /\ RulesInit /\ (part # "rules" => config = NoConfigs)
    /\ WildInit /\ (part # "wildcard" => pattern = <<>> /\ text = <<>>)
    /\ DeltaInit /\ (part # "deltas" => ~persistent /\ sources.todos = NoContent)
    /\ AccessInit /\ (part # "access" =>
                        /\ \A u, v \in 1 .. Updates : from[u] = from[v]
                        /\ from = CHOOSE f \in [1 .. Updates -> Senders] :
                                    \A u, v \in 1 .. Updates : f[u] = f[v]
                        /\ poll[CHOOSE p \in Pollers : TRUE].pc = "idle")

Next ==
    \/ /\ part = "tree" /\ TreeNext
       /\ UNCHANGED <<rulesVars, wildVars, convVars, deltaVars, routerVars,
                      accessVars, tasksVars, DialVars, part>>
    \/ /\ part = "rules" /\ RulesNext
       /\ UNCHANGED <<treeVars, wildVars, convVars, deltaVars, routerVars,
                      accessVars, tasksVars, DialVars, part>>
    \/ /\ part = "wildcard" /\ WildNext
       /\ UNCHANGED <<treeVars, rulesVars, convVars, deltaVars, routerVars,
                      accessVars, tasksVars, DialVars, part>>
    \/ /\ part = "conversation" /\ ConvNext
       /\ UNCHANGED <<treeVars, rulesVars, wildVars, deltaVars, routerVars,
                      accessVars, tasksVars, DialVars, part>>
    \/ /\ part = "deltas" /\ DeltaNext
       /\ UNCHANGED <<treeVars, rulesVars, wildVars, convVars, routerVars,
                      accessVars, tasksVars, DialVars, part>>
    \/ /\ part = "router" /\ RouterNext
       /\ UNCHANGED <<treeVars, rulesVars, wildVars, convVars, deltaVars,
                      accessVars, tasksVars, DialVars, part>>
    \/ /\ part = "access" /\ AccessNext
       /\ UNCHANGED <<treeVars, rulesVars, wildVars, convVars, deltaVars,
                      routerVars, tasksVars, DialVars, part>>
    \/ /\ part = "tasks" /\ TasksNext
       /\ UNCHANGED <<treeVars, rulesVars, wildVars, convVars, deltaVars,
                      routerVars, accessVars, DialVars, part>>
    \/ /\ part = "dial" /\ DialNext
       /\ UNCHANGED <<treeVars, rulesVars, wildVars, convVars, deltaVars, routerVars,
                      accessVars, tasksVars, part>>

Spec == Init /\ [][Next]_instanceVars

=============================================================================
