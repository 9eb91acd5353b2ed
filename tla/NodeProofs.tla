----------------------------- MODULE NodeProofs -----------------------------
(***************************************************************************)
(* Proofs about the nodes of a cluster: the worker processes on a remote   *)
(* node (RemoteWorkers), the files they share (FileSync) and how they      *)
(* reach their leader (LeaderDial), for every set of attempts, sessions,   *)
(* nodes and addresses and every bound.                                    *)
(***************************************************************************)
EXTENDS RemoteWorkers, FileSync, LeaderDial, FiniteSetTheorems, TLAPS

(***************************************************************************)
(* Remote workers.  A spawn channel is in the map only until its first     *)
(* answer; a tool call is asked once, and what it asked for is at any time *)
(* at one place: with the node, on the stream, or in the call's channel.   *)
(***************************************************************************)
Tool(m, h) == m.kind = "tool" /\ m.by = h
NoTool(s, h) == \A i \in DOMAIN s : ~Tool(s[i], h)
OneTool(s, h) == \A i, j \in DOMAIN s : Tool(s[i], h) /\ Tool(s[j], h) => i = j

\* What an attempt that was not made yet cannot have.
Unmade(h) ==
    /\ rw[h].sid = NoSession /\ rw[h].spawned = 0 /\ rw[h].got = 0 /\ rw[h].call = "none"
    /\ proc[h] = "none" /\ \A c \in toNode : c.by # h

AttemptInv(h) ==
    /\ rw[h].pc = "unused" => Unmade(h)
    /\ rw[h].pc # "unused" => rw[h].sid \in Sessions
    /\ rw[h].spawned <= 1 /\ rw[h].got <= 1

ChannelsInv ==
    \A x \in Sessions :
        /\ workers[x] # NoHandle => rw[workers[x]].pc # "unused"
        /\ spawnChans[x] # NoHandle =>
             /\ rw[spawnChans[x]].pc # "unused"
             /\ rw[spawnChans[x]].sid = x /\ rw[spawnChans[x]].spawned = 0

ToolOnce(h) ==
    /\ OneTool(toLeader, h)
    /\ rw[h].call = "none" => ~Handling("tool", h) /\ NoTool(toLeader, h) /\ rw[h].got = 0
    /\ Handling("tool", h) => NoTool(toLeader, h) /\ rw[h].got = 0
    /\ rw[h].got # 0 => NoTool(toLeader, h)

RemoteInv ==
    /\ RemoteTypeOK
    /\ \A h \in Handles : AttemptInv(h)
    /\ ChannelsInv
    /\ \A h \in Handles : ToolOnce(h)

\* What the stream holds after a send and after a receive.
LEMMA StreamTools ==
    ASSUME NEW s \in Seq(Answers), NEW m \in Answers, NEW h \in Handles
    PROVE  /\ NoTool(<<>>, h) /\ OneTool(<<>>, h)
           /\ NoTool(s, h) => OneTool(Append(s, m), h)
           /\ NoTool(s, h) /\ ~Tool(m, h) => NoTool(Append(s, m), h)
           /\ OneTool(s, h) /\ ~Tool(m, h) => OneTool(Append(s, m), h)
<1>1. /\ DOMAIN s = 1..Len(s) /\ DOMAIN Append(s, m) = 1..(Len(s) + 1) /\ Len(s) \in Nat
      /\ \A i \in 1..Len(s) : Append(s, m)[i] = s[i]
      /\ Append(s, m)[Len(s) + 1] = m
  OBVIOUS
<1>2. \A i \in 1..(Len(s) + 1) : i \in 1..Len(s) \/ i = Len(s) + 1
  BY <1>1
<1>3. NoTool(<<>>, h) /\ OneTool(<<>>, h)
  BY DEF NoTool, OneTool
<1>4. ASSUME NoTool(s, h) PROVE OneTool(Append(s, m), h)
  BY <1>1, <1>2, <1>4 DEF NoTool, OneTool
<1>5. ASSUME NoTool(s, h), ~Tool(m, h) PROVE NoTool(Append(s, m), h)
  BY <1>1, <1>2, <1>5 DEF NoTool
<1>6. ASSUME OneTool(s, h), ~Tool(m, h) PROVE OneTool(Append(s, m), h)
  BY <1>1, <1>2, <1>6 DEF OneTool
<1> QED BY <1>3, <1>4, <1>5, <1>6

LEMMA StreamTail ==
    ASSUME NEW s \in Seq(Answers), s # <<>>, NEW h \in Handles
    PROVE  /\ Head(s) \in Answers /\ Tail(s) \in Seq(Answers)
           /\ NoTool(s, h) => NoTool(Tail(s), h) /\ ~Tool(Head(s), h)
           /\ OneTool(s, h) => OneTool(Tail(s), h)
           /\ OneTool(s, h) /\ Tool(Head(s), h) => NoTool(Tail(s), h)
<1>1. /\ DOMAIN s = 1..Len(s) /\ Len(s) \in Nat \ {0} /\ Head(s) = s[1] /\ s[1] \in Answers
      /\ Tail(s) \in Seq(Answers) /\ DOMAIN Tail(s) = 1..(Len(s) - 1)
      /\ \A i \in 1..(Len(s) - 1) : Tail(s)[i] = s[i + 1]
  OBVIOUS
<1>2. /\ 1 \in 1..Len(s)
      /\ \A i \in 1..(Len(s) - 1) : i + 1 \in 1..Len(s) /\ i + 1 # 1
  BY <1>1
<1>3. ASSUME NoTool(s, h) PROVE NoTool(Tail(s), h) /\ ~Tool(Head(s), h)
  BY <1>1, <1>2, <1>3 DEF NoTool
<1>4. ASSUME OneTool(s, h) PROVE OneTool(Tail(s), h)
  <2> SUFFICES ASSUME NEW i \in 1..(Len(s) - 1), NEW j \in 1..(Len(s) - 1),
                      Tool(Tail(s)[i], h), Tool(Tail(s)[j], h)
               PROVE  i = j
    BY <1>1 DEF OneTool
  <2>1. i + 1 = j + 1
    BY <1>1, <1>2, <1>4 DEF OneTool
  <2> QED BY <2>1
<1>5. ASSUME OneTool(s, h), Tool(Head(s), h) PROVE NoTool(Tail(s), h)
  BY <1>1, <1>2, <1>5 DEF OneTool, NoTool
<1> QED BY <1>1, <1>3, <1>4, <1>5

\* The updates of an attempt.
LEMMA AttemptFields ==
    ASSUME NEW a \in Attempts
    PROVE  /\ \A p \in AttemptPcs :
                /\ [a EXCEPT !.pc = p] \in Attempts
                /\ [a EXCEPT !.pc = p].pc = p
                /\ [a EXCEPT !.pc = p].sid = a.sid /\ [a EXCEPT !.pc = p].closed = a.closed
                /\ [a EXCEPT !.pc = p].spawned = a.spawned /\ [a EXCEPT !.pc = p].got = a.got
                /\ [a EXCEPT !.pc = p].call = a.call
           /\ [a EXCEPT !.closed = TRUE] \in Attempts
           /\ [a EXCEPT !.closed = TRUE].pc = a.pc
           /\ [a EXCEPT !.closed = TRUE].sid = a.sid
           /\ [a EXCEPT !.closed = TRUE].spawned = a.spawned
           /\ [a EXCEPT !.closed = TRUE].got = a.got
           /\ [a EXCEPT !.closed = TRUE].call = a.call
BY DEF Attempts

LEMMA CallFields ==
    ASSUME NEW a \in Attempts, NEW q \in {"none", "waiting", "done"}
    PROVE  /\ [a EXCEPT !.call = q] \in Attempts
           /\ [a EXCEPT !.call = q].pc = a.pc /\ [a EXCEPT !.call = q].sid = a.sid
           /\ [a EXCEPT !.call = q].spawned = a.spawned /\ [a EXCEPT !.call = q].got = a.got
           /\ [a EXCEPT !.call = q].call = q
BY DEF Attempts

\* A step that answers nothing, makes no attempt and asks for no tool call.
SameAttempt(a, b) ==
    /\ b.sid = a.sid /\ b.spawned = a.spawned /\ b.got = a.got
    /\ b.pc = "unused" <=> a.pc = "unused"
    /\ b.call = "none" => a.call = "none"
    /\ a.pc = "unused" => b.call = a.call
FewerEntries ==
    \A x \in Sessions : /\ workers'[x] \in {workers[x], NoHandle}
                        /\ spawnChans'[x] \in {spawnChans[x], NoHandle}
NoToolCommand ==
    \A c \in toNode' : c \in toNode \/ (c.kind # "tool" /\ rw[c.by].pc # "unused")
NoToolAnswer ==
    \A g \in Handles : /\ NoTool(toLeader, g) => NoTool(toLeader', g)
                       /\ OneTool(toLeader, g) => OneTool(toLeader', g)
NoNewProc == \A g \in Handles : rw[g].pc = "unused" => proc'[g] = proc[g]

LEMMA RemoteFrame ==
    ASSUME RemoteInv, RemoteTypeOK', \A g \in Handles : SameAttempt(rw[g], rw'[g]),
           FewerEntries, NoToolCommand, NoToolAnswer, NoNewProc
    PROVE  RemoteInv'
<1> USE DEF SameAttempt, FewerEntries, NoToolCommand, NoToolAnswer, NoNewProc
<1>1. RemoteTypeOK /\ ChannelsInv /\ \A h \in Handles : AttemptInv(h) /\ ToolOnce(h)
  BY DEF RemoteInv
<1>2. ASSUME NEW h \in Handles PROVE AttemptInv(h)'
  <2>1. AttemptInv(h)
    BY <1>1
  <2>2. CASE rw[h].pc = "unused"
    <3>1. \A c \in toNode' : c.by # h
      BY <1>1, <2>1, <2>2 DEF AttemptInv, Unmade
    <3> QED BY <2>1, <2>2, <3>1 DEF AttemptInv, Unmade
  <2>3. CASE rw[h].pc # "unused"
    BY <2>1, <2>3 DEF AttemptInv
  <2> QED BY <2>2, <2>3
<1>3. ChannelsInv'
  <2> SUFFICES ASSUME NEW x \in Sessions
               PROVE  /\ workers'[x] # NoHandle => rw'[workers'[x]].pc # "unused"
                      /\ spawnChans'[x] # NoHandle =>
                           /\ rw'[spawnChans'[x]].pc # "unused"
                           /\ rw'[spawnChans'[x]].sid = x /\ rw'[spawnChans'[x]].spawned = 0
    BY DEF ChannelsInv
  <2>1. workers[x] \in Handles \cup {NoHandle} /\ spawnChans[x] \in Handles \cup {NoHandle}
    BY <1>1 DEF RemoteTypeOK
  <2>2. workers'[x] \in {workers[x], NoHandle} /\ spawnChans'[x] \in {spawnChans[x], NoHandle}
    OBVIOUS
  <2>3. ASSUME workers'[x] # NoHandle PROVE rw'[workers'[x]].pc # "unused"
    <3>1. workers'[x] = workers[x] /\ workers[x] \in Handles
      BY <2>1, <2>2, <2>3
    <3> QED BY <1>1, <2>3, <3>1 DEF ChannelsInv
  <2>4. ASSUME spawnChans'[x] # NoHandle
        PROVE  /\ rw'[spawnChans'[x]].pc # "unused"
               /\ rw'[spawnChans'[x]].sid = x /\ rw'[spawnChans'[x]].spawned = 0
    <3>1. spawnChans'[x] = spawnChans[x] /\ spawnChans[x] \in Handles
      BY <2>1, <2>2, <2>4
    <3> QED BY <1>1, <2>4, <3>1 DEF ChannelsInv
  <2> QED BY <2>3, <2>4
<1>4. ASSUME NEW h \in Handles PROVE ToolOnce(h)'
  <2>1. ToolOnce(h)
    BY <1>1
  <2>2. Handling("tool", h)' => Handling("tool", h)
    BY DEF Handling
  <2> QED BY <2>1, <2>2 DEF ToolOnce
<1> QED BY <1>2, <1>3, <1>4 DEF RemoteInv

\* A step that turns one attempt into r and leaves it the same in that sense.
LEMMA AttemptMoves ==
    ASSUME RemoteTypeOK, NEW h \in Handles, NEW r \in Attempts, SameAttempt(rw[h], r),
           rw' = [rw EXCEPT ![h] = r]
    PROVE  rw' \in [Handles -> Attempts] /\ \A g \in Handles : SameAttempt(rw[g], rw'[g])
<1>1. rw \in [Handles -> Attempts] /\ rw' \in [Handles -> Attempts]
  BY DEF RemoteTypeOK
<1>2. ASSUME NEW g \in Handles PROVE SameAttempt(rw[g], rw'[g])
  <2>1. CASE g = h
    BY <1>1, <2>1
  <2>2. CASE g # h
    <3>1. rw'[g] = rw[g]
      BY <1>1, <2>2
    <3> QED BY <3>1 DEF SameAttempt
  <2> QED BY <2>1, <2>2
<1> QED BY <1>1, <1>2

\* A command that is no tool call, and an answer that is none.
LEMMA Commanded ==
    ASSUME RemoteTypeOK, NEW h \in Handles, rw[h].pc # "unused",
           NEW kind \in {"spawn", "answer", "shutdown", "kill"}, Command(kind, h)
    PROVE  toNode' \subseteq Commands /\ NoToolCommand
<1>1. toNode \subseteq Commands
  BY DEF RemoteTypeOK
<1> DEFINE m == [kind |-> kind, by |-> h]
<1>2. m \in Commands /\ m.kind # "tool" /\ m.by = h
  BY DEF Commands
<1>3. toNode' = toNode \/ toNode' = toNode \cup {m}
  BY DEF Command
<1> HIDE DEF m
<1> QED BY <1>1, <1>2, <1>3 DEF NoToolCommand

LEMMA Told ==
    ASSUME RemoteTypeOK, NEW h \in Handles, rw[h].sid \in Sessions,
           NEW kind \in {"spawned", "failed", "exited"}, Tell(kind, h)
    PROVE  toLeader' \in Seq(Answers) /\ NoToolAnswer
<1>1. toLeader \in Seq(Answers)
  BY DEF RemoteTypeOK
<1> DEFINE m == [kind |-> kind, sid |-> rw[h].sid, by |-> h]
<1>2. m \in Answers /\ \A g \in Handles : ~Tool(m, g)
  BY DEF Answers, Tool
<1>3. toLeader' = toLeader \/ toLeader' = Append(toLeader, m)
  BY DEF Tell
<1> HIDE DEF m
<1>4. NoToolAnswer
  BY <1>1, <1>2, <1>3, StreamTools DEF NoToolAnswer
<1> QED BY <1>1, <1>2, <1>3, <1>4

\* The leader takes an answer that is no tool result.
LEMMA Taken ==
    ASSUME RemoteTypeOK, toLeader # <<>>, toLeader' = Tail(toLeader)
    PROVE  toLeader' \in Seq(Answers) /\ NoToolAnswer
BY StreamTail DEF RemoteTypeOK, NoToolAnswer

LEMMA NothingNew ==
    /\ toNode' \subseteq toNode => NoToolCommand
    /\ toLeader' = toLeader => NoToolAnswer
    /\ toLeader' = <<>> => NoToolAnswer
    /\ proc' = proc => NoNewProc
    /\ workers' = workers /\ spawnChans' = spawnChans => FewerEntries
<1>1. toLeader' = <<>> => NoToolAnswer
  BY DEF NoToolAnswer, NoTool, OneTool
<1>2. toLeader' = toLeader => NoToolAnswer
  BY DEF NoToolAnswer
<1> QED BY <1>1, <1>2 DEF NoToolCommand, NoNewProc, FewerEntries

LEMMA Forgotten ==
    ASSUME NEW m \in [Sessions -> Handles \cup {NoHandle}], NEW x
    PROVE  /\ Forget(m, x) \in [Sessions -> Handles \cup {NoHandle}]
           /\ \A y \in Sessions : Forget(m, x)[y] \in {m[y], NoHandle}
BY DEF Forget

LEMMA SameUnmoved == \A g \in Handles : SameAttempt(rw[g], rw[g])
BY DEF SameAttempt

\* The Manager's side: steps that leave the stream to the leader and the node alone.
LEMMA RemoteInvHandles ==
    ASSUME RemoteInv, NEW h \in Handles,
           \/ SendSpawn(h) \/ AwaitSpawn(h) \/ ToolReturns(h) \/ ShutdownHandle(h) \/ CloseHandle(h)
    PROVE  RemoteInv'
<1>1. RemoteTypeOK /\ AttemptInv(h) /\ rw[h] \in Attempts /\ rw \in [Handles -> Attempts]
      /\ workers \in [Sessions -> Handles \cup {NoHandle}]
      /\ spawnChans \in [Sessions -> Handles \cup {NoHandle}]
  BY DEF RemoteInv, RemoteTypeOK
<1>2. /\ removing' = removing /\ proc' = proc /\ local' = local /\ toLeader' = toLeader
      /\ leaderUp' = leaderUp /\ nodeUp' = nodeUp /\ breaks' = breaks
  BY DEF SendSpawn, AwaitSpawn, ToolReturns, ShutdownHandle, CloseHandle, nodeVars, linkVars
<1>3. NoToolAnswer /\ NoNewProc
  BY <1>2, NothingNew
\* what such a step may do to the attempt and the maps is enough
<1>4. ASSUME NEW r \in Attempts, SameAttempt(rw[h], r), rw' = [rw EXCEPT ![h] = r],
             toNode' \subseteq Commands, NoToolCommand,
             workers' = workers \/ workers' = Forget(workers, rw[h].sid),
             spawnChans' = spawnChans \/ spawnChans' = Forget(spawnChans, rw[h].sid)
      PROVE  RemoteInv'
  <2>1. rw' \in [Handles -> Attempts] /\ \A g \in Handles : SameAttempt(rw[g], rw'[g])
    BY <1>1, <1>4, AttemptMoves
  <2>2. /\ workers' \in [Sessions -> Handles \cup {NoHandle}]
        /\ spawnChans' \in [Sessions -> Handles \cup {NoHandle}] /\ FewerEntries
    BY <1>1, <1>4, Forgotten DEF FewerEntries
  <2>3. RemoteTypeOK'
    BY <1>1, <1>2, <1>4, <2>1, <2>2 DEF RemoteTypeOK
  <2> QED BY <1>3, <1>4, <2>1, <2>2, <2>3, RemoteFrame
<1> DEFINE To(p) == [rw[h] EXCEPT !.pc = p]
           Ended == [[rw[h] EXCEPT !.pc = "gone"] EXCEPT !.closed = TRUE]
<1>5. ASSUME NEW p \in AttemptPcs \ {"unused"}, rw[h].pc # "unused"
      PROVE  To(p) \in Attempts /\ SameAttempt(rw[h], To(p))
  BY <1>1, <1>5, AttemptFields DEF SameAttempt
<1>6. ASSUME rw[h].pc # "unused" PROVE Ended \in Attempts /\ SameAttempt(rw[h], Ended)
  <2> DEFINE a == [rw[h] EXCEPT !.pc = "gone"]
  <2>1. "gone" \in AttemptPcs
    BY DEF AttemptPcs
  <2>2. /\ a \in Attempts /\ a.pc = "gone" /\ a.sid = rw[h].sid /\ a.spawned = rw[h].spawned
        /\ a.got = rw[h].got /\ a.call = rw[h].call
    BY <1>1, <2>1, AttemptFields, ZenonT(30)
  <2> HIDE DEF a
  <2>3. /\ [a EXCEPT !.closed = TRUE] \in Attempts /\ [a EXCEPT !.closed = TRUE].pc = "gone"
        /\ [a EXCEPT !.closed = TRUE].sid = rw[h].sid
        /\ [a EXCEPT !.closed = TRUE].spawned = rw[h].spawned
        /\ [a EXCEPT !.closed = TRUE].got = rw[h].got /\ [a EXCEPT !.closed = TRUE].call = rw[h].call
    BY <2>2, AttemptFields
  <2>4. SameAttempt(rw[h], [a EXCEPT !.closed = TRUE])
    BY <1>6, <2>3 DEF SameAttempt
  <2> QED BY <2>3, <2>4 DEF a
<1>7. ASSUME CleanupSpawn(h), rw[h].pc # "unused", toNode' \subseteq Commands, NoToolCommand PROVE RemoteInv'
  <2>1. rw' = [rw EXCEPT ![h] = Ended]
    BY <1>1, <1>7 DEF CleanupSpawn
  <2> HIDE DEF Ended
  <2> QED BY <1>4, <1>6, <1>7, <2>1 DEF CleanupSpawn
<1>8. ASSUME NEW p \in AttemptPcs \ {"unused"}, rw[h].pc # "unused",
             rw' = [rw EXCEPT ![h].pc = p], toNode' \subseteq Commands, NoToolCommand,
             workers' = workers \/ workers' = Forget(workers, rw[h].sid),
             spawnChans' = spawnChans
      PROVE  RemoteInv'
  <2>1. rw' = [rw EXCEPT ![h] = To(p)]
    BY <1>1, <1>8
  <2> HIDE DEF To
  <2> QED BY <1>4, <1>5, <1>8, <2>1
<1>9. toNode \subseteq Commands /\ (toNode' = toNode => NoToolCommand)
  BY <1>1, NothingNew DEF RemoteTypeOK
<1> HIDE DEF To, Ended
<1>10. CASE SendSpawn(h)
  <2>1. rw[h].pc # "unused" /\ Command("spawn", h)
    BY <1>10 DEF SendSpawn
  <2>2. toNode' \subseteq Commands /\ NoToolCommand
    BY <1>1, <2>1, Commanded
  <2>3. CASE leaderUp
    <3>1. "awaiting" \in AttemptPcs \ {"unused"}
      BY DEF AttemptPcs
    <3> QED BY <1>8, <1>10, <2>1, <2>2, <2>3, <3>1 DEF SendSpawn
  <2>4. CASE ~leaderUp
    BY <1>7, <1>10, <2>1, <2>2, <2>4 DEF SendSpawn
  <2> QED BY <2>3, <2>4
<1>11. CASE AwaitSpawn(h)
  <2>1. rw[h].pc # "unused" /\ toNode' = toNode
    BY <1>11 DEF AwaitSpawn
  <2>2. CASE rw' = [rw EXCEPT ![h].pc = "held"] /\ UNCHANGED <<workers, spawnChans>>
    <3>1. "held" \in AttemptPcs \ {"unused"}
      BY DEF AttemptPcs
    <3> QED BY <1>8, <1>9, <2>1, <2>2, <3>1
  <2>3. CASE CleanupSpawn(h)
    BY <1>7, <1>9, <2>1, <2>3
  <2> QED BY <1>11, <2>2, <2>3 DEF AwaitSpawn
<1>12. CASE ToolReturns(h)
  <2> DEFINE r == [rw[h] EXCEPT !.call = "done"]
  <2>1. /\ r \in Attempts /\ r.pc = rw[h].pc /\ r.sid = rw[h].sid /\ r.spawned = rw[h].spawned
        /\ r.got = rw[h].got /\ r.call = "done"
    BY <1>1, CallFields
  <2>2. rw' = [rw EXCEPT ![h] = r] /\ toNode' = toNode /\ workers' = workers
        /\ spawnChans' = spawnChans /\ rw[h].call = "waiting"
    BY <1>1, <1>12 DEF ToolReturns
  <2> HIDE DEF r
  <2>3. rw[h].pc # "unused"
    BY <1>1, <2>2 DEF AttemptInv, Unmade
  <2>4. SameAttempt(rw[h], r)
    BY <2>1, <2>2, <2>3 DEF SameAttempt
  <2> QED BY <1>4, <1>9, <2>1, <2>2, <2>4
<1>13. CASE ShutdownHandle(h)
  <2>1. PICK p \in {"stopping", "killing"}, k \in {"shutdown", "kill"} :
          /\ rw[h].pc # "unused" /\ Command(k, h) /\ rw' = [rw EXCEPT ![h].pc = p]
          /\ workers' = workers /\ spawnChans' = spawnChans
    BY <1>13 DEF ShutdownHandle
  <2>2. toNode' \subseteq Commands /\ NoToolCommand
    BY <1>1, <2>1, Commanded
  <2>3. p \in AttemptPcs \ {"unused"}
    BY DEF AttemptPcs
  <2> QED BY <1>8, <2>1, <2>2, <2>3
<1>14. CASE CloseHandle(h)
  <2>1. rw[h].pc # "unused" /\ toNode' = toNode /\ workers' = Forget(workers, rw[h].sid)
        /\ spawnChans' = spawnChans /\ rw' = [rw EXCEPT ![h].pc = "gone"]
    BY <1>14 DEF CloseHandle
  <2>2. "gone" \in AttemptPcs \ {"unused"}
    BY DEF AttemptPcs
  <2> QED BY <1>8, <1>9, <2>1, <2>2
<1> QED BY <1>10, <1>11, <1>12, <1>13, <1>14

\* KillWorkersOnNode closes what the map has and asks the node to kill it.
LEMMA RemoteInvKill == ASSUME RemoteInv, KillWorkersOnNode PROVE RemoteInv'
<1>1. RemoteTypeOK /\ ChannelsInv /\ rw \in [Handles -> Attempts] /\ toNode \subseteq Commands
      /\ workers \in [Sessions -> Handles \cup {NoHandle}]
      /\ spawnChans \in [Sessions -> Handles \cup {NoHandle}]
  BY DEF RemoteInv, RemoteTypeOK
<1>2. /\ removing' = removing /\ proc' = proc /\ local' = local /\ toLeader' = toLeader
      /\ leaderUp' = leaderUp /\ nodeUp' = nodeUp /\ breaks' = breaks /\ spawnChans' = spawnChans
      /\ workers' = [x \in Sessions |-> NoHandle]
  BY DEF KillWorkersOnNode, nodeVars, linkVars
<1> DEFINE hit == {workers[x] : x \in Sessions} \ {NoHandle}
<1>3. /\ rw' = [h \in Handles |-> IF h \in hit THEN [rw[h] EXCEPT !.closed = TRUE] ELSE rw[h]]
      /\ toNode' = toNode \/ toNode' = toNode \cup {[kind |-> "kill", by |-> h] : h \in hit}
  BY DEF KillWorkersOnNode
<1>4. \A h \in hit : h \in Handles /\ rw[h].pc # "unused"
  BY <1>1 DEF ChannelsInv
<1> HIDE DEF hit
<1>5. ASSUME NEW g \in Handles PROVE rw'[g] \in Attempts /\ SameAttempt(rw[g], rw'[g])
  <2>1. CASE g \in hit
    <3>1. rw'[g] = [rw[g] EXCEPT !.closed = TRUE]
      BY <1>3, <2>1
    <3>2. /\ rw'[g] \in Attempts /\ rw'[g].pc = rw[g].pc /\ rw'[g].sid = rw[g].sid
          /\ rw'[g].spawned = rw[g].spawned /\ rw'[g].got = rw[g].got /\ rw'[g].call = rw[g].call
      BY <1>1, <3>1, AttemptFields
    <3> QED BY <3>2 DEF SameAttempt
  <2>2. CASE g \notin hit
    <3>1. rw'[g] = rw[g]
      BY <1>3, <2>2
    <3> QED BY <1>1, <3>1 DEF SameAttempt
  <2> QED BY <2>1, <2>2
<1>6. rw' \in [Handles -> Attempts]
  <2>1. rw' = [h \in Handles |-> rw'[h]]
    BY <1>3
  <2> QED BY <1>5, <2>1
<1>7. toNode' \subseteq Commands /\ NoToolCommand
  <2>1. \A h \in hit : [kind |-> "kill", by |-> h] \in Commands
    BY <1>4 DEF Commands
  <2> QED BY <1>1, <1>3, <1>4, <2>1 DEF NoToolCommand
<1>8. NoToolAnswer /\ NoNewProc
  BY <1>2, NothingNew
<1>9. workers' \in [Sessions -> Handles \cup {NoHandle}] /\ FewerEntries
  BY <1>1, <1>2 DEF FewerEntries
<1>10. RemoteTypeOK'
  BY <1>1, <1>2, <1>6, <1>7, <1>9 DEF RemoteTypeOK
<1> QED BY <1>5, <1>7, <1>8, <1>9, <1>10, RemoteFrame

\* The node: processes, answers that are no tool result, and the link.
LEMMA RemoteInvNode ==
    ASSUME RemoteInv,
           \/ \E h \in Handles : \/ HandleSpawn(h) \/ AnswerSpawn(h) \/ HandleStop(h)
                                 \/ ProcExits(h) \/ WatchWorkerExit(h)
           \/ NodeDisconnects \/ LeaderDisconnects \/ Reconnect
    PROVE  RemoteInv'
<1> USE RemoteAssumption
<1>1. /\ RemoteTypeOK /\ toNode \subseteq Commands /\ toLeader \in Seq(Answers)
      /\ proc \in [Handles -> {"none", "up", "stopping", "exited", "reaped"}]
      /\ local \in [Sessions -> Handles \cup {NoHandle}]
      /\ leaderUp \in BOOLEAN /\ nodeUp \in BOOLEAN /\ breaks \in 0..MaxBreaks
      /\ \A h \in Handles : AttemptInv(h)
  BY DEF RemoteInv, RemoteTypeOK
<1>2. rw' = rw /\ workers' = workers /\ spawnChans' = spawnChans /\ removing' = removing
  BY DEF HandleSpawn, AnswerSpawn, HandleStop, ProcExits, WatchWorkerExit, NodeDisconnects,
         LeaderDisconnects, Reconnect, leaderVars
\* what such a step may do to the node and the link is enough
<1>3. ASSUME proc' \in [Handles -> {"none", "up", "stopping", "exited", "reaped"}], NoNewProc,
             local' \in [Sessions -> Handles \cup {NoHandle}],
             toNode' \subseteq Commands, NoToolCommand, toLeader' \in Seq(Answers), NoToolAnswer,
             leaderUp' \in BOOLEAN, nodeUp' \in BOOLEAN, breaks' \in 0..MaxBreaks
      PROVE  RemoteInv'
  <2>1. RemoteTypeOK'
    BY <1>1, <1>2, <1>3 DEF RemoteTypeOK
  <2>2. FewerEntries /\ \A g \in Handles : SameAttempt(rw[g], rw'[g])
    BY <1>2, NothingNew, SameUnmoved
  <2> QED BY <1>3, <2>1, <2>2, RemoteFrame
<1>4. ASSUME NEW h \in Handles, NEW k \in {"spawn", "answer", "tool", "shutdown", "kill"},
             Handling(k, h)
      PROVE  rw[h].pc # "unused" /\ rw[h].sid \in Sessions
  <2>1. [kind |-> k, by |-> h].by = h /\ [kind |-> k, by |-> h] \in toNode
    BY <1>4 DEF Handling
  <2>2. AttemptInv(h)
    BY <1>1
  <2> QED BY <2>1, <2>2 DEF AttemptInv, Unmade
<1>5. ASSUME NEW h \in Handles, NEW q \in {"up", "stopping", "exited", "reaped"},
             rw[h].pc # "unused", proc' = [proc EXCEPT ![h] = q]
      PROVE  proc' \in [Handles -> {"none", "up", "stopping", "exited", "reaped"}] /\ NoNewProc
  BY <1>1, <1>5 DEF NoNewProc
<1>6. ASSUME NEW h \in Handles, HandleSpawn(h) PROVE RemoteInv'
  <2>1. rw[h].pc # "unused" /\ rw[h].sid \in Sessions
    BY <1>4, <1>6 DEF HandleSpawn
  <2>2. leaderUp' = leaderUp /\ nodeUp' = nodeUp /\ breaks' = breaks
    BY <1>6 DEF HandleSpawn, linkVars
  <2>3. CASE /\ proc' = [proc EXCEPT ![h] = "up"]
             /\ local' = [local EXCEPT ![rw[h].sid] = h]
             /\ toNode' = (toNode \ {[kind |-> "spawn", by |-> h]}) \cup {[kind |-> "answer", by |-> h]}
             /\ UNCHANGED toLeader
    <3>1. [kind |-> "answer", by |-> h] \in Commands /\ [kind |-> "answer", by |-> h].kind # "tool"
          /\ [kind |-> "answer", by |-> h].by = h
      BY DEF Commands
    <3>2. toNode' \subseteq Commands /\ NoToolCommand
      BY <1>1, <2>1, <2>3, <3>1 DEF NoToolCommand
    <3>3. local' \in [Sessions -> Handles \cup {NoHandle}]
      BY <1>1, <2>3
    <3>4. toLeader' = toLeader /\ NoToolAnswer
      BY <2>3, NothingNew
    <3> QED BY <1>1, <1>3, <1>5, <2>1, <2>2, <2>3, <3>2, <3>3, <3>4
  <2>4. CASE Handled("spawn", h) /\ Tell("failed", h) /\ UNCHANGED nodeVars
    <3>1. toLeader' \in Seq(Answers) /\ NoToolAnswer
      BY <1>1, <2>1, <2>4, Told
    <3>2. toNode' \subseteq toNode /\ proc' = proc /\ local' = local
      BY <2>4 DEF Handled, nodeVars
    <3> QED BY <1>1, <1>3, <2>2, <3>1, <3>2, NothingNew
  <2> QED BY <1>6, <2>3, <2>4 DEF HandleSpawn
<1>7. ASSUME NEW h \in Handles, AnswerSpawn(h) PROVE RemoteInv'
  <2>1. rw[h].pc # "unused" /\ rw[h].sid \in Sessions
    BY <1>4, <1>7 DEF AnswerSpawn
  <2>2. toLeader' \in Seq(Answers) /\ NoToolAnswer
    BY <1>1, <1>7, <2>1, Told DEF AnswerSpawn
  <2>3. toNode' \subseteq toNode /\ proc' = proc /\ local' = local
        /\ leaderUp' = leaderUp /\ nodeUp' = nodeUp /\ breaks' = breaks
    BY <1>7 DEF AnswerSpawn, Handled, nodeVars, linkVars
  <2> QED BY <1>1, <1>3, <2>2, <2>3, NothingNew
<1>8. ASSUME NEW h \in Handles, HandleStop(h) PROVE RemoteInv'
  <2>1. /\ toNode' \subseteq toNode /\ local' = local /\ toLeader' = toLeader
        /\ leaderUp' = leaderUp /\ nodeUp' = nodeUp /\ breaks' = breaks
    BY <1>8 DEF HandleStop, Handled, linkVars
  <2>2. rw[h].sid \in Sessions
    BY <1>4, <1>8 DEF HandleStop
  <2> DEFINE p == local[rw[h].sid]
  <2>3. p \in Handles \cup {NoHandle}
    BY <1>1, <2>2
  <2>4. \/ proc' = proc
        \/ p # NoHandle /\ proc[p] # "none" /\ proc' = [proc EXCEPT ![p] = "stopping"]
        \/ p # NoHandle /\ proc[p] # "none" /\ proc' = [proc EXCEPT ![p] = "exited"]
    BY <1>8 DEF HandleStop
  <2> HIDE DEF p
  <2>5. CASE proc' = proc
    BY <1>1, <1>3, <2>1, <2>5, NothingNew
  <2>6. CASE p # NoHandle /\ proc[p] # "none"
    <3>1. p \in Handles /\ rw[p].pc # "unused"
      <4>1. p \in Handles
        BY <2>3, <2>6
      <4>2. AttemptInv(p)
        BY <1>1, <4>1
      <4> QED BY <2>6, <4>1, <4>2 DEF AttemptInv, Unmade
    <3>2. CASE proc' = [proc EXCEPT ![p] = "stopping"]
      BY <1>1, <1>3, <1>5, <2>1, <3>1, <3>2, NothingNew
    <3>3. CASE proc' = [proc EXCEPT ![p] = "exited"]
      BY <1>1, <1>3, <1>5, <2>1, <3>1, <3>3, NothingNew
    <3> QED BY <2>4, <2>5, <3>2, <3>3
  <2> QED BY <2>4, <2>5, <2>6
<1>9. ASSUME NEW h \in Handles, proc[h] # "none"
      PROVE  rw[h].pc # "unused" /\ rw[h].sid \in Sessions
  <2>1. AttemptInv(h)
    BY <1>1
  <2> QED BY <1>9, <2>1 DEF AttemptInv, Unmade
<1>10. ASSUME NEW h \in Handles, ProcExits(h) PROVE RemoteInv'
  <2>1. rw[h].pc # "unused" /\ proc' = [proc EXCEPT ![h] = "exited"]
    BY <1>9, <1>10 DEF ProcExits
  <2>2. /\ toNode' = toNode /\ local' = local /\ toLeader' = toLeader
        /\ leaderUp' = leaderUp /\ nodeUp' = nodeUp /\ breaks' = breaks
    BY <1>10 DEF ProcExits, linkVars
  <2> QED BY <1>1, <1>3, <1>5, <2>1, <2>2, NothingNew
<1>11. ASSUME NEW h \in Handles, WatchWorkerExit(h) PROVE RemoteInv'
  <2>1. rw[h].pc # "unused" /\ rw[h].sid \in Sessions /\ proc' = [proc EXCEPT ![h] = "reaped"]
    BY <1>9, <1>11 DEF WatchWorkerExit
  <2>2. toNode' = toNode /\ leaderUp' = leaderUp /\ nodeUp' = nodeUp /\ breaks' = breaks
    BY <1>11 DEF WatchWorkerExit, linkVars
  <2>3. local' \in [Sessions -> Handles \cup {NoHandle}]
    BY <1>1, <1>11, Forgotten DEF WatchWorkerExit
  <2>4. toLeader' \in Seq(Answers) /\ NoToolAnswer
    BY <1>1, <1>11, <2>1, Told DEF WatchWorkerExit
  <2> QED BY <1>1, <1>3, <1>5, <2>1, <2>2, <2>3, <2>4, NothingNew
<1>12. CASE NodeDisconnects
  <2>1. /\ toLeader' = <<>> /\ toNode' \subseteq toNode /\ local' = local
        /\ leaderUp' = leaderUp /\ nodeUp' = FALSE
    BY <1>12 DEF NodeDisconnects
  <2>2. <<>> \in Seq(Answers)
    OBVIOUS
  <2>3. breaks' \in 0..MaxBreaks
    BY <1>1, <1>12 DEF NodeDisconnects
  <2>4. proc' = [h \in Handles |-> IF proc[h] = "up" /\ h = local[rw[h].sid]
                                   THEN "stopping" ELSE proc[h]]
    BY <1>12 DEF NodeDisconnects
  <2>5. proc' \in [Handles -> {"none", "up", "stopping", "exited", "reaped"}]
    BY <1>1, <2>4
  <2>6. NoNewProc
    <3>1. ASSUME NEW g \in Handles, rw[g].pc = "unused" PROVE proc'[g] = proc[g]
      <4>1. proc[g] # "up"
        BY <1>9, <3>1
      <4> QED BY <2>4, <4>1
    <3> QED BY <3>1 DEF NoNewProc
  <2>7. NoToolCommand /\ NoToolAnswer
    BY <2>1, NothingNew
  <2> QED BY <1>1, <1>3, <2>1, <2>2, <2>3, <2>5, <2>6, <2>7
<1>13. CASE LeaderDisconnects
  <2>1. /\ toLeader' = <<>> /\ toNode' = toNode /\ local' = local /\ proc' = proc
        /\ leaderUp' = FALSE /\ nodeUp' = nodeUp
    BY <1>13 DEF LeaderDisconnects, nodeVars
  <2>2. <<>> \in Seq(Answers)
    OBVIOUS
  <2>3. breaks' \in 0..MaxBreaks
    BY <1>1, <1>13 DEF LeaderDisconnects
  <2> QED BY <1>1, <1>3, <2>1, <2>2, <2>3, NothingNew
<1>14. CASE Reconnect
  <2>1. /\ toLeader' = toLeader /\ toNode' = toNode /\ local' = local /\ proc' = proc
        /\ leaderUp' = TRUE /\ nodeUp' = TRUE /\ breaks' = breaks
    BY <1>14 DEF Reconnect, nodeVars
  <2> QED BY <1>1, <1>3, <2>1, NothingNew
<1> QED BY <1>6, <1>7, <1>8, <1>10, <1>11, <1>12, <1>13, <1>14

\* The leader learns of an exit, and removes the worker.
LEMMA RemoteInvExited == ASSUME RemoteInv, OnWorkerExited \/ RemoveWorker PROVE RemoteInv'
<1>1. /\ RemoteTypeOK /\ rw \in [Handles -> Attempts] /\ toLeader \in Seq(Answers)
      /\ workers \in [Sessions -> Handles \cup {NoHandle}]
      /\ spawnChans \in [Sessions -> Handles \cup {NoHandle}] /\ removing \in Sessions \cup {NoSession}
  BY DEF RemoteInv, RemoteTypeOK
<1>2. /\ spawnChans' = spawnChans /\ proc' = proc /\ local' = local /\ toNode' = toNode
      /\ leaderUp' = leaderUp /\ nodeUp' = nodeUp /\ breaks' = breaks
  BY DEF OnWorkerExited, RemoveWorker, nodeVars, linkVars
<1>3. NoToolCommand /\ NoNewProc
  BY <1>2, NothingNew
<1>4. CASE OnWorkerExited
  <2>1. toLeader # <<>> /\ toLeader' = Tail(toLeader) /\ workers' = workers
    BY <1>4 DEF OnWorkerExited, Arrived
  <2>2. PICK x \in Sessions : x = Head(toLeader).sid
    <3>1. Head(toLeader) \in Answers
      BY <1>1, <2>1
    <3> QED BY <3>1 DEF Answers
  <2>3. PICK h \in Handles \cup {NoHandle} : h = workers[x]
    BY <1>1
  <2>4. /\ rw' = IF h = NoHandle THEN rw ELSE [rw EXCEPT ![h].closed = TRUE]
        /\ removing' = IF h = NoHandle THEN NoSession ELSE x
    BY <1>4, <2>2, <2>3 DEF OnWorkerExited
  <2>5. rw' \in [Handles -> Attempts] /\ \A g \in Handles : SameAttempt(rw[g], rw'[g])
    <3>1. CASE h = NoHandle
      BY <1>1, <2>4, <3>1, SameUnmoved
    <3>2. CASE h # NoHandle
      <4> DEFINE r == [rw[h] EXCEPT !.closed = TRUE]
      <4>1. h \in Handles /\ rw' = [rw EXCEPT ![h] = r]
        BY <1>1, <2>4, <3>2
      <4>2. /\ r \in Attempts /\ r.pc = rw[h].pc /\ r.sid = rw[h].sid /\ r.spawned = rw[h].spawned
            /\ r.got = rw[h].got /\ r.call = rw[h].call
        BY <1>1, <4>1, AttemptFields
      <4> HIDE DEF r
      <4>3. SameAttempt(rw[h], r)
        BY <4>2 DEF SameAttempt
      <4> QED BY <1>1, <4>1, <4>2, <4>3, AttemptMoves
    <3> QED BY <3>1, <3>2
  <2>6. toLeader' \in Seq(Answers) /\ NoToolAnswer
    BY <1>1, <2>1, Taken
  <2>7. removing' \in Sessions \cup {NoSession}
    BY <2>4
  <2>8. RemoteTypeOK'
    BY <1>1, <1>2, <2>1, <2>5, <2>6, <2>7 DEF RemoteTypeOK
  <2>9. FewerEntries
    BY <1>2, <2>1, NothingNew
  <2> QED BY <1>3, <2>5, <2>6, <2>8, <2>9, RemoteFrame
<1>5. CASE RemoveWorker
  <2>1. rw' = rw /\ toLeader' = toLeader /\ removing' = NoSession
        /\ workers' = Forget(workers, removing)
    BY <1>5 DEF RemoveWorker
  <2>2. workers' \in [Sessions -> Handles \cup {NoHandle}] /\ FewerEntries
    BY <1>1, <1>2, <2>1, Forgotten DEF FewerEntries
  <2>3. RemoteTypeOK'
    BY <1>1, <1>2, <2>1, <2>2 DEF RemoteTypeOK
  <2>4. NoToolAnswer /\ \A g \in Handles : SameAttempt(rw[g], rw'[g])
    BY <2>1, NothingNew, SameUnmoved
  <2> QED BY <1>3, <2>2, <2>3, <2>4, RemoteFrame
<1> QED BY <1>4, <1>5

\* A new attempt: its channel is empty, and nothing was asked for it.
LEMMA RemoteInvSpawn ==
    ASSUME RemoteInv, NEW h \in Handles, NEW x \in Sessions, SpawnOnNode(h, x) PROVE RemoteInv'
<1> USE RemoteAssumption
<1>1. /\ RemoteTypeOK /\ ChannelsInv /\ rw \in [Handles -> Attempts] /\ rw[h] \in Attempts
      /\ workers \in [Sessions -> Handles \cup {NoHandle}]
      /\ spawnChans \in [Sessions -> Handles \cup {NoHandle}]
      /\ \A g \in Handles : AttemptInv(g) /\ ToolOnce(g)
  BY DEF RemoteInv, RemoteTypeOK
<1>2. /\ rw[h].pc = "unused" /\ workers' = [workers EXCEPT ![x] = h]
      /\ spawnChans' = [spawnChans EXCEPT ![x] = h]
      /\ removing' = removing /\ proc' = proc /\ local' = local /\ toNode' = toNode
      /\ toLeader' = toLeader /\ leaderUp' = leaderUp /\ nodeUp' = nodeUp /\ breaks' = breaks
  BY DEF SpawnOnNode, nodeVars, linkVars
<1> DEFINE r == [[rw[h] EXCEPT !.pc = "registered"] EXCEPT !.sid = x]
<1>3. rw' = [rw EXCEPT ![h] = r]
  BY <1>1 DEF SpawnOnNode
<1>4. /\ r \in Attempts /\ r.pc = "registered" /\ r.sid = x /\ r.spawned = rw[h].spawned
      /\ r.got = rw[h].got /\ r.call = rw[h].call
  BY <1>1 DEF Attempts, AttemptPcs
<1> HIDE DEF r
<1>5. /\ rw' \in [Handles -> Attempts] /\ rw'[h] = r
      /\ \A g \in Handles : g # h => rw'[g] = rw[g]
  BY <1>1, <1>3, <1>4
<1>6. rw[h].spawned = 0 /\ rw[h].got = 0 /\ rw[h].call = "none"
  BY <1>1, <1>2 DEF AttemptInv, Unmade
<1>7. RemoteTypeOK'
  BY <1>1, <1>2, <1>5 DEF RemoteTypeOK
<1>8. ASSUME NEW g \in Handles PROVE AttemptInv(g)'
  <2>1. CASE g = h
    BY <1>4, <1>5, <1>6, <2>1 DEF AttemptInv
  <2>2. CASE g # h
    <3>1. rw'[g] = rw[g] /\ AttemptInv(g)
      BY <1>1, <1>5, <2>2
    <3> QED BY <1>2, <3>1 DEF AttemptInv, Unmade
  <2> QED BY <2>1, <2>2
<1>9. ChannelsInv'
  <2> SUFFICES ASSUME NEW y \in Sessions
               PROVE  /\ workers'[y] # NoHandle => rw'[workers'[y]].pc # "unused"
                      /\ spawnChans'[y] # NoHandle =>
                           /\ rw'[spawnChans'[y]].pc # "unused"
                           /\ rw'[spawnChans'[y]].sid = y /\ rw'[spawnChans'[y]].spawned = 0
    BY DEF ChannelsInv
  <2>1. CASE y = x
    <3>1. workers'[y] = h /\ spawnChans'[y] = h
      BY <1>1, <1>2, <2>1
    <3> QED BY <1>4, <1>5, <1>6, <2>1, <3>1
  <2>2. CASE y # x
    <3>1. workers'[y] = workers[y] /\ spawnChans'[y] = spawnChans[y]
      BY <1>1, <1>2, <2>2
    <3>2. /\ workers[y] # NoHandle => rw[workers[y]].pc # "unused"
          /\ spawnChans[y] # NoHandle => /\ rw[spawnChans[y]].pc # "unused"
                                         /\ rw[spawnChans[y]].sid = y /\ rw[spawnChans[y]].spawned = 0
      BY <1>1 DEF ChannelsInv
    <3>3. workers[y] \in Handles \cup {NoHandle} /\ spawnChans[y] \in Handles \cup {NoHandle}
      BY <1>1
    <3>4. workers[y] # NoHandle => rw'[workers[y]] = rw[workers[y]]
      BY <1>2, <1>5, <3>2, <3>3
    <3>5. spawnChans[y] # NoHandle => rw'[spawnChans[y]] = rw[spawnChans[y]]
      BY <1>2, <1>5, <3>2, <3>3
    <3> QED BY <3>1, <3>2, <3>4, <3>5
  <2> QED BY <2>1, <2>2
<1>10. ASSUME NEW g \in Handles PROVE ToolOnce(g)'
  <2>1. ToolOnce(g) /\ rw'[g].call = rw[g].call /\ rw'[g].got = rw[g].got
    BY <1>1, <1>4, <1>5
  <2>2. Handling("tool", g)' = Handling("tool", g)
    BY <1>2 DEF Handling
  <2> QED BY <1>2, <2>1, <2>2 DEF ToolOnce
<1> QED BY <1>7, <1>8, <1>9, <1>10 DEF RemoteInv

\* A tool call moves on: it is asked, answered by the node, or its answer is taken.
\* The attempt keeps what its maps depend on.
LEMMA RemoteInvTools ==
    ASSUME RemoteInv, NEW h \in Handles, rw[h].pc # "unused", NEW r \in Attempts,
           rw' = [rw EXCEPT ![h] = r],
           r.pc = rw[h].pc, r.sid = rw[h].sid, r.spawned = rw[h].spawned, r.got <= 1,
           workers' = workers, spawnChans' = spawnChans, removing' = removing, proc' = proc,
           local' = local, leaderUp' = leaderUp, nodeUp' = nodeUp, breaks' = breaks,
           toNode' \subseteq Commands, toLeader' \in Seq(Answers),
           \A c \in toNode' : c \in toNode \/ c = [kind |-> "tool", by |-> h],
           \A g \in Handles : g # h => /\ NoTool(toLeader, g) => NoTool(toLeader', g)
                                       /\ OneTool(toLeader, g) => OneTool(toLeader', g),
           ToolOnce(h)'
    PROVE  RemoteInv'
<1>1. /\ RemoteTypeOK /\ ChannelsInv /\ rw \in [Handles -> Attempts]
      /\ \A g \in Handles : AttemptInv(g) /\ ToolOnce(g)
  BY DEF RemoteInv, RemoteTypeOK
<1>2. /\ rw' \in [Handles -> Attempts] /\ rw'[h] = r
      /\ \A g \in Handles : g # h => rw'[g] = rw[g]
  BY <1>1
<1>3. RemoteTypeOK'
  BY <1>1, <1>2 DEF RemoteTypeOK
<1>4. \A g \in Handles : /\ rw'[g].pc = rw[g].pc /\ rw'[g].sid = rw[g].sid
                         /\ rw'[g].spawned = rw[g].spawned
  BY <1>2
<1>5. [kind |-> "tool", by |-> h].by = h
  OBVIOUS
<1>6. ASSUME NEW g \in Handles PROVE AttemptInv(g)'
  <2>1. CASE g = h
    BY <1>1, <1>2, <2>1 DEF AttemptInv
  <2>2. CASE g # h
    <3>1. rw'[g] = rw[g] /\ AttemptInv(g)
      BY <1>1, <1>2, <2>2
    <3>2. (\A c \in toNode : c.by # g) => \A c \in toNode' : c.by # g
      BY <1>5, <2>2
    <3> QED BY <3>1, <3>2 DEF AttemptInv, Unmade
  <2> QED BY <2>1, <2>2
<1>7. ChannelsInv'
  <2>1. \A x \in Sessions : /\ workers[x] \in Handles \cup {NoHandle}
                            /\ spawnChans[x] \in Handles \cup {NoHandle}
    BY <1>1 DEF RemoteTypeOK
  <2> QED BY <1>1, <1>4, <2>1 DEF ChannelsInv
<1>8. ASSUME NEW g \in Handles PROVE ToolOnce(g)'
  <2>1. CASE g = h
    BY <2>1
  <2>2. CASE g # h
    <3>1. rw'[g] = rw[g] /\ ToolOnce(g)
      BY <1>1, <1>2, <2>2
    <3>2. Handling("tool", g)' => Handling("tool", g)
      <4>1. [kind |-> "tool", by |-> g] # [kind |-> "tool", by |-> h]
        BY <1>5, <2>2
      <4> QED BY <4>1 DEF Handling
    <3> QED BY <2>2, <3>1, <3>2 DEF ToolOnce
  <2> QED BY <2>1, <2>2
<1> QED BY <1>3, <1>6, <1>7, <1>8 DEF RemoteInv

LEMMA RemoteInvAsk == ASSUME RemoteInv, NEW h \in Handles, ExecuteTool(h) PROVE RemoteInv'
<1>1. /\ RemoteTypeOK /\ rw \in [Handles -> Attempts] /\ rw[h] \in Attempts /\ AttemptInv(h)
      /\ ToolOnce(h) /\ toNode \subseteq Commands /\ toLeader \in Seq(Answers)
  BY DEF RemoteInv, RemoteTypeOK
<1>2. /\ rw[h].pc = "held" /\ rw[h].call = "none"
      /\ workers' = workers /\ spawnChans' = spawnChans /\ removing' = removing /\ proc' = proc
      /\ local' = local /\ leaderUp' = leaderUp /\ nodeUp' = nodeUp /\ breaks' = breaks
      /\ toLeader' = toLeader
  BY DEF ExecuteTool, nodeVars, linkVars
<1>3. PICK q \in {"waiting", "done"} : rw' = [rw EXCEPT ![h].call = q]
  BY DEF ExecuteTool
<1> DEFINE r == [rw[h] EXCEPT !.call = q]
<1>4. /\ r \in Attempts /\ r.pc = rw[h].pc /\ r.sid = rw[h].sid /\ r.spawned = rw[h].spawned
      /\ r.got = rw[h].got /\ r.call = q
  <2>1. q \in {"none", "waiting", "done"}
    OBVIOUS
  <2> QED BY <1>1, <2>1, CallFields, ZenonT(30)
<1>5. rw' = [rw EXCEPT ![h] = r]
  BY <1>1, <1>3
<1> HIDE DEF r
<1>6. toNode' = toNode \/ toNode' = toNode \cup {[kind |-> "tool", by |-> h]}
  BY DEF ExecuteTool, Command
<1>7. [kind |-> "tool", by |-> h] \in Commands
  BY DEF Commands
<1>8. toNode' \subseteq Commands /\ \A c \in toNode' : c \in toNode \/ c = [kind |-> "tool", by |-> h]
  BY <1>1, <1>6, <1>7
<1>9. rw[h].got = 0 /\ NoTool(toLeader, h) /\ OneTool(toLeader, h)
  BY <1>1, <1>2 DEF ToolOnce
<1>10. rw'[h] = r
  BY <1>1, <1>4, <1>5
<1>11. ToolOnce(h)'
  BY <1>2, <1>4, <1>9, <1>10 DEF ToolOnce
<1>12. r.got <= 1 /\ rw[h].pc # "unused"
  BY <1>2, <1>4, <1>9
<1> QED BY <1>1, <1>2, <1>4, <1>5, <1>8, <1>11, <1>12, RemoteInvTools

LEMMA RemoteInvAnswer == ASSUME RemoteInv, NEW h \in Handles, HandleExecuteTool(h) PROVE RemoteInv'
<1>1. /\ RemoteTypeOK /\ rw \in [Handles -> Attempts] /\ rw[h] \in Attempts /\ AttemptInv(h)
      /\ ToolOnce(h) /\ toNode \subseteq Commands /\ toLeader \in Seq(Answers)
  BY DEF RemoteInv, RemoteTypeOK
<1>2. /\ Handling("tool", h) /\ toNode' = toNode \ {[kind |-> "tool", by |-> h]}
      /\ rw' = rw /\ workers' = workers /\ spawnChans' = spawnChans /\ removing' = removing
      /\ proc' = proc /\ local' = local /\ leaderUp' = leaderUp /\ nodeUp' = nodeUp
      /\ breaks' = breaks /\ Tell("tool", h)
  BY DEF HandleExecuteTool, Handled, leaderVars, nodeVars, linkVars
<1>3. rw[h].pc # "unused" /\ rw[h].sid \in Sessions
  <2>1. [kind |-> "tool", by |-> h].by = h /\ [kind |-> "tool", by |-> h] \in toNode
    BY <1>2 DEF Handling
  <2> QED BY <1>1, <2>1 DEF AttemptInv, Unmade
<1>4. rw' = [rw EXCEPT ![h] = rw[h]]
  BY <1>1, <1>2
<1> DEFINE m == [kind |-> "tool", sid |-> rw[h].sid, by |-> h]
<1>5. m \in Answers /\ \A g \in Handles : g # h => ~Tool(m, g)
  BY <1>3 DEF Answers, Tool
<1>6. toLeader' = toLeader \/ toLeader' = Append(toLeader, m)
  BY <1>2 DEF Tell
<1> HIDE DEF m
<1>7. /\ toLeader' \in Seq(Answers)
      /\ \A g \in Handles : g # h => /\ NoTool(toLeader, g) => NoTool(toLeader', g)
                                     /\ OneTool(toLeader, g) => OneTool(toLeader', g)
  <2>1. CASE toLeader' = toLeader
    BY <1>1, <2>1
  <2>2. CASE toLeader' = Append(toLeader, m)
    <3>1. toLeader' \in Seq(Answers)
      BY <1>1, <1>5, <2>2
    <3>2. ASSUME NEW g \in Handles, g # h
          PROVE  /\ NoTool(toLeader, g) => NoTool(Append(toLeader, m), g)
                 /\ OneTool(toLeader, g) => OneTool(Append(toLeader, m), g)
      BY <1>1, <1>5, <3>2, StreamTools
    <3> QED BY <2>2, <3>1, <3>2
  <2> QED BY <1>6, <2>1, <2>2
<1>8. NoTool(toLeader, h) /\ rw[h].got = 0 /\ rw[h].call # "none" /\ OneTool(toLeader, h)
  BY <1>1, <1>2 DEF ToolOnce
<1>9. OneTool(toLeader', h)
  BY <1>1, <1>5, <1>6, <1>8, StreamTools
<1>10. ~Handling("tool", h)'
  BY <1>2 DEF Handling
<1>11. ToolOnce(h)'
  BY <1>2, <1>8, <1>9, <1>10 DEF ToolOnce
<1>12. /\ toNode' \subseteq Commands
       /\ \A c \in toNode' : c \in toNode \/ c = [kind |-> "tool", by |-> h]
  BY <1>1, <1>2
<1> DEFINE r == rw[h]
<1>13. /\ r \in Attempts /\ rw' = [rw EXCEPT ![h] = r] /\ r.pc = rw[h].pc /\ r.sid = rw[h].sid
       /\ r.spawned = rw[h].spawned /\ r.got <= 1
  BY <1>1, <1>4, <1>8
<1> HIDE DEF r
<1> QED BY <1>2, <1>3, <1>7, <1>11, <1>12, <1>13, RemoteInvTools

LEMMA RemoteInvResult == ASSUME RemoteInv, OnToolResult PROVE RemoteInv'
<1> USE RemoteAssumption
<1>1. /\ RemoteTypeOK /\ rw \in [Handles -> Attempts] /\ toNode \subseteq Commands
      /\ toLeader \in Seq(Answers) /\ workers \in [Sessions -> Handles \cup {NoHandle}]
      /\ \A g \in Handles : AttemptInv(g) /\ ToolOnce(g)
  BY DEF RemoteInv, RemoteTypeOK
<1>2. /\ toLeader # <<>> /\ Head(toLeader).kind = "tool" /\ toLeader' = Tail(toLeader)
      /\ workers' = workers /\ spawnChans' = spawnChans /\ removing' = removing /\ proc' = proc
      /\ local' = local /\ leaderUp' = leaderUp /\ nodeUp' = nodeUp /\ breaks' = breaks
      /\ toNode' = toNode
  BY DEF OnToolResult, Arrived, nodeVars, linkVars
<1>3. PICK m \in Answers : m = Head(toLeader)
  BY <1>1, <1>2
<1>4. PICK h \in Handles \cup {NoHandle} : h = workers[m.sid]
  BY <1>1, <1>3 DEF Answers
<1>5. rw' = IF h = m.by /\ h # NoHandle /\ rw[h].call = "waiting"
            THEN [rw EXCEPT ![h].got = rw[h].got + 1] ELSE rw
  BY <1>3, <1>4 DEF OnToolResult
<1>6. CASE h = m.by /\ h # NoHandle /\ rw[h].call = "waiting"
  <2> DEFINE r == [rw[h] EXCEPT !.got = rw[h].got + 1]
  <2>1. h \in Handles /\ rw[h] \in Attempts /\ ToolOnce(h) /\ AttemptInv(h)
    BY <1>1, <1>6
  <2>2. Tool(Head(toLeader), h)
    BY <1>2, <1>3, <1>6 DEF Tool
  <2>3. OneTool(toLeader, h) /\ ~NoTool(toLeader, h) /\ NoTool(toLeader', h) /\ OneTool(toLeader', h)
    BY <1>1, <1>2, <2>1, <2>2, StreamTail DEF ToolOnce
  <2>4. rw[h].got = 0 /\ ~Handling("tool", h)
    <3>1. rw[h].got \in 0..2
      BY <2>1 DEF Attempts
    <3> QED BY <2>1, <2>3, <3>1 DEF ToolOnce
  <2>5. rw[h].got + 1 = 1
    BY <2>4
  <2>6. /\ r \in Attempts /\ r.pc = rw[h].pc /\ r.sid = rw[h].sid /\ r.spawned = rw[h].spawned
        /\ r.got = 1 /\ r.call = rw[h].call
    BY <2>1, <2>5 DEF Attempts
  <2>7. rw' = [rw EXCEPT ![h] = r]
    BY <1>1, <1>5, <1>6
  <2> HIDE DEF r
  <2>8. rw'[h] = r
    BY <1>1, <2>1, <2>6, <2>7
  <2>9. Handling("tool", h)' = Handling("tool", h)
    BY <1>2 DEF Handling
  <2>10. ToolOnce(h)'
    BY <1>6, <2>3, <2>4, <2>6, <2>8, <2>9 DEF ToolOnce
  <2>11. \A g \in Handles : /\ NoTool(toLeader, g) => NoTool(toLeader', g)
                            /\ OneTool(toLeader, g) => OneTool(toLeader', g)
    BY <1>1, <1>2, StreamTail
  <2>12. rw[h].pc # "unused" /\ r.got <= 1
    BY <1>6, <2>1, <2>6 DEF AttemptInv, Unmade
  <2>13. toLeader' \in Seq(Answers) /\ toNode' \subseteq Commands
    BY <1>1, <1>2
  <2> QED BY <1>2, <2>1, <2>6, <2>7, <2>10, <2>11, <2>12, <2>13, RemoteInvTools
<1>7. CASE ~(h = m.by /\ h # NoHandle /\ rw[h].call = "waiting")
  <2>1. rw' = rw
    BY <1>5, <1>7
  <2>2. toLeader' \in Seq(Answers) /\ NoToolAnswer
    BY <1>1, <1>2, Taken
  <2>3. RemoteTypeOK'
    BY <1>1, <1>2, <2>1, <2>2 DEF RemoteTypeOK
  <2>4. FewerEntries /\ NoToolCommand /\ NoNewProc /\ \A g \in Handles : SameAttempt(rw[g], rw'[g])
    BY <1>2, <2>1, NothingNew, SameUnmoved
  <2> QED BY <2>2, <2>3, <2>4, RemoteFrame
<1> QED BY <1>6, <1>7

\* The first answer to an attempt takes its channel out of the map.
LEMMA RemoteInvSpawned == ASSUME RemoteInv, OnSpawnResult PROVE RemoteInv'
<1> USE RemoteAssumption
<1>1. /\ RemoteTypeOK /\ ChannelsInv /\ rw \in [Handles -> Attempts]
      /\ toLeader \in Seq(Answers) /\ workers \in [Sessions -> Handles \cup {NoHandle}]
      /\ spawnChans \in [Sessions -> Handles \cup {NoHandle}]
      /\ \A g \in Handles : AttemptInv(g) /\ ToolOnce(g)
  BY DEF RemoteInv, RemoteTypeOK
<1>2. /\ toLeader # <<>> /\ toLeader' = Tail(toLeader)
      /\ workers' = workers /\ removing' = removing /\ proc' = proc
      /\ local' = local /\ leaderUp' = leaderUp /\ nodeUp' = nodeUp /\ breaks' = breaks
      /\ toNode' = toNode
  BY DEF OnSpawnResult, Arrived, nodeVars, linkVars
<1>3. PICK m \in Answers : m = Head(toLeader)
  BY <1>1, <1>2
<1>4. PICK x \in Sessions : x = m.sid
  BY DEF Answers
<1>5. PICK h \in Handles \cup {NoHandle} : h = spawnChans[x]
  BY <1>1
<1>6. /\ rw' = IF h = NoHandle THEN rw
               ELSE [rw EXCEPT ![h].spawned = rw[h].spawned + 1, ![h].error = (m.kind = "failed")]
      /\ spawnChans' = Forget(spawnChans, x)
  BY <1>1, <1>3, <1>4, <1>5 DEF OnSpawnResult
<1>7. toLeader' \in Seq(Answers) /\ NoToolAnswer
  BY <1>1, <1>2, Taken
<1>8. spawnChans' \in [Sessions -> Handles \cup {NoHandle}] /\ FewerEntries
  BY <1>1, <1>2, <1>6, Forgotten DEF FewerEntries
<1>9. NoToolCommand /\ NoNewProc
  BY <1>2, NothingNew
<1>10. CASE h = NoHandle
  <2>1. RemoteTypeOK'
    BY <1>1, <1>2, <1>6, <1>7, <1>8, <1>10 DEF RemoteTypeOK
  <2>2. \A g \in Handles : SameAttempt(rw[g], rw'[g])
    BY <1>6, <1>10, SameUnmoved
  <2> QED BY <1>7, <1>8, <1>9, <2>1, <2>2, RemoteFrame
<1>11. CASE h # NoHandle
  <2> DEFINE e == (m.kind = "failed")
             r == [[rw[h] EXCEPT !.spawned = rw[h].spawned + 1] EXCEPT !.error = e]
  <2>1. h \in Handles /\ rw[h] \in Attempts /\ rw[h].spawned = 0 /\ rw[h].pc # "unused"
        /\ rw[h].sid = x
    BY <1>1, <1>5, <1>11 DEF ChannelsInv
  <2>2. rw' = [rw EXCEPT ![h] = r]
    BY <1>1, <1>6, <1>11, <2>1
  <2>3. e \in BOOLEAN
    OBVIOUS
  <2> HIDE DEF e
  <2>4. rw[h].spawned + 1 = 1
    BY <2>1
  <2>5. /\ r \in Attempts /\ r.pc = rw[h].pc /\ r.sid = rw[h].sid /\ r.spawned = 1
        /\ r.got = rw[h].got /\ r.call = rw[h].call
    <3> DEFINE a == [rw[h] EXCEPT !.spawned = 1]
    <3>1. 1 \in 0..2
      OBVIOUS
    <3>2. /\ a \in Attempts /\ a.pc = rw[h].pc /\ a.sid = rw[h].sid /\ a.spawned = 1
          /\ a.got = rw[h].got /\ a.call = rw[h].call
      BY <2>1, <3>1 DEF Attempts
    <3> HIDE DEF a
    <3>3. /\ [a EXCEPT !.error = e] \in Attempts /\ [a EXCEPT !.error = e].pc = a.pc
          /\ [a EXCEPT !.error = e].sid = a.sid /\ [a EXCEPT !.error = e].spawned = a.spawned
          /\ [a EXCEPT !.error = e].got = a.got /\ [a EXCEPT !.error = e].call = a.call
      BY <2>3, <3>2 DEF Attempts
    <3>4. r = [a EXCEPT !.error = e]
      BY <2>4 DEF a
    <3> HIDE DEF r
    <3> QED BY <3>2, <3>3, <3>4
  <2> HIDE DEF r
  <2>6. /\ rw' \in [Handles -> Attempts] /\ rw'[h] = r
        /\ \A g \in Handles : g # h => rw'[g] = rw[g]
    BY <1>1, <2>1, <2>2, <2>5
  <2>7. RemoteTypeOK'
    BY <1>1, <1>2, <1>7, <1>8, <2>6 DEF RemoteTypeOK
  <2>8. ASSUME NEW g \in Handles PROVE AttemptInv(g)'
    <3>1. CASE g = h
      BY <1>1, <2>1, <2>5, <2>6, <3>1 DEF AttemptInv
    <3>2. CASE g # h
      <4>1. rw'[g] = rw[g] /\ AttemptInv(g)
        BY <1>1, <2>6, <3>2
      <4> QED BY <1>2, <4>1 DEF AttemptInv, Unmade
    <3> QED BY <3>1, <3>2
  <2>9. ChannelsInv'
    <3> SUFFICES ASSUME NEW y \in Sessions
                 PROVE  /\ workers'[y] # NoHandle => rw'[workers'[y]].pc # "unused"
                        /\ spawnChans'[y] # NoHandle =>
                             /\ rw'[spawnChans'[y]].pc # "unused"
                             /\ rw'[spawnChans'[y]].sid = y /\ rw'[spawnChans'[y]].spawned = 0
      BY DEF ChannelsInv
    <3>1. workers[y] \in Handles \cup {NoHandle} /\ spawnChans[y] \in Handles \cup {NoHandle}
      BY <1>1
    <3>2. \A g \in Handles : rw'[g].pc = rw[g].pc
      BY <2>5, <2>6
    <3>3. workers'[y] # NoHandle => rw'[workers'[y]].pc # "unused"
      BY <1>1, <1>2, <3>1, <3>2 DEF ChannelsInv
    <3>4. CASE y = x
      <4>1. spawnChans'[y] = NoHandle
        BY <1>1, <1>6, <3>4 DEF Forget
      <4> QED BY <3>3, <4>1
    <3>5. CASE y # x
      <4>1. spawnChans'[y] = spawnChans[y]
        BY <1>1, <1>6, <3>5 DEF Forget
      <4>2. spawnChans[y] # NoHandle => spawnChans[y] # h /\ rw'[spawnChans[y]] = rw[spawnChans[y]]
        BY <1>1, <2>1, <2>6, <3>1, <3>5 DEF ChannelsInv
      <4> QED BY <1>1, <3>3, <4>1, <4>2 DEF ChannelsInv
    <3> QED BY <3>4, <3>5
  <2>10. ASSUME NEW g \in Handles PROVE ToolOnce(g)'
    <3>1. ToolOnce(g) /\ rw'[g].call = rw[g].call /\ rw'[g].got = rw[g].got
      BY <1>1, <2>5, <2>6
    <3>2. Handling("tool", g)' = Handling("tool", g)
      BY <1>2 DEF Handling
    <3>3. /\ NoTool(toLeader, g) => NoTool(toLeader', g)
          /\ OneTool(toLeader, g) => OneTool(toLeader', g)
      BY <1>7 DEF NoToolAnswer
    <3> QED BY <3>1, <3>2, <3>3 DEF ToolOnce
  <2> QED BY <2>7, <2>8, <2>9, <2>10 DEF RemoteInv
<1> QED BY <1>10, <1>11

LEMMA RemoteInvInit == RemoteInit => RemoteInv
<1> SUFFICES ASSUME RemoteInit PROVE RemoteInv
  OBVIOUS
<1> USE RemoteAssumption
<1> DEFINE r == [pc |-> "unused", sid |-> NoSession, closed |-> FALSE,
                 spawned |-> 0, error |-> FALSE, call |-> "none", got |-> 0]
<1>1. r \in Attempts /\ r.pc = "unused" /\ r.sid = NoSession /\ r.spawned = 0 /\ r.call = "none"
      /\ r.got = 0
  BY DEF Attempts, AttemptPcs
<1>2. rw = [h \in Handles |-> r]
  BY DEF RemoteInit
<1> HIDE DEF r
<1>3. rw \in [Handles -> Attempts] /\ \A h \in Handles : rw[h] = r
  BY <1>1, <1>2
<1>4. <<>> \in Seq(Answers) /\ toLeader = <<>> /\ DOMAIN <<>> = {}
  BY DEF RemoteInit
<1>5. RemoteTypeOK
  <2>1. /\ workers \in [Sessions -> Handles \cup {NoHandle}]
        /\ spawnChans \in [Sessions -> Handles \cup {NoHandle}]
        /\ local \in [Sessions -> Handles \cup {NoHandle}]
        /\ removing \in Sessions \cup {NoSession} /\ toNode \subseteq Commands
    BY DEF RemoteInit
  <2>2. proc \in [Handles -> {"none", "up", "stopping", "exited", "reaped"}]
    BY DEF RemoteInit
  <2>3. leaderUp \in BOOLEAN /\ nodeUp \in BOOLEAN
    BY DEF RemoteInit
  <2>4. breaks \in 0..MaxBreaks
    BY DEF RemoteInit
  <2> QED BY <1>3, <1>4, <2>1, <2>2, <2>3, <2>4 DEF RemoteTypeOK
<1>6. ASSUME NEW h \in Handles PROVE AttemptInv(h)
  <2>1. /\ rw[h].pc = "unused" /\ rw[h].sid = NoSession /\ rw[h].spawned = 0
        /\ rw[h].call = "none" /\ rw[h].got = 0
    BY <1>1, <1>3
  <2>2. proc[h] = "none" /\ \A c \in toNode : c.by # h
    BY DEF RemoteInit
  <2> QED BY <2>1, <2>2 DEF AttemptInv, Unmade
<1>7. ChannelsInv
  BY DEF RemoteInit, ChannelsInv
<1>8. \A h \in Handles : ToolOnce(h)
  BY <1>1, <1>3, <1>4 DEF RemoteInit, ToolOnce, OneTool, NoTool, Handling
<1> QED BY <1>5, <1>6, <1>7, <1>8 DEF RemoteInv

LEMMA RemoteInvNext == RemoteInv /\ [RemoteNext]_RemoteVars => RemoteInv'
<1> SUFFICES ASSUME RemoteInv, [RemoteNext]_RemoteVars PROVE RemoteInv'
  OBVIOUS
<1>1. CASE RemoteNext
  BY <1>1, RemoteInvHandles, RemoteInvKill, RemoteInvNode, RemoteInvExited, RemoteInvSpawn,
     RemoteInvAsk, RemoteInvAnswer, RemoteInvResult, RemoteInvSpawned DEF RemoteNext
<1>2. CASE UNCHANGED RemoteVars
  <2>1. RemoteTypeOK'
    BY <1>2 DEF RemoteInv, RemoteTypeOK, RemoteVars
  <2>2. /\ rw' = rw /\ workers' = workers /\ spawnChans' = spawnChans /\ toNode' = toNode
        /\ toLeader' = toLeader /\ proc' = proc
    BY <1>2 DEF RemoteVars
  <2> QED BY <2>1, <2>2, NothingNew, SameUnmoved, RemoteFrame
<1> QED BY <1>1, <1>2

\* The attempts, maps, messages and processes keep their types.
THEOREM RemoteTypeCorrect == RemoteSpec => []RemoteTypeOK
<1>1. RemoteInv => RemoteTypeOK
  BY DEF RemoteInv
<1> QED BY <1>1, RemoteInvInit, RemoteInvNext, PTL DEF RemoteSpec

\* No answer finds a full channel, so the leader's read loop never blocks on
\* one (leader_service.go, OnSpawnResult; remote_worker.go, DeliverToolResult).
THEOREM AnswersAlwaysFit == RemoteSpec => []AnswersFit
<1>1. RemoteInv => AnswersFit
  BY DEF RemoteInv, AttemptInv, AnswersFit
<1> QED BY <1>1, RemoteInvInit, RemoteInvNext, PTL DEF RemoteSpec

-----------------------------------------------------------------------------
(***************************************************************************)
(* File synchronisation.  Every batch a site sends is paid for by an edit  *)
(* made there: an event of a write that came by sync is in a queue only    *)
(* while the path is marked, and a marked path puts nothing in a batch.    *)
(***************************************************************************)
EditsIn(q) == {i \in DOMAIN q : q[i].by = "edit"}
Pending(b) == IF b = "none" THEN 0 ELSE 1

\* What a site may still send is covered by the edits it has not sent yet.
Covered(s) == Cardinality(EditsIn(events[s])) + Pending(batch[s]) <= due[s]
EchoMarked(s) == \A i \in DOMAIN events[s] : events[s][i].by = "sync" => echo[s]
ApplyMarked(w) ==
    /\ applying[w].down # NoUpdate => echo[w]
    /\ applying[w].up # NoUpdate => echo[Leader]

SyncInv ==
    /\ SyncTypeOK
    /\ \A s \in Sites : Covered(s) /\ EchoMarked(s)
    /\ \A w \in Workers : ApplyMarked(w)

LEMMA EditsFinite ==
    ASSUME NEW q \in Seq(FSEvents)
    PROVE  IsFiniteSet(EditsIn(q)) /\ Cardinality(EditsIn(q)) \in Nat
<1>1. Len(q) \in Int /\ 1 \in Int /\ DOMAIN q = 1..Len(q)
  OBVIOUS
<1>2. IsFiniteSet(1..Len(q))
  BY <1>1, FS_Interval
<1>3. EditsIn(q) \in SUBSET (1..Len(q))
  BY <1>1 DEF EditsIn
<1>4. IsFiniteSet(EditsIn(q))
  BY <1>2, <1>3, FS_Subset
<1> QED BY <1>4, FS_CardinalityType

LEMMA EditsEmpty == Cardinality(EditsIn(<<>>)) = 0
<1>1. EditsIn(<<>>) = {}
  BY DEF EditsIn
<1> QED BY <1>1, FS_EmptySet

LEMMA EditsAppend ==
    ASSUME NEW q \in Seq(FSEvents), NEW e \in FSEvents
    PROVE  Cardinality(EditsIn(Append(q, e)))
             <= Cardinality(EditsIn(q)) + (IF e.by = "edit" THEN 1 ELSE 0)
<1>1. /\ DOMAIN q = 1..Len(q) /\ DOMAIN Append(q, e) = 1..(Len(q) + 1) /\ Len(q) \in Nat
      /\ \A i \in 1..Len(q) : Append(q, e)[i] = q[i]
      /\ Append(q, e)[Len(q) + 1] = e
  OBVIOUS
<1>2. Len(q) + 1 \notin EditsIn(q)
  BY <1>1 DEF EditsIn
<1>3. CASE e.by = "edit"
  <2>1. EditsIn(Append(q, e)) = EditsIn(q) \cup {Len(q) + 1}
    BY <1>1, <1>3 DEF EditsIn
  <2>2. IsFiniteSet(EditsIn(q)) /\ Cardinality(EditsIn(q)) \in Nat
    BY EditsFinite
  <2>3. Cardinality(EditsIn(q) \cup {Len(q) + 1}) = Cardinality(EditsIn(q)) + 1
    BY <1>2, <2>2, FS_AddElement
  <2> QED BY <1>3, <2>1, <2>2, <2>3
<1>4. CASE e.by # "edit"
  <2>1. EditsIn(Append(q, e)) = EditsIn(q)
    BY <1>1, <1>4 DEF EditsIn
  <2> QED BY <1>4, <2>1, EditsFinite
<1> QED BY <1>3, <1>4

LEMMA EditsTail ==
    ASSUME NEW q \in Seq(FSEvents), q # <<>>
    PROVE  /\ Tail(q) \in Seq(FSEvents) /\ Head(q) \in FSEvents
           /\ Cardinality(EditsIn(Tail(q))) + (IF Head(q).by = "edit" THEN 1 ELSE 0)
                <= Cardinality(EditsIn(q))
<1>1. /\ DOMAIN q = 1..Len(q) /\ Len(q) \in Nat \ {0} /\ Head(q) = q[1]
      /\ Tail(q) \in Seq(FSEvents) /\ DOMAIN Tail(q) = 1..(Len(q) - 1)
      /\ \A i \in 1..(Len(q) - 1) : Tail(q)[i] = q[i + 1]
  OBVIOUS
<1>2. Head(q) \in FSEvents
  OBVIOUS
<1> DEFINE T == EditsIn(Tail(q))
           R == EditsIn(q) \ {1}
           f == [i \in T |-> i + 1]
<1>3. \A i \in T : i \in Int /\ i + 1 \in R
  BY <1>1 DEF EditsIn
<1>4. f \in [T -> R] /\ \A a, b \in T : f[a] = f[b] => a = b
  BY <1>3
<1>5. f \in Injection(T, R)
  BY <1>4 DEF Injection, IsInjective
<1>6. IsFiniteSet(EditsIn(q)) /\ Cardinality(EditsIn(q)) \in Nat
  BY EditsFinite
<1>7. IsFiniteSet(R) /\ Cardinality(R) = IF 1 \in EditsIn(q) THEN Cardinality(EditsIn(q)) - 1
                                         ELSE Cardinality(EditsIn(q))
  BY <1>6, FS_RemoveElement
<1> HIDE DEF f, R, T
<1>8. Cardinality(T) <= Cardinality(R)
  BY <1>5, <1>7, FS_Injection
<1>9. 1 \in EditsIn(q) <=> Head(q).by = "edit"
  BY <1>1 DEF EditsIn
<1>10. Cardinality(T) \in Nat
  BY <1>1, EditsFinite DEF T
<1> QED BY <1>1, <1>2, <1>6, <1>7, <1>8, <1>9, <1>10 DEF T

\* A watcher's event queue after a change.
LEMMA Noticed ==
    ASSUME SyncTypeOK, NEW s \in Sites, NEW by \in {"edit", "sync"}, NEW gone \in BOOLEAN
    PROVE  LET e == [by |-> by, gone |-> gone]
               evs == Notice(events, s, by, gone)
           IN  /\ evs \in [Sites -> Seq(FSEvents)] /\ e \in FSEvents /\ e.by = by
               /\ evs[s] = events[s] \/ evs[s] = Append(events[s], e)
               /\ \A t \in Sites : t # s => evs[t] = events[t]
<1> DEFINE e == [by |-> by, gone |-> gone]
<1>1. e \in FSEvents /\ e.by = by
  BY DEF FSEvents
<1> HIDE DEF e
<1>2. events \in [Sites -> Seq(FSEvents)] /\ events[s] \in Seq(FSEvents)
  BY DEF SyncTypeOK
<1>3. Notice(events, s, by, gone) = events \/ Notice(events, s, by, gone) = [events EXCEPT ![s] = Append(events[s], e)]
  BY DEF Notice, e
<1>4. Append(events[s], e) \in Seq(FSEvents)
  BY <1>1, <1>2
<1> QED BY <1>1, <1>2, <1>3, <1>4 DEF e

LEMMA BroadcastType ==
    ASSUME NEW q \in [Workers -> Seq(Changes)], NEW u \in Changes, NEW nodes
    PROVE  Broadcast(q, nodes, u) \in [Workers -> Seq(Changes)]
<1>1. \A w \in Workers : q[w] \in Seq(Changes) /\ Append(q[w], u) \in Seq(Changes)
  OBVIOUS
<1> QED BY <1>1 DEF Broadcast

LEMMA CurrentType ==
    ASSUME SyncTypeOK, NEW s \in Sites
    PROVE  Current(s) \in Changes
<1>1. file[s] \in Files
  BY DEF SyncTypeOK
<1>2. file[s].v \in Versions /\ file[s].mtime \in Times /\ 0 \in Versions /\ 0 \in Times
  BY <1>1, SyncAssumption DEF Files, Versions, Times
<1> QED BY <1>2 DEF Current, Changes

\* The queues, batches and marks of the sites other than s are as they were.
LEMMA SyncSite ==
    ASSUME SyncInv, SyncTypeOK', NEW s \in Sites,
           \A t \in Sites : t # s => /\ events'[t] = events[t] /\ batch'[t] = batch[t]
                                     /\ due'[t] = due[t] /\ echo'[t] = echo[t],
           Covered(s)', EchoMarked(s)', \A w \in Workers : ApplyMarked(w)'
    PROVE  SyncInv'
<1>1. ASSUME NEW t \in Sites PROVE Covered(t)' /\ EchoMarked(t)'
  <2>1. CASE t = s
    BY <2>1
  <2>2. CASE t # s
    BY <2>2 DEF SyncInv, Covered, EchoMarked
  <2> QED BY <2>1, <2>2
<1> QED BY <1>1 DEF SyncInv

\* Steps that touch no queue, batch, mark or count.
LEMMA SyncFrame ==
    ASSUME SyncInv, SyncTypeOK', events' = events, batch' = batch, due' = due, echo' = echo,
           applying' = applying
    PROVE  SyncInv'
BY DEF SyncInv, Covered, EchoMarked, ApplyMarked

LEMMA SyncInvEdit == ASSUME SyncInv, NEW s \in Sites, Edit(s) PROVE SyncInv'
<1> USE SyncAssumption
<1>1. /\ SyncTypeOK /\ file \in [Sites -> Files] /\ edits \in 0..MaxEvents /\ leaves \in 0..MaxEvents
      /\ due \in [Sites -> Int] /\ events \in [Sites -> Seq(FSEvents)] /\ events[s] \in Seq(FSEvents)
      /\ Covered(s) /\ EchoMarked(s) /\ \A w \in Workers : ApplyMarked(w)
  BY DEF SyncInv, SyncTypeOK
<1>2. /\ edits + leaves < MaxEvents /\ edits' = edits + 1 /\ due' = [due EXCEPT ![s] = due[s] + 1]
      /\ received' = received /\ echo' = echo /\ batch' = batch /\ aside' = aside /\ link' = link
      /\ watching' = watching /\ up' = up /\ down' = down /\ applying' = applying /\ leaves' = leaves
  BY DEF Edit
<1>3. PICK v \in {edits + 1, 0} :
         /\ file' = [file EXCEPT ![s] = [v |-> v, mtime |-> 2 * (edits + 1)]]
         /\ events' = Notice(events, s, "edit", v = 0)
  BY DEF Edit
<1> DEFINE gone == (v = 0)
<1>4. gone \in BOOLEAN /\ events' = Notice(events, s, "edit", gone)
  BY <1>3
<1> HIDE DEF gone
<1> DEFINE e == [by |-> "edit", gone |-> gone]
<1>5. /\ events' \in [Sites -> Seq(FSEvents)] /\ e \in FSEvents /\ e.by = "edit"
      /\ events'[s] = events[s] \/ events'[s] = Append(events[s], e)
      /\ \A t \in Sites : t # s => events'[t] = events[t]
  BY <1>1, <1>4, Noticed
<1> HIDE DEF e
<1>6. /\ edits + 1 \in 0..MaxEvents /\ v \in Versions /\ 2 * (edits + 1) \in Times
  BY <1>1, <1>2, <1>3 DEF Versions, Times
<1>7. [v |-> v, mtime |-> 2 * (edits + 1)] \in Files
  BY <1>6 DEF Files
<1>8. file' \in [Sites -> Files]
  BY <1>1, <1>3, <1>7
<1>9. due' \in [Sites -> Int] /\ due'[s] = due[s] + 1 /\ \A t \in Sites : t # s => due'[t] = due[t]
  BY <1>1, <1>2
<1>10. SyncTypeOK'
  BY <1>1, <1>2, <1>5, <1>6, <1>8, <1>9 DEF SyncTypeOK
<1>11. Covered(s)'
  <2>1. /\ Cardinality(EditsIn(events[s])) \in Nat /\ Cardinality(EditsIn(events[s]))' \in Nat
        /\ Cardinality(EditsIn(events[s]))' <= Cardinality(EditsIn(events[s])) + 1
    <3>1. events'[s] \in Seq(FSEvents)
      BY <1>5
    <3>2. Cardinality(EditsIn(events[s])) \in Nat /\ Cardinality(EditsIn(events'[s])) \in Nat
      BY <1>1, <3>1, EditsFinite
    <3>3. CASE events'[s] = events[s]
      BY <3>2, <3>3
    <3>4. CASE events'[s] = Append(events[s], e)
      BY <1>1, <1>5, <3>2, <3>4, EditsAppend
    <3> QED BY <1>5, <3>2, <3>3, <3>4
  <2>2. Pending(batch[s])' = Pending(batch[s]) /\ Pending(batch[s]) \in Int /\ due[s] \in Int
    BY <1>1, <1>2 DEF Pending
  <2> QED BY <1>1, <1>9, <2>1, <2>2 DEF Covered
<1>12. EchoMarked(s)'
  <2>1. CASE events'[s] = events[s]
    BY <1>1, <1>2, <2>1 DEF EchoMarked
  <2>2. CASE events'[s] = Append(events[s], e)
    <3>1. /\ DOMAIN events'[s] = 1..(Len(events[s]) + 1) /\ DOMAIN events[s] = 1..Len(events[s])
          /\ Len(events[s]) \in Nat /\ events'[s][Len(events[s]) + 1] = e
          /\ \A k \in 1..Len(events[s]) : events'[s][k] = events[s][k]
      BY <1>1, <1>5, <2>2
    <3>2. \A k \in DOMAIN events'[s] : k \in DOMAIN events[s] \/ events'[s][k] = e
      BY <3>1
    <3> QED BY <1>1, <1>2, <1>5, <3>1, <3>2 DEF EchoMarked
  <2> QED BY <1>5, <2>1, <2>2
<1>13. \A w \in Workers : ApplyMarked(w)'
  BY <1>1, <1>2 DEF ApplyMarked
<1> QED BY <1>2, <1>5, <1>9, <1>10, <1>11, <1>12, <1>13, SyncSite

LEMMA SyncInvEvent == ASSUME SyncInv, NEW s \in Sites, HandleFSEvent(s) PROVE SyncInv'
<1>1. /\ SyncTypeOK /\ events \in [Sites -> Seq(FSEvents)] /\ events[s] \in Seq(FSEvents)
      /\ batch \in [Sites -> {"none", "write", "delete"}] /\ due[s] \in Int
      /\ Covered(s) /\ EchoMarked(s) /\ \A w \in Workers : ApplyMarked(w)
  BY DEF SyncInv, SyncTypeOK
<1>2. /\ events[s] # <<>> /\ events' = [events EXCEPT ![s] = Tail(events[s])]
      /\ file' = file /\ received' = received /\ echo' = echo /\ aside' = aside /\ link' = link
      /\ watching' = watching /\ up' = up /\ down' = down /\ applying' = applying
      /\ edits' = edits /\ due' = due /\ leaves' = leaves
  BY DEF HandleFSEvent
<1>3. PICK b \in {"write", "delete"} : batch' = IF echo[s] THEN batch ELSE [batch EXCEPT ![s] = b]
  BY DEF HandleFSEvent
<1>4. /\ Tail(events[s]) \in Seq(FSEvents) /\ Head(events[s]) \in FSEvents
      /\ Cardinality(EditsIn(Tail(events[s]))) + (IF Head(events[s]).by = "edit" THEN 1 ELSE 0)
           <= Cardinality(EditsIn(events[s]))
  BY <1>1, <1>2, EditsTail
<1>5. /\ Cardinality(EditsIn(Tail(events[s]))) \in Nat /\ Cardinality(EditsIn(events[s])) \in Nat
  BY <1>1, <1>4, EditsFinite
<1>6. /\ events' \in [Sites -> Seq(FSEvents)] /\ events'[s] = Tail(events[s])
      /\ batch' \in [Sites -> {"none", "write", "delete"}]
      /\ \A t \in Sites : t # s => events'[t] = events[t] /\ batch'[t] = batch[t]
  BY <1>1, <1>2, <1>3, <1>4
<1>7. SyncTypeOK'
  BY <1>1, <1>2, <1>6 DEF SyncTypeOK
<1>8. Covered(s)'
  <2>1. CASE echo[s]
    <3>1. batch'[s] = batch[s]
      BY <1>3, <2>1
    <3>2. Pending(batch[s]) \in Int
      BY DEF Pending
    <3> QED BY <1>1, <1>2, <1>4, <1>5, <1>6, <3>1, <3>2 DEF Covered
  <2>2. CASE ~echo[s]
    <3>1. Head(events[s]).by = "edit"
      <4>1. 1 \in DOMAIN events[s] /\ Head(events[s]) = events[s][1]
        BY <1>1, <1>2
      <4>2. Head(events[s]).by \in {"edit", "sync"}
        BY <1>4 DEF FSEvents
      <4> QED BY <1>1, <2>2, <4>1, <4>2 DEF EchoMarked
    <3>2. Pending(batch'[s]) <= 1 /\ Pending(batch[s]) >= 0
          /\ Pending(batch'[s]) \in Int /\ Pending(batch[s]) \in Int
      BY DEF Pending
    <3>3. Cardinality(EditsIn(Tail(events[s]))) + 1 <= Cardinality(EditsIn(events[s]))
      BY <1>4, <3>1
    <3> QED BY <1>1, <1>2, <1>5, <1>6, <3>2, <3>3 DEF Covered
  <2> QED BY <2>1, <2>2
<1>9. EchoMarked(s)'
  <2>1. /\ DOMAIN events[s] = 1..Len(events[s]) /\ DOMAIN events'[s] = 1..(Len(events[s]) - 1)
        /\ Len(events[s]) \in Nat /\ \A k \in 1..(Len(events[s]) - 1) : events'[s][k] = events[s][k + 1]
    BY <1>1, <1>2, <1>6
  <2>2. \A k \in 1..(Len(events[s]) - 1) : k + 1 \in 1..Len(events[s])
    BY <2>1
  <2> QED BY <1>1, <1>2, <2>1, <2>2 DEF EchoMarked
<1>10. \A w \in Workers : ApplyMarked(w)'
  BY <1>1, <1>2 DEF ApplyMarked
<1> QED BY <1>2, <1>6, <1>7, <1>8, <1>9, <1>10, SyncSite

\* The mark goes only when no event of a synced write is left.
LEMMA SyncInvExpires == ASSUME SyncInv, NEW s \in Sites, EchoExpires(s) PROVE SyncInv'
<1>1. /\ SyncTypeOK /\ echo \in [Sites -> BOOLEAN] /\ Covered(s) /\ EchoMarked(s)
      /\ \A w \in Workers : ApplyMarked(w)
  BY DEF SyncInv, SyncTypeOK
<1>2. /\ \A k \in DOMAIN events[s] : events[s][k].by # "sync"
      /\ \A w \in Workers : /\ s = w => applying[w].down = NoUpdate
                            /\ s = Leader => applying[w].up = NoUpdate
      /\ echo' = [echo EXCEPT ![s] = FALSE]
      /\ file' = file /\ received' = received /\ events' = events /\ batch' = batch /\ aside' = aside
      /\ link' = link /\ watching' = watching /\ up' = up /\ down' = down /\ applying' = applying
      /\ edits' = edits /\ due' = due /\ leaves' = leaves
  BY DEF EchoExpires
<1>3. echo' \in [Sites -> BOOLEAN] /\ \A t \in Sites : t # s => echo'[t] = echo[t]
  BY <1>1, <1>2
<1>4. SyncTypeOK'
  BY <1>1, <1>2, <1>3 DEF SyncTypeOK
<1>5. Covered(s)' /\ EchoMarked(s)'
  BY <1>1, <1>2 DEF Covered, EchoMarked
<1>6. ASSUME NEW w \in Workers PROVE ApplyMarked(w)'
  <2>1. w \in Sites /\ Leader \in Sites
    BY DEF Sites
  <2> QED BY <1>1, <1>2, <1>3, <2>1 DEF ApplyMarked
<1> QED BY <1>2, <1>3, <1>4, <1>5, <1>6, SyncSite

LEMMA SyncInvFlush == ASSUME SyncInv, NEW s \in Sites, FlushPending(s) PROVE SyncInv'
<1> USE SyncAssumption
<1>1. /\ SyncTypeOK /\ batch \in [Sites -> {"none", "write", "delete"}] /\ due \in [Sites -> Int]
      /\ Covered(s) /\ EchoMarked(s) /\ \A w \in Workers : ApplyMarked(w)
      /\ up \in [Workers -> Seq(Changes)] /\ down \in [Workers -> Seq(Changes)]
      /\ events[s] \in Seq(FSEvents)
  BY DEF SyncInv, SyncTypeOK
<1>2. /\ batch[s] # "none" /\ batch' = [batch EXCEPT ![s] = "none"]
      /\ due' = [due EXCEPT ![s] = due[s] - 1]
      /\ file' = file /\ received' = received /\ echo' = echo /\ events' = events /\ aside' = aside
      /\ link' = link /\ watching' = watching /\ applying' = applying
      /\ edits' = edits /\ leaves' = leaves
  BY DEF FlushPending
<1> DEFINE u == IF batch[s] = "delete" THEN [kind |-> "delete", v |-> 0, mtime |-> 0] ELSE Current(s)
<1>3. u \in Changes
  <2>1. [kind |-> "delete", v |-> 0, mtime |-> 0] \in Changes
    BY DEF Changes, Versions, Times
  <2> QED BY <1>1, <2>1, CurrentType
<1>4. \/ s = Leader /\ down' = Broadcast(down, Joined, u) /\ up' = up
      \/ s # Leader /\ down' = down /\ (up' = up \/ up' = [up EXCEPT ![s] = Append(up[s], u)])
  BY DEF FlushPending
<1> HIDE DEF u
<1>5. up' \in [Workers -> Seq(Changes)] /\ down' \in [Workers -> Seq(Changes)]
  <2>1. CASE s = Leader
    <3>1. Broadcast(down, Joined, u) \in [Workers -> Seq(Changes)]
      BY <1>1, <1>3, BroadcastType
    <3> QED BY <1>1, <1>4, <2>1, <3>1
  <2>2. CASE s # Leader
    <3>1. s \in Workers
      BY <2>2 DEF Sites
    <3>2. Append(up[s], u) \in Seq(Changes)
      BY <1>1, <1>3, <3>1
    <3> QED BY <1>1, <1>4, <2>2, <3>1, <3>2
  <2> QED BY <2>1, <2>2
<1>6. /\ batch' \in [Sites -> {"none", "write", "delete"}] /\ batch'[s] = "none"
      /\ due' \in [Sites -> Int] /\ due'[s] = due[s] - 1
      /\ \A t \in Sites : t # s => batch'[t] = batch[t] /\ due'[t] = due[t]
  BY <1>1, <1>2
<1>7. SyncTypeOK'
  BY <1>1, <1>2, <1>5, <1>6 DEF SyncTypeOK
<1>8. Covered(s)'
  <2>1. Pending(batch[s]) = 1 /\ Pending(batch'[s]) = 0
    BY <1>2, <1>6 DEF Pending
  <2>2. Cardinality(EditsIn(events[s])) \in Nat /\ due[s] \in Int
    BY <1>1, EditsFinite
  <2> QED BY <1>1, <1>2, <1>6, <2>1, <2>2 DEF Covered
<1>9. EchoMarked(s)' /\ \A w \in Workers : ApplyMarked(w)'
  BY <1>1, <1>2 DEF EchoMarked, ApplyMarked
<1> QED BY <1>2, <1>6, <1>7, <1>8, <1>9, SyncSite

\* Marking the path comes before the update is worked on.
LEMMA SyncInvReceive ==
    ASSUME SyncInv, NEW w \in Workers, ReceiveDown(w) \/ ReceiveUp(w)
    PROVE  SyncInv'
<1>1. /\ SyncTypeOK /\ echo \in [Sites -> BOOLEAN] /\ \A v \in Workers : ApplyMarked(v)
      /\ \A t \in Sites : Covered(t) /\ EchoMarked(t)
      /\ up \in [Workers -> Seq(Changes)] /\ down \in [Workers -> Seq(Changes)]
      /\ applying \in [Workers -> Ends] /\ applying[w] \in Ends
  BY DEF SyncInv, SyncTypeOK
<1>2. /\ file' = file /\ received' = received /\ events' = events /\ batch' = batch /\ aside' = aside
      /\ link' = link /\ watching' = watching /\ edits' = edits /\ due' = due /\ leaves' = leaves
  BY DEF ReceiveDown, ReceiveUp
<1>3. w \in Sites /\ Leader \in Sites
  BY DEF Sites
<1>4. ASSUME NEW s \in Sites, echo' = [echo EXCEPT ![s] = TRUE], applying' \in [Workers -> Ends],
             up' \in [Workers -> Seq(Changes)], down' \in [Workers -> Seq(Changes)],
             \A v \in Workers : ApplyMarked(v)'
      PROVE  SyncInv'
  <2>1. echo' \in [Sites -> BOOLEAN] /\ \A t \in Sites : echo[t] => echo'[t]
    BY <1>1, <1>4
  <2>2. \A t \in Sites : t # s => echo'[t] = echo[t]
    BY <1>1, <1>4
  <2>3. SyncTypeOK'
    BY <1>1, <1>2, <1>4, <2>1 DEF SyncTypeOK
  <2>4. Covered(s)' /\ EchoMarked(s)'
    BY <1>1, <1>2, <2>1 DEF Covered, EchoMarked
  <2> QED BY <1>2, <1>4, <2>2, <2>3, <2>4, SyncSite
<1>5. CASE ReceiveDown(w)
  <2> DEFINE u == Head(down[w])
             r == [applying[w] EXCEPT !.down = u]
  <2>1. /\ down[w] # <<>> /\ down' = [down EXCEPT ![w] = Tail(down[w])] /\ up' = up
        /\ echo' = [echo EXCEPT ![w] = TRUE] /\ applying' = [applying EXCEPT ![w].down = u]
    BY <1>5 DEF ReceiveDown, Suppress
  <2>2. u \in Updates /\ Tail(down[w]) \in Seq(Changes)
    BY <1>1, <2>1 DEF Updates
  <2>3. applying' = [applying EXCEPT ![w] = r]
    BY <1>1, <2>1
  <2> HIDE DEF u
  <2>4. r \in Ends /\ r.up = applying[w].up
    BY <1>1, <2>2 DEF Ends
  <2> HIDE DEF r
  <2>5. applying' \in [Workers -> Ends] /\ down' \in [Workers -> Seq(Changes)]
        /\ applying'[w] = r /\ \A v \in Workers : v # w => applying'[v] = applying[v]
    BY <1>1, <2>1, <2>2, <2>3, <2>4
  <2>6. echo'[w] /\ \A t \in Sites : echo[t] => echo'[t]
    BY <1>1, <1>3, <2>1
  <2>7. ASSUME NEW v \in Workers PROVE ApplyMarked(v)'
    <3>1. v \in Sites
      BY DEF Sites
    <3>2. CASE v = w
      BY <1>1, <1>3, <2>4, <2>5, <2>6, <3>2 DEF ApplyMarked
    <3>3. CASE v # w
      BY <1>1, <1>3, <2>5, <2>6, <3>1, <3>3 DEF ApplyMarked
    <3> QED BY <3>2, <3>3
  <2> QED BY <1>1, <1>3, <1>4, <2>1, <2>5, <2>7
<1>6. CASE ReceiveUp(w)
  <2> DEFINE u == Head(up[w])
             r == [applying[w] EXCEPT !.up = u]
  <2>1. /\ up[w] # <<>> /\ up' = [up EXCEPT ![w] = Tail(up[w])] /\ down' = down
        /\ echo' = [echo EXCEPT ![Leader] = TRUE] /\ applying' = [applying EXCEPT ![w].up = u]
    BY <1>6 DEF ReceiveUp, Suppress
  <2>2. u \in Updates /\ Tail(up[w]) \in Seq(Changes)
    BY <1>1, <2>1 DEF Updates
  <2>3. applying' = [applying EXCEPT ![w] = r]
    BY <1>1, <2>1
  <2> HIDE DEF u
  <2>4. r \in Ends /\ r.down = applying[w].down
    BY <1>1, <2>2 DEF Ends
  <2> HIDE DEF r
  <2>5. applying' \in [Workers -> Ends] /\ up' \in [Workers -> Seq(Changes)]
        /\ applying'[w] = r /\ \A v \in Workers : v # w => applying'[v] = applying[v]
    BY <1>1, <2>1, <2>2, <2>3, <2>4
  <2>6. echo'[Leader] /\ \A t \in Sites : echo[t] => echo'[t]
    BY <1>1, <1>3, <2>1
  <2>7. ASSUME NEW v \in Workers PROVE ApplyMarked(v)'
    <3>1. v \in Sites
      BY DEF Sites
    <3>2. CASE v = w
      BY <1>1, <1>3, <2>4, <2>5, <2>6, <3>2 DEF ApplyMarked
    <3>3. CASE v # w
      BY <1>1, <1>3, <2>5, <2>6, <3>1, <3>3 DEF ApplyMarked
    <3> QED BY <3>2, <3>3
  <2> QED BY <1>1, <1>3, <1>4, <2>1, <2>5, <2>7
<1> QED BY <1>5, <1>6

\* ApplyFileUpdate where the path is marked: at most one event, of a synced write.
LEMMA Applied ==
    ASSUME SyncInv, NEW s \in Sites, echo[s], NEW u \in Changes, ApplyFileUpdate(s, u),
           echo' = echo, batch' = batch, due' = due
    PROVE  /\ file' \in [Sites -> Files] /\ received' \in [Sites -> Times]
           /\ aside' \in [Sites -> SUBSET Versions] /\ events' \in [Sites -> Seq(FSEvents)]
           /\ \A t \in Sites : t # s => events'[t] = events[t]
           /\ Covered(s)' /\ EchoMarked(s)'
<1>1. /\ SyncTypeOK /\ file \in [Sites -> Files] /\ received \in [Sites -> Times]
      /\ aside \in [Sites -> SUBSET Versions] /\ events \in [Sites -> Seq(FSEvents)]
      /\ events[s] \in Seq(FSEvents) /\ due[s] \in Int /\ Covered(s) /\ EchoMarked(s)
      /\ file[s] \in Files
  BY DEF SyncInv, SyncTypeOK
<1>2. u.v \in Versions /\ u.mtime \in Times /\ 0 \in Versions
  BY SyncAssumption DEF Changes, Versions
<1>3. [file[s] EXCEPT !.v = 0] \in Files /\ [v |-> u.v, mtime |-> u.mtime] \in Files
  BY <1>1, <1>2 DEF Files
<1>4. file' \in [Sites -> Files]
  BY <1>1, <1>3 DEF ApplyFileUpdate
<1>5. received' \in [Sites -> Times] /\ aside' \in [Sites -> SUBSET Versions]
  <2>1. received' = received \/ received' = [received EXCEPT ![s] = u.mtime]
    BY DEF ApplyFileUpdate
  <2>2. aside' = aside \/ aside' = [aside EXCEPT ![s] = aside[s] \cup {u.v}]
    BY DEF ApplyFileUpdate
  <2>3. aside[s] \cup {u.v} \in SUBSET Versions
    BY <1>1, <1>2
  <2>4. received' \in [Sites -> Times]
    BY <1>1, <1>2, <2>1
  <2>5. aside' \in [Sites -> SUBSET Versions]
    BY <1>1, <2>2, <2>3
  <2> QED BY <2>4, <2>5
<1>6. \/ events' = events
      \/ \E g \in BOOLEAN : events' = Notice(events, s, "sync", g)
  BY DEF ApplyFileUpdate
<1>7. CASE events' = events
  BY <1>1, <1>4, <1>5, <1>7 DEF Covered, EchoMarked
<1>8. ASSUME NEW g \in BOOLEAN, events' = Notice(events, s, "sync", g)
      PROVE  /\ events' \in [Sites -> Seq(FSEvents)]
             /\ \A t \in Sites : t # s => events'[t] = events[t]
             /\ Covered(s)' /\ EchoMarked(s)'
  <2> DEFINE e == [by |-> "sync", gone |-> g]
  <2>1. /\ events' \in [Sites -> Seq(FSEvents)] /\ e \in FSEvents /\ e.by = "sync"
        /\ events'[s] = events[s] \/ events'[s] = Append(events[s], e)
        /\ \A t \in Sites : t # s => events'[t] = events[t]
    BY <1>1, <1>8, Noticed
  <2> HIDE DEF e
  <2>2. Cardinality(EditsIn(events'[s])) <= Cardinality(EditsIn(events[s]))
    <3>1. Cardinality(EditsIn(events[s])) \in Nat
      BY <1>1, EditsFinite
    <3>2. CASE events'[s] = events[s]
      BY <3>1, <3>2
    <3>3. CASE events'[s] = Append(events[s], e)
      <4>1. Cardinality(EditsIn(Append(events[s], e)))
              <= Cardinality(EditsIn(events[s])) + (IF e.by = "edit" THEN 1 ELSE 0)
        BY <1>1, <2>1, EditsAppend
      <4> QED BY <2>1, <3>1, <3>3, <4>1
    <3> QED BY <2>1, <3>2, <3>3
  <2>3. Covered(s)'
    <3>1. events'[s] \in Seq(FSEvents)
      BY <2>1
    <3>2. Cardinality(EditsIn(events'[s])) \in Nat /\ Cardinality(EditsIn(events[s])) \in Nat
      BY <1>1, <3>1, EditsFinite
    <3>3. Pending(batch[s]) \in Int
      BY DEF Pending
    <3> QED BY <1>1, <2>2, <3>2, <3>3 DEF Covered
  <2>4. EchoMarked(s)'
    BY DEF EchoMarked
  <2> QED BY <2>1, <2>3, <2>4
<1> QED BY <1>4, <1>5, <1>6, <1>7, <1>8

LEMMA SyncInvApply ==
    ASSUME SyncInv, NEW w \in Workers, ApplyDown(w) \/ ApplyUp(w)
    PROVE  SyncInv'
<1>1. /\ SyncTypeOK /\ \A v \in Workers : ApplyMarked(v)
      /\ down \in [Workers -> Seq(Changes)] /\ applying \in [Workers -> Ends] /\ applying[w] \in Ends
  BY DEF SyncInv, SyncTypeOK
<1>2. /\ echo' = echo /\ batch' = batch /\ link' = link /\ watching' = watching /\ up' = up
      /\ edits' = edits /\ due' = due /\ leaves' = leaves
  BY DEF ApplyDown, ApplyUp
<1>3. w \in Sites /\ Leader \in Sites
  BY DEF Sites
<1>4. applying[w].down \in Updates /\ applying[w].up \in Updates /\ NoUpdate \in Updates
      /\ NoUpdate.kind = "none"
  BY <1>1 DEF Ends, Updates, NoUpdate
<1>5. ASSUME NEW s \in Sites, echo[s], NEW u \in Changes, ApplyFileUpdate(s, u),
             down' \in [Workers -> Seq(Changes)], NEW r \in Ends, applying' = [applying EXCEPT ![w] = r],
             r.down # NoUpdate => applying[w].down # NoUpdate,
             r.up # NoUpdate => applying[w].up # NoUpdate
      PROVE  SyncInv'
  <2>1. /\ file' \in [Sites -> Files] /\ received' \in [Sites -> Times]
        /\ aside' \in [Sites -> SUBSET Versions] /\ events' \in [Sites -> Seq(FSEvents)]
        /\ \A t \in Sites : t # s => events'[t] = events[t]
        /\ Covered(s)' /\ EchoMarked(s)'
    BY <1>2, <1>5, Applied
  <2>2. applying' \in [Workers -> Ends] /\ applying'[w] = r
        /\ \A v \in Workers : v # w => applying'[v] = applying[v]
    BY <1>1, <1>5
  <2>3. SyncTypeOK'
    BY <1>1, <1>2, <1>5, <2>1, <2>2 DEF SyncTypeOK
  <2>4. ASSUME NEW v \in Workers PROVE ApplyMarked(v)'
    <3>1. CASE v = w
      BY <1>1, <1>2, <1>5, <2>2, <3>1 DEF ApplyMarked
    <3>2. CASE v # w
      BY <1>1, <1>2, <2>2, <3>2 DEF ApplyMarked
    <3> QED BY <3>1, <3>2
  <2> QED BY <1>2, <1>5, <2>1, <2>3, <2>4, SyncSite
<1>6. CASE ApplyDown(w)
  <2> DEFINE r == [applying[w] EXCEPT !.down = NoUpdate]
             u == applying[w].down
  <2>1. /\ u.kind \in {"write", "delete"} /\ ApplyFileUpdate(w, u) /\ down' = down
        /\ applying' = [applying EXCEPT ![w].down = NoUpdate]
    BY <1>6 DEF ApplyDown
  <2>2. u \in Changes /\ u # NoUpdate
    BY <1>4, <2>1 DEF Updates
  <2>3. echo[w]
    BY <1>1, <2>2 DEF ApplyMarked
  <2>4. r \in Ends /\ r.down = NoUpdate /\ r.up = applying[w].up
    BY <1>1, <1>4 DEF Ends
  <2>5. applying' = [applying EXCEPT ![w] = r]
    BY <1>1, <2>1
  <2> HIDE DEF r, u
  <2> QED BY <1>1, <1>3, <1>5, <2>1, <2>2, <2>3, <2>4, <2>5
<1>7. CASE ApplyUp(w)
  <2> DEFINE r == [applying[w] EXCEPT !.up = NoUpdate]
             u == applying[w].up
  <2>1. /\ u # NoUpdate /\ ApplyFileUpdate(Leader, u) /\ down' = Broadcast(down, Joined \ {w}, u)
        /\ applying' = [applying EXCEPT ![w].up = NoUpdate]
    BY <1>7 DEF ApplyUp
  <2>2. u \in Changes
    BY <1>4, <2>1 DEF Updates
  <2>3. echo[Leader]
    BY <1>1, <2>1 DEF ApplyMarked
  <2>4. r \in Ends /\ r.up = NoUpdate /\ r.down = applying[w].down
    BY <1>1, <1>4 DEF Ends
  <2>5. applying' = [applying EXCEPT ![w] = r]
    BY <1>1, <2>1
  <2> HIDE DEF r, u
  <2>6. Broadcast(down, Joined \ {w}, u) \in [Workers -> Seq(Changes)]
    BY <1>1, <2>2, BroadcastType
  <2> QED BY <1>1, <1>3, <1>5, <2>1, <2>2, <2>3, <2>4, <2>5, <2>6
<1> QED BY <1>6, <1>7

\* The worker's watcher starts with the archive.
LEMMA SyncInvArchive == ASSUME SyncInv, NEW w \in Workers, ApplyArchive(w) PROVE SyncInv'
<1> USE SyncAssumption
<1>1. /\ SyncTypeOK /\ \A v \in Workers : ApplyMarked(v) /\ \A t \in Sites : Covered(t) /\ EchoMarked(t)
      /\ applying \in [Workers -> Ends] /\ applying[w] \in Ends /\ edits \in 0..MaxEvents
      /\ file \in [Sites -> Files] /\ watching \in [Sites -> BOOLEAN]
  BY DEF SyncInv, SyncTypeOK
<1>2. /\ received' = received /\ echo' = echo /\ events' = events /\ batch' = batch /\ aside' = aside
      /\ link' = link /\ up' = up /\ down' = down /\ edits' = edits /\ due' = due /\ leaves' = leaves
      /\ applying[w].down.kind = "archive" /\ watching' = [watching EXCEPT ![w] = TRUE]
      /\ applying' = [applying EXCEPT ![w].down = NoUpdate]
  BY DEF ApplyArchive
<1> DEFINE f == [v |-> applying[w].down.v, mtime |-> 2 * edits + 1]
           r == [applying[w] EXCEPT !.down = NoUpdate]
<1>3. file' = file \/ file' = [file EXCEPT ![w] = f]
  BY DEF ApplyArchive
<1>4. applying[w].down \in Updates /\ NoUpdate.kind = "none" /\ NoUpdate \in Updates
  BY <1>1 DEF Ends, Updates, NoUpdate
<1>5. applying[w].down \in Changes
  BY <1>2, <1>4 DEF Updates
<1>6. f \in Files
  <2>1. applying[w].down.v \in Versions /\ 2 * edits + 1 \in Times
    BY <1>1, <1>5 DEF Changes, Times
  <2> QED BY <2>1 DEF Files
<1>7. r \in Ends /\ r.down = NoUpdate /\ r.up = applying[w].up
  BY <1>1, <1>4 DEF Ends
<1>8. applying' = [applying EXCEPT ![w] = r]
  BY <1>1, <1>2
<1> HIDE DEF f, r
<1>9. w \in Sites
  BY DEF Sites
<1>10. file' \in [Sites -> Files]
  BY <1>1, <1>3, <1>6
<1>11. applying' \in [Workers -> Ends] /\ applying'[w] = r
       /\ \A v \in Workers : v # w => applying'[v] = applying[v]
  BY <1>1, <1>7, <1>8
<1>12. watching' \in [Sites -> BOOLEAN]
  BY <1>1, <1>2
<1>13. SyncTypeOK'
  BY <1>1, <1>2, <1>10, <1>11, <1>12 DEF SyncTypeOK
<1>14. ASSUME NEW v \in Workers PROVE ApplyMarked(v)'
  <2>1. CASE v = w
    BY <1>1, <1>2, <1>7, <1>11, <2>1 DEF ApplyMarked
  <2>2. CASE v # w
    BY <1>1, <1>2, <1>11, <2>2 DEF ApplyMarked
  <2> QED BY <2>1, <2>2
<1>15. Covered(w)' /\ EchoMarked(w)'
  BY <1>1, <1>2, <1>9 DEF Covered, EchoMarked
<1> QED BY <1>2, <1>9, <1>13, <1>14, <1>15, SyncSite

LEMMA SyncInvLink ==
    ASSUME SyncInv, NEW w \in Workers, Join(w) \/ SendArchive(w) \/ Reconcile(w)
    PROVE  SyncInv'
<1> USE SyncAssumption
<1>1. /\ SyncTypeOK /\ down \in [Workers -> Seq(Changes)]
      /\ link \in [Workers -> {"off", "joined", "tar", "on"}] /\ file[Leader] \in Files
  BY DEF SyncInv, SyncTypeOK, Sites
<1>2. /\ file' = file /\ received' = received /\ echo' = echo /\ events' = events /\ batch' = batch
      /\ aside' = aside /\ watching' = watching /\ up' = up /\ applying' = applying
      /\ edits' = edits /\ due' = due /\ leaves' = leaves
  BY DEF Join, SendArchive, Reconcile
<1>3. link' \in [Workers -> {"off", "joined", "tar", "on"}]
  BY <1>1 DEF Join, SendArchive, Reconcile
<1> DEFINE a == [kind |-> "archive", v |-> file[Leader].v, mtime |-> 0]
<1>4. a \in Changes
  BY <1>1 DEF Changes, Files, Times
<1>5. \/ down' = down \/ down' = [down EXCEPT ![w] = Append(down[w], a)]
      \/ down' = Broadcast(down, Joined, Current(Leader))
  BY DEF Join, SendArchive, Reconcile
<1> HIDE DEF a
<1>6. Append(down[w], a) \in Seq(Changes)
  BY <1>1, <1>4
<1>7. Broadcast(down, Joined, Current(Leader)) \in [Workers -> Seq(Changes)]
  <2>1. Current(Leader) \in Changes
    BY <1>1, CurrentType DEF Sites
  <2> QED BY <1>1, <2>1, BroadcastType
<1>8. down' \in [Workers -> Seq(Changes)]
  BY <1>1, <1>5, <1>6, <1>7
<1>9. SyncTypeOK'
  BY <1>1, <1>2, <1>3, <1>8 DEF SyncTypeOK
<1> QED BY <1>2, <1>9, SyncFrame

LEMMA SyncInvLeave == ASSUME SyncInv, NEW w \in Workers, Leave(w) PROVE SyncInv'
<1> USE SyncAssumption
<1>1. /\ SyncTypeOK /\ \A v \in Workers : ApplyMarked(v)
      /\ Covered(w) /\ applying \in [Workers -> Ends] /\ applying[w] \in Ends
      /\ events[w] \in Seq(FSEvents) /\ due[w] \in Int
  BY DEF SyncInv, SyncTypeOK, Sites
<1>2. /\ edits + leaves < MaxEvents /\ leaves' = leaves + 1
      /\ file' = file /\ aside' = aside /\ edits' = edits /\ due' = due
      /\ link' = [link EXCEPT ![w] = "off"]
      /\ up' = [up EXCEPT ![w] = <<>>] /\ down' = [down EXCEPT ![w] = <<>>]
      /\ applying' = [applying EXCEPT ![w].down = NoUpdate]
      /\ watching' = [watching EXCEPT ![w] = FALSE] /\ received' = [received EXCEPT ![w] = 0]
      /\ echo' = [echo EXCEPT ![w] = FALSE] /\ events' = [events EXCEPT ![w] = <<>>]
      /\ batch' = [batch EXCEPT ![w] = "none"]
  BY DEF Leave
<1>3. w \in Sites /\ w # Leader /\ Leader \in Sites
  BY DEF Sites
<1> DEFINE r == [applying[w] EXCEPT !.down = NoUpdate]
<1>4. r \in Ends /\ r.down = NoUpdate /\ r.up = applying[w].up
  BY <1>1 DEF Ends, Updates
<1>5. applying' = [applying EXCEPT ![w] = r]
  BY <1>1, <1>2
<1> HIDE DEF r
<1>6. applying' \in [Workers -> Ends] /\ applying'[w] = r
      /\ \A v \in Workers : v # w => applying'[v] = applying[v]
  BY <1>1, <1>4, <1>5
<1>7. <<>> \in Seq(Changes) /\ <<>> \in Seq(FSEvents) /\ 0 \in Times
  BY DEF Times
<1>8. /\ up' \in [Workers -> Seq(Changes)] /\ down' \in [Workers -> Seq(Changes)]
      /\ link' \in [Workers -> {"off", "joined", "tar", "on"}]
  BY <1>1, <1>2, <1>7 DEF SyncTypeOK
<1>9. watching' \in [Sites -> BOOLEAN] /\ echo' \in [Sites -> BOOLEAN]
  BY <1>1, <1>2 DEF SyncTypeOK
<1>10. /\ received' \in [Sites -> Times] /\ batch' \in [Sites -> {"none", "write", "delete"}]
       /\ events' \in [Sites -> Seq(FSEvents)]
  BY <1>1, <1>2, <1>7 DEF SyncTypeOK
<1>11. leaves' \in 0..MaxEvents
  BY <1>1, <1>2 DEF SyncTypeOK
<1>12. SyncTypeOK'
  BY <1>1, <1>2, <1>6, <1>8, <1>9, <1>10, <1>11 DEF SyncTypeOK
<1>13. /\ events'[w] = <<>> /\ batch'[w] = "none"
       /\ \A t \in Sites : t # w => /\ events'[t] = events[t] /\ batch'[t] = batch[t]
                                    /\ due'[t] = due[t] /\ echo'[t] = echo[t]
  BY <1>1, <1>2, <1>3 DEF SyncTypeOK
<1>14. Covered(w)'
  <2>1. Cardinality(EditsIn(events[w])) \in Nat /\ Pending(batch[w]) \in Nat
    BY <1>1, EditsFinite DEF Pending
  <2>2. Cardinality(EditsIn(events'[w])) = 0 /\ Pending(batch'[w]) = 0
    BY <1>13, EditsEmpty DEF Pending
  <2> QED BY <1>1, <1>2, <2>1, <2>2 DEF Covered
<1>15. EchoMarked(w)'
  BY <1>13 DEF EchoMarked
<1>16. ASSUME NEW v \in Workers PROVE ApplyMarked(v)'
  <2>1. v \in Sites /\ echo'[Leader] = echo[Leader]
    BY <1>3, <1>13 DEF Sites
  <2>2. CASE v = w
    BY <1>1, <1>4, <1>6, <2>1, <2>2 DEF ApplyMarked
  <2>3. CASE v # w
    BY <1>1, <1>6, <1>13, <2>1, <2>3 DEF ApplyMarked
  <2> QED BY <2>2, <2>3
<1> QED BY <1>3, <1>12, <1>13, <1>14, <1>15, <1>16, SyncSite

LEMMA SyncInvInit == SyncInit => SyncInv
<1> SUFFICES ASSUME SyncInit PROVE SyncInv
  OBVIOUS
<1> USE SyncAssumption
<1> DEFINE r == [up |-> NoUpdate, down |-> NoUpdate]
           f == [v |-> 0, mtime |-> 0]
<1>1. r \in Ends /\ r.up = NoUpdate /\ r.down = NoUpdate
  BY DEF Ends, Updates
<1>2. f \in Files /\ 0 \in Times
  BY DEF Files, Versions, Times
<1>3. file = [s \in Sites |-> f] /\ applying = [w \in Workers |-> r]
  BY DEF SyncInit
<1> HIDE DEF r, f
<1>4. /\ file \in [Sites -> Files] /\ applying \in [Workers -> Ends]
      /\ \A w \in Workers : applying[w] = r
  BY <1>1, <1>2, <1>3
<1>5. <<>> \in Seq(Changes) /\ <<>> \in Seq(FSEvents)
  OBVIOUS
<1>6. /\ up \in [Workers -> Seq(Changes)] /\ down \in [Workers -> Seq(Changes)]
      /\ events \in [Sites -> Seq(FSEvents)]
  BY <1>5 DEF SyncInit
<1>7. echo \in [Sites -> BOOLEAN] /\ watching \in [Sites -> BOOLEAN]
  BY DEF SyncInit
<1>8. /\ received \in [Sites -> Times] /\ batch \in [Sites -> {"none", "write", "delete"}]
      /\ link \in [Workers -> {"off", "joined", "tar", "on"}] /\ due \in [Sites -> Int]
      /\ edits \in 0..MaxEvents /\ leaves \in 0..MaxEvents
  BY <1>2 DEF SyncInit
<1>9. aside \in [Sites -> SUBSET Versions]
  BY DEF SyncInit
<1>10. SyncTypeOK
  BY <1>4, <1>6, <1>7, <1>8, <1>9 DEF SyncTypeOK
<1>11. \A s \in Sites : events[s] = <<>> /\ batch[s] = "none" /\ due[s] = 0
  BY DEF SyncInit
<1>12. ASSUME NEW s \in Sites PROVE Covered(s) /\ EchoMarked(s)
  BY <1>11, EditsEmpty DEF Covered, EchoMarked, Pending
<1> QED BY <1>1, <1>4, <1>10, <1>12 DEF SyncInv, ApplyMarked

LEMMA SyncInvNext == SyncInv /\ [SyncNext]_SyncVars => SyncInv'
<1> SUFFICES ASSUME SyncInv, [SyncNext]_SyncVars PROVE SyncInv'
  OBVIOUS
<1>1. CASE SyncNext
  BY <1>1, SyncInvEdit, SyncInvEvent, SyncInvExpires, SyncInvFlush, SyncInvReceive, SyncInvApply,
     SyncInvArchive, SyncInvLink, SyncInvLeave DEF SyncNext
<1>2. CASE UNCHANGED SyncVars
  <2>1. SyncTypeOK'
    BY <1>2 DEF SyncInv, SyncTypeOK, SyncVars
  <2> QED BY <1>2, <2>1, SyncFrame DEF SyncVars
<1> QED BY <1>1, <1>2

\* Files, marks, queues, batches and streams keep their types.
THEOREM SyncTypeCorrect == SyncSpec => []SyncTypeOK
<1>1. SyncInv => SyncTypeOK
  BY DEF SyncInv
<1> QED BY <1>1, SyncInvInit, SyncInvNext, PTL DEF SyncSpec

\* No site ever sends more batches than changes somebody made there, with any
\* number of nodes, edits and reconnects (filesync_incremental.go, suppressEcho).
THEOREM NoUpdateEchoes == SyncSpec => []NoSyncLoop
<1>1. SyncInv => NoSyncLoop
  <2> SUFFICES ASSUME SyncInv, NEW s \in Sites PROVE due[s] >= 0
    BY DEF NoSyncLoop
  <2>1. events[s] \in Seq(FSEvents) /\ due[s] \in Int /\ Covered(s)
    BY DEF SyncInv, SyncTypeOK
  <2>2. Cardinality(EditsIn(events[s])) \in Nat /\ Pending(batch[s]) \in Nat
    BY <2>1, EditsFinite DEF Pending
  <2> QED BY <2>1, <2>2 DEF Covered
<1> QED BY <1>1, SyncInvInit, SyncInvNext, PTL DEF SyncSpec

-----------------------------------------------------------------------------
(***************************************************************************)
(* The dial of the leader.  Every open connection is the winner's or has   *)
(* its result in the channel, where the race or the drain will find it; a  *)
(* route whose goroutine is not done has neither.  While the race is on,   *)
(* no result has been lost from the channel.                               *)
(***************************************************************************)
OpenConns == {r \in results : attempt[r] = "ok"} \cup (IF race.pc = "won" THEN {winner} ELSE {})
RaceInv ==
    /\ winner # NoRoute <=> race.pc = "won"
    /\ winner \notin results
    /\ conns = OpenConns
    /\ \A r \in Routes : attempt[r] \in {"none", "waiting", "dialing"} => r \notin results
    /\ \A r \in Routes : attempt[r] \in {"waiting", "dialing"} => r # winner
    /\ race.pc \in {"idle", "solo", "lost"} => \A r \in Routes : attempt[r] = "none"
    /\ race.pc = "racing" => \A r \in Routes : attempt[r] \in {"ok", "failed"} => r \in results
    /\ race.pc = "solo" => cache # NoRoute

AttemptStates == {"none", "waiting", "dialing", "ok", "failed"}
RacePcs == {"idle", "solo", "racing", "won", "lost"}

DialerOK ==
    /\ known \subseteq Addrs /\ cache \in Addrs \cup {NoRoute}
    /\ race \in [pc: RacePcs, keyed: BOOLEAN]
    /\ attempt \in [Routes -> AttemptStates]
    /\ results \subseteq Routes /\ conns \subseteq Routes
    /\ winner \in Routes \cup {NoRoute}

RelayOK ==
    /\ ctrl \in BOOLEAN /\ backoff \in Nat \ {0}
    /\ incoming \in 0..MaxRelayConns /\ queue \in 0..ListenerSize
    /\ listening \in BOOLEAN

WorldOK == tracker \subseteq Addrs /\ reachable \subseteq Addrs /\ moves \in 0..MaxMoves

DialInv == DialerOK /\ RelayOK /\ WorldOK /\ RaceInv

LEMMA RouteNames == NoRoute \notin Routes /\ Relay \in Routes /\ Addrs \subseteq Routes /\ Static \in Addrs
BY DialAssumption DEF Routes

LEMMA DialTypes == DialTypeOK <=> DialerOK /\ RelayOK /\ WorldOK
BY DEF DialTypeOK, DialerOK, RelayOK, WorldOK, AttemptStates, RacePcs

\* What the worker does leaves the relay and the world alone.
LEMMA WorkerOnly ==
    ASSUME DialInv, UNCHANGED <<relayVars, worldVars>>
    PROVE  RelayOK' /\ WorldOK'
BY DEF DialInv, RelayOK, WorldOK, relayVars, worldVars

\* ... and conversely.
LEMMA WorkerIdle ==
    ASSUME DialInv, UNCHANGED workerVars
    PROVE  DialerOK' /\ RaceInv'
BY DEF DialInv, DialerOK, RaceInv, OpenConns, workerVars

LEMMA RaceStarts ==
    ASSUME DialerOK, NEW routes, StartRace(routes)
    PROVE  /\ attempt' \in [Routes -> AttemptStates]
           /\ \A r \in Routes : attempt'[r] \in {"none", "waiting", "dialing"}
BY DEF DialerOK, StartRace, AttemptStates

LEMMA AnnounceStep ==
    ASSUME DialInv, Announce
    PROVE  DialInv'
<1>1. RelayOK' /\ WorldOK'
  BY WorkerOnly DEF Announce
<1>2. DialerOK'
  BY DEF Announce, DialInv, DialerOK, WorldOK
<1>3. RaceInv'
  BY DEF Announce, DialInv, RaceInv, OpenConns
<1> QED BY <1>1, <1>2, <1>3 DEF DialInv

LEMMA DialLeaderStep ==
    ASSUME DialInv, DialLeader
    PROVE  DialInv'
<1>1. RelayOK' /\ WorldOK'
  BY WorkerOnly DEF DialLeader
<1>2. /\ DialerOK /\ RaceInv /\ race.pc = "idle"
      /\ UNCHANGED <<known, cache, results, conns, winner>>
  BY DEF DialLeader, DialInv
<1>3. /\ winner = NoRoute /\ results = {} /\ conns = {}
      /\ \A r \in Routes : attempt[r] = "none"
  BY <1>2 DEF RaceInv, DialerOK, OpenConns
<1>4. CASE cache # NoRoute /\ race' = [pc |-> "solo", keyed |-> TRUE] /\ UNCHANGED attempt
  <2>1. DialerOK'
    BY <1>2, <1>4 DEF DialerOK, RacePcs
  <2>2. RaceInv'
    BY <1>2, <1>3, <1>4 DEF RaceInv, OpenConns
  <2> QED BY <1>1, <2>1, <2>2 DEF DialInv
<1>5. CASE race' = [pc |-> "racing", keyed |-> known # {}] /\ StartRace(Targets)
  <2>1. /\ attempt' \in [Routes -> AttemptStates]
        /\ \A r \in Routes : attempt'[r] \in {"none", "waiting", "dialing"}
    BY <1>2, <1>5, RaceStarts
  <2>2. DialerOK'
    BY <1>2, <1>5, <2>1 DEF DialerOK, RacePcs
  <2>3. RaceInv'
    BY <1>2, <1>3, <1>5, <2>1, RouteNames DEF RaceInv, OpenConns
  <2> QED BY <1>1, <2>2, <2>3 DEF DialInv
<1> QED BY <1>4, <1>5 DEF DialLeader

LEMMA TryCachedWinnerStep ==
    ASSUME DialInv, TryCachedWinner
    PROVE  DialInv'
<1>1. RelayOK' /\ WorldOK'
  BY WorkerOnly DEF TryCachedWinner
<1>2. /\ DialerOK /\ RaceInv /\ WorldOK /\ race.pc = "solo"
      /\ UNCHANGED <<known, results>>
  BY DEF TryCachedWinner, DialInv
<1>3. /\ winner = NoRoute /\ results = {} /\ conns = {}
      /\ \A r \in Routes : attempt[r] = "none"
  BY <1>2 DEF RaceInv, DialerOK, OpenConns
<1>4. CASE /\ cache \in reachable /\ race' = [race EXCEPT !.pc = "won"]
           /\ conns' = {cache} /\ winner' = cache /\ UNCHANGED <<cache, attempt>>
  <2>1. cache \in Routes /\ cache # NoRoute
    BY <1>2, <1>4, RouteNames DEF WorldOK
  <2>2. race'.pc = "won" /\ race' \in [pc: RacePcs, keyed: BOOLEAN]
    BY <1>2, <1>4 DEF DialerOK, RacePcs
  <2>3. DialerOK'
    BY <1>2, <1>4, <2>1, <2>2 DEF DialerOK
  <2>4. RaceInv'
    BY <1>2, <1>3, <1>4, <2>1, <2>2 DEF RaceInv, OpenConns
  <2> QED BY <1>1, <2>3, <2>4 DEF DialInv
<1>5. CASE /\ cache' = NoRoute /\ race' = [race EXCEPT !.pc = "racing"]
           /\ StartRace(Targets) /\ UNCHANGED <<conns, winner>>
  <2>1. /\ attempt' \in [Routes -> AttemptStates]
        /\ \A r \in Routes : attempt'[r] \in {"none", "waiting", "dialing"}
    BY <1>2, <1>5, RaceStarts
  <2>2. race'.pc = "racing" /\ race' \in [pc: RacePcs, keyed: BOOLEAN]
    BY <1>2, <1>5 DEF DialerOK, RacePcs
  <2>3. DialerOK'
    BY <1>2, <1>5, <2>1, <2>2 DEF DialerOK
  <2>4. RaceInv'
    BY <1>2, <1>3, <1>5, <2>1, <2>2, RouteNames DEF RaceInv, OpenConns
  <2> QED BY <1>1, <2>3, <2>4 DEF DialInv
<1> QED BY <1>4, <1>5 DEF TryCachedWinner

LEMMA StartRelayStep ==
    ASSUME DialInv, StartRelay
    PROVE  DialInv'
<1>1. RelayOK' /\ WorldOK'
  BY WorkerOnly DEF StartRelay
<1>2. /\ DialerOK /\ RaceInv /\ attempt[Relay] = "waiting" /\ Relay \in Routes
      /\ UNCHANGED <<known, cache, race, conns, winner>>
  BY RouteNames DEF StartRelay, DialInv
<1>3. CASE race.pc = "racing" /\ attempt' = [attempt EXCEPT ![Relay] = "dialing"] /\ UNCHANGED results
  <2>1. DialerOK'
    BY <1>2, <1>3 DEF DialerOK, AttemptStates
  <2>2. RaceInv'
    BY <1>2, <1>3 DEF RaceInv, OpenConns, DialerOK, AttemptStates
  <2> QED BY <1>1, <2>1, <2>2 DEF DialInv
<1>4. CASE /\ race.pc = "won" /\ attempt' = [attempt EXCEPT ![Relay] = "failed"]
           /\ results' = results \cup {Relay}
  <2>1. DialerOK'
    BY <1>2, <1>4 DEF DialerOK, AttemptStates
  <2>2. OpenConns' = OpenConns
    BY <1>2, <1>4 DEF RaceInv, OpenConns, DialerOK
  <2>3. RaceInv'
    BY <1>2, <1>4, <2>2 DEF RaceInv, DialerOK
  <2> QED BY <1>1, <2>1, <2>3 DEF DialInv
<1> QED BY <1>3, <1>4 DEF StartRelay

LEMMA DialledStep ==
    ASSUME DialInv, NEW r \in Routes, NEW ok \in BOOLEAN, Dialled(r, ok)
    PROVE  DialInv'
<1>1. RelayOK' /\ WorldOK'
  BY WorkerOnly DEF Dialled
<1>2. /\ DialerOK /\ RaceInv /\ attempt[r] = "dialing"
      /\ attempt' = [attempt EXCEPT ![r] = IF ok THEN "ok" ELSE "failed"]
      /\ conns' = IF ok THEN conns \cup {r} ELSE conns
      /\ results' = results \cup {r}
      /\ UNCHANGED <<known, cache, race, winner>>
  BY DEF Dialled, DialInv
<1>3. r \notin results /\ r # winner /\ race.pc \in {"racing", "won"}
  BY <1>2 DEF RaceInv, DialerOK, RacePcs
<1>4. /\ attempt' \in [Routes -> AttemptStates] /\ attempt'[r] \in {"ok", "failed"}
      /\ attempt'[r] = "ok" <=> ok
      /\ \A q \in Routes \ {r} : attempt'[q] = attempt[q]
  BY <1>2 DEF DialerOK, AttemptStates
<1>5. DialerOK'
  BY <1>2, <1>4 DEF DialerOK
<1>6. conns' = OpenConns'
  BY <1>2, <1>3, <1>4 DEF RaceInv, OpenConns, DialerOK
<1>7. RaceInv'
  BY <1>2, <1>3, <1>4, <1>6 DEF RaceInv
<1> QED BY <1>1, <1>5, <1>7 DEF DialInv

LEMMA TakeResultStep ==
    ASSUME DialInv, NEW r \in Routes, TakeResult(r)
    PROVE  DialInv'
<1>1. RelayOK' /\ WorldOK'
  BY WorkerOnly DEF TakeResult
<1>2. /\ DialerOK /\ RaceInv /\ race.pc = "racing" /\ r \in results
      /\ results' = results \ {r}
      /\ UNCHANGED <<known, conns>>
  BY DEF TakeResult, DialInv
<1>3. winner = NoRoute /\ attempt[r] \in {"ok", "failed"} /\ r # NoRoute
  BY <1>2, RouteNames DEF RaceInv, DialerOK, AttemptStates
<1>4. CASE attempt[r] = "ok"
  <2>1. /\ race' = [race EXCEPT !.pc = "won"] /\ winner' = r /\ UNCHANGED attempt
        /\ cache' = IF race.keyed /\ r # Relay THEN r ELSE cache
    BY <1>4 DEF TakeResult
  <2>2. race'.pc = "won" /\ race' \in [pc: RacePcs, keyed: BOOLEAN]
    BY <1>2, <2>1 DEF DialerOK, RacePcs
  <2>3. cache' \in Addrs \cup {NoRoute}
    BY <1>2, <2>1 DEF DialerOK, Routes
  <2>4. DialerOK'
    BY <1>2, <2>1, <2>2, <2>3 DEF DialerOK
  <2>5. conns' = OpenConns'
    BY <1>2, <1>4, <2>1, <2>2 DEF RaceInv, OpenConns
  <2>6. RaceInv'
    BY <1>2, <1>3, <1>4, <2>1, <2>2, <2>5 DEF RaceInv
  <2> QED BY <1>1, <2>4, <2>6 DEF DialInv
<1>5. CASE attempt[r] # "ok"
  <2>1. /\ attempt' = [attempt EXCEPT ![r] = "none"] /\ UNCHANGED <<winner, cache>>
        /\ race' = IF \A q \in Routes \ {r} : attempt[q] = "none"
                   THEN [race EXCEPT !.pc = "lost"] ELSE race
    BY <1>5 DEF TakeResult
  <2>2. /\ attempt' \in [Routes -> AttemptStates] /\ attempt'[r] = "none"
        /\ \A q \in Routes \ {r} : attempt'[q] = attempt[q]
    BY <1>2, <2>1 DEF DialerOK, AttemptStates
  <2>3. /\ race' \in [pc: RacePcs, keyed: BOOLEAN] /\ race'.pc \in {"racing", "lost"}
        /\ race'.pc = "lost" => \A q \in Routes : attempt'[q] = "none"
    BY <1>2, <2>1, <2>2 DEF DialerOK, RacePcs
  <2>4. DialerOK'
    BY <1>2, <2>1, <2>2, <2>3 DEF DialerOK
  <2>5. conns' = OpenConns'
    BY <1>2, <1>5, <2>1, <2>2, <2>3 DEF RaceInv, OpenConns, DialerOK
  <2>6. RaceInv'
    BY <1>2, <1>3, <2>1, <2>2, <2>3, <2>5 DEF RaceInv
  <2> QED BY <1>1, <2>4, <2>6 DEF DialInv
<1> QED BY <1>4, <1>5

LEMMA DrainStep ==
    ASSUME DialInv, NEW r \in Routes, DrainAndClose(r)
    PROVE  DialInv'
<1>1. RelayOK' /\ WorldOK'
  BY WorkerOnly DEF DrainAndClose
<1>2. /\ DialerOK /\ RaceInv /\ race.pc = "won" /\ r \in results
      /\ results' = results \ {r}
      /\ conns' = IF attempt[r] = "ok" THEN conns \ {r} ELSE conns
      /\ UNCHANGED <<known, cache, race, attempt, winner>>
  BY DEF DrainAndClose, DialInv
<1>3. DialerOK'
  BY <1>2 DEF DialerOK
<1>4. conns' = OpenConns'
  BY <1>2 DEF RaceInv, OpenConns
<1>5. RaceInv'
  BY <1>2, <1>4 DEF RaceInv
<1> QED BY <1>1, <1>3, <1>5 DEF DialInv

LEMMA RedialStep ==
    ASSUME DialInv, Redial
    PROVE  DialInv'
<1>1. RelayOK' /\ WorldOK'
  BY WorkerOnly DEF Redial
<1>2. /\ DialerOK /\ RaceInv /\ race.pc \in {"won", "lost"} /\ results = {}
      /\ race' = [pc |-> "idle", keyed |-> FALSE]
      /\ conns' = conns \ {winner} /\ winner' = NoRoute
      /\ attempt' = [r \in Routes |-> "none"]
      /\ UNCHANGED <<known, cache, results>>
  BY DEF Redial, DialInv, Settled
<1>3. conns' = {}
  BY <1>2 DEF RaceInv, OpenConns
<1>4. DialerOK'
  BY <1>2 DEF DialerOK, AttemptStates, RacePcs
<1>5. RaceInv'
  BY <1>2, <1>3 DEF RaceInv, OpenConns
<1> QED BY <1>1, <1>4, <1>5 DEF DialInv

\* The leader's side of the relay and the world.
LEMMA RelaySteps ==
    ASSUME DialInv,
           \/ RegisterWithRelay \/ ControlLost \/ NotifyIncoming \/ HandleIncoming
           \/ Accept \/ CloseListener \/ WorldChanges
    PROVE  DialInv'
<1>1. DialerOK' /\ RaceInv'
  BY WorkerIdle DEF RegisterWithRelay, ControlLost, NotifyIncoming, HandleIncoming, Accept,
     CloseListener, WorldChanges
<1>2. RelayOK /\ WorldOK
  BY DEF DialInv
<1>3. CASE RegisterWithRelay
  <2>1. backoff' \in Nat \ {0}
    BY <1>2, <1>3, DialAssumption DEF RegisterWithRelay, RelayOK
  <2>2. ctrl' \in BOOLEAN
    BY <1>2, <1>3, Zenon DEF RegisterWithRelay, RelayOK
  <2> QED BY <1>1, <1>2, <1>3, <2>1, <2>2 DEF RegisterWithRelay, DialInv, RelayOK, WorldOK, worldVars
<1>4. CASE ControlLost
  BY <1>1, <1>2, <1>4, DialAssumption DEF ControlLost, DialInv, RelayOK, WorldOK, worldVars
<1>5. CASE NotifyIncoming
  <2>1. incoming' \in 0..MaxRelayConns
    BY <1>2, <1>5, DialAssumption DEF NotifyIncoming, RelayOK
  <2> QED BY <1>1, <1>2, <1>5, <2>1 DEF NotifyIncoming, DialInv, RelayOK, WorldOK, worldVars
<1>6. CASE HandleIncoming
  <2>1. incoming' \in 0..MaxRelayConns /\ queue' \in 0..ListenerSize
    BY <1>2, <1>6, DialAssumption DEF HandleIncoming, RelayOK
  <2> QED BY <1>1, <1>2, <1>6, <2>1 DEF HandleIncoming, DialInv, RelayOK, WorldOK, worldVars
<1>7. CASE Accept
  <2>1. queue' \in 0..ListenerSize
    BY <1>2, <1>7, DialAssumption DEF Accept, RelayOK
  <2> QED BY <1>1, <1>2, <1>7, <2>1 DEF Accept, DialInv, RelayOK, WorldOK, worldVars
<1>8. CASE CloseListener
  <2>1. queue' \in 0..ListenerSize
    BY <1>8, DialAssumption DEF CloseListener
  <2>2. ctrl' \in BOOLEAN /\ listening' \in BOOLEAN
    BY <1>8, Zenon DEF CloseListener
  <2> QED BY <1>1, <1>2, <1>8, <2>1, <2>2 DEF CloseListener, DialInv, RelayOK, WorldOK, worldVars
<1>9. CASE WorldChanges
  <2>1. moves' \in 0..MaxMoves
    BY <1>2, <1>9, DialAssumption DEF WorldChanges, WorldOK
  <2> QED BY <1>1, <1>2, <1>9, <2>1 DEF WorldChanges, DialInv, RelayOK, WorldOK, relayVars
<1> QED BY <1>3, <1>4, <1>5, <1>6, <1>7, <1>8, <1>9

LEMMA DialStarts == DialInit => DialInv
<1> SUFFICES ASSUME DialInit PROVE DialInv
  OBVIOUS
<1>1. DialerOK
  BY DEF DialInit, DialerOK, RacePcs, AttemptStates
<1>2. RelayOK
  <2>1. backoff \in Nat \ {0} /\ incoming \in 0..MaxRelayConns /\ queue \in 0..ListenerSize
    BY DialAssumption DEF DialInit
  <2>2. ctrl \in BOOLEAN /\ listening \in BOOLEAN
    BY Zenon DEF DialInit
  <2> QED BY <2>1, <2>2 DEF RelayOK
<1>3. WorldOK
  BY DialAssumption DEF DialInit, WorldOK
<1>4. RaceInv
  BY DEF DialInit, RaceInv, OpenConns
<1> QED BY <1>1, <1>2, <1>3, <1>4 DEF DialInv

LEMMA DialSteps == DialInv /\ [DialNext]_DialVars => DialInv'
<1> SUFFICES ASSUME DialInv, [DialNext]_DialVars PROVE DialInv'
  OBVIOUS
<1>1. CASE UNCHANGED DialVars
  <2>1. UNCHANGED workerVars /\ UNCHANGED <<relayVars, worldVars>>
    BY <1>1 DEF DialVars, workerVars, relayVars, worldVars
  <2> QED BY <2>1, WorkerOnly, WorkerIdle DEF DialInv
<1>2. CASE Announce \/ DialLeader \/ TryCachedWinner \/ StartRelay \/ Redial
  BY <1>2, AnnounceStep, DialLeaderStep, TryCachedWinnerStep, StartRelayStep, RedialStep
<1>3. CASE DialRelay \/ \E r \in Addrs : DialOne(r)
  <2>1. PICK r \in Routes, ok \in BOOLEAN : Dialled(r, ok)
    BY <1>3, RouteNames DEF DialRelay, DialOne
  <2> QED BY <2>1, DialledStep
<1>4. CASE \E r \in Routes : TakeResult(r) \/ DrainAndClose(r)
  BY <1>4, TakeResultStep, DrainStep
<1>5. CASE \/ RegisterWithRelay \/ ControlLost \/ NotifyIncoming \/ HandleIncoming
           \/ Accept \/ CloseListener \/ WorldChanges
  BY <1>5, RelaySteps
<1> QED BY <1>1, <1>2, <1>3, <1>4, <1>5 DEF DialNext

\* Once every goroutine is done and the channel is empty, an open connection
\* can only be the winner's.
LEMMA DialImplies == DialInv => DialTypeOK /\ NoLeakedConn
<1> SUFFICES ASSUME DialInv PROVE DialTypeOK /\ NoLeakedConn
  OBVIOUS
<1>1. DialTypeOK
  BY DialTypes DEF DialInv
<1>2. NoLeakedConn
  BY DEF DialInv, RaceInv, OpenConns, NoLeakedConn, Settled
<1> QED BY <1>1, <1>2

LEMMA DialAlways == DialSpec => []DialInv
BY DialStarts, DialSteps, PTL DEF DialSpec

\* Every state of the dial, its cache, the relay's client and the listener is
\* well typed: the winner cache never remembers the relay, and neither the
\* notifications being handled nor the listener's buffer exceed their bounds
\* (dial.go, relay.go).
THEOREM DialTypeCorrect == DialSpec => []DialTypeOK
BY DialAlways, DialImplies, PTL

\* With any number of addresses, no dial leaks a connection: late successes of
\* attempts that lost the race are closed by the drain (dial.go drainAndClose).
THEOREM NoDialLeaks == DialSpec => []NoLeakedConn
BY DialAlways, DialImplies, PTL

=============================================================================
