---------------------------- MODULE WorkerProofs ----------------------------
(***************************************************************************)
(* Proofs about the work an agent gives away: background jobs of a worker  *)
(* process (BackgroundTasks) and tasks for worker agents (Swarm), for      *)
(* every number of jobs, connections and calls and every limit.            *)
(***************************************************************************)
EXTENDS BackgroundTasks, Swarm, FiniteSetTheorems, TLAPS

(***************************************************************************)
(* Background jobs.  The invariant follows the announcement of a job from  *)
(* the call that left it behind, through the goroutine and the channel, to *)
(* the agent, and says of each stage what it knows of the process.         *)
(***************************************************************************)
Queued == {completions[i] : i \in 1 .. Len(completions)}

\* What has been said of a job, or is about to be, fits what its process did.
Announcement(t) ==
    /\ waiter[t] # "none" => bash[t] = "returned" /\ proc[t] # "none"
    /\ waiter[t] = "announcing" => proc[t] = "exited"
    /\ t \in Queued => waiter[t] = "over" /\ proc[t] = "exited"
    /\ "announced" \in told[t] => waiter[t] = "over" /\ proc[t] = "exited"
    /\ "inline" \in told[t] =>
         bash[t] = "returned" /\ waiter[t] = "none" /\ proc[t] \in {"exited", "killed"}

\* A job whose process was cancelled is suppressed.
Suppression(t) ==
    /\ bash[t] \in {"sync", "background", "timedOut"} \/ t \in jobs => proc[t] # "none"
    /\ killer[t] \in {<<>>, <<"cancel">>, <<"suppress", "cancel">>}
    /\ killer[t] = <<"cancel">> => notified[t]
    /\ ctx[t] => notified[t]
    /\ proc[t] = "killed" => ctx[t]

TasksInv == TasksTypeOK /\ \A t \in Tasks : Announcement(t) /\ Suppression(t)

\* Taking the first completion leaves the others, adding one adds that one.
LEMMA QueueSteps ==
    ASSUME NEW S, NEW q \in Seq(S)
    PROVE  /\ q # <<>> => /\ Head(q) = q[1] /\ Tail(q) \in Seq(S) /\ Len(Tail(q)) = Len(q) - 1
                          /\ \A i \in 1 .. Len(Tail(q)) : Tail(q)[i] = q[i + 1]
           /\ \A x \in S : /\ Append(q, x) \in Seq(S) /\ Len(Append(q, x)) = Len(q) + 1
                           /\ \A i \in 1 .. Len(q) : Append(q, x)[i] = q[i]
                           /\ Append(q, x)[Len(q) + 1] = x
OBVIOUS

\* The two steps that a Kill has still to make.
LEMMA KillSequence ==
    /\ KillOrder = <<"suppress", "cancel">>
    /\ Head(KillOrder) = "suppress" /\ Tail(KillOrder) = <<"cancel">>
    /\ Head(<<"cancel">>) = "cancel" /\ Tail(<<"cancel">>) = <<>>
    /\ <<"cancel">> # <<>> /\ KillOrder # <<>> /\ KillOrder # <<"cancel">>
    /\ {<<>>, <<"cancel">>, KillOrder} \subseteq Seq({"suppress", "cancel"})
BY DEF KillOrder

LEMMA TasksInvInit == TasksInit => TasksInv
BY TasksAssumption DEF TasksInit, TasksInv, TasksTypeOK, Announcement, Suppression, Queued

LEMMA TasksInvStep ==
    ASSUME TasksInv, NEW t \in Tasks, TaskStep(t)
    PROVE  TasksInv'
<1> USE DEF TasksInv, TasksTypeOK, Announcement, Suppression, Queued, Ended
<1>1. ASSUME NEW how \in {"sync", "background"}, StartTask(t, how) PROVE TasksInv'
  BY <1>1 DEF StartTask
<1>2. CASE StartRefused(t)
  BY <1>2 DEF StartRefused
<1>3. CASE TaskEnds(t)
  BY <1>3 DEF TaskEnds
<1>4. CASE InlineResult(t)
  BY <1>4 DEF InlineResult
<1>5. CASE TimesOut(t)
  BY <1>5 DEF TimesOut
<1>6. CASE NotifyOnComplete(t)
  BY <1>6 DEF NotifyOnComplete
<1>7. CASE WaiterWakes(t)
  BY <1>7 DEF WaiterWakes
<1>8. CASE OnComplete(t)
  BY <1>8, QueueSteps, TasksAssumption DEF OnComplete
<1>9. CASE Kill(t)
  <2>1. /\ killer' = [killer EXCEPT ![t] = KillOrder] /\ killer[t] = <<>>
        /\ proc[t] # "none" /\ waiter' = waiter /\ completions' = completions
    BY <1>9 DEF Kill
  <2>2. TasksTypeOK'
    BY <1>9, KillSequence DEF Kill
  <2>3. \A u \in Tasks : Announcement(u)'
    BY <1>9 DEF Kill
  <2>4. \A u \in Tasks : Suppression(u)'
    <3>1. \A u \in Tasks : killer'[u] = IF u = t THEN KillOrder ELSE killer[u]
      BY <2>1
    <3> QED
      BY <1>9, <3>1, KillSequence DEF Kill
  <2> QED
    BY <2>2, <2>3, <2>4
<1>10. CASE KillStep(t)
  <2>1. \/ /\ killer[t] = KillOrder /\ killer' = [killer EXCEPT ![t] = <<"cancel">>]
           /\ notified' = [notified EXCEPT ![t] = TRUE] /\ ctx' = ctx
        \/ /\ killer[t] = <<"cancel">> /\ killer' = [killer EXCEPT ![t] = <<>>]
           /\ ctx' = [ctx EXCEPT ![t] = TRUE] /\ notified' = notified
    BY <1>10, KillSequence DEF KillStep
  <2>2. /\ jobs' = jobs /\ proc' = proc /\ bash' = bash /\ waiter' = waiter
        /\ completions' = completions /\ told' = told /\ phase' = phase
    BY <1>10 DEF KillStep
  <2>3. TasksTypeOK'
    <3>1. killer' \in [Tasks -> Seq({"suppress", "cancel"})]
      <4>1. killer \in [Tasks -> Seq({"suppress", "cancel"})]
        OBVIOUS
      <4>2. PICK K : K = Seq({"suppress", "cancel"})
        OBVIOUS
      <4>3. <<>> \in K /\ <<"cancel">> \in K
        BY <4>2, KillSequence
      <4>4. killer' = [killer EXCEPT ![t] = <<"cancel">>] \/ killer' = [killer EXCEPT ![t] = <<>>]
        BY <2>1
      <4> HIDE DEF TasksInv
      <4> QED BY <4>1, <4>2, <4>3, <4>4
    <3>2. ctx' \in [Tasks -> BOOLEAN] /\ notified' \in [Tasks -> BOOLEAN]
      BY <2>1
    <3> QED
      BY <2>2, <3>1, <3>2
  <2>4. \A u \in Tasks : Announcement(u)'
    BY <2>2
  <2>5. CASE killer[t] = KillOrder
    <3>1. /\ \A u \in Tasks : killer'[u] = IF u = t THEN <<"cancel">> ELSE killer[u]
          /\ \A u \in Tasks : notified'[u] = IF u = t THEN TRUE ELSE notified[u]
          /\ ctx' = ctx
      BY <2>1, <2>5, KillSequence, ZenonT(30)
    <3> HIDE DEF TasksTypeOK, Announcement, Queued
    <3>2. Suppression(t)'
      BY <2>2, <3>1, <2>5, KillSequence
    <3>3. \A u \in Tasks \ {t} : Suppression(u)'
      BY <2>2, <3>1
    <3> QED
      BY <2>3, <2>4, <3>2, <3>3
  <2>6. CASE killer[t] = <<"cancel">>
    <3>1. /\ \A u \in Tasks \ {t} : killer'[u] = killer[u] /\ ctx'[u] = ctx[u]
          /\ killer'[t] = <<>> /\ ctx'[t] /\ notified' = notified
      BY <2>1, <2>6, KillSequence
    <3>2. notified'[t]
      BY <2>6, <3>1
    <3> HIDE DEF TasksTypeOK, Announcement, Queued
    <3>3. Suppression(t)'
      BY <2>2, <3>1, <3>2, KillSequence
    <3>4. \A u \in Tasks \ {t} : Suppression(u)'
      BY <2>2, <3>1, KillSequence
    <3> QED
      BY <2>3, <2>4, <3>3, <3>4
  <2> QED
    BY <2>1, <2>5, <2>6
<1> QED
  BY <1>1, <1>2, <1>3, <1>4, <1>5, <1>6, <1>7, <1>8, <1>9, <1>10 DEF TaskStep

LEMMA TasksInvWorker ==
    ASSUME TasksInv, WatchJobs \/ StopWorker \/ KillAll
    PROVE  TasksInv'
<1> USE DEF TasksInv, TasksTypeOK, Announcement, Suppression, Queued
<1>1. CASE WatchJobs
  <2>1. /\ completions \in Seq(Tasks) /\ completions # <<>>
        /\ completions' = Tail(completions)
        /\ told' = [told EXCEPT ![Head(completions)] = @ \cup {"announced"}]
    BY <1>1 DEF WatchJobs
  <2>2. Head(completions) \in Queued /\ Queued' \subseteq Queued
    BY <2>1, QueueSteps
  <2>3. Head(completions) \in Tasks
    BY <2>1
  <2>4. TasksTypeOK'
    <3>1. told' \in [Tasks -> SUBSET {"inline", "announced"}]
      BY <2>1, <2>3
    <3>2. completions' \in Seq(Tasks) /\ Len(completions') = Len(completions) - 1
      BY <2>1, QueueSteps
    <3>3. Len(completions) \in Nat /\ Len(completions) <= JobBuffer
      BY <2>1
    <3> QED
      BY <1>1, <3>1, <3>2, <3>3, TasksAssumption DEF WatchJobs
  <2>5. \A u \in Tasks : told'[u] = IF u = Head(completions) THEN told[u] \cup {"announced"}
                                     ELSE told[u]
    BY <2>1, <2>3
  <2>6. /\ jobs' = jobs /\ proc' = proc /\ bash' = bash /\ waiter' = waiter /\ ctx' = ctx
        /\ notified' = notified /\ killer' = killer
    BY <1>1 DEF WatchJobs
  <2>7. \A u \in Tasks : Suppression(u)'
    BY <2>6
  <2>8. \A u \in Tasks : Announcement(u)'
    <3> HIDE DEF Queued, TasksTypeOK, Suppression
    <3>1. \A u \in Tasks : u \in Queued' => u \in Queued
      BY <2>2
    <3>2. PICK h \in Tasks : h = Head(completions)
      BY <2>3
    <3>3. ASSUME NEW u \in Tasks, u # h PROVE Announcement(u)'
      BY <2>5, <2>6, <3>1, <3>2, <3>3
    <3>4. /\ told'[h] = told[h] \cup {"announced"} /\ "inline" \notin told[h]
          /\ waiter[h] = "over" /\ proc[h] = "exited" /\ bash[h] = "returned"
      BY <2>2, <2>5, <3>2
    <3>5. Announcement(h)'
      BY <2>6, <3>4
    <3> QED
      BY <3>3, <3>5
  <2> QED
    BY <2>4, <2>7, <2>8
<1>2. CASE StopWorker
  BY <1>2 DEF StopWorker
<1>3. CASE KillAll
  <2>1. /\ \A u \in Tasks : killer[u] = <<>> /\ (killer'[u] = KillOrder \/ killer'[u] = <<>>)
        /\ jobs' = {}
        /\ killer' \in [Tasks -> Seq({"suppress", "cancel"})]
    BY <1>3, KillSequence DEF KillAll
  <2>2. /\ proc' = proc /\ bash' = bash /\ waiter' = waiter /\ ctx' = ctx /\ told' = told
        /\ notified' = notified /\ completions' = completions /\ phase' = "gone"
    BY <1>3 DEF KillAll
  <2>3. TasksTypeOK'
    BY <2>1, <2>2
  <2>4. \A u \in Tasks : Announcement(u)'
    BY <2>2
  <2>5. \A u \in Tasks : Suppression(u)'
    BY <2>1, <2>2, KillSequence
  <2> QED
    BY <2>3, <2>4, <2>5
<1> QED
  BY <1>1, <1>2, <1>3

\* A set of at most one of two things has at most one element.
LEMMA OneOfTwo ==
    ASSUME NEW S \in SUBSET {"inline", "announced"}, ~("inline" \in S /\ "announced" \in S)
    PROVE  Cardinality(S) <= 1
<1>1. S = {} \/ S = {"inline"} \/ S = {"announced"}
  OBVIOUS
<1>2. Cardinality({}) = 0 /\ Cardinality({"inline"}) = 1 /\ Cardinality({"announced"}) = 1
  BY FS_EmptySet, FS_Singleton
<1>3. CASE S = {}
  BY <1>2, <1>3
<1>4. CASE S = {"inline"}
  BY <1>2, <1>4
<1>5. CASE S = {"announced"}
  BY <1>2, <1>5
<1> QED
  BY <1>1, <1>3, <1>4, <1>5

\* The agent hears of a task at most once and never of one that was stopped,
\* however Kill, the end of the process, the goroutine of NotifyOnComplete and
\* the shutdown of the worker interleave, for every number of jobs and every
\* size of the table and the channel.
THEOREM TasksAreSilent == TasksSpec => []StoppedIsSilent
<1>1. TasksInv /\ [TasksNext]_tasksVars => TasksInv'
  <2> SUFFICES ASSUME TasksInv, [TasksNext]_tasksVars PROVE TasksInv'
    OBVIOUS
  <2>1. CASE UNCHANGED tasksVars
    BY <2>1 DEF tasksVars, TasksInv, TasksTypeOK, Announcement, Suppression, Queued
  <2> QED
    BY <2>1, TasksInvStep, TasksInvWorker DEF TasksNext
<1>2. TasksInv => StoppedIsSilent
  BY OneOfTwo DEF TasksInv, TasksTypeOK, Announcement, StoppedIsSilent
<1> QED
  BY <1>1, <1>2, TasksInvInit, PTL DEF TasksSpec

(***************************************************************************)
(* Tasks of the swarm.                                                     *)
(***************************************************************************)

\* The goroutine of the connection is about to send to the task's channel.
Answering(p, t) ==
    \/ server[p].pc = "answer" /\ server[p].task = t
    \/ t \in server[p].tell

Dispatched(t) == dispatch[t].pc \in {"tracked", "await", "untrack", "returned"}

\* Only cleanup has tasks to fail, and it tells only those.
CleanupOnly(p) ==
    /\ server[p].fail # {} => server[p].pc = "fail"
    /\ server[p].tell \subseteq server[p].fail

\* A task is in the maps of the server only between TrackTask and UntrackTask,
\* and then under the worker it was dispatched to.
Mapped(t) ==
    /\ t \in waiting => dispatch[t].pc \in {"tracked", "await", "untrack"}
    /\ \A p \in Peers : t \in owned[p] => /\ dispatch[t].pc \in {"tracked", "await", "untrack"}
                                          /\ dispatch[t].peer = p

\* A task is answered once, by the goroutine that took it out of the maps.
AnsweredOnce(t) ==
    /\ answer[t] # <<>> => Dispatched(t) /\ t \notin waiting
    /\ \A p \in Peers : Answering(p, t) => Dispatched(t) /\ t \notin waiting /\ answer[t] = <<>>
    /\ \A p, q \in Peers : Answering(p, t) /\ Answering(q, t) => p = q

\* A task the swarm still knows, though it was answered or its caller is
\* through with it, is about to be forgotten.
Forgotten(t) ==
    /\ t \in active => dispatch[t].pc \notin {"new", "found"}
    /\ t \in active /\ (answer[t] # <<>> \/ dispatch[t].pc \in {"untrack", "returned"})
         => \E p \in Peers : BeingFinished(p, t)

TaskInv ==
    /\ \A p \in Peers : CleanupOnly(p)
    /\ \A t \in Dispatches : Mapped(t) /\ AnsweredOnce(t) /\ Forgotten(t)

SwarmInv == SwarmTypeOK /\ TaskInv

LEMMA SwarmInvInit == SwarmInit => SwarmInv
<1> SUFFICES ASSUME SwarmInit PROVE SwarmInv
  OBVIOUS
<1>1. SwarmTypeOK
  <2>1. Quiet \in ServerRecs /\ [pc |-> "new", peer |-> NoPeer] \in DispatchRecs
    BY DEF Quiet, ServerRecs, ServerPcs, DispatchRecs, DispatchPcs
  <2> QED
    BY <2>1 DEF SwarmInit, SwarmTypeOK
<1> QED
  BY <1>1 DEF SwarmInit, SwarmInv, TaskInv, CleanupOnly, Mapped, AnsweredOnce, Answering, Dispatched,
     Forgotten, Quiet

\* ServerAt moves one goroutine and changes nothing else of it.
LEMMA ServerMoves ==
    ASSUME server \in [Peers -> ServerRecs], NEW p \in Peers, NEW pc \in ServerPcs,
           ServerAt(p, pc)
    PROVE  /\ server' \in [Peers -> ServerRecs]
           /\ \A q \in Peers \ {p} : server'[q] = server[q]
           /\ server'[p].pc = pc /\ server'[p].task = server[p].task
           /\ server'[p].fail = server[p].fail /\ server'[p].tell = server[p].tell
<1> DEFINE r == [server[p] EXCEPT !.pc = pc]
<1>1. r \in ServerRecs /\ r.pc = pc /\ r.task = server[p].task
        /\ r.fail = server[p].fail /\ r.tell = server[p].tell
  BY DEF ServerRecs
<1>2. server' = [server EXCEPT ![p] = r]
  BY DEF ServerAt
<1> HIDE DEF r
<1> QED
  BY <1>1, <1>2

\* DispatchAt moves one call and keeps its worker.
LEMMA DispatchMoves ==
    ASSUME dispatch \in [Dispatches -> DispatchRecs], NEW t \in Dispatches,
           NEW pc \in DispatchPcs, DispatchAt(t, pc)
    PROVE  /\ dispatch' \in [Dispatches -> DispatchRecs]
           /\ \A u \in Dispatches \ {t} : dispatch'[u] = dispatch[u]
           /\ dispatch'[t].pc = pc /\ dispatch'[t].peer = dispatch[t].peer
<1> DEFINE r == [dispatch[t] EXCEPT !.pc = pc]
<1>1. r \in DispatchRecs /\ r.pc = pc /\ r.peer = dispatch[t].peer
  BY DEF DispatchRecs
<1>2. dispatch' = [dispatch EXCEPT ![t] = r]
  BY DEF DispatchAt
<1> HIDE DEF r
<1> QED
  BY <1>1, <1>2

\* TakeReply takes over a task of the worker, or ignores the message.
LEMMA ReplyMoves ==
    ASSUME SwarmTypeOK, NEW p \in Peers, TakeReply(p)
    PROVE  LET t == Head(replies[p]).task IN
           /\ server' \in [Peers -> ServerRecs] /\ server[p].pc = "read"
           /\ replies' \in [Peers -> Seq(ReplyRecs)]
           /\ \A q \in Peers \ {p} : server'[q] = server[q]
           /\ server'[p].fail = server[p].fail /\ server'[p].tell = server[p].tell
           /\ \/ /\ t \in owned[p] /\ server'[p].task = t
                 /\ server'[p].pc = IF t \in waiting THEN "answer" ELSE "complete"
                 /\ waiting' = waiting \ {t}
                 /\ owned' = [owned EXCEPT ![p] = @ \ {t}]
              \/ server' = server /\ waiting' = waiting /\ owned' = owned
<1> DEFINE m == Head(replies[p])
           r == [server[p] EXCEPT !.pc = IF m.task \in waiting THEN "answer" ELSE "complete",
                                  !.task = m.task, !.ok = m.ok]
<1>1. /\ replies[p] \in Seq(ReplyRecs) /\ replies[p] # <<>> /\ server[p].pc = "read"
      /\ replies' = [replies EXCEPT ![p] = Tail(@)] /\ server[p] \in ServerRecs
  BY DEF TakeReply, SwarmTypeOK
<1>2. m \in ReplyRecs /\ Tail(replies[p]) \in Seq(ReplyRecs)
  BY <1>1
<1>3. replies' \in [Peers -> Seq(ReplyRecs)]
  BY <1>1, <1>2 DEF SwarmTypeOK
<1>4. /\ r \in ServerRecs /\ r.task = m.task /\ r.fail = server[p].fail
      /\ r.tell = server[p].tell
      /\ r.pc = IF m.task \in waiting THEN "answer" ELSE "complete"
  BY <1>1, <1>2 DEF ServerRecs, ReplyRecs, ServerPcs
<1>5. \/ /\ m.task \in owned[p] /\ server' = [server EXCEPT ![p] = r]
         /\ waiting' = waiting \ {m.task}
         /\ owned' = [owned EXCEPT ![p] = @ \ {m.task}]
      \/ server' = server /\ waiting' = waiting /\ owned' = owned
  BY DEF TakeReply
<1> HIDE DEF r
<1> QED
  BY <1>1, <1>3, <1>4, <1>5, ZenonT(30) DEF SwarmTypeOK

\* CollectPending takes over every task of the worker.
LEMMA CollectMoves ==
    ASSUME SwarmTypeOK, NEW p \in Peers, CollectPending(p)
    PROVE  /\ server' \in [Peers -> ServerRecs] /\ server[p].pc = "collect"
           /\ \A q \in Peers \ {p} : server'[q] = server[q]
           /\ server'[p].pc = "fail" /\ server'[p].fail = owned[p]
           /\ server'[p].tell = owned[p] \cap waiting
<1> DEFINE r == [server[p] EXCEPT !.pc = "fail", !.fail = owned[p],
                                  !.tell = owned[p] \cap waiting]
<1>1. server[p] \in ServerRecs /\ owned[p] \subseteq Dispatches /\ server[p].pc = "collect"
  BY DEF SwarmTypeOK, CollectPending
<1>2. /\ r \in ServerRecs /\ r.pc = "fail" /\ r.fail = owned[p]
      /\ r.tell = owned[p] \cap waiting
  BY <1>1 DEF ServerRecs, ServerPcs
<1>3. server' = [server EXCEPT ![p] = r]
  BY DEF CollectPending
<1> HIDE DEF r
<1> QED
  BY <1>1, <1>2, <1>3 DEF SwarmTypeOK

\* Cleanup tells one dispatcher ...
LEMMA TellMoves ==
    ASSUME SwarmTypeOK, NEW p \in Peers, NEW t,
           server' = [server EXCEPT ![p].tell = @ \ {t}]
    PROVE  /\ server' \in [Peers -> ServerRecs]
           /\ \A q \in Peers \ {p} : server'[q] = server[q]
           /\ server'[p].pc = server[p].pc /\ server'[p].task = server[p].task
           /\ server'[p].tell = server[p].tell \ {t} /\ server'[p].fail = server[p].fail
<1> DEFINE r == [server[p] EXCEPT !.tell = @ \ {t}]
<1>1. server[p] \in ServerRecs
  BY DEF SwarmTypeOK
<1>2. /\ r \in ServerRecs /\ r.pc = server[p].pc /\ r.task = server[p].task
      /\ r.tell = server[p].tell \ {t} /\ r.fail = server[p].fail
  BY <1>1 DEF ServerRecs
<1>3. server' = [server EXCEPT ![p] = r]
  OBVIOUS
<1> HIDE DEF r
<1> QED
  BY <1>2, <1>3 DEF SwarmTypeOK

\* ... and fails one task at a time.
LEMMA FailMoves ==
    ASSUME SwarmTypeOK, NEW p \in Peers, NEW t,
           server' = [server EXCEPT ![p].fail = @ \ {t}]
    PROVE  /\ server' \in [Peers -> ServerRecs]
           /\ \A q \in Peers \ {p} : server'[q] = server[q]
           /\ server'[p].pc = server[p].pc /\ server'[p].task = server[p].task
           /\ server'[p].fail = server[p].fail \ {t} /\ server'[p].tell = server[p].tell
<1> DEFINE r == [server[p] EXCEPT !.fail = @ \ {t}]
<1>1. server[p] \in ServerRecs
  BY DEF SwarmTypeOK
<1>2. /\ r \in ServerRecs /\ r.pc = server[p].pc /\ r.task = server[p].task
      /\ r.fail = server[p].fail \ {t} /\ r.tell = server[p].tell
  BY <1>1 DEF ServerRecs
<1>3. server' = [server EXCEPT ![p] = r]
  OBVIOUS
<1> HIDE DEF r
<1> QED
  BY <1>2, <1>3 DEF SwarmTypeOK

\* The channel of a task holds one answer.
LEMMA OneAnswer ==
    \A x \in {"result", "error", "lost"} : <<x>> \in Seq({"result", "error", "lost"}) /\ <<x>> # <<>>
OBVIOUS

\* The tables, channels and messages of the swarm keep their types.
LEMMA SwarmTypeNext == SwarmTypeOK /\ [SwarmNext]_swarmVars => SwarmTypeOK'
<1> SUFFICES ASSUME SwarmTypeOK, [SwarmNext]_swarmVars PROVE SwarmTypeOK'
  OBVIOUS
<1> USE DEF SwarmTypeOK, hubVars, mapVars, wireVars
<1>1. ASSUME NEW p \in Peers, Connect(p) PROVE SwarmTypeOK'
  BY <1>1, ServerMoves DEF Connect, ServerPcs
<1>2. ASSUME NEW p \in Peers, ValidateRegistration(p) PROVE SwarmTypeOK'
  BY <1>2, ServerMoves DEF ValidateRegistration, ServerPcs
<1>3. ASSUME NEW p \in Peers, AddWorker(p) PROVE SwarmTypeOK'
  BY <1>3, ServerMoves DEF AddWorker, ServerPcs
<1>4. ASSUME NEW p \in Peers, ListWorker(p) PROVE SwarmTypeOK'
  BY <1>4, ServerMoves DEF ListWorker, ServerPcs
<1>5. ASSUME NEW p \in Peers, Confirm(p) PROVE SwarmTypeOK'
  BY <1>5, ServerMoves DEF Confirm, ServerPcs
<1>6. ASSUME NEW p \in Peers, Answer(p) PROVE SwarmTypeOK'
  <2>1. answer' \in [Dispatches -> Seq({"result", "error", "lost"})]
    BY <1>6, OneAnswer DEF Answer
  <2> QED
    BY <1>6, <2>1, ServerMoves DEF Answer, ServerPcs
<1>7. ASSUME NEW p \in Peers, CompleteTask(p) PROVE SwarmTypeOK'
  BY <1>7, ServerMoves DEF CompleteTask, ServerPcs
<1>8. ASSUME NEW p \in Peers, ReadFails(p) PROVE SwarmTypeOK'
  BY <1>8, ServerMoves DEF ReadFails, ServerPcs
<1>9. ASSUME NEW p \in Peers, CleanupEnds(p) PROVE SwarmTypeOK'
  BY <1>9, ServerMoves DEF CleanupEnds, ServerPcs
<1>10. ASSUME NEW p \in Peers, TakeReply(p) PROVE SwarmTypeOK'
  <2>1. server' \in [Peers -> ServerRecs] /\ replies' \in [Peers -> Seq(ReplyRecs)]
    BY <1>10, ReplyMoves
  <2>2. waiting' \subseteq Dispatches /\ owned' \in [Peers -> SUBSET Dispatches]
    <3>1. \/ waiting' = waiting /\ owned' = owned
          \/ \E t : waiting' = waiting \ {t} /\ owned' = [owned EXCEPT ![p] = @ \ {t}]
      BY <1>10 DEF TakeReply
    <3> QED
      BY <3>1
  <2> QED
    BY <1>10, <2>1, <2>2 DEF TakeReply
<1>11. ASSUME NEW p \in Peers, PeerLeaves(p) PROVE SwarmTypeOK'
  BY <1>11 DEF PeerLeaves
<1>12. ASSUME NEW p \in Peers, CollectPending(p) PROVE SwarmTypeOK'
  BY <1>12, CollectMoves DEF CollectPending
<1>13. ASSUME NEW p \in Peers, TellDisconnected(p) PROVE SwarmTypeOK'
  <2>1. PICK t \in server[p].fail \cap server[p].tell :
          /\ answer' = [answer EXCEPT ![t] = <<"lost">>]
          /\ server' = [server EXCEPT ![p].tell = @ \ {t}]
          /\ UNCHANGED <<hubVars, mapVars, dispatch, wireVars>>
    BY <1>13 DEF TellDisconnected
  <2>2. server' \in [Peers -> ServerRecs]
    BY <2>1, TellMoves
  <2>3. answer' \in [Dispatches -> Seq({"result", "error", "lost"})]
    BY <2>1, OneAnswer
  <2> QED
    BY <2>1, <2>2, <2>3
<1>14. ASSUME NEW p \in Peers, FailTask(p) PROVE SwarmTypeOK'
  <2>1. server' \in [Peers -> ServerRecs]
    BY <1>14, FailMoves DEF FailTask
  <2> QED
    BY <1>14, <2>1 DEF FailTask
<1>15. ASSUME NEW p \in Peers, HandleTask(p) PROVE SwarmTypeOK'
  <2>1. PICK t \in requests[p], ok \in BOOLEAN :
          /\ requests' = [requests EXCEPT ![p] = @ \ {t}]
          /\ replies' = [replies EXCEPT ![p] = Append(@, [task |-> t, ok |-> ok])]
          /\ UNCHANGED <<hubVars, mapVars, answer, server, dispatch, open>>
    BY <1>15 DEF HandleTask
  <2>2. [task |-> t, ok |-> ok] \in ReplyRecs
    BY DEF ReplyRecs
  <2>3. Append(replies[p], [task |-> t, ok |-> ok]) \in Seq(ReplyRecs)
    BY <2>2
  <2> QED
    BY <2>1, <2>3
<1>16. ASSUME NEW t \in Dispatches, DispatchTask(t) PROVE SwarmTypeOK'
  BY <1>16 DEF DispatchTask, DispatchRecs, DispatchPcs
<1>17. ASSUME NEW t \in Dispatches, AddTask(t) PROVE SwarmTypeOK'
  BY <1>17, DispatchMoves DEF AddTask, DispatchPcs
<1>18. ASSUME NEW t \in Dispatches, TrackTask(t) PROVE SwarmTypeOK'
  BY <1>18, DispatchMoves DEF TrackTask, DispatchPcs
<1>19. ASSUME NEW t \in Dispatches, SendRequest(t) PROVE SwarmTypeOK'
  <2>1. dispatch' \in [Dispatches -> DispatchRecs]
    BY <1>19, DispatchMoves DEF SendRequest, DispatchPcs
  <2>2. requests' \in [Peers -> SUBSET Dispatches]
    <3> DEFINE R == requests[dispatch[t].peer] \cup {t}
    <3>1. requests' = requests \/ requests' = [requests EXCEPT ![dispatch[t].peer] = R]
      BY <1>19 DEF SendRequest
    <3>2. dispatch[t].peer \in Peers => R \in SUBSET Dispatches
      OBVIOUS
    <3> HIDE DEF R
    <3> QED
      BY <3>1, <3>2
  <2> QED
    BY <1>19, <2>1, <2>2 DEF SendRequest
<1>20. ASSUME NEW t \in Dispatches, AwaitTask(t) PROVE SwarmTypeOK'
  BY <1>20, DispatchMoves DEF AwaitTask, DispatchPcs
<1>21. ASSUME NEW t \in Dispatches, UntrackTask(t) PROVE SwarmTypeOK'
  BY <1>21, DispatchMoves DEF UntrackTask, DispatchPcs
<1>22. CASE UNCHANGED swarmVars
  BY <1>22 DEF swarmVars
<1> QED
  BY <1>1, <1>2, <1>3, <1>4, <1>5, <1>6, <1>7, <1>8, <1>9, <1>10, <1>11, <1>12, <1>13, <1>14, <1>15, <1>16, <1>17, <1>18, <1>19, <1>20, <1>21, <1>22 DEF SwarmNext

\* The goroutine of a connection keeps the tasks in order.
LEMMA TaskInvServer ==
    ASSUME SwarmTypeOK, TaskInv, NEW p \in Peers,
           \/ Connect(p) \/ ValidateRegistration(p) \/ AddWorker(p) \/ ListWorker(p) \/ Confirm(p)
           \/ TakeReply(p) \/ Answer(p) \/ CompleteTask(p) \/ PeerLeaves(p) \/ ReadFails(p)
           \/ CollectPending(p) \/ TellDisconnected(p) \/ FailTask(p) \/ CleanupEnds(p)
           \/ HandleTask(p)
    PROVE  TaskInv'
<1> USE DEF TaskInv, hubVars, mapVars, wireVars, CleanupOnly, Mapped, AnsweredOnce,
            Answering, Dispatched, Forgotten, BeingFinished
<1>s. server \in [Peers -> ServerRecs]
  BY DEF SwarmTypeOK
<1>1. CASE Connect(p)
  BY <1>1, <1>s, ServerMoves DEF Connect, ServerPcs
<1>2. CASE ValidateRegistration(p)
  BY <1>2, <1>s, ServerMoves DEF ValidateRegistration, ServerPcs
<1>3. CASE AddWorker(p)
  BY <1>3, <1>s, ServerMoves DEF AddWorker, ServerPcs
<1>4. CASE ListWorker(p)
  BY <1>4, <1>s, ServerMoves DEF ListWorker, ServerPcs
<1>5. CASE Confirm(p)
  BY <1>5, <1>s, ServerMoves DEF Confirm, ServerPcs
<1>6. CASE CompleteTask(p)
  BY <1>6, <1>s, ServerMoves DEF CompleteTask, ServerPcs
<1>7. CASE ReadFails(p)
  BY <1>7, <1>s, ServerMoves DEF ReadFails, ServerPcs
<1>8. CASE CleanupEnds(p)
  BY <1>8, <1>s, ServerMoves DEF CleanupEnds, ServerPcs
<1>9. CASE PeerLeaves(p)
  BY <1>9 DEF PeerLeaves
<1>10. CASE HandleTask(p)
  BY <1>10 DEF HandleTask
<1>11. CASE TakeReply(p)
  <2>1. active' = active /\ answer' = answer /\ dispatch' = dispatch
    BY <1>11 DEF TakeReply
  <2>2. CASE server' = server /\ waiting' = waiting /\ owned' = owned
    BY <2>1, <2>2
  <2>3. ASSUME NEW t \in owned[p], server'[p].task = t, waiting' = waiting \ {t},
               server'[p].pc = (IF t \in waiting THEN "answer" ELSE "complete"),
               owned' = [owned EXCEPT ![p] = @ \ {t}]
        PROVE  TaskInv'
    <3>1. /\ server[p].pc = "read" /\ server'[p].fail = {} /\ server'[p].tell = {}
          /\ server[p].fail = {} /\ server[p].tell = {}
          /\ \A q \in Peers \ {p} : server'[q] = server[q]
      BY <1>11, ReplyMoves
    <3>2. t \in Dispatches /\ \A q \in Peers : owned'[q] \subseteq owned[q]
      BY <2>3 DEF SwarmTypeOK
    <3>3. \A q \in Peers : CleanupOnly(q)'
      BY <3>1
    <3>4. \A u \in Dispatches : Mapped(u)'
      BY <2>1, <2>3, <3>2
    <3>5. AnsweredOnce(t)'
      BY <2>1, <2>3, <3>1, <3>2
    <3>6. \A u \in Dispatches \ {t} : AnsweredOnce(u)'
      BY <2>1, <2>3, <3>1, <3>2
    <3>7. \A u \in Dispatches : Forgotten(u)'
      BY <2>1, <2>3, <3>1
    <3> QED
      BY <3>3, <3>4, <3>5, <3>6, <3>7
  <2> QED
    BY <1>11, <2>2, <2>3, ReplyMoves, SMTT(30)
<1>12. CASE Answer(p)
  <2>1. PICK t : t = server[p].task
    OBVIOUS
  <2>2. /\ active' = active /\ waiting' = waiting /\ owned' = owned /\ dispatch' = dispatch
        /\ server[p].pc = "answer" /\ answer[t] = <<>>
        /\ \A u \in Dispatches \ {t} : answer'[u] = answer[u]
    BY <1>12, <2>1 DEF Answer, SwarmTypeOK
  <2>3. /\ server'[p].pc = "complete" /\ server'[p].task = t /\ server'[p].fail = {}
        /\ server'[p].tell = {} /\ server[p].fail = {} /\ server[p].tell = {}
        /\ \A q \in Peers \ {p} : server'[q] = server[q]
    BY <1>12, <1>s, <2>1, <2>2, ServerMoves DEF Answer, ServerPcs
  <2>4. \A q \in Peers : CleanupOnly(q)'
    BY <2>3
  <2>5. \A u \in Dispatches : Mapped(u)'
    BY <2>2
  <2>6. \A u \in Dispatches : u = t => AnsweredOnce(u)'
    BY <2>1, <2>2, <2>3
  <2>7. \A u \in Dispatches \ {t} : AnsweredOnce(u)'
    BY <2>2, <2>3
  <2>8. \A u \in Dispatches : u = t => Forgotten(u)'
    <3> SUFFICES ASSUME t \in Dispatches PROVE Forgotten(t)'
      OBVIOUS
    <3>1. \E q \in Peers : BeingFinished(q, t)'
      BY <2>3
    <3>2. t \in active' => dispatch'[t].pc \notin {"new", "found"}
      BY <2>2
    <3> HIDE DEF BeingFinished
    <3> QED
      BY <3>1, <3>2
  <2>9. \A u \in Dispatches \ {t} : Forgotten(u)'
    <3>1. \A u \in Dispatches \ {t} : \A q \in Peers : BeingFinished(q, u) => BeingFinished(q, u)'
      BY <2>1, <2>3
    <3> HIDE DEF BeingFinished
    <3> QED
      BY <2>2, <3>1
  <2> QED
    BY <2>4, <2>5, <2>6, <2>7, <2>8, <2>9
<1>13. CASE CollectPending(p)
  <2>1. /\ active' = active /\ answer' = answer /\ dispatch' = dispatch
        /\ waiting' = waiting \ owned[p] /\ \A q \in Peers : owned'[q] \subseteq owned[q]
    BY <1>13 DEF CollectPending, SwarmTypeOK
  <2>2. /\ server'[p].pc = "fail" /\ server'[p].fail = owned[p]
        /\ server'[p].tell = owned[p] \cap waiting
        /\ server[p].pc = "collect" /\ server[p].fail = {} /\ server[p].tell = {}
        /\ \A q \in Peers \ {p} : server'[q] = server[q]
    BY <1>13, CollectMoves
  <2>3. \A q \in Peers : CleanupOnly(q)'
    BY <2>2
  <2>4. \A u \in Dispatches : Mapped(u)'
    BY <2>1
  <2>5. \A u \in owned[p] \cap waiting : u \in Dispatches => AnsweredOnce(u)'
    BY <2>1, <2>2
  <2>6. \A u \in Dispatches \ (owned[p] \cap waiting) : AnsweredOnce(u)'
    BY <2>1, <2>2
  <2>7. \A u \in Dispatches : Forgotten(u)'
    BY <2>1, <2>2
  <2> QED
    BY <2>3, <2>4, <2>5, <2>6, <2>7
<1>14. CASE TellDisconnected(p)
  BY <1>14, TellMoves, OneAnswer DEF TellDisconnected, SwarmTypeOK
<1>15. CASE FailTask(p)
  BY <1>15, FailMoves DEF FailTask, SwarmTypeOK
<1> QED
  BY <1>1, <1>2, <1>3, <1>4, <1>5, <1>6, <1>7, <1>8, <1>9, <1>10, <1>11, <1>12, <1>13, <1>14, <1>15

\* DispatchTask keeps the tasks in order.
LEMMA TaskInvDispatch ==
    ASSUME SwarmTypeOK, TaskInv, NEW t \in Dispatches,
           \/ DispatchTask(t) \/ AddTask(t) \/ TrackTask(t) \/ SendRequest(t) \/ AwaitTask(t)
           \/ UntrackTask(t)
    PROVE  TaskInv'
<1> USE DEF TaskInv, hubVars, mapVars, wireVars, CleanupOnly, Mapped, AnsweredOnce,
            Answering, Dispatched, Forgotten, BeingFinished
<1>d. dispatch \in [Dispatches -> DispatchRecs]
  BY DEF SwarmTypeOK
<1>1. CASE DispatchTask(t)
  <2>1. /\ dispatch[t].pc = "new" /\ dispatch'[t].pc \in {"found", "returned"}
        /\ \A u \in Dispatches \ {t} : dispatch'[u] = dispatch[u]
        /\ server' = server /\ answer' = answer /\ active' = active
        /\ waiting' = waiting /\ owned' = owned
    BY <1>1, <1>d DEF DispatchTask
  <2> QED
    BY <2>1
<1>2. CASE AddTask(t)
  BY <1>2, <1>d, DispatchMoves DEF AddTask, DispatchPcs
<1>3. CASE TrackTask(t)
  BY <1>3, <1>d, DispatchMoves DEF TrackTask, DispatchPcs, SwarmTypeOK
<1>4. CASE SendRequest(t)
  BY <1>4, <1>d, DispatchMoves DEF SendRequest, DispatchPcs
<1>5. CASE AwaitTask(t)
  BY <1>5, <1>d, DispatchMoves DEF AwaitTask, DispatchPcs
<1>6. CASE UntrackTask(t)
  BY <1>6, <1>d, DispatchMoves DEF UntrackTask, DispatchPcs, SwarmTypeOK
<1> QED
  BY <1>1, <1>2, <1>3, <1>4, <1>5, <1>6

LEMMA SwarmInvNext == SwarmInv /\ [SwarmNext]_swarmVars => SwarmInv'
<1> SUFFICES ASSUME SwarmInv, [SwarmNext]_swarmVars PROVE SwarmInv'
  OBVIOUS
<1>1. SwarmTypeOK'
  BY SwarmTypeNext DEF SwarmInv
<1>2. TaskInv'
  <2>1. SwarmTypeOK /\ TaskInv
    BY DEF SwarmInv
  <2>2. CASE UNCHANGED swarmVars
    BY <2>1, <2>2 DEF swarmVars, TaskInv, CleanupOnly, Mapped, AnsweredOnce, Answering,
                      Dispatched, Forgotten, BeingFinished
  <2> QED
    BY <2>1, <2>2, TaskInvServer, TaskInvDispatch DEF SwarmNext
<1> QED
  BY <1>1, <1>2 DEF SwarmInv

\* The tables of the swarm and of the server hold what their declarations say.
THEOREM SwarmTypeCorrect == SwarmSpec => []SwarmTypeOK
<1>1. SwarmInv => SwarmTypeOK
  BY DEF SwarmInv
<1> QED
  BY <1>1, SwarmInvInit, SwarmInvNext, PTL DEF SwarmSpec

\* Whichever of the answer, the disconnect, a failed write and the caller's
\* cancellation comes first, a DispatchTask that returned leaves nothing behind
\* and no goroutine sends a second answer: for every number of connections and
\* calls.
THEOREM TasksAreForgotten == SwarmSpec => []NothingLeftOfTask
<1>1. SwarmInv => NothingLeftOfTask
  BY DEF SwarmInv, TaskInv, Mapped, AnsweredOnce, Answering, Forgotten, NothingLeftOfTask
<1> QED
  BY <1>1, SwarmInvInit, SwarmInvNext, PTL DEF SwarmSpec
=============================================================================
