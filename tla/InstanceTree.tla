---------------------------- MODULE InstanceTree ----------------------------
(***************************************************************************)
(* The tree of agent instances of a Manager: creation, ephemeral spawns,   *)
(* stop, delete, restart of a stopped instance, teardown after the death   *)
(* of a worker, orderly shutdown, crash and restore from the database.     *)
(*                                                                         *)
(* Every operation is a job that takes m.mu several times, so that two     *)
(* jobs interleave at every unlock.  The subtree operations work on a      *)
(* snapshot of the tree, leaf first.  The slots of an instance are one     *)
(* worker here (their own protocol is in SessionSlots), and pausing and    *)
(* resuming subscriptions is in Scheduler.                                 *)
(***************************************************************************)
EXTENDS Integers, FiniteSets

CONSTANTS
    Ids,            \* the instance ids ever handed out
    NoId,           \* the parent of a top-level instance
    Jobs,           \* the goroutines that run operations
    MaxOps,         \* bound on operations begun and workers dying
    MaxCrashes,     \* bound on crashes of the server
    MaxFailures     \* bound on failing starts and missing definitions

ASSUME TreeAssumption == /\ NoId \notin Ids /\ IsFiniteSet(Ids)
                         /\ MaxOps \in Nat /\ MaxCrashes \in Nat
                         /\ MaxFailures \in Nat

VARIABLES
    tmode,      \* mode of an instance, "none" for an id not used yet
    parent,     \* ParentID of its info
    status,     \* status of the registered instance, "none" if unregistered
    children,   \* m.children
    worker,     \* the worker of the registered instance
    channels,   \* the instances whose channels the channelManager runs
    rows,       \* status column of the instances table, "none" without a row
    dirs,       \* the instance directories on disk
    job,        \* what each goroutine is doing
    serving,    \* FALSE from a crash or shutdown until startManager returns
    returned,   \* ephemeral instances whose SpawnEphemeral has returned
    kept,       \* persistent instances created, recorded and never deleted
    ops, crashes, failures

treeVars == <<tmode, parent, status, children, worker, channels, rows, dirs,
              job, serving, returned, kept, ops, crashes, failures>>

Idle == [op |-> "idle", id |-> NoId, pc |-> "done", todo |-> {}, cur |-> NoId,
         seen |-> "none", stale |-> FALSE, new |-> FALSE]

\* What a goroutine keeps of its operation: the instance it is for, its place,
\* the snapshot still to work off, the one in hand and what it knew of it.
JobRecs ==
    [op : {"idle", "create", "spawn", "start", "stop", "delete", "death",
           "shutdown", "boot", "restart", "operator"},
     id : Ids \cup {NoId},
     pc : {"done", "row", "spawn", "register", "hook", "status", "chat",
           "next", "detach", "finish", "operator"},
     todo : SUBSET Ids, cur : Ids \cup {NoId},
     seen : {"none", "running", "stopped"},
     stale : BOOLEAN, new : BOOLEAN]

TreeTypeOK ==
    /\ tmode \in [Ids -> {"none", "ephemeral", "persistent"}]
    /\ parent \in [Ids -> Ids \cup {NoId}]
    /\ status \in [Ids -> {"none", "running", "stopped"}]
    /\ children \in [Ids -> SUBSET Ids]
    /\ worker \in [Ids -> {"none", "live", "dead"}]
    /\ channels \subseteq Ids /\ dirs \subseteq Ids
    /\ rows \in [Ids -> {"none", "running", "stopped"}]
    /\ job \in [Jobs -> JobRecs]
    /\ serving \in BOOLEAN
    /\ returned \subseteq Ids /\ kept \subseteq Ids
    /\ ops \in 0..MaxOps /\ crashes \in 0..MaxCrashes /\ failures \in 0..MaxFailures

TreeInit ==
    /\ tmode = [i \in Ids |-> "none"]
    /\ parent = [i \in Ids |-> NoId]
    /\ status = [i \in Ids |-> "none"]
    /\ children = [i \in Ids |-> {}]
    /\ worker = [i \in Ids |-> "none"]
    /\ channels = {} /\ dirs = {}
    /\ rows = [i \in Ids |-> "none"]
    /\ job = [j \in Jobs |-> Idle]
    /\ serving = FALSE
    /\ returned = {} /\ kept = {}
    /\ ops = 0 /\ crashes = 0 /\ failures = 0

-----------------------------------------------------------------------------
(* The registry.                                                           *)

\* collectDescendants: the registered instance and everything its lists reach,
\* which is what every set has that holds it and the lists of its members.
Descendants(i) ==
    IF status[i] = "none" THEN {}
    ELSE {d \in Ids : \A S \in SUBSET Ids :
            (i \in S /\ \A c \in S : children[c] \subseteq S) => d \in S}

Depth == LET d[i \in Ids] == IF parent[i] = NoId THEN 0 ELSE 1 + d[parent[i]]
         IN  d

\* Leaf first: a member of the snapshot that none of the others is below.
LeafOf(S) == {i \in S : \A k \in S : Depth[k] <= Depth[i]}

\* Mutant of Unregister: the parent's list keeps the child.
UnregisterKeepingSibling(i, known) == [children EXCEPT ![i] = {}]

\* unregisterLocked's effect on m.children; known is FALSE for a nil instance.
Unregister(i, known) ==
    [c \in Ids |-> IF c = i THEN {}
                   ELSE IF known /\ c = parent[i] THEN children[c] \ {i}
                   ELSE children[c]]

\* registerAndStartInstance and reregisterStopped: instances and children.
Enlist(i) == IF parent[i] = NoId THEN children
             ELSE [children EXCEPT ![parent[i]] = @ \cup {i}]

\* The rows left when row i is deleted: parent_id cascades.
CascadeDelete(S) ==
    LET Doomed[n \in 0..Cardinality(Ids)] ==
            IF n = 0 THEN S
            ELSE Doomed[n - 1] \cup {c \in Ids : parent[c] \in Doomed[n - 1]}
    IN  [i \in Ids |-> IF i \in Doomed[Cardinality(Ids)] THEN "none" ELSE rows[i]]

Step(j, r) == job' = [job EXCEPT ![j] = r]
At(j, pc) == job[j].pc = pc
Goto(j, pc) == Step(j, [job[j] EXCEPT !.pc = pc])
Return(j) == Step(j, Idle)

\* Unused ids, and goroutines without an operation, are interchangeable.
NewId(i) == tmode[i] = "none" /\ i = CHOOSE k \in Ids : tmode[k] = "none"
Free(j) == job[j] = Idle /\ j = CHOOSE k \in Jobs : job[k] = Idle

\* One more operation within the bound.
Counted == ops < MaxOps /\ ops' = ops + 1

-----------------------------------------------------------------------------
(* startInstance, as CreateInstance, SpawnEphemeral, StartInstance and     *)
(* restoreRunningInstance run it on job[j].id.                             *)

\* The caller of a tool is a running instance; the operator has no parent.
BeginCreate(j, i, p, m) ==
    /\ Counted
    /\ Free(j) /\ serving
    /\ NewId(i) /\ p \in Ids /\ status[p] = "running"
    /\ tmode' = [tmode EXCEPT ![i] = m]
    /\ parent' = [parent EXCEPT ![i] = p]
    /\ Step(j, [Idle EXCEPT !.op = IF m = "ephemeral" THEN "spawn" ELSE "create",
                            !.id = i, !.pc = "row"])
    /\ UNCHANGED <<status, children, worker, channels, rows, dirs, serving,
                   returned, kept, crashes, failures>>

\* restoreRunningInstance is done with one instance.
Restored(r) == [r EXCEPT !.pc = IF r.todo = {} THEN "operator" ELSE "next"]

\* Where an error of startInstance goes: only the restore loop continues.
AfterFailure(j) == IF job[j].op = "boot" THEN Restored(job[j]) ELSE Idle

\* StartInstance puts the instance back as stopped when the start failed.
Reregister(j) ==
    LET restart == job[j].op \in {"start", "restart"} IN
    /\ status' = IF restart THEN [status EXCEPT ![job[j].id] = "stopped"] ELSE status
    /\ children' = IF restart THEN Enlist(job[j].id) ELSE children

\* prepareInstanceDirs and registerInstanceInDB: a row that exists is kept,
\* a new row needs its parent's row, and nothing is cleaned up on failure.
RegisterRow(j) ==
    LET i == job[j].id
        fits == (rows[i] = "none" /\ parent[i] # NoId) => rows[parent[i]] # "none"
    IN  /\ At(j, "row")
        /\ dirs' = dirs \cup {i}
        /\ \/ /\ fits
              /\ rows' = [rows EXCEPT ![i] = IF @ = "none" THEN "running" ELSE @]
              /\ Step(j, [job[j] EXCEPT !.pc = "spawn", !.new = i \notin dirs])
              /\ UNCHANGED <<status, children>>
           \/ /\ ~fits
              /\ Step(j, AfterFailure(j)) /\ Reregister(j)
              /\ UNCHANGED rows
        /\ returned' = IF ~fits /\ job[j].op = "spawn" THEN returned \cup {i}
                       ELSE returned
        /\ UNCHANGED <<tmode, parent, worker, channels, serving, kept,
                       ops, crashes, failures>>

\* spawnWorker and createInferenceLoop, which may fail: the directory goes
\* if this call made it, the row stays.
SpawnWorker(j) ==
    LET i == job[j].id IN
    /\ At(j, "spawn")
    /\ \/ Goto(j, "register") /\ UNCHANGED <<dirs, status, children, returned, failures>>
       \/ /\ failures < MaxFailures /\ failures' = failures + 1
          /\ dirs' = IF job[j].new THEN dirs \ {i} ELSE dirs
          /\ returned' = IF job[j].op = "spawn" THEN returned \cup {i} ELSE returned
          /\ Step(j, AfterFailure(j)) /\ Reregister(j)
    /\ UNCHANGED <<tmode, parent, worker, channels, rows, serving, kept, ops, crashes>>

\* registerAndStartInstance up to its unlock.  A job that had looked the
\* instance up before now holds an instance that is no longer registered.
Register(j) ==
    LET i == job[j].id IN
    /\ At(j, "register")
    /\ status' = [status EXCEPT ![i] = "running"]
    /\ children' = Enlist(i)
    /\ worker' = [worker EXCEPT ![i] = "live"]
    /\ kept' = IF job[j].op \in {"create", "operator"} /\ rows[i] # "none"
               THEN kept \cup {i} ELSE kept
    /\ job' = [k \in Jobs |->
                 IF k = j THEN [job[j] EXCEPT !.pc = "hook"]
                 ELSE [job[k] EXCEPT !.stale = @ \/ (job[k].cur = i)]]
    /\ UNCHANGED <<tmode, parent, channels, rows, dirs, serving, returned,
                   ops, crashes, failures>>

\* OnInstanceStart starts the channels of the instance, then the caller goes on.
StartHook(j) ==
    LET r == job[j] IN
    /\ At(j, "hook")
    /\ channels' = channels \cup {r.id}
    /\ serving' = (serving \/ r.op = "operator")
    /\ Step(j, CASE r.op \in {"create", "operator"} -> Idle
                 [] r.op = "spawn" -> [r EXCEPT !.pc = "chat"]
                 [] r.op \in {"start", "restart"} -> [r EXCEPT !.pc = "status"]
                 [] r.op = "boot" -> Restored(r))
    /\ UNCHANGED <<tmode, parent, status, children, worker, rows, dirs,
                   returned, kept, ops, crashes, failures>>

\* StartInstance: the stopped entry is removed before anything can fail.
BeginStart(j, i) ==
    /\ Counted
    /\ Free(j) /\ serving
    /\ status[i] = "stopped"
    /\ status' = [status EXCEPT ![i] = "none"]
    /\ children' = Unregister(i, TRUE)
    /\ worker' = [worker EXCEPT ![i] = "none"]
    /\ Step(j, [Idle EXCEPT !.op = "start", !.id = i, !.pc = "row"])
    /\ UNCHANGED <<tmode, parent, channels, rows, dirs, serving, returned, kept,
                   crashes, failures>>

\* StartInstance: setInstanceStatus(running) after startInstance returned.
SetRunning(j) ==
    LET i == job[j].id IN
    /\ At(j, "status")
    /\ rows' = [rows EXCEPT ![i] = IF @ = "none" THEN @ ELSE "running"]
    /\ Return(j)
    /\ serving' = (serving \/ job[j].op = "restart")
    /\ UNCHANGED <<tmode, parent, status, children, worker, channels, dirs,
                   returned, kept, ops, crashes, failures>>

-----------------------------------------------------------------------------
(* The subtree operations.                                                 *)

\* StopInstance and DeleteInstance take their snapshot.  Stopping an instance
\* that is already stopped returns at once.
BeginTeardown(j, i, op) ==
    /\ Counted
    /\ Free(j) /\ serving
    /\ status[i] # "none"
    /\ op = "stop" => status[i] # "stopped"
    /\ Step(j, [Idle EXCEPT !.op = op, !.id = i, !.pc = "next", !.todo = Descendants(i)])
    /\ kept' = IF op = "delete" THEN kept \ Descendants(i) ELSE kept
    /\ UNCHANGED <<tmode, parent, status, children, worker, channels, rows, dirs,
                   serving, returned, crashes, failures>>

\* Mutant of ChatEnds: a failed prompt returns before the instance is stopped.
ChatEndsStoppingOnSuccess(j) ==
    LET i == job[j].id IN
    /\ At(j, "chat")
    /\ IF worker[i] = "live"
       THEN /\ Step(j, [job[j] EXCEPT !.pc = "next", !.todo = Descendants(i)])
            /\ UNCHANGED returned
       ELSE Return(j) /\ returned' = returned \cup {i}
    /\ UNCHANGED <<tmode, parent, status, children, worker, channels, rows, dirs,
                   serving, kept, ops, crashes, failures>>

\* SpawnEphemeral: SendMessage returned, with a result or an error, and the
\* instance is stopped with its subtree.
ChatEnds(j) ==
    LET i == job[j].id IN
    /\ At(j, "chat")
    /\ Step(j, [job[j] EXCEPT !.pc = "next", !.todo = Descendants(i)])
    /\ UNCHANGED <<tmode, parent, status, children, worker, channels, rows, dirs,
                   serving, returned, kept, ops, crashes, failures>>

\* A worker exits by itself.
WorkerDies(i) ==
    /\ Counted
    /\ worker[i] = "live"
    /\ worker' = [worker EXCEPT ![i] = "dead"]
    /\ UNCHANGED <<tmode, parent, status, children, channels, rows, dirs, job,
                   serving, returned, kept, crashes, failures>>

\* watchSlotWorker found the last worker of the instance dead.
BeginDeath(j, i) ==
    /\ Free(j)
    /\ worker[i] = "dead"
    /\ worker' = [worker EXCEPT ![i] = "none"]
    /\ Step(j, [Idle EXCEPT !.op = "death", !.id = i, !.pc = "next",
                            !.todo = Descendants(i)])
    /\ UNCHANGED <<tmode, parent, status, children, channels, rows, dirs, serving,
                   returned, kept, ops, crashes, failures>>

\* Manager.Shutdown takes every registered instance.
BeginShutdown(j) ==
    /\ Counted
    /\ Free(j) /\ serving
    /\ crashes < MaxCrashes
    /\ serving' = FALSE
    /\ Step(j, [Idle EXCEPT !.op = "shutdown", !.pc = "next",
                            !.todo = {i \in Ids : status[i] # "none"}])
    /\ UNCHANGED <<tmode, parent, status, children, worker, channels, rows, dirs,
                   returned, kept, crashes, failures>>

\* The head of the loop over the snapshot: skip what is gone or, for a stop
\* and a death, already stopped; otherwise stop its channels first.
NextInSnapshot(j) ==
    LET r == job[j] IN
    /\ At(j, "next") /\ r.op # "boot"
    /\ \E i \in LeafOf(r.todo) :
         LET skip == IF r.op \in {"stop", "spawn", "death"} THEN status[i] # "running"
                     ELSE status[i] = "none"
             hook == ~skip /\ status[i] = "running"
         IN  /\ channels' = IF hook THEN channels \ {i} ELSE channels
             /\ Step(j, IF skip THEN [r EXCEPT !.todo = @ \ {i}]
                        ELSE [r EXCEPT !.todo = @ \ {i}, !.cur = i, !.pc = "detach",
                                       !.seen = status[i], !.stale = FALSE])
    /\ UNCHANGED <<tmode, parent, status, children, worker, rows, dirs, serving,
                   returned, kept, ops, crashes, failures>>

\* softStop, removeInstance, and the locked part of handleInstanceDeath and
\* of DeleteInstance's and Shutdown's branch for a stopped instance.
Detach(j) ==
    LET r == job[j]
        i == r.cur
        soft == r.op \in {"stop", "spawn", "death"} /\ tmode[i] = "persistent"
        dropped == r.op = "death" /\ (r.stale \/ status[i] # "running")
        known == status[i] # "none" \/ r.seen = "stopped" \/ r.op = "death"
    IN  /\ At(j, "detach")
        /\ \/ /\ soft /\ (dropped \/ status[i] = "none")
              /\ Step(j, [r EXCEPT !.pc = "next"])
              /\ UNCHANGED <<status, children, worker>>
           \/ /\ soft /\ ~dropped /\ status[i] # "none"
              /\ status' = [status EXCEPT ![i] = "stopped"]
              /\ worker' = [worker EXCEPT ![i] = "none"]
              /\ Goto(j, "finish")
              /\ UNCHANGED children
           \/ /\ ~soft
              /\ status' = [status EXCEPT ![i] = "none"]
              /\ worker' = [worker EXCEPT ![i] = "none"]
              /\ children' = Unregister(i, known)
              /\ Goto(j, "finish")
        /\ UNCHANGED <<tmode, parent, channels, rows, dirs, serving, returned,
                       kept, ops, crashes, failures>>

\* After the workers are shut down: a soft stop records the status, an
\* ephemeral instance loses its directory, a delete removes directory,
\* config and row.  Shutdown leaves the row running.
Finish(j) ==
    LET r == job[j]
        i == r.cur
        soft == r.op \in {"stop", "spawn", "death"} /\ tmode[i] = "persistent"
    IN  /\ At(j, "finish")
        /\ rows' = IF r.op = "delete" THEN CascadeDelete({i})
                   ELSE IF soft /\ rows[i] # "none" THEN [rows EXCEPT ![i] = "stopped"]
                   ELSE rows
        /\ dirs' = IF r.op = "delete" \/ tmode[i] = "ephemeral" THEN dirs \ {i} ELSE dirs
        /\ kept' = IF r.op = "delete" THEN {k \in kept : rows'[k] # "none"} ELSE kept
        /\ Step(j, [r EXCEPT !.pc = "next", !.cur = NoId])
        /\ UNCHANGED <<tmode, parent, status, children, worker, channels, serving,
                       returned, ops, crashes, failures>>

\* The snapshot is worked off.
TeardownReturns(j) ==
    LET r == job[j] IN
    /\ At(j, "next") /\ r.todo = {} /\ r.op # "boot"
    /\ r.op # "shutdown"
    /\ Return(j)
    /\ returned' = IF r.op = "spawn" THEN returned \cup {r.id} ELSE returned
    /\ UNCHANGED <<tmode, parent, status, children, worker, channels, rows, dirs,
                   serving, kept, ops, crashes, failures>>

-----------------------------------------------------------------------------
(* The server process.                                                     *)

\* The process ends: killed at any moment, after Shutdown returned, or because
\* startManager failed.
Crash ==
    /\ crashes < MaxCrashes
    /\ crashes' = crashes + 1
    /\ status' = [i \in Ids |-> "none"]
    /\ children' = [i \in Ids |-> {}]
    /\ worker' = [i \in Ids |-> "none"]
    /\ channels' = {}
    /\ serving' = FALSE
    /\ job' = [j \in Jobs |-> Idle]
    /\ UNCHANGED <<tmode, parent, rows, dirs, returned, kept, ops, failures>>

\* RestoreInstances up to its loop: ephemeral instances and those whose agent
\* definition is gone are deleted, stopped ones registered, the others queued.
\* Both lists come from the rows as they were before the deletions.
Restore(j) ==
    /\ ~serving /\ Free(j) /\ \A k \in Jobs : job[k] = Idle
    /\ \A i \in Ids : status[i] = "none"
    /\ \E gone \in SUBSET {i \in Ids : rows[i] # "none" /\ tmode[i] = "persistent"} :
         LET ephemeral == {i \in Ids : rows[i] # "none" /\ tmode[i] = "ephemeral"}
             listed == {i \in Ids : rows[i] # "none"} \ (ephemeral \cup gone)
             stopped == {i \in listed : rows[i] = "stopped"}
         IN  /\ Cardinality(gone) <= MaxFailures - failures
             /\ failures' = failures + Cardinality(gone)
             /\ rows' = CascadeDelete(ephemeral \cup gone)
             /\ dirs' = dirs \ (ephemeral \cup gone)
             /\ kept' = kept \ {i \in Ids : i \in gone \/ parent[i] \in gone}
             /\ status' = [i \in Ids |-> IF i \in stopped THEN "stopped" ELSE "none"]
             /\ children' = [p \in Ids |-> {c \in stopped : parent[c] = p}]
             /\ Step(j, [Idle EXCEPT !.op = "boot", !.todo = listed \ stopped,
                                     !.pc = IF listed \ stopped = {} THEN "operator"
                                            ELSE "next"])
    /\ UNCHANGED <<tmode, parent, worker, channels, serving, returned, ops, crashes>>

\* restoreRunningInstance: an instance without a directory loses its row.
RestoreNext(j) ==
    LET r == job[j] IN
    /\ At(j, "next") /\ r.op = "boot"
    /\ \E i \in r.todo :
         IF i \in dirs
         THEN /\ Step(j, [r EXCEPT !.id = i, !.todo = @ \ {i}, !.pc = "row"])
              /\ UNCHANGED rows
         ELSE /\ rows' = CascadeDelete({i})
              /\ Step(j, [r EXCEPT !.todo = @ \ {i},
                                   !.pc = IF r.todo = {i} THEN "operator" ELSE "next"])
    /\ UNCHANGED <<tmode, parent, status, children, worker, channels, dirs, serving,
                   returned, kept, ops, crashes, failures>>

\* InstanceByAgentName("operator"): the operators are the top-level instances.
Operators == {i \in Ids : tmode[i] = "persistent" /\ parent[i] = NoId /\ status[i] # "none"}

\* bootstrapOperator: running, stopped or missing.
BootstrapOperator(j) ==
    /\ At(j, "operator")
    /\ \/ /\ \E i \in Operators : status[i] = "running"
          /\ serving' = TRUE /\ Return(j)
          /\ UNCHANGED <<tmode, status, children, worker>>
       \/ /\ \A i \in Operators : status[i] = "stopped"
          /\ \E i \in Operators :
               /\ status' = [status EXCEPT ![i] = "none"]
               /\ children' = Unregister(i, TRUE)
               /\ worker' = [worker EXCEPT ![i] = "none"]
               /\ Step(j, [Idle EXCEPT !.op = "restart", !.id = i, !.pc = "row"])
          /\ UNCHANGED <<tmode, serving>>
       \/ /\ Operators = {}
          /\ \E i \in Ids :
               /\ NewId(i)
               /\ tmode' = [tmode EXCEPT ![i] = "persistent"]
               /\ Step(j, [Idle EXCEPT !.op = "operator", !.id = i, !.pc = "row"])
          /\ UNCHANGED <<serving, status, children, worker>>
    /\ UNCHANGED <<parent, channels, rows, dirs, returned, kept, ops, crashes, failures>>

-----------------------------------------------------------------------------
TreeStep(j) ==
    \/ RegisterRow(j) \/ SpawnWorker(j) \/ Register(j) \/ StartHook(j)
    \/ SetRunning(j) \/ ChatEnds(j) \/ NextInSnapshot(j) \/ Detach(j)
    \/ Finish(j) \/ TeardownReturns(j) \/ Restore(j) \/ RestoreNext(j)
    \/ BootstrapOperator(j) \/ BeginShutdown(j)

TreeNext ==
    \/ \E j \in Jobs : TreeStep(j)
    \/ \E j \in Jobs, i \in Ids :
         \/ \E p \in Ids, m \in {"ephemeral", "persistent"} : BeginCreate(j, i, p, m)
         \/ BeginStart(j, i)
         \/ \E op \in {"stop", "delete"} : BeginTeardown(j, i, op)
         \/ BeginDeath(j, i)
    \/ \E i \in Ids : WorkerDies(i)
    \/ Crash

TreeSpec == TreeInit /\ [][TreeNext]_treeVars

-----------------------------------------------------------------------------
(* What the manager promises.                                              *)

\* m.children lists only registered instances, each under its own parent,
\* whatever stops, deletes, restarts and deaths overlap: a list that kept a
\* removed child would make collectDescendants walk, and IsDescendant accept,
\* an instance that is gone (unregisterLocked, manager.go).
ChildrenRegistered ==
    \A p \in Ids : \A c \in children[p] : status[c] # "none" /\ parent[c] = p

\* When SpawnEphemeral has returned, its instance is out of the registry with
\* its worker: an error of the prompt, a worker that died, a concurrent stop
\* or delete of the parent leave no subagent running that nobody waits for
\* (manager_lifecycle.go, SpawnEphemeral).
SpawnLeavesNothing ==
    \A i \in returned : status[i] = "none" /\ worker[i] = "none"

\* "Persistent and operator instances survive server restarts" (docs): once
\* the server serves, every persistent instance that was created and not
\* deleted is registered, or some job is starting it.
PersistentSurvivesRestart ==
    serving => \A i \in kept : status[i] # "none" \/ \E j \in Jobs : job[j].id = i

=============================================================================
