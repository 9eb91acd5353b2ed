----------------------------- MODULE Scheduler -----------------------------
(***************************************************************************)
(* The cron scheduler of internal/agent/scheduler.go together with what    *)
(* drives it: the subscriptions table, the agents' schedule tools, the     *)
(* subscription endpoints of the API, and the Manager calls that pause and *)
(* resume the schedules of an instance.                                    *)
(*                                                                         *)
(* The scheduler keeps its own copy of the table in a min-heap guarded by  *)
(* s.mu.  Every client writes the table first and the heap afterwards, in  *)
(* two separate critical sections, while up to one goroutine per           *)
(* subscription runs a turn and puts its entry back when it ends.  A       *)
(* client's request is therefore a small program here: op[c].pc is the     *)
(* next step of the request that client c has under way.                   *)
(***************************************************************************)
EXTENDS Integers, Bags

CONSTANTS
    Subs,            \* subscription IDs; a UUID is never used twice
    Instances,       \* persistent agent instances
    InstOf,          \* InstOf[s]: the instance a subscription belongs to
    Kind,            \* Kind[s]: "cron" or "once"
    CronNext(_, _),  \* CronNext(s, t): first fire time of s strictly after t
    Fires,           \* identities of fireSingle goroutines
    Callers,         \* clients that may have a request under way at once
    Requests,        \* the classes of requests the clients send
    TicksPerSecond,  \* resolution of the model's clock
    MaxDelay,        \* bound: furthest one-shot, in ticks from now
    MaxTime,         \* bound: last tick of the clock
    MaxRequests,     \* bound: requests sent in one behaviour
    MaxExits,        \* bound: graceful restarts
    MaxCrashes,      \* bound: process crashes
    Nil              \* "nothing here"

\* NULL in the next_fire column, and a nil *time.Time.
Null == -1

SubRequests == {"schedule", "cancel", "pause",
                "resume", "resume_stopped", "resume_active"}
InstRequests == {"stop", "start", "delete", "death"}

Rows == [status: {"fresh", "active", "paused", "gone"},
         next: Nat \cup {Null}, at: Nat]
FireRecs == [sub: Subs, pc: {"launch", "chat", "record", "drop", "finish"},
             next: Nat \cup {Null}, ok: BOOLEAN, held: BOOLEAN]
SubOps == [kind: SubRequests, pc: {"add", "remove", "activate"},
           sub: Subs, inst: Instances, at: 0..MaxTime, todo: SUBSET Subs,
           built: SUBSET (Subs \X Nat), held: BOOLEAN]
InstOps == [kind: InstRequests,
            pc: {"pauseRows", "pauseHeap", "dropRow", "unregister", "spawn",
                 "startRow", "resumeRows", "build"},
            sub: {Nil}, inst: Instances, at: 0..MaxTime, todo: SUBSET Subs,
            built: SUBSET (Subs \X Nat), held: BOOLEAN]

ASSUME SubsAssumption ==
    /\ InstOf \in [Subs -> Instances]
    /\ Kind \in [Subs -> {"cron", "once"}]

ASSUME ClockAssumption ==
    /\ MaxTime \in Nat /\ MaxDelay \in Nat /\ TicksPerSecond \in Nat \ {0}
    /\ \A s \in Subs, t \in 0..MaxTime : CronNext(s, t) \in Nat /\ CronNext(s, t) > t

ASSUME BoundsAssumption ==
    /\ MaxRequests \in Nat /\ MaxExits \in Nat /\ MaxCrashes \in Nat
    /\ Requests \subseteq SubRequests \cup InstRequests

ASSUME NilAssumption == Nil \notin Subs \cup FireRecs \cup SubOps \cup InstOps

VARIABLES
    now,        \* the wall clock
    mode,       \* the server process: "up", "stopping" (ctx cancelled) or "down"
    db,         \* the subscriptions table
    instRow,    \* status column of the instances table
    inst,       \* the Manager's registry: "running", "stopped" or "absent"
    heap,       \* Scheduler.heap: bag of entries <<sub, nextFire>>
    running,    \* Scheduler.running
    cancelled,  \* Scheduler.cancelled
    fire,       \* the fireSingle goroutines
    loop,       \* the run goroutine: its pc and the time it works with
    wake,       \* whether the wake channel holds its one signal
    op,         \* the request each client has under way
    used,       \* requests, exits and crashes so far (they are bounded)
    shots       \* history: one-shot subscriptions launched so far

procVars == <<now, mode, used>>
tableVars == <<db, instRow, inst>>
schedVars == <<heap, running, cancelled, wake>>
fireVars == <<fire, shots>>
vars == <<procVars, tableVars, schedVars, fireVars, loop, op>>

SubsOf(i) == {s \in Subs : InstOf[s] = i}
HasRow(s) == db[s].status \in {"active", "paused"}
InFlight == {g \in Fires : fire[g] # Nil}
OpsUnderWay == {c \in Callers : op[c] # Nil}

Entries(s) == {e \in BagToSet(heap) : e[1] = s}
Soonest == {e \in BagToSet(heap) : \A f \in BagToSet(heap) : e[2] <= f[2]}

\* fireAt.UTC().Format(time.RFC3339) drops the fraction of the second.
Trunc(t) == t - (t % TicksPerSecond)

(***************************************************************************)
(* Effects on the table.  A statement whose row is missing changes nothing *)
(* (the code logs the "not found" error or returns it).                    *)
(***************************************************************************)
DeleteSubscription(s) ==
    IF HasRow(s) THEN [db EXCEPT ![s].status = "gone", ![s].next = Null] ELSE db

SetNext(s, t) == IF HasRow(s) THEN [db EXCEPT ![s].next = t] ELSE db

SetStatus(s, st) == IF HasRow(s) THEN [db EXCEPT ![s].status = st] ELSE db

\* Mutant of BuildTime: the "already past" case is forgotten.
BuildTimeKeepsPast(s, t) ==
    IF Kind[s] = "cron" THEN CronNext(s, t) ELSE db[s].at

\* buildEntry: when the subscription fires next, Null for a one-shot whose
\* time has passed.  The caller deletes the row of such a one-shot.
BuildTime(s, t) ==
    IF Kind[s] = "cron" THEN CronNext(s, t)
    ELSE IF db[s].at > t THEN db[s].at ELSE Null

-----------------------------------------------------------------------------
(***************************************************************************)
(* Clients.  Every request starts in one of the Begin actions; the first   *)
(* effect of its handler is part of it.                                    *)
(***************************************************************************)
Request(kind, pc, s, i) ==
    [kind |-> kind, pc |-> pc, sub |-> s, inst |-> i, at |-> 0,
     todo |-> {}, built |-> {}, held |-> kind = "schedule"]

MayBegin(c, kind) ==
    /\ mode = "up" /\ op[c] = Nil
    /\ kind \in Requests /\ used.requests < MaxRequests

Begin(c, o) ==
    /\ op' = [op EXCEPT ![c] = o]
    /\ used' = [used EXCEPT !.requests = @ + 1]

Continue(c, pc) == op' = [op EXCEPT ![c].pc = pc]
Return(c) == op' = [op EXCEPT ![c] = Nil]

\* Turns and tool calls of instance i that hold a slot detachAllSlots waits for.
HoldsSlot(i) ==
    \/ \E g \in InFlight : fire[g].held /\ InstOf[fire[g].sub] = i
    \/ \E c \in OpsUnderWay : op[c].held /\ op[c].inst = i

\* handleScheduleRecurring, handleScheduleOnce up to CreateSubscription.
ScheduleRecurring(c, s) ==
    /\ MayBegin(c, "schedule") /\ Kind[s] = "cron"
    /\ db[s].status = "fresh" /\ inst[InstOf[s]] = "running" /\ instRow[InstOf[s]] # "gone"
    /\ db' = [db EXCEPT ![s] = [status |-> "active", next |-> CronNext(s, now), at |-> 0]]
    /\ Begin(c, Request("schedule", "add", s, InstOf[s]))
    /\ UNCHANGED <<now, mode, instRow, inst, schedVars, fireVars, loop>>

ScheduleOnce(c, s) ==
    /\ MayBegin(c, "schedule") /\ Kind[s] = "once"
    /\ db[s].status = "fresh" /\ inst[InstOf[s]] = "running" /\ instRow[InstOf[s]] # "gone"
    /\ \E fireAt \in now + 1 .. now + MaxDelay :
         db' = [db EXCEPT ![s] = [status |-> "active", next |-> fireAt, at |-> Trunc(fireAt)]]
    /\ Begin(c, Request("schedule", "add", s, InstOf[s]))
    /\ UNCHANGED <<now, mode, instRow, inst, schedVars, fireVars, loop>>

\* Mutant of Add: the run loop is not signalled.
AddNoSignal(c) ==
    /\ mode # "down" /\ op[c] # Nil /\ op[c].pc = "add"
    /\ LET t == BuildTime(op[c].sub, now) IN
       /\ db' = IF t = Null THEN DeleteSubscription(op[c].sub) ELSE db
       /\ heap' = IF t = Null THEN heap ELSE heap (+) SetToBag({<<op[c].sub, t>>})
    /\ Return(c)
    /\ UNCHANGED <<procVars, instRow, inst, running, cancelled, wake, fireVars, loop>>

\* Scheduler.Add.
Add(c) ==
    /\ mode # "down" /\ op[c] # Nil /\ op[c].pc = "add"
    /\ LET s == op[c].sub
           t == BuildTime(s, now)
       IN IF t = Null
          THEN /\ db' = DeleteSubscription(s)
               /\ UNCHANGED <<heap, wake>>
          ELSE /\ heap' = heap (+) SetToBag({<<s, t>>})
               /\ wake' = TRUE
               /\ UNCHANGED db
    /\ Return(c)
    /\ UNCHANGED <<procVars, instRow, inst, running, cancelled, fireVars, loop>>

\* handleCancelSchedule and handleDeleteSubscription up to DeleteSubscription.
CancelSchedule(c, s) ==
    /\ MayBegin(c, "cancel") /\ HasRow(s)
    /\ db' = DeleteSubscription(s)
    /\ Begin(c, Request("cancel", "remove", s, InstOf[s]))
    /\ UNCHANGED <<now, mode, instRow, inst, schedVars, fireVars, loop>>

\* handlePauseSubscription up to UpdateSubscriptionStatus, which clears next_fire.
PauseSubscription(c, s) ==
    /\ MayBegin(c, "pause") /\ HasRow(s)
    /\ db' = [db EXCEPT ![s].status = "paused", ![s].next = Null]
    /\ Begin(c, Request("pause", "remove", s, InstOf[s]))
    /\ UNCHANGED <<now, mode, instRow, inst, schedVars, fireVars, loop>>

\* Scheduler.Remove: one entry, or a cancellation if the entry is out firing.
Remove(c) ==
    /\ mode # "down" /\ op[c] # Nil /\ op[c].pc = "remove"
    /\ LET s == op[c].sub IN
       \/ \E e \in Entries(s) : heap' = heap (-) SetToBag({e}) /\ UNCHANGED cancelled
       \/ /\ Entries(s) = {}
          /\ cancelled' = cancelled \cup ({s} \cap running)
          /\ UNCHANGED heap
    /\ wake' = TRUE
    /\ Return(c)
    /\ UNCHANGED <<procVars, tableVars, running, fireVars, loop>>

\* handleResumeSubscription: GetSubscription, then the status, then Add.  The
\* handler accepts any subscription; the class says what the client saw.
ResumeClass(s) ==
    IF db[s].status = "active" THEN "resume_active"
    ELSE IF inst[InstOf[s]] = "running" THEN "resume" ELSE "resume_stopped"

ResumeSubscription(c, s) ==
    /\ MayBegin(c, ResumeClass(s)) /\ HasRow(s)
    /\ Begin(c, Request(ResumeClass(s), "activate", s, InstOf[s]))
    /\ UNCHANGED <<now, mode, tableVars, schedVars, fireVars, loop>>

Activate(c) ==
    /\ mode # "down" /\ op[c] # Nil /\ op[c].pc = "activate"
    /\ db' = SetStatus(op[c].sub, "active")
    /\ IF HasRow(op[c].sub) THEN Continue(c, "add") ELSE Return(c)
    /\ UNCHANGED <<procVars, instRow, inst, schedVars, fireVars, loop>>

-----------------------------------------------------------------------------
(***************************************************************************)
(* Manager calls that pause and resume the schedules of an instance.       *)
(***************************************************************************)

\* StopInstance / softStop up to setInstanceStatus.
StopInstance(c, i) ==
    /\ MayBegin(c, "stop") /\ inst[i] = "running" /\ ~HoldsSlot(i)
    /\ inst' = [inst EXCEPT ![i] = "stopped"]
    /\ instRow' = [instRow EXCEPT ![i] = IF @ = "gone" THEN @ ELSE "stopped"]
    /\ Begin(c, Request("stop", "pauseRows", Nil, i))
    /\ UNCHANGED <<now, mode, db, schedVars, fireVars, loop>>

\* DeleteInstance up to PauseInstance.
DeleteInstance(c, i) ==
    /\ MayBegin(c, "delete") /\ inst[i] # "absent"
    /\ inst[i] = "running" => ~HoldsSlot(i)
    /\ inst' = [inst EXCEPT ![i] = "absent"]
    /\ Begin(c, Request("delete", "pauseRows", Nil, i))
    /\ UNCHANGED <<now, mode, db, instRow, schedVars, fireVars, loop>>

\* PauseInstanceSubscriptions.
PauseRows(c) ==
    /\ mode # "down" /\ op[c] # Nil /\ op[c].pc = "pauseRows"
    /\ db' = [s \in Subs |->
                IF InstOf[s] = op[c].inst /\ db[s].status = "active"
                THEN [db[s] EXCEPT !.status = "paused"] ELSE db[s]]
    /\ Continue(c, "pauseHeap")
    /\ UNCHANGED <<procVars, instRow, inst, schedVars, fireVars, loop>>

\* The critical section of Scheduler.PauseInstance.
PauseHeap(c) ==
    /\ mode # "down" /\ op[c] # Nil /\ op[c].pc = "pauseHeap"
    /\ heap' = [e \in {d \in BagToSet(heap) : InstOf[d[1]] # op[c].inst} |-> heap[e]]
    /\ cancelled' = cancelled \cup (running \cap SubsOf(op[c].inst))
    /\ wake' = TRUE
    /\ IF op[c].kind = "delete" THEN Continue(c, "dropRow") ELSE Return(c)
    /\ UNCHANGED <<procVars, tableVars, running, fireVars, loop>>

\* The end of DeleteInstance: the row goes, and ON DELETE CASCADE its schedules.
DropRow(c) ==
    /\ mode # "down" /\ op[c] # Nil /\ op[c].pc = "dropRow"
    /\ instRow' = [instRow EXCEPT ![op[c].inst] = "gone"]
    /\ db' = [s \in Subs |->
                IF InstOf[s] = op[c].inst /\ HasRow(s)
                THEN [db[s] EXCEPT !.status = "gone", !.next = Null] ELSE db[s]]
    /\ Return(c)
    /\ UNCHANGED <<procVars, inst, schedVars, fireVars, loop>>

\* StartInstance: the check, then unregisterLocked, then startInstance.
StartInstance(c, i) ==
    /\ MayBegin(c, "start") /\ inst[i] = "stopped"
    /\ Begin(c, Request("start", "unregister", Nil, i))
    /\ UNCHANGED <<now, mode, tableVars, schedVars, fireVars, loop>>

Unregister(c) ==
    /\ mode # "down" /\ op[c] # Nil /\ op[c].pc = "unregister"
    /\ inst' = [inst EXCEPT ![op[c].inst] = "absent"]
    /\ Continue(c, "spawn")
    /\ UNCHANGED <<procVars, db, instRow, schedVars, fireVars, loop>>

\* startInstance inserts the instance's row again if it was deleted meanwhile.
Spawn(c) ==
    /\ mode # "down" /\ op[c] # Nil /\ op[c].pc = "spawn"
    /\ \/ /\ inst' = [inst EXCEPT ![op[c].inst] = "running"]
          /\ Continue(c, "startRow")
       \/ /\ inst' = [inst EXCEPT ![op[c].inst] = "stopped"]
          /\ Return(c)
    /\ instRow' = [instRow EXCEPT ![op[c].inst] = IF @ = "gone" THEN "running" ELSE @]
    /\ UNCHANGED <<procVars, db, schedVars, fireVars, loop>>

StartRow(c) ==
    /\ mode # "down" /\ op[c] # Nil /\ op[c].pc = "startRow"
    /\ instRow' = [instRow EXCEPT ![op[c].inst] = IF @ = "gone" THEN @ ELSE "running"]
    /\ Continue(c, "resumeRows")
    /\ UNCHANGED <<procVars, db, inst, schedVars, fireVars, loop>>

\* ResumeInstanceSubscriptions returns every row that is active afterwards.
ResumeRows(c) ==
    /\ mode # "down" /\ op[c] # Nil /\ op[c].pc = "resumeRows"
    /\ db' = [s \in Subs |->
                IF InstOf[s] = op[c].inst /\ db[s].status = "paused"
                THEN [db[s] EXCEPT !.status = "active"] ELSE db[s]]
    /\ op' = [op EXCEPT ![c].pc = "build", ![c].at = now,
                        ![c].todo = {s \in SubsOf(op[c].inst) : HasRow(s)}]
    /\ UNCHANGED <<procVars, instRow, inst, schedVars, fireVars, loop>>

\* One iteration of ResumeInstance's loop: buildEntry, UpdateSubscriptionStatus.
Build(c) ==
    /\ mode # "down" /\ op[c] # Nil /\ op[c].pc = "build"
    /\ \E s \in op[c].todo :
         LET t == BuildTime(s, op[c].at) IN
         /\ db' = IF t = Null THEN DeleteSubscription(s)
                  ELSE IF HasRow(s)
                       THEN [db EXCEPT ![s].status = "active", ![s].next = t] ELSE db
         /\ op' = [op EXCEPT ![c].todo = @ \ {s},
                             ![c].built = IF t = Null THEN @ ELSE @ \cup {<<s, t>>}]
    /\ UNCHANGED <<procVars, instRow, inst, schedVars, fireVars, loop>>

\* The critical section of Scheduler.ResumeInstance.
PushBuilt(c) ==
    /\ mode # "down" /\ op[c] # Nil /\ op[c].pc = "build" /\ op[c].todo = {}
    /\ heap' = heap (+) SetToBag(op[c].built)
    /\ wake' = TRUE
    /\ Return(c)
    /\ UNCHANGED <<procVars, tableVars, running, cancelled, fireVars, loop>>

\* The last worker of an instance dies: watchSlotWorker waits for the turn in
\* its slot, drops the slot, and handleInstanceDeath marks the instance stopped,
\* without PauseInstance.
InstanceDeath(i) ==
    /\ mode = "up" /\ inst[i] = "running" /\ ~HoldsSlot(i)
    /\ "death" \in Requests /\ used.requests < MaxRequests
    /\ inst' = [inst EXCEPT ![i] = "stopped"]
    /\ instRow' = [instRow EXCEPT ![i] = IF @ = "gone" THEN @ ELSE "stopped"]
    /\ used' = [used EXCEPT !.requests = @ + 1]
    /\ UNCHANGED <<now, mode, db, schedVars, fireVars, loop, op>>

-----------------------------------------------------------------------------
(***************************************************************************)
(* The run goroutine and fireReady.                                        *)
(***************************************************************************)

\* run: look at the top of the heap.
RunEval ==
    /\ mode # "down" /\ loop.pc = "eval"
    /\ \/ heap = EmptyBag /\ loop' = [pc |-> "empty", at |-> 0]
       \/ \E e \in Soonest :
            loop' = IF e[2] > now THEN [pc |-> "sleep", at |-> e[2]]
                                  ELSE [pc |-> "fire", at |-> now]
    /\ UNCHANGED <<procVars, tableVars, schedVars, fireVars, op>>

\* run: the two selects.
RunWake ==
    /\ mode # "down" /\ loop.pc \in {"empty", "sleep"} /\ wake
    /\ wake' = FALSE
    /\ loop' = [pc |-> "eval", at |-> 0]
    /\ UNCHANGED <<procVars, tableVars, heap, running, cancelled, fireVars, op>>

RunTimer ==
    /\ mode # "down" /\ loop.pc = "sleep" /\ now >= loop.at
    /\ loop' = [pc |-> "fire", at |-> now]
    /\ UNCHANGED <<procVars, tableVars, schedVars, fireVars, op>>

RunDone ==
    /\ mode = "stopping" /\ loop.pc \in {"empty", "sleep"}
    /\ loop' = [pc |-> "done", at |-> 0]
    /\ UNCHANGED <<procVars, tableVars, schedVars, fireVars, op>>

\* Mutant of MayLaunch: no overlap guard.
AlwaysLaunch(s) == TRUE

\* Whether fireReady may start a fire of s.
MayLaunch(s) == s \notin running

\* fireReady, one iteration that launches a fire.
Launch(g) ==
    /\ mode # "down" /\ loop.pc = "fire" /\ fire[g] = Nil
    /\ \E e \in Soonest :
         /\ e[2] <= loop.at /\ MayLaunch(e[1])
         /\ heap' = heap (-) SetToBag({e})
         /\ running' = running \cup {e[1]}
         /\ fire' = [fire EXCEPT ![g] = [sub |-> e[1], pc |-> "launch", next |-> Null,
                                         ok |-> FALSE, held |-> FALSE]]
         /\ shots' = shots \cup (IF Kind[e[1]] = "once" THEN {e[1]} ELSE {})
    /\ UNCHANGED <<procVars, tableVars, cancelled, wake, loop, op>>

\* fireReady, the last iteration: nothing due is left, or the soonest entry
\* overlaps a fire under way (it is put back and the loop is left by break).
FireReadyReturn ==
    /\ mode # "down" /\ loop.pc = "fire"
    /\ \/ \A e \in BagToSet(heap) : e[2] > loop.at
       \/ \E e \in Soonest : e[2] <= loop.at /\ ~MayLaunch(e[1])
    /\ loop' = [pc |-> "eval", at |-> 0]
    /\ UNCHANGED <<procVars, tableVars, schedVars, fireVars, op>>

-----------------------------------------------------------------------------
(***************************************************************************)
(* fireSingle.                                                             *)
(***************************************************************************)

\* RunTriggered reaches Chat: the instance is registered and running, its
\* triggered session exists and its slot is acquired.
TurnBegins(g) ==
    /\ mode # "down" /\ fire[g] # Nil /\ fire[g].pc = "launch"
    /\ inst[InstOf[fire[g].sub]] = "running"
    /\ fire' = [fire EXCEPT ![g].pc = "chat", ![g].held = TRUE]
    /\ UNCHANGED <<procVars, tableVars, schedVars, shots, loop, op>>

\* RunTriggered returns and the next fire time is computed.  It may fail at
\* any point: stopped or deleted instance, no session, a failed or timed out turn.
TurnEnds(g) ==
    /\ mode # "down" /\ fire[g] # Nil /\ fire[g].pc \in {"launch", "chat"}
    /\ \E ok \in {FALSE, fire[g].pc = "chat"} :
         LET s == fire[g].sub IN
         fire' = [fire EXCEPT ![g].pc = "record", ![g].ok = ok, ![g].held = FALSE,
                              ![g].next = IF Kind[s] = "cron" THEN CronNext(s, now) ELSE Null]
    /\ UNCHANGED <<procVars, tableVars, schedVars, shots, loop, op>>

\* UpdateSubscriptionFired / UpdateSubscriptionError, on the scheduler's
\* context: once that is cancelled the statement fails.
Record(g) ==
    /\ mode # "down" /\ fire[g] # Nil /\ fire[g].pc = "record"
    /\ db' = IF mode = "up" THEN SetNext(fire[g].sub, fire[g].next) ELSE db
    /\ fire' = [fire EXCEPT ![g].pc =
                  IF Kind[fire[g].sub] = "once" /\ fire[g].ok THEN "drop" ELSE "finish"]
    /\ UNCHANGED <<procVars, instRow, inst, schedVars, shots, loop, op>>

\* A one-shot that fired is deleted.
DropOneShot(g) ==
    /\ mode # "down" /\ fire[g] # Nil /\ fire[g].pc = "drop"
    /\ db' = IF mode = "up" THEN DeleteSubscription(fire[g].sub) ELSE db
    /\ fire' = [fire EXCEPT ![g].pc = "finish", ![g].next = Null]
    /\ UNCHANGED <<procVars, instRow, inst, schedVars, shots, loop, op>>

\* Mutants of MayReAdd: a nil next fire time is not tested; a cancellation is
\* ignored; a failed fire is not put back.
ReAddNil(g) == fire[g].sub \notin cancelled
ReAddCancelled(g) == fire[g].next # Null
ReAddOnlyOk(g) == fire[g].next # Null /\ fire[g].sub \notin cancelled /\ fire[g].ok

\* Whether a fire that ends puts its entry back.
MayReAdd(g) == fire[g].next # Null /\ fire[g].sub \notin cancelled

\* Mutant of Finish: the cancellation is left behind.
FinishKeepsCancelled(g) ==
    /\ mode # "down" /\ fire[g] # Nil /\ fire[g].pc = "finish"
    /\ running' = running \ {fire[g].sub}
    /\ heap' = IF MayReAdd(g) THEN heap (+) SetToBag({<<fire[g].sub, fire[g].next>>})
                              ELSE heap
    /\ wake' = TRUE
    /\ fire' = [fire EXCEPT ![g] = Nil]
    /\ UNCHANGED <<procVars, tableVars, cancelled, shots, loop, op>>

\* The critical section that ends fireSingle.
Finish(g) ==
    /\ mode # "down" /\ fire[g] # Nil /\ fire[g].pc = "finish"
    /\ running' = running \ {fire[g].sub}
    /\ cancelled' = cancelled \ {fire[g].sub}
    /\ heap' = IF MayReAdd(g) THEN heap (+) SetToBag({<<fire[g].sub, fire[g].next>>})
                              ELSE heap
    /\ wake' = TRUE
    /\ fire' = [fire EXCEPT ![g] = Nil]
    /\ UNCHANGED <<procVars, tableVars, shots, loop, op>>

-----------------------------------------------------------------------------
(***************************************************************************)
(* The server process.                                                     *)
(***************************************************************************)
Tick ==
    /\ now < MaxTime
    /\ now' = now + 1
    /\ UNCHANGED <<mode, used, tableVars, schedVars, fireVars, loop, op>>

\* A shutdown or restart request cancels the scheduler's context.
Cancel ==
    /\ mode = "up" /\ used.exits < MaxExits
    /\ mode' = "stopping"
    /\ used' = [used EXCEPT !.exits = @ + 1]
    /\ UNCHANGED <<now, tableVars, schedVars, fireVars, loop, op>>

MemoryLost ==
    /\ mode' = "down"
    /\ inst' = [i \in Instances |-> "absent"]
    /\ heap' = EmptyBag /\ running' = {} /\ cancelled' = {} /\ wake' = FALSE
    /\ fire' = [g \in Fires |-> Nil]
    /\ op' = [c \in Callers |-> Nil]
    /\ loop' = [pc |-> "done", at |-> 0]
    /\ UNCHANGED <<now, db, instRow, shots>>

\* Scheduler.Stop returns once the loop and every fire have ended; the
\* requests under way end too (http.Server.Shutdown, Manager.Shutdown).
Exit ==
    /\ mode = "stopping" /\ loop.pc = "done" /\ InFlight = {} /\ OpsUnderWay = {}
    /\ MemoryLost
    /\ UNCHANGED used

Crash ==
    /\ mode # "down" /\ used.crashes < MaxCrashes
    /\ MemoryLost
    /\ used' = [used EXCEPT !.crashes = @ + 1]

\* RestoreInstances, then Scheduler.Start over ListActiveSubscriptions.
Loaded == {s \in Subs : db[s].status = "active" /\ db[s].next # Null}

Boot ==
    /\ mode = "down"
    /\ mode' = "up"
    /\ inst' = [i \in Instances |-> IF instRow[i] = "gone" THEN "absent" ELSE instRow[i]]
    /\ heap' = SetToBag({<<s, BuildTime(s, now)>> :
                           s \in {u \in Loaded : BuildTime(u, now) # Null}})
    /\ db' = [s \in Subs |->
                IF s \in Loaded /\ BuildTime(s, now) = Null
                THEN [db[s] EXCEPT !.status = "gone", !.next = Null] ELSE db[s]]
    /\ loop' = [pc |-> "eval", at |-> 0]
    /\ UNCHANGED <<now, used, instRow, running, cancelled, wake, fireVars, op>>

-----------------------------------------------------------------------------
\* A server that has just started, with its instances and no schedules.
Init ==
    /\ now = 0 /\ mode = "up"
    /\ db = [s \in Subs |-> [status |-> "fresh", next |-> Null, at |-> 0]]
    /\ instRow = [i \in Instances |-> "running"]
    /\ inst = [i \in Instances |-> "running"]
    /\ heap = EmptyBag /\ running = {} /\ cancelled = {} /\ wake = FALSE
    /\ fire = [g \in Fires |-> Nil] /\ shots = {}
    /\ loop = [pc |-> "eval", at |-> 0]
    /\ op = [c \in Callers |-> Nil]
    /\ used = [requests |-> 0, exits |-> 0, crashes |-> 0]

BeginSub(c) ==
    \E s \in Subs :
       \/ ScheduleRecurring(c, s) \/ ScheduleOnce(c, s) \/ CancelSchedule(c, s)
       \/ PauseSubscription(c, s) \/ ResumeSubscription(c, s)

BeginInst(c) ==
    \E i \in Instances : StopInstance(c, i) \/ StartInstance(c, i) \/ DeleteInstance(c, i)

Step(c) ==
    \/ Add(c) \/ Remove(c) \/ Activate(c)
    \/ PauseRows(c) \/ PauseHeap(c) \/ DropRow(c)
    \/ Unregister(c) \/ Spawn(c) \/ StartRow(c)
    \/ ResumeRows(c) \/ Build(c) \/ PushBuilt(c)

FireSingle(g) ==
    TurnBegins(g) \/ TurnEnds(g) \/ Record(g) \/ DropOneShot(g) \/ Finish(g)

RunLoop ==
    \/ RunEval \/ RunWake \/ RunTimer \/ RunDone \/ FireReadyReturn
    \/ \E g \in Fires : Launch(g)

Process == Tick \/ Cancel \/ Exit \/ Crash \/ Boot

Next ==
    \/ \E c \in Callers : BeginSub(c) \/ BeginInst(c) \/ Step(c)
    \/ \E i \in Instances : InstanceDeath(i)
    \/ RunLoop
    \/ \E g \in Fires : FireSingle(g)
    \/ Process

Spec == Init /\ [][Next]_vars

\* The run goroutine is always scheduled, and every turn ends: Chat runs under
\* triggeredTurnTimeout and the statements after it do not block.
Fairness ==
    /\ WF_vars(RunLoop)
    /\ \A g \in Fires : WF_vars(FireSingle(g))

FairSpec == Spec /\ Fairness

-----------------------------------------------------------------------------
(***************************************************************************)
(* Properties.                                                             *)
(***************************************************************************)
ProcType ==
    /\ now \in 0..MaxTime /\ mode \in {"up", "stopping", "down"}
    /\ used \in [requests: Nat, exits: Nat, crashes: Nat]

TableType ==
    /\ db \in [Subs -> Rows]
    /\ instRow \in [Instances -> {"running", "stopped", "gone"}]
    /\ inst \in [Instances -> {"running", "stopped", "absent"}]

HeapType == IsABag(heap) /\ BagToSet(heap) \subseteq Subs \X Nat

FireType ==
    /\ running \in SUBSET Subs /\ cancelled \in SUBSET Subs /\ shots \in SUBSET Subs
    /\ fire \in [Fires -> FireRecs \cup {Nil}]

LoopType ==
    /\ loop \in [pc: {"eval", "empty", "sleep", "fire", "done"}, at: Nat]
    /\ wake \in BOOLEAN

OpType == op \in [Callers -> SubOps \cup InstOps \cup {Nil}]

\* Types of the table, the heap, the goroutines and the requests: in
\* particular no entry is ever pushed with a nil fire time.
TypeOK == ProcType /\ TableType /\ HeapType /\ FireType /\ LoopType /\ OpType

\* At most one turn of a subscription is in flight, whatever clients and
\* instances do meanwhile ("a per-subscription guard prevents overlapping
\* fires", fireReady).
NoOverlap ==
    \A g, h \in InFlight : fire[g].sub = fire[h].sub => g = h

\* The running map is exactly the set of subscriptions in flight, and a
\* cancellation never outlives the fire it was meant for: a stale running
\* entry would stop a schedule for good, a stale cancellation would swallow
\* the next fire's re-add.
RunningExact ==
    /\ running = {fire[g].sub : g \in InFlight}
    /\ cancelled \subseteq running

\* No request on s or on its instance is under way.
Settled(s) ==
    \A c \in OpsUnderWay : op[c].sub # s /\ (op[c].sub = Nil => op[c].inst # InstOf[s])

\* A fire of s is under way and will put the entry back.
WillReAdd(s) == s \in running \ cancelled

\* A schedule the table says will fire is held by the scheduler exactly once:
\* one heap entry, or one fire that puts it back, never both and never two.
\* Otherwise it is lost until a restart, or fires twice for one due time.
ActiveIsArmed ==
    \A s \in Subs :
       mode = "up" /\ Settled(s) /\ s \in Loaded
         => \/ Entries(s) = {} /\ WillReAdd(s)
            \/ ~WillReAdd(s) /\ \E e \in Entries(s) : Entries(s) = {e} /\ heap[e] = 1

\* A schedule that is cancelled, paused or deleted with its instance is out of
\* the scheduler for good once the request returns: no entry is left, and a
\* fire still under way will not put one back (Remove, PauseInstance).
InactiveIsQuiet ==
    \A s \in Subs :
       mode = "up" /\ Settled(s) /\ db[s].status \in {"paused", "gone"}
         => Entries(s) = {} /\ (WillReAdd(s) => Kind[s] = "once")

\* A one-shot is launched at most once, across pauses, resumes, restarts and
\* crashes in the middle of its turn.
OneShotAtMostOnce == [][running' \cap shots \subseteq running]_vars

\* Every active cron schedule is in the scheduler ("Start loads active
\* subscriptions from the database", Scheduler.Start).
ActiveCronIsArmed ==
    \A s \in Subs :
       mode = "up" /\ Settled(s) /\ db[s].status = "active" /\ Kind[s] = "cron"
         => Entries(s) # {} \/ WillReAdd(s)

Due(s) == mode = "up" /\ \E e \in Entries(s) : e[2] <= now

\* No entry stays due for ever: the wake channel never loses the change that
\* made the loop's deadline too late, and a slow turn delays the others at
\* most until it ends.
DueFires == \A s \in Subs : Due(s) ~> ~Due(s)

=============================================================================
