---------------------------- MODULE SessionSlots ----------------------------
(***************************************************************************)
(* The sessions of one persistent instance in internal/agent: the Manager's *)
(* registry entry, the instance structs it may point to over time, the     *)
(* session slots of a struct, one worker process per slot, and the three   *)
(* levels of locks m.mu, inst.mu and slot.mu.                              *)
(*                                                                         *)
(* A slot and its worker handle are created together and never reused, so  *)
(* the handle names both.  Threads are the callers of the Manager and, for *)
(* every handle, the goroutine watchSlotWorker that waits for its process. *)
(* A read-locked section of m.mu holds no other lock: it is one step that  *)
(* waits for no writer to hold m.mu.                                       *)
(*                                                                         *)
(* What the same calls do to the instance's schedules is in Scheduler.     *)
(***************************************************************************)
EXTENDS Integers, Sequences, FiniteSets

CONSTANTS
    Channels,     \* channel keys: "web", "tg:<chat>", "trigger:<sub>" ...
    Workers,      \* worker handles; bound: as many spawns as there are handles
    Objs,         \* instance structs; bound: as many starts as there are structs
    Callers,      \* goroutines that call the Manager
    MayCall,      \* MayCall[c]: the calls c makes
    Faults,       \* where a spawn may fail: "ensure", "clear", "clear_early", "start"
    SameSecond,   \* whether two sessions may be created within a second
    HasParent,    \* whether the instance was spawned by another one
    UsesTools,    \* whether turns call the instance management tools
    MaxSessions,  \* maxSessionsPerInstance
    MaxCalls,     \* bound: calls made in one behaviour
    MaxDeaths,    \* bound: workers that die by themselves
    Nil,          \* "nothing here"
    Obj0, Worker0, Channel0  \* what CreateInstance made

Threads == Callers \cup Workers
Calls == {"send", "clear", "stop", "start", "delete"}

Slots == [obj: Objs, sid: Nat \ {0}, ch: Channels, live: BOOLEAN, mapped: BOOLEAN]
Rows == [ch: Channels, status: {"running", "stopped", "deleted"}, at: Nat, dir: BOOLEAN]
Pcs == {"idle", "get", "ensure", "alive", "spawn", "acquire", "lookup", "slot", "chat",
        "clear", "detachOld", "create", "mlock", "ilock", "detach", "shutdown",
        "dropRows", "unregister", "register", "reregister", "wait", "find", "examine",
        "compare", "die"}
ThreadRecs == [kind: Calls \cup {"idle", "watch"}, pc: Pcs,
               ch: Channels \cup {Nil}, obj: Objs \cup {Nil}, slot: Workers \cup {Nil},
               sid: Nat, todo: SUBSET Workers, handles: SUBSET Workers]

ASSUME SlotsAssumption ==
    /\ Obj0 \in Objs /\ Worker0 \in Workers /\ Channel0 \in Channels
    /\ Callers \cap Workers = {}
    /\ Nil \notin Objs \cup Threads \cup Channels \cup Slots
    /\ MayCall \in [Callers -> SUBSET Calls]
    /\ SameSecond \in BOOLEAN /\ HasParent \in BOOLEAN /\ UsesTools \in BOOLEAN
    /\ MaxSessions \in Nat \ {0} /\ MaxCalls \in Nat /\ MaxDeaths \in Nat

VARIABLES
    registry,  \* m.instances[id]: the struct, or Nil
    status,    \* info.Status of each struct
    index,     \* channelIndex of each struct: session ID, 0 for none
    slot,      \* the slots; mapped: in inst.sessions, live: handle and loop not nil
    proc,      \* worker processes: "none", "up" or "dead"
    closing,   \* handles that shutdownOldWorkerAsync is shutting down
    rows,      \* the sessions table in insertion order; the session ID is the position
    instRow,   \* whether the instance has its row
    mMu, instMu, slotMu,  \* holders of the locks
    th,        \* the threads
    used       \* calls and deaths so far (they are bounded)

regVars == <<registry, status>>
slotVars == <<index, slot, proc, closing>>
dbVars == <<rows, instRow>>
lockVars == <<mMu, instMu, slotMu>>
vars == <<regVars, slotVars, dbVars, lockVars, th, used>>

Idle == [kind |-> "idle", pc |-> "idle", ch |-> Nil, obj |-> Nil, slot |-> Nil,
         sid |-> 0, todo |-> {}, handles |-> {}]
Watching == [Idle EXCEPT !.kind = "watch", !.pc = "wait"]

At(t, pc) == th[t].pc = pc
Goto(t, pc) == th' = [th EXCEPT ![t].pc = pc]
Return(t) == th' = [th EXCEPT ![t] = Idle]

-----------------------------------------------------------------------------
(***************************************************************************)
(* The maps of an instance struct.                                         *)
(***************************************************************************)
Mapped(o) == {w \in Workers : slot[w] # Nil /\ slot[w].obj = o /\ slot[w].mapped}
SlotOf(o, sid) == {w \in Mapped(o) : slot[w].sid = sid}

\* slotByChannel: the slot of a channel, as a set of at most one.
SlotByChannel(o, ch) == SlotOf(o, index[o][ch])

\* Mutant of Unindex: the channel index keeps the removed slot's channel.
UnindexNothing(ix, w) == ix

\* removeSlot of the slot w, from the maps as they are in sl and ix.
Unmap(sl, w) == [sl EXCEPT ![w].mapped = FALSE]
Unindex(ix, w) == [ix EXCEPT ![slot[w].obj][slot[w].ch] = 0]

\* A fresh handle with its slot (addSlot); the process is up.
NewSlot(sl, w, o, sid, ch) ==
    [v \in Workers |->
       IF v = w THEN [obj |-> o, sid |-> sid, ch |-> ch, live |-> TRUE, mapped |-> TRUE]
       ELSE IF sl[v] # Nil /\ sl[v].obj = o /\ sl[v].sid = sid
            THEN [sl[v] EXCEPT !.mapped = FALSE] ELSE sl[v]]

Unspawned == {w \in Workers : proc[w] = "none"}
MayFail(place) == place \in Faults \/ Unspawned = {}

(***************************************************************************)
(* The sessions table.  created_at has a resolution of one second and the  *)
(* "latest" queries order by it alone: a tie may be broken either way.     *)
(***************************************************************************)
Sids == {n \in DOMAIN rows : rows[n].status # "deleted"}

\* Mutant of Latest: the order is ascending.
Oldest(S) == {n \in S : \A k \in S : rows[n].at <= rows[k].at}

Latest(S) == {n \in S : \A k \in S : rows[k].at <= rows[n].at}
LatestByInstance == Latest(Sids)
LatestByChannel(ch) == Latest({n \in Sids : rows[n].ch = ch})

Now == IF rows = <<>> THEN {0}
       ELSE {rows[Len(rows)].at + 1} \cup (IF SameSecond THEN {rows[Len(rows)].at} ELSE {})
Insert(ch, t) == Append(rows, [ch |-> ch, status |-> "running", at |-> t, dir |-> TRUE])
WithDir(n) == [rows EXCEPT ![n].dir = TRUE]

\* resolveSessionIDFromDB: the sessions EnsureSession may resume; none means a new one.
Resumable(ch) == {n \in LatestByChannel(ch) : rows[n].status # "stopped" /\ rows[n].dir}

\* Mutant of MustCreate: a new session whenever the channel has no slot.
AlwaysCreate(ch) == TRUE

MustCreate(ch) == LatestByChannel(ch) = {} \/ \E n \in LatestByChannel(ch) : n \notin Resumable(ch)

-----------------------------------------------------------------------------
\* resolveSessionConfig looks the parent's tools up (intersectParentRules): it
\* read-locks m.mu, and its callers hold inst.mu.
ParentLock == IF HasParent THEN mMu ELSE Nil

\* A management tool of a turn (ListInstances, IsDescendant ...) read-locks m.mu.
ToolLock == IF UsesTools THEN mMu ELSE Nil

(***************************************************************************)
(* Callers.                                                                *)
(***************************************************************************)
Call(c, kind) ==
    /\ th[c] = Idle /\ kind \in MayCall[c] /\ used.calls < MaxCalls
    /\ \E ch \in Channels :
         /\ kind \notin {"send", "clear"} => ch = Channel0
         /\ th' = [th EXCEPT ![c] = [Idle EXCEPT !.kind = kind, !.pc = "get", !.ch = ch]]
    /\ used' = [used EXCEPT !.calls = @ + 1]
    /\ UNCHANGED <<regVars, slotVars, dbVars, lockVars>>

\* Mutant of GetInstance: the nil check is missing.
GetInstanceUnchecked(c) ==
    /\ At(c, "get") /\ th[c].kind \in {"send", "clear"} /\ mMu = Nil
    /\ th' = [th EXCEPT ![c].obj = registry,
                        ![c].pc = IF th[c].kind = "send" THEN "ensure" ELSE "clear"]
    /\ UNCHANGED <<regVars, slotVars, dbVars, lockVars, used>>

\* getInstance at the start of EnsureSession and of NewSessionForChannel.
GetInstance(c) ==
    /\ At(c, "get") /\ th[c].kind \in {"send", "clear"} /\ mMu = Nil
    /\ IF registry = Nil THEN Return(c)
       ELSE th' = [th EXCEPT ![c].obj = registry,
                             ![c].pc = IF th[c].kind = "send" THEN "ensure" ELSE "clear"]
    /\ UNCHANGED <<regVars, slotVars, dbVars, lockVars, used>>

\* Mutants of EnsureLock: the early return keeps inst.mu; the status is not tested.
EnsureLockLeaks(c) ==
    LET o == th[c].obj
        found == SlotByChannel(o, th[c].ch)
    IN /\ At(c, "ensure") /\ instMu[o] = Nil
       /\ instMu' = [instMu EXCEPT ![o] = c]
       /\ IF status[o] = "stopped" THEN Return(c)
          ELSE IF found = {} THEN Goto(c, "spawn")
          ELSE \E w \in found : th' = [th EXCEPT ![c].pc = "alive", ![c].slot = w]
       /\ UNCHANGED <<regVars, slotVars, dbVars, mMu, slotMu, used>>

EnsureLockAnyStatus(c) ==
    LET o == th[c].obj
        found == SlotByChannel(o, th[c].ch)
    IN /\ At(c, "ensure") /\ instMu[o] = Nil
       /\ instMu' = [instMu EXCEPT ![o] = c]
       /\ IF found = {} THEN Goto(c, "spawn")
          ELSE \E w \in found : th' = [th EXCEPT ![c].pc = "alive", ![c].slot = w]
       /\ UNCHANGED <<regVars, slotVars, dbVars, mMu, slotMu, used>>

\* EnsureSession takes inst.mu; it keeps it until the session is there.
EnsureLock(c) ==
    LET o == th[c].obj
        found == SlotByChannel(o, th[c].ch)
    IN /\ At(c, "ensure") /\ instMu[o] = Nil
       /\ \/ /\ status[o] = "stopped"
             /\ Return(c)
             /\ UNCHANGED instMu
          \/ /\ status[o] # "stopped" /\ found = {}
             /\ Goto(c, "spawn")
             /\ instMu' = [instMu EXCEPT ![o] = c]
          \/ \E w \in found :
             /\ status[o] # "stopped"
             /\ th' = [th EXCEPT ![c].pc = "alive", ![c].slot = w]
             /\ instMu' = [instMu EXCEPT ![o] = c]
       /\ UNCHANGED <<regVars, slotVars, dbVars, mMu, slotMu, used>>

\* EnsureSession waits for the turn on the slot to look at its fields.
EnsureAlive(c) ==
    LET w == th[c].slot
        o == th[c].obj
    IN /\ At(c, "alive") /\ slotMu[w] = Nil
       /\ IF slot[w].live
          THEN /\ th' = [th EXCEPT ![c].pc = "acquire", ![c].sid = slot[w].sid]
               /\ instMu' = [instMu EXCEPT ![o] = Nil]
               /\ UNCHANGED <<slot, index>>
          ELSE /\ Goto(c, "spawn")
               /\ slot' = Unmap(slot, w) /\ index' = Unindex(index, w)
               /\ UNCHANGED instMu
       /\ UNCHANGED <<regVars, proc, closing, dbVars, mMu, slotMu, used>>

\* createSessionSlot, and the end of EnsureSession.
EnsureSpawn(c) ==
    LET o == th[c].obj
        ch == th[c].ch
    IN /\ At(c, "spawn") /\ th[c].kind = "send"
       /\ \/ /\ Cardinality(Mapped(o)) < MaxSessions /\ ParentLock = Nil
             /\ \E n \in 1 .. Len(rows) + 1, t \in Now, w \in Unspawned :
                  /\ \/ n \in Resumable(ch) /\ rows' = rows
                     \/ n = Len(rows) + 1 /\ MustCreate(ch) /\ instRow /\ rows' = Insert(ch, t)
                  /\ slot' = NewSlot(slot, w, o, n, ch)
                  /\ index' = [index EXCEPT ![o][ch] = n]
                  /\ proc' = [proc EXCEPT ![w] = "up"]
                  /\ th' = [th EXCEPT ![c].pc = "acquire", ![c].sid = n, ![w] = Watching]
          \/ /\ \/ Cardinality(Mapped(o)) >= MaxSessions
                \/ MayFail("ensure") \/ ~instRow
             /\ Return(c)
             /\ UNCHANGED <<index, slot, proc>>
             /\ \/ UNCHANGED rows
                \/ \E t \in Now : /\ Cardinality(Mapped(o)) < MaxSessions
                                  /\ MustCreate(ch) /\ instRow
                                  /\ rows' = Insert(ch, t)
       /\ instMu' = [instMu EXCEPT ![o] = Nil]
       /\ UNCHANGED <<regVars, closing, instRow, mMu, slotMu, used>>

\* acquireSlot: getInstance, then the session under inst.mu, then slot.mu.
AcquireGet(c) ==
    /\ At(c, "acquire") /\ mMu = Nil
    /\ IF registry = Nil THEN Return(c)
       ELSE th' = [th EXCEPT ![c].obj = registry, ![c].pc = "lookup"]
    /\ UNCHANGED <<regVars, slotVars, dbVars, lockVars, used>>

AcquireLookup(c) ==
    LET found == SlotOf(th[c].obj, th[c].sid) IN
    /\ At(c, "lookup") /\ instMu[th[c].obj] = Nil
    /\ \/ (status[th[c].obj] = "stopped" \/ found = {}) /\ Return(c)
       \/ \E w \in found : /\ status[th[c].obj] # "stopped"
                           /\ th' = [th EXCEPT ![c].pc = "slot", ![c].slot = w]
    /\ UNCHANGED <<regVars, slotVars, dbVars, lockVars, used>>

\* Mutant of AcquireSlot: the loop is not tested once slot.mu is held.
AcquireSlotUnchecked(c) ==
    /\ At(c, "slot") /\ slotMu[th[c].slot] = Nil
    /\ Goto(c, "chat") /\ slotMu' = [slotMu EXCEPT ![th[c].slot] = c]
    /\ UNCHANGED <<regVars, slotVars, dbVars, mMu, instMu, used>>

AcquireSlot(c) ==
    LET w == th[c].slot IN
    /\ At(c, "slot") /\ slotMu[w] = Nil
    /\ IF slot[w].live
       THEN Goto(c, "chat") /\ slotMu' = [slotMu EXCEPT ![w] = c]
       ELSE Return(c) /\ UNCHANGED slotMu
    /\ UNCHANGED <<regVars, slotVars, dbVars, mMu, instMu, used>>

\* Chat returns and the deferred unlock runs.
ChatEnds(c) ==
    /\ At(c, "chat") /\ ToolLock = Nil
    /\ slotMu' = [slotMu EXCEPT ![th[c].slot] = Nil]
    /\ Return(c)
    /\ UNCHANGED <<regVars, slotVars, dbVars, mMu, instMu, used>>

-----------------------------------------------------------------------------
(***************************************************************************)
(* NewSessionForChannel holds inst.mu from ClearLock to ClearCreate.       *)
(***************************************************************************)
ClearLock(c) ==
    LET o == th[c].obj
        found == SlotByChannel(o, th[c].ch)
    IN /\ At(c, "clear") /\ instMu[o] = Nil
       /\ \/ /\ status[o] = "stopped"
             /\ Return(c)
             /\ UNCHANGED instMu
          \/ /\ status[o] # "stopped" /\ found = {}
             /\ Goto(c, "create")
             /\ instMu' = [instMu EXCEPT ![o] = c]
          \/ \E w \in found :
             /\ status[o] # "stopped"
             /\ th' = [th EXCEPT ![c].pc = "detachOld", ![c].slot = w]
             /\ instMu' = [instMu EXCEPT ![o] = c]
       /\ UNCHANGED <<regVars, slotVars, dbVars, mMu, slotMu, used>>

\* Mutant of ClearDetach: the slot stays in the maps.
ClearDetachKeepsSlot(c) ==
    LET w == th[c].slot IN
    /\ At(c, "detachOld") /\ slotMu[w] = Nil
    /\ slot' = [slot EXCEPT ![w].live = FALSE]
    /\ rows' = [rows EXCEPT ![slot[w].sid].status = "stopped"]
    /\ th' = [th EXCEPT ![c].pc = "create",
                        ![c].handles = IF slot[w].live THEN {w} ELSE {}]
    /\ UNCHANGED <<regVars, index, proc, closing, instRow, lockVars, used>>

\* detachChannelSlot waits for the turn on the slot; then markSessionStopped.
ClearDetach(c) ==
    LET w == th[c].slot IN
    /\ At(c, "detachOld") /\ slotMu[w] = Nil
    /\ slot' = [slot EXCEPT ![w].live = FALSE, ![w].mapped = FALSE]
    /\ index' = Unindex(index, w)
    /\ rows' = [rows EXCEPT ![slot[w].sid].status = IF @ = "deleted" THEN @ ELSE "stopped"]
    /\ th' = [th EXCEPT ![c].pc = "create",
                        ![c].handles = IF slot[w].live THEN {w} ELSE {}]
    /\ UNCHANGED <<regVars, proc, closing, instRow, lockVars, used>>

\* The new session: row, old worker handed to shutdownOldWorkerAsync, new
\* worker.  A failure before the hand-over leaves the old worker to nobody.
ClearCreate(c) ==
    LET o == th[c].obj
        ch == th[c].ch
    IN /\ At(c, "create")
       /\ \/ \E t \in Now, w \in Unspawned :
                /\ instRow /\ rows' = Insert(ch, t) /\ ParentLock = Nil
                /\ closing' = closing \cup th[c].handles
                /\ slot' = NewSlot(slot, w, o, Len(rows) + 1, ch)
                /\ index' = [index EXCEPT ![o][ch] = Len(rows) + 1]
                /\ proc' = [proc EXCEPT ![w] = "up"]
                /\ th' = [th EXCEPT ![c] = Idle, ![w] = Watching]
          \/ /\ MayFail("clear") /\ instRow /\ ParentLock = Nil
             /\ closing' = closing \cup th[c].handles
             /\ Return(c)
             /\ UNCHANGED <<rows, slot, index, proc>>
          \/ /\ "clear_early" \in Faults \/ ~instRow
             /\ Return(c)
             /\ \/ UNCHANGED rows
                \/ \E t \in Now : instRow /\ rows' = Insert(ch, t)
             /\ UNCHANGED <<closing, slot, index, proc>>
       /\ instMu' = [instMu EXCEPT ![o] = Nil]
       /\ UNCHANGED <<regVars, instRow, mMu, slotMu, used>>

\* The goroutine of shutdownOldWorkerAsync.
AsyncShutdown(w) ==
    /\ w \in closing
    /\ closing' = closing \ {w}
    /\ proc' = [proc EXCEPT ![w] = "dead"]
    /\ UNCHANGED <<regVars, index, slot, dbVars, lockVars, th, used>>

-----------------------------------------------------------------------------
(***************************************************************************)
(* StopInstance (softStop) and DeleteInstance (removeInstance).  Both take *)
(* m.mu, then inst.mu, then every slot.mu in turn (detachAllSlots).        *)
(***************************************************************************)
StopGet(c) ==
    /\ At(c, "get") /\ th[c].kind = "stop" /\ mMu = Nil
    /\ IF registry = Nil \/ (registry # Nil /\ status[registry] = "stopped")
       THEN Return(c) ELSE Goto(c, "mlock")
    /\ UNCHANGED <<regVars, slotVars, dbVars, lockVars, used>>

\* th.obj is Nil when the instance is already stopped: it is only unregistered.
DeleteGet(c) ==
    /\ At(c, "get") /\ th[c].kind = "delete" /\ mMu = Nil
    /\ IF registry = Nil THEN Return(c)
       ELSE th' = [th EXCEPT ![c].pc = "mlock",
                             ![c].obj = IF status[registry] = "stopped" THEN Nil ELSE registry]
    /\ UNCHANGED <<regVars, slotVars, dbVars, lockVars, used>>

StopLock(c) ==
    /\ At(c, "mlock") /\ th[c].kind = "stop" /\ mMu = Nil
    /\ IF registry = Nil THEN Return(c) /\ UNCHANGED mMu
       ELSE /\ th' = [th EXCEPT ![c].pc = "ilock", ![c].obj = registry]
            /\ mMu' = c
    /\ UNCHANGED <<regVars, slotVars, dbVars, instMu, slotMu, used>>

DeleteLock(c) ==
    /\ At(c, "mlock") /\ th[c].kind = "delete" /\ mMu = Nil
    /\ IF th[c].obj = Nil \/ registry = Nil
       THEN /\ registry' = Nil
            /\ Goto(c, "dropRows")
            /\ UNCHANGED mMu
       ELSE /\ th' = [th EXCEPT ![c].pc = "ilock", ![c].obj = registry]
            /\ mMu' = c
            /\ UNCHANGED registry
    /\ UNCHANGED <<status, slotVars, dbVars, instMu, slotMu, used>>

\* detachAllSlots.
InstLock(t) ==
    /\ At(t, "ilock") /\ instMu[th[t].obj] = Nil
    /\ instMu' = [instMu EXCEPT ![th[t].obj] = t]
    /\ th' = [th EXCEPT ![t].pc = "detach", ![t].todo = Mapped(th[t].obj)]
    /\ UNCHANGED <<regVars, slotVars, dbVars, mMu, slotMu, used>>

DetachSlot(t) ==
    /\ At(t, "detach")
    /\ \E w \in th[t].todo :
         /\ slotMu[w] = Nil
         /\ slot' = [slot EXCEPT ![w].live = FALSE]
         /\ th' = [th EXCEPT ![t].todo = @ \ {w},
                             ![t].handles = IF slot[w].live THEN @ \cup {w} ELSE @]
    /\ UNCHANGED <<regVars, index, proc, closing, dbVars, lockVars, used>>

\* The end of the section under m.mu.  A watcher only closes the connections
\* of the handles it took (handleInstanceDeath); the others shut them down.
Detached(t) ==
    LET o == th[t].obj IN
    /\ At(t, "detach") /\ th[t].todo = {}
    /\ status' = IF th[t].kind = "delete" THEN status ELSE [status EXCEPT ![o] = "stopped"]
    /\ registry' = IF th[t].kind = "delete" THEN Nil ELSE registry
    /\ mMu' = Nil /\ instMu' = [instMu EXCEPT ![o] = Nil]
    /\ IF th[t].kind = "watch" THEN Return(t) ELSE Goto(t, "shutdown")
    /\ UNCHANGED <<slotVars, dbVars, slotMu, used>>

\* shutdownHandle for each handle: it returns when the process has exited.
Shutdown(c) ==
    /\ At(c, "shutdown")
    /\ proc' = [w \in Workers |-> IF w \in th[c].handles THEN "dead" ELSE proc[w]]
    /\ IF th[c].kind = "delete"
       THEN th' = [th EXCEPT ![c].pc = "dropRows", ![c].handles = {}]
       ELSE Return(c)
    /\ UNCHANGED <<regVars, index, slot, closing, dbVars, lockVars, used>>

\* The directory, the config file and the row go, ON DELETE CASCADE the sessions.
DropRows(c) ==
    /\ At(c, "dropRows")
    /\ instRow' = FALSE
    /\ rows' = [n \in DOMAIN rows |-> [rows[n] EXCEPT !.status = "deleted", !.dir = FALSE]]
    /\ Return(c)
    /\ UNCHANGED <<regVars, slotVars, lockVars, used>>

-----------------------------------------------------------------------------
(***************************************************************************)
(* StartInstance.                                                          *)
(***************************************************************************)
StartGet(c) ==
    /\ At(c, "get") /\ th[c].kind = "start" /\ mMu = Nil
    /\ IF registry # Nil /\ status[registry] = "stopped"
       THEN th' = [th EXCEPT ![c].pc = "unregister", ![c].obj = registry]
       ELSE Return(c)
    /\ UNCHANGED <<regVars, slotVars, dbVars, lockVars, used>>

StartUnregister(c) ==
    /\ At(c, "unregister") /\ mMu = Nil
    /\ registry' = Nil
    /\ Goto(c, "spawn")
    /\ UNCHANGED <<status, slotVars, dbVars, lockVars, used>>

\* The latest session of any channel is resumed, whatever its status.
\* startInstance then makes the rows, the worker, the loop and the struct; a
\* failed spawn removes the session's directory (makeCleanup), an earlier
\* failure leaves what was done so far.
Unused == {o \in Objs : status[o] = "none"}

StartSpawn(c) ==
    /\ At(c, "spawn") /\ th[c].kind = "start"
    /\ \E n \in 1 .. Len(rows) + 1, ch \in Channels, t \in Now :
         /\ \/ n \in LatestByInstance /\ ch = rows[n].ch
            \/ n = Len(rows) + 1 /\ LatestByInstance = {} /\ ch = Channel0
         /\ LET kept == IF n \in DOMAIN rows THEN WithDir(n) ELSE Insert(ch, t) IN
            \/ \E o \in Unused, w \in Unspawned :
                 /\ rows' = kept /\ instRow' = TRUE
                 /\ status' = [status EXCEPT ![o] = "running"]
                 /\ slot' = NewSlot(slot, w, o, n, ch)
                 /\ index' = [index EXCEPT ![o][ch] = n]
                 /\ proc' = [proc EXCEPT ![w] = "up"]
                 /\ th' = [th EXCEPT ![c].pc = "register", ![c].slot = w]
            \/ /\ MayFail("start") \/ Unused = {}
               /\ \/ UNCHANGED dbVars
                  \/ rows' = kept /\ instRow' = TRUE
                  \/ rows' = [kept EXCEPT ![n].dir = FALSE] /\ instRow' = TRUE
               /\ Goto(c, "reregister")
               /\ UNCHANGED <<status, slot, index, proc>>
    /\ UNCHANGED <<registry, closing, lockVars, used>>

\* registerAndStartInstance.
StartRegister(c) ==
    LET w == th[c].slot IN
    /\ At(c, "register") /\ mMu = Nil
    /\ registry' = slot[w].obj
    /\ th' = [th EXCEPT ![c] = Idle, ![w] = Watching]
    /\ UNCHANGED <<status, slotVars, dbVars, lockVars, used>>

\* reregisterStopped.
Reregister(c) ==
    LET o == th[c].obj IN
    /\ At(c, "reregister") /\ instMu[o] = Nil /\ mMu = Nil
    /\ status' = [status EXCEPT ![o] = "stopped"]
    /\ registry' = o
    /\ Return(c)
    /\ UNCHANGED <<slotVars, dbVars, lockVars, used>>

-----------------------------------------------------------------------------
(***************************************************************************)
(* watchSlotWorker and handleInstanceDeath.                                *)
(***************************************************************************)
WorkerDies(w) ==
    /\ proc[w] = "up" /\ used.deaths < MaxDeaths
    /\ proc' = [proc EXCEPT ![w] = "dead"]
    /\ used' = [used EXCEPT !.deaths = @ + 1]
    /\ UNCHANGED <<regVars, index, slot, closing, dbVars, lockVars, th>>

WatchFind(w) ==
    /\ At(w, "wait") /\ proc[w] = "dead" /\ mMu = Nil
    /\ IF registry = Nil THEN Return(w)
       ELSE th' = [th EXCEPT ![w].pc = "examine", ![w].obj = registry]
    /\ UNCHANGED <<regVars, slotVars, dbVars, lockVars, used>>

\* Under inst.mu: is the exit expected, or the session replaced?
WatchExamine(w) ==
    LET o == th[w].obj
        found == SlotOf(o, slot[w].sid)
    IN /\ At(w, "examine") /\ instMu[o] = Nil
       /\ \/ /\ status[o] = "stopped" \/ found = {}
             /\ Return(w)
             /\ UNCHANGED instMu
          \/ \E v \in found :
             /\ status[o] # "stopped"
             /\ th' = [th EXCEPT ![w].pc = "compare", ![w].slot = v]
             /\ instMu' = [instMu EXCEPT ![o] = w]
       /\ UNCHANGED <<regVars, slotVars, dbVars, mMu, slotMu, used>>

\* Mutant of WatchCompare: the slot is not removed.
WatchCompareKeeps(w) ==
    /\ At(w, "compare") /\ slotMu[th[w].slot] = Nil
    /\ Return(w)
    /\ instMu' = [instMu EXCEPT ![th[w].obj] = Nil]
    /\ UNCHANGED <<regVars, slotVars, dbVars, mMu, slotMu, used>>

\* Under inst.mu and slot.mu: remove the slot unless its handle is another's.
WatchCompare(w) ==
    LET v == th[w].slot
        o == th[w].obj
        stale == v # w \/ ~slot[v].live
    IN /\ At(w, "compare") /\ slotMu[v] = Nil
       /\ IF stale THEN Return(w) /\ UNCHANGED <<slot, index>>
          ELSE /\ slot' = Unmap(slot, w) /\ index' = Unindex(index, w)
               /\ IF Mapped(o) = {w} THEN Goto(w, "die") ELSE Return(w)
       /\ instMu' = [instMu EXCEPT ![o] = Nil]
       /\ UNCHANGED <<regVars, proc, closing, dbVars, mMu, slotMu, used>>

\* handleInstanceDeath: look the instance up, then look again under m.mu.
DeathGet(w) ==
    /\ At(w, "die") /\ mMu = Nil
    /\ IF registry # Nil /\ status[registry] # "stopped"
       THEN th' = [th EXCEPT ![w].pc = "mlock", ![w].obj = registry]
       ELSE Return(w)
    /\ UNCHANGED <<regVars, slotVars, dbVars, lockVars, used>>

DeathLock(w) ==
    /\ At(w, "mlock") /\ th[w].kind = "watch" /\ mMu = Nil
    /\ IF status[th[w].obj] = "stopped" THEN Return(w) /\ UNCHANGED mMu
       ELSE Goto(w, "ilock") /\ mMu' = w
    /\ UNCHANGED <<regVars, slotVars, dbVars, instMu, slotMu, used>>

-----------------------------------------------------------------------------
\* The instance as CreateInstance leaves it: running, with one session.
Init ==
    /\ registry = Obj0
    /\ status = [o \in Objs |-> IF o = Obj0 THEN "running" ELSE "none"]
    /\ index = [o \in Objs |-> [ch \in Channels |-> IF o = Obj0 /\ ch = Channel0 THEN 1 ELSE 0]]
    /\ slot = [w \in Workers |->
                 IF w = Worker0 THEN [obj |-> Obj0, sid |-> 1, ch |-> Channel0,
                                      live |-> TRUE, mapped |-> TRUE] ELSE Nil]
    /\ proc = [w \in Workers |-> IF w = Worker0 THEN "up" ELSE "none"]
    /\ closing = {}
    /\ rows = <<[ch |-> Channel0, status |-> "running", at |-> 0, dir |-> TRUE]>>
    /\ instRow = TRUE
    /\ mMu = Nil /\ instMu = [o \in Objs |-> Nil] /\ slotMu = [w \in Workers |-> Nil]
    /\ th = [t \in Threads |-> IF t = Worker0 THEN Watching ELSE Idle]
    /\ used = [calls |-> 0, deaths |-> 0]

SendStep(c) ==
    \/ EnsureLock(c) \/ EnsureAlive(c) \/ EnsureSpawn(c)
    \/ AcquireGet(c) \/ AcquireLookup(c) \/ AcquireSlot(c) \/ ChatEnds(c)
ClearStep(c) == ClearLock(c) \/ ClearDetach(c) \/ ClearCreate(c)
StopStep(c) == StopGet(c) \/ StopLock(c) \/ Shutdown(c)
DeleteStep(c) == DeleteGet(c) \/ DeleteLock(c) \/ DropRows(c)
StartStep(c) ==
    StartGet(c) \/ StartUnregister(c) \/ StartSpawn(c) \/ StartRegister(c) \/ Reregister(c)
DetachStep(t) == InstLock(t) \/ DetachSlot(t) \/ Detached(t)
CallStep(c) ==
    \/ GetInstance(c) \/ SendStep(c) \/ ClearStep(c)
    \/ StopStep(c) \/ DeleteStep(c) \/ StartStep(c) \/ DetachStep(c)
WatchStep(w) ==
    \/ WatchFind(w) \/ WatchExamine(w) \/ WatchCompare(w)
    \/ DeathGet(w) \/ DeathLock(w) \/ DetachStep(w)

Next ==
    \/ \E c \in Callers : CallStep(c) \/ \E kind \in Calls : Call(c, kind)
    \/ \E w \in Workers : WatchStep(w) \/ AsyncShutdown(w) \/ WorkerDies(w)

Spec == Init /\ [][Next]_vars

\* Every goroutine runs on: turns end and processes told to shut down exit
\* (force-killed after shutdownGrace).
Fairness ==
    /\ \A c \in Callers : WF_vars(CallStep(c))
    /\ \A w \in Workers : WF_vars(WatchStep(w)) /\ WF_vars(AsyncShutdown(w))

FairSpec == Spec /\ Fairness

-----------------------------------------------------------------------------
(***************************************************************************)
(* Properties.                                                             *)
(***************************************************************************)
\* Threads that are about to use an instance struct, or a slot, have one.
ObjPcs == {"ensure", "alive", "lookup", "slot", "clear", "detachOld", "create", "ilock",
           "detach", "unregister", "reregister", "examine", "compare"}
SlotPcs == {"alive", "slot", "chat", "detachOld", "register", "compare"}
PointersOK ==
    \A t \in Threads :
       /\ th[t].pc \in ObjPcs => th[t].obj \in Objs
       /\ th[t].pc \in SlotPcs => th[t].slot \in Workers /\ slot[th[t].slot] # Nil

\* Types; in particular no thread follows a nil instance or slot pointer that
\* another thread's stop, start or delete left it with.
TypeOK ==
    /\ registry \in Objs \cup {Nil}
    /\ status \in [Objs -> {"none", "running", "stopped"}]
    /\ index \in [Objs -> [Channels -> Nat]]
    /\ slot \in [Workers -> Slots \cup {Nil}]
    /\ proc \in [Workers -> {"none", "up", "dead"}]
    /\ closing \in SUBSET Workers
    /\ rows \in Seq(Rows) /\ instRow \in BOOLEAN
    /\ mMu \in Threads \cup {Nil}
    /\ instMu \in [Objs -> Threads \cup {Nil}]
    /\ slotMu \in [Workers -> Callers \cup {Nil}]
    /\ th \in [Threads -> ThreadRecs] /\ PointersOK
    /\ used \in [calls: Nat, deaths: Nat]

Chatting == {c \in Callers : th[c].pc = "chat"}

\* sessions and channelIndex of a struct agree: every mapped slot is the slot
\* of its channel and no index entry points nowhere.  Otherwise a live session
\* is unreachable for its channel, or a channel's messages all fail.
IndexConsistent ==
    \A o \in Objs :
       /\ \A w \in Mapped(o) : SlotByChannel(o, slot[w].ch) = {w}
       /\ \A ch \in Channels : index[o][ch] # 0 => SlotByChannel(o, ch) # {}

\* slot.mu "serializes Chat calls on this session": two turns of one session
\* are never under way at once, over struct and slot replacements.
OneChatPerSession ==
    \A c, d \in Chatting : slot[th[c].slot].sid = slot[th[d].slot].sid => c = d

\* Once an instance is marked stopped none of its turns is under way, and
\* none begins (detachAllSlots, acquireSlot).
StoppedIsQuiet ==
    \A c \in Chatting : registry # Nil => status[registry] # "stopped"

\* Every worker process that is up is the handle of a mapped slot of the
\* registered struct, or somebody is about to shut it down or to register it.
NoOrphanWorker ==
    \A w \in Workers : proc[w] = "up" =>
       \/ w \in closing
       \/ \E t \in Threads : w \in th[t].handles
       \/ slot[w].live /\ w \in Mapped(registry)
       \/ \E c \in Callers : At(c, "register") /\ th[c].slot = w

\* A session ended by /clear is never resumed.
ClearedStaysCleared ==
    \A w \in Workers :
       slot[w] # Nil /\ slot[w].live /\ slot[w].mapped
         => rows[slot[w].sid].status # "stopped"

\* Only /clear ends a conversation: EnsureSession and StartInstance give a
\* channel a new session only if its last one was cleared, so stops, restarts
\* and failed spawns never lose it.
ConversationKept ==
    [][\A c \in Callers : At(c, "spawn") /\ th'[c] # th[c] /\ Len(rows') > Len(rows)
         => \A n \in LatestByChannel(rows'[Len(rows')].ch) : rows[n].status = "stopped"]_vars

\* The lock a thread needs for its next step, and who holds it.
Waits(t) ==
    CASE th[t].pc \in {"get", "acquire", "mlock", "unregister", "register", "die"} -> {mMu}
      [] th[t].pc = "chat" -> {ToolLock}
      [] th[t].pc = "create" \/ (th[t].pc = "spawn" /\ th[t].kind = "send") -> {ParentLock}
      [] th[t].pc = "reregister" -> {mMu, instMu[th[t].obj]}
      [] th[t].pc = "wait" -> IF proc[t] = "dead" THEN {mMu} ELSE {Nil}
      [] th[t].pc \in {"ensure", "lookup", "clear", "ilock", "examine"} -> {instMu[th[t].obj]}
      [] th[t].pc \in {"alive", "slot", "detachOld", "compare"} -> {slotMu[th[t].slot]}
      [] th[t].pc = "detach" -> {slotMu[w] : w \in th[t].todo}
      [] OTHER -> {Nil}

\* "Lock ordering: m.mu -> inst.mu -> slot.mu (no reverse path exists)": in
\* every set of threads one waits for no other of them, so nobody is stuck.
LocksAcyclic ==
    \A T \in SUBSET {t \in Threads : Waits(t) # {Nil}} :
       T # {} => \E t \in T : Waits(t) \cap T = {}

\* Every call returns: no lock is left behind on an early return.
CallsReturn == \A c \in Callers : th[c] # Idle ~> th[c] = Idle

\* A dead worker does not stay in the registered instance: its watcher is
\* never fooled into taking the exit for an expected one.
Dead(w) ==
    /\ proc[w] = "dead" /\ slot[w].live
    /\ registry = slot[w].obj /\ status[registry] = "running" /\ slot[w].mapped
DeadSlotRemoved == \A w \in Workers : Dead(w) ~> ~Dead(w)

=============================================================================
