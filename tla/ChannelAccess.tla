---------------------------- MODULE ChannelAccess ----------------------------
(* Who may write to an instance through Telegram or Slack: the sender list in *)
(* the instance's config file, read and rewritten as a whole by the access    *)
(* checker, the API and the configuration calls, each under the instance's    *)
(* mutex; and the Telegram poll loop, which hands every update to that check, *)
(* confirms the updates it handled with its next getUpdates, and is replaced  *)
(* by a loop that starts at offset 0 when the channels are restarted or the   *)
(* server is.                                                                 *)
(* Source: internal/channel/access.go, internal/config/instance_config.go,    *)
(* internal/api/channel_access.go and instance_config.go,                     *)
(* internal/channel/telegram, internal/channel/slack.                         *)
EXTENDS Naturals, Sequences, FiniteSets

CONSTANTS
    Senders,             \* sender keys
    Writers,             \* the goroutines that use the config file
    NoWriter,
    MaxPendingSenders,   \* maxPendingSenders
    Updates,             \* update ids Telegram gives: 1 .. Updates
    Pollers,             \* the poll loops, one after another
    MaxAdmin             \* bound on the calls of the API

ASSUME AccessAssumption ==
    /\ NoWriter \notin Writers /\ Pollers \subseteq Writers
    /\ Updates \in Nat /\ MaxAdmin \in Nat
    /\ MaxPendingSenders \in Nat \ {0} /\ IsFiniteSet(Senders)

VARIABLES
    conf,       \* the file: the status of each sender, and the other settings
    mutex,      \* ConfigAccessChecker.locks of the instance
    writer,     \* [writer -> the operation it runs and the copy it loaded]
    decided,    \* [sender -> the decision of the API that was saved last]
    set,        \* the other settings that were saved last
    admin,      \* calls of the API so far
    confirmed,  \* Telegram: updates up to here are never given again
    from,       \* Telegram: the sender of each update
    poll,       \* [poller -> its loop]
    handled     \* the updates some loop has handled

accessVars == <<conf, mutex, writer, decided, set, admin, confirmed, from, poll, handled>>

Statuses == {"none", "pending", "approved", "blocked"}
NoOp == [op |-> "none"]
NewLoop(pc) == [pc |-> pc, offset |-> 0, batch |-> <<>>, stopped |-> FALSE]

AccessInit ==
    /\ conf = [senders |-> [s \in Senders |-> "none"], settings |-> 0]
    /\ mutex = NoWriter
    /\ writer = [w \in Writers |-> NoOp]
    /\ decided = [s \in Senders |-> "none"]
    /\ set = 0 /\ admin = 0 /\ confirmed = 0
    /\ from \in [1 .. Updates -> Senders]
    /\ poll \in {[p \in Pollers |-> NewLoop(IF p = f THEN "idle" ELSE "off")] : f \in Pollers}
    /\ handled = {}

-----------------------------------------------------------------------------
(* The config file.  An operation takes the mutex and loads a copy ...        *)
TakeMutexUnlocked(w) == mutex' = w
TakeMutex(w) == mutex = NoWriter /\ mutex' = w

BeginOp(w, op) ==
    /\ writer[w] = NoOp
    /\ TakeMutex(w)
    /\ writer' = [writer EXCEPT ![w] = op]

CheckOp(s) == [op |-> "check", sender |-> s, copy |-> conf]
DecideOp(s, st) == [op |-> "decide", sender |-> s, status |-> st, copy |-> conf]
ModifyOp(v) == [op |-> "modify", value |-> v, copy |-> conf]

Pending(c) == {s \in Senders : c.senders[s] = "pending"}

(* ... changes the copy as the operation says; nothing is saved when the      *)
(* sender is not found or the list of pending senders is full ...             *)
Changed(o) ==
    CASE o.op = "check" -> IF \/ o.copy.senders[o.sender] # "none"
                              \/ Cardinality(Pending(o.copy)) >= MaxPendingSenders
                           THEN o.copy ELSE [o.copy EXCEPT !.senders[o.sender] = "pending"]
      [] o.op = "decide" -> IF o.copy.senders[o.sender] = "none" THEN o.copy
                            ELSE [o.copy EXCEPT !.senders[o.sender] = o.status]
      [] o.op = "modify" -> [o.copy EXCEPT !.settings = o.value]

(* ... and saves it, which may fail, before it gives the mutex back.          *)
EndOp(w, saved) ==
    LET o == writer[w] IN
    /\ conf' = IF saved THEN Changed(o) ELSE conf
    /\ decided' = IF saved /\ o.op = "decide" /\ o.copy.senders[o.sender] # "none"
                  THEN [decided EXCEPT ![o.sender] = o.status] ELSE decided
    /\ set' = IF saved /\ o.op = "modify" THEN o.value ELSE set
    /\ mutex' = NoWriter
    /\ writer' = [writer EXCEPT ![w] = NoOp]

(* The API: approve, block (UpdateSenderStatus) and dismiss (RemoveSender),   *)
(* and a change of another setting (ModifyConfig).                            *)
AdminOp(w) ==
    /\ admin < MaxAdmin /\ admin' = admin + 1
    /\ \/ \E s \in Senders, st \in {"approved", "blocked", "none"} :
             BeginOp(w, DecideOp(s, st))
       \/ BeginOp(w, ModifyOp(admin + 1))
    /\ UNCHANGED <<conf, decided, set, confirmed, from, poll, handled>>

AdminEnds(w) ==
    /\ writer[w].op \in {"decide", "modify"}
    /\ \E saved \in BOOLEAN : EndOp(w, saved)
    /\ UNCHANGED <<admin, confirmed, from, poll, handled>>

(* handleEventCallback: Slack gives an event, and gives it again when it is   *)
(* not acknowledged in time; each one runs the check in a goroutine.          *)
SlackEvent(w) ==
    /\ w \notin Pollers
    /\ \E s \in Senders : BeginOp(w, CheckOp(s))
    /\ UNCHANGED <<conf, decided, set, admin, confirmed, from, poll, handled>>

SlackEnds(w) ==
    /\ w \notin Pollers /\ writer[w].op = "check"
    /\ \E saved \in BOOLEAN : EndOp(w, saved)
    /\ UNCHANGED <<admin, confirmed, from, poll, handled>>

-----------------------------------------------------------------------------
(* The poll loop.  getUpdates confirms what is below the offset and returns   *)
(* some of what is not confirmed, or nothing when the wait is over; a call    *)
(* that fails is made again.                                                  *)
NextOffsetSkipping(id) == id + 2
NextOffset(id) == id + 1

Batch(low, n) == [i \in 1 .. n - low |-> low + i]

GetUpdates(p) ==
    /\ poll[p].pc = "idle" /\ ~poll[p].stopped
    /\ LET low == IF poll[p].offset > confirmed + 1 THEN poll[p].offset - 1 ELSE confirmed
       IN /\ confirmed' = low
          /\ \E n \in low .. Updates :
                poll' = [poll EXCEPT ![p].pc = IF n = low THEN "idle" ELSE "batch",
                                     ![p].batch = Batch(low, n)]
    /\ UNCHANGED <<conf, mutex, writer, decided, set, admin, from, handled>>

(* The next update of the batch: the offset moves past it, and its sender is  *)
(* checked.                                                                   *)
HandleUpdate(p) ==
    /\ poll[p].pc = "batch"
    /\ LET u == Head(poll[p].batch) IN
       /\ poll' = [poll EXCEPT ![p].offset = IF u >= @ THEN NextOffset(u) ELSE @,
                               ![p].pc = "check"]
       /\ BeginOp(p, CheckOp(from[u]))
    /\ UNCHANGED <<conf, decided, set, admin, confirmed, from, handled>>

(* The check ends: the message of an approved sender is dispatched to the     *)
(* router, the others are dropped or told to wait.                            *)
UpdateHandled(p) ==
    /\ poll[p].pc = "check"
    /\ LET rest == Tail(poll[p].batch) IN
       /\ poll' = [poll EXCEPT ![p].batch = rest,
                               ![p].pc = IF rest # <<>> THEN "batch" ELSE "idle"]
       /\ handled' = handled \cup {Head(poll[p].batch)}
    /\ \E saved \in BOOLEAN : EndOp(p, saved)
    /\ UNCHANGED <<admin, confirmed, from>>

(* RestartChannels: the old loop is told to stop, which it notices before its *)
(* next getUpdates; the new one starts at offset 0 at once.                   *)
RestartChannels(q) ==
    /\ poll[q].pc = "off"
    /\ poll' = [p \in Pollers |-> IF p = q THEN [poll[q] EXCEPT !.pc = "idle"]
                                  ELSE [poll[p] EXCEPT !.stopped = poll[p].pc # "off"]]
    /\ UNCHANGED <<conf, mutex, writer, decided, set, admin, confirmed, from, handled>>

(* The server is killed and started again: nothing of memory is left, the     *)
(* file and Telegram's offset are.                                            *)
ServerRestart(q) ==
    /\ poll[q].pc = "off"
    /\ poll' = [p \in Pollers |-> IF p = q THEN [poll[q] EXCEPT !.pc = "idle"]
                                  ELSE IF poll[p].pc = "off" THEN poll[p]
                                  ELSE NewLoop("gone")]
    /\ mutex' = NoWriter
    /\ writer' = [w \in Writers |-> NoOp]
    /\ UNCHANGED <<conf, decided, set, admin, confirmed, from, handled>>

AccessNext ==
    \/ \E w \in Writers \ Pollers : AdminOp(w) \/ AdminEnds(w) \/ SlackEvent(w) \/ SlackEnds(w)
    \/ \E p \in Pollers : GetUpdates(p) \/ HandleUpdate(p) \/ UpdateHandled(p)
    \/ \E q \in Pollers : RestartChannels(q) \/ ServerRestart(q)

AccessSpec == AccessInit /\ [][AccessNext]_accessVars

-----------------------------------------------------------------------------
Confs == [senders: [Senders -> Statuses], settings: 0 .. MaxAdmin]
Ops == [op: {"check"}, sender: Senders, copy: Confs]
       \cup [op: {"decide"}, sender: Senders, status: Statuses, copy: Confs]
       \cup [op: {"modify"}, value: 0 .. MaxAdmin, copy: Confs]
Loops == [pc: {"off", "idle", "batch", "check", "gone"}, offset: 0 .. Updates + 1,
          batch: Seq(1 .. Updates), stopped: BOOLEAN]

AccessTypeOK ==
    /\ conf \in Confs /\ mutex \in Writers \cup {NoWriter}
    /\ writer \in [Writers -> Ops \cup {NoOp}]
    /\ decided \in [Senders -> Statuses] /\ set \in 0 .. MaxAdmin /\ admin \in 0 .. MaxAdmin
    /\ confirmed \in 0 .. Updates /\ handled \subseteq 1 .. Updates
    /\ from \in [1 .. Updates -> Senders]
    /\ poll \in [Pollers -> Loops]

(* What the API saved stands until it saves something else, whatever messages *)
(* arrive meanwhile: every operation rewrites the whole file from the copy it *)
(* loaded, so one that worked outside the instance's mutex would bring back a *)
(* blocked sender or an old setting (access.go:186-190).                      *)
DecisionsStand ==
    /\ conf.settings = set
    /\ \A s \in Senders : decided[s] # "none" => conf.senders[s] = decided[s]

(* An update Telegram will not give again has been handled: the loop confirms *)
(* with its next getUpdates only what its batch went through, also when it is *)
(* replaced in the middle of a batch or the server dies there.                *)
ConfirmedWasHandled == 1 .. confirmed \subseteq handled
=============================================================================
