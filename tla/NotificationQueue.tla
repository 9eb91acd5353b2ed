-------------------------- MODULE NotificationQueue --------------------------
(***************************************************************************)
(* The notification queue of an instance and the pump that empties it.     *)
(* Push appends under the lock and signals after it: the two are separate  *)
(* steps, and the one-place channel keeps a single signal for any number   *)
(* of pushes.                                                              *)
(***************************************************************************)
EXTENDS Naturals, Sequences

CONSTANTS
    Producers,          \* goroutines that push: tools, watchers of workers
    MaxNotifications,   \* maxNotifications
    MaxPushes           \* bound on the pushes of a behaviour

ASSUME QueueAssumption ==
    /\ MaxNotifications \in Nat \ {0} /\ MaxPushes \in Nat

VARIABLES
    items,      \* q.items
    ready,      \* q.ch holds a signal
    signalling, \* producers between the unlock and the send
    pump,       \* runNotificationPump: "select", "drain", "turn"
    batch,      \* what drainAndDeliver has left to process
    handed,     \* what Drain has returned so far
    pushes      \* number of pushes

queueVars == <<items, ready, signalling, pump, batch, handed, pushes>>

QueueTypeOK ==
    /\ items \in Seq(1..MaxPushes) /\ Len(items) <= MaxNotifications
    /\ ready \in BOOLEAN /\ signalling \subseteq Producers
    /\ pump \in {"select", "drain", "turn"}
    /\ batch \in Seq(1..MaxPushes) /\ handed \in Seq(1..MaxPushes)
    /\ pushes \in 0..MaxPushes

QueueInit ==
    /\ items = <<>> /\ ready = FALSE /\ signalling = {}
    /\ pump = "select" /\ batch = <<>> /\ handed = <<>> /\ pushes = 0

\* Push under q.mu: a full queue gives up its oldest item.
PushItem(p) ==
    /\ p \notin signalling /\ pushes < MaxPushes
    /\ pushes' = pushes + 1
    /\ LET kept == IF Len(items) >= MaxNotifications THEN Tail(items) ELSE items
       IN  items' = Append(kept, pushes + 1)
    /\ signalling' = signalling \cup {p}
    /\ UNCHANGED <<ready, pump, batch, handed>>

\* The non-blocking send: a signal that is already there stands for both.
Signal(p) ==
    /\ p \in signalling /\ signalling' = signalling \ {p}
    /\ ready' = TRUE
    /\ UNCHANGED <<items, pump, batch, handed, pushes>>

\* The pump receives from Ready.
Select ==
    /\ pump = "select" /\ ready
    /\ ready' = FALSE /\ pump' = "drain"
    /\ UNCHANGED <<items, signalling, batch, handed, pushes>>

\* Mutant of Drain: one item is taken for one signal.
DrainOne ==
    /\ pump = "drain"
    /\ batch' = IF items = <<>> THEN <<>> ELSE <<Head(items)>>
    /\ items' = IF items = <<>> THEN <<>> ELSE Tail(items)
    /\ handed' = handed \o batch'
    /\ pump' = IF items = <<>> THEN "select" ELSE "turn"
    /\ UNCHANGED <<ready, signalling, pushes>>

\* Drain takes all there is, which may be nothing after a spurious signal.
Drain ==
    /\ pump = "drain"
    /\ batch' = items /\ items' = <<>> /\ handed' = handed \o items
    /\ pump' = IF items = <<>> THEN "select" ELSE "turn"
    /\ UNCHANGED <<ready, signalling, pushes>>

\* processNotification: one turn for the head of the batch; the turn of a
\* stopped or removed instance ends the batch.
Process ==
    /\ pump = "turn"
    /\ batch' \in {Tail(batch), <<>>}
    /\ pump' = IF batch' = <<>> THEN "select" ELSE "turn"
    /\ UNCHANGED <<items, ready, signalling, handed, pushes>>

PumpStep == Select \/ Drain \/ Process

QueueNext == PumpStep \/ \E p \in Producers : PushItem(p) \/ Signal(p)

\* A goroutine that can go on does: a turn ends, a push that took the lock
\* also sends.
QueueFairness == WF_queueVars(PumpStep) /\ \A p \in Producers : WF_queueVars(Signal(p))

QueueSpec == QueueInit /\ [][QueueNext]_queueVars /\ QueueFairness

-----------------------------------------------------------------------------
Box == INSTANCE Mailbox WITH
         Capacity <- MaxNotifications, MaxPuts <- MaxPushes,
         box <- items, out <- handed, puts <- pushes

\* The queue implements the mailbox: pushes that coalesce into one signal, a
\* signal that arrives after its item was drained, and a full queue neither
\* reorder nor repeat a notification, and whatever stays in the queue is
\* drained at last (notifications.go, Push and Drain; router.go, the pump).
QueueIsMailbox == Box!BoxSpec

=============================================================================
