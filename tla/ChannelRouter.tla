---------------------------- MODULE ChannelRouter ----------------------------
(***************************************************************************)
(* The router of one instance's conversations: bindings that web           *)
(* connections and chats make, slash commands, the notification pump that  *)
(* runs a turn for each notification and delivers it to the bindings it    *)
(* took before the turn, and the restart of the instance, which gives it   *)
(* a new queue.                                                            *)
(*                                                                         *)
(* A session is a channel key and a number that /clear counts up.  All web *)
(* connections share the key "web"; a chat is its own key.  A push and its *)
(* signal are one step here (NotificationQueue has them apart).            *)
(***************************************************************************)
EXTENDS Naturals, Sequences, FiniteSets, Functions

CONSTANTS
    Webs,           \* web connections
    Chats,          \* Telegram chats and Slack threads
    Pumps,          \* pump goroutines that could be started
    MaxNotes,       \* bound on notifications
    MaxDisruptions  \* bound on clears and restarts together

ASSUME RouterAssumption ==
    /\ Webs \cap Chats = {} /\ Pumps # {}
    /\ MaxNotes \in Nat /\ MaxDisruptions \in Nat

Convs == Webs \cup Chats
Keys == Chats \cup {"web"}
KeyOf(c) == IF c \in Webs THEN "web" ELSE c
Unset == <<"web", MaxDisruptions + 1>>  \* a binding whose SessionID is still empty
NoNote == [id |-> 0, sess |-> Unset]

VARIABLES
    session,    \* the manager's session of each key
    conv,       \* Convs -> "none", "bound" (before SessionID is set), "on"
    connSess,   \* wsConn.sessionID, and what a chat's message goes to
    bound,      \* conversations in r.bindings -> SessionID
    queues,     \* queue of each start of the instance: items and signal
    starts,     \* which of them InstanceNotifications returns
    running,    \* the instance runs
    entry,      \* r.pumps has the instance
    pumps,      \* pump goroutines
    delivered,  \* notifications each conversation was sent, in order
    panicked,   \* a delivery called a method of a nil Channel
    notes, clears       \* how many there were

routerVars == <<session, conv, connSess, bound, queues, starts, running, entry,
                pumps, delivered, panicked, notes, clears>>

SessionIds == Keys \X (0..MaxDisruptions)
NoteIds == 1..MaxNotes
Notes == [id : NoteIds, sess : SessionIds \cup {Unset}]
NoteQueues == [items : Seq(Notes), signal : BOOLEAN]
PumpRecs == [pc : {"off", "select", "drain", "turn", "deliver"}, watch : 0..MaxDisruptions,
             batch : Seq(Notes), note : Notes \cup {NoNote}, targets : SUBSET Convs]
NoQueue == [items |-> <<>>, signal |-> FALSE]
OffPump == [pc |-> "off", watch |-> 0, batch |-> <<>>, note |-> NoNote, targets |-> {}]

RouterTypeOK ==
    /\ session \in [Keys -> 0..MaxDisruptions]
    /\ conv \in [Convs -> {"none", "bound", "on"}]
    /\ connSess \in [Convs -> SessionIds]
    /\ DOMAIN bound \subseteq Convs /\ \A c \in DOMAIN bound : bound[c] \in SessionIds \cup {Unset}
    /\ starts \in 0..MaxDisruptions /\ clears \in Nat /\ notes \in 0..MaxNotes
    /\ queues \in [0..MaxDisruptions -> NoteQueues]
    /\ pumps \in [Pumps -> PumpRecs]
    /\ delivered \in [Convs -> Seq(NoteIds)]
    /\ running \in BOOLEAN /\ entry \in BOOLEAN /\ panicked \in BOOLEAN

RouterInit ==
    /\ session = [k \in Keys |-> 0]
    /\ conv = [c \in Convs |-> "none"]
    /\ connSess = [c \in Convs |-> <<KeyOf(c), 0>>]
    /\ bound = <<>>
    /\ queues = [q \in 0..MaxDisruptions |-> NoQueue]
    /\ starts = 0 /\ running = TRUE /\ entry = FALSE
    /\ pumps = [p \in Pumps |-> OffPump]
    /\ delivered = [c \in Convs |-> <<>>]
    /\ panicked = FALSE /\ notes = 0 /\ clears = 0

-----------------------------------------------------------------------------
(* Bindings.                                                               *)

Bind(c, s) == [d \in DOMAIN bound \cup {c} |-> IF d = c THEN s ELSE bound[d]]
Unbind(c) == Restrict(bound, DOMAIN bound \ {c})

\* The channel a binding holds is the one registered under the name Bind is
\* given: "web" is, "telegram" and "slack" are not, since the channels of an
\* instance are registered as "telegram:<id>" and "slack:<id>".
HasChannel(c) == c \in Webs

\* HandleConn has its session and binds; handleUpdate and dispatchMessage bind
\* each message of a chat anew.  Either way SessionID is empty at first.
BindConv(c) ==
    /\ running
    /\ conv[c] = "none" \/ (c \in Chats /\ conv[c] = "on")
    /\ conv' = [conv EXCEPT ![c] = "bound"]
    /\ connSess' = [connSess EXCEPT ![c] = <<KeyOf(c), session[KeyOf(c)]>>]
    /\ bound' = Bind(c, Unset)
    /\ UNCHANGED <<session, queues, starts, running, entry, pumps, delivered,
                   panicked, notes, clears>>

\* Mutant of EnsurePump: a pump is started whether or not one is running.
EnsurePumpAlways ==
    IF \E p \in Pumps : pumps[p].pc = "off"
    THEN LET p == CHOOSE p \in Pumps : pumps[p].pc = "off"
         IN  /\ pumps' = [pumps EXCEPT ![p].pc = "select", ![p].watch = starts]
             /\ entry' = TRUE
    ELSE UNCHANGED <<pumps, entry>>

\* StartNotificationPump, with the first line of runNotificationPump: the
\* goroutine waits on the queue the instance has now, for good.
EnsurePump ==
    IF entry THEN UNCHANGED <<pumps, entry>>
    ELSE /\ entry' = TRUE
         /\ LET p == CHOOSE p \in Pumps : pumps[p].pc = "off"
            IN  pumps' = [pumps EXCEPT ![p].pc = "select", ![p].watch = starts]

\* b.SessionID = sessionID, then EnsureNotificationPump.
SetSession(c) ==
    /\ conv[c] = "bound"
    /\ conv' = [conv EXCEPT ![c] = "on"]
    /\ bound' = IF c \in DOMAIN bound THEN Bind(c, connSess[c]) ELSE bound
    /\ EnsurePump
    /\ UNCHANGED <<session, connSess, queues, starts, running, delivered,
                   panicked, notes, clears>>

\* The browser goes away: the deferred delete and Unbind of HandleConn.
Disconnect(c) ==
    /\ c \in Webs /\ conv[c] = "on"
    /\ conv' = [conv EXCEPT ![c] = "none"]
    /\ bound' = Unbind(c)
    /\ UNCHANGED <<session, connSess, queues, starts, running, entry, pumps,
                   delivered, panicked, notes, clears>>

\* handleClearCommand: the binding of this conversation only gets the new
\* session, and the connection of a web one.
ClearConv(c) ==
    /\ running /\ conv[c] = "on" /\ clears + starts < MaxDisruptions
    /\ clears' = clears + 1
    /\ session' = [session EXCEPT ![KeyOf(c)] = @ + 1]
    /\ bound' = IF c \in DOMAIN bound THEN Bind(c, <<KeyOf(c), session[KeyOf(c)] + 1>>)
                ELSE bound
    /\ connSess' = [connSess EXCEPT ![c] = <<KeyOf(c), session[KeyOf(c)] + 1>>]
    /\ UNCHANGED <<conv, queues, starts, running, entry, pumps, delivered, panicked, notes>>

\* A tool, a finished task or a scheduled turn pushes: for a session, or for
\* the instance.
PushNote ==
    \E s \in {<<k, session[k]>> : k \in Keys} \cup {Unset} :
    /\ running /\ notes < MaxNotes /\ notes' = notes + 1
    /\ queues' = [queues EXCEPT ![starts] =
                    [items |-> Append(@.items, [id |-> notes + 1, sess |-> s]),
                     signal |-> TRUE]]
    /\ UNCHANGED <<session, conv, connSess, bound, starts, running, entry, pumps,
                   delivered, panicked, clears>>

\* Stopping keeps the queue; StartInstance gives the instance a new one, while
\* the pump, whose entry nobody removed, still waits on the old.
RestartInstance ==
    /\ \/ running /\ running' = FALSE /\ UNCHANGED starts
       \/ ~running /\ running' = TRUE /\ clears + starts < MaxDisruptions /\ starts' = starts + 1
    /\ UNCHANGED <<session, conv, connSess, bound, queues, entry, pumps, delivered,
                   panicked, notes, clears>>

-----------------------------------------------------------------------------
(* The pump.                                                               *)

Receive(p) ==
    LET q == pumps[p].watch IN
    /\ pumps[p].pc = "select" /\ queues[q].signal
    /\ queues' = [queues EXCEPT ![q].signal = FALSE]
    /\ pumps' = [pumps EXCEPT ![p].pc = "drain"]
    /\ UNCHANGED <<session, conv, connSess, bound, starts, running, entry, delivered,
                   panicked, notes, clears>>

\* drainAndDeliver asks the manager for the queue again.
DrainQueue(p) ==
    /\ pumps[p].pc = "drain"
    /\ pumps' = [pumps EXCEPT ![p].pc = IF queues[starts].items = <<>> THEN "select" ELSE "turn",
                              ![p].batch = queues[starts].items]
    /\ queues' = [queues EXCEPT ![starts].items = <<>>]
    /\ UNCHANGED <<session, conv, connSess, bound, starts, running, entry, delivered,
                   panicked, notes, clears>>

\* bindingsForSession: exact matches only; bindingsForInstance otherwise.
TargetsOf(n) ==
    IF n.sess = Unset THEN DOMAIN bound ELSE {c \in DOMAIN bound : bound[c] = n.sess}

\* processNotification up to the turn: the bindings are taken now.  Without
\* any the notification is skipped.  The turn of a stopped instance fails
\* after they were taken, is still delivered and ends the batch.
BeginNoteTurn(p) ==
    /\ pumps[p].pc = "turn"
    /\ LET n == Head(pumps[p].batch)
           rest == Tail(pumps[p].batch)
       IN  pumps' = [pumps EXCEPT ![p] =
             IF TargetsOf(n) = {}
             THEN [@ EXCEPT !.pc = IF rest = <<>> THEN "select" ELSE "turn", !.batch = rest]
             ELSE [@ EXCEPT !.pc = "deliver", !.note = n, !.targets = TargetsOf(n),
                            !.batch = IF running THEN rest ELSE <<>>]]
    /\ UNCHANGED <<session, conv, connSess, bound, queues, starts, running, entry,
                   delivered, panicked, notes, clears>>

\* One goroutine of fanOut.  A web conversation is written to, and unbound
\* when its connection is gone or breaks; a binding without channel panics.
DeliverTo(p, c) ==
    /\ pumps[p].pc = "deliver" /\ c \in pumps[p].targets
    /\ pumps' = [pumps EXCEPT ![p].targets = @ \ {c}]
    /\ \/ /\ HasChannel(c) /\ conv[c] # "none"
          /\ delivered' = [delivered EXCEPT ![c] = Append(@, pumps[p].note.id)]
          /\ UNCHANGED <<bound, panicked>>
       \/ /\ HasChannel(c)
          /\ bound' = Unbind(c)
          /\ UNCHANGED <<delivered, panicked>>
       \/ ~HasChannel(c) /\ panicked' = TRUE /\ UNCHANGED <<delivered, bound>>
    /\ UNCHANGED <<session, conv, connSess, queues, starts, running, entry, notes, clears>>

\* wg.Wait: the next notification comes after all deliveries of this one.
FanOutEnds(p) ==
    /\ pumps[p].pc = "deliver" /\ pumps[p].targets = {}
    /\ pumps' = [pumps EXCEPT ![p].pc = IF pumps[p].batch = <<>> THEN "select"
                                        ELSE "turn",
                              ![p].note = NoNote]
    /\ UNCHANGED <<session, conv, connSess, bound, queues, starts, running, entry,
                   delivered, panicked, notes, clears>>

\* The panic ends the process, which starts again with nothing of this state.
ProcessRestarts ==
    /\ panicked
    /\ panicked' = FALSE
    /\ conv' = [c \in Convs |-> "none"] /\ bound' = <<>>
    /\ queues' = [q \in 0..MaxDisruptions |-> NoQueue]
    /\ entry' = FALSE /\ pumps' = [p \in Pumps |-> OffPump]
    /\ running' = TRUE
    /\ UNCHANGED <<session, connSess, starts, delivered, notes, clears>>

RouterStep ==
    \/ \E c \in Convs : BindConv(c) \/ SetSession(c) \/ Disconnect(c) \/ ClearConv(c)
    \/ PushNote \/ RestartInstance
    \/ \E p \in Pumps : \/ Receive(p) \/ DrainQueue(p) \/ BeginNoteTurn(p) \/ FanOutEnds(p)
                        \/ \E c \in Convs : DeliverTo(p, c)

RouterNext == (~panicked /\ RouterStep) \/ ProcessRestarts

RouterSpec == RouterInit /\ [][RouterNext]_routerVars

-----------------------------------------------------------------------------
\* A conversation gets the notifications of its instance in the order they
\* were pushed and none twice, whoever asked for the pump and however often
\* (router.go, StartNotificationPump "idempotent", fanOut's wait).
DeliveredInOrder ==
    \A c \in Convs : \A i, j \in DOMAIN delivered[c] :
        i < j => delivered[c][i] < delivered[c][j]

=============================================================================
