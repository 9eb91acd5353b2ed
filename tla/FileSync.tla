------------------------------- MODULE FileSync -------------------------------
(***************************************************************************)
(* Replication of one file between the leader and its worker nodes by the  *)
(* FileSyncService of internal/cluster: fsnotify events and the debounced  *)
(* batch, FileUpdates over the control streams, echo suppression, conflict *)
(* detection by modification time, and the archive a node gets when it     *)
(* connects.                                                               *)
(*                                                                         *)
(* An edit makes a new version; its number is content and clock at once.   *)
(* Assumption EventsInTime: the events of a write that came by sync are    *)
(* handled within echoSuppressionTTL (one second) of it.                   *)
(***************************************************************************)
EXTENDS Integers, Sequences

CONSTANTS
    Leader, Workers,
    MaxEvents   \* bound: edits, removals and disconnects together

ASSUME SyncAssumption == Leader \notin Workers /\ MaxEvents \in Nat

VARIABLES
    file,       \* content (0: there is none) and mtime at each site
    received,   \* receivedMtime of the path, 0 if not tracked
    echo,       \* whether the path is in echoPaths, younger than the TTL
    events,     \* fsnotify events not handled yet
    batch,      \* the pending map of WatchAndSync
    aside,      \* versions in .conflict files
    link,       \* of each worker: "off", "joined" (no archive yet), "tar", "on"
    watching,   \* whether the worker's watcher runs
    up, down,   \* FileUpdates on the stream of each worker
    applying,   \* the update ApplyFileUpdate works on, at each end of a stream
    due,        \* changes somebody made at each site, less the batches it sent
    edits, leaves

SyncVars == <<file, received, echo, events, batch, aside, link, watching, up, down,
              applying, edits, due, leaves>>

Sites == {Leader} \cup Workers
Versions == 0..MaxEvents
Times == 0..(2 * MaxEvents + 1)
NoUpdate == [kind |-> "none", v |-> 0, mtime |-> 0]
Changes == [kind: {"write", "delete", "archive"}, v: Versions, mtime: Times]
Updates == Changes \cup {NoUpdate}
Files == [v: Versions, mtime: Times]
FSEvents == [by: {"edit", "sync"}, gone: BOOLEAN]
Ends == [up: Updates, down: Updates]

SyncTypeOK ==
    /\ file \in [Sites -> Files]
    /\ received \in [Sites -> Times]
    /\ echo \in [Sites -> BOOLEAN] /\ watching \in [Sites -> BOOLEAN]
    /\ events \in [Sites -> Seq(FSEvents)]
    /\ batch \in [Sites -> {"none", "write", "delete"}]
    /\ aside \in [Sites -> SUBSET Versions]
    /\ link \in [Workers -> {"off", "joined", "tar", "on"}]
    /\ up \in [Workers -> Seq(Changes)] /\ down \in [Workers -> Seq(Changes)]
    /\ applying \in [Workers -> Ends]
    /\ edits \in 0..MaxEvents /\ due \in [Sites -> Int] /\ leaves \in 0..MaxEvents

SyncInit ==
    /\ file = [s \in Sites |-> [v |-> 0, mtime |-> 0]]
    /\ received = [s \in Sites |-> 0]
    /\ echo = [s \in Sites |-> FALSE]
    /\ events = [s \in Sites |-> <<>>]
    /\ batch = [s \in Sites |-> "none"]
    /\ aside = [s \in Sites |-> {}]
    /\ link = [w \in Workers |-> "off"]
    /\ watching = [s \in Sites |-> s = Leader]
    /\ up = [w \in Workers |-> <<>>] /\ down = [w \in Workers |-> <<>>]
    /\ applying = [w \in Workers |-> [up |-> NoUpdate, down |-> NoUpdate]]
    /\ due = [s \in Sites |-> 0] /\ edits = 0 /\ leaves = 0

Joined == {w \in Workers : link[w] # "off"}

\* The watcher of a site sees a change of the path.
Notice(evs, s, by, gone) ==
    IF watching[s] THEN [evs EXCEPT ![s] = Append(@, [by |-> by, gone |-> gone])] ELSE evs

\* SendToNode of one update to a set of nodes (BroadcastFileUpdate).
Broadcast(q, nodes, u) == [w \in Workers |-> IF w \in nodes THEN Append(q[w], u) ELSE q[w]]

\* sendChange and reconcileEntry: what is on the disk now.
Current(s) ==
    IF file[s].v = 0 THEN [kind |-> "delete", v |-> 0, mtime |-> 0]
    ELSE [kind |-> "write", v |-> file[s].v, mtime |-> file[s].mtime]

-----------------------------------------------------------------------------
\* Somebody changes or removes the file at a site.
Edit(s) ==
    /\ edits + leaves < MaxEvents
    /\ edits' = edits + 1
    /\ due' = [due EXCEPT ![s] = @ + 1]
    /\ \E v \in {edits + 1, 0} :
         /\ v = 0 => file[s].v # 0
         /\ file' = [file EXCEPT ![s] = [v |-> v, mtime |-> 2 * (edits + 1)]]
         /\ events' = Notice(events, s, "edit", v = 0)
    /\ UNCHANGED <<received, echo, batch, aside, link, watching, up, down, applying, leaves>>

\* handleFSEvent: suppressed, or noted for the batch.
HandleFSEvent(s) ==
    /\ events[s] # <<>>
    /\ events' = [events EXCEPT ![s] = Tail(@)]
    /\ batch' = IF echo[s] THEN batch
                ELSE [batch EXCEPT ![s] = IF Head(events[s]).gone THEN "delete" ELSE "write"]
    /\ UNCHANGED <<file, received, echo, aside, link, watching, up, down, applying, edits, due, leaves>>

\* isEchoSuppressed finds the entry too old (EventsInTime).
EchoExpires(s) ==
    /\ echo[s]
    /\ \A i \in DOMAIN events[s] : events[s][i].by # "sync"
    /\ \A w \in Workers : /\ s = w => applying[w].down = NoUpdate
                          /\ s = Leader => applying[w].up = NoUpdate
    /\ echo' = [echo EXCEPT ![s] = FALSE]
    /\ UNCHANGED <<file, received, events, batch, aside, link, watching, up, down, applying,
                   edits, due, leaves>>

\* flushPending and sendChange: the file is read when the batch is sent.
FlushPending(s) ==
    LET u == IF batch[s] = "delete" THEN [kind |-> "delete", v |-> 0, mtime |-> 0]
             ELSE Current(s) IN
    /\ batch[s] # "none"
    /\ batch' = [batch EXCEPT ![s] = "none"]
    /\ due' = [due EXCEPT ![s] = @ - 1]
    /\ IF s = Leader THEN down' = Broadcast(down, Joined, u) /\ UNCHANGED up
       ELSE /\ up' = IF link[s] = "off" THEN up ELSE [up EXCEPT ![s] = Append(@, u)]
            /\ UNCHANGED down
    /\ UNCHANGED <<file, received, echo, events, aside, link, watching, applying, edits, leaves>>

-----------------------------------------------------------------------------
(***************************************************************************)
(* Receiving.  Every stream has its goroutine at each end; at the leader   *)
(* they run side by side.                                                  *)
(***************************************************************************)
\* Mutant of Suppress: the path is not marked before the write.
SuppressNothing(s) == echo' = echo

\* suppressEcho, before anything is written.
Suppress(s) == echo' = [echo EXCEPT ![s] = TRUE]

\* The worker takes an update, or the archive, from the stream.
ReceiveDown(w) ==
    /\ down[w] # <<>> /\ applying[w].down = NoUpdate
    /\ applying' = [applying EXCEPT ![w].down = Head(down[w])]
    /\ down' = [down EXCEPT ![w] = Tail(@)]
    /\ Suppress(w)
    /\ UNCHANGED <<file, received, events, batch, aside, link, watching, up, edits, due, leaves>>

\* handleFileUpdate at the leader up to the write.
ReceiveUp(w) ==
    /\ up[w] # <<>> /\ applying[w].up = NoUpdate
    /\ applying' = [applying EXCEPT ![w].up = Head(up[w])]
    /\ up' = [up EXCEPT ![w] = Tail(@)]
    /\ Suppress(Leader)
    /\ UNCHANGED <<file, received, events, batch, aside, link, watching, down, edits, due, leaves>>

\* detectAndHandleConflict: changed here after the last version that was received.
Conflict(s) == file[s].v # 0 /\ received[s] # 0 /\ file[s].mtime > received[s]

\* ApplyFileUpdate of u at site s, after suppressEcho.
ApplyFileUpdate(s, u) ==
    \/ /\ u.kind = "delete"
       /\ file' = [file EXCEPT ![s].v = 0]
       /\ events' = IF file[s].v = 0 THEN events ELSE Notice(events, s, "sync", TRUE)
       /\ UNCHANGED <<received, aside>>
    \/ /\ u.kind = "write" /\ Conflict(s)
       /\ aside' = [aside EXCEPT ![s] = @ \cup {u.v}]
       /\ received' = [received EXCEPT ![s] = u.mtime]
       /\ UNCHANGED <<file, events>>
    \/ /\ u.kind = "write" /\ ~Conflict(s)
       /\ file' = [file EXCEPT ![s] = [v |-> u.v, mtime |-> u.mtime]]
       /\ received' = [received EXCEPT ![s] = u.mtime]
       /\ events' = Notice(events, s, "sync", FALSE)
       /\ UNCHANGED aside

\* The worker's file update handler.
ApplyDown(w) ==
    /\ applying[w].down.kind \in {"write", "delete"}
    /\ ApplyFileUpdate(w, applying[w].down)
    /\ applying' = [applying EXCEPT ![w].down = NoUpdate]
    /\ UNCHANGED <<echo, batch, link, watching, up, down, edits, due, leaves>>

\* The last chunk of the archive (ApplyInitialSyncStream): the file is written
\* with the present time and is not tracked; then the watcher is started.
ApplyArchive(w) ==
    /\ applying[w].down.kind = "archive"
    /\ file' = IF applying[w].down.v = 0 THEN file
               ELSE [file EXCEPT ![w] = [v |-> applying[w].down.v, mtime |-> 2 * edits + 1]]
    /\ watching' = [watching EXCEPT ![w] = TRUE]
    /\ applying' = [applying EXCEPT ![w].down = NoUpdate]
    /\ UNCHANGED <<received, echo, events, batch, aside, link, up, down, edits, due, leaves>>

\* handleFileUpdate: the leader applies and passes the update on to the others.
ApplyUp(w) ==
    LET u == applying[w].up IN
    /\ u # NoUpdate
    /\ ApplyFileUpdate(Leader, u)
    /\ applying' = [applying EXCEPT ![w].up = NoUpdate]
    /\ down' = Broadcast(down, Joined \ {w}, u)
    /\ UNCHANGED <<echo, batch, link, watching, up, edits, due, leaves>>

-----------------------------------------------------------------------------
\* A node registers: from now on it gets broadcasts.
Join(w) ==
    /\ link[w] = "off"
    /\ link' = [link EXCEPT ![w] = "joined"]
    /\ UNCHANGED <<file, received, echo, events, batch, aside, watching, up, down, applying,
                   edits, due, leaves>>

\* sendInitialSync: CreateInitialSync and the chunks ...
SendArchive(w) ==
    /\ link[w] = "joined"
    /\ link' = [link EXCEPT ![w] = "tar"]
    /\ down' = [down EXCEPT ![w] =
                  Append(@, [kind |-> "archive", v |-> file[Leader].v, mtime |-> 0])]
    /\ UNCHANGED <<file, received, echo, events, batch, aside, watching, up, applying,
                   edits, due, leaves>>

\* ... then Reconcile(nil): every file there is goes to every node.
Reconcile(w) ==
    /\ link[w] = "tar"
    /\ link' = [link EXCEPT ![w] = "on"]
    /\ down' = IF file[Leader].v = 0 THEN down ELSE Broadcast(down, Joined, Current(Leader))
    /\ UNCHANGED <<file, received, echo, events, batch, aside, watching, up, applying,
                   edits, due, leaves>>

\* The stream ends: the worker stops its service and makes a fresh one.
Leave(w) ==
    /\ link[w] # "off" /\ edits + leaves < MaxEvents
    /\ leaves' = leaves + 1
    /\ link' = [link EXCEPT ![w] = "off"]
    /\ up' = [up EXCEPT ![w] = <<>>] /\ down' = [down EXCEPT ![w] = <<>>]
    /\ applying' = [applying EXCEPT ![w].down = NoUpdate]
    /\ watching' = [watching EXCEPT ![w] = FALSE]
    /\ received' = [received EXCEPT ![w] = 0]
    /\ echo' = [echo EXCEPT ![w] = FALSE]
    /\ events' = [events EXCEPT ![w] = <<>>]
    /\ batch' = [batch EXCEPT ![w] = "none"]
    /\ UNCHANGED <<file, aside, edits, due>>

SyncNext ==
    \/ \E s \in Sites : Edit(s) \/ HandleFSEvent(s) \/ EchoExpires(s) \/ FlushPending(s)
    \/ \E w \in Workers :
         \/ ReceiveDown(w) \/ ReceiveUp(w) \/ ApplyDown(w) \/ ApplyArchive(w) \/ ApplyUp(w)
         \/ Join(w) \/ SendArchive(w) \/ Reconcile(w) \/ Leave(w)

SyncSpec == SyncInit /\ [][SyncNext]_SyncVars

-----------------------------------------------------------------------------
\* No sync loop: a batch is only ever sent because of a change that somebody
\* made at that site, so updates that arrive, however they meet edits, the
\* archive, the broadcasts of Reconcile and reconnects, never cause another.
NoSyncLoop == \A s \in Sites : due[s] >= 0

=============================================================================
