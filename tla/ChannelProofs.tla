---------------------------- MODULE ChannelProofs ----------------------------
(***************************************************************************)
(* Proofs about the ways in and out of an instance: who may write to it    *)
(* and which updates are confirmed (ChannelAccess), the queue of           *)
(* notifications and the mailbox it implements (NotificationQueue), and    *)
(* the delivery to conversations (ChannelRouter), for every set of         *)
(* senders, goroutines, poll loops and pumps and every bound.              *)
(***************************************************************************)
EXTENDS ChannelAccess, NotificationQueue, ChannelRouter, SequenceTheorems, TLAPS

(***************************************************************************)
(* The config file.                                                        *)
(***************************************************************************)

\* A goroutine in the middle of an operation holds the mutex, and the copy it
\* loaded is still what the file says; a poll loop that waits for a check is in
\* the middle of one.
MutexHeld ==
    /\ \A w \in Writers : writer[w] # NoOp => mutex = w /\ writer[w].copy = conf
    /\ \A p \in Pollers : poll[p].pc = "check" => writer[p] # NoOp

(***************************************************************************)
(* A poll loop has handled what is below its offset, except for the update *)
(* it is checking; its batch is what follows, without gaps.                *)
(***************************************************************************)
LoopInv(p) ==
    LET l == poll[p] IN
    /\ l.pc = "off" => l.offset = 0
    /\ l.pc = "idle" => 1 .. (l.offset - 1) \subseteq handled
    /\ l.pc \in {"batch", "check"} =>
         /\ l.batch # <<>>
         /\ \A i \in 1 .. Len(l.batch) : l.batch[i] = l.batch[1] + i - 1
         /\ 1 .. (l.batch[1] - 1) \subseteq handled
    /\ l.pc = "batch" => l.offset <= l.batch[1]
    /\ l.pc = "check" => l.offset = l.batch[1] + 1

AccessInv ==
    /\ AccessTypeOK
    /\ MutexHeld /\ DecisionsStand
    /\ ConfirmedWasHandled /\ \A p \in Pollers : LoopInv(p)

\* The operations have the fields their kind says.
LEMMA OpFields ==
    ASSUME NEW o \in Ops
    PROVE  /\ o # NoOp /\ o.copy \in Confs /\ o.op \in {"check", "decide", "modify"}
           /\ o.op \in {"check", "decide"} => o.sender \in Senders
           /\ o.op = "decide" => o.status \in Statuses
           /\ o.op = "modify" => o.value \in 0 .. MaxAdmin
<1>1. CASE o \in [op: {"check"}, sender: Senders, copy: Confs]
  BY <1>1 DEF NoOp
<1>2. CASE o \in [op: {"decide"}, sender: Senders, status: Statuses, copy: Confs]
  BY <1>2 DEF NoOp
<1>3. CASE o \in [op: {"modify"}, value: 0 .. MaxAdmin, copy: Confs]
  BY <1>3 DEF NoOp
<1> QED
  BY <1>1, <1>2, <1>3 DEF Ops

\* An operation begins with the copy that it loads.
LEMMA OpBegins ==
    ASSUME conf \in Confs
    PROVE  /\ \A s \in Senders : CheckOp(s) \in Ops /\ CheckOp(s).copy = conf
           /\ \A s \in Senders, st \in Statuses : DecideOp(s, st) \in Ops /\ DecideOp(s, st).copy = conf
           /\ \A v \in 0 .. MaxAdmin : ModifyOp(v) \in Ops /\ ModifyOp(v).copy = conf
BY DEF CheckOp, DecideOp, ModifyOp, Ops

\* A check keeps the settings and every sender that has a status; a decision
\* sets the status of a sender that is listed, and nothing else; a change of a
\* setting keeps the senders.
LEMMA ChangedFields ==
    ASSUME NEW o \in Ops
    PROVE  /\ Changed(o) \in Confs
           /\ o.op = "check" =>
                /\ Changed(o).settings = o.copy.settings
                /\ \A s \in Senders : o.copy.senders[s] # "none" =>
                                        Changed(o).senders[s] = o.copy.senders[s]
           /\ o.op = "decide" =>
                /\ Changed(o).settings = o.copy.settings
                /\ \A s \in Senders : Changed(o).senders[s] =
                     IF s = o.sender /\ o.copy.senders[s] # "none" THEN o.status
                     ELSE o.copy.senders[s]
           /\ o.op = "modify" => Changed(o).settings = o.value
                                 /\ Changed(o).senders = o.copy.senders
<1> DEFINE c == o.copy
<1>1. c \in Confs /\ c.senders \in [Senders -> Statuses]
  BY OpFields DEF Confs
<1>2. ASSUME NEW s \in Senders, NEW st \in Statuses
      PROVE  LET n == [c EXCEPT !.senders[s] = st] IN
             /\ n \in Confs /\ n.settings = c.settings
             /\ \A u \in Senders : n.senders[u] = IF u = s THEN st ELSE c.senders[u]
  <2> DEFINE f == [c.senders EXCEPT ![s] = st]
             n == [c EXCEPT !.senders = f]
  <2>1. f \in [Senders -> Statuses] /\ \A u \in Senders : f[u] = IF u = s THEN st ELSE c.senders[u]
    BY <1>1
  <2>2. [c EXCEPT !.senders[s] = st] = n
    OBVIOUS
  <2> HIDE DEF f
  <2>3. n \in Confs /\ n.settings = c.settings /\ n.senders = f
    BY <1>1, <2>1 DEF Confs
  <2> HIDE DEF n
  <2> QED
    BY <2>1, <2>2, <2>3
<1>3. CASE o.op = "check"
  <2>1. o.sender \in Senders /\ "pending" \in Statuses
    BY <1>3, OpFields DEF Statuses
  <2>2. \/ Changed(o) = c
        \/ c.senders[o.sender] = "none" /\ Changed(o) = [c EXCEPT !.senders[o.sender] = "pending"]
    BY <1>3 DEF Changed
  <2>3. CASE Changed(o) = c
    BY <1>1, <1>3, <2>3
  <2>4. CASE c.senders[o.sender] = "none" /\ Changed(o) = [c EXCEPT !.senders[o.sender] = "pending"]
    <3> HIDE DEF c
    <3>1. /\ Changed(o) \in Confs /\ Changed(o).settings = c.settings
          /\ \A u \in Senders : u # o.sender => Changed(o).senders[u] = c.senders[u]
      BY <1>2, <2>1, <2>4
    <3> QED
      BY <1>3, <2>4, <3>1 DEF c
  <2> QED
    BY <2>2, <2>3, <2>4
<1>4. CASE o.op = "decide"
  BY <1>1, <1>2, <1>4, OpFields DEF Changed
<1>5. CASE o.op = "modify"
  BY <1>1, <1>5, OpFields DEF Changed, Confs
<1> QED
  BY <1>3, <1>4, <1>5, OpFields

\* An operation that begins keeps what is said of the file.
LEMMA FileBegin ==
    ASSUME AccessInv, NEW w \in Writers, NEW o \in Ops, o.copy = conf, BeginOp(w, o),
           conf' = conf, decided' = decided, set' = set,
           \A p \in Pollers : poll'[p].pc = "check" => poll[p].pc = "check" \/ p = w
    PROVE  /\ mutex' \in Writers \cup {NoWriter} /\ writer' \in [Writers -> Ops \cup {NoOp}]
           /\ MutexHeld' /\ DecisionsStand'
<1>1. /\ mutex = NoWriter /\ mutex' = w /\ writer' = [writer EXCEPT ![w] = o]
      /\ writer \in [Writers -> Ops \cup {NoOp}]
  BY DEF BeginOp, TakeMutex, AccessInv, AccessTypeOK
<1>2. \A v \in Writers : writer[v] = NoOp
  BY <1>1, AccessAssumption DEF AccessInv, MutexHeld
<1>3. MutexHeld'
  BY <1>1, <1>2, OpFields, AccessAssumption DEF AccessInv, MutexHeld
<1> QED
  BY <1>1, <1>3 DEF AccessInv, DecisionsStand

\* An operation that ends saves what it made of the file as it is, or nothing.
LEMMA FileEnd ==
    ASSUME AccessInv, NEW w \in Writers, writer[w] # NoOp, NEW saved \in BOOLEAN,
           EndOp(w, saved), \A p \in Pollers \ {w} : poll'[p].pc = "check" => poll[p].pc = "check",
           w \in Pollers => poll'[w].pc # "check"
    PROVE  /\ conf' \in Confs /\ decided' \in [Senders -> Statuses] /\ set' \in 0 .. MaxAdmin
           /\ mutex' \in Writers \cup {NoWriter} /\ writer' \in [Writers -> Ops \cup {NoOp}]
           /\ MutexHeld' /\ DecisionsStand'
<1> DEFINE o == writer[w]
<1>1. /\ o \in Ops /\ o.copy = conf /\ mutex = w
      /\ conf \in Confs /\ writer \in [Writers -> Ops \cup {NoOp}]
  BY DEF AccessInv, AccessTypeOK, MutexHeld
<1>2. /\ conf' = IF saved THEN Changed(o) ELSE conf
      /\ decided' = IF saved /\ o.op = "decide" /\ o.copy.senders[o.sender] # "none"
                    THEN [decided EXCEPT ![o.sender] = o.status] ELSE decided
      /\ set' = IF saved /\ o.op = "modify" THEN o.value ELSE set
      /\ mutex' = NoWriter /\ writer' = [writer EXCEPT ![w] = NoOp]
  BY DEF EndOp
<1>3. \A v \in Writers : writer'[v] = NoOp
  BY <1>1, <1>2 DEF AccessInv, MutexHeld
<1>4. MutexHeld'
  BY <1>1, <1>3, AccessAssumption DEF AccessInv, MutexHeld
<1> HIDE DEF o
<1>5. conf' \in Confs /\ decided' \in [Senders -> Statuses] /\ set' \in 0 .. MaxAdmin
  BY <1>1, <1>2, OpFields, ChangedFields DEF AccessInv, AccessTypeOK
<1>6. DecisionsStand'
  <2>1. CASE ~saved
    BY <1>2, <2>1 DEF AccessInv, DecisionsStand
  <2>2. CASE saved /\ o.op = "check"
    BY <1>1, <1>2, <2>2, ChangedFields DEF AccessInv, DecisionsStand
  <2>3. CASE saved /\ o.op = "decide"
    <3>1. /\ decided \in [Senders -> Statuses] /\ o.sender \in Senders
          /\ conf' = Changed(o) /\ set' = set /\ conf.settings = set
          /\ \A s \in Senders : decided[s] # "none" => conf.senders[s] = decided[s]
      BY <1>1, <1>2, <2>3, OpFields DEF AccessInv, DecisionsStand, AccessTypeOK
    <3>2. /\ conf'.settings = conf.settings
          /\ \A s \in Senders : conf'.senders[s] =
               IF s = o.sender /\ conf.senders[s] # "none" THEN o.status ELSE conf.senders[s]
      BY <1>1, <2>3, <3>1, ChangedFields
    <3>3. \A s \in Senders : decided'[s] =
            IF s = o.sender /\ conf.senders[s] # "none" THEN o.status ELSE decided[s]
      BY <1>1, <1>2, <2>3, <3>1
    <3> QED
      BY <3>1, <3>2, <3>3 DEF DecisionsStand
  <2>4. CASE saved /\ o.op = "modify"
    BY <1>1, <1>2, <2>4, ChangedFields DEF AccessInv, DecisionsStand
  <2> QED
    BY <1>1, <2>1, <2>2, <2>3, <2>4, OpFields
<1> QED
  BY <1>1, <1>2, <1>4, <1>5, <1>6

\* A loop starts at offset 0 with nothing to do.
LEMMA LoopBegins ==
    ASSUME NEW pc \in {"off", "idle", "gone"}
    PROVE  NewLoop(pc) \in Loops /\ NewLoop(pc).pc = pc /\ NewLoop(pc).offset = 0
<1>1. <<>> \in Seq(1 .. Updates) /\ 0 \in 0 .. Updates + 1
  BY AccessAssumption
<1> QED
  BY <1>1 DEF NewLoop, Loops

LEMMA AccessInvInit == AccessInit => AccessInv
<1> SUFFICES ASSUME AccessInit PROVE AccessInv
  OBVIOUS
<1>1. NewLoop("off") \in Loops /\ NewLoop("idle") \in Loops
  BY LoopBegins
<1>3. PICK f \in Pollers :
        poll = [p \in Pollers |-> NewLoop(IF p = f THEN "idle" ELSE "off")]
  BY DEF AccessInit
<1>2. \A p \in Pollers : poll[p].offset = 0 /\ poll[p].pc \in {"idle", "off"}
  BY <1>3, LoopBegins
<1>4. poll \in [Pollers -> Loops]
  BY <1>1, <1>3
<1>5. conf \in Confs
  BY AccessAssumption DEF AccessInit, Confs, Statuses
<1>6. AccessTypeOK
  BY <1>4, <1>5, AccessAssumption DEF AccessInit, AccessTypeOK, Statuses
<1>7. \A p \in Pollers : LoopInv(p)
  BY <1>2 DEF LoopInv
<1>8. MutexHeld
  BY <1>2 DEF AccessInit, MutexHeld
<1> QED
  BY <1>6, <1>7, <1>8 DEF AccessInit, AccessInv, DecisionsStand, ConfirmedWasHandled

\* The API and Slack: operations that leave the poll loops alone.
LEMMA AccessInvWriters ==
    ASSUME AccessInv, NEW w \in Writers \ Pollers,
           AdminOp(w) \/ AdminEnds(w) \/ SlackEvent(w) \/ SlackEnds(w)
    PROVE  AccessInv'
<1>1. CASE AdminOp(w)
  <2>1. PICK o \in Ops : BeginOp(w, o) /\ o.copy = conf
    <3>1. conf \in Confs /\ admin + 1 \in 0 .. MaxAdmin
      BY <1>1, AccessAssumption DEF AdminOp, AccessInv, AccessTypeOK
    <3> QED
      BY <1>1, <3>1, OpBegins DEF AdminOp, Statuses
  <2>2. /\ conf' = conf /\ decided' = decided /\ set' = set /\ confirmed' = confirmed
        /\ from' = from /\ poll' = poll /\ handled' = handled /\ admin' \in 0 .. MaxAdmin
    BY <1>1, AccessAssumption DEF AdminOp, AccessInv, AccessTypeOK
  <2>3. /\ mutex' \in Writers \cup {NoWriter} /\ writer' \in [Writers -> Ops \cup {NoOp}]
        /\ MutexHeld' /\ DecisionsStand'
    BY <2>1, <2>2, FileBegin
  <2> QED
    BY <2>2, <2>3 DEF AccessInv, AccessTypeOK, ConfirmedWasHandled, LoopInv
<1>2. CASE SlackEvent(w)
  <2>1. PICK o \in Ops : BeginOp(w, o) /\ o.copy = conf
    <3>1. conf \in Confs
      BY DEF AccessInv, AccessTypeOK
    <3> QED
      BY <1>2, <3>1, OpBegins DEF SlackEvent
  <2>2. /\ conf' = conf /\ decided' = decided /\ set' = set /\ confirmed' = confirmed
        /\ from' = from /\ poll' = poll /\ handled' = handled /\ admin' = admin
    BY <1>2 DEF SlackEvent
  <2>3. /\ mutex' \in Writers \cup {NoWriter} /\ writer' \in [Writers -> Ops \cup {NoOp}]
        /\ MutexHeld' /\ DecisionsStand'
    BY <2>1, <2>2, FileBegin
  <2> QED
    BY <2>2, <2>3 DEF AccessInv, AccessTypeOK, ConfirmedWasHandled, LoopInv
<1>3. CASE AdminEnds(w) \/ SlackEnds(w)
  <2>1. writer[w] # NoOp
    BY <1>3 DEF AdminEnds, SlackEnds, NoOp
  <2>2. PICK saved \in BOOLEAN : EndOp(w, saved)
    BY <1>3 DEF AdminEnds, SlackEnds
  <2>3. /\ admin' = admin /\ confirmed' = confirmed /\ from' = from /\ poll' = poll
        /\ handled' = handled
    BY <1>3 DEF AdminEnds, SlackEnds
  <2>4. /\ conf' \in Confs /\ decided' \in [Senders -> Statuses] /\ set' \in 0 .. MaxAdmin
        /\ mutex' \in Writers \cup {NoWriter} /\ writer' \in [Writers -> Ops \cup {NoOp}]
        /\ MutexHeld' /\ DecisionsStand'
    BY <2>1, <2>2, <2>3, FileEnd
  <2> QED
    BY <2>3, <2>4 DEF AccessInv, AccessTypeOK, ConfirmedWasHandled, LoopInv
<1> QED
  BY <1>1, <1>2, <1>3

\* What getUpdates returns is a sequence.
LEMMA BatchIsSeq ==
    ASSUME NEW low \in Nat, NEW n \in low .. Updates
    PROVE  /\ Batch(low, n) \in Seq(1 .. Updates) /\ Len(Batch(low, n)) = n - low
           /\ \A i \in 1 .. Len(Batch(low, n)) : Batch(low, n)[i] = low + i
           /\ n # low => Batch(low, n) # <<>> /\ Batch(low, n)[1] = low + 1
<1> DEFINE b == [i \in 1 .. n - low |-> low + i]
<1>1. n - low \in Nat /\ n \in Nat /\ n <= Updates
  BY AccessAssumption
<1>2. b \in [1 .. n - low -> 1 .. Updates]
  BY <1>1, AccessAssumption
<1>3. b \in Seq(1 .. Updates)
  BY <1>1, <1>2, SeqDef
<1>4. Len(b) = n - low
  BY <1>1, <1>2, <1>3, LenProperties
<1> QED
  BY <1>1, <1>3, <1>4 DEF Batch

LEMMA AccessInvGetUpdates ==
    ASSUME AccessInv, NEW p \in Pollers, GetUpdates(p)
    PROVE  AccessInv'
<1> DEFINE low == IF poll[p].offset > confirmed + 1 THEN poll[p].offset - 1 ELSE confirmed
<1>1. /\ poll \in [Pollers -> Loops] /\ poll[p].pc = "idle" /\ poll[p].offset \in 0 .. Updates + 1
      /\ confirmed \in 0 .. Updates /\ Updates \in Nat
  BY AccessAssumption DEF GetUpdates, AccessInv, AccessTypeOK, Loops
<1>2. low \in 0 .. Updates /\ poll[p].offset <= low + 1
  BY <1>1
<1>3. 1 .. low \subseteq handled
  BY <1>1 DEF AccessInv, LoopInv, ConfirmedWasHandled
<1>4. /\ confirmed' = low /\ conf' = conf /\ mutex' = mutex /\ writer' = writer /\ decided' = decided
      /\ set' = set /\ admin' = admin /\ from' = from /\ handled' = handled
  BY DEF GetUpdates
<1>5. PICK n \in low .. Updates :
        poll' = [poll EXCEPT ![p].pc = IF n = low THEN "idle" ELSE "batch",
                             ![p].batch = Batch(low, n)]
  BY DEF GetUpdates
<1> HIDE DEF low
<1> DEFINE b == Batch(low, n)
           pc == IF n = low THEN "idle" ELSE "batch"
           r == [poll[p] EXCEPT !.pc = pc, !.batch = b]
<1>6. /\ b \in Seq(1 .. Updates) /\ Len(b) = n - low
      /\ \A i \in 1 .. Len(b) : b[i] = low + i
      /\ n # low => b # <<>> /\ b[1] = low + 1
  <2>1. low \in Nat
    BY <1>2
  <2> QED
    BY <2>1, BatchIsSeq
<1> HIDE DEF b
<1>7. /\ poll' \in [Pollers -> Loops] /\ poll'[p].pc = pc
      /\ poll'[p].offset = poll[p].offset /\ poll'[p].batch = b
      /\ \A q \in Pollers \ {p} : poll'[q] = poll[q]
  <2>1. poll' = [poll EXCEPT ![p] = r]
    BY <1>5 DEF b
  <2>2. pc \in {"idle", "batch"}
    OBVIOUS
  <2> HIDE DEF pc
  <2>3. r \in Loops /\ r.pc = pc /\ r.offset = poll[p].offset /\ r.batch = b
    BY <1>1, <1>6, <2>2 DEF Loops
  <2> HIDE DEF r
  <2> QED
    BY <1>1, <2>1, <2>3
<1>8. LoopInv(p)'
  <2>1. CASE n = low
    BY <1>1, <1>4, <1>7, <2>1 DEF AccessInv, LoopInv
  <2>2. CASE n # low
    <3>1. b[1] = low + 1 /\ b # <<>> /\ \A i \in 1 .. Len(b) : b[i] = b[1] + i - 1
      BY <1>2, <1>6, <2>2
    <3>2. 1 .. (b[1] - 1) \subseteq handled' /\ poll[p].offset <= b[1]
      BY <1>2, <1>3, <1>4, <3>1
    <3> QED
      BY <1>7, <2>2, <3>1, <3>2 DEF LoopInv
  <2> QED
    BY <2>1, <2>2
<1>9. \A q \in Pollers \ {p} : LoopInv(q)'
  BY <1>4, <1>7 DEF AccessInv, LoopInv
<1>10. ConfirmedWasHandled'
  BY <1>3, <1>4 DEF ConfirmedWasHandled
<1>11. MutexHeld' /\ DecisionsStand'
  BY <1>1, <1>4, <1>7 DEF AccessInv, MutexHeld, DecisionsStand
<1>12. AccessTypeOK'
  BY <1>2, <1>4, <1>7 DEF AccessInv, AccessTypeOK
<1> QED
  BY <1>8, <1>9, <1>10, <1>11, <1>12 DEF AccessInv

LEMMA AccessInvHandle ==
    ASSUME AccessInv, NEW p \in Pollers, HandleUpdate(p)
    PROVE  AccessInv'
<1> DEFINE u == poll[p].batch[1]
<1>1. /\ poll \in [Pollers -> Loops] /\ poll[p].pc = "batch" /\ poll[p].offset \in 0 .. Updates + 1
      /\ poll[p].batch \in Seq(1 .. Updates) /\ poll[p].batch # <<>> /\ poll[p].offset <= u
      /\ from \in [1 .. Updates -> Senders] /\ Updates \in Nat /\ conf \in Confs
  BY AccessAssumption DEF HandleUpdate, AccessInv, AccessTypeOK, Loops, LoopInv
<1>2. Head(poll[p].batch) = u /\ u \in 1 .. Updates /\ p \in Writers
  BY <1>1, AccessAssumption
<1>3. /\ conf' = conf /\ decided' = decided /\ set' = set /\ admin' = admin /\ from' = from
      /\ confirmed' = confirmed /\ handled' = handled
      /\ poll' = [poll EXCEPT ![p].offset = IF u >= @ THEN NextOffset(u) ELSE @, ![p].pc = "check"]
      /\ BeginOp(p, CheckOp(from[u]))
  BY <1>2 DEF HandleUpdate
<1> HIDE DEF u
<1> DEFINE r == [poll[p] EXCEPT !.offset = u + 1, !.pc = "check"]
<1>4. poll' = [poll EXCEPT ![p] = r]
  BY <1>1, <1>2, <1>3 DEF NextOffset
<1>5. /\ poll' \in [Pollers -> Loops] /\ poll'[p].pc = "check" /\ poll'[p].offset = u + 1
      /\ poll'[p].batch = poll[p].batch /\ \A q \in Pollers \ {p} : poll'[q] = poll[q]
  <2>1. u + 1 \in 0 .. Updates + 1
    BY <1>1, <1>2
  <2>2. r \in Loops /\ r.pc = "check" /\ r.offset = u + 1 /\ r.batch = poll[p].batch
    BY <1>1, <2>1 DEF Loops
  <2> HIDE DEF r
  <2> QED
    BY <1>1, <1>4, <2>2
<1>6. /\ mutex' \in Writers \cup {NoWriter} /\ writer' \in [Writers -> Ops \cup {NoOp}]
      /\ MutexHeld' /\ DecisionsStand'
  <2>1. CheckOp(from[u]) \in Ops /\ CheckOp(from[u]).copy = conf
    BY <1>1, <1>2, OpBegins
  <2> QED
    BY <1>2, <1>3, <1>5, <2>1, FileBegin
<1>7. LoopInv(p)'
  BY <1>1, <1>3, <1>5 DEF AccessInv, LoopInv, u
<1>8. \A q \in Pollers \ {p} : LoopInv(q)'
  BY <1>3, <1>5 DEF AccessInv, LoopInv
<1> QED
  BY <1>3, <1>5, <1>6, <1>7, <1>8 DEF AccessInv, AccessTypeOK, ConfirmedWasHandled

LEMMA AccessInvHandled ==
    ASSUME AccessInv, NEW p \in Pollers, UpdateHandled(p)
    PROVE  AccessInv'
<1> DEFINE b == poll[p].batch
           rest == Tail(b)
<1>1. /\ poll \in [Pollers -> Loops] /\ poll[p].pc = "check" /\ poll[p].offset = b[1] + 1
      /\ b \in Seq(1 .. Updates) /\ b # <<>> /\ 1 .. (b[1] - 1) \subseteq handled
      /\ \A i \in 1 .. Len(b) : b[i] = b[1] + i - 1
      /\ poll[p].offset \in 0 .. Updates + 1 /\ Updates \in Nat /\ p \in Writers
  BY AccessAssumption DEF UpdateHandled, AccessInv, AccessTypeOK, Loops, LoopInv
<1>2. /\ Head(b) = b[1] /\ b[1] \in 1 .. Updates /\ rest \in Seq(1 .. Updates)
      /\ Len(rest) = Len(b) - 1 /\ Len(b) \in Nat \ {0}
      /\ \A i \in 1 .. Len(rest) : rest[i] = b[i + 1]
  <2>1. Len(b) \in Nat \ {0} /\ b[1] \in 1 .. Updates /\ Head(b) = b[1]
    BY <1>1
  <2> HIDE DEF b
  <2> QED
    BY <1>1, <2>1, HeadTailProperties
<1>3. /\ poll' = [poll EXCEPT ![p].batch = rest, ![p].pc = IF rest # <<>> THEN "batch" ELSE "idle"]
      /\ handled' = handled \cup {b[1]} /\ admin' = admin /\ confirmed' = confirmed /\ from' = from
  BY <1>2 DEF UpdateHandled
<1>4. PICK saved \in BOOLEAN : EndOp(p, saved)
  BY DEF UpdateHandled
<1>5. /\ poll' \in [Pollers -> Loops] /\ poll'[p].pc = (IF rest # <<>> THEN "batch" ELSE "idle")
      /\ poll'[p].offset = poll[p].offset /\ poll'[p].batch = rest
      /\ \A q \in Pollers \ {p} : poll'[q] = poll[q]
  <2> DEFINE pc == IF rest # <<>> THEN "batch" ELSE "idle"
             r == [poll[p] EXCEPT !.batch = rest, !.pc = pc]
  <2>1. poll' = [poll EXCEPT ![p] = r]
    BY <1>3
  <2>2. pc \in {"idle", "batch"} /\ rest \in Seq(1 .. Updates)
    BY <1>2
  <2> HIDE DEF rest, pc
  <2>3. r \in Loops /\ r.pc = pc /\ r.offset = poll[p].offset /\ r.batch = rest
    BY <1>1, <2>2 DEF Loops
  <2> HIDE DEF r
  <2> QED
    BY <1>1, <2>1, <2>3 DEF pc
<1>6. /\ conf' \in Confs /\ decided' \in [Senders -> Statuses] /\ set' \in 0 .. MaxAdmin
      /\ mutex' \in Writers \cup {NoWriter} /\ writer' \in [Writers -> Ops \cup {NoOp}]
      /\ MutexHeld' /\ DecisionsStand'
  <2>1. writer[p] # NoOp
    BY <1>1 DEF AccessInv, MutexHeld
  <2> QED
    BY <1>1, <1>4, <1>5, <2>1, FileEnd
<1>7. 1 .. b[1] \subseteq handled'
  BY <1>1, <1>2, <1>3
<1> HIDE DEF rest
<1>8. LoopInv(p)'
  <2>1. CASE rest = <<>>
    BY <1>1, <1>2, <1>5, <1>7, <2>1 DEF LoopInv
  <2>2. CASE rest # <<>>
    <3>1. Len(rest) >= 1 /\ rest[1] = b[1] + 1
      BY <1>1, <1>2, <2>2, EmptySeq
    <3>2. ASSUME NEW i \in 1 .. Len(rest) PROVE rest[i] = rest[1] + i - 1
      <4>1. i + 1 \in 1 .. Len(b) /\ rest[i] = b[i + 1]
        BY <1>2
      <4>2. b[i + 1] = b[1] + (i + 1) - 1
        BY <1>1, <4>1
      <4> HIDE DEF b
      <4> QED
        BY <1>2, <3>1, <4>1, <4>2
    <3>3. 1 .. (rest[1] - 1) \subseteq handled' /\ poll'[p].offset <= rest[1]
      <4>1. b[1] \in Nat /\ rest[1] = b[1] + 1 /\ poll'[p].offset = b[1] + 1
        BY <1>1, <1>2, <1>5, <3>1
      <4> HIDE DEF b
      <4>2. rest[1] - 1 = b[1] /\ poll'[p].offset <= rest[1]
        BY <4>1
      <4> QED
        BY <1>7, <4>2
    <3> QED
      BY <1>5, <2>2, <3>2, <3>3 DEF LoopInv
  <2> QED
    BY <2>1, <2>2
<1>9. \A q \in Pollers \ {p} : LoopInv(q)'
  BY <1>3, <1>5 DEF AccessInv, LoopInv
<1>10. AccessTypeOK'
  BY <1>2, <1>3, <1>5, <1>6 DEF AccessInv, AccessTypeOK
<1> QED
  BY <1>3, <1>6, <1>8, <1>9, <1>10 DEF AccessInv, ConfirmedWasHandled

LEMMA AccessInvRestarts ==
    ASSUME AccessInv, NEW q \in Pollers, RestartChannels(q) \/ ServerRestart(q)
    PROVE  AccessInv'
<1>1. poll \in [Pollers -> Loops] /\ poll[q].pc = "off" /\ poll[q].offset = 0
  BY DEF RestartChannels, ServerRestart, AccessInv, AccessTypeOK, LoopInv
<1> DEFINE r == [poll[q] EXCEPT !.pc = "idle"]
<1>2. r \in Loops /\ r.pc = "idle" /\ r.offset = 0
  BY <1>1 DEF Loops
<1> HIDE DEF r
<1>3. /\ conf' = conf /\ decided' = decided /\ set' = set /\ admin' = admin
      /\ confirmed' = confirmed /\ from' = from /\ handled' = handled
  BY DEF RestartChannels, ServerRestart
<1>4. CASE RestartChannels(q)
  <2> DEFINE s(p) == [poll[p] EXCEPT !.stopped = poll[p].pc # "off"]
  <2>1. \A p \in Pollers : /\ s(p) \in Loops /\ s(p).pc = poll[p].pc
                          /\ s(p).offset = poll[p].offset /\ s(p).batch = poll[p].batch
    BY <1>1 DEF Loops
  <2>2. poll' = [p \in Pollers |-> IF p = q THEN r ELSE s(p)] /\ mutex' = mutex /\ writer' = writer
    BY <1>4 DEF RestartChannels, r
  <2> HIDE DEF s
  <2>3. /\ poll' \in [Pollers -> Loops] /\ poll'[q] = r
        /\ \A p \in Pollers \ {q} : poll'[p] = s(p)
    BY <1>2, <2>1, <2>2
  <2>4. LoopInv(q)'
    BY <1>2, <2>3 DEF LoopInv
  <2>5. \A p \in Pollers \ {q} : LoopInv(p)'
    BY <1>3, <2>1, <2>3 DEF AccessInv, LoopInv
  <2>6. MutexHeld'
    BY <1>2, <1>3, <2>1, <2>2, <2>3 DEF AccessInv, MutexHeld
  <2> QED
    BY <1>3, <2>2, <2>3, <2>4, <2>5, <2>6
       DEF AccessInv, AccessTypeOK, DecisionsStand, ConfirmedWasHandled
<1>5. CASE ServerRestart(q)
  <2> DEFINE g == NewLoop("gone")
  <2>1. g \in Loops /\ g.pc = "gone"
    BY LoopBegins
  <2> HIDE DEF g
  <2>2. /\ poll' = [p \in Pollers |-> IF p = q THEN r ELSE IF poll[p].pc = "off" THEN poll[p] ELSE g]
        /\ mutex' = NoWriter /\ writer' = [w \in Writers |-> NoOp]
    BY <1>5 DEF ServerRestart, r, g
  <2>3. poll' \in [Pollers -> Loops]
    BY <1>1, <1>2, <2>1, <2>2
  <2>4. LoopInv(q)'
    BY <1>2, <2>2 DEF LoopInv
  <2>5. \A p \in Pollers \ {q} : LoopInv(p)'
    BY <1>3, <2>1, <2>2 DEF AccessInv, LoopInv
  <2>6. MutexHeld'
    BY <1>2, <2>1, <2>2 DEF MutexHeld
  <2> QED
    BY <1>3, <2>2, <2>3, <2>4, <2>5, <2>6
       DEF AccessInv, AccessTypeOK, DecisionsStand, ConfirmedWasHandled
<1> QED
  BY <1>4, <1>5

LEMMA AccessInvNext == AccessInv /\ [AccessNext]_accessVars => AccessInv'
<1> SUFFICES ASSUME AccessInv, [AccessNext]_accessVars PROVE AccessInv'
  OBVIOUS
<1>1. CASE UNCHANGED accessVars
  BY <1>1 DEF accessVars, AccessInv, AccessTypeOK, MutexHeld, DecisionsStand,
              ConfirmedWasHandled, LoopInv
<1> QED
  BY <1>1, AccessInvWriters, AccessInvGetUpdates, AccessInvHandle, AccessInvHandled,
     AccessInvRestarts DEF AccessNext

\* The config file, the operations on it and the poll loops keep their types.
THEOREM AccessTypeCorrect == AccessSpec => []AccessTypeOK
<1>1. AccessInv => AccessTypeOK
  BY DEF AccessInv
<1> QED
  BY <1>1, AccessInvInit, AccessInvNext, PTL DEF AccessSpec

\* A decision of the API stands until the API decides again, whichever checks
\* of messages, changes of settings, restarts and failed saves come in between.
THEOREM DecisionsAlwaysStand == AccessSpec => []DecisionsStand
<1>1. AccessInv => DecisionsStand
  BY DEF AccessInv
<1> QED
  BY <1>1, AccessInvInit, AccessInvNext, PTL DEF AccessSpec

\* No update is confirmed to Telegram that no loop has handled, for any number
\* of updates, batches, restarts of the channels and restarts of the server.
THEOREM NoUpdateIsLost == AccessSpec => []ConfirmedWasHandled
<1>1. AccessInv => ConfirmedWasHandled
  BY DEF AccessInv
<1> QED
  BY <1>1, AccessInvInit, AccessInvNext, PTL DEF AccessSpec
(***************************************************************************)
(* The notification queue implements the mailbox.  That what is in the box *)
(* is taken at last needs fairness and stays with the model checker.       *)
(***************************************************************************)

\* The part of QueueTypeOK that the steps of the box depend on.
QueueInv ==
    /\ items \in Seq(1..MaxPushes) /\ Len(items) <= MaxNotifications
    /\ handed \in Seq(1..MaxPushes) /\ batch \in Seq(1..MaxPushes)
    /\ pump \in {"select", "drain", "turn"} /\ (pump = "turn" => batch # <<>>)
    /\ pushes \in 0..MaxPushes /\ ready \in BOOLEAN /\ signalling \subseteq Producers

\* Giving up the oldest item before the new one is appended, as Push does, or
\* after, as the box does, leaves the same items.
LEMMA PushKeepsNewest ==
    ASSUME NEW S, NEW s \in Seq(S), Len(s) <= MaxNotifications, NEW e \in S
    PROVE  LET kept == IF Len(s) >= MaxNotifications THEN Tail(s) ELSE s
           IN  /\ Append(kept, e) = Box!Newest(Append(s, e))
               /\ Append(kept, e) \in Seq(S) /\ Len(Append(kept, e)) <= MaxNotifications
<1> USE QueueAssumption
<1>1. CASE Len(s) < MaxNotifications
  BY <1>1 DEF Box!Newest
<1>2. CASE Len(s) = MaxNotifications
  <2>1. s # <<>> /\ Tail(s) \in Seq(S) /\ Len(Tail(s)) = Len(s) - 1
    BY <1>2
  <2>2. Len(Append(s, e)) = MaxNotifications + 1
    BY <1>2
  <2>3. Tail(Append(s, e)) = Append(Tail(s), e)
    BY <2>1
  <2> QED BY <1>2, <2>1, <2>2, <2>3 DEF Box!Newest
<1> QED BY <1>1, <1>2

LEMMA QueueInvInit == QueueInit => QueueInv
<1>1. <<>> \in Seq(1..MaxPushes) /\ Len(<<>>) = 0
  OBVIOUS
<1>2. QueueInit => /\ items = <<>> /\ handed = <<>> /\ batch = <<>> /\ pump = "select"
                   /\ pushes = 0 /\ signalling = {} /\ ready \in BOOLEAN
  BY DEF QueueInit
<1> QED BY <1>1, <1>2, QueueAssumption DEF QueueInv

LEMMA QueueInvStep == QueueInv /\ [QueueNext]_queueVars => QueueInv'
<1> SUFFICES ASSUME QueueInv, [QueueNext]_queueVars PROVE QueueInv'
  OBVIOUS
<1> USE QueueAssumption DEF QueueInv
<1>1. ASSUME NEW p \in Producers, PushItem(p) PROVE QueueInv'
  <2>1. pushes + 1 \in 1..MaxPushes
    BY <1>1 DEF PushItem
  <2>2. items' \in Seq(1..MaxPushes) /\ Len(items') <= MaxNotifications
    BY <1>1, <2>1, PushKeepsNewest DEF PushItem
  <2> QED BY <1>1, <2>1, <2>2 DEF PushItem
<1>2. ASSUME NEW p \in Producers, Signal(p) PROVE QueueInv'
  BY <1>2 DEF Signal
<1>3. CASE Select
  BY <1>3 DEF Select
<1>4. CASE Drain
  BY <1>4 DEF Drain
<1>5. CASE Process
  <2>1. Tail(batch) \in Seq(1..MaxPushes) /\ <<>> \in Seq(1..MaxPushes)
    BY <1>5 DEF Process
  <2>2. batch' \in Seq(1..MaxPushes)
    BY <1>5, <2>1 DEF Process
  <2>3. pump' \in {"select", "turn"} /\ (pump' = "turn" => batch' # <<>>)
    BY <1>5 DEF Process
  <2> QED BY <1>5, <2>2, <2>3 DEF Process
<1>6. CASE UNCHANGED queueVars
  BY <1>6 DEF queueVars
<1> QED BY <1>1, <1>2, <1>3, <1>4, <1>5, <1>6 DEF QueueNext, PumpStep

\* The type invariant of the queue: it never holds more than maxNotifications
\* items (notifications.go, Push).
THEOREM QueueTypeCorrect == QueueSpec => []QueueTypeOK
<1>1. QueueInv => QueueTypeOK
  BY DEF QueueInv, QueueTypeOK
<1> QED BY <1>1, QueueInvInit, QueueInvStep, PTL DEF QueueSpec

\* Every step of the queue is a step of the mailbox or leaves the box alone:
\* nothing is reordered, repeated or given up except the oldest of a full queue
\* (notifications.go, Push and Drain).
THEOREM QueueRefinesMailbox == QueueSpec => Box!BoxSafety
<1>1. QueueInit => Box!BoxInit
  BY DEF QueueInit, Box!BoxInit
<1>2. QueueInv /\ [QueueNext]_queueVars => [Box!BoxNext]_Box!boxVars
  <2> SUFFICES ASSUME QueueInv, [QueueNext]_queueVars PROVE [Box!BoxNext]_Box!boxVars
    OBVIOUS
  <2> USE DEF QueueInv
  <2>1. ASSUME NEW p \in Producers, PushItem(p) PROVE Box!Put
    <3>1. pushes + 1 \in 1..MaxPushes /\ pushes' = pushes + 1
      BY <2>1, QueueAssumption DEF PushItem
    <3>2. items' = Box!Newest(Append(items, pushes + 1))
      BY <2>1, <3>1, PushKeepsNewest DEF PushItem
    <3> QED BY <2>1, <3>1, <3>2 DEF PushItem, Box!Put
  <2>2. ASSUME NEW p \in Producers, Signal(p) PROVE UNCHANGED Box!boxVars
    BY <2>2 DEF Signal, Box!boxVars
  <2>3. CASE Select
    BY <2>3 DEF Select, Box!boxVars
  <2>4. CASE Drain
    <3>1. CASE items = <<>>
      BY <2>4, <3>1 DEF Drain, Box!boxVars
    <3>2. CASE items # <<>>
      BY <2>4, <3>2 DEF Drain, Box!BoxNext, Box!Take
    <3> QED BY <3>1, <3>2
  <2>5. CASE Process
    BY <2>5 DEF Process, Box!boxVars
  <2>6. CASE UNCHANGED queueVars
    BY <2>6 DEF queueVars, Box!boxVars
  <2> QED BY <2>1, <2>2, <2>3, <2>4, <2>5, <2>6 DEF QueueNext, PumpStep, Box!BoxNext
<1> QED BY <1>1, <1>2, QueueInvInit, QueueInvStep, PTL DEF QueueSpec, Box!BoxSafety

(***************************************************************************)
(* The router.  The ids of the notifications grow, and whatever waits in   *)
(* the queue is newer than what the pump holds, which is newer than what   *)
(* was delivered; there is one pump.                                       *)
(***************************************************************************)

IdsIn(s) == {s[i].id : i \in DOMAIN s}
Rising(s) == \A i, j \in DOMAIN s : i < j => s[i].id < s[j].id
Before(S, T) == \A a \in S, b \in T : a < b
Got(c) == {delivered[c][i] : i \in DOMAIN delivered[c]}
Waiting == IdsIn(queues[starts].items)

\* A session's number counts the clears.
ClearsCounted ==
    /\ clears + starts <= MaxDisruptions
    /\ \A k \in Keys : session[k] <= clears

\* Without an entry there is no pump, and there are never two.
OnePump ==
    /\ ~entry => \A p \in Pumps : pumps[p].pc = "off"
    /\ \A p, q \in Pumps : pumps[p].pc # "off" /\ pumps[q].pc # "off" => p = q

\* What was pushed to the instance's present queue; a queue it has not had yet
\* is empty.
QueueOrder ==
    /\ Rising(queues[starts].items) /\ Waiting \subseteq 1..notes
    /\ \A q \in 0..MaxDisruptions : q > starts => queues[q].items = <<>>

PumpOrder(p) ==
    LET r == pumps[p] IN
    /\ Rising(r.batch) /\ IdsIn(r.batch) \subseteq 1..notes
    /\ Before(IdsIn(r.batch), Waiting)
    /\ r.pc = "off" => r.batch = <<>>
    /\ r.pc = "turn" => r.batch # <<>>
    /\ r.pc = "deliver" => /\ r.note.id \in 1..notes
                           /\ Before({r.note.id}, IdsIn(r.batch))
                           /\ Before({r.note.id}, Waiting)
                           /\ \A c \in r.targets : Before(Got(c), {r.note.id})

ConvOrder(c) ==
    /\ Got(c) \subseteq 1..notes /\ Before(Got(c), Waiting)
    /\ \A p \in Pumps : Before(Got(c), IdsIn(pumps[p].batch))

RouterInv ==
    /\ RouterTypeOK /\ ClearsCounted /\ OnePump /\ QueueOrder
    /\ \A p \in Pumps : PumpOrder(p)
    /\ \A c \in Convs : ConvOrder(c)
    /\ DeliveredInOrder

\* What a sequence of notifications holds after an Append and a Tail.
LEMMA AppendedIds ==
    ASSUME NEW s \in Seq(Notes), NEW n \in Notes
    PROVE  /\ IdsIn(Append(s, n)) = IdsIn(s) \cup {n.id}
           /\ Rising(s) /\ Before(IdsIn(s), {n.id}) => Rising(Append(s, n))
<1>1. /\ DOMAIN s = 1..Len(s) /\ DOMAIN Append(s, n) = 1..(Len(s) + 1) /\ Len(s) \in Nat
      /\ \A i \in 1..Len(s) : Append(s, n)[i] = s[i]
      /\ Append(s, n)[Len(s) + 1] = n
  OBVIOUS
<1>2. IdsIn(Append(s, n)) = IdsIn(s) \cup {n.id}
  <2>1. ASSUME NEW x \in IdsIn(Append(s, n)) PROVE x \in IdsIn(s) \cup {n.id}
    <3>1. PICK i \in 1..(Len(s) + 1) : x = Append(s, n)[i].id
      BY <1>1, <2>1 DEF IdsIn
    <3>2. i \in 1..Len(s) \/ i = Len(s) + 1
      BY <1>1
    <3> QED BY <1>1, <3>1, <3>2 DEF IdsIn
  <2>2. ASSUME NEW x \in IdsIn(s) PROVE x \in IdsIn(Append(s, n))
    <3>1. PICK i \in 1..Len(s) : x = s[i].id
      BY <1>1, <2>2 DEF IdsIn
    <3>2. i \in 1..(Len(s) + 1)
      BY <1>1
    <3> QED BY <1>1, <3>1, <3>2 DEF IdsIn
  <2>3. n.id \in IdsIn(Append(s, n))
    <3>1. Len(s) + 1 \in 1..(Len(s) + 1)
      BY <1>1
    <3> QED BY <1>1, <3>1 DEF IdsIn
  <2> QED BY <2>1, <2>2, <2>3
<1>3. ASSUME Rising(s), Before(IdsIn(s), {n.id}) PROVE Rising(Append(s, n))
  <2> SUFFICES ASSUME NEW i \in 1..(Len(s) + 1), NEW j \in 1..(Len(s) + 1), i < j
               PROVE  Append(s, n)[i].id < Append(s, n)[j].id
    BY <1>1 DEF Rising
  <2>1. i \in 1..Len(s) /\ (j \in 1..Len(s) \/ j = Len(s) + 1)
    BY <1>1
  <2>2. s[i].id \in IdsIn(s)
    BY <1>1, <2>1 DEF IdsIn
  <2> QED BY <1>1, <1>3, <2>1, <2>2 DEF Rising, Before
<1> QED BY <1>2, <1>3

LEMMA TailIds ==
    ASSUME NEW s \in Seq(Notes), s # <<>>
    PROVE  /\ Head(s) \in Notes /\ Head(s).id \in IdsIn(s)
           /\ Tail(s) \in Seq(Notes) /\ IdsIn(Tail(s)) \subseteq IdsIn(s)
           /\ Rising(s) => Rising(Tail(s)) /\ Before({Head(s).id}, IdsIn(Tail(s)))
<1>1. /\ DOMAIN s = 1..Len(s) /\ Len(s) \in Nat \ {0} /\ Head(s) = s[1] /\ s[1] \in Notes
      /\ Tail(s) \in Seq(Notes) /\ DOMAIN Tail(s) = 1..(Len(s) - 1)
      /\ \A i \in 1..(Len(s) - 1) : Tail(s)[i] = s[i + 1]
  OBVIOUS
<1>2. \A i \in 1..(Len(s) - 1) : i + 1 \in 1..Len(s) /\ 1 < i + 1 /\ 1 \in 1..Len(s)
  BY <1>1
<1>3. Head(s).id \in IdsIn(s)
  <2>1. 1 \in 1..Len(s)
    BY <1>1
  <2> QED BY <1>1, <2>1 DEF IdsIn
<1>4. IdsIn(Tail(s)) \subseteq IdsIn(s)
  BY <1>1, <1>2 DEF IdsIn
<1>5. ASSUME Rising(s) PROVE Rising(Tail(s)) /\ Before({Head(s).id}, IdsIn(Tail(s)))
  <2>1. ASSUME NEW i \in 1..(Len(s) - 1), NEW j \in 1..(Len(s) - 1), i < j
        PROVE  Tail(s)[i].id < Tail(s)[j].id
    <3>1. i + 1 < j + 1
      BY <2>1
    <3> QED BY <1>1, <1>2, <1>5, <2>1, <3>1 DEF Rising
  <2>2. \A i \in 1..(Len(s) - 1) : Head(s).id < Tail(s)[i].id
    BY <1>1, <1>2, <1>5 DEF Rising
  <2> QED BY <1>1, <2>1, <2>2 DEF Rising, Before, IdsIn
<1> QED BY <1>1, <1>3, <1>4, <1>5

\* What a conversation got after one more delivery.
LEMMA GotOneMore ==
    ASSUME NEW s \in Seq(NoteIds), NEW e \in NoteIds, MaxNotes \in Nat
    PROVE  /\ Append(s, e) \in Seq(NoteIds)
           /\ {Append(s, e)[i] : i \in DOMAIN Append(s, e)} = {s[i] : i \in DOMAIN s} \cup {e}
           /\ /\ \A i, j \in DOMAIN s : i < j => s[i] < s[j]
              /\ \A i \in DOMAIN s : s[i] < e
              => \A i, j \in DOMAIN Append(s, e) : i < j => Append(s, e)[i] < Append(s, e)[j]
<1>1. /\ DOMAIN s = 1..Len(s) /\ DOMAIN Append(s, e) = 1..(Len(s) + 1) /\ Len(s) \in Nat
      /\ \A i \in 1..Len(s) : Append(s, e)[i] = s[i]
      /\ Append(s, e)[Len(s) + 1] = e /\ Append(s, e) \in Seq(NoteIds)
  OBVIOUS
<1>2. \A i \in 1..(Len(s) + 1) : i \in 1..Len(s) \/ i = Len(s) + 1
  BY <1>1
<1>3. \A i \in 1..Len(s) : i \in 1..(Len(s) + 1)
  BY <1>1
<1>4. Len(s) + 1 \in 1..(Len(s) + 1)
  BY <1>1
<1>5. {Append(s, e)[i] : i \in DOMAIN Append(s, e)} = {s[i] : i \in DOMAIN s} \cup {e}
  BY <1>1, <1>2, <1>3, <1>4
<1>6. ASSUME \A i, j \in DOMAIN s : i < j => s[i] < s[j], \A i \in DOMAIN s : s[i] < e,
             NEW i \in 1..(Len(s) + 1), NEW j \in 1..(Len(s) + 1), i < j
      PROVE  Append(s, e)[i] < Append(s, e)[j]
  <2>1. i \in 1..Len(s)
    BY <1>1, <1>6
  <2> QED BY <1>1, <1>2, <1>6, <2>1
<1> QED BY <1>1, <1>5, <1>6

LEMMA RouterInvInit == RouterInit => RouterInv
<1> SUFFICES ASSUME RouterInit PROVE RouterInv
  OBVIOUS
<1> USE RouterAssumption
<1>1. <<>> \in Seq(Notes) /\ <<>> \in Seq(NoteIds) /\ DOMAIN <<>> = {}
  OBVIOUS
<1>2. NoQueue \in NoteQueues /\ OffPump \in PumpRecs
  BY <1>1 DEF NoQueue, NoteQueues, OffPump, PumpRecs
<1>3. connSess \in [Convs -> SessionIds]
  BY DEF RouterInit, SessionIds, KeyOf, Keys, Convs
<1>4. RouterTypeOK
  <2>1. DOMAIN bound = {}
    BY <1>1 DEF RouterInit
  <2>2. /\ session \in [Keys -> 0..MaxDisruptions] /\ conv \in [Convs -> {"none", "bound", "on"}]
        /\ delivered \in [Convs -> Seq(NoteIds)]
    BY <1>1 DEF RouterInit
  <2>3. queues \in [0..MaxDisruptions -> NoteQueues] /\ pumps \in [Pumps -> PumpRecs]
    BY <1>2 DEF RouterInit
  <2>4. /\ starts = 0 /\ clears = 0 /\ notes = 0
        /\ running \in BOOLEAN /\ entry \in BOOLEAN /\ panicked \in BOOLEAN
    BY DEF RouterInit
  <2> QED BY <1>3, <2>1, <2>2, <2>3, <2>4 DEF RouterTypeOK
<1>5. ClearsCounted /\ OnePump
  BY DEF RouterInit, ClearsCounted, OnePump, OffPump
<1>6. starts = 0 /\ \A q \in 0..MaxDisruptions : queues[q].items = <<>>
  BY DEF RouterInit, NoQueue
<1>7. queues[starts].items = <<>> /\ Waiting = {}
  BY <1>1, <1>6 DEF Waiting, IdsIn
<1>8. \A p \in Pumps : pumps[p].pc = "off" /\ pumps[p].batch = <<>> /\ IdsIn(pumps[p].batch) = {}
  BY <1>1 DEF RouterInit, OffPump, IdsIn
<1>9. \A c \in Convs : delivered[c] = <<>> /\ Got(c) = {}
  BY <1>1 DEF RouterInit, Got
<1>10. QueueOrder
  BY <1>1, <1>6, <1>7 DEF QueueOrder, Rising
<1>11. \A p \in Pumps : PumpOrder(p)
  BY <1>1, <1>7, <1>8 DEF PumpOrder, Rising, Before
<1>12. \A c \in Convs : ConvOrder(c)
  BY <1>7, <1>8, <1>9 DEF ConvOrder, Before
<1>13. DeliveredInOrder
  BY <1>1, <1>9 DEF DeliveredInOrder
<1> QED BY <1>4, <1>5, <1>10, <1>11, <1>12, <1>13 DEF RouterInv

\* The steps that leave the notifications and the pumps where they are.
LEMMA OrderUntouched ==
    ASSUME RouterInv, RouterTypeOK', ClearsCounted',
           UNCHANGED <<entry, pumps, delivered, notes, starts>>,
           \A q \in 0..MaxDisruptions : queues'[q].items = queues[q].items
    PROVE  RouterInv'
<1> USE DEF RouterInv
<1>1. starts \in 0..MaxDisruptions
  BY DEF RouterTypeOK
<1>2. queues'[starts'].items = queues[starts].items /\ Waiting' = Waiting
  BY <1>1 DEF Waiting, IdsIn
<1>3. \A c \in Convs : Got(c)' = Got(c)
  BY DEF Got
<1>4. OnePump' /\ DeliveredInOrder'
  BY DEF OnePump, DeliveredInOrder
<1>5. QueueOrder'
  BY <1>1, <1>2 DEF QueueOrder, Rising
<1>6. ASSUME NEW p \in Pumps PROVE PumpOrder(p)'
  <2>1. PumpOrder(p) /\ pumps'[p] = pumps[p] /\ pumps[p].targets \subseteq Convs
    BY DEF RouterTypeOK, PumpRecs
  <2> QED BY <1>2, <1>3, <2>1 DEF PumpOrder, Rising, IdsIn, Before
<1>7. ASSUME NEW c \in Convs PROVE ConvOrder(c)'
  <2>1. ConvOrder(c)
    OBVIOUS
  <2>2. \A p \in Pumps : IdsIn(pumps[p].batch)' = IdsIn(pumps[p].batch)
    BY DEF IdsIn
  <2> QED BY <1>2, <1>3, <2>1, <2>2 DEF ConvOrder, Before
<1> QED BY <1>4, <1>5, <1>6, <1>7

\* Bindings keep their type.
LEMMA BindTyped ==
    ASSUME RouterTypeOK, NEW c \in Convs, NEW s \in SessionIds \cup {Unset}
    PROVE  /\ DOMAIN Bind(c, s) \subseteq Convs
           /\ \A d \in DOMAIN Bind(c, s) : Bind(c, s)[d] \in SessionIds \cup {Unset}
           /\ DOMAIN Unbind(c) \subseteq Convs
           /\ \A d \in DOMAIN Unbind(c) : Unbind(c)[d] \in SessionIds \cup {Unset}
BY DEF RouterTypeOK, Bind, Unbind, Restrict

LEMMA KeysTyped == \A c \in Convs : KeyOf(c) \in Keys
BY DEF Convs, Keys, KeyOf

\* StartNotificationPump starts a goroutine only where none is.
LEMMA EnsurePumpOrder ==
    ASSUME RouterInv, EnsurePump,
           UNCHANGED <<queues, starts, delivered, notes, clears, session>>
    PROVE  /\ pumps' \in [Pumps -> PumpRecs] /\ entry' \in BOOLEAN
           /\ OnePump' /\ QueueOrder' /\ DeliveredInOrder'
           /\ \A p \in Pumps : PumpOrder(p)'
           /\ \A c \in Convs : ConvOrder(c)'
<1> USE DEF RouterInv
<1>1. Waiting' = Waiting /\ \A c \in Convs : Got(c)' = Got(c)
  BY DEF Waiting, IdsIn, Got
<1>2. QueueOrder' /\ DeliveredInOrder'
  BY <1>1 DEF QueueOrder, Rising, DeliveredInOrder
<1>3. CASE entry
  <2>1. pumps' = pumps /\ entry' = entry
    BY <1>3 DEF EnsurePump
  <2>2. ASSUME NEW p \in Pumps PROVE PumpOrder(p)'
    <3>1. PumpOrder(p) /\ pumps'[p] = pumps[p] /\ pumps[p].targets \subseteq Convs
      BY <2>1 DEF RouterTypeOK, PumpRecs
    <3> QED BY <1>1, <3>1 DEF PumpOrder, Rising, IdsIn, Before
  <2>3. \A c \in Convs : ConvOrder(c)'
    <3>1. \A p \in Pumps : IdsIn(pumps[p].batch)' = IdsIn(pumps[p].batch)
      BY <2>1 DEF IdsIn
    <3> QED BY <1>1, <2>1, <3>1 DEF ConvOrder, Before
  <2> QED BY <1>2, <2>1, <2>2, <2>3 DEF OnePump, RouterTypeOK
<1>4. CASE ~entry
  <2>1. \A p \in Pumps : pumps[p].pc = "off" /\ pumps[p].batch = <<>>
    BY <1>4 DEF OnePump, PumpOrder
  <2>2. PICK p \in Pumps : pumps' = [pumps EXCEPT ![p].pc = "select", ![p].watch = starts]
    <3>1. \E p \in Pumps : pumps[p].pc = "off"
      BY <2>1, RouterAssumption
    <3> QED BY <1>4, <3>1 DEF EnsurePump
  <2>3. pumps \in [Pumps -> PumpRecs] /\ starts \in 0..MaxDisruptions
    BY DEF RouterTypeOK
  <2> DEFINE r == [[pumps[p] EXCEPT !.pc = "select"] EXCEPT !.watch = starts]
  <2>4. r \in PumpRecs /\ r.pc = "select" /\ r.batch = <<>>
    <3>1. pumps[p] \in PumpRecs /\ pumps[p].batch = <<>>
      BY <2>1, <2>3
    <3> QED BY <2>3, <3>1 DEF PumpRecs
  <2>5. pumps' = [pumps EXCEPT ![p] = r]
    BY <2>2, <2>3
  <2> HIDE DEF r
  <2>6. /\ \A q \in Pumps : pumps'[q].batch = <<>> /\ (q # p => pumps'[q].pc = "off")
        /\ pumps'[p].pc = "select" /\ pumps' \in [Pumps -> PumpRecs]
    BY <2>1, <2>3, <2>4, <2>5
  <2>7. entry' = TRUE
    BY <1>4 DEF EnsurePump
  <2>8. OnePump'
    BY <2>6, <2>7 DEF OnePump
  <2>9. \A q \in Pumps : IdsIn(pumps'[q].batch) = {} /\ Rising(pumps'[q].batch)
    BY <2>6 DEF IdsIn, Rising
  <2>10. ASSUME NEW q \in Pumps PROVE PumpOrder(q)'
    <3>1. pumps'[q].pc \in {"off", "select"} /\ pumps'[q].batch = <<>>
      BY <2>6
    <3> QED BY <3>1, <2>9 DEF PumpOrder, Before
  <2>11. \A c \in Convs : ConvOrder(c)'
    BY <1>1, <2>9 DEF ConvOrder, Before
  <2> QED BY <1>2, <2>6, <2>7, <2>8, <2>10, <2>11
<1> QED BY <1>3, <1>4

\* The steps of the conversations.
LEMMA RouterInvConvs ==
    ASSUME RouterInv, NEW c \in Convs,
           BindConv(c) \/ SetSession(c) \/ Disconnect(c) \/ ClearConv(c)
    PROVE  RouterInv'
<1> USE RouterAssumption
<1>1. RouterTypeOK /\ ClearsCounted
  BY DEF RouterInv
<1>2. CASE BindConv(c)
  <2>1. <<KeyOf(c), session[KeyOf(c)]>> \in SessionIds
    BY <1>1, KeysTyped DEF RouterTypeOK, SessionIds
  <2>2. Unset \in SessionIds \cup {Unset}
    OBVIOUS
  <2>3. RouterTypeOK'
    BY <1>1, <1>2, <2>1, <2>2, BindTyped DEF RouterTypeOK, BindConv
  <2>4. ClearsCounted'
    BY <1>1, <1>2 DEF ClearsCounted, BindConv
  <2> QED BY <1>2, <2>3, <2>4, OrderUntouched DEF BindConv
<1>3. CASE SetSession(c)
  <2>1. EnsurePump /\ UNCHANGED <<queues, starts, delivered, notes, clears, session>>
    BY <1>3 DEF SetSession
  <2>2. /\ pumps' \in [Pumps -> PumpRecs] /\ entry' \in BOOLEAN
        /\ OnePump' /\ QueueOrder' /\ DeliveredInOrder'
        /\ \A p \in Pumps : PumpOrder(p)'
        /\ \A d \in Convs : ConvOrder(d)'
    BY <2>1, EnsurePumpOrder
  <2>3. connSess[c] \in SessionIds \cup {Unset}
    BY <1>1 DEF RouterTypeOK
  <2>4. DOMAIN bound' \subseteq Convs /\ \A d \in DOMAIN bound' : bound'[d] \in SessionIds \cup {Unset}
    <3>1. CASE c \in DOMAIN bound
      BY <1>1, <1>3, <2>3, <3>1, BindTyped DEF SetSession
    <3>2. CASE c \notin DOMAIN bound
      BY <1>1, <1>3, <3>2 DEF SetSession, RouterTypeOK
    <3> QED BY <3>1, <3>2
  <2>5. conv' \in [Convs -> {"none", "bound", "on"}]
    BY <1>1, <1>3 DEF SetSession, RouterTypeOK
  <2>6. RouterTypeOK'
    BY <1>1, <1>3, <2>2, <2>4, <2>5 DEF RouterTypeOK, SetSession
  <2>7. ClearsCounted'
    BY <1>1, <2>1 DEF ClearsCounted
  <2> QED BY <2>2, <2>6, <2>7 DEF RouterInv
<1>4. CASE Disconnect(c)
  <2>1. Unset \in SessionIds \cup {Unset}
    OBVIOUS
  <2>2. RouterTypeOK'
    BY <1>1, <1>4, <2>1, BindTyped DEF RouterTypeOK, Disconnect
  <2>3. ClearsCounted'
    BY <1>1, <1>4 DEF ClearsCounted, Disconnect
  <2> QED BY <1>4, <2>2, <2>3, OrderUntouched DEF Disconnect
<1>5. CASE ClearConv(c)
  <2>1. KeyOf(c) \in Keys /\ session \in [Keys -> 0..MaxDisruptions] /\ clears \in Nat
        /\ starts \in 0..MaxDisruptions
    BY <1>1, KeysTyped DEF RouterTypeOK
  <2>2. session[KeyOf(c)] + 1 <= clears + 1 /\ session[KeyOf(c)] + 1 \in 0..MaxDisruptions
    BY <1>1, <1>5, <2>1 DEF ClearsCounted, ClearConv
  <2>3. <<KeyOf(c), session[KeyOf(c)] + 1>> \in SessionIds
    BY <2>1, <2>2 DEF SessionIds
  <2>4. session' \in [Keys -> 0..MaxDisruptions] /\ connSess' \in [Convs -> SessionIds]
    BY <1>1, <1>5, <2>1, <2>2, <2>3 DEF ClearConv, RouterTypeOK
  <2>5. DOMAIN bound' \subseteq Convs /\ \A d \in DOMAIN bound' : bound'[d] \in SessionIds \cup {Unset}
    <3>1. CASE c \in DOMAIN bound
      BY <1>1, <1>5, <2>3, <3>1, BindTyped DEF ClearConv
    <3>2. CASE c \notin DOMAIN bound
      BY <1>1, <1>5, <3>2 DEF ClearConv, RouterTypeOK
    <3> QED BY <3>1, <3>2
  <2>6. RouterTypeOK'
    <3>1. clears' \in Nat /\ notes' = notes /\ starts' = starts /\ conv' = conv
      BY <1>5, <2>1 DEF ClearConv
    <3>2. /\ queues' = queues /\ running' = running /\ entry' = entry /\ pumps' = pumps
          /\ delivered' = delivered /\ panicked' = panicked
      BY <1>5 DEF ClearConv
    <3> QED BY <1>1, <2>4, <2>5, <3>1, <3>2 DEF RouterTypeOK
  <2>7. ClearsCounted'
    BY <1>1, <1>5, <2>1, <2>2 DEF ClearsCounted, ClearConv
  <2> QED BY <1>5, <2>6, <2>7, OrderUntouched DEF ClearConv
<1> QED BY <1>2, <1>3, <1>4, <1>5

\* A push appends the newest id to the present queue.
LEMMA RouterInvPush == ASSUME RouterInv, PushNote PROVE RouterInv'
<1> USE RouterAssumption
<1>1. RouterTypeOK /\ ClearsCounted /\ OnePump /\ QueueOrder /\ DeliveredInOrder
      /\ (\A p \in Pumps : PumpOrder(p)) /\ \A c \in Convs : ConvOrder(c)
  BY DEF RouterInv
<1>2. PICK s \in {<<k, session[k]>> : k \in Keys} \cup {Unset} :
        /\ notes < MaxNotes /\ notes' = notes + 1
        /\ queues' = [queues EXCEPT ![starts] =
                        [items |-> Append(@.items, [id |-> notes + 1, sess |-> s]),
                         signal |-> TRUE]]
        /\ session' = session /\ conv' = conv /\ connSess' = connSess /\ bound' = bound
        /\ starts' = starts /\ running' = running /\ entry' = entry /\ pumps' = pumps
        /\ delivered' = delivered /\ panicked' = panicked /\ clears' = clears
  BY DEF PushNote
<1> DEFINE n == [id |-> notes + 1, sess |-> s]
           old == queues[starts].items
<1>3. /\ starts \in 0..MaxDisruptions /\ queues \in [0..MaxDisruptions -> NoteQueues]
      /\ notes \in 0..MaxNotes /\ old \in Seq(Notes)
  BY <1>1 DEF RouterTypeOK, NoteQueues
<1>4. n \in Notes /\ n.id = notes + 1
  <2>1. s \in SessionIds \cup {Unset}
    BY <1>1, <1>2 DEF SessionIds, RouterTypeOK
  <2> QED BY <1>2, <1>3, <2>1 DEF Notes, NoteIds
<1>5. /\ queues' \in [0..MaxDisruptions -> NoteQueues]
      /\ queues'[starts].items = Append(old, n)
      /\ \A q \in 0..MaxDisruptions : q # starts => queues'[q] = queues[q]
  <2>1. [items |-> Append(old, n), signal |-> TRUE] \in NoteQueues
    BY <1>3, <1>4 DEF NoteQueues
  <2> QED BY <1>2, <1>3, <2>1
<1> HIDE DEF n, old
<1>6. IdsIn(old) = Waiting /\ Waiting \subseteq 1..notes /\ Rising(old)
  BY <1>1 DEF old, Waiting, QueueOrder
<1>7. Waiting' = Waiting \cup {notes + 1} /\ Rising(Append(old, n))
  <2>1. IdsIn(Append(old, n)) = Waiting \cup {notes + 1}
    BY <1>3, <1>4, <1>6, AppendedIds
  <2>2. Before(IdsIn(old), {n.id})
    BY <1>3, <1>4, <1>6 DEF Before
  <2>3. Rising(Append(old, n))
    BY <1>3, <1>4, <1>6, <2>2, AppendedIds
  <2>4. queues'[starts'].items = Append(old, n)
    BY <1>2, <1>5
  <2>5. Waiting' = IdsIn(queues'[starts'].items)
    BY DEF Waiting, IdsIn
  <2> QED BY <2>1, <2>3, <2>4, <2>5
<1>8. RouterTypeOK' /\ ClearsCounted' /\ OnePump' /\ DeliveredInOrder'
  <2>1. notes' \in 0..MaxNotes
    BY <1>2, <1>3
  <2>2. RouterTypeOK'
    BY <1>1, <1>2, <1>5, <2>1 DEF RouterTypeOK
  <2> QED BY <1>1, <1>2, <2>2 DEF ClearsCounted, OnePump, DeliveredInOrder
<1>9. QueueOrder'
  <2>1. Waiting' \subseteq 1..notes'
    BY <1>2, <1>3, <1>6, <1>7
  <2>2. Rising(queues'[starts'].items)
    BY <1>2, <1>5, <1>7
  <2>3. \A q \in 0..MaxDisruptions : q > starts' => queues'[q].items = <<>>
    BY <1>1, <1>2, <1>3, <1>5 DEF QueueOrder
  <2> QED BY <2>1, <2>2, <2>3 DEF QueueOrder, Rising
<1>10. ASSUME NEW p \in Pumps PROVE PumpOrder(p)'
  <2>1. /\ PumpOrder(p) /\ pumps'[p] = pumps[p] /\ pumps[p].targets \subseteq Convs
        /\ \A c \in Convs : Got(c)' = Got(c)
    BY <1>1, <1>2 DEF RouterTypeOK, PumpRecs, Got
  <2>2. /\ \A x \in 1..notes : x < notes + 1
        /\ 1..notes \subseteq 1..notes'
    BY <1>2, <1>3
  <2> QED BY <1>7, <2>1, <2>2, ZenonT(30) DEF PumpOrder, Rising, IdsIn, Before
<1>11. ASSUME NEW c \in Convs PROVE ConvOrder(c)'
  <2>1. /\ ConvOrder(c) /\ Got(c)' = Got(c)
        /\ \A p \in Pumps : IdsIn(pumps[p].batch)' = IdsIn(pumps[p].batch)
    BY <1>1, <1>2 DEF Got, IdsIn
  <2>2. /\ \A x \in 1..notes : x < notes + 1
        /\ 1..notes \subseteq 1..notes'
    BY <1>2, <1>3
  <2> QED BY <1>7, <2>1, <2>2 DEF ConvOrder, Before
<1> QED BY <1>8, <1>9, <1>10, <1>11 DEF RouterInv

\* A new queue is empty, and what the pump holds is older than any later push.
LEMMA RouterInvRestart == ASSUME RouterInv, RestartInstance PROVE RouterInv'
<1> USE RouterAssumption
<1>1. RouterTypeOK /\ ClearsCounted /\ OnePump /\ QueueOrder /\ DeliveredInOrder
      /\ (\A p \in Pumps : PumpOrder(p)) /\ \A c \in Convs : ConvOrder(c)
  BY DEF RouterInv
<1>2. /\ session' = session /\ conv' = conv /\ connSess' = connSess /\ bound' = bound
      /\ queues' = queues /\ entry' = entry /\ pumps' = pumps /\ notes' = notes
      /\ delivered' = delivered /\ panicked' = panicked /\ clears' = clears
      /\ running' \in BOOLEAN
  BY DEF RestartInstance
<1>3. CASE starts' = starts
  <2>1. RouterTypeOK' /\ ClearsCounted'
    BY <1>1, <1>2, <1>3 DEF RouterTypeOK, ClearsCounted
  <2> QED BY <1>2, <1>3, <2>1, OrderUntouched
<1>4. CASE clears + starts < MaxDisruptions /\ starts' = starts + 1
  <2>1. starts \in 0..MaxDisruptions /\ starts' \in 0..MaxDisruptions /\ clears \in Nat
    BY <1>1, <1>4 DEF RouterTypeOK
  <2>2. RouterTypeOK' /\ ClearsCounted' /\ OnePump' /\ DeliveredInOrder'
    <3>1. RouterTypeOK'
      BY <1>1, <1>2, <2>1 DEF RouterTypeOK
    <3>2. ClearsCounted'
      BY <1>1, <1>2, <1>4, <2>1 DEF ClearsCounted
    <3> QED BY <1>1, <1>2, <3>1, <3>2 DEF OnePump, DeliveredInOrder
  <2>3. queues'[starts'].items = <<>> /\ Waiting' = {}
    <3>1. queues[starts'].items = <<>>
      BY <1>1, <1>4, <2>1 DEF QueueOrder
    <3>2. queues'[starts'].items = <<>>
      BY <1>2, <3>1
    <3> QED BY <3>2 DEF Waiting, IdsIn
  <2>4. QueueOrder'
    <3>1. \A q \in 0..MaxDisruptions : q > starts' => queues'[q].items = <<>>
      BY <1>1, <1>2, <1>4, <2>1 DEF QueueOrder
    <3> QED BY <2>3, <3>1 DEF QueueOrder, Rising
  <2>5. ASSUME NEW p \in Pumps PROVE PumpOrder(p)'
    <3>1. /\ PumpOrder(p) /\ pumps'[p] = pumps[p] /\ pumps[p].targets \subseteq Convs
          /\ \A c \in Convs : Got(c)' = Got(c)
      BY <1>1, <1>2 DEF RouterTypeOK, PumpRecs, Got
    <3> QED BY <1>2, <2>3, <3>1 DEF PumpOrder, Rising, IdsIn, Before
  <2>6. ASSUME NEW c \in Convs PROVE ConvOrder(c)'
    <3>1. /\ ConvOrder(c) /\ Got(c)' = Got(c)
          /\ \A p \in Pumps : IdsIn(pumps[p].batch)' = IdsIn(pumps[p].batch)
      BY <1>1, <1>2 DEF Got, IdsIn
    <3> QED BY <1>2, <2>3, <3>1 DEF ConvOrder, Before
  <2> QED BY <2>2, <2>4, <2>5, <2>6 DEF RouterInv
<1> QED BY <1>3, <1>4 DEF RestartInstance

\* A step of the pump p that makes it r and leaves the deliveries alone: the
\* pumps other than p are off, so that only r is to be looked at.
LEMMA PumpMoves ==
    ASSUME RouterInv, NEW p \in Pumps, pumps[p].pc # "off",
           NEW r \in PumpRecs, r.pc # "off", pumps' = [pumps EXCEPT ![p] = r],
           queues' \in [0..MaxDisruptions -> NoteQueues], QueueOrder',
           UNCHANGED <<session, conv, connSess, bound, starts, running, entry, delivered,
                       panicked, notes, clears>>,
           Waiting' \subseteq Waiting,
           Rising(r.batch), IdsIn(r.batch) \subseteq 1..notes, Before(IdsIn(r.batch), Waiting'),
           r.pc = "turn" => r.batch # <<>>,
           r.pc = "deliver" => /\ r.note.id \in 1..notes
                               /\ Before({r.note.id}, IdsIn(r.batch))
                               /\ Before({r.note.id}, Waiting')
                               /\ \A c \in r.targets : Before(Got(c), {r.note.id}),
           \A c \in Convs : Before(Got(c), IdsIn(r.batch))
    PROVE  RouterInv'
<1>1. RouterTypeOK /\ ClearsCounted /\ OnePump /\ DeliveredInOrder
      /\ (\A q \in Pumps : PumpOrder(q)) /\ \A c \in Convs : ConvOrder(c)
  BY DEF RouterInv
<1>2. /\ pumps \in [Pumps -> PumpRecs] /\ pumps' \in [Pumps -> PumpRecs] /\ pumps'[p] = r
      /\ \A q \in Pumps : q # p => pumps'[q] = pumps[q] /\ pumps[q].pc = "off"
  BY <1>1 DEF RouterTypeOK, OnePump
<1>3. RouterTypeOK' /\ ClearsCounted' /\ DeliveredInOrder'
  BY <1>1, <1>2 DEF RouterTypeOK, ClearsCounted, DeliveredInOrder
<1>4. entry' = entry /\ entry
  BY <1>1 DEF OnePump
<1>5. OnePump'
  BY <1>1, <1>2, <1>4 DEF OnePump
<1>6. notes' = notes /\ (\A c \in Convs : Got(c)' = Got(c)) /\ r.targets \subseteq Convs
  BY DEF Got, PumpRecs
<1>7. \A q \in Pumps : q # p => pumps'[q].batch = <<>> /\ IdsIn(pumps'[q].batch) = {}
  <2>1. ASSUME NEW q \in Pumps, q # p PROVE pumps'[q].batch = <<>>
    <3>1. PumpOrder(q) /\ pumps[q].pc = "off" /\ pumps'[q] = pumps[q]
      BY <1>1, <1>2, <2>1
    <3> QED BY <3>1 DEF PumpOrder
  <2> QED BY <2>1 DEF IdsIn
<1>8. ASSUME NEW q \in Pumps PROVE PumpOrder(q)'
  <2>1. CASE q = p
    <3>1. pumps'[q] = r
      BY <1>2, <2>1
    <3> QED BY <1>6, <3>1 DEF PumpOrder
  <2>2. CASE q # p
    <3>1. pumps'[q].batch = <<>> /\ pumps'[q].pc = "off" /\ IdsIn(pumps'[q].batch) = {}
      BY <1>2, <1>7, <2>2
    <3> QED BY <3>1 DEF PumpOrder, Rising, Before
  <2> QED BY <2>1, <2>2
<1>9. ASSUME NEW c \in Convs PROVE ConvOrder(c)'
  <2>1. ConvOrder(c) /\ Got(c)' = Got(c)
    BY <1>1, <1>6
  <2>2. ASSUME NEW q \in Pumps PROVE Before(Got(c)', IdsIn(pumps'[q].batch))
    BY <1>2, <1>7, <2>1 DEF Before
  <2> QED BY <1>6, <2>1, <2>2 DEF ConvOrder, Before
<1> QED BY <1>3, <1>5, <1>8, <1>9 DEF RouterInv

LEMMA RouterInvReceive == ASSUME RouterInv, NEW p \in Pumps, Receive(p) PROVE RouterInv'
<1> USE RouterAssumption
<1>1. RouterTypeOK /\ OnePump /\ QueueOrder /\ PumpOrder(p) /\ \A c \in Convs : ConvOrder(c)
  BY DEF RouterInv
<1>2. /\ pumps \in [Pumps -> PumpRecs] /\ pumps[p] \in PumpRecs /\ starts \in 0..MaxDisruptions
      /\ queues \in [0..MaxDisruptions -> NoteQueues]
  BY <1>1 DEF RouterTypeOK
<1> DEFINE w == pumps[p].watch
           r == [pumps[p] EXCEPT !.pc = "drain"]
           k == [queues[w] EXCEPT !.signal = FALSE]
<1>3. w \in 0..MaxDisruptions /\ k \in NoteQueues /\ k.items = queues[w].items
  <2>1. w \in 0..MaxDisruptions
    BY <1>2 DEF PumpRecs
  <2>2. queues[w] \in NoteQueues
    BY <1>2, <2>1
  <2> QED BY <2>1, <2>2 DEF NoteQueues
<1>4. r \in PumpRecs /\ r.pc = "drain" /\ r.batch = pumps[p].batch
  BY <1>2 DEF PumpRecs
<1>5. queues' = [queues EXCEPT ![w] = k] /\ pumps' = [pumps EXCEPT ![p] = r]
  BY <1>2, <1>3 DEF Receive
<1>6. pumps[p].pc = "select" /\ UNCHANGED <<session, conv, connSess, bound, starts, running,
                                entry, delivered, panicked, notes, clears>>
  BY DEF Receive
<1> HIDE DEF w, r, k
<1>7. queues' \in [0..MaxDisruptions -> NoteQueues]
      /\ \A q \in 0..MaxDisruptions : queues'[q].items = queues[q].items
  BY <1>2, <1>3, <1>5
<1>8. Waiting' = Waiting /\ queues'[starts'].items = queues[starts].items
  BY <1>2, <1>6, <1>7 DEF Waiting, IdsIn
<1>9. QueueOrder'
  BY <1>1, <1>2, <1>6, <1>7, <1>8 DEF QueueOrder, Rising
<1>10. /\ Rising(r.batch) /\ IdsIn(r.batch) \subseteq 1..notes /\ Before(IdsIn(r.batch), Waiting')
       /\ \A c \in Convs : Before(Got(c), IdsIn(r.batch))
  BY <1>1, <1>4, <1>8 DEF PumpOrder, ConvOrder
<1> QED BY <1>4, <1>5, <1>6, <1>7, <1>8, <1>9, <1>10, PumpMoves

LEMMA RouterInvDrain == ASSUME RouterInv, NEW p \in Pumps, DrainQueue(p) PROVE RouterInv'
<1> USE RouterAssumption
<1>1. RouterTypeOK /\ OnePump /\ QueueOrder /\ PumpOrder(p) /\ \A c \in Convs : ConvOrder(c)
  BY DEF RouterInv
<1>2. /\ pumps \in [Pumps -> PumpRecs] /\ pumps[p] \in PumpRecs /\ starts \in 0..MaxDisruptions
      /\ queues \in [0..MaxDisruptions -> NoteQueues] /\ queues[starts] \in NoteQueues
  BY <1>1 DEF RouterTypeOK
<1> DEFINE pc == IF queues[starts].items = <<>> THEN "select" ELSE "turn"
           r == [[pumps[p] EXCEPT !.pc = pc] EXCEPT !.batch = queues[starts].items]
           k == [queues[starts] EXCEPT !.items = <<>>]
<1>3. k \in NoteQueues /\ k.items = <<>> /\ queues[starts].items \in Seq(Notes)
  <2>1. <<>> \in Seq(Notes)
    OBVIOUS
  <2> QED BY <1>2, <2>1 DEF NoteQueues
<1>4. r \in PumpRecs /\ r.pc = pc /\ r.batch = queues[starts].items
  BY <1>2, <1>3 DEF PumpRecs
<1>5. queues' = [queues EXCEPT ![starts] = k] /\ pumps' = [pumps EXCEPT ![p] = r]
  BY <1>2, <1>3 DEF DrainQueue
<1>6. pumps[p].pc = "drain" /\ UNCHANGED <<session, conv, connSess, bound, starts, running,
                                entry, delivered, panicked, notes, clears>>
  BY DEF DrainQueue
<1>7. r.pc \in {"select", "turn"} /\ (r.pc = "turn" => r.batch # <<>>)
  BY <1>4
<1> HIDE DEF pc, r, k
<1>8. /\ queues' \in [0..MaxDisruptions -> NoteQueues] /\ queues'[starts'].items = <<>>
      /\ \A q \in 0..MaxDisruptions : q # starts => queues'[q].items = queues[q].items
  BY <1>2, <1>3, <1>5, <1>6
<1>9. Waiting' = {} /\ QueueOrder'
  <2>1. Waiting' = {}
    BY <1>8 DEF Waiting, IdsIn
  <2>2. \A q \in 0..MaxDisruptions : q > starts' => queues'[q].items = <<>>
    BY <1>1, <1>2, <1>6, <1>8 DEF QueueOrder
  <2> QED BY <1>8, <2>1, <2>2 DEF QueueOrder, Rising
<1>10. /\ Rising(r.batch) /\ IdsIn(r.batch) \subseteq 1..notes /\ Before(IdsIn(r.batch), Waiting')
       /\ \A c \in Convs : Before(Got(c), IdsIn(r.batch))
  BY <1>1, <1>4, <1>9 DEF QueueOrder, ConvOrder, Waiting, Before
<1> QED BY <1>4, <1>5, <1>6, <1>7, <1>8, <1>9, <1>10, PumpMoves

\* The head of the batch is newer than what was delivered and older than the rest.
LEMMA RouterInvTurn == ASSUME RouterInv, NEW p \in Pumps, BeginNoteTurn(p) PROVE RouterInv'
<1> USE RouterAssumption
<1>1. RouterTypeOK /\ OnePump /\ QueueOrder /\ PumpOrder(p) /\ \A c \in Convs : ConvOrder(c)
  BY DEF RouterInv
<1>2. /\ pumps \in [Pumps -> PumpRecs] /\ pumps[p] \in PumpRecs
      /\ pumps[p].batch \in Seq(Notes) /\ pumps[p].batch # <<>>
      /\ queues \in [0..MaxDisruptions -> NoteQueues]
  BY <1>1 DEF RouterTypeOK, PumpRecs, PumpOrder, BeginNoteTurn
<1> DEFINE n == Head(pumps[p].batch)
           rest == Tail(pumps[p].batch)
           left == IF running THEN rest ELSE <<>>
           skip == [[pumps[p] EXCEPT !.pc = IF rest = <<>> THEN "select" ELSE "turn"]
                        EXCEPT !.batch = rest]
           turn == [[[[pumps[p] EXCEPT !.pc = "deliver"] EXCEPT !.note = n]
                        EXCEPT !.targets = TargetsOf(n)] EXCEPT !.batch = left]
<1>3. /\ n \in Notes /\ n.id \in IdsIn(pumps[p].batch)
      /\ rest \in Seq(Notes) /\ IdsIn(rest) \subseteq IdsIn(pumps[p].batch)
      /\ Rising(rest) /\ Before({n.id}, IdsIn(rest))
  BY <1>1, <1>2, TailIds DEF PumpOrder
<1>4. /\ left \in Seq(Notes) /\ IdsIn(left) \subseteq IdsIn(rest) /\ Rising(left)
  <2>1. <<>> \in Seq(Notes) /\ IdsIn(<<>>) = {} /\ Rising(<<>>)
    BY DEF IdsIn, Rising
  <2> QED BY <1>3, <2>1
<1>5. TargetsOf(n) \subseteq Convs
  BY <1>1 DEF RouterTypeOK, TargetsOf
<1>6. pumps[p].pc = "turn" /\ UNCHANGED <<session, conv, connSess, bound, queues, starts,
                      running, entry, delivered, panicked, notes, clears>>
  BY DEF BeginNoteTurn
<1>7. /\ skip \in PumpRecs /\ skip.batch = rest /\ skip.pc \in {"select", "turn"}
      /\ skip.pc = "turn" => rest # <<>>
  BY <1>2, <1>3 DEF PumpRecs
<1>8. /\ turn \in PumpRecs /\ turn.pc = "deliver" /\ turn.note = n /\ turn.targets = TargetsOf(n)
      /\ turn.batch = left
  BY <1>2, <1>3, <1>4, <1>5 DEF PumpRecs
<1>9. pumps' = [pumps EXCEPT ![p] = skip] \/ pumps' = [pumps EXCEPT ![p] = turn]
  BY <1>2 DEF BeginNoteTurn
<1> HIDE DEF n, rest, left, skip, turn
<1>10. Waiting' = Waiting /\ QueueOrder'
  BY <1>1, <1>6 DEF Waiting, IdsIn, QueueOrder, Rising
<1>11. /\ IdsIn(rest) \subseteq 1..notes /\ Before(IdsIn(rest), Waiting')
       /\ \A c \in Convs : Before(Got(c), IdsIn(rest))
  BY <1>1, <1>3, <1>10 DEF PumpOrder, ConvOrder, Before
<1>12. CASE pumps' = [pumps EXCEPT ![p] = skip]
  <2>1. skip.pc # "off" /\ skip.pc # "deliver"
    BY <1>7
  <2> QED BY <1>2, <1>3, <1>6, <1>7, <1>10, <1>11, <1>12, <2>1, PumpMoves
<1>13. CASE pumps' = [pumps EXCEPT ![p] = turn]
  <2>1. /\ IdsIn(turn.batch) \subseteq 1..notes /\ Before(IdsIn(turn.batch), Waiting')
        /\ \A c \in Convs : Before(Got(c), IdsIn(turn.batch))
    BY <1>4, <1>8, <1>11 DEF Before
  <2>2. n.id \in 1..notes /\ Before({n.id}, IdsIn(turn.batch)) /\ Before({n.id}, Waiting')
    BY <1>1, <1>3, <1>4, <1>8, <1>10 DEF PumpOrder, Before
  <2>3. \A c \in turn.targets : Before(Got(c), {n.id})
    BY <1>1, <1>3, <1>5, <1>8 DEF ConvOrder, Before
  <2>4. Rising(turn.batch) /\ turn.pc # "off" /\ turn.pc # "turn"
    BY <1>4, <1>8
  <2>5. turn.note.id = n.id
    BY <1>8
  <2> QED BY <1>2, <1>6, <1>8, <1>10, <1>13, <2>1, <2>2, <2>3, <2>4, <2>5, PumpMoves
<1> QED BY <1>9, <1>12, <1>13

LEMMA RouterInvFanOut == ASSUME RouterInv, NEW p \in Pumps, FanOutEnds(p) PROVE RouterInv'
<1> USE RouterAssumption
<1>1. RouterTypeOK /\ OnePump /\ QueueOrder /\ PumpOrder(p) /\ \A c \in Convs : ConvOrder(c)
  BY DEF RouterInv
<1>2. /\ pumps \in [Pumps -> PumpRecs] /\ pumps[p] \in PumpRecs
      /\ queues \in [0..MaxDisruptions -> NoteQueues]
  BY <1>1 DEF RouterTypeOK
<1> DEFINE r == [[pumps[p] EXCEPT !.pc = IF pumps[p].batch = <<>> THEN "select" ELSE "turn"]
                     EXCEPT !.note = NoNote]
<1>3. /\ r \in PumpRecs /\ r.pc \in {"select", "turn"} /\ r.batch = pumps[p].batch
      /\ r.pc = "turn" => r.batch # <<>>
  BY <1>2 DEF PumpRecs
<1>4. pumps' = [pumps EXCEPT ![p] = r]
  BY <1>2 DEF FanOutEnds
<1>5. pumps[p].pc = "deliver" /\ UNCHANGED <<session, conv, connSess, bound, queues, starts,
                      running, entry, delivered, panicked, notes, clears>>
  BY DEF FanOutEnds
<1> HIDE DEF r
<1>6. Waiting' = Waiting /\ QueueOrder'
  BY <1>1, <1>5 DEF Waiting, IdsIn, QueueOrder, Rising
<1>7. /\ Rising(r.batch) /\ IdsIn(r.batch) \subseteq 1..notes /\ Before(IdsIn(r.batch), Waiting')
      /\ \A c \in Convs : Before(Got(c), IdsIn(r.batch))
  BY <1>1, <1>3, <1>6 DEF PumpOrder, ConvOrder
<1>8. r.pc # "off" /\ r.pc # "deliver"
  BY <1>3
<1> QED BY <1>2, <1>3, <1>4, <1>5, <1>6, <1>7, <1>8, PumpMoves

\* A delivery adds the pump's notification to what the conversation got; it is
\* newer than all of that, and the conversation is no target any more.
LEMMA RouterInvDeliver ==
    ASSUME RouterInv, NEW p \in Pumps, NEW c \in Convs, DeliverTo(p, c) PROVE RouterInv'
<1> USE RouterAssumption
<1>1. RouterTypeOK /\ ClearsCounted /\ OnePump /\ QueueOrder /\ DeliveredInOrder
      /\ (\A q \in Pumps : PumpOrder(q)) /\ \A d \in Convs : ConvOrder(d)
  BY DEF RouterInv
<1>2. /\ pumps \in [Pumps -> PumpRecs] /\ pumps[p] \in PumpRecs
      /\ delivered \in [Convs -> Seq(NoteIds)] /\ notes \in 0..MaxNotes
  BY <1>1 DEF RouterTypeOK
<1> DEFINE r == [pumps[p] EXCEPT !.targets = pumps[p].targets \ {c}]
           e == pumps[p].note.id
<1>3. /\ r \in PumpRecs /\ r.pc = pumps[p].pc /\ r.batch = pumps[p].batch
      /\ r.note = pumps[p].note /\ r.targets = pumps[p].targets \ {c}
  BY <1>2 DEF PumpRecs
<1>4. pumps' = [pumps EXCEPT ![p] = r]
  BY <1>2 DEF DeliverTo
<1>5. /\ pumps[p].pc = "deliver" /\ c \in pumps[p].targets
      /\ session' = session /\ conv' = conv /\ connSess' = connSess /\ queues' = queues
      /\ starts' = starts /\ running' = running /\ entry' = entry /\ notes' = notes
      /\ clears' = clears
  BY DEF DeliverTo
<1>6. /\ e \in 1..notes /\ e \in NoteIds /\ Before({e}, Waiting) /\ Before({e}, IdsIn(pumps[p].batch))
      /\ \A d \in pumps[p].targets : Before(Got(d), {e})
  <2>1. PumpOrder(p)
    BY <1>1
  <2>2. /\ e \in 1..notes /\ Before({e}, Waiting) /\ Before({e}, IdsIn(pumps[p].batch))
        /\ \A d \in pumps[p].targets : Before(Got(d), {e})
    BY <1>5, <2>1 DEF PumpOrder
  <2>3. 1..notes \subseteq NoteIds
    BY <1>2 DEF NoteIds
  <2> QED BY <2>2, <2>3
<1> HIDE DEF r, e
<1>7. /\ DOMAIN bound' \subseteq Convs
      /\ \A d \in DOMAIN bound' : bound'[d] \in SessionIds \cup {Unset}
      /\ panicked' \in BOOLEAN
  <2>1. CASE bound' = bound
    BY <1>1, <2>1 DEF DeliverTo, RouterTypeOK
  <2>2. CASE bound' = Unbind(c) /\ panicked' = panicked
    <3>1. Unset \in SessionIds \cup {Unset}
      OBVIOUS
    <3> QED BY <1>1, <2>2, <3>1, BindTyped DEF RouterTypeOK
  <2> QED BY <2>1, <2>2 DEF DeliverTo
<1>8. delivered' = delivered \/ delivered' = [delivered EXCEPT ![c] = Append(delivered[c], e)]
  BY <1>2 DEF DeliverTo, e
<1>9. /\ delivered' \in [Convs -> Seq(NoteIds)] /\ DeliveredInOrder'
      /\ \A d \in Convs : Got(d)' \subseteq Got(d) \cup {e}
      /\ \A d \in Convs : d # c => Got(d)' = Got(d)
  <2>1. CASE delivered' = delivered
    BY <1>1, <1>2, <2>1 DEF DeliveredInOrder, Got
  <2>2. CASE delivered' = [delivered EXCEPT ![c] = Append(delivered[c], e)]
    <3>1. delivered[c] \in Seq(NoteIds) /\ delivered'[c] = Append(delivered[c], e)
          /\ \A d \in Convs : d # c => delivered'[d] = delivered[d]
      BY <1>2, <2>2
    <3>2. \A i \in DOMAIN delivered[c] : delivered[c][i] < e
      BY <1>5, <1>6 DEF Got, Before
    <3>3. \A i, j \in DOMAIN delivered[c] : i < j => delivered[c][i] < delivered[c][j]
      BY <1>1 DEF DeliveredInOrder
    <3>4. /\ delivered'[c] \in Seq(NoteIds)
          /\ {delivered'[c][i] : i \in DOMAIN delivered'[c]}
               = {delivered[c][i] : i \in DOMAIN delivered[c]} \cup {e}
          /\ \A i, j \in DOMAIN delivered'[c] : i < j => delivered'[c][i] < delivered'[c][j]
      <4> DEFINE s == delivered[c]
      <4>1. s \in Seq(NoteIds) /\ e \in NoteIds /\ MaxNotes \in Nat
            /\ (\A i, j \in DOMAIN s : i < j => s[i] < s[j]) /\ \A i \in DOMAIN s : s[i] < e
        BY <1>6, <3>1, <3>2, <3>3
      <4> HIDE DEF s
      <4>2. /\ Append(s, e) \in Seq(NoteIds)
            /\ {Append(s, e)[i] : i \in DOMAIN Append(s, e)} = {s[i] : i \in DOMAIN s} \cup {e}
            /\ \A i, j \in DOMAIN Append(s, e) : i < j => Append(s, e)[i] < Append(s, e)[j]
        BY <4>1, GotOneMore
      <4> QED BY <3>1, <4>2 DEF s
    <3>5. \A d \in Convs : d # c => Got(d)' = Got(d)
      BY <3>1 DEF Got
    <3>6. Got(c)' = Got(c) \cup {e}
      BY <3>4 DEF Got
    <3>7. delivered' \in [Convs -> Seq(NoteIds)]
      BY <1>2, <2>2, <3>1, <3>4
    <3>8. DeliveredInOrder'
      <4>1. ASSUME NEW d \in Convs PROVE \A i, j \in DOMAIN delivered'[d] :
                                            i < j => delivered'[d][i] < delivered'[d][j]
        BY <1>1, <3>1, <3>4 DEF DeliveredInOrder
      <4> QED BY <4>1 DEF DeliveredInOrder
    <3> QED BY <3>5, <3>6, <3>7, <3>8
  <2> QED BY <1>8, <2>1, <2>2
<1>10. /\ pumps' \in [Pumps -> PumpRecs] /\ pumps'[p] = r
       /\ \A q \in Pumps : q # p => pumps'[q] = pumps[q] /\ pumps[q].pc = "off"
  BY <1>1, <1>2, <1>3, <1>4, <1>5 DEF OnePump
<1>11. RouterTypeOK' /\ ClearsCounted' /\ OnePump'
  <2>1. RouterTypeOK'
    BY <1>1, <1>5, <1>7, <1>9, <1>10 DEF RouterTypeOK
  <2>2. ClearsCounted'
    BY <1>1, <1>5 DEF ClearsCounted
  <2>3. entry
    BY <1>1, <1>5 DEF OnePump
  <2> QED BY <1>5, <1>10, <2>1, <2>2, <2>3 DEF OnePump
<1>12. Waiting' = Waiting /\ QueueOrder'
  BY <1>1, <1>5 DEF Waiting, IdsIn, QueueOrder, Rising
<1>13. \A q \in Pumps : q # p => pumps'[q].batch = <<>> /\ IdsIn(pumps'[q].batch) = {}
  <2>1. ASSUME NEW q \in Pumps, q # p PROVE pumps'[q].batch = <<>>
    <3>1. PumpOrder(q) /\ pumps[q].pc = "off" /\ pumps'[q] = pumps[q]
      BY <1>1, <1>10, <2>1
    <3> QED BY <3>1 DEF PumpOrder
  <2> QED BY <2>1 DEF IdsIn
<1>14. ASSUME NEW q \in Pumps PROVE PumpOrder(q)'
  <2>1. CASE q = p
    <3>1. PumpOrder(p) /\ pumps'[q] = r
      BY <1>1, <1>10, <2>1
    <3>2. ASSUME NEW d \in r.targets PROVE Before(Got(d)', {e})
      <4>1. d # c /\ d \in Convs /\ d \in pumps[p].targets
        BY <1>2, <1>3 DEF PumpRecs
      <4> QED BY <1>6, <1>9, <4>1
    <3>3. r.note.id = e
      BY <1>3 DEF e
    <3> QED BY <1>3, <1>5, <1>6, <1>12, <3>1, <3>2, <3>3 DEF PumpOrder
  <2>2. CASE q # p
    <3>1. pumps'[q].batch = <<>> /\ pumps'[q].pc = "off" /\ IdsIn(pumps'[q].batch) = {}
      BY <1>10, <1>13, <2>2
    <3> QED BY <3>1 DEF PumpOrder, Rising, Before
  <2> QED BY <2>1, <2>2
<1>15. ASSUME NEW d \in Convs PROVE ConvOrder(d)'
  <2>1. ConvOrder(d) /\ Got(d)' \subseteq Got(d) \cup {e}
    BY <1>1, <1>9
  <2>2. ASSUME NEW q \in Pumps PROVE Before(Got(d)', IdsIn(pumps'[q].batch))
    <3>1. CASE q = p
      BY <1>3, <1>6, <1>10, <2>1, <3>1 DEF ConvOrder, Before
    <3>2. CASE q # p
      BY <1>13, <3>2 DEF Before
    <3> QED BY <3>1, <3>2
  <2>3. Got(d)' \subseteq 1..notes' /\ Before(Got(d)', Waiting')
    BY <1>5, <1>6, <1>12, <2>1 DEF ConvOrder, Before
  <2> QED BY <2>2, <2>3 DEF ConvOrder
<1> QED BY <1>9, <1>11, <1>12, <1>14, <1>15 DEF RouterInv

LEMMA RouterInvProcess == ASSUME RouterInv, ProcessRestarts PROVE RouterInv'
<1> USE RouterAssumption
<1>1. RouterTypeOK /\ ClearsCounted /\ DeliveredInOrder /\ \A c \in Convs : ConvOrder(c)
  BY DEF RouterInv
<1>2. <<>> \in Seq(Notes) /\ DOMAIN <<>> = {} /\ IdsIn(<<>>) = {} /\ Rising(<<>>)
  BY DEF IdsIn, Rising
<1>3. NoQueue \in NoteQueues /\ NoQueue.items = <<>> /\ OffPump \in PumpRecs
      /\ OffPump.pc = "off" /\ OffPump.batch = <<>>
  BY <1>2 DEF NoQueue, NoteQueues, OffPump, PumpRecs
<1>4. /\ panicked' = FALSE /\ conv' = [c \in Convs |-> "none"] /\ bound' = <<>>
      /\ queues' = [q \in 0..MaxDisruptions |-> NoQueue] /\ entry' = FALSE
      /\ pumps' = [p \in Pumps |-> OffPump] /\ running' = TRUE
      /\ session' = session /\ connSess' = connSess /\ starts' = starts
      /\ delivered' = delivered /\ notes' = notes /\ clears' = clears
  BY DEF ProcessRestarts
<1>5. /\ queues' \in [0..MaxDisruptions -> NoteQueues] /\ pumps' \in [Pumps -> PumpRecs]
      /\ \A q \in 0..MaxDisruptions : queues'[q].items = <<>>
      /\ \A p \in Pumps : pumps'[p].pc = "off" /\ pumps'[p].batch = <<>>
  BY <1>3, <1>4
<1>6. RouterTypeOK' /\ ClearsCounted' /\ OnePump' /\ DeliveredInOrder'
  <2>1. DOMAIN bound' = {}
    BY <1>2, <1>4
  <2>2. conv' \in [Convs -> {"none", "bound", "on"}]
    BY <1>4
  <2>3. running' \in BOOLEAN /\ entry' \in BOOLEAN /\ panicked' \in BOOLEAN
    BY <1>4
  <2>4. RouterTypeOK'
    BY <1>1, <1>4, <1>5, <2>1, <2>2, <2>3 DEF RouterTypeOK
  <2> QED BY <1>1, <1>4, <1>5, <2>4 DEF ClearsCounted, OnePump, DeliveredInOrder
<1>7. queues'[starts'].items = <<>> /\ Waiting' = {}
  <2>1. starts' \in 0..MaxDisruptions
    BY <1>1, <1>4 DEF RouterTypeOK
  <2> QED BY <1>2, <1>5, <2>1 DEF Waiting, IdsIn
<1>8. QueueOrder'
  BY <1>2, <1>5, <1>7 DEF QueueOrder, Rising
<1>9. \A p \in Pumps : IdsIn(pumps'[p].batch) = {} /\ Rising(pumps'[p].batch)
  BY <1>2, <1>5
<1>10. ASSUME NEW p \in Pumps PROVE PumpOrder(p)'
  <2>1. pumps'[p].pc = "off" /\ pumps'[p].batch = <<>>
    BY <1>5
  <2> QED BY <1>9, <2>1 DEF PumpOrder, Before
<1>11. ASSUME NEW c \in Convs PROVE ConvOrder(c)'
  <2>1. ConvOrder(c) /\ Got(c)' = Got(c)
    BY <1>1, <1>4 DEF Got
  <2> QED BY <1>4, <1>7, <1>9, <2>1 DEF ConvOrder, Before
<1> QED BY <1>6, <1>8, <1>10, <1>11 DEF RouterInv

LEMMA RouterInvNext == RouterInv /\ [RouterNext]_routerVars => RouterInv'
<1> SUFFICES ASSUME RouterInv, [RouterNext]_routerVars PROVE RouterInv'
  OBVIOUS
<1>1. CASE RouterStep
  BY <1>1, RouterInvConvs, RouterInvPush, RouterInvRestart, RouterInvReceive, RouterInvDrain,
     RouterInvTurn, RouterInvFanOut, RouterInvDeliver DEF RouterStep
<1>2. CASE ProcessRestarts
  BY <1>2, RouterInvProcess
<1>3. CASE UNCHANGED routerVars
  <2>1. RouterTypeOK' /\ ClearsCounted'
    BY <1>3 DEF RouterInv, RouterTypeOK, ClearsCounted, routerVars
  <2> QED BY <1>3, <2>1, OrderUntouched DEF routerVars
<1> QED BY <1>1, <1>2, <1>3 DEF RouterNext

\* The router's state keeps its types.
THEOREM RouterTypeCorrect == RouterSpec => []RouterTypeOK
<1>1. RouterInv => RouterTypeOK
  BY DEF RouterInv
<1> QED BY <1>1, RouterInvInit, RouterInvNext, PTL DEF RouterSpec

\* A conversation gets the notifications in the order they were pushed and none
\* twice (router.go, StartNotificationPump, drainAndDeliver, fanOut).
THEOREM NotesArriveInOrder == RouterSpec => []DeliveredInOrder
<1>1. RouterInv => DeliveredInOrder
  BY DEF RouterInv
<1> QED BY <1>1, RouterInvInit, RouterInvNext, PTL DEF RouterSpec

=============================================================================
