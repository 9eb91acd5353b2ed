---------------------------- MODULE SessionProofs ----------------------------
(***************************************************************************)
(* Proofs about SessionSlots, for any channels, workers, structs, callers, *)
(* calls, faults and deaths.  Everything rests on who holds which lock:    *)
(* the place of a thread says which locks it holds, so a thread that has a *)
(* struct's lock finds its maps as it left them, and waits only for locks  *)
(* that come later in the order.                                           *)
(*                                                                         *)
(* The last part is about Conversation: what a session's context stands    *)
(* for, for any compaction configuration.                                  *)
(***************************************************************************)
EXTENDS SessionSlots, Conversation, FiniteSetTheorems, TLAPS

-----------------------------------------------------------------------------
(***************************************************************************)
(* The inductive invariant.                                                *)
(***************************************************************************)
\* The places between taking and giving back inst.mu, and m.mu.
Holds(r) ==
    \/ r.pc \in {"alive", "detachOld", "create", "detach", "compare"}
    \/ r.pc = "spawn" /\ r.kind = "send"
HoldsM(r) == r.pc \in {"ilock", "detach"}

MLock == \A t \in Threads : mMu = t <=> HoldsM(th[t])
ILock == \A o \in Objs, t \in Threads : instMu[o] = t <=> Holds(th[t]) /\ th[t].obj = o
SLock == \A w \in Workers, t \in Threads :
            slotMu[w] = t <=> th[t].pc = "chat" /\ th[t].slot = w

\* What thread t, as r, may rely on.
KindOK(t, r) ==
    /\ t \in Callers => r.kind # "watch" /\ (r.pc = "idle" \/ r.ch \in Channels)
    /\ t \in Workers => r.pc = "idle" \/ r.kind = "watch"
    /\ r.pc \in {"ensure", "alive"} => r.kind = "send"
    /\ r.pc = "unregister" => r.kind = "start"
    /\ r.pc \in ObjPcs \cup {"spawn"} \/ (r.pc = "mlock" /\ r.kind = "watch") => r.obj \in Objs
    /\ r.pc \in SlotPcs => r.slot \in Workers

SlotRefs(r) ==
    /\ r.obj # Nil => status[r.obj] # "none"
    /\ r.pc \in SlotPcs => slot[r.slot] # Nil
    /\ \A w \in r.todo : slot[w] # Nil

\* ... because it holds inst.mu.
MapRefs(r) ==
    /\ r.pc \in {"alive", "detachOld", "compare"} =>
         slot[r.slot].mapped /\ slot[r.slot].obj = r.obj
    /\ r.pc \in {"alive", "detachOld"} => slot[r.slot].ch = r.ch
    /\ r.pc = "create" \/ (r.pc = "spawn" /\ r.kind = "send") => index[r.obj][r.ch] = 0

ThreadOK(t, r) == KindOK(t, r) /\ SlotRefs(r) /\ MapRefs(r)

\* A handle that was not spawned has no slot and no watcher; a slot belongs to
\* a struct that was made and to a row of its channel.
WorkerOK(w) ==
    /\ proc[w] = "none" => slot[w] = Nil /\ th[w] = Idle
    /\ th[w].kind = "watch" => slot[w] # Nil
SlotOK(w) ==
    slot[w] # Nil => /\ status[slot[w].obj] # "none"
                     /\ slot[w].sid \in DOMAIN rows
                     /\ rows[slot[w].sid].ch = slot[w].ch

\* A struct that StartInstance made is registered, and its worker watched, once.
Registering ==
    /\ \A c \in Threads : th[c].pc = "register" => th[th[c].slot] = Idle /\ proc[th[c].slot] # "none"
    /\ \A c, d \in Threads :
         th[c].pc = "register" /\ th[d].pc = "register" /\ th[c].slot = th[d].slot => c = d

IsMapped(w) == slot[w] # Nil /\ slot[w].mapped
IndexOK ==
    /\ \A w \in Workers : IsMapped(w) => index[slot[w].obj][slot[w].ch] = slot[w].sid
    /\ \A o \in Objs, ch \in Channels : index[o][ch] # 0 =>
         \E w \in Workers : IsMapped(w) /\ slot[w].obj = o /\ slot[w].ch = ch
    /\ \A v, w \in Workers :
         IsMapped(v) /\ IsMapped(w) /\ slot[v].obj = slot[w].obj /\ slot[v].ch = slot[w].ch => v = w

SlotsInv ==
    /\ TypeOK
    /\ MLock /\ ILock /\ SLock
    /\ \A t \in Threads : ThreadOK(t, th[t])
    /\ \A w \in Workers : WorkerOK(w) /\ SlotOK(w)
    /\ registry # Nil => status[registry] # "none"
    /\ Registering
    /\ IndexOK

-----------------------------------------------------------------------------
(***************************************************************************)
(* The records of the threads.                                             *)
(***************************************************************************)
\* q is r but for its place, the struct, slot and snapshot it has in hand, and
\* what it took note of.
Moved(q, r, p, o, w, T) ==
    /\ q \in ThreadRecs /\ q.kind = r.kind /\ q.ch = r.ch
    /\ q.pc = p /\ q.obj = o /\ q.slot = w /\ q.todo = T

LEMMA IdleFields ==
    /\ Idle \in ThreadRecs /\ Idle.kind = "idle" /\ Idle.pc = "idle" /\ Idle.obj = Nil
    /\ Idle.todo = {} /\ Idle.ch = Nil /\ Idle.slot = Nil
BY DEF Idle, ThreadRecs, Pcs

LEMMA PcField ==
    ASSUME NEW r \in ThreadRecs, NEW p \in Pcs
    PROVE  Moved([r EXCEPT !.pc = p], r, p, r.obj, r.slot, r.todo)
BY DEF ThreadRecs, Moved

LEMMA ObjField ==
    ASSUME NEW r \in ThreadRecs, NEW o \in Objs \cup {Nil}
    PROVE  Moved([r EXCEPT !.obj = o], r, r.pc, o, r.slot, r.todo)
BY DEF ThreadRecs, Moved

LEMMA SlotField ==
    ASSUME NEW r \in ThreadRecs, NEW w \in Workers \cup {Nil}
    PROVE  Moved([r EXCEPT !.slot = w], r, r.pc, r.obj, w, r.todo)
BY DEF ThreadRecs, Moved

LEMMA TodoField ==
    ASSUME NEW r \in ThreadRecs, NEW S \in SUBSET Workers
    PROVE  Moved([r EXCEPT !.todo = S], r, r.pc, r.obj, r.slot, S)
BY DEF ThreadRecs, Moved

LEMMA SidField ==
    ASSUME NEW r \in ThreadRecs, NEW n \in Nat
    PROVE  Moved([r EXCEPT !.sid = n], r, r.pc, r.obj, r.slot, r.todo)
BY DEF ThreadRecs, Moved

LEMMA HandlesField ==
    ASSUME NEW r \in ThreadRecs, NEW S \in SUBSET Workers
    PROVE  Moved([r EXCEPT !.handles = S], r, r.pc, r.obj, r.slot, r.todo)
BY DEF ThreadRecs, Moved

Begun(q, k, p) == q \in ThreadRecs /\ q.kind = k /\ q.pc = p /\ q.obj = Nil /\ q.todo = {}

LEMMA BeginFields ==
    ASSUME NEW k \in Calls \cup {"idle", "watch"}, NEW p \in Pcs, NEW x \in Channels \cup {Nil}
    PROVE  /\ Begun([Idle EXCEPT !.kind = k, !.pc = p], k, p)
           /\ Begun([Idle EXCEPT !.kind = k, !.pc = p, !.ch = x], k, p)
           /\ [Idle EXCEPT !.kind = k, !.pc = p, !.ch = x].ch = x
<1> DEFINE a == [Idle EXCEPT !.kind = k]
           b == [a EXCEPT !.pc = p]
           c == [b EXCEPT !.ch = x]
<1>1. [Idle EXCEPT !.kind = k, !.pc = p] = b /\ [Idle EXCEPT !.kind = k, !.pc = p, !.ch = x] = c
  OBVIOUS
<1>2. a \in ThreadRecs /\ a.kind = k /\ a.obj = Nil /\ a.todo = {}
  BY IdleFields DEF ThreadRecs
<1> HIDE DEF a
<1>3. Begun(b, k, p)
  BY <1>2 DEF ThreadRecs, Begun
<1> HIDE DEF b
<1>4. Begun(c, k, p) /\ c.ch = x
  BY <1>3 DEF ThreadRecs, Begun
<1> HIDE DEF c
<1> QED BY <1>1, <1>3, <1>4

LEMMA WatchingFields == Begun(Watching, "watch", "wait")
<1>1. "watch" \in Calls \cup {"idle", "watch"} /\ "wait" \in Pcs /\ Nil \in Channels \cup {Nil}
  BY DEF Pcs
<1> QED BY <1>1, BeginFields DEF Watching

\* Two fields at once.
LEMMA ObjPcFields ==
    ASSUME NEW r \in ThreadRecs, NEW p \in Pcs, NEW o \in Objs \cup {Nil}
    PROVE  /\ Moved([r EXCEPT !.obj = o, !.pc = p], r, p, o, r.slot, r.todo)
           /\ Moved([r EXCEPT !.pc = p, !.obj = o], r, p, o, r.slot, r.todo)
<1> DEFINE a == [r EXCEPT !.obj = o]
           b == [a EXCEPT !.pc = p]
<1>1. [r EXCEPT !.obj = o, !.pc = p] = b /\ [r EXCEPT !.pc = p, !.obj = o] = b
  BY DEF ThreadRecs
<1>2. Moved(a, r, r.pc, o, r.slot, r.todo)
  BY ObjField
<1> HIDE DEF a
<1>3. Moved(b, a, p, a.obj, a.slot, a.todo)
  BY <1>2, PcField DEF Moved
<1> HIDE DEF b
<1> QED BY <1>1, <1>2, <1>3 DEF Moved

LEMMA PcSlotFields ==
    ASSUME NEW r \in ThreadRecs, NEW p \in Pcs, NEW w \in Workers
    PROVE  Moved([r EXCEPT !.pc = p, !.slot = w], r, p, r.obj, w, r.todo)
<1> DEFINE a == [r EXCEPT !.pc = p]
           b == [a EXCEPT !.slot = w]
<1>1. [r EXCEPT !.pc = p, !.slot = w] = b /\ w \in Workers \cup {Nil}
  OBVIOUS
<1>2. Moved(a, r, p, r.obj, r.slot, r.todo)
  BY PcField
<1> HIDE DEF a
<1>3. Moved(b, a, a.pc, a.obj, w, a.todo)
  BY <1>1, <1>2, SlotField DEF Moved
<1> HIDE DEF b
<1> QED BY <1>1, <1>2, <1>3 DEF Moved

LEMMA PcSidFields ==
    ASSUME NEW r \in ThreadRecs, NEW p \in Pcs, NEW n \in Nat
    PROVE  Moved([r EXCEPT !.pc = p, !.sid = n], r, p, r.obj, r.slot, r.todo)
<1> DEFINE a == [r EXCEPT !.pc = p]
           b == [a EXCEPT !.sid = n]
<1>1. [r EXCEPT !.pc = p, !.sid = n] = b
  OBVIOUS
<1>2. Moved(a, r, p, r.obj, r.slot, r.todo)
  BY PcField
<1> HIDE DEF a
<1>3. Moved(b, a, a.pc, a.obj, a.slot, a.todo)
  BY <1>2, SidField DEF Moved
<1> HIDE DEF b
<1> QED BY <1>1, <1>2, <1>3 DEF Moved

LEMMA PcHandlesFields ==
    ASSUME NEW r \in ThreadRecs, NEW p \in Pcs, NEW S \in SUBSET Workers
    PROVE  Moved([r EXCEPT !.pc = p, !.handles = S], r, p, r.obj, r.slot, r.todo)
<1> DEFINE a == [r EXCEPT !.pc = p]
           b == [a EXCEPT !.handles = S]
<1>1. [r EXCEPT !.pc = p, !.handles = S] = b
  OBVIOUS
<1>2. Moved(a, r, p, r.obj, r.slot, r.todo)
  BY PcField
<1> HIDE DEF a
<1>3. Moved(b, a, a.pc, a.obj, a.slot, a.todo)
  BY <1>2, HandlesField DEF Moved
<1> HIDE DEF b
<1> QED BY <1>1, <1>2, <1>3 DEF Moved

LEMMA TodoFields ==
    ASSUME NEW r \in ThreadRecs, NEW p \in Pcs, NEW S \in SUBSET Workers, NEW T \in SUBSET Workers
    PROVE  /\ Moved([r EXCEPT !.pc = p, !.todo = S], r, p, r.obj, r.slot, S)
           /\ Moved([r EXCEPT !.todo = S, !.handles = T], r, r.pc, r.obj, r.slot, S)
<1> DEFINE a == [r EXCEPT !.pc = p]
           b == [a EXCEPT !.todo = S]
           c == [r EXCEPT !.todo = S]
           d == [c EXCEPT !.handles = T]
<1>1. [r EXCEPT !.pc = p, !.todo = S] = b /\ [r EXCEPT !.todo = S, !.handles = T] = d
  OBVIOUS
<1>2. Moved(a, r, p, r.obj, r.slot, r.todo) /\ Moved(c, r, r.pc, r.obj, r.slot, S)
  BY PcField, TodoField
<1> HIDE DEF a, c
<1>3. Moved(b, a, a.pc, a.obj, a.slot, S)
  BY <1>2, TodoField DEF Moved
<1>4. Moved(d, c, c.pc, c.obj, c.slot, c.todo)
  BY <1>2, HandlesField DEF Moved
<1> HIDE DEF b, d
<1> QED BY <1>1, <1>2, <1>3, <1>4 DEF Moved

-----------------------------------------------------------------------------
(***************************************************************************)
(* What a step of thread t, which is r after it, does to the locks and to  *)
(* what the other threads rely on.                                         *)
(***************************************************************************)
\* The others stay, but for the watcher of a new worker.
Woken(k) == k \in Workers /\ th[k] = Idle /\ th'[k] = Watching
OthersStay(t) == \A k \in Threads \ {t} : th'[k] = th[k] \/ Woken(k)

MMove(t, r) ==
    \/ mMu' = mMu /\ (HoldsM(r) <=> HoldsM(th[t]))
    \/ mMu = Nil /\ mMu' = t /\ HoldsM(r)
    \/ HoldsM(th[t]) /\ ~HoldsM(r) /\ mMu' = Nil
IMove(t, r) ==
    \/ instMu' = instMu /\ (Holds(r) <=> Holds(th[t])) /\ (Holds(r) => r.obj = th[t].obj)
    \/ /\ r.obj \in Objs /\ instMu[r.obj] = Nil /\ instMu' = [instMu EXCEPT ![r.obj] = t]
       /\ Holds(r) /\ ~Holds(th[t])
    \/ Holds(th[t]) /\ ~Holds(r) /\ instMu' = [instMu EXCEPT ![th[t].obj] = Nil]
SMove(t, r) ==
    \/ slotMu' = slotMu /\ (r = th[t] \/ (r.pc # "chat" /\ th[t].pc # "chat"))
    \/ /\ r.slot \in Workers /\ slotMu[r.slot] = Nil /\ slotMu' = [slotMu EXCEPT ![r.slot] = t]
       /\ r.pc = "chat" /\ th[t].pc # "chat" /\ t \in Callers
    \/ th[t].pc = "chat" /\ r.pc # "chat" /\ slotMu' = [slotMu EXCEPT ![th[t].slot] = Nil]

LEMMA SlotsFacts ==
    ASSUME SlotsInv, NEW t \in Threads
    PROVE  /\ TypeOK /\ th \in [Threads -> ThreadRecs] /\ th[t] \in ThreadRecs
           /\ KindOK(t, th[t]) /\ SlotRefs(th[t]) /\ MapRefs(th[t]) /\ t # Nil
           /\ instMu \in [Objs -> Threads \cup {Nil}] /\ slotMu \in [Workers -> Callers \cup {Nil}]
           /\ slot \in [Workers -> Slots \cup {Nil}] /\ registry \in Objs \cup {Nil}
           /\ (registry # Nil => status[registry] # "none")
           /\ th[t].obj \in Objs \cup {Nil} /\ th[t].ch \in Channels \cup {Nil}
BY SlotsAssumption DEF SlotsInv, TypeOK, ThreadOK, ThreadRecs

LEMMA WokenHoldsNothing ==
    /\ ~Holds(Idle) /\ ~Holds(Watching) /\ ~HoldsM(Idle) /\ ~HoldsM(Watching)
    /\ Idle.pc # "chat" /\ Watching.pc # "chat"
BY IdleFields, WatchingFields DEF Holds, HoldsM, Begun

\* The others hold after the step what they held before.
LEMMA OthersHold ==
    ASSUME NEW t \in Threads, OthersStay(t), NEW k \in Threads \ {t}
    PROVE  /\ HoldsM(th'[k]) <=> HoldsM(th[k])
           /\ \A o : Holds(th'[k]) /\ th'[k].obj = o <=> Holds(th[k]) /\ th[k].obj = o
           /\ \A w : th'[k].pc = "chat" /\ th'[k].slot = w <=> th[k].pc = "chat" /\ th[k].slot = w
<1>1. th'[k] = th[k] \/ Woken(k)
  BY DEF OthersStay
<1>2. CASE th'[k] = th[k]
  BY <1>2
<1>3. CASE Woken(k)
  BY <1>3, WokenHoldsNothing DEF Woken
<1> QED BY <1>1, <1>2, <1>3

LEMMA MLockKept ==
    ASSUME SlotsInv, NEW t \in Threads, NEW r, th'[t] = r, OthersStay(t), MMove(t, r)
    PROVE  MLock' /\ mMu' \in Threads \cup {Nil}
<1>1. MLock /\ mMu \in Threads \cup {Nil} /\ Nil \notin Threads
  BY SlotsAssumption DEF SlotsInv, TypeOK
<1>2. ASSUME NEW k \in Threads PROVE mMu' = k <=> HoldsM(th'[k])
  <2>1. CASE k = t
    BY <1>1, <2>1 DEF MMove, MLock
  <2>2. CASE k # t
    <3>1. HoldsM(th'[k]) <=> HoldsM(th[k])
      BY <2>2, OthersHold
    <3> QED BY <1>1, <2>2, <3>1 DEF MMove, MLock
  <2> QED BY <2>1, <2>2
<1>3. MLock'
  BY <1>2 DEF MLock
<1> QED BY <1>1, <1>3 DEF MMove

LEMMA ILockKept ==
    ASSUME SlotsInv, NEW t \in Threads, NEW r, th'[t] = r, OthersStay(t), IMove(t, r)
    PROVE  ILock' /\ instMu' \in [Objs -> Threads \cup {Nil}]
<1>1. ILock /\ instMu \in [Objs -> Threads \cup {Nil}] /\ Nil \notin Threads
  BY SlotsAssumption DEF SlotsInv, TypeOK
<1>2. Holds(th[t]) => th[t].obj \in Objs
  BY SlotsFacts DEF KindOK, Holds, ObjPcs
<1>3. instMu' \in [Objs -> Threads \cup {Nil}]
  BY <1>1 DEF IMove
<1>4. ASSUME NEW k \in Threads, NEW o \in Objs PROVE instMu'[o] = k <=> Holds(th'[k]) /\ th'[k].obj = o
  <2>1. CASE k = t
    BY <1>1, <1>2, <2>1 DEF IMove, ILock
  <2>2. CASE k # t
    <3>1. Holds(th'[k]) /\ th'[k].obj = o <=> Holds(th[k]) /\ th[k].obj = o
      BY <2>2, OthersHold
    <3>2. instMu[o] = k <=> instMu'[o] = k
      BY <1>1, <1>2, <2>2 DEF IMove, ILock
    <3> QED BY <1>1, <3>1, <3>2 DEF ILock
  <2> QED BY <2>1, <2>2
<1>5. ILock'
  BY <1>4 DEF ILock
<1> QED BY <1>3, <1>5

LEMMA SLockKept ==
    ASSUME SlotsInv, NEW t \in Threads, NEW r, th'[t] = r, OthersStay(t), SMove(t, r)
    PROVE  SLock' /\ slotMu' \in [Workers -> Callers \cup {Nil}]
<1>1. SLock /\ slotMu \in [Workers -> Callers \cup {Nil}] /\ Nil \notin Threads
  BY SlotsAssumption DEF SlotsInv, TypeOK
<1>2. th[t].pc = "chat" => th[t].slot \in Workers
  BY SlotsFacts DEF KindOK, SlotPcs
<1>3. slotMu' \in [Workers -> Callers \cup {Nil}]
  BY <1>1 DEF SMove
<1>4. ASSUME NEW k \in Threads, NEW w \in Workers
      PROVE  slotMu'[w] = k <=> th'[k].pc = "chat" /\ th'[k].slot = w
  <2>1. CASE k = t
    BY <1>1, <1>2, <2>1 DEF SMove, SLock
  <2>2. CASE k # t
    <3>1. th'[k].pc = "chat" /\ th'[k].slot = w <=> th[k].pc = "chat" /\ th[k].slot = w
      BY <2>2, OthersHold
    <3>2. slotMu[w] = k <=> slotMu'[w] = k
      BY <1>1, <1>2, <2>2 DEF SMove, SLock
    <3> QED BY <1>1, <3>1, <3>2 DEF SLock
  <2> QED BY <2>1, <2>2
<1>5. SLock'
  BY <1>4 DEF SLock
<1> QED BY <1>3, <1>5

-----------------------------------------------------------------------------
(***************************************************************************)
(* What a step may do to the structs and to their maps.                    *)
(***************************************************************************)
StatusKept == \A o \in Objs : status[o] # "none" => status'[o] # "none"
SlotsKept ==
    \A w \in Workers : slot[w] # Nil =>
       /\ slot'[w] # Nil /\ slot'[w].obj = slot[w].obj
       /\ slot'[w].ch = slot[w].ch /\ slot'[w].sid = slot[w].sid

\* The maps are left alone, or those of one struct change whose lock t has, or
\* which nobody knows yet.
MapsStay ==
    index' = index /\ \A w \in Workers : slot[w] # Nil => slot'[w].mapped = slot[w].mapped
Elsewhere(o) ==
    /\ \A p \in Objs \ {o} : index'[p] = index[p]
    /\ \A w \in Workers : slot[w] # Nil /\ slot[w].obj # o => slot'[w].mapped = slot[w].mapped
Own(t, o) == (Holds(th[t]) /\ th[t].obj = o) \/ status[o] = "none"
MapsMove(t) == MapsStay \/ \E o \in Objs : Own(t, o) /\ Elsewhere(o)

\* The other threads may go on to rely on what they relied on.
LEMMA OthersOK ==
    ASSUME SlotsInv, NEW t \in Threads, OthersStay(t), StatusKept, SlotsKept, MapsMove(t),
           NEW k \in Threads \ {t}
    PROVE  ThreadOK(k, th[k])'
<1>1. KindOK(k, th[k]) /\ SlotRefs(th[k]) /\ MapRefs(th[k]) /\ th[k] \in ThreadRecs
  BY SlotsFacts
<1>2. th'[k] = th[k] \/ Woken(k)
  BY DEF OthersStay
<1>3. CASE th'[k] = th[k]
  <2>1. th[k].obj \in Objs \cup {Nil} /\ th[k].todo \in SUBSET Workers /\ th[k].slot \in Workers \cup {Nil}
    BY <1>1 DEF ThreadRecs
  <2>2. KindOK(k, th[k])'
    BY <1>1, <1>3 DEF KindOK
  <2>3. SlotRefs(th[k])'
    <3>1. th[k].obj # Nil => status'[th[k].obj] # "none"
      BY <1>1, <2>1 DEF SlotRefs, StatusKept
    <3>2. th[k].pc \in SlotPcs => slot'[th[k].slot] # Nil
      BY <1>1 DEF SlotRefs, SlotsKept, KindOK
    <3>3. \A w \in th[k].todo : slot'[w] # Nil
      BY <1>1, <2>1 DEF SlotRefs, SlotsKept
    <3> QED BY <1>3, <3>1, <3>2, <3>3 DEF SlotRefs
  <2>4. MapRefs(th[k])'
    <3>1. ASSUME Holds(th[k])
          PROVE  /\ index'[th[k].obj] = index[th[k].obj]
                 /\ \A w \in Workers : slot[w] # Nil /\ slot[w].obj = th[k].obj
                                         => slot'[w].mapped = slot[w].mapped
      <4>1. th[k].obj \in Objs /\ status[th[k].obj] # "none"
        BY <1>1, <3>1, SlotsAssumption DEF KindOK, SlotRefs, Holds, ObjPcs
      <4>2. ~Own(t, th[k].obj)
        BY <3>1, <4>1 DEF Own, SlotsInv, ILock
      <4> QED BY <4>1, <4>2 DEF MapsMove, MapsStay, Elsewhere
    <3>2. th[k].pc \in {"alive", "detachOld", "compare"} =>
            slot'[th[k].slot].mapped /\ slot'[th[k].slot].obj = th[k].obj
      BY <1>1, <3>1 DEF MapRefs, SlotRefs, KindOK, SlotsKept, Holds, SlotPcs
    <3>3. th[k].pc \in {"alive", "detachOld"} => slot'[th[k].slot].ch = th[k].ch
      BY <1>1 DEF MapRefs, SlotRefs, KindOK, SlotsKept, SlotPcs
    <3>4. th[k].pc = "create" \/ (th[k].pc = "spawn" /\ th[k].kind = "send")
            => index'[th[k].obj][th[k].ch] = 0
      BY <1>1, <3>1 DEF MapRefs, Holds
    <3> QED BY <1>3, <3>2, <3>3, <3>4 DEF MapRefs
  <2> QED BY <2>2, <2>3, <2>4 DEF ThreadOK
<1>4. CASE Woken(k)
  <2>1. th'[k] = Watching /\ k \in Workers /\ k \notin Callers
    BY <1>4, SlotsAssumption DEF Woken
  <2>2. PICK q : q = Watching
    OBVIOUS
  <2>3. q.kind = "watch" /\ q.pc = "wait" /\ q.obj = Nil /\ q.todo = {}
    BY <2>2, WatchingFields DEF Begun
  <2>4. ThreadOK(k, q)'
    BY <2>1, <2>3 DEF ThreadOK, KindOK, SlotRefs, MapRefs, ObjPcs, SlotPcs
  <2> QED BY <2>1, <2>2, <2>4
<1> QED BY <1>2, <1>3, <1>4

\* The types of everything but the locks and the threads.
Basics ==
    /\ registry \in Objs \cup {Nil} /\ (registry # Nil => status[registry] # "none")
    /\ status \in [Objs -> {"none", "running", "stopped"}]
    /\ index \in [Objs -> [Channels -> Nat]]
    /\ slot \in [Workers -> Slots \cup {Nil}]
    /\ proc \in [Workers -> {"none", "up", "dead"}]
    /\ closing \in SUBSET Workers
    /\ rows \in Seq(Rows) /\ instRow \in BOOLEAN
    /\ used \in [calls: Nat, deaths: Nat]

LEMMA SlotsStep ==
    ASSUME SlotsInv, NEW t \in Threads, NEW r, th' \in [Threads -> ThreadRecs], th'[t] = r,
           OthersStay(t), MMove(t, r), IMove(t, r), SMove(t, r),
           StatusKept, SlotsKept, MapsMove(t), ThreadOK(t, r)', Basics',
           \A w \in Workers : WorkerOK(w)' /\ SlotOK(w)', Registering', IndexOK'
    PROVE  SlotsInv'
<1>1. MLock' /\ mMu' \in Threads \cup {Nil}
  BY MLockKept
<1>2. ILock' /\ instMu' \in [Objs -> Threads \cup {Nil}]
  BY ILockKept
<1>3. SLock' /\ slotMu' \in [Workers -> Callers \cup {Nil}]
  BY SLockKept
<1>4. \A k \in Threads : ThreadOK(k, th[k])'
  <2> TAKE k \in Threads
  <2>1. CASE k = t
    BY <2>1
  <2>2. CASE k # t
    BY <2>2, OthersOK
  <2> QED BY <2>1, <2>2
<1>5. PointersOK'
  BY <1>4 DEF PointersOK, ThreadOK, KindOK, SlotRefs
<1>6. TypeOK'
  BY <1>1, <1>2, <1>3, <1>5 DEF TypeOK, Basics
<1> QED BY <1>1, <1>2, <1>3, <1>4, <1>6 DEF SlotsInv, Basics

\* Which slots there are, and where they are mapped, does not change.
SameSlots ==
    /\ index' = index
    /\ \A w \in Workers :
         /\ slot'[w] = Nil <=> slot[w] = Nil
         /\ slot[w] # Nil => /\ slot'[w].obj = slot[w].obj /\ slot'[w].ch = slot[w].ch
                             /\ slot'[w].sid = slot[w].sid /\ slot'[w].mapped = slot[w].mapped
RowsKept == \A n \in DOMAIN rows : n \in DOMAIN rows' /\ rows'[n].ch = rows[n].ch
ProcsKept == \A w \in Workers : proc'[w] = "none" => proc[w] = "none"

LEMMA SlotOKKept ==
    ASSUME SlotsInv, StatusKept, RowsKept, NEW w \in Workers, slot[w] # Nil,
           slot'[w].obj = slot[w].obj, slot'[w].ch = slot[w].ch, slot'[w].sid = slot[w].sid
    PROVE  SlotOK(w)'
<1>1. slot[w] \in Slots /\ SlotOK(w)
  BY DEF SlotsInv, TypeOK
<1>2. slot[w].obj \in Objs
  BY <1>1 DEF Slots
<1> QED BY <1>1, <1>2 DEF SlotOK, StatusKept, RowsKept

\* A step of one thread that makes no worker leaves the watchers their slots.
LEMMA WorkersKept ==
    ASSUME SlotsInv, NEW t \in Threads, NEW r \in ThreadRecs, th' = [th EXCEPT ![t] = r], ProcsKept,
           \A w \in Workers : slot'[w] = Nil <=> slot[w] = Nil,
           r.pc # "register" \/ r = th[t],
           t \in Callers \/ th[t].kind = "watch" \/ r = th[t]
    PROVE  (\A w \in Workers : WorkerOK(w)') /\ Registering'
<1>1. th \in [Threads -> ThreadRecs]
  BY SlotsFacts
<1>2. th'[t] = r /\ \A k \in Threads \ {t} : th'[k] = th[k]
  BY <1>1
<1>3. \A w \in Workers : WorkerOK(w)'
  <2> TAKE w \in Workers
  <2>1. WorkerOK(w) /\ w \in Threads /\ (w \in Callers => FALSE)
    BY SlotsAssumption DEF SlotsInv, Threads
  <2>2. CASE w # t \/ r = th[t]
    BY <1>2, <2>1, <2>2 DEF WorkerOK, ProcsKept
  <2>3. CASE w = t /\ th[t].kind = "watch"
    BY <1>2, <2>1, <2>3 DEF WorkerOK, ProcsKept
  <2> QED BY <2>1, <2>2, <2>3
<1>4. Registering'
  <2>1. Registering /\ (\A c \in Threads : th[c].pc = "register" => th[c].slot \in Workers)
    BY SlotsFacts DEF SlotsInv, KindOK, SlotPcs
  <2>2. \A c \in Threads : th'[c].pc = "register" => th'[c] = th[c]
    BY <1>2
  <2>3. ASSUME NEW c \in Threads, th'[c].pc = "register"
        PROVE  th'[th'[c].slot] = Idle /\ proc'[th'[c].slot] # "none"
    <3>1. th[c].pc = "register" /\ th'[c].slot = th[c].slot /\ th[c].slot \in Workers
      BY <2>1, <2>2, <2>3
    <3>2. th[th[c].slot] = Idle /\ proc[th[c].slot] # "none"
      BY <2>1, <3>1 DEF Registering
    <3>3. th'[th[c].slot] = Idle
      BY <1>2, <3>1, <3>2, IdleFields, SlotsAssumption DEF Threads
    <3> QED BY <3>1, <3>2, <3>3 DEF ProcsKept
  <2>4. ASSUME NEW c \in Threads, NEW d \in Threads, th'[c].pc = "register", th'[d].pc = "register",
               th'[c].slot = th'[d].slot
        PROVE  c = d
    BY <2>1, <2>2, <2>4 DEF Registering
  <2> QED BY <2>3, <2>4 DEF Registering
<1> QED BY <1>3, <1>4

\* A step of one thread that leaves the maps alone.
LEMMA QuietStep ==
    ASSUME SlotsInv, NEW t \in Threads, NEW r \in ThreadRecs, th' = [th EXCEPT ![t] = r],
           MMove(t, r), IMove(t, r), SMove(t, r),
           StatusKept, SameSlots, RowsKept, ProcsKept, Basics', ThreadOK(t, r)',
           r.pc # "register" \/ r = th[t],
           t \in Callers \/ th[t].kind = "watch" \/ r = th[t]
    PROVE  SlotsInv'
<1>1. th \in [Threads -> ThreadRecs]
  BY SlotsFacts
<1>2. th' \in [Threads -> ThreadRecs] /\ th'[t] = r /\ \A k \in Threads \ {t} : th'[k] = th[k]
  BY <1>1
<1>3. OthersStay(t)
  BY <1>2 DEF OthersStay
<1>4. SlotsKept /\ MapsMove(t)
  BY DEF SameSlots, SlotsKept, MapsMove, MapsStay
<1>5. \A w \in Workers : slot'[w] = Nil <=> slot[w] = Nil
  BY DEF SameSlots
<1>6. (\A w \in Workers : WorkerOK(w)') /\ Registering'
  BY <1>5, WorkersKept
<1>7. \A w \in Workers : SlotOK(w)'
  <2> TAKE w \in Workers
  <2>1. CASE slot[w] = Nil
    BY <2>1 DEF SameSlots, SlotOK
  <2>2. CASE slot[w] # Nil
    BY <2>2, SlotOKKept DEF SameSlots
  <2> QED BY <2>1, <2>2
<1>8. IndexOK'
  BY DEF SlotsInv, IndexOK, SameSlots, IsMapped
<1> QED BY <1>2, <1>3, <1>4, <1>6, <1>7, <1>8, SlotsStep

\* ... and the tables, and what is known of the structs but for the registry.
LEMMA LockStep ==
    ASSUME SlotsInv, NEW t \in Threads, NEW r \in ThreadRecs, th' = [th EXCEPT ![t] = r],
           MMove(t, r), IMove(t, r), SMove(t, r), UNCHANGED <<status, slotVars, dbVars>>,
           used' \in [calls: Nat, deaths: Nat],
           registry' \in Objs \cup {Nil}, registry' # Nil => status[registry'] # "none",
           KindOK(t, r), SlotRefs(r), MapRefs(r), r.pc # "register",
           t \in Callers \/ th[t].kind = "watch"
    PROVE  SlotsInv'
<1>1. /\ status' = status /\ index' = index /\ slot' = slot /\ proc' = proc
      /\ closing' = closing /\ rows' = rows /\ instRow' = instRow
  BY DEF slotVars, dbVars
<1>2. StatusKept /\ SameSlots /\ RowsKept /\ ProcsKept
  BY <1>1 DEF StatusKept, SameSlots, RowsKept, ProcsKept
<1>3. Basics'
  BY <1>1 DEF SlotsInv, TypeOK, Basics
<1>4. KindOK(t, r)' /\ SlotRefs(r)' /\ MapRefs(r)'
  BY <1>1 DEF KindOK, SlotRefs, MapRefs
<1> QED BY <1>2, <1>3, <1>4, QuietStep DEF ThreadOK

\* ... between places at which the thread holds no lock.
HoldsNothing(r) == ~Holds(r) /\ ~HoldsM(r) /\ r.pc # "chat"

LEMMA FreeStep ==
    ASSUME SlotsInv, NEW t \in Threads, NEW r \in ThreadRecs, th' = [th EXCEPT ![t] = r],
           HoldsNothing(th[t]), HoldsNothing(r),
           UNCHANGED <<status, slotVars, dbVars, lockVars>>,
           used' \in [calls: Nat, deaths: Nat],
           registry' \in Objs \cup {Nil}, registry' # Nil => status[registry'] # "none",
           KindOK(t, r), SlotRefs(r), MapRefs(r), r.pc # "register",
           t \in Callers \/ th[t].kind = "watch"
    PROVE  SlotsInv'
<1>1. mMu' = mMu /\ instMu' = instMu /\ slotMu' = slotMu
  BY DEF lockVars
<1>2. MMove(t, r) /\ IMove(t, r) /\ SMove(t, r)
  BY <1>1 DEF MMove, IMove, SMove, HoldsNothing
<1>3. UNCHANGED <<status, slotVars, dbVars>>
  OBVIOUS
<1> QED BY <1>2, <1>3, LockStep

LEMMA IdleOK ==
    ASSUME NEW t \in Threads
    PROVE  KindOK(t, Idle) /\ SlotRefs(Idle) /\ MapRefs(Idle) /\ HoldsNothing(Idle)
BY IdleFields, WokenHoldsNothing DEF KindOK, SlotRefs, MapRefs, HoldsNothing, ObjPcs, SlotPcs

LEMMA FreeReturn ==
    ASSUME SlotsInv, NEW t \in Threads, Return(t), HoldsNothing(th[t]),
           UNCHANGED <<regVars, slotVars, dbVars, lockVars, used>>,
           t \in Callers \/ th[t].kind = "watch"
    PROVE  SlotsInv'
<1>1. registry' = registry /\ UNCHANGED <<status, slotVars, dbVars, lockVars>> /\ used' = used
  BY DEF regVars
<1>2. used' \in [calls: Nat, deaths: Nat]
  BY <1>1 DEF SlotsInv, TypeOK
<1>3. registry' \in Objs \cup {Nil} /\ (registry' # Nil => status[registry'] # "none")
  BY <1>1, SlotsFacts
<1> QED BY <1>1, <1>2, <1>3, IdleOK, IdleFields, FreeStep DEF Return

\* The watchers' places.
LEMMA WatcherKind ==
    ASSUME SlotsInv, NEW t \in Threads, th[t].pc # "idle"
    PROVE  t \in Callers \/ th[t].kind = "watch"
BY SlotsFacts DEF KindOK, Threads

-----------------------------------------------------------------------------
(***************************************************************************)
(* The steps at which a thread holds nothing before and after.             *)
(***************************************************************************)
\* t, holding nothing, goes to a place at which it holds nothing and has a
\* struct that was made in hand.
LEMMA FreeMove ==
    ASSUME SlotsInv, NEW t \in Threads, NEW p \in Pcs, NEW o \in Objs,
           HoldsNothing(th[t]), th[t].pc # "idle", status[o] # "none", th[t].todo = {} \/ p # "detach",
           \/ p \in {"lookup", "clear", "examine", "dropRows"}
           \/ p = "ensure" /\ th[t].kind = "send"
           \/ p = "mlock"
           \/ p = "unregister" /\ th[t].kind = "start",
           \/ th' = [th EXCEPT ![t] = [th[t] EXCEPT !.obj = o, !.pc = p]]
           \/ th' = [th EXCEPT ![t] = [th[t] EXCEPT !.pc = p, !.obj = o]],
           UNCHANGED <<status, slotVars, dbVars, lockVars>>, used' = used,
           registry' \in Objs \cup {Nil}, registry' # Nil => status[registry'] # "none"
    PROVE  SlotsInv'
<1>1. KindOK(t, th[t]) /\ SlotRefs(th[t]) /\ th[t] \in ThreadRecs /\ (t \in Callers \/ th[t].kind = "watch")
  BY SlotsFacts, WatcherKind
<1>2. PICK r \in ThreadRecs : Moved(r, th[t], p, o, th[t].slot, th[t].todo) /\ th' = [th EXCEPT ![t] = r]
  <2>1. PICK q : q = [th[t] EXCEPT !.obj = o, !.pc = p]
    OBVIOUS
  <2>2. PICK s : s = [th[t] EXCEPT !.pc = p, !.obj = o]
    OBVIOUS
  <2>3. th' = [th EXCEPT ![t] = q] \/ th' = [th EXCEPT ![t] = s]
    BY <2>1, <2>2
  <2>4. /\ Moved(q, th[t], p, o, th[t].slot, th[t].todo)
        /\ Moved(s, th[t], p, o, th[t].slot, th[t].todo)
    BY <1>1, <2>1, <2>2, ObjPcFields
  <2> QED BY <2>3, <2>4 DEF Moved
<1>3. KindOK(t, r)
  BY <1>1, <1>2 DEF Moved, KindOK, ObjPcs, SlotPcs
<1>4. SlotRefs(r) /\ MapRefs(r)
  BY <1>1, <1>2 DEF Moved, SlotRefs, MapRefs, SlotPcs
<1>5. HoldsNothing(r) /\ r.pc # "register"
  BY <1>2 DEF Moved, HoldsNothing, Holds, HoldsM
<1>6. used' \in [calls: Nat, deaths: Nat]
  BY DEF SlotsInv, TypeOK
<1> QED BY <1>1, <1>2, <1>3, <1>4, <1>5, <1>6, FreeStep

LEMMA GetHolds ==
    ASSUME NEW r, r.pc \in {"idle", "get", "ensure", "acquire", "lookup", "slot", "clear", "mlock",
                            "shutdown", "dropRows", "unregister", "register", "reregister", "wait",
                            "examine", "die"}
    PROVE  HoldsNothing(r)
BY DEF HoldsNothing, Holds, HoldsM

LEMMA CallInv ==
    ASSUME SlotsInv, NEW c \in Callers, NEW kind \in Calls, Call(c, kind)
    PROVE  SlotsInv'
<1>1. PICK x \in Channels : th' = [th EXCEPT ![c] = [Idle EXCEPT !.kind = kind, !.pc = "get", !.ch = x]]
  BY DEF Call
<1>2. "get" \in Pcs /\ kind \in Calls \cup {"idle", "watch"} /\ x \in Channels \cup {Nil} /\ kind # "watch"
  BY DEF Pcs, Calls
<1>3. PICK r \in ThreadRecs : Begun(r, kind, "get") /\ r.ch = x /\ th' = [th EXCEPT ![c] = r]
  <2>1. PICK q : q = [Idle EXCEPT !.kind = kind, !.pc = "get", !.ch = x]
    OBVIOUS
  <2>2. Begun(q, kind, "get") /\ q.ch = x
    BY <1>2, <2>1, BeginFields
  <2> QED BY <1>1, <2>1, <2>2 DEF Begun
<1>4. c \in Threads /\ th[c] = Idle /\ c \notin Workers
  BY SlotsAssumption DEF Threads, Call
<1>5. KindOK(c, r) /\ SlotRefs(r) /\ MapRefs(r) /\ HoldsNothing(r) /\ r.pc # "register"
  BY <1>2, <1>3, <1>4 DEF Begun, KindOK, SlotRefs, MapRefs, HoldsNothing, Holds, HoldsM, ObjPcs, SlotPcs
<1>6. UNCHANGED <<status, slotVars, dbVars, lockVars>> /\ registry' = registry
  BY DEF Call, regVars
<1>7. used' \in [calls: Nat, deaths: Nat]
  BY DEF SlotsInv, TypeOK, Call
<1> QED BY <1>3, <1>4, <1>5, <1>6, <1>7, IdleOK, SlotsFacts, FreeStep

LEMMA GetInstanceInv ==
    ASSUME SlotsInv, NEW c \in Callers, GetInstance(c)
    PROVE  SlotsInv'
<1>1. c \in Threads /\ HoldsNothing(th[c]) /\ th[c].pc # "idle"
  BY GetHolds DEF GetInstance, At, Threads
<1>2. UNCHANGED <<regVars, slotVars, dbVars, lockVars, used>>
  BY DEF GetInstance
<1>3. CASE registry = Nil
  BY <1>1, <1>2, <1>3, FreeReturn DEF GetInstance
<1>4. CASE registry # Nil
  <2>1. PICK p \in Pcs : p = IF th[c].kind = "send" THEN "ensure" ELSE "clear"
    BY DEF Pcs
  <2>2. th' = [th EXCEPT ![c] = [th[c] EXCEPT !.obj = registry, !.pc = p]]
    BY <1>1, <1>4, <2>1, SlotsFacts DEF GetInstance
  <2>3. registry' = registry /\ UNCHANGED <<status, slotVars, dbVars, lockVars>> /\ used' = used
    BY <1>2 DEF regVars
  <2>4. registry \in Objs /\ status[registry] # "none"
    BY <1>1, <1>4, SlotsFacts
  <2>5. p = "clear" \/ (p = "ensure" /\ th[c].kind = "send")
    BY <2>1
  <2> QED BY <1>1, <2>2, <2>3, <2>4, <2>5, FreeMove
<1> QED BY <1>3, <1>4

\* ... or goes there with what it had.
LEMMA FreeGoto ==
    ASSUME SlotsInv, NEW t \in Callers, NEW p \in {"mlock", "dropRows", "spawn"},
           HoldsNothing(th[t]), th[t].pc # "idle",
           p = "spawn" => th[t].pc = "unregister",
           Goto(t, p), UNCHANGED <<status, slotVars, dbVars, lockVars>>, used' = used,
           registry' \in Objs \cup {Nil}, registry' # Nil => status[registry'] # "none"
    PROVE  SlotsInv'
<1>1. /\ t \in Threads /\ KindOK(t, th[t]) /\ SlotRefs(th[t]) /\ th[t] \in ThreadRecs
      /\ t \notin Workers /\ p \in Pcs
  BY SlotsFacts, SlotsAssumption DEF Threads, Pcs
<1>2. PICK r : r = [th[t] EXCEPT !.pc = p]
  OBVIOUS
<1>3. Moved(r, th[t], p, th[t].obj, th[t].slot, th[t].todo)
  BY <1>1, <1>2, PcField
<1>4. r \in ThreadRecs /\ th' = [th EXCEPT ![t] = r]
  BY <1>1, <1>2, <1>3, SlotsFacts DEF Moved, Goto
<1>5. KindOK(t, r)
  BY <1>1, <1>3 DEF Moved, KindOK, ObjPcs, SlotPcs
<1>6. HoldsNothing(r) /\ r.pc # "register"
  BY <1>1, <1>3 DEF Moved, HoldsNothing, Holds, HoldsM, KindOK
<1>7. SlotRefs(r) /\ MapRefs(r)
  BY <1>1, <1>3, <1>6 DEF Moved, SlotRefs, MapRefs, SlotPcs, HoldsNothing, Holds
<1>8. used' \in [calls: Nat, deaths: Nat]
  BY DEF SlotsInv, TypeOK
<1> QED BY <1>1, <1>4, <1>5, <1>6, <1>7, <1>8, FreeStep

LEMMA AcquireGetInv ==
    ASSUME SlotsInv, NEW c \in Callers, AcquireGet(c)
    PROVE  SlotsInv'
<1>1. c \in Threads /\ HoldsNothing(th[c]) /\ th[c].pc # "idle" /\ "lookup" \in Pcs
  BY GetHolds DEF AcquireGet, At, Threads, Pcs
<1>2. UNCHANGED <<regVars, slotVars, dbVars, lockVars, used>>
  BY DEF AcquireGet
<1>3. CASE registry = Nil
  BY <1>1, <1>2, <1>3, FreeReturn DEF AcquireGet
<1>4. CASE registry # Nil
  <2>1. th' = [th EXCEPT ![c] = [th[c] EXCEPT !.obj = registry, !.pc = "lookup"]]
    BY <1>1, <1>4, SlotsFacts DEF AcquireGet
  <2>2. registry' = registry /\ UNCHANGED <<status, slotVars, dbVars, lockVars>> /\ used' = used
    BY <1>2 DEF regVars
  <2>3. registry \in Objs /\ status[registry] # "none"
    BY <1>1, <1>4, SlotsFacts
  <2> QED BY <1>1, <2>1, <2>2, <2>3, FreeMove
<1> QED BY <1>3, <1>4

LEMMA AcquireLookupInv ==
    ASSUME SlotsInv, NEW c \in Callers, AcquireLookup(c)
    PROVE  SlotsInv'
<1>1. c \in Threads /\ HoldsNothing(th[c]) /\ th[c].pc = "lookup" /\ "slot" \in Pcs /\ c \notin Workers
  BY GetHolds, SlotsAssumption DEF AcquireLookup, At, Threads, Pcs
<1>2. UNCHANGED <<regVars, slotVars, dbVars, lockVars, used>>
  BY DEF AcquireLookup
<1>3. CASE Return(c)
  BY <1>1, <1>2, <1>3, FreeReturn
<1>4. ASSUME NEW w \in SlotOf(th[c].obj, th[c].sid),
             th' = [th EXCEPT ![c].pc = "slot", ![c].slot = w]
      PROVE  SlotsInv'
  <2>1. w \in Workers /\ slot[w] # Nil
    BY <1>4 DEF SlotOf, Mapped
  <2>2. /\ KindOK(c, th[c]) /\ SlotRefs(th[c]) /\ th[c] \in ThreadRecs /\ th \in [Threads -> ThreadRecs]
        /\ registry \in Objs \cup {Nil} /\ (registry # Nil => status[registry] # "none")
    BY <1>1, SlotsFacts
  <2>3. PICK r : r = [th[c] EXCEPT !.pc = "slot", !.slot = w]
    OBVIOUS
  <2>4. Moved(r, th[c], "slot", th[c].obj, w, th[c].todo)
    BY <1>1, <2>1, <2>2, <2>3, PcSlotFields
  <2>5. r \in ThreadRecs /\ th' = [th EXCEPT ![c] = r]
    BY <1>1, <1>4, <2>2, <2>3, <2>4 DEF Moved
  <2>6. KindOK(c, r)
    BY <1>1, <2>1, <2>2, <2>4 DEF Moved, KindOK, ObjPcs, SlotPcs
  <2>7. SlotRefs(r) /\ MapRefs(r) /\ HoldsNothing(r) /\ r.pc # "register"
    BY <2>1, <2>2, <2>4 DEF Moved, SlotRefs, MapRefs, SlotPcs, HoldsNothing, Holds, HoldsM
  <2>8. registry' = registry /\ UNCHANGED <<status, slotVars, dbVars, lockVars>> /\ used' = used
    BY <1>2 DEF regVars
  <2>9. used' \in [calls: Nat, deaths: Nat]
    BY <2>8 DEF SlotsInv, TypeOK
  <2> QED BY <1>1, <2>2, <2>5, <2>6, <2>7, <2>8, <2>9, FreeStep
<1> QED BY <1>3, <1>4 DEF AcquireLookup

LEMMA StopGetInv ==
    ASSUME SlotsInv, NEW c \in Callers, StopGet(c)
    PROVE  SlotsInv'
<1>1. c \in Threads /\ HoldsNothing(th[c]) /\ th[c].pc = "get"
  BY GetHolds DEF StopGet, At, Threads
<1>2. UNCHANGED <<regVars, slotVars, dbVars, lockVars, used>>
  BY DEF StopGet
<1>3. CASE Return(c)
  BY <1>1, <1>2, <1>3, FreeReturn
<1>4. CASE Goto(c, "mlock")
  <2>1. registry' = registry /\ UNCHANGED <<status, slotVars, dbVars, lockVars>> /\ used' = used
    BY <1>2 DEF regVars
  <2> QED BY <1>1, <1>4, <2>1, SlotsFacts, FreeGoto
<1> QED BY <1>3, <1>4 DEF StopGet

LEMMA DeleteGetInv ==
    ASSUME SlotsInv, NEW c \in Callers, DeleteGet(c)
    PROVE  SlotsInv'
<1>1. c \in Threads /\ HoldsNothing(th[c]) /\ th[c].pc = "get" /\ "mlock" \in Pcs /\ c \notin Workers
  BY GetHolds, SlotsAssumption DEF DeleteGet, At, Threads, Pcs
<1>2. UNCHANGED <<regVars, slotVars, dbVars, lockVars, used>>
  BY DEF DeleteGet
<1>3. CASE registry = Nil
  BY <1>1, <1>2, <1>3, FreeReturn DEF DeleteGet
<1>4. CASE registry # Nil
  <2>1. /\ KindOK(c, th[c]) /\ SlotRefs(th[c]) /\ th[c] \in ThreadRecs /\ th \in [Threads -> ThreadRecs]
        /\ registry \in Objs /\ status[registry] # "none"
    BY <1>1, <1>4, SlotsFacts
  <2>2. PICK o \in Objs \cup {Nil} : o = IF status[registry] = "stopped" THEN Nil ELSE registry
    BY <2>1
  <2>3. PICK r : r = [th[c] EXCEPT !.pc = "mlock", !.obj = o]
    OBVIOUS
  <2>4. Moved(r, th[c], "mlock", o, th[c].slot, th[c].todo)
    BY <1>1, <2>1, <2>3, ObjPcFields
  <2>5. r \in ThreadRecs /\ th' = [th EXCEPT ![c] = r]
    BY <1>1, <1>4, <2>1, <2>2, <2>3, <2>4 DEF Moved, DeleteGet
  <2>6. KindOK(c, r)
    BY <1>1, <2>1, <2>4 DEF Moved, KindOK, ObjPcs, SlotPcs
  <2>7. SlotRefs(r) /\ MapRefs(r) /\ HoldsNothing(r) /\ r.pc # "register"
    BY <2>1, <2>2, <2>4 DEF Moved, SlotRefs, MapRefs, SlotPcs, HoldsNothing, Holds, HoldsM
  <2>8. registry' = registry /\ UNCHANGED <<status, slotVars, dbVars, lockVars>> /\ used' = used
    BY <1>2 DEF regVars
  <2>9. used' \in [calls: Nat, deaths: Nat]
    BY <2>8 DEF SlotsInv, TypeOK
  <2> QED BY <1>1, <2>1, <2>5, <2>6, <2>7, <2>8, <2>9, FreeStep
<1> QED BY <1>3, <1>4

LEMMA StartGetInv ==
    ASSUME SlotsInv, NEW c \in Callers, StartGet(c)
    PROVE  SlotsInv'
<1>1. c \in Threads /\ HoldsNothing(th[c]) /\ th[c].pc # "idle" /\ "unregister" \in Pcs
  BY GetHolds DEF StartGet, At, Threads, Pcs
<1>2. UNCHANGED <<regVars, slotVars, dbVars, lockVars, used>>
  BY DEF StartGet
<1>3. CASE Return(c)
  BY <1>1, <1>2, <1>3, FreeReturn
<1>4. CASE registry # Nil /\ th' = [th EXCEPT ![c].pc = "unregister", ![c].obj = registry]
  <2>1. th' = [th EXCEPT ![c] = [th[c] EXCEPT !.pc = "unregister", !.obj = registry]]
    BY <1>1, <1>4, SlotsFacts
  <2>2. registry' = registry /\ UNCHANGED <<status, slotVars, dbVars, lockVars>> /\ used' = used
    BY <1>2 DEF regVars
  <2>3. registry \in Objs /\ status[registry] # "none" /\ th[c].kind = "start"
    BY <1>1, <1>4, SlotsFacts DEF StartGet
  <2> QED BY <1>1, <2>1, <2>2, <2>3, FreeMove
<1> QED BY <1>3, <1>4 DEF StartGet

LEMMA StartUnregisterInv ==
    ASSUME SlotsInv, NEW c \in Callers, StartUnregister(c)
    PROVE  SlotsInv'
<1>1. HoldsNothing(th[c]) /\ th[c].pc = "unregister"
  BY GetHolds DEF StartUnregister, At
<1>2. UNCHANGED <<status, slotVars, dbVars, lockVars>> /\ used' = used /\ registry' = Nil /\ Goto(c, "spawn")
  BY DEF StartUnregister
<1> QED BY <1>1, <1>2, FreeGoto

LEMMA WatchFindInv ==
    ASSUME SlotsInv, NEW w \in Workers, WatchFind(w)
    PROVE  SlotsInv'
<1>1. w \in Threads /\ HoldsNothing(th[w]) /\ th[w].pc # "idle" /\ "examine" \in Pcs
  BY GetHolds DEF WatchFind, At, Threads, Pcs
<1>2. UNCHANGED <<regVars, slotVars, dbVars, lockVars, used>>
  BY DEF WatchFind
<1>3. CASE registry = Nil
  BY <1>1, <1>2, <1>3, FreeReturn, WatcherKind DEF WatchFind
<1>4. CASE registry # Nil
  <2>1. th' = [th EXCEPT ![w] = [th[w] EXCEPT !.pc = "examine", !.obj = registry]]
    BY <1>1, <1>4, SlotsFacts DEF WatchFind
  <2>2. registry' = registry /\ UNCHANGED <<status, slotVars, dbVars, lockVars>> /\ used' = used
    BY <1>2 DEF regVars
  <2>3. registry \in Objs /\ status[registry] # "none"
    BY <1>1, <1>4, SlotsFacts
  <2> QED BY <1>1, <2>1, <2>2, <2>3, FreeMove
<1> QED BY <1>3, <1>4

LEMMA DeathGetInv ==
    ASSUME SlotsInv, NEW w \in Workers, DeathGet(w)
    PROVE  SlotsInv'
<1>1. w \in Threads /\ HoldsNothing(th[w]) /\ th[w].pc # "idle" /\ "mlock" \in Pcs
  BY GetHolds DEF DeathGet, At, Threads, Pcs
<1>2. UNCHANGED <<regVars, slotVars, dbVars, lockVars, used>>
  BY DEF DeathGet
<1>3. CASE Return(w)
  BY <1>1, <1>2, <1>3, FreeReturn, WatcherKind
<1>4. CASE registry # Nil /\ th' = [th EXCEPT ![w].pc = "mlock", ![w].obj = registry]
  <2>1. th' = [th EXCEPT ![w] = [th[w] EXCEPT !.pc = "mlock", !.obj = registry]]
    BY <1>1, <1>4, SlotsFacts
  <2>2. registry' = registry /\ UNCHANGED <<status, slotVars, dbVars, lockVars>> /\ used' = used
    BY <1>2 DEF regVars
  <2>3. registry \in Objs /\ status[registry] # "none"
    BY <1>1, <1>4, SlotsFacts
  <2> QED BY <1>1, <2>1, <2>2, <2>3, FreeMove
<1> QED BY <1>3, <1>4 DEF DeathGet

LEMMA ReregisterInv ==
    ASSUME SlotsInv, NEW c \in Callers, Reregister(c)
    PROVE  SlotsInv'
<1>1. c \in Threads /\ HoldsNothing(th[c]) /\ th[c].pc = "reregister" /\ th[c].obj \in Objs
  BY GetHolds, SlotsFacts DEF Reregister, At, Threads, KindOK, ObjPcs
<1>2. /\ status' = [status EXCEPT ![th[c].obj] = "stopped"] /\ registry' = th[c].obj
      /\ th' = [th EXCEPT ![c] = Idle]
      /\ index' = index /\ slot' = slot /\ proc' = proc /\ closing' = closing
      /\ rows' = rows /\ instRow' = instRow /\ used' = used
      /\ mMu' = mMu /\ instMu' = instMu /\ slotMu' = slotMu
  BY DEF Reregister, Return, slotVars, dbVars, lockVars
<1>3. StatusKept /\ Basics'
  BY <1>1, <1>2 DEF SlotsInv, TypeOK, StatusKept, Basics
<1>4. SameSlots /\ RowsKept /\ ProcsKept
  BY <1>2 DEF SameSlots, RowsKept, ProcsKept
<1>5. MMove(c, Idle) /\ IMove(c, Idle) /\ SMove(c, Idle)
  BY <1>1, <1>2, IdleOK DEF MMove, IMove, SMove, HoldsNothing
<1>6. ThreadOK(c, Idle)'
  BY <1>1, IdleFields DEF ThreadOK, KindOK, SlotRefs, MapRefs, ObjPcs, SlotPcs, Idle
<1> QED BY <1>1, <1>2, <1>3, <1>4, <1>5, <1>6, IdleFields, QuietStep

LEMMA ShutdownInv ==
    ASSUME SlotsInv, NEW c \in Callers, Shutdown(c)
    PROVE  SlotsInv'
<1>a. c \in Threads /\ c \notin Workers /\ "dropRows" \in Pcs /\ {} \in SUBSET Workers
  BY SlotsAssumption DEF Threads, Pcs
<1>b. th[c].pc = "shutdown" /\ HoldsNothing(th[c])
  BY GetHolds DEF Shutdown, At
<1>1. /\ c \in Threads /\ HoldsNothing(th[c]) /\ th[c].pc = "shutdown" /\ th[c] \in ThreadRecs
      /\ "dropRows" \in Pcs /\ {} \in SUBSET Workers /\ c \notin Workers /\ th \in [Threads -> ThreadRecs]
      /\ KindOK(c, th[c]) /\ SlotRefs(th[c])
  BY <1>a, <1>b, SlotsFacts
<1>2. /\ registry' = registry /\ status' = status
      /\ proc' = [w \in Workers |-> IF w \in th[c].handles THEN "dead" ELSE proc[w]]
      /\ index' = index /\ slot' = slot /\ closing' = closing
      /\ rows' = rows /\ instRow' = instRow /\ used' = used
      /\ mMu' = mMu /\ instMu' = instMu /\ slotMu' = slotMu
  BY DEF Shutdown, regVars, dbVars, lockVars
<1>3. StatusKept /\ SameSlots /\ RowsKept /\ ProcsKept
  BY <1>2 DEF StatusKept, SameSlots, RowsKept, ProcsKept
<1>4. Basics'
  BY <1>1, <1>2 DEF SlotsInv, TypeOK, Basics
<1>5. ASSUME NEW r \in ThreadRecs, th' = [th EXCEPT ![c] = r], HoldsNothing(r), r.pc # "register",
             KindOK(c, r), SlotRefs(r), MapRefs(r)
      PROVE  SlotsInv'
  <2>1. MMove(c, r) /\ IMove(c, r) /\ SMove(c, r)
    BY <1>1, <1>2, <1>5 DEF MMove, IMove, SMove, HoldsNothing
  <2>2. ThreadOK(c, r)'
    BY <1>2, <1>5 DEF ThreadOK, KindOK, SlotRefs, MapRefs
  <2> QED BY <1>1, <1>3, <1>4, <1>5, <2>1, <2>2, QuietStep
<1>6. CASE Return(c)
  BY <1>1, <1>5, <1>6, IdleOK, IdleFields DEF Return
<1>7. CASE th' = [th EXCEPT ![c].pc = "dropRows", ![c].handles = {}]
  <2>1. PICK r : r = [th[c] EXCEPT !.pc = "dropRows", !.handles = {}]
    OBVIOUS
  <2>2. Moved(r, th[c], "dropRows", th[c].obj, th[c].slot, th[c].todo)
    BY <1>1, <2>1, PcHandlesFields
  <2>3. r \in ThreadRecs /\ th' = [th EXCEPT ![c] = r]
    BY <1>1, <1>7, <2>1, <2>2 DEF Moved
  <2>4. KindOK(c, r) /\ SlotRefs(r) /\ MapRefs(r) /\ HoldsNothing(r) /\ r.pc # "register"
    BY <1>1, <2>2 DEF Moved, KindOK, SlotRefs, MapRefs, HoldsNothing, Holds, HoldsM, ObjPcs, SlotPcs
  <2> QED BY <1>5, <2>3, <2>4
<1> QED BY <1>6, <1>7 DEF Shutdown

-----------------------------------------------------------------------------
(***************************************************************************)
(* The steps that take and give back a lock.                               *)
(***************************************************************************)
\* What a lookup by channel finds, under inst.mu.
LEMMA FoundFacts ==
    ASSUME SlotsInv, NEW o \in Objs, NEW ch \in Channels
    PROVE  /\ SlotByChannel(o, ch) = {} => index[o][ch] = 0
           /\ \A w \in SlotByChannel(o, ch) :
                /\ w \in Workers /\ slot[w] # Nil /\ slot[w].mapped
                /\ slot[w].obj = o /\ slot[w].ch = ch
<1>1. \A w \in Workers : slot[w] # Nil => slot[w] \in Slots /\ slot[w].sid # 0
  BY DEF SlotsInv, TypeOK, Slots
<1>2. IndexOK /\ \A w \in Workers : SlotOK(w)
  BY DEF SlotsInv
<1>3. \A w \in SlotByChannel(o, ch) :
         w \in Workers /\ slot[w] # Nil /\ slot[w].mapped /\ slot[w].obj = o /\ slot[w].sid = index[o][ch]
  BY DEF SlotByChannel, SlotOf, Mapped
<1>4. ASSUME index[o][ch] # 0
      PROVE  \E v \in Workers : /\ IsMapped(v) /\ slot[v].obj = o /\ slot[v].ch = ch
                                /\ v \in SlotByChannel(o, ch)
  <2>1. PICK v \in Workers : IsMapped(v) /\ slot[v].obj = o /\ slot[v].ch = ch
    BY <1>2, <1>4 DEF IndexOK
  <2>2. slot[v].sid = index[o][ch]
    BY <1>2, <2>1 DEF IndexOK
  <2> QED BY <2>1, <2>2 DEF SlotByChannel, SlotOf, Mapped, IsMapped
<1>5. ASSUME NEW w \in SlotByChannel(o, ch) PROVE slot[w].ch = ch
  <2>1. index[o][ch] # 0
    BY <1>1, <1>3
  <2>2. PICK v \in Workers : IsMapped(v) /\ slot[v].obj = o /\ slot[v].ch = ch /\ v \in SlotByChannel(o, ch)
    BY <1>4, <2>1
  <2>3. slot[v].sid = slot[w].sid
    BY <1>3, <2>2
  <2> QED BY <1>2, <1>3, <2>2, <2>3 DEF SlotOK
<1> QED BY <1>3, <1>4, <1>5

\* A thread that gives back what it holds and returns.
LEMMA LockReturn ==
    ASSUME SlotsInv, NEW t \in Threads, Return(t), th[t].pc # "idle",
           MMove(t, Idle), IMove(t, Idle), SMove(t, Idle),
           UNCHANGED <<regVars, slotVars, dbVars, used>>
    PROVE  SlotsInv'
<1>1. registry' = registry /\ UNCHANGED <<status, slotVars, dbVars>> /\ used' = used
  BY DEF regVars
<1>2. used' \in [calls: Nat, deaths: Nat]
  BY <1>1 DEF SlotsInv, TypeOK
<1>3. registry' \in Objs \cup {Nil} /\ (registry' # Nil => status[registry'] # "none")
  BY <1>1, SlotsFacts
<1> QED BY <1>1, <1>2, <1>3, IdleOK, IdleFields, WatcherKind, LockStep DEF Return

\* A thread that holds nothing takes inst.mu of its struct.
LEMMA TakeInst ==
    ASSUME SlotsInv, NEW t \in Threads,
           NEW p \in {"spawn", "alive", "create", "detachOld", "compare"},
           NEW w \in Workers \cup {Nil}, NEW r,
           HoldsNothing(th[t]), th[t].pc # "idle", th[t].obj \in Objs, instMu[th[t].obj] = Nil,
           Moved(r, th[t], p, th[t].obj, w, th[t].todo), th' = [th EXCEPT ![t] = r],
           instMu' = [instMu EXCEPT ![th[t].obj] = t],
           UNCHANGED <<regVars, slotVars, dbVars, mMu, slotMu, used>>,
           p \in {"spawn", "alive"} => th[t].kind = "send",
           p \in {"spawn", "create"} => index[th[t].obj][th[t].ch] = 0,
           p \in {"alive", "detachOld", "compare"} =>
              w \in Workers /\ slot[w] # Nil /\ slot[w].mapped /\ slot[w].obj = th[t].obj,
           p \in {"alive", "detachOld"} => slot[w].ch = th[t].ch
    PROVE  SlotsInv'
<1>1. /\ KindOK(t, th[t]) /\ SlotRefs(th[t]) /\ (t \in Callers \/ th[t].kind = "watch")
      /\ registry \in Objs \cup {Nil} /\ (registry # Nil => status[registry] # "none")
  BY SlotsFacts, WatcherKind
<1>2. /\ UNCHANGED <<status, slotVars, dbVars>> /\ registry' = registry /\ used' = used
      /\ mMu' = mMu /\ slotMu' = slotMu
  BY DEF regVars
<1>3. used' \in [calls: Nat, deaths: Nat]
  BY <1>2 DEF SlotsInv, TypeOK
<1>4. r \in ThreadRecs /\ Holds(r) /\ ~HoldsM(r) /\ r.pc # "chat" /\ r.pc # "register" /\ r.obj = th[t].obj
  BY DEF Moved, Holds, HoldsM
<1>5. MMove(t, r) /\ IMove(t, r) /\ SMove(t, r)
  BY <1>2, <1>4 DEF MMove, IMove, SMove, HoldsNothing
<1>6. KindOK(t, r)
  BY <1>1 DEF Moved, KindOK, ObjPcs, SlotPcs
<1>7. SlotRefs(r)
  BY <1>1 DEF Moved, SlotRefs, SlotPcs
<1>8. MapRefs(r)
  BY DEF Moved, MapRefs
<1> QED BY <1>1, <1>2, <1>3, <1>4, <1>5, <1>6, <1>7, <1>8, LockStep

LEMMA FreeLockReturn ==
    ASSUME SlotsInv, NEW t \in Threads, Return(t), th[t].pc # "idle", HoldsNothing(th[t]),
           UNCHANGED <<regVars, slotVars, dbVars, mMu, slotMu, used>>, instMu' = instMu
    PROVE  SlotsInv'
<1>1. UNCHANGED <<regVars, slotVars, dbVars, lockVars, used>>
  BY DEF lockVars
<1> QED BY <1>1, FreeReturn, WatcherKind

LEMMA EnsureLockInv ==
    ASSUME SlotsInv, NEW c \in Callers, EnsureLock(c)
    PROVE  SlotsInv'
<1>1. c \in Threads /\ "spawn" \in Pcs /\ "alive" \in Pcs /\ th[c].pc = "ensure"
  BY DEF Threads, Pcs, EnsureLock, At
<1>2. th[c] \in ThreadRecs /\ th \in [Threads -> ThreadRecs] /\ KindOK(c, th[c])
  BY <1>1, SlotsFacts
<1>3. th[c].obj \in Objs /\ th[c].ch \in Channels /\ th[c].kind = "send" /\ HoldsNothing(th[c])
  BY <1>1, <1>2, GetHolds DEF KindOK, ObjPcs
<1>4. instMu[th[c].obj] = Nil /\ UNCHANGED <<regVars, slotVars, dbVars, mMu, slotMu, used>>
  BY DEF EnsureLock
<1>5. CASE Return(c) /\ instMu' = instMu
  BY <1>1, <1>3, <1>4, <1>5, FreeLockReturn
<1>6. CASE /\ SlotByChannel(th[c].obj, th[c].ch) = {} /\ Goto(c, "spawn")
           /\ instMu' = [instMu EXCEPT ![th[c].obj] = c]
  <2>1. PICK r : r = [th[c] EXCEPT !.pc = "spawn"]
    OBVIOUS
  <2>2. Moved(r, th[c], "spawn", th[c].obj, th[c].slot, th[c].todo)
    BY <1>1, <1>2, <2>1, PcField
  <2>3. th' = [th EXCEPT ![c] = r]
    BY <1>1, <1>2, <1>6, <2>1 DEF Goto
  <2>4. index[th[c].obj][th[c].ch] = 0
    BY <1>3, <1>6, FoundFacts
  <2>5. th[c].slot \in Workers \cup {Nil}
    BY <1>2 DEF ThreadRecs
  <2> QED BY <1>1, <1>3, <1>4, <1>6, <2>2, <2>3, <2>4, <2>5, TakeInst
<1>7. ASSUME NEW w \in SlotByChannel(th[c].obj, th[c].ch),
             th' = [th EXCEPT ![c].pc = "alive", ![c].slot = w],
             instMu' = [instMu EXCEPT ![th[c].obj] = c]
      PROVE  SlotsInv'
  <2>1. w \in Workers /\ slot[w] # Nil /\ slot[w].mapped /\ slot[w].obj = th[c].obj /\ slot[w].ch = th[c].ch
    BY <1>3, <1>7, FoundFacts
  <2>2. PICK r : r = [th[c] EXCEPT !.pc = "alive", !.slot = w]
    OBVIOUS
  <2>3. Moved(r, th[c], "alive", th[c].obj, w, th[c].todo)
    BY <1>1, <1>2, <2>1, <2>2, PcSlotFields
  <2>4. th' = [th EXCEPT ![c] = r]
    BY <1>1, <1>2, <1>7, <2>2
  <2> QED BY <1>1, <1>3, <1>4, <1>7, <2>1, <2>3, <2>4, TakeInst
<1> QED BY <1>5, <1>6, <1>7 DEF EnsureLock

LEMMA ClearLockInv ==
    ASSUME SlotsInv, NEW c \in Callers, ClearLock(c)
    PROVE  SlotsInv'
<1>1. c \in Threads /\ "create" \in Pcs /\ "detachOld" \in Pcs /\ th[c].pc = "clear"
  BY DEF Threads, Pcs, ClearLock, At
<1>2. th[c] \in ThreadRecs /\ th \in [Threads -> ThreadRecs] /\ KindOK(c, th[c])
  BY <1>1, SlotsFacts
<1>3. th[c].obj \in Objs /\ th[c].ch \in Channels /\ HoldsNothing(th[c])
  BY <1>1, <1>2, GetHolds DEF KindOK, ObjPcs
<1>4. instMu[th[c].obj] = Nil /\ UNCHANGED <<regVars, slotVars, dbVars, mMu, slotMu, used>>
  BY DEF ClearLock
<1>5. CASE Return(c) /\ instMu' = instMu
  BY <1>1, <1>3, <1>4, <1>5, FreeLockReturn
<1>6. CASE /\ SlotByChannel(th[c].obj, th[c].ch) = {} /\ Goto(c, "create")
           /\ instMu' = [instMu EXCEPT ![th[c].obj] = c]
  <2>1. PICK r : r = [th[c] EXCEPT !.pc = "create"]
    OBVIOUS
  <2>2. Moved(r, th[c], "create", th[c].obj, th[c].slot, th[c].todo)
    BY <1>1, <1>2, <2>1, PcField
  <2>3. th' = [th EXCEPT ![c] = r]
    BY <1>1, <1>2, <1>6, <2>1 DEF Goto
  <2>4. index[th[c].obj][th[c].ch] = 0
    BY <1>3, <1>6, FoundFacts
  <2>5. th[c].slot \in Workers \cup {Nil}
    BY <1>2 DEF ThreadRecs
  <2> QED BY <1>1, <1>3, <1>4, <1>6, <2>2, <2>3, <2>4, <2>5, TakeInst
<1>7. ASSUME NEW w \in SlotByChannel(th[c].obj, th[c].ch),
             th' = [th EXCEPT ![c].pc = "detachOld", ![c].slot = w],
             instMu' = [instMu EXCEPT ![th[c].obj] = c]
      PROVE  SlotsInv'
  <2>1. w \in Workers /\ slot[w] # Nil /\ slot[w].mapped /\ slot[w].obj = th[c].obj /\ slot[w].ch = th[c].ch
    BY <1>3, <1>7, FoundFacts
  <2>2. PICK r : r = [th[c] EXCEPT !.pc = "detachOld", !.slot = w]
    OBVIOUS
  <2>3. Moved(r, th[c], "detachOld", th[c].obj, w, th[c].todo)
    BY <1>1, <1>2, <2>1, <2>2, PcSlotFields
  <2>4. th' = [th EXCEPT ![c] = r]
    BY <1>1, <1>2, <1>7, <2>2
  <2> QED BY <1>1, <1>3, <1>4, <1>7, <2>1, <2>3, <2>4, TakeInst
<1> QED BY <1>5, <1>6, <1>7 DEF ClearLock

LEMMA WatchExamineInv ==
    ASSUME SlotsInv, NEW w \in Workers, WatchExamine(w)
    PROVE  SlotsInv'
<1>1. w \in Threads /\ "compare" \in Pcs /\ th[w].pc = "examine"
  BY DEF Threads, Pcs, WatchExamine, At
<1>2. th[w] \in ThreadRecs /\ th \in [Threads -> ThreadRecs] /\ KindOK(w, th[w])
  BY <1>1, SlotsFacts
<1>3. th[w].obj \in Objs /\ HoldsNothing(th[w])
  BY <1>1, <1>2, GetHolds DEF KindOK, ObjPcs
<1>4. instMu[th[w].obj] = Nil /\ UNCHANGED <<regVars, slotVars, dbVars, mMu, slotMu, used>>
  BY DEF WatchExamine
<1>5. CASE Return(w) /\ instMu' = instMu
  BY <1>1, <1>3, <1>4, <1>5, FreeLockReturn
<1>6. ASSUME NEW v \in SlotOf(th[w].obj, slot[w].sid),
             th' = [th EXCEPT ![w].pc = "compare", ![w].slot = v],
             instMu' = [instMu EXCEPT ![th[w].obj] = w]
      PROVE  SlotsInv'
  <2>1. v \in Workers /\ slot[v] # Nil /\ slot[v].mapped /\ slot[v].obj = th[w].obj
    BY <1>6 DEF SlotOf, Mapped
  <2>2. PICK r : r = [th[w] EXCEPT !.pc = "compare", !.slot = v]
    OBVIOUS
  <2>3. Moved(r, th[w], "compare", th[w].obj, v, th[w].todo)
    BY <1>1, <1>2, <2>1, <2>2, PcSlotFields
  <2>4. th' = [th EXCEPT ![w] = r]
    BY <1>1, <1>2, <1>6, <2>2
  <2> QED BY <1>1, <1>3, <1>4, <1>6, <2>1, <2>3, <2>4, TakeInst
<1> QED BY <1>5, <1>6 DEF WatchExamine

LEMMA AcquireSlotInv ==
    ASSUME SlotsInv, NEW c \in Callers, AcquireSlot(c)
    PROVE  SlotsInv'
<1>1. c \in Threads /\ "chat" \in Pcs /\ th[c].pc = "slot" /\ c \notin Workers
  BY SlotsAssumption DEF Threads, Pcs, AcquireSlot, At
<1>2. /\ th[c] \in ThreadRecs /\ th \in [Threads -> ThreadRecs] /\ KindOK(c, th[c]) /\ SlotRefs(th[c])
      /\ registry \in Objs \cup {Nil} /\ (registry # Nil => status[registry] # "none")
  BY <1>1, SlotsFacts
<1>3. HoldsNothing(th[c]) /\ th[c].slot \in Workers /\ slot[th[c].slot] # Nil
  BY <1>1, <1>2, GetHolds DEF KindOK, SlotRefs, SlotPcs
<1>4. /\ slotMu[th[c].slot] = Nil /\ UNCHANGED <<regVars, slotVars, dbVars, used>>
      /\ mMu' = mMu /\ instMu' = instMu
  BY DEF AcquireSlot
<1>5. CASE Return(c) /\ slotMu' = slotMu
  <2>1. UNCHANGED <<regVars, slotVars, dbVars, mMu, slotMu, used>>
    BY <1>4, <1>5
  <2> QED BY <1>1, <1>3, <1>4, <1>5, <2>1, FreeLockReturn
<1>6. CASE Goto(c, "chat") /\ slotMu' = [slotMu EXCEPT ![th[c].slot] = c]
  <2>1. PICK r : r = [th[c] EXCEPT !.pc = "chat"]
    OBVIOUS
  <2>2. Moved(r, th[c], "chat", th[c].obj, th[c].slot, th[c].todo)
    BY <1>1, <1>2, <2>1, PcField
  <2>3. th' = [th EXCEPT ![c] = r] /\ r \in ThreadRecs
    BY <1>1, <1>2, <1>6, <2>1, <2>2 DEF Goto, Moved
  <2>4. MMove(c, r) /\ IMove(c, r)
    BY <1>3, <1>4, <2>2 DEF MMove, IMove, HoldsNothing, Moved, Holds, HoldsM
  <2>5. SMove(c, r)
    BY <1>3, <1>4, <1>6, <2>2 DEF SMove, HoldsNothing, Moved
  <2>6. KindOK(c, r) /\ SlotRefs(r) /\ MapRefs(r) /\ r.pc # "register"
    BY <1>1, <1>2, <1>3, <2>2 DEF Moved, KindOK, SlotRefs, MapRefs, ObjPcs, SlotPcs
  <2>7. UNCHANGED <<status, slotVars, dbVars>> /\ registry' = registry /\ used' = used
    BY <1>4 DEF regVars
  <2>8. used' \in [calls: Nat, deaths: Nat]
    BY <2>7 DEF SlotsInv, TypeOK
  <2> QED BY <1>1, <1>2, <2>3, <2>4, <2>5, <2>6, <2>7, <2>8, LockStep
<1> QED BY <1>5, <1>6 DEF AcquireSlot

LEMMA ChatEndsInv ==
    ASSUME SlotsInv, NEW c \in Callers, ChatEnds(c)
    PROVE  SlotsInv'
<1>1. c \in Threads /\ th[c].pc = "chat"
  BY DEF Threads, ChatEnds, At
<1>2. /\ UNCHANGED <<regVars, slotVars, dbVars, used>> /\ Return(c) /\ mMu' = mMu /\ instMu' = instMu
      /\ slotMu' = [slotMu EXCEPT ![th[c].slot] = Nil]
  BY DEF ChatEnds
<1>3. MMove(c, Idle) /\ IMove(c, Idle) /\ SMove(c, Idle)
  BY <1>1, <1>2, WokenHoldsNothing DEF MMove, IMove, SMove, Holds, HoldsM
<1> QED BY <1>1, <1>2, <1>3, LockReturn

\* A thread that holds nothing takes m.mu, with a struct that was made.
LEMMA TakeM ==
    ASSUME SlotsInv, NEW t \in Threads, NEW o \in Objs, NEW r, status[o] # "none",
           th[t].pc = "mlock", mMu = Nil, mMu' = t,
           Moved(r, th[t], "ilock", o, th[t].slot, th[t].todo), th' = [th EXCEPT ![t] = r],
           UNCHANGED <<regVars, slotVars, dbVars, instMu, slotMu, used>>
    PROVE  SlotsInv'
<1>1. /\ KindOK(t, th[t]) /\ SlotRefs(th[t]) /\ (t \in Callers \/ th[t].kind = "watch")
      /\ registry \in Objs \cup {Nil} /\ (registry # Nil => status[registry] # "none")
  BY SlotsFacts, WatcherKind
<1>2. /\ UNCHANGED <<status, slotVars, dbVars>> /\ registry' = registry /\ used' = used
      /\ instMu' = instMu /\ slotMu' = slotMu
  BY DEF regVars
<1>3. used' \in [calls: Nat, deaths: Nat]
  BY <1>2 DEF SlotsInv, TypeOK
<1>4. r \in ThreadRecs /\ HoldsM(r) /\ ~Holds(r) /\ r.pc # "chat" /\ r.pc # "register" /\ ~Holds(th[t])
  BY DEF Moved, Holds, HoldsM
<1>5. MMove(t, r) /\ IMove(t, r) /\ SMove(t, r)
  BY <1>2, <1>4 DEF MMove, IMove, SMove
<1>6. KindOK(t, r) /\ SlotRefs(r) /\ MapRefs(r)
  BY <1>1 DEF Moved, KindOK, SlotRefs, MapRefs, ObjPcs, SlotPcs
<1> QED BY <1>1, <1>2, <1>3, <1>4, <1>5, <1>6, LockStep

LEMMA StopLockInv ==
    ASSUME SlotsInv, NEW c \in Callers, StopLock(c)
    PROVE  SlotsInv'
<1>1. c \in Threads /\ "ilock" \in Pcs /\ th[c].pc = "mlock" /\ HoldsNothing(th[c])
  BY GetHolds DEF Threads, Pcs, StopLock, At
<1>2. /\ th[c] \in ThreadRecs /\ th \in [Threads -> ThreadRecs]
      /\ registry \in Objs \cup {Nil} /\ (registry # Nil => status[registry] # "none")
  BY <1>1, SlotsFacts
<1>3. mMu = Nil /\ UNCHANGED <<regVars, slotVars, dbVars, instMu, slotMu, used>>
  BY DEF StopLock
<1>4. CASE registry = Nil
  <2>1. Return(c) /\ UNCHANGED <<regVars, slotVars, dbVars, mMu, slotMu, used>> /\ instMu' = instMu
    BY <1>3, <1>4 DEF StopLock
  <2> QED BY <1>1, <2>1, FreeLockReturn
<1>5. CASE registry # Nil
  <2>1. PICK r : r = [th[c] EXCEPT !.pc = "ilock", !.obj = registry]
    OBVIOUS
  <2>2. Moved(r, th[c], "ilock", registry, th[c].slot, th[c].todo)
    BY <1>1, <1>2, <2>1, ObjPcFields
  <2>3. th' = [th EXCEPT ![c] = r] /\ mMu' = c
    BY <1>1, <1>2, <1>5, <2>1 DEF StopLock
  <2>4. registry \in Objs
    BY <1>2, <1>5
  <2> QED BY <1>1, <1>2, <1>3, <1>5, <2>2, <2>3, <2>4, TakeM
<1> QED BY <1>4, <1>5

LEMMA DeleteLockInv ==
    ASSUME SlotsInv, NEW c \in Callers, DeleteLock(c)
    PROVE  SlotsInv'
<1>1. c \in Threads /\ "ilock" \in Pcs /\ th[c].pc = "mlock" /\ HoldsNothing(th[c])
  BY GetHolds DEF Threads, Pcs, DeleteLock, At
<1>2. /\ th[c] \in ThreadRecs /\ th \in [Threads -> ThreadRecs]
      /\ registry \in Objs \cup {Nil} /\ (registry # Nil => status[registry] # "none")
  BY <1>1, SlotsFacts
<1>3. mMu = Nil /\ UNCHANGED <<status, slotVars, dbVars, instMu, slotMu, used>>
  BY DEF DeleteLock
<1>4. CASE th[c].obj = Nil \/ registry = Nil
  <2>1. /\ Goto(c, "dropRows") /\ registry' = Nil
        /\ UNCHANGED <<status, slotVars, dbVars, lockVars>> /\ used' = used
    BY <1>3, <1>4 DEF DeleteLock, lockVars
  <2> QED BY <1>1, <2>1, FreeGoto
<1>5. CASE registry # Nil /\ th[c].obj # Nil
  <2>1. PICK r : r = [th[c] EXCEPT !.pc = "ilock", !.obj = registry]
    OBVIOUS
  <2>2. Moved(r, th[c], "ilock", registry, th[c].slot, th[c].todo)
    BY <1>1, <1>2, <2>1, ObjPcFields
  <2>3. th' = [th EXCEPT ![c] = r] /\ mMu' = c /\ registry' = registry
    BY <1>1, <1>2, <1>5, <2>1 DEF DeleteLock
  <2>4. registry \in Objs /\ UNCHANGED <<regVars, slotVars, dbVars, instMu, slotMu, used>>
    BY <1>2, <1>3, <1>5, <2>3 DEF regVars
  <2> QED BY <1>1, <1>2, <1>3, <1>5, <2>2, <2>3, <2>4, TakeM
<1> QED BY <1>4, <1>5

LEMMA DeathLockInv ==
    ASSUME SlotsInv, NEW w \in Workers, DeathLock(w)
    PROVE  SlotsInv'
<1>1. w \in Threads /\ "ilock" \in Pcs /\ th[w].pc = "mlock" /\ HoldsNothing(th[w]) /\ th[w].kind = "watch"
  BY GetHolds DEF Threads, Pcs, DeathLock, At
<1>2. th[w] \in ThreadRecs /\ th \in [Threads -> ThreadRecs] /\ KindOK(w, th[w]) /\ SlotRefs(th[w])
  BY <1>1, SlotsFacts
<1>3. mMu = Nil /\ UNCHANGED <<regVars, slotVars, dbVars, instMu, slotMu, used>>
  BY DEF DeathLock
<1>4. CASE Return(w) /\ mMu' = mMu
  <2>1. UNCHANGED <<regVars, slotVars, dbVars, mMu, slotMu, used>> /\ instMu' = instMu
    BY <1>3, <1>4
  <2> QED BY <1>1, <1>4, <2>1, FreeLockReturn
<1>5. CASE Goto(w, "ilock") /\ mMu' = w
  <2>1. PICK r : r = [th[w] EXCEPT !.pc = "ilock"]
    OBVIOUS
  <2>2. Moved(r, th[w], "ilock", th[w].obj, th[w].slot, th[w].todo)
    BY <1>1, <1>2, <2>1, PcField
  <2>3. th' = [th EXCEPT ![w] = r]
    BY <1>1, <1>2, <1>5, <2>1 DEF Goto
  <2>4. th[w].obj \in Objs /\ status[th[w].obj] # "none"
    BY <1>1, <1>2, SlotsAssumption DEF KindOK, SlotRefs
  <2> QED BY <1>1, <1>3, <1>5, <2>2, <2>3, <2>4, TakeM
<1> QED BY <1>4, <1>5 DEF DeathLock

LEMMA InstLockInv ==
    ASSUME SlotsInv, NEW t \in Threads, InstLock(t)
    PROVE  SlotsInv'
<1>1. "detach" \in Pcs /\ th[t].pc = "ilock"
  BY DEF Pcs, InstLock, At
<1>2. /\ th[t] \in ThreadRecs /\ th \in [Threads -> ThreadRecs] /\ KindOK(t, th[t]) /\ SlotRefs(th[t])
      /\ registry \in Objs \cup {Nil} /\ (registry # Nil => status[registry] # "none")
  BY SlotsFacts
<1>3. th[t].obj \in Objs /\ (t \in Callers \/ th[t].kind = "watch") /\ HoldsM(th[t]) /\ ~Holds(th[t])
  BY <1>1, <1>2, WatcherKind DEF KindOK, ObjPcs, Holds, HoldsM
<1>4. PICK M \in SUBSET Workers : M = Mapped(th[t].obj) /\ \A w \in M : slot[w] # Nil
  <2>1. /\ Mapped(th[t].obj) \in SUBSET Workers
        /\ \A w \in Mapped(th[t].obj) : slot[w] # Nil
    BY DEF Mapped
  <2> QED BY <2>1
<1>5. PICK r : r = [th[t] EXCEPT !.pc = "detach", !.todo = M]
  OBVIOUS
<1>6. Moved(r, th[t], "detach", th[t].obj, th[t].slot, M)
  BY <1>1, <1>2, <1>4, <1>5, TodoFields
<1>7. /\ th' = [th EXCEPT ![t] = r] /\ instMu[th[t].obj] = Nil
      /\ instMu' = [instMu EXCEPT ![th[t].obj] = t] /\ mMu' = mMu /\ slotMu' = slotMu
      /\ UNCHANGED <<status, slotVars, dbVars>> /\ registry' = registry /\ used' = used
  BY <1>2, <1>4, <1>5 DEF InstLock, regVars
<1>8. r \in ThreadRecs /\ HoldsM(r) /\ Holds(r) /\ r.pc # "chat" /\ r.pc # "register" /\ r.obj = th[t].obj
  BY <1>6 DEF Moved, Holds, HoldsM
<1>9. MMove(t, r) /\ IMove(t, r) /\ SMove(t, r)
  BY <1>1, <1>3, <1>7, <1>8 DEF MMove, IMove, SMove
<1>10. KindOK(t, r) /\ SlotRefs(r) /\ MapRefs(r)
  BY <1>1, <1>2, <1>3, <1>4, <1>6 DEF Moved, KindOK, SlotRefs, MapRefs, ObjPcs, SlotPcs
<1>11. used' \in [calls: Nat, deaths: Nat]
  BY <1>7 DEF SlotsInv, TypeOK
<1> QED BY <1>2, <1>3, <1>7, <1>8, <1>9, <1>10, <1>11, LockStep

\* The loop and the handle of a slot are taken away.
LEMMA LiveField ==
    ASSUME NEW s \in Slots
    PROVE  /\ [s EXCEPT !.live = FALSE] \in Slots
           /\ [s EXCEPT !.live = FALSE].obj = s.obj /\ [s EXCEPT !.live = FALSE].ch = s.ch
           /\ [s EXCEPT !.live = FALSE].sid = s.sid /\ [s EXCEPT !.live = FALSE].mapped = s.mapped
BY DEF Slots

LEMMA DetachSlotInv ==
    ASSUME SlotsInv, NEW t \in Threads, DetachSlot(t)
    PROVE  SlotsInv'
<1>1. PICK w \in th[t].todo :
         /\ slot' = [slot EXCEPT ![w].live = FALSE]
         /\ th' = [th EXCEPT ![t].todo = @ \ {w},
                             ![t].handles = IF slot[w].live THEN @ \cup {w} ELSE @]
  BY DEF DetachSlot
<1>2. /\ th[t] \in ThreadRecs /\ th \in [Threads -> ThreadRecs] /\ KindOK(t, th[t]) /\ SlotRefs(th[t])
      /\ slot \in [Workers -> Slots \cup {Nil}] /\ th[t].pc = "detach"
  BY SlotsFacts DEF DetachSlot, At
<1>3. th[t].todo \in SUBSET Workers /\ th[t].handles \in SUBSET Workers /\ w \in Workers /\ slot[w] # Nil
  BY <1>1, <1>2 DEF ThreadRecs, SlotRefs
<1>4. PICK S \in SUBSET Workers : S = th[t].todo \ {w}
  BY <1>3
<1>5. PICK H \in SUBSET Workers : H = IF slot[w].live THEN th[t].handles \cup {w} ELSE th[t].handles
  BY <1>3
<1>6. PICK r : r = [th[t] EXCEPT !.todo = S, !.handles = H]
  OBVIOUS
<1>7. Moved(r, th[t], th[t].pc, th[t].obj, th[t].slot, S)
  <2>1. th[t].pc \in Pcs
    BY <1>2 DEF ThreadRecs
  <2> QED BY <1>2, <1>4, <1>5, <1>6, <2>1, TodoFields
<1>8. th' = [th EXCEPT ![t] = r]
  BY <1>1, <1>2, <1>4, <1>5, <1>6
<1>9. PICK q : q = [slot[w] EXCEPT !.live = FALSE]
  OBVIOUS
<1>10. q \in Slots /\ q.obj = slot[w].obj /\ q.ch = slot[w].ch /\ q.sid = slot[w].sid /\ q.mapped = slot[w].mapped
  BY <1>2, <1>3, <1>9, LiveField
<1>11. slot' = [slot EXCEPT ![w] = q]
  BY <1>1, <1>2, <1>9
<1>12. /\ registry' = registry /\ status' = status /\ proc' = proc
       /\ index' = index /\ closing' = closing /\ rows' = rows /\ instRow' = instRow /\ used' = used
       /\ mMu' = mMu /\ instMu' = instMu /\ slotMu' = slotMu
  BY DEF DetachSlot, regVars, dbVars, lockVars
<1>13. Nil \notin Slots
  BY SlotsAssumption
<1>14. StatusKept /\ RowsKept /\ ProcsKept
  BY <1>12 DEF StatusKept, RowsKept, ProcsKept
<1>15. SameSlots
  BY <1>2, <1>3, <1>10, <1>11, <1>12, <1>13 DEF SameSlots
<1>16. Basics'
  BY <1>2, <1>3, <1>10, <1>11, <1>12 DEF SlotsInv, TypeOK, Basics
<1>17. MMove(t, r) /\ IMove(t, r) /\ SMove(t, r)
  BY <1>2, <1>7, <1>12 DEF MMove, IMove, SMove, Moved, Holds, HoldsM
<1>18. KindOK(t, r)'
  BY <1>2, <1>7 DEF Moved, KindOK
<1>19. SlotRefs(r)' /\ MapRefs(r)'
  BY <1>2, <1>3, <1>4, <1>7, <1>12, <1>15 DEF Moved, SlotRefs, MapRefs, SlotPcs, SameSlots
<1>20. r \in ThreadRecs /\ r.pc # "register" /\ (t \in Callers \/ th[t].kind = "watch")
  BY <1>2, <1>7, WatcherKind DEF Moved
<1> QED BY <1>8, <1>14, <1>15, <1>16, <1>17, <1>18, <1>19, <1>20, QuietStep DEF ThreadOK

LEMMA DetachedInv ==
    ASSUME SlotsInv, NEW t \in Threads, Detached(t)
    PROVE  SlotsInv'
<1>1. th[t].pc = "detach" /\ "shutdown" \in Pcs
  BY DEF Detached, At, Pcs
<1>2. /\ th[t] \in ThreadRecs /\ th \in [Threads -> ThreadRecs] /\ KindOK(t, th[t]) /\ SlotRefs(th[t])
      /\ (t \in Callers \/ th[t].kind = "watch")
  BY <1>1, SlotsFacts, WatcherKind
<1>3. th[t].obj \in Objs
  BY <1>1, <1>2 DEF KindOK, ObjPcs
<1>4. /\ status' = status \/ status' = [status EXCEPT ![th[t].obj] = "stopped"]
      /\ registry' = registry \/ registry' = Nil
      /\ mMu' = Nil /\ instMu' = [instMu EXCEPT ![th[t].obj] = Nil] /\ slotMu' = slotMu
      /\ proc' = proc /\ index' = index /\ slot' = slot /\ closing' = closing
      /\ rows' = rows /\ instRow' = instRow /\ used' = used
  BY DEF Detached, slotVars, dbVars
<1>5. StatusKept
  BY <1>3, <1>4 DEF StatusKept, SlotsInv, TypeOK
<1>6. SameSlots /\ RowsKept /\ ProcsKept
  BY <1>4 DEF SameSlots, RowsKept, ProcsKept
<1>7. Basics'
  BY <1>3, <1>4, <1>5 DEF SlotsInv, TypeOK, Basics, StatusKept
<1>8. ASSUME NEW r \in ThreadRecs, th' = [th EXCEPT ![t] = r], HoldsNothing(r), r.pc # "register",
             KindOK(t, r), SlotRefs(r), MapRefs(r)
      PROVE  SlotsInv'
  <2>1. MMove(t, r) /\ IMove(t, r) /\ SMove(t, r)
    BY <1>1, <1>4, <1>8 DEF MMove, IMove, SMove, HoldsNothing, Holds, HoldsM
  <2>2. r.obj \in Objs \cup {Nil}
    BY <1>8 DEF ThreadRecs
  <2>3. ThreadOK(t, r)'
    BY <1>4, <1>5, <1>8, <2>2 DEF ThreadOK, KindOK, SlotRefs, MapRefs, StatusKept
  <2> QED BY <1>2, <1>5, <1>6, <1>7, <1>8, <2>1, <2>3, QuietStep
<1>9. CASE Return(t)
  BY <1>8, <1>9, IdleOK, IdleFields DEF Return
<1>10. CASE Goto(t, "shutdown")
  <2>1. PICK r : r = [th[t] EXCEPT !.pc = "shutdown"]
    OBVIOUS
  <2>2. Moved(r, th[t], "shutdown", th[t].obj, th[t].slot, th[t].todo)
    BY <1>1, <1>2, <2>1, PcField
  <2>3. r \in ThreadRecs /\ th' = [th EXCEPT ![t] = r]
    BY <1>2, <1>10, <2>1, <2>2 DEF Moved, Goto
  <2>4. KindOK(t, r) /\ SlotRefs(r) /\ MapRefs(r) /\ HoldsNothing(r) /\ r.pc # "register"
    BY <1>1, <1>2, <2>2 DEF Moved, KindOK, SlotRefs, MapRefs, HoldsNothing, Holds, HoldsM, ObjPcs, SlotPcs
  <2> QED BY <1>8, <2>3, <2>4
<1> QED BY <1>9, <1>10 DEF Detached

-----------------------------------------------------------------------------
(***************************************************************************)
(* The tables and the processes.                                           *)
(***************************************************************************)
\* Rows change their status or directory, or one is added.
LEMMA RowUpdates ==
    ASSUME rows \in Seq(Rows)
    PROVE  /\ \A ch \in Channels, t \in Nat : Insert(ch, t) \in Seq(Rows) /\ Len(Insert(ch, t)) = Len(rows) + 1
           /\ \A ch \in Channels, t \in Nat, n \in DOMAIN rows : Insert(ch, t)[n] = rows[n]
           /\ \A ch \in Channels, t \in Nat : Insert(ch, t)[Len(rows) + 1].ch = ch
           /\ \A n \in DOMAIN rows : rows[n] \in Rows
           /\ DOMAIN rows = 1 .. Len(rows) /\ Len(rows) \in Nat
<1>1. \A ch \in Channels, t \in Nat : [ch |-> ch, status |-> "running", at |-> t, dir |-> TRUE] \in Rows
  BY DEF Rows
<1>2. /\ \A n \in DOMAIN rows : rows[n] \in Rows
      /\ DOMAIN rows = 1 .. Len(rows) /\ Len(rows) \in Nat
  OBVIOUS
<1>3. ASSUME NEW ch \in Channels, NEW t \in Nat
      PROVE  /\ Insert(ch, t) \in Seq(Rows) /\ Len(Insert(ch, t)) = Len(rows) + 1
             /\ \A n \in DOMAIN rows : Insert(ch, t)[n] = rows[n]
             /\ Insert(ch, t)[Len(rows) + 1].ch = ch
  <2>1. PICK r \in Rows : r = [ch |-> ch, status |-> "running", at |-> t, dir |-> TRUE]
    BY <1>1
  <2>2. r.ch = ch /\ Insert(ch, t) = Append(rows, r)
    BY <2>1 DEF Insert
  <2> QED BY <1>2, <2>2
<1> QED BY <1>2, <1>3

\* The time of a new row.
LEMMA NowIsTime ==
    ASSUME rows \in Seq(Rows)
    PROVE  Now \subseteq Nat
<1>1. CASE rows = <<>>
  BY <1>1 DEF Now
<1>2. CASE rows # <<>>
  <2>1. Len(rows) \in DOMAIN rows
    BY <1>2
  <2>2. rows[Len(rows)] \in Rows
    BY <2>1, RowUpdates
  <2>3. rows[Len(rows)].at \in Nat
    BY <2>2 DEF Rows
  <2> QED BY <2>3 DEF Now
<1> QED BY <1>1, <1>2

\* One row is rewritten, its channel is not.
LEMMA RowSet ==
    ASSUME NEW s \in Seq(Rows), NEW n \in DOMAIN s, NEW r \in Rows
    PROVE  /\ [s EXCEPT ![n] = r] \in Seq(Rows)
           /\ DOMAIN [s EXCEPT ![n] = r] = DOMAIN s
           /\ [s EXCEPT ![n] = r][n] = r
           /\ \A k \in DOMAIN s : k # n => [s EXCEPT ![n] = r][k] = s[k]
BY DEF Rows

LEMMA IsSeq ==
    ASSUME NEW S, NEW n \in Nat, NEW f \in [1 .. n -> S]
    PROVE  f \in Seq(S)
OBVIOUS

LEMMA DropRowsInv ==
    ASSUME SlotsInv, NEW c \in Callers, DropRows(c)
    PROVE  SlotsInv'
<1>a. th[c].pc = "dropRows"
  BY DEF DropRows, At
<1>1. c \in Threads /\ th[c].pc = "dropRows" /\ HoldsNothing(th[c])
  BY <1>a, GetHolds DEF Threads
<1>2. /\ instRow' = FALSE /\ th' = [th EXCEPT ![c] = Idle]
      /\ rows' = [n \in DOMAIN rows |-> [rows[n] EXCEPT !.status = "deleted", !.dir = FALSE]]
      /\ registry' = registry /\ status' = status
      /\ proc' = proc /\ index' = index /\ slot' = slot /\ closing' = closing /\ used' = used
      /\ mMu' = mMu /\ instMu' = instMu /\ slotMu' = slotMu
  BY DEF DropRows, Return, regVars, slotVars, lockVars
<1>3. rows \in Seq(Rows)
  BY DEF SlotsInv, TypeOK
<1>4. \A n \in DOMAIN rows : rows[n] \in Rows
  BY <1>3
<1>5. \A n \in DOMAIN rows : /\ [rows[n] EXCEPT !.status = "deleted", !.dir = FALSE] \in Rows
                            /\ [rows[n] EXCEPT !.status = "deleted", !.dir = FALSE].ch = rows[n].ch
  BY <1>4 DEF Rows
<1>6. rows' \in Seq(Rows)
  <2>1. DOMAIN rows = 1 .. Len(rows) /\ Len(rows) \in Nat
    BY <1>3
  <2> DEFINE e(n) == [rows[n] EXCEPT !.status = "deleted", !.dir = FALSE]
  <2>2. rows' = [n \in 1 .. Len(rows) |-> e(n)] /\ \A n \in 1 .. Len(rows) : e(n) \in Rows
    BY <1>2, <1>5, <2>1
  <2> HIDE DEF e
  <2>3. rows' \in [1 .. Len(rows) -> Rows]
    BY <2>2
  <2> QED BY <2>1, <2>3, IsSeq
<1>7. RowsKept
  BY <1>2, <1>5 DEF RowsKept
<1>8. StatusKept /\ SameSlots /\ ProcsKept
  BY <1>2 DEF StatusKept, SameSlots, ProcsKept
<1>9. Basics'
  BY <1>2, <1>6 DEF SlotsInv, TypeOK, Basics
<1>10. MMove(c, Idle) /\ IMove(c, Idle) /\ SMove(c, Idle)
  BY <1>1, <1>2, IdleOK DEF MMove, IMove, SMove, HoldsNothing
<1>11. ThreadOK(c, Idle)'
  BY <1>1, IdleFields DEF ThreadOK, KindOK, SlotRefs, MapRefs, ObjPcs, SlotPcs, Idle
<1> QED BY <1>1, <1>2, <1>7, <1>8, <1>9, <1>10, <1>11, IdleFields, QuietStep

\* A process ends, by itself or because it was told to.
LEMMA ProcEnds ==
    ASSUME SlotsInv, NEW w \in Workers, proc' = [proc EXCEPT ![w] = "dead"],
           closing' \in SUBSET Workers, used' \in [calls: Nat, deaths: Nat],
           UNCHANGED <<regVars, index, slot, dbVars, lockVars, th>>
    PROVE  SlotsInv'
<1>1. w \in Threads /\ th \in [Threads -> ThreadRecs] /\ th[w] \in ThreadRecs
  BY SlotsFacts DEF Threads
<1>2. /\ registry' = registry /\ status' = status /\ index' = index /\ slot' = slot
      /\ rows' = rows /\ instRow' = instRow /\ th' = th
      /\ mMu' = mMu /\ instMu' = instMu /\ slotMu' = slotMu
  BY DEF regVars, dbVars, lockVars
<1>3. PICK r \in ThreadRecs : r = th[w] /\ th' = [th EXCEPT ![w] = r]
  <2>1. PICK r : r = th[w]
    OBVIOUS
  <2> QED BY <1>1, <1>2, <2>1
<1>4. StatusKept /\ SameSlots /\ RowsKept /\ ProcsKept
  BY <1>2 DEF StatusKept, SameSlots, RowsKept, ProcsKept, SlotsInv, TypeOK
<1>5. Basics'
  BY <1>2 DEF SlotsInv, TypeOK, Basics
<1>6. MMove(w, r) /\ IMove(w, r) /\ SMove(w, r)
  BY <1>2, <1>3 DEF MMove, IMove, SMove
<1>7. KindOK(w, r) /\ SlotRefs(r) /\ MapRefs(r)
  BY <1>1, <1>3, SlotsFacts
<1>8. ThreadOK(w, r)'
  BY <1>2, <1>7 DEF ThreadOK, KindOK, SlotRefs, MapRefs
<1> QED BY <1>1, <1>3, <1>4, <1>5, <1>6, <1>8, QuietStep

LEMMA WorkerDiesInv ==
    ASSUME SlotsInv, NEW w \in Workers, WorkerDies(w) \/ AsyncShutdown(w)
    PROVE  SlotsInv'
<1>1. closing \in SUBSET Workers /\ used \in [calls: Nat, deaths: Nat]
  BY DEF SlotsInv, TypeOK
<1>2. closing' \in SUBSET Workers /\ used' \in [calls: Nat, deaths: Nat]
  BY <1>1 DEF WorkerDies, AsyncShutdown
<1>3. UNCHANGED <<regVars, index, slot, dbVars, lockVars, th>> /\ proc' = [proc EXCEPT ![w] = "dead"]
  BY DEF WorkerDies, AsyncShutdown
<1> QED BY <1>2, <1>3, ProcEnds

-----------------------------------------------------------------------------
(***************************************************************************)
(* The steps that take a slot out of the maps.                             *)
(***************************************************************************)
\* q is the slot s, out of the maps.
Detaches(q, s) == q \in Slots /\ q.obj = s.obj /\ q.ch = s.ch /\ q.sid = s.sid /\ ~q.mapped

LEMMA UnindexFacts ==
    ASSUME SlotsInv, NEW w \in Workers, slot[w] # Nil
    PROVE  /\ Unindex(index, w) \in [Objs -> [Channels -> Nat]]
           /\ Unindex(index, w)[slot[w].obj][slot[w].ch] = 0
           /\ \A o \in Objs : o # slot[w].obj => Unindex(index, w)[o] = index[o]
           /\ \A o \in Objs, ch \in Channels :
                o # slot[w].obj \/ ch # slot[w].ch => Unindex(index, w)[o][ch] = index[o][ch]
<1>1. slot[w].obj \in Objs /\ slot[w].ch \in Channels /\ index \in [Objs -> [Channels -> Nat]]
  BY DEF SlotsInv, TypeOK, Slots
<1> QED BY <1>1 DEF Unindex

LEMMA RemoveMaps ==
    ASSUME SlotsInv, NEW t \in Threads, NEW w \in Workers, NEW q, IsMapped(w), Detaches(q, slot[w]),
           Holds(th[t]), th[t].obj = slot[w].obj,
           slot' = [slot EXCEPT ![w] = q], index' = Unindex(index, w)
    PROVE  /\ SlotsKept /\ MapsMove(t) /\ IndexOK'
           /\ slot' \in [Workers -> Slots \cup {Nil}] /\ index' \in [Objs -> [Channels -> Nat]]
           /\ \A v \in Workers : slot'[v] = Nil <=> slot[v] = Nil
           /\ index'[slot[w].obj][slot[w].ch] = 0
<1>1. slot \in [Workers -> Slots \cup {Nil}] /\ Nil \notin Slots /\ slot[w] # Nil /\ slot[w] \in Slots
  BY SlotsAssumption DEF SlotsInv, TypeOK, IsMapped
<1>2. slot[w].obj \in Objs /\ slot[w].ch \in Channels
  BY <1>1 DEF Slots
<1>3. slot' \in [Workers -> Slots \cup {Nil}] /\ slot'[w] = q /\ \A v \in Workers : v # w => slot'[v] = slot[v]
  BY <1>1 DEF Detaches
<1>4. \A v \in Workers : slot'[v] = Nil <=> slot[v] = Nil
  BY <1>1, <1>3 DEF Detaches
<1>5. SlotsKept
  BY <1>1, <1>3 DEF SlotsKept, Detaches
<1>6. MapsMove(t)
  <2>1. Elsewhere(slot[w].obj)
    BY <1>1, <1>3, UnindexFacts DEF Elsewhere
  <2> QED BY <1>2, <2>1 DEF MapsMove, Own
<1>7. \A v \in Workers : IsMapped(v)' <=> v # w /\ IsMapped(v)
  BY <1>1, <1>3 DEF IsMapped, Detaches
<1>8. IndexOK /\ \A v \in Workers : slot[v] # Nil => slot[v].obj \in Objs /\ slot[v].ch \in Channels
  BY <1>1 DEF SlotsInv, Slots
<1>9. ASSUME NEW v \in Workers, IsMapped(v)' PROVE index'[slot'[v].obj][slot'[v].ch] = slot'[v].sid
  <2>1. v # w /\ IsMapped(v) /\ slot'[v] = slot[v]
    BY <1>3, <1>7, <1>9
  <2>2. slot[v].obj # slot[w].obj \/ slot[v].ch # slot[w].ch
    BY <1>8, <2>1 DEF IndexOK
  <2>3. index'[slot[v].obj][slot[v].ch] = index[slot[v].obj][slot[v].ch]
    BY <1>1, <1>8, <2>1, <2>2, UnindexFacts DEF IsMapped
  <2> QED BY <1>8, <2>1, <2>3 DEF IndexOK
<1>10. ASSUME NEW o \in Objs, NEW ch \in Channels, index'[o][ch] # 0
       PROVE  \E v \in Workers : IsMapped(v)' /\ slot'[v].obj = o /\ slot'[v].ch = ch
  <2>1. o # slot[w].obj \/ ch # slot[w].ch
    BY <1>1, <1>10, UnindexFacts
  <2>2. index[o][ch] # 0
    BY <1>1, <1>10, <2>1, UnindexFacts
  <2>3. PICK v \in Workers : IsMapped(v) /\ slot[v].obj = o /\ slot[v].ch = ch
    BY <1>8, <2>2 DEF IndexOK
  <2> QED BY <1>3, <1>7, <2>1, <2>3
<1>11. \A u, v \in Workers :
          IsMapped(u)' /\ IsMapped(v)' /\ slot'[u].obj = slot'[v].obj /\ slot'[u].ch = slot'[v].ch => u = v
  BY <1>3, <1>7, <1>8 DEF IndexOK
<1>12. IndexOK'
  BY <1>9, <1>10, <1>11 DEF IndexOK
<1> QED BY <1>1, <1>3, <1>4, <1>5, <1>6, <1>12, UnindexFacts

\* The thread that holds inst.mu takes the slot w of its struct out of the maps
\* and is r afterwards, at a place that follows no slot.
LEMMA RemoveStep ==
    ASSUME SlotsInv, NEW t \in Threads, NEW w \in Workers, NEW q, IsMapped(w), Detaches(q, slot[w]),
           Holds(th[t]), th[t].obj = slot[w].obj,
           slot' = [slot EXCEPT ![w] = q], index' = Unindex(index, w),
           NEW r \in ThreadRecs, th' = [th EXCEPT ![t] = r],
           MMove(t, r), IMove(t, r), SMove(t, r), KindOK(t, r),
           r.pc \notin SlotPcs, r.obj \in {Nil, th[t].obj}, r.todo \subseteq th[t].todo,
           r.pc \in {"create", "spawn"} => r.obj = slot[w].obj /\ r.ch = slot[w].ch,
           rows' \in Seq(Rows), RowsKept,
           UNCHANGED <<regVars, proc, closing, instRow, used>>
    PROVE  SlotsInv'
<1>1. /\ SlotsKept /\ MapsMove(t) /\ IndexOK'
      /\ slot' \in [Workers -> Slots \cup {Nil}] /\ index' \in [Objs -> [Channels -> Nat]]
      /\ \A v \in Workers : slot'[v] = Nil <=> slot[v] = Nil
      /\ index'[slot[w].obj][slot[w].ch] = 0
  BY RemoveMaps
<1>2. /\ registry' = registry /\ status' = status /\ proc' = proc /\ closing' = closing
      /\ instRow' = instRow /\ used' = used
  BY DEF regVars
<1>3. StatusKept /\ ProcsKept
  BY <1>2 DEF StatusKept, ProcsKept
<1>4. Basics'
  BY <1>1, <1>2 DEF SlotsInv, TypeOK, Basics
<1>5. /\ th \in [Threads -> ThreadRecs] /\ th[t] \in ThreadRecs /\ SlotRefs(th[t])
      /\ (t \in Callers \/ th[t].kind = "watch")
  BY SlotsFacts, WatcherKind DEF Holds
<1>6. th' \in [Threads -> ThreadRecs] /\ th'[t] = r /\ \A k \in Threads \ {t} : th'[k] = th[k]
  BY <1>5
<1>7. OthersStay(t)
  BY <1>6 DEF OthersStay
<1>8. r.pc # "register"
  BY DEF SlotPcs
<1>9. (\A v \in Workers : WorkerOK(v)') /\ Registering'
  BY <1>1, <1>3, <1>5, <1>8, WorkersKept
<1>10. \A v \in Workers : SlotOK(v)'
  <2> TAKE v \in Workers
  <2>1. CASE slot[v] = Nil
    BY <1>1, <2>1 DEF SlotOK
  <2>2. CASE slot[v] # Nil
    BY <1>1, <1>3, <2>2, SlotOKKept DEF SlotsKept
  <2> QED BY <2>1, <2>2
<1>11. ThreadOK(t, r)'
  <2>1. KindOK(t, r)'
    BY DEF KindOK
  <2>2. SlotRefs(r)'
    BY <1>1, <1>2, <1>5 DEF SlotRefs, SlotsKept, ThreadRecs
  <2>3. MapRefs(r)'
    BY <1>1 DEF MapRefs, SlotPcs
  <2> QED BY <2>1, <2>2, <2>3 DEF ThreadOK
<1> QED BY <1>1, <1>3, <1>4, <1>6, <1>7, <1>9, <1>10, <1>11, SlotsStep

LEMMA UnmapFields ==
    ASSUME NEW s \in Slots
    PROVE  /\ Detaches([s EXCEPT !.mapped = FALSE], s)
           /\ Detaches([s EXCEPT !.live = FALSE, !.mapped = FALSE], s)
BY DEF Slots, Detaches

LEMMA EnsureAliveInv ==
    ASSUME SlotsInv, NEW c \in Callers, EnsureAlive(c)
    PROVE  SlotsInv'
<1>1. c \in Threads /\ th[c].pc = "alive" /\ c \notin Workers /\ "spawn" \in Pcs /\ "acquire" \in Pcs
  BY SlotsAssumption DEF Threads, EnsureAlive, At, Pcs
<1>2. /\ th[c] \in ThreadRecs /\ th \in [Threads -> ThreadRecs]
      /\ KindOK(c, th[c]) /\ SlotRefs(th[c]) /\ MapRefs(th[c]) /\ slot \in [Workers -> Slots \cup {Nil}]
      /\ registry \in Objs \cup {Nil} /\ (registry # Nil => status[registry] # "none")
  BY <1>1, SlotsFacts
<1>3. PICK w \in Workers : w = th[c].slot
  BY <1>1, <1>2 DEF KindOK, SlotPcs
<1>4. /\ slot[w] \in Slots /\ IsMapped(w) /\ slot[w].obj = th[c].obj /\ slot[w].ch = th[c].ch
      /\ th[c].kind = "send" /\ th[c].obj \in Objs /\ Holds(th[c]) /\ ~HoldsM(th[c])
  BY <1>1, <1>2, <1>3 DEF KindOK, SlotRefs, MapRefs, SlotPcs, ObjPcs, IsMapped, Holds, HoldsM
<1>5. /\ UNCHANGED <<regVars, proc, closing, dbVars, used>> /\ mMu' = mMu /\ slotMu' = slotMu
      /\ registry' = registry /\ status' = status /\ rows' = rows /\ instRow' = instRow /\ used' = used
  BY DEF EnsureAlive, regVars, dbVars
<1>6. CASE slot[w].live
  <2>1. PICK n \in Nat : n = slot[w].sid
    BY <1>4 DEF Slots
  <2>2. PICK r : r = [th[c] EXCEPT !.pc = "acquire", !.sid = n]
    OBVIOUS
  <2>3. Moved(r, th[c], "acquire", th[c].obj, th[c].slot, th[c].todo)
    BY <1>1, <1>2, <2>2, PcSidFields
  <2>4. /\ th' = [th EXCEPT ![c] = r] /\ instMu' = [instMu EXCEPT ![th[c].obj] = Nil]
        /\ slot' = slot /\ index' = index
    BY <1>1, <1>2, <1>3, <1>6, <2>1, <2>2 DEF EnsureAlive
  <2>5. r \in ThreadRecs /\ HoldsNothing(r) /\ r.pc # "register"
    BY <2>3 DEF Moved, HoldsNothing, Holds, HoldsM
  <2>6. MMove(c, r) /\ IMove(c, r) /\ SMove(c, r)
    BY <1>1, <1>4, <1>5, <2>4, <2>5 DEF MMove, IMove, SMove, HoldsNothing
  <2>7. KindOK(c, r) /\ SlotRefs(r) /\ MapRefs(r)
    BY <1>1, <1>2, <2>3 DEF Moved, KindOK, SlotRefs, MapRefs, ObjPcs, SlotPcs
  <2>8. UNCHANGED <<status, slotVars, dbVars>> /\ used' \in [calls: Nat, deaths: Nat]
    BY <1>5, <2>4 DEF slotVars, SlotsInv, TypeOK
  <2> QED BY <1>1, <1>2, <1>5, <2>4, <2>5, <2>6, <2>7, <2>8, LockStep
<1>7. CASE ~slot[w].live
  <2>1. PICK r : r = [th[c] EXCEPT !.pc = "spawn"]
    OBVIOUS
  <2>2. Moved(r, th[c], "spawn", th[c].obj, th[c].slot, th[c].todo)
    BY <1>1, <1>2, <2>1, PcField
  <2>3. PICK q : q = [slot[w] EXCEPT !.mapped = FALSE]
    OBVIOUS
  <2>4. Detaches(q, slot[w])
    BY <1>4, <2>3, UnmapFields
  <2>5. /\ th' = [th EXCEPT ![c] = r] /\ slot' = [slot EXCEPT ![w] = q]
        /\ index' = Unindex(index, w) /\ instMu' = instMu
    BY <1>1, <1>2, <1>3, <1>7, <2>1, <2>3 DEF EnsureAlive, Goto, Unmap
  <2>6. /\ r \in ThreadRecs /\ r.pc = "spawn" /\ r.kind = "send" /\ r.obj = th[c].obj /\ r.ch = th[c].ch
        /\ r.todo = th[c].todo
    BY <1>4, <2>2 DEF Moved
  <2>7. MMove(c, r) /\ IMove(c, r) /\ SMove(c, r)
    BY <1>1, <1>4, <1>5, <2>5, <2>6 DEF MMove, IMove, SMove, Holds, HoldsM
  <2>8. KindOK(c, r) /\ r.pc \notin SlotPcs
    BY <1>1, <1>2, <1>4, <2>6 DEF KindOK, ObjPcs, SlotPcs
  <2>9. rows' \in Seq(Rows) /\ RowsKept /\ UNCHANGED <<regVars, proc, closing, instRow, used>>
    BY <1>5 DEF SlotsInv, TypeOK, RowsKept
  <2> QED BY <1>1, <1>4, <2>4, <2>5, <2>6, <2>7, <2>8, <2>9, RemoveStep
<1> QED BY <1>6, <1>7

LEMMA ClearDetachInv ==
    ASSUME SlotsInv, NEW c \in Callers, ClearDetach(c)
    PROVE  SlotsInv'
<1>1. c \in Threads /\ th[c].pc = "detachOld" /\ c \notin Workers /\ "create" \in Pcs
  BY SlotsAssumption DEF Threads, ClearDetach, At, Pcs
<1>2. /\ th[c] \in ThreadRecs /\ th \in [Threads -> ThreadRecs]
      /\ KindOK(c, th[c]) /\ SlotRefs(th[c]) /\ MapRefs(th[c]) /\ slot \in [Workers -> Slots \cup {Nil}]
  BY <1>1, SlotsFacts
<1>3. PICK w \in Workers : w = th[c].slot
  BY <1>1, <1>2 DEF KindOK, SlotPcs
<1>4. /\ slot[w] \in Slots /\ IsMapped(w) /\ slot[w].obj = th[c].obj /\ slot[w].ch = th[c].ch
      /\ th[c].obj \in Objs /\ Holds(th[c]) /\ ~HoldsM(th[c])
  BY <1>1, <1>2, <1>3 DEF KindOK, SlotRefs, MapRefs, SlotPcs, ObjPcs, IsMapped, Holds, HoldsM
<1>5. UNCHANGED <<regVars, proc, closing, instRow, used>> /\ mMu' = mMu /\ slotMu' = slotMu /\ instMu' = instMu
  BY DEF ClearDetach, lockVars
<1>6. PICK S \in SUBSET Workers : S = IF slot[w].live THEN {w} ELSE {}
  OBVIOUS
<1>7. PICK r : r = [th[c] EXCEPT !.pc = "create", !.handles = S]
  OBVIOUS
<1>8. Moved(r, th[c], "create", th[c].obj, th[c].slot, th[c].todo)
  BY <1>1, <1>2, <1>7, PcHandlesFields
<1>9. PICK q : q = [slot[w] EXCEPT !.live = FALSE, !.mapped = FALSE]
  OBVIOUS
<1>10. Detaches(q, slot[w])
  BY <1>4, <1>9, UnmapFields
<1>11. th' = [th EXCEPT ![c] = r]
  BY <1>1, <1>2, <1>3, <1>6, <1>7 DEF ClearDetach
<1>12. slot' = [slot EXCEPT ![w] = q] /\ index' = Unindex(index, w)
  BY <1>1, <1>2, <1>3, <1>9 DEF ClearDetach
<1>13. /\ r \in ThreadRecs /\ r.pc = "create" /\ r.obj = th[c].obj /\ r.ch = th[c].ch
       /\ r.todo = th[c].todo /\ r.kind = th[c].kind
  BY <1>8 DEF Moved
<1>14. MMove(c, r) /\ IMove(c, r) /\ SMove(c, r)
  BY <1>1, <1>4, <1>5, <1>13 DEF MMove, IMove, SMove, Holds, HoldsM
<1>15. KindOK(c, r) /\ r.pc \notin SlotPcs
  BY <1>1, <1>2, <1>4, <1>13 DEF KindOK, ObjPcs, SlotPcs
<1>16. rows' \in Seq(Rows) /\ RowsKept
  <2>1. rows \in Seq(Rows) /\ slot[w].sid \in DOMAIN rows
    BY <1>4 DEF SlotsInv, TypeOK, SlotOK, IsMapped
  <2>2. PICK n \in DOMAIN rows : n = slot[w].sid
    BY <2>1
  <2>3. rows[n] \in Rows
    BY <2>1, RowUpdates
  <2>4. PICK st \in {"stopped", "deleted"} : st = IF rows[n].status = "deleted" THEN rows[n].status ELSE "stopped"
    OBVIOUS
  <2>5. PICK x : x = [rows[n] EXCEPT !.status = st]
    OBVIOUS
  <2>6. x \in Rows /\ x.ch = rows[n].ch
    BY <2>3, <2>5 DEF Rows
  <2>7. rows' = [rows EXCEPT ![n] = x]
    BY <1>3, <2>1, <2>2, <2>3, <2>4, <2>5 DEF ClearDetach
  <2> QED BY <2>1, <2>6, <2>7, RowSet DEF RowsKept
<1> QED BY <1>1, <1>4, <1>5, <1>10, <1>11, <1>12, <1>13, <1>14, <1>15, <1>16, RemoveStep

LEMMA WatchCompareInv ==
    ASSUME SlotsInv, NEW w \in Workers, WatchCompare(w)
    PROVE  SlotsInv'
<1>1. w \in Threads /\ th[w].pc = "compare" /\ "die" \in Pcs
  BY DEF Threads, WatchCompare, At, Pcs
<1>2. /\ th[w] \in ThreadRecs /\ th \in [Threads -> ThreadRecs]
      /\ KindOK(w, th[w]) /\ SlotRefs(th[w]) /\ MapRefs(th[w]) /\ slot \in [Workers -> Slots \cup {Nil}]
  BY <1>1, SlotsFacts
<1>3. th[w].obj \in Objs /\ Holds(th[w]) /\ ~HoldsM(th[w])
  BY <1>1, <1>2 DEF KindOK, ObjPcs, Holds, HoldsM
<1>4. /\ UNCHANGED <<regVars, proc, closing, dbVars, used>> /\ mMu' = mMu /\ slotMu' = slotMu
      /\ rows' = rows /\ instRow' = instRow /\ instMu' = [instMu EXCEPT ![th[w].obj] = Nil]
  BY DEF WatchCompare, dbVars
<1>5. CASE Return(w) /\ slot' = slot /\ index' = index
  <2>1. MMove(w, Idle) /\ IMove(w, Idle) /\ SMove(w, Idle)
    BY <1>1, <1>3, <1>4, IdleOK DEF MMove, IMove, SMove, HoldsNothing
  <2>2. UNCHANGED <<regVars, slotVars, dbVars, used>>
    BY <1>4, <1>5 DEF slotVars
  <2> QED BY <1>1, <1>5, <2>1, <2>2, LockReturn
<1>6. CASE /\ th[w].slot = w /\ slot' = Unmap(slot, w) /\ index' = Unindex(index, w)
           /\ (Goto(w, "die") \/ Return(w))
  <2>1. slot[w] \in Slots /\ IsMapped(w) /\ slot[w].obj = th[w].obj
    BY <1>1, <1>2, <1>6 DEF SlotRefs, MapRefs, SlotPcs, IsMapped
  <2>2. PICK q : q = [slot[w] EXCEPT !.mapped = FALSE]
    OBVIOUS
  <2>3. Detaches(q, slot[w]) /\ slot' = [slot EXCEPT ![w] = q]
    BY <1>2, <1>6, <2>1, <2>2, UnmapFields DEF Unmap
  <2>4. ASSUME NEW r \in ThreadRecs, th' = [th EXCEPT ![w] = r], HoldsNothing(r), KindOK(w, r),
               r.pc \in {"idle", "die"}, r.obj \in {Nil, th[w].obj}, r.todo \subseteq th[w].todo
        PROVE  SlotsInv'
    <3>1. MMove(w, r) /\ IMove(w, r) /\ SMove(w, r)
      BY <1>1, <1>3, <1>4, <2>4 DEF MMove, IMove, SMove, HoldsNothing
    <3>2. rows' \in Seq(Rows) /\ RowsKept /\ UNCHANGED <<regVars, proc, closing, instRow, used>>
      BY <1>4 DEF SlotsInv, TypeOK, RowsKept
    <3>3. r.pc \notin SlotPcs /\ r.pc \notin {"create", "spawn"}
      BY <2>4 DEF SlotPcs
    <3> QED BY <1>1, <1>3, <1>6, <2>1, <2>3, <2>4, <3>1, <3>2, <3>3, RemoveStep
  <2>5. CASE Return(w)
    BY <1>1, <2>4, <2>5, IdleOK, IdleFields DEF Return
  <2>6. CASE Goto(w, "die")
    <3>1. PICK r : r = [th[w] EXCEPT !.pc = "die"]
      OBVIOUS
    <3>2. Moved(r, th[w], "die", th[w].obj, th[w].slot, th[w].todo)
      BY <1>1, <1>2, <3>1, PcField
    <3>3. r \in ThreadRecs /\ th' = [th EXCEPT ![w] = r]
      BY <1>2, <2>6, <3>1, <3>2 DEF Moved, Goto
    <3>4. KindOK(w, r) /\ HoldsNothing(r) /\ r.pc = "die" /\ r.obj = th[w].obj /\ r.todo = th[w].todo
      BY <1>1, <1>2, <3>2 DEF Moved, KindOK, HoldsNothing, Holds, HoldsM, ObjPcs, SlotPcs
    <3> QED BY <2>4, <3>3, <3>4
  <2> QED BY <1>6, <2>5, <2>6
<1> QED BY <1>5, <1>6 DEF WatchCompare

-----------------------------------------------------------------------------
(***************************************************************************)
(* The steps that make a session.                                          *)
(***************************************************************************)
LEMMA NewSlotFields ==
    ASSUME SlotsInv, NEW w \in Unspawned, NEW o \in Objs, NEW n \in Nat \ {0}, NEW ch \in Channels
    PROVE  /\ w \in Workers /\ slot[w] = Nil /\ th[w] = Idle
           /\ NewSlot(slot, w, o, n, ch) \in [Workers -> Slots \cup {Nil}]
           /\ NewSlot(slot, w, o, n, ch)[w]
                = [obj |-> o, sid |-> n, ch |-> ch, live |-> TRUE, mapped |-> TRUE]
           /\ \A v \in Workers : slot[v] # Nil /\ slot[v].obj = o /\ slot[v].sid = n =>
                Detaches(NewSlot(slot, w, o, n, ch)[v], slot[v])
           /\ \A v \in Workers : v # w /\ (slot[v] = Nil \/ slot[v].obj # o \/ slot[v].sid # n) =>
                NewSlot(slot, w, o, n, ch)[v] = slot[v]
<1>1. slot \in [Workers -> Slots \cup {Nil}] /\ w \in Workers /\ slot[w] = Nil /\ th[w] = Idle
  BY DEF Unspawned, SlotsInv, TypeOK, WorkerOK
<1> DEFINE new == [obj |-> o, sid |-> n, ch |-> ch, live |-> TRUE, mapped |-> TRUE]
           old(v) == [slot[v] EXCEPT !.mapped = FALSE]
<1>2. new \in Slots
  BY DEF Slots
<1>3. \A v \in Workers : slot[v] # Nil => Detaches(old(v), slot[v])
  BY <1>1, UnmapFields
<1>4. NewSlot(slot, w, o, n, ch) =
        [v \in Workers |-> IF v = w THEN new
                           ELSE IF slot[v] # Nil /\ slot[v].obj = o /\ slot[v].sid = n
                                THEN old(v) ELSE slot[v]]
  BY DEF NewSlot
<1>5. \A v \in Workers : slot[v] # Nil => old(v) \in Slots
  BY <1>3 DEF Detaches
<1> HIDE DEF new, old
<1>6. NewSlot(slot, w, o, n, ch) \in [Workers -> Slots \cup {Nil}]
  BY <1>1, <1>2, <1>4, <1>5
<1>7. /\ NewSlot(slot, w, o, n, ch)[w] = new
      /\ \A v \in Workers : slot[v] # Nil /\ slot[v].obj = o /\ slot[v].sid = n =>
           Detaches(NewSlot(slot, w, o, n, ch)[v], slot[v])
      /\ \A v \in Workers : v # w /\ (slot[v] = Nil \/ slot[v].obj # o \/ slot[v].sid # n) =>
           NewSlot(slot, w, o, n, ch)[v] = slot[v]
  BY <1>1, <1>3, <1>4
<1> QED BY <1>1, <1>6, <1>7 DEF new

\* A session of a channel that has none in the struct.
LEMMA AddMaps ==
    ASSUME SlotsInv, NEW t \in Threads, NEW w \in Unspawned, NEW o \in Objs, NEW n \in Nat \ {0},
           NEW ch \in Channels, index[o][ch] = 0, Own(t, o),
           slot' = NewSlot(slot, w, o, n, ch), index' = [index EXCEPT ![o][ch] = n],
           StatusKept, status'[o] # "none", RowsKept, n \in DOMAIN rows', rows'[n].ch = ch
    PROVE  /\ SlotsKept /\ MapsMove(t) /\ IndexOK' /\ (\A v \in Workers : SlotOK(v)')
           /\ slot' \in [Workers -> Slots \cup {Nil}] /\ index' \in [Objs -> [Channels -> Nat]]
           /\ slot'[w] # Nil /\ slot'[w].obj = o
           /\ \A v \in Workers \ {w} : slot'[v] = Nil <=> slot[v] = Nil
<1>1. /\ slot \in [Workers -> Slots \cup {Nil}] /\ Nil \notin Slots /\ index \in [Objs -> [Channels -> Nat]]
      /\ IndexOK /\ (\A v \in Workers : SlotOK(v))
  BY SlotsAssumption DEF SlotsInv, TypeOK
<1>2. \A v \in Workers : slot[v] # Nil => slot[v].obj \in Objs /\ slot[v].ch \in Channels /\ slot[v].sid \in Nat
  BY <1>1 DEF Slots
<1>3. /\ w \in Workers /\ slot[w] = Nil /\ slot' \in [Workers -> Slots \cup {Nil}]
      /\ slot'[w] = [obj |-> o, sid |-> n, ch |-> ch, live |-> TRUE, mapped |-> TRUE]
      /\ \A v \in Workers : slot[v] # Nil /\ slot[v].obj = o /\ slot[v].sid = n => Detaches(slot'[v], slot[v])
      /\ \A v \in Workers : v # w /\ (slot[v] = Nil \/ slot[v].obj # o \/ slot[v].sid # n) =>
           slot'[v] = slot[v]
  BY NewSlotFields
<1>4. slot'[w] # Nil /\ slot'[w].obj = o /\ slot'[w].ch = ch /\ slot'[w].sid = n /\ slot'[w].mapped
  <2>1. slot'[w].obj = o /\ slot'[w].ch = ch /\ slot'[w].sid = n /\ slot'[w].mapped
    BY <1>3
  <2>2. slot'[w] \in Slots
    BY <1>3 DEF Slots
  <2> QED BY <1>1, <2>1, <2>2
<1>5. \A v \in Workers \ {w} :
        /\ slot'[v] = Nil <=> slot[v] = Nil
        /\ slot[v] # Nil => /\ slot'[v].obj = slot[v].obj /\ slot'[v].ch = slot[v].ch
                            /\ slot'[v].sid = slot[v].sid
  BY <1>1, <1>3 DEF Detaches
<1>6. /\ index' \in [Objs -> [Channels -> Nat]] /\ index'[o][ch] = n
      /\ \A p \in Objs \ {o} : index'[p] = index[p]
      /\ \A p \in Objs, x \in Channels : p # o \/ x # ch => index'[p][x] = index[p][x]
  BY <1>1
<1>7. SlotsKept
  BY <1>3, <1>5 DEF SlotsKept
<1>8. ASSUME NEW v \in Workers, IsMapped(v) PROVE slot[v].obj # o \/ slot[v].ch # ch
  <2>1. index[slot[v].obj][slot[v].ch] = slot[v].sid /\ slot[v].sid # 0
    BY <1>1, <1>8 DEF IndexOK, IsMapped, Slots
  <2> QED BY <2>1
<1>9. ASSUME NEW v \in Workers, IsMapped(v) PROVE v # w /\ slot'[v] = slot[v]
  <2>1. v # w /\ slot[v] # Nil
    BY <1>3, <1>9 DEF IsMapped
  <2>2. slot[v].sid \in DOMAIN rows /\ rows[slot[v].sid].ch = slot[v].ch
    BY <1>1, <2>1 DEF SlotOK
  <2>3. slot[v].obj # o \/ slot[v].sid # n
    BY <1>8, <1>9, <2>2 DEF RowsKept
  <2> QED BY <1>3, <2>1, <2>3
<1>10. \A v \in Workers \ {w} : IsMapped(v)' <=> IsMapped(v)
  <2> TAKE v \in Workers \ {w}
  <2>1. CASE IsMapped(v)
    BY <1>9, <2>1 DEF IsMapped
  <2>2. CASE ~IsMapped(v)
    BY <1>3, <1>5, <2>2 DEF IsMapped, Detaches
  <2> QED BY <2>1, <2>2
<1>11. MapsMove(t)
  <2>1. Elsewhere(o)
    BY <1>3, <1>6 DEF Elsewhere
  <2> QED BY <2>1 DEF MapsMove
<1>12. \A v \in Workers : SlotOK(v)'
  <2> TAKE v \in Workers
  <2>1. CASE v = w
    BY <1>4, <2>1 DEF SlotOK
  <2>2. CASE v # w /\ slot[v] = Nil
    BY <1>5, <2>2 DEF SlotOK
  <2>3. CASE v # w /\ slot[v] # Nil
    BY <1>5, <2>3, SlotOKKept
  <2> QED BY <2>1, <2>2, <2>3
<1>13. ASSUME NEW v \in Workers, IsMapped(v)' PROVE index'[slot'[v].obj][slot'[v].ch] = slot'[v].sid
  <2>1. CASE v = w
    BY <1>4, <1>6, <2>1
  <2>2. CASE v # w
    <3>1. IsMapped(v) /\ slot'[v] = slot[v] /\ (slot[v].obj # o \/ slot[v].ch # ch)
      BY <1>8, <1>9, <1>10, <1>13, <2>2
    <3>2. index'[slot[v].obj][slot[v].ch] = index[slot[v].obj][slot[v].ch]
      BY <1>2, <1>6, <3>1 DEF IsMapped
    <3> QED BY <1>1, <3>1, <3>2 DEF IndexOK
  <2> QED BY <2>1, <2>2
<1>14. ASSUME NEW p \in Objs, NEW x \in Channels, index'[p][x] # 0
       PROVE  \E v \in Workers : IsMapped(v)' /\ slot'[v].obj = p /\ slot'[v].ch = x
  <2>1. CASE p = o /\ x = ch
    BY <1>3, <1>4, <2>1 DEF IsMapped
  <2>2. CASE p # o \/ x # ch
    <3>1. index[p][x] # 0
      BY <1>6, <1>14, <2>2
    <3>2. PICK v \in Workers : IsMapped(v) /\ slot[v].obj = p /\ slot[v].ch = x
      BY <1>1, <3>1 DEF IndexOK
    <3> QED BY <1>9, <1>10, <3>2
  <2> QED BY <2>1, <2>2
<1>15. ASSUME NEW u \in Workers, NEW v \in Workers, IsMapped(u)', IsMapped(v)',
              slot'[u].obj = slot'[v].obj, slot'[u].ch = slot'[v].ch
       PROVE  u = v
  <2>1. CASE u # w /\ v # w
    <3>1. IsMapped(u) /\ IsMapped(v) /\ slot'[u] = slot[u] /\ slot'[v] = slot[v]
      BY <1>9, <1>10, <1>15, <2>1
    <3> QED BY <1>1, <1>15, <3>1 DEF IndexOK
  <2>2. CASE u = w /\ v # w
    BY <1>4, <1>8, <1>9, <1>10, <1>15, <2>2
  <2>3. CASE u # w /\ v = w
    BY <1>4, <1>8, <1>9, <1>10, <1>15, <2>3
  <2> QED BY <2>1, <2>2, <2>3
<1>16. IndexOK'
  BY <1>13, <1>14, <1>15 DEF IndexOK
<1> QED BY <1>3, <1>4, <1>5, <1>6, <1>7, <1>11, <1>12, <1>16

\* The caller t makes it and is r afterwards; the worker's watcher runs, or t is
\* about to register the struct and to start it.
LEMMA AddStep ==
    ASSUME SlotsInv, NEW t \in Callers, NEW w \in Unspawned, NEW o \in Objs, NEW n \in Nat \ {0},
           NEW ch \in Channels, index[o][ch] = 0, Own(t, o),
           slot' = NewSlot(slot, w, o, n, ch), index' = [index EXCEPT ![o][ch] = n],
           proc' = [proc EXCEPT ![w] = "up"],
           StatusKept, status'[o] # "none", status' \in [Objs -> {"none", "running", "stopped"}],
           RowsKept, rows' \in Seq(Rows), n \in DOMAIN rows', rows'[n].ch = ch,
           closing' \in SUBSET Workers, instRow' \in BOOLEAN, used' = used, registry' = registry,
           NEW r \in ThreadRecs, th' \in [Threads -> ThreadRecs], th'[t] = r,
           \A k \in Threads \ {t, w} : th'[k] = th[k],
           \/ th'[w] = Watching /\ r.pc \in {"idle", "acquire"}
           \/ th'[w] = th[w] /\ r.pc = "register" /\ r.slot = w,
           KindOK(t, r), r.obj \in {Nil, th[t].obj}, r.todo \subseteq th[t].todo,
           MMove(t, r), IMove(t, r), SMove(t, r)
    PROVE  SlotsInv'
<1>1. /\ t \in Threads /\ t \notin Workers /\ w \in Workers /\ w \in Threads /\ t # w
      /\ slot[w] = Nil /\ th[w] = Idle
  BY SlotsAssumption DEF Threads, Unspawned, SlotsInv, WorkerOK
<1>2. /\ SlotsKept /\ MapsMove(t) /\ IndexOK' /\ (\A v \in Workers : SlotOK(v)')
      /\ slot' \in [Workers -> Slots \cup {Nil}] /\ index' \in [Objs -> [Channels -> Nat]]
      /\ slot'[w] # Nil /\ slot'[w].obj = o
      /\ \A v \in Workers \ {w} : slot'[v] = Nil <=> slot[v] = Nil
  BY <1>1, AddMaps
<1>3. th[t] \in ThreadRecs /\ SlotRefs(th[t])
  BY <1>1, SlotsFacts
<1>4. OthersStay(t)
  BY <1>1 DEF OthersStay, Woken
<1>5. Basics'
  BY <1>2 DEF SlotsInv, TypeOK, Basics, StatusKept
<1>6. proc'[w] = "up" /\ \A v \in Workers \ {w} : proc'[v] = proc[v]
  BY <1>1 DEF SlotsInv, TypeOK
<1>7. \A v \in Workers : WorkerOK(v)'
  <2> TAKE v \in Workers
  <2>1. CASE v = w
    BY <1>2, <1>6, <2>1 DEF WorkerOK
  <2>2. CASE v # w
    <3>1. WorkerOK(v) /\ th'[v] = th[v]
      BY <1>1, <2>2 DEF SlotsInv, Threads
    <3> QED BY <1>2, <1>6, <2>2, <3>1 DEF WorkerOK
  <2> QED BY <2>1, <2>2
<1>8. Registering'
  <2>1. Watching.pc # "register" /\ Idle.pc # "register"
    BY WatchingFields, IdleFields DEF Begun
  <2>2. ASSUME NEW k \in Threads \ {t}, th'[k].pc = "register"
        PROVE  /\ k # w /\ th'[k] = th[k] /\ th[k].slot \in Workers \ {w}
               /\ th[th[k].slot] = Idle /\ proc[th[k].slot] # "none"
    <3>1. k # w /\ th'[k] = th[k]
      BY <1>1, <2>1, <2>2
    <3>2. th[th[k].slot] = Idle /\ proc[th[k].slot] # "none"
      BY <2>2, <3>1 DEF SlotsInv, Registering
    <3>3. th[k].slot \in Workers
      BY <2>2, <3>1, SlotsFacts DEF KindOK, SlotPcs
    <3> QED BY <3>1, <3>2, <3>3 DEF Unspawned
  <2>3. r.pc = "register" => r.slot = w /\ th'[w] = Idle /\ proc'[w] # "none"
    BY <1>1, <1>6
  <2>4. ASSUME NEW c \in Threads, th'[c].pc = "register"
        PROVE  th'[th'[c].slot] = Idle /\ proc'[th'[c].slot] # "none"
    <3>1. CASE c = t
      BY <2>3, <2>4, <3>1
    <3>2. CASE c # t
      <4>1. th'[c] = th[c] /\ th[c].slot \in Workers \ {w} /\ th[th[c].slot] = Idle /\ proc[th[c].slot] # "none"
        BY <2>2, <2>4, <3>2
      <4>2. th'[th[c].slot] = th[th[c].slot]
        BY <1>1, <4>1 DEF Threads
      <4> QED BY <1>6, <4>1, <4>2
    <3> QED BY <3>1, <3>2
  <2>5. ASSUME NEW c \in Threads, NEW d \in Threads, th'[c].pc = "register", th'[d].pc = "register",
               th'[c].slot = th'[d].slot
        PROVE  c = d
    <3>1. CASE c # t /\ d # t
      BY <2>2, <2>5, <3>1 DEF SlotsInv, Registering
    <3>2. CASE c = t /\ d # t
      BY <2>2, <2>3, <2>5, <3>2
    <3>3. CASE c # t /\ d = t
      BY <2>2, <2>3, <2>5, <3>3
    <3> QED BY <3>1, <3>2, <3>3
  <2> QED BY <2>4, <2>5 DEF Registering
<1>9. ThreadOK(t, r)'
  <2>1. KindOK(t, r)'
    BY DEF KindOK
  <2>2. SlotRefs(r)'
    BY <1>1, <1>2, <1>3 DEF SlotRefs, SlotsKept, ThreadRecs, StatusKept, SlotPcs
  <2>3. MapRefs(r)'
    BY DEF MapRefs
  <2> QED BY <2>1, <2>2, <2>3 DEF ThreadOK
<1> QED BY <1>1, <1>2, <1>4, <1>5, <1>7, <1>8, <1>9, SlotsStep

\* The row a session is made with: one of its channel, or a new one.
LEMMA SessionRow ==
    ASSUME rows \in Seq(Rows), NEW n \in 1 .. Len(rows) + 1, NEW t \in Now, NEW ch \in Channels,
           \/ rows' = rows /\ n \in DOMAIN rows /\ rows[n].ch = ch
           \/ rows' = Insert(ch, t) /\ n = Len(rows) + 1
    PROVE  /\ rows' \in Seq(Rows) /\ RowsKept /\ n \in DOMAIN rows' /\ rows'[n].ch = ch
           /\ n \in Nat \ {0}
<1>1. t \in Nat /\ Len(rows) \in Nat /\ n \in Nat \ {0} /\ DOMAIN rows = 1 .. Len(rows)
  BY NowIsTime, RowUpdates
<1>2. CASE rows' = rows /\ n \in DOMAIN rows /\ rows[n].ch = ch
  BY <1>1, <1>2 DEF RowsKept
<1>3. CASE rows' = Insert(ch, t) /\ n = Len(rows) + 1
  <2>1. /\ rows' \in Seq(Rows) /\ Len(rows') = Len(rows) + 1 /\ rows'[n].ch = ch
        /\ \A k \in DOMAIN rows : rows'[k] = rows[k]
    BY <1>1, <1>3, RowUpdates
  <2>2. DOMAIN rows' = 1 .. Len(rows')
    BY <2>1
  <2> QED BY <1>1, <1>3, <2>1, <2>2 DEF RowsKept
<1> QED BY <1>2, <1>3

LEMMA NewRowOnly ==
    ASSUME rows \in Seq(Rows), NEW ch \in Channels,
           rows' = rows \/ \E t \in Now : rows' = Insert(ch, t)
    PROVE  rows' \in Seq(Rows) /\ RowsKept
<1>1. CASE rows' = rows
  BY <1>1 DEF RowsKept
<1>2. ASSUME NEW t \in Now, rows' = Insert(ch, t) PROVE rows' \in Seq(Rows) /\ RowsKept
  <2>1. Len(rows) + 1 \in 1 .. Len(rows) + 1
    BY RowUpdates
  <2> QED BY <1>2, <2>1, SessionRow
<1> QED BY <1>1, <1>2

\* The session was not made: inst.mu is given back, a row may be left.
LEMMA SpawnFails ==
    ASSUME SlotsInv, NEW c \in Callers, Holds(th[c]), ~HoldsM(th[c]), Return(c),
           instMu' = [instMu EXCEPT ![th[c].obj] = Nil],
           rows' \in Seq(Rows), RowsKept, closing' \in SUBSET Workers,
           UNCHANGED <<regVars, slot, index, proc, instRow, mMu, slotMu, used>>
    PROVE  SlotsInv'
<1>1. c \in Threads
  BY DEF Threads
<1>2. /\ registry' = registry /\ status' = status /\ slot' = slot /\ index' = index /\ proc' = proc
      /\ instRow' = instRow /\ mMu' = mMu /\ slotMu' = slotMu /\ used' = used
      /\ th' = [th EXCEPT ![c] = Idle]
  BY DEF regVars, Return
<1>3. StatusKept /\ SameSlots /\ ProcsKept
  BY <1>2 DEF StatusKept, SameSlots, ProcsKept
<1>4. Basics'
  BY <1>2 DEF SlotsInv, TypeOK, Basics
<1>5. MMove(c, Idle) /\ IMove(c, Idle)
  BY <1>2, WokenHoldsNothing DEF MMove, IMove
<1>6. SMove(c, Idle)
  BY <1>2, WokenHoldsNothing DEF SMove, Holds
<1>7. ThreadOK(c, Idle)'
  BY <1>1, IdleFields DEF ThreadOK, KindOK, SlotRefs, MapRefs, ObjPcs, SlotPcs, Idle
<1> QED BY <1>1, <1>2, <1>3, <1>4, <1>5, <1>6, <1>7, IdleFields, QuietStep

LEMMA EnsureSpawnInv ==
    ASSUME SlotsInv, NEW c \in Callers, EnsureSpawn(c)
    PROVE  SlotsInv'
<1>1. /\ c \in Threads /\ c \notin Workers /\ "acquire" \in Pcs
      /\ th[c].pc = "spawn" /\ th[c].kind = "send"
  BY SlotsAssumption DEF Threads, Pcs, EnsureSpawn, At
<1>2. /\ th[c] \in ThreadRecs /\ th \in [Threads -> ThreadRecs] /\ KindOK(c, th[c]) /\ MapRefs(th[c])
      /\ SlotRefs(th[c])
  BY <1>1, SlotsFacts
<1>3. /\ th[c].obj \in Objs /\ th[c].ch \in Channels /\ index[th[c].obj][th[c].ch] = 0
      /\ Holds(th[c]) /\ ~HoldsM(th[c]) /\ status[th[c].obj] # "none"
  BY <1>1, <1>2, SlotsAssumption DEF KindOK, MapRefs, SlotRefs, Holds, HoldsM
<1>4. /\ instMu' = [instMu EXCEPT ![th[c].obj] = Nil]
      /\ UNCHANGED <<regVars, closing, instRow, mMu, slotMu, used>>
      /\ registry' = registry /\ status' = status /\ closing' = closing /\ instRow' = instRow
      /\ mMu' = mMu /\ slotMu' = slotMu /\ used' = used
  BY DEF EnsureSpawn, regVars
<1>5. /\ rows \in Seq(Rows) /\ closing \in SUBSET Workers /\ instRow \in BOOLEAN
      /\ status \in [Objs -> {"none", "running", "stopped"}]
  BY DEF SlotsInv, TypeOK
<1>6. CASE /\ Return(c) /\ UNCHANGED <<index, slot, proc>>
           /\ rows' = rows \/ \E t \in Now : rows' = Insert(th[c].ch, t)
  <2>1. rows' \in Seq(Rows) /\ RowsKept
    BY <1>3, <1>5, <1>6, NewRowOnly
  <2>2. UNCHANGED <<regVars, slot, index, proc, instRow, mMu, slotMu, used>> /\ closing' \in SUBSET Workers
    BY <1>4, <1>5, <1>6
  <2> QED BY <1>3, <1>4, <1>6, <2>1, <2>2, SpawnFails
<1>7. ASSUME NEW n \in 1 .. Len(rows) + 1, NEW t \in Now, NEW w \in Unspawned,
             \/ n \in Resumable(th[c].ch) /\ rows' = rows
             \/ n = Len(rows) + 1 /\ rows' = Insert(th[c].ch, t),
             slot' = NewSlot(slot, w, th[c].obj, n, th[c].ch),
             index' = [index EXCEPT ![th[c].obj][th[c].ch] = n],
             proc' = [proc EXCEPT ![w] = "up"],
             th' = [th EXCEPT ![c].pc = "acquire", ![c].sid = n, ![w] = Watching]
      PROVE  SlotsInv'
  <2>1. n \in Resumable(th[c].ch) => n \in DOMAIN rows /\ rows[n].ch = th[c].ch
    BY DEF Resumable, LatestByChannel, Latest, Sids
  <2>2. /\ rows' \in Seq(Rows) /\ RowsKept /\ n \in DOMAIN rows' /\ rows'[n].ch = th[c].ch
        /\ n \in Nat \ {0}
    BY <1>3, <1>5, <1>7, <2>1, SessionRow
  <2>3. PICK r : r = [th[c] EXCEPT !.pc = "acquire", !.sid = n]
    OBVIOUS
  <2>4. Moved(r, th[c], "acquire", th[c].obj, th[c].slot, th[c].todo)
    BY <1>1, <1>2, <2>2, <2>3, PcSidFields
  <2>5. w \in Workers /\ w \in Threads /\ w # c /\ Watching \in ThreadRecs
    BY <1>1, WatchingFields DEF Unspawned, Threads, Begun
  <2>6. th' = [[th EXCEPT ![c] = r] EXCEPT ![w] = Watching]
    BY <1>1, <1>2, <1>7, <2>3, <2>5
  <2>7. r \in ThreadRecs
    BY <2>4 DEF Moved
  <2>8. /\ th' \in [Threads -> ThreadRecs] /\ th'[c] = r /\ th'[w] = Watching
        /\ \A k \in Threads \ {c, w} : th'[k] = th[k]
    BY <1>1, <1>2, <2>5, <2>6, <2>7
  <2>9. HoldsNothing(r) /\ r.pc = "acquire" /\ r.obj = th[c].obj /\ r.todo = th[c].todo
    BY <2>4 DEF Moved, HoldsNothing, Holds, HoldsM
  <2>10. MMove(c, r) /\ IMove(c, r) /\ SMove(c, r)
    BY <1>1, <1>3, <1>4, <2>9 DEF MMove, IMove, SMove, HoldsNothing
  <2>11. KindOK(c, r)
    BY <1>1, <1>2, <2>4 DEF Moved, KindOK, ObjPcs, SlotPcs
  <2>12. StatusKept /\ status'[th[c].obj] # "none" /\ Own(c, th[c].obj)
    BY <1>3, <1>4 DEF StatusKept, Own
  <2> QED BY <1>3, <1>4, <1>5, <1>7, <2>2, <2>7, <2>8, <2>9, <2>10, <2>11, <2>12, AddStep
<1> QED BY <1>6, <1>7 DEF EnsureSpawn

LEMMA ClearCreateInv ==
    ASSUME SlotsInv, NEW c \in Callers, ClearCreate(c)
    PROVE  SlotsInv'
<1>1. c \in Threads /\ c \notin Workers /\ th[c].pc = "create"
  BY SlotsAssumption DEF Threads, ClearCreate, At
<1>2. /\ th[c] \in ThreadRecs /\ th \in [Threads -> ThreadRecs] /\ KindOK(c, th[c]) /\ MapRefs(th[c])
      /\ SlotRefs(th[c])
  BY <1>1, SlotsFacts
<1>3. /\ th[c].obj \in Objs /\ th[c].ch \in Channels /\ index[th[c].obj][th[c].ch] = 0
      /\ Holds(th[c]) /\ ~HoldsM(th[c]) /\ status[th[c].obj] # "none" /\ th[c].handles \in SUBSET Workers
  BY <1>1, <1>2, SlotsAssumption DEF KindOK, MapRefs, SlotRefs, Holds, HoldsM, ObjPcs, ThreadRecs
<1>4. /\ instMu' = [instMu EXCEPT ![th[c].obj] = Nil]
      /\ UNCHANGED <<regVars, instRow, mMu, slotMu, used>>
      /\ registry' = registry /\ status' = status /\ instRow' = instRow
      /\ mMu' = mMu /\ slotMu' = slotMu /\ used' = used
  BY DEF ClearCreate, regVars
<1>5. /\ rows \in Seq(Rows) /\ instRow \in BOOLEAN /\ status \in [Objs -> {"none", "running", "stopped"}]
  BY DEF SlotsInv, TypeOK
<1>6. closing' \in SUBSET Workers
  <2>1. closing \in SUBSET Workers
    BY DEF SlotsInv, TypeOK
  <2>2. closing' = closing \/ closing' = closing \cup th[c].handles
    BY DEF ClearCreate
  <2> QED BY <1>3, <2>1, <2>2
<1>7. CASE /\ Return(c) /\ UNCHANGED <<slot, index, proc>>
           /\ rows' = rows \/ \E t \in Now : rows' = Insert(th[c].ch, t)
  <2>1. rows' \in Seq(Rows) /\ RowsKept
    BY <1>3, <1>5, <1>7, NewRowOnly
  <2>2. UNCHANGED <<regVars, slot, index, proc, instRow, mMu, slotMu, used>>
    BY <1>4, <1>7
  <2> QED BY <1>3, <1>4, <1>6, <1>7, <2>1, <2>2, SpawnFails
<1>8. ASSUME NEW t \in Now, NEW w \in Unspawned, rows' = Insert(th[c].ch, t),
             slot' = NewSlot(slot, w, th[c].obj, Len(rows) + 1, th[c].ch),
             index' = [index EXCEPT ![th[c].obj][th[c].ch] = Len(rows) + 1],
             proc' = [proc EXCEPT ![w] = "up"],
             th' = [th EXCEPT ![c] = Idle, ![w] = Watching]
      PROVE  SlotsInv'
  <2>1. PICK n \in 1 .. Len(rows) + 1 : n = Len(rows) + 1
    BY <1>5, RowUpdates
  <2>2. /\ rows' \in Seq(Rows) /\ RowsKept /\ n \in DOMAIN rows' /\ rows'[n].ch = th[c].ch
        /\ n \in Nat \ {0}
    BY <1>3, <1>5, <1>8, <2>1, SessionRow
  <2>3. w \in Workers /\ w \in Threads /\ w # c /\ Watching \in ThreadRecs
    BY <1>1, WatchingFields DEF Unspawned, Threads, Begun
  <2>4. /\ th' \in [Threads -> ThreadRecs] /\ th'[c] = Idle /\ th'[w] = Watching
        /\ \A k \in Threads \ {c, w} : th'[k] = th[k]
    BY <1>1, <1>2, <1>8, <2>3, IdleFields
  <2>5. /\ MMove(c, Idle) /\ IMove(c, Idle) /\ SMove(c, Idle) /\ KindOK(c, Idle)
        /\ Idle.pc = "idle" /\ Idle.obj = Nil /\ Idle.todo \subseteq th[c].todo /\ Idle \in ThreadRecs
    BY <1>1, <1>3, <1>4, IdleOK, IdleFields DEF MMove, IMove, SMove, HoldsNothing
  <2>6. StatusKept /\ status'[th[c].obj] # "none" /\ Own(c, th[c].obj)
    BY <1>3, <1>4 DEF StatusKept, Own
  <2>7. /\ slot' = NewSlot(slot, w, th[c].obj, n, th[c].ch)
        /\ index' = [index EXCEPT ![th[c].obj][th[c].ch] = n]
    BY <1>8, <2>1
  <2> QED BY <1>3, <1>4, <1>5, <1>6, <1>8, <2>2, <2>4, <2>5, <2>6, <2>7, AddStep
<1> QED BY <1>7, <1>8 DEF ClearCreate

\* What StartInstance does to the rows.
LEMMA StartRows ==
    ASSUME rows \in Seq(Rows), NEW n \in 1 .. Len(rows) + 1, NEW t \in Now, NEW ch \in Channels,
           \/ n \in LatestByInstance /\ ch = rows[n].ch
           \/ n = Len(rows) + 1,
           NEW kept, kept = IF n \in DOMAIN rows THEN WithDir(n) ELSE Insert(ch, t)
    PROVE  /\ rows' = kept => /\ rows' \in Seq(Rows) /\ RowsKept
                              /\ n \in DOMAIN rows' /\ rows'[n].ch = ch
           /\ rows' = [kept EXCEPT ![n].dir = FALSE] => rows' \in Seq(Rows) /\ RowsKept
           /\ n \in Nat \ {0}
<1>1. /\ t \in Nat /\ Len(rows) \in Nat /\ n \in Nat \ {0} /\ DOMAIN rows = 1 .. Len(rows)
      /\ \A k \in DOMAIN rows : rows[k] \in Rows
  BY NowIsTime, RowUpdates
<1>2. ASSUME NEW x \in Rows
      PROVE  /\ [x EXCEPT !.dir = TRUE] \in Rows /\ [x EXCEPT !.dir = TRUE].ch = x.ch
             /\ [x EXCEPT !.dir = FALSE] \in Rows /\ [x EXCEPT !.dir = FALSE].ch = x.ch
  BY DEF Rows
<1>3. /\ kept \in Seq(Rows) /\ n \in DOMAIN kept /\ kept[n].ch = ch
      /\ \A k \in DOMAIN rows : k \in DOMAIN kept /\ kept[k].ch = rows[k].ch
  <2>1. CASE n \in DOMAIN rows
    <3>1. kept = [rows EXCEPT ![n].dir = TRUE] /\ ch = rows[n].ch
      BY <1>1, <2>1 DEF WithDir
    <3>2. PICK x : x = [rows[n] EXCEPT !.dir = TRUE]
      OBVIOUS
    <3>3. x \in Rows /\ x.ch = rows[n].ch
      BY <1>1, <1>2, <2>1, <3>2
    <3>4. kept = [rows EXCEPT ![n] = x]
      BY <3>1, <3>2
    <3> QED BY <2>1, <3>1, <3>3, <3>4, RowSet
  <2>2. CASE n \notin DOMAIN rows
    <3>1. kept = Insert(ch, t) /\ n = Len(rows) + 1
      BY <1>1, <2>2
    <3>2. kept \in Seq(Rows) /\ Len(kept) = Len(rows) + 1 /\ kept[n].ch = ch /\ \A k \in DOMAIN rows : kept[k] = rows[k]
      BY <1>1, <3>1, RowUpdates
    <3>3. DOMAIN kept = 1 .. Len(kept)
      BY <3>2
    <3> QED BY <1>1, <3>1, <3>2, <3>3
  <2> QED BY <2>1, <2>2
<1>4. rows' = kept => rows' \in Seq(Rows) /\ RowsKept /\ n \in DOMAIN rows' /\ rows'[n].ch = ch
  BY <1>3 DEF RowsKept
<1>5. rows' = [kept EXCEPT ![n].dir = FALSE] => rows' \in Seq(Rows) /\ RowsKept
  <2>1. PICK x : x = [kept[n] EXCEPT !.dir = FALSE]
    OBVIOUS
  <2>2. kept[n] \in Rows
    BY <1>3
  <2>3. x \in Rows /\ x.ch = kept[n].ch
    BY <1>2, <2>1, <2>2
  <2>4. [kept EXCEPT ![n].dir = FALSE] = [kept EXCEPT ![n] = x]
    BY <2>1
  <2>5. PICK q : q = [kept EXCEPT ![n] = x]
    OBVIOUS
  <2>6. /\ q \in Seq(Rows) /\ DOMAIN q = DOMAIN kept /\ q[n] = x
        /\ \A k \in DOMAIN kept : k # n => q[k] = kept[k]
    BY <1>3, <2>3, <2>5, RowSet
  <2>7. \A k \in DOMAIN rows : k \in DOMAIN q /\ q[k].ch = rows[k].ch
    BY <1>3, <2>3, <2>6
  <2> QED BY <2>4, <2>5, <2>6, <2>7, ZenonT(30) DEF RowsKept
<1> QED BY <1>1, <1>4, <1>5

LEMMA StartSpawnInv ==
    ASSUME SlotsInv, NEW c \in Callers, StartSpawn(c)
    PROVE  SlotsInv'
<1>1. /\ c \in Threads /\ c \notin Workers /\ "register" \in Pcs /\ "reregister" \in Pcs
      /\ th[c].pc = "spawn" /\ th[c].kind = "start"
  BY SlotsAssumption DEF Threads, Pcs, StartSpawn, At
<1>2. th[c] \in ThreadRecs /\ th \in [Threads -> ThreadRecs] /\ KindOK(c, th[c]) /\ SlotRefs(th[c])
  BY <1>1, SlotsFacts
<1>3. HoldsNothing(th[c]) /\ th[c].obj \in Objs
  BY <1>1, <1>2 DEF HoldsNothing, Holds, HoldsM, KindOK
<1>4. /\ rows \in Seq(Rows) /\ status \in [Objs -> {"none", "running", "stopped"}]
      /\ closing \in SUBSET Workers /\ instRow \in BOOLEAN /\ index \in [Objs -> [Channels -> Nat]]
  BY DEF SlotsInv, TypeOK
<1>5. /\ registry' = registry /\ closing' = closing /\ used' = used
      /\ mMu' = mMu /\ instMu' = instMu /\ slotMu' = slotMu
  BY DEF StartSpawn, lockVars
<1>6. PICK n \in 1 .. Len(rows) + 1, ch \in Channels, t \in Now :
         /\ \/ n \in LatestByInstance /\ ch = rows[n].ch
            \/ n = Len(rows) + 1
         /\ LET kept == IF n \in DOMAIN rows THEN WithDir(n) ELSE Insert(ch, t) IN
            \/ \E o \in Unused, w \in Unspawned :
                 /\ rows' = kept /\ instRow' = TRUE
                 /\ status' = [status EXCEPT ![o] = "running"]
                 /\ slot' = NewSlot(slot, w, o, n, ch)
                 /\ index' = [index EXCEPT ![o][ch] = n]
                 /\ proc' = [proc EXCEPT ![w] = "up"]
                 /\ th' = [th EXCEPT ![c].pc = "register", ![c].slot = w]
            \/ /\ \/ rows' = rows /\ instRow' = instRow
                  \/ rows' = kept /\ instRow' = TRUE
                  \/ rows' = [kept EXCEPT ![n].dir = FALSE] /\ instRow' = TRUE
               /\ Goto(c, "reregister")
               /\ UNCHANGED <<status, slot, index, proc>>
  BY DEF StartSpawn, dbVars
<1>7. PICK kept : kept = IF n \in DOMAIN rows THEN WithDir(n) ELSE Insert(ch, t)
  OBVIOUS
<1>8. /\ rows' = kept => /\ rows' \in Seq(Rows) /\ RowsKept
                         /\ n \in DOMAIN rows' /\ rows'[n].ch = ch
      /\ rows' = [kept EXCEPT ![n].dir = FALSE] => rows' \in Seq(Rows) /\ RowsKept
      /\ n \in Nat \ {0}
  BY <1>4, <1>6, <1>7, StartRows
<1>9. ASSUME NEW o \in Unused, NEW w \in Unspawned,
             rows' = kept, instRow' = TRUE, status' = [status EXCEPT ![o] = "running"],
             slot' = NewSlot(slot, w, o, n, ch), index' = [index EXCEPT ![o][ch] = n],
             proc' = [proc EXCEPT ![w] = "up"],
             th' = [th EXCEPT ![c].pc = "register", ![c].slot = w]
      PROVE  SlotsInv'
  <2>1. o \in Objs /\ status[o] = "none" /\ w \in Workers /\ w # c /\ w \in Threads
    BY <1>1 DEF Unused, Unspawned, Threads
  <2>2. index[o][ch] = 0
    <3>1. SUFFICES ASSUME index[o][ch] # 0 PROVE FALSE
      OBVIOUS
    <3>2. PICK v \in Workers : IsMapped(v) /\ slot[v].obj = o
      BY <2>1, <3>1 DEF SlotsInv, IndexOK
    <3> QED BY <2>1, <3>2 DEF SlotsInv, SlotOK, IsMapped
  <2>3. PICK r : r = [th[c] EXCEPT !.pc = "register", !.slot = w]
    OBVIOUS
  <2>4. Moved(r, th[c], "register", th[c].obj, w, th[c].todo)
    BY <1>1, <1>2, <2>1, <2>3, PcSlotFields
  <2>5. th' = [th EXCEPT ![c] = r] /\ r \in ThreadRecs
    BY <1>1, <1>2, <1>9, <2>3, <2>4 DEF Moved
  <2>6. /\ th' \in [Threads -> ThreadRecs] /\ th'[c] = r /\ th'[w] = th[w]
        /\ \A k \in Threads \ {c, w} : th'[k] = th[k]
    BY <1>1, <1>2, <2>1, <2>5
  <2>7. HoldsNothing(r) /\ r.pc = "register" /\ r.obj = th[c].obj /\ r.todo = th[c].todo /\ r.slot = w
    BY <2>4 DEF Moved, HoldsNothing, Holds, HoldsM
  <2>8. MMove(c, r) /\ IMove(c, r) /\ SMove(c, r)
    BY <1>3, <1>5, <2>7 DEF MMove, IMove, SMove, HoldsNothing
  <2>9. KindOK(c, r)
    BY <1>1, <1>2, <2>1, <2>4 DEF Moved, KindOK, ObjPcs, SlotPcs
  <2>10. StatusKept /\ status'[o] # "none" /\ status' \in [Objs -> {"none", "running", "stopped"}] /\ Own(c, o)
    BY <1>4, <1>9, <2>1 DEF StatusKept, Own
  <2>11. closing' \in SUBSET Workers /\ instRow' \in BOOLEAN
    BY <1>4, <1>5, <1>9
  <2> QED BY <1>5, <1>8, <1>9, <2>1, <2>2, <2>5, <2>6, <2>7, <2>8, <2>9, <2>10, <2>11, AddStep
<1>10. CASE /\ \/ rows' = rows /\ instRow' = instRow
               \/ rows' = kept /\ instRow' = TRUE
               \/ rows' = [kept EXCEPT ![n].dir = FALSE] /\ instRow' = TRUE
            /\ Goto(c, "reregister")
            /\ UNCHANGED <<status, slot, index, proc>>
  <2>1. rows' \in Seq(Rows) /\ RowsKept /\ instRow' \in BOOLEAN
    <3>1. rows' = rows => RowsKept
      BY DEF RowsKept
    <3> QED BY <1>4, <1>8, <1>10, <3>1
  <2>2. PICK r : r = [th[c] EXCEPT !.pc = "reregister"]
    OBVIOUS
  <2>3. Moved(r, th[c], "reregister", th[c].obj, th[c].slot, th[c].todo)
    BY <1>1, <1>2, <2>2, PcField
  <2>4. th' = [th EXCEPT ![c] = r] /\ r \in ThreadRecs
    BY <1>1, <1>2, <1>10, <2>2, <2>3 DEF Moved, Goto
  <2>5. /\ registry' = registry /\ status' = status /\ slot' = slot /\ index' = index /\ proc' = proc
        /\ closing' = closing /\ used' = used
    BY <1>5, <1>10
  <2>6. StatusKept /\ SameSlots /\ ProcsKept
    BY <2>5 DEF StatusKept, SameSlots, ProcsKept
  <2>7. Basics'
    BY <2>1, <2>5 DEF SlotsInv, TypeOK, Basics
  <2>8. HoldsNothing(r) /\ r.pc # "register"
    BY <2>3 DEF Moved, HoldsNothing, Holds, HoldsM
  <2>9. MMove(c, r) /\ IMove(c, r) /\ SMove(c, r)
    BY <1>3, <1>5, <2>8 DEF MMove, IMove, SMove, HoldsNothing
  <2>10. KindOK(c, r) /\ SlotRefs(r) /\ MapRefs(r)
    BY <1>1, <1>2, <1>3, <2>3 DEF Moved, KindOK, SlotRefs, MapRefs, ObjPcs, SlotPcs
  <2>11. ThreadOK(c, r)'
    BY <2>5, <2>10 DEF ThreadOK, KindOK, SlotRefs, MapRefs
  <2> QED BY <1>1, <2>1, <2>4, <2>6, <2>7, <2>8, <2>9, <2>11, QuietStep
<1> QED BY <1>6, <1>7, <1>9, <1>10

LEMMA StartRegisterInv ==
    ASSUME SlotsInv, NEW c \in Callers, StartRegister(c)
    PROVE  SlotsInv'
<1>1. c \in Threads /\ c \notin Workers /\ th[c].pc = "register"
  BY SlotsAssumption DEF Threads, StartRegister, At
<1>2. th[c] \in ThreadRecs /\ th \in [Threads -> ThreadRecs] /\ KindOK(c, th[c]) /\ SlotRefs(th[c])
  BY <1>1, SlotsFacts
<1>3. PICK w \in Workers : w = th[c].slot
  BY <1>1, <1>2 DEF KindOK, SlotPcs
<1>4. slot[w] # Nil /\ th[w] = Idle /\ proc[w] # "none" /\ w \in Threads /\ w # c
  BY <1>1, <1>2, <1>3 DEF SlotRefs, SlotPcs, SlotsInv, Registering, Threads
<1>5. slot[w].obj \in Objs /\ status[slot[w].obj] # "none"
  BY <1>4 DEF SlotsInv, TypeOK, SlotOK, Slots
<1>6. /\ registry' = slot[w].obj /\ th' = [th EXCEPT ![c] = Idle, ![w] = Watching]
      /\ status' = status /\ index' = index /\ slot' = slot /\ proc' = proc /\ closing' = closing
      /\ rows' = rows /\ instRow' = instRow /\ mMu' = mMu /\ instMu' = instMu /\ slotMu' = slotMu
      /\ used' = used
  BY <1>3 DEF StartRegister, slotVars, dbVars, lockVars
<1>7. Watching \in ThreadRecs /\ Watching.pc # "register" /\ Idle \in ThreadRecs /\ Idle.pc # "register"
  BY WatchingFields, IdleFields DEF Begun
<1>8. /\ th' \in [Threads -> ThreadRecs] /\ th'[c] = Idle /\ th'[w] = Watching
      /\ \A k \in Threads \ {c, w} : th'[k] = th[k]
  BY <1>1, <1>2, <1>4, <1>6, <1>7
<1>9. OthersStay(c)
  BY <1>4, <1>8 DEF OthersStay, Woken
<1>10. HoldsNothing(th[c])
  BY <1>1, GetHolds
<1>11. MMove(c, Idle) /\ IMove(c, Idle) /\ SMove(c, Idle)
  BY <1>1, <1>6, <1>10, IdleOK DEF MMove, IMove, SMove, HoldsNothing
<1>12. StatusKept /\ SlotsKept /\ MapsMove(c)
  BY <1>6 DEF StatusKept, SlotsKept, MapsMove, MapsStay
<1>13. Basics'
  BY <1>5, <1>6 DEF SlotsInv, TypeOK, Basics
<1>14. ThreadOK(c, Idle)'
  BY <1>1, IdleFields DEF ThreadOK, KindOK, SlotRefs, MapRefs, ObjPcs, SlotPcs, Idle
<1>15. \A v \in Workers : WorkerOK(v)' /\ SlotOK(v)'
  <2> TAKE v \in Workers
  <2>1. SlotOK(v)' /\ WorkerOK(v)
    BY <1>6 DEF SlotsInv, SlotOK
  <2>2. CASE v = w
    BY <1>4, <1>6, <2>1, <2>2 DEF WorkerOK
  <2>3. CASE v # w
    <3>1. th'[v] = th[v]
      BY <1>1, <1>8, <2>3 DEF Threads
    <3> QED BY <1>6, <2>1, <3>1 DEF WorkerOK
  <2> QED BY <2>2, <2>3
<1>16. Registering'
  <2>1. ASSUME NEW k \in Threads, th'[k].pc = "register"
        PROVE  /\ th'[k] = th[k] /\ th[k].slot \in Workers \ {w} /\ k # c
               /\ th[th[k].slot] = Idle /\ proc[th[k].slot] # "none"
    <3>1. th'[k] = th[k] /\ k # c
      BY <1>7, <1>8, <2>1
    <3>2. th[th[k].slot] = Idle /\ proc[th[k].slot] # "none" /\ th[k].slot # w
      BY <1>1, <1>3, <2>1, <3>1 DEF SlotsInv, Registering
    <3>3. th[k].slot \in Workers
      BY <2>1, <3>1, SlotsFacts DEF KindOK, SlotPcs
    <3> QED BY <3>1, <3>2, <3>3
  <2>2. ASSUME NEW k \in Threads, th'[k].pc = "register"
        PROVE  th'[th'[k].slot] = Idle /\ proc'[th'[k].slot] # "none"
    <3>1. th'[th[k].slot] = th[th[k].slot]
      BY <1>1, <1>8, <2>1, <2>2 DEF Threads
    <3> QED BY <1>6, <2>1, <2>2, <3>1
  <2>3. ASSUME NEW k \in Threads, NEW d \in Threads, th'[k].pc = "register", th'[d].pc = "register",
               th'[k].slot = th'[d].slot
        PROVE  k = d
    BY <2>1, <2>3 DEF SlotsInv, Registering
  <2> QED BY <2>2, <2>3 DEF Registering
<1>17. IndexOK'
  BY <1>6 DEF SlotsInv, IndexOK, IsMapped
<1> QED BY <1>1, <1>8, <1>9, <1>11, <1>12, <1>13, <1>14, <1>15, <1>16, <1>17, SlotsStep

-----------------------------------------------------------------------------
(***************************************************************************)
(* The theorems.                                                           *)
(***************************************************************************)
LEMMA SlotsInvNext == SlotsInv /\ [Next]_vars => SlotsInv'
<1> SUFFICES ASSUME SlotsInv, [Next]_vars PROVE SlotsInv'
  OBVIOUS
<1>1. ASSUME NEW c \in Callers, CallStep(c) PROVE SlotsInv'
  <2>1. c \in Threads
    BY DEF Threads
  <2>2. CASE SendStep(c)
    BY <2>2, EnsureLockInv, EnsureAliveInv, EnsureSpawnInv, AcquireGetInv, AcquireLookupInv,
       AcquireSlotInv, ChatEndsInv DEF SendStep
  <2>3. CASE ClearStep(c)
    BY <2>3, ClearLockInv, ClearDetachInv, ClearCreateInv DEF ClearStep
  <2>4. CASE StopStep(c) \/ DeleteStep(c)
    BY <2>4, StopGetInv, StopLockInv, ShutdownInv, DeleteGetInv, DeleteLockInv, DropRowsInv
       DEF StopStep, DeleteStep
  <2>5. CASE StartStep(c)
    BY <2>5, StartGetInv, StartUnregisterInv, StartSpawnInv, StartRegisterInv, ReregisterInv DEF StartStep
  <2>6. CASE DetachStep(c)
    BY <2>1, <2>6, InstLockInv, DetachSlotInv, DetachedInv DEF DetachStep
  <2> QED BY <1>1, <2>2, <2>3, <2>4, <2>5, <2>6, GetInstanceInv DEF CallStep
<1>2. ASSUME NEW w \in Workers, WatchStep(w) PROVE SlotsInv'
  <2>1. w \in Threads
    BY DEF Threads
  <2>2. CASE DetachStep(w)
    BY <2>1, <2>2, InstLockInv, DetachSlotInv, DetachedInv DEF DetachStep
  <2> QED BY <1>2, <2>2, WatchFindInv, WatchExamineInv, WatchCompareInv, DeathGetInv, DeathLockInv
          DEF WatchStep
<1>3. CASE UNCHANGED vars
  <2>1. /\ registry' = registry /\ status' = status /\ index' = index /\ slot' = slot /\ proc' = proc
        /\ closing' = closing /\ rows' = rows /\ instRow' = instRow /\ mMu' = mMu /\ instMu' = instMu
        /\ slotMu' = slotMu /\ used' = used /\ th' = th
    BY <1>3 DEF vars, regVars, slotVars, dbVars, lockVars
  <2>2. MLock' /\ ILock' /\ SLock' /\ TypeOK'
    BY <2>1 DEF SlotsInv, MLock, ILock, SLock, Holds, HoldsM, TypeOK, PointersOK
  <2>3. \A t \in Threads : ThreadOK(t, th[t])'
    BY <2>1 DEF SlotsInv, ThreadOK, KindOK, SlotRefs, MapRefs
  <2>4. (\A w \in Workers : WorkerOK(w)' /\ SlotOK(w)') /\ Registering' /\ IndexOK'
    BY <2>1 DEF SlotsInv, WorkerOK, SlotOK, Registering, IndexOK, IsMapped
  <2> QED BY <2>1, <2>2, <2>3, <2>4 DEF SlotsInv
<1> QED BY <1>1, <1>2, <1>3, CallInv, WorkerDiesInv DEF Next

LEMMA SlotsInvInit == Init => SlotsInv
<1> SUFFICES ASSUME Init PROVE SlotsInv
  OBVIOUS
<1>1. PICK s : s = [obj |-> Obj0, sid |-> 1, ch |-> Channel0, live |-> TRUE, mapped |-> TRUE]
  OBVIOUS
<1>a. Obj0 \in Objs /\ Channel0 \in Channels /\ Nil \notin Slots
  BY SlotsAssumption
<1>b. s \in Slots /\ s.obj = Obj0 /\ s.sid = 1 /\ s.ch = Channel0 /\ s.mapped
  BY <1>1, <1>a DEF Slots
<1>2. s \in Slots /\ s.obj = Obj0 /\ s.sid = 1 /\ s.ch = Channel0 /\ s.mapped /\ s # Nil
  BY <1>a, <1>b
<1>3. PICK r \in Rows : r = [ch |-> Channel0, status |-> "running", at |-> 0, dir |-> TRUE] /\ r.ch = Channel0
  <2>1. PICK r : r = [ch |-> Channel0, status |-> "running", at |-> 0, dir |-> TRUE]
    OBVIOUS
  <2>2. r \in Rows /\ r.ch = Channel0
    BY <1>a, <2>1 DEF Rows
  <2> QED BY <2>1, <2>2
<1>4. rows = <<r>> /\ rows \in Seq(Rows) /\ DOMAIN rows = {1} /\ rows[1] = r
  BY <1>3 DEF Init
<1>5. slot = [w \in Workers |-> IF w = Worker0 THEN s ELSE Nil]
  BY <1>1 DEF Init
<1>6. slot \in [Workers -> Slots \cup {Nil}] /\ \A w \in Workers : slot[w] # Nil <=> w = Worker0
  BY <1>2, <1>5
<1>7. slot[Worker0] = s /\ Worker0 \in Workers /\ Worker0 \notin Callers
  BY <1>5, SlotsAssumption
<1>8. Watching \in ThreadRecs /\ Idle \in ThreadRecs
  BY WatchingFields, IdleFields DEF Begun
<1>9. th \in [Threads -> ThreadRecs] /\ th[Worker0] = Watching /\ \A t \in Threads : t # Worker0 => th[t] = Idle
  BY <1>7, <1>8 DEF Init, Threads
<1>10. /\ ~Holds(Idle) /\ ~Holds(Watching) /\ ~HoldsM(Idle) /\ ~HoldsM(Watching)
       /\ Idle.pc = "idle" /\ Watching.pc = "wait" /\ Idle.kind = "idle" /\ Watching.kind = "watch"
       /\ Idle.obj = Nil /\ Watching.obj = Nil /\ Idle.todo = {} /\ Watching.todo = {}
  BY WokenHoldsNothing, WatchingFields, IdleFields DEF Begun
<1>11. \A t \in Threads : ThreadOK(t, th[t])
  <2> TAKE t \in Threads
  <2>1. CASE t = Worker0
    BY <1>7, <1>9, <1>10, <2>1 DEF ThreadOK, KindOK, SlotRefs, MapRefs, ObjPcs, SlotPcs
  <2>2. CASE t # Worker0
    BY <1>9, <1>10, <2>2 DEF ThreadOK, KindOK, SlotRefs, MapRefs, ObjPcs, SlotPcs
  <2> QED BY <2>1, <2>2
<1>12. PointersOK
  BY <1>11 DEF PointersOK, ThreadOK, KindOK, SlotRefs
<1>13. /\ registry = Obj0 /\ status = [o \in Objs |-> IF o = Obj0 THEN "running" ELSE "none"]
       /\ index = [o \in Objs |-> [ch \in Channels |-> IF o = Obj0 /\ ch = Channel0 THEN 1 ELSE 0]]
       /\ proc = [w \in Workers |-> IF w = Worker0 THEN "up" ELSE "none"] /\ closing = {} /\ instRow = TRUE
       /\ mMu = Nil /\ instMu = [o \in Objs |-> Nil] /\ slotMu = [w \in Workers |-> Nil]
       /\ used = [calls |-> 0, deaths |-> 0]
  BY DEF Init
<1>14. index \in [Objs -> [Channels -> Nat]] /\ index[Obj0][Channel0] = 1
       /\ \A o \in Objs, ch \in Channels : index[o][ch] # 0 => o = Obj0 /\ ch = Channel0
  BY <1>13, SlotsAssumption
<1>15. TypeOK
  <2>1. registry \in Objs \cup {Nil} /\ status \in [Objs -> {"none", "running", "stopped"}]
    BY <1>13, SlotsAssumption
  <2>2. proc \in [Workers -> {"none", "up", "dead"}] /\ closing \in SUBSET Workers /\ instRow \in BOOLEAN
    BY <1>13
  <2>3. /\ mMu \in Threads \cup {Nil} /\ instMu \in [Objs -> Threads \cup {Nil}]
        /\ slotMu \in [Workers -> Callers \cup {Nil}] /\ used \in [calls: Nat, deaths: Nat]
    BY <1>13
  <2> QED BY <1>4, <1>6, <1>9, <1>12, <1>14, <2>1, <2>2, <2>3 DEF TypeOK
<1>16. MLock /\ ILock /\ SLock
  <2>1. \A t \in Threads : ~HoldsM(th[t]) /\ ~Holds(th[t]) /\ th[t].pc # "chat" /\ t # Nil
    BY <1>9, <1>10, SlotsAssumption
  <2> QED BY <1>13, <2>1 DEF MLock, ILock, SLock
<1>17. \A w \in Workers : WorkerOK(w) /\ SlotOK(w)
  <2> TAKE w \in Workers
  <2>1. CASE w = Worker0
    BY <1>2, <1>3, <1>4, <1>7, <1>13, <2>1, SlotsAssumption DEF WorkerOK, SlotOK
  <2>2. CASE w # Worker0
    BY <1>6, <1>9, <1>10, <2>2 DEF WorkerOK, SlotOK, Threads
  <2> QED BY <2>1, <2>2
<1>18. Registering /\ (registry # Nil => status[registry] # "none")
  <2>1. \A t \in Threads : th[t].pc # "register"
    BY <1>9, <1>10
  <2> QED BY <1>13, <2>1, SlotsAssumption DEF Registering
<1>19. IndexOK
  BY <1>2, <1>6, <1>7, <1>14 DEF IndexOK, IsMapped
<1> QED BY <1>11, <1>15, <1>16, <1>17, <1>18, <1>19 DEF SlotsInv

LEMMA SlotsInvAlways == Spec => []SlotsInv
BY SlotsInvInit, SlotsInvNext, PTL DEF Spec

\* Every state is well typed, and no thread ever follows a nil struct or slot
\* pointer, whatever stops, starts, deletes and deaths happen between its
\* lookups and its uses (getInstance, slotByChannel, acquireSlot, removeSlot).
THEOREM SessionsTypeCorrect == Spec => []TypeOK
<1>1. SlotsInv => TypeOK
  BY DEF SlotsInv
<1> QED BY <1>1, SlotsInvAlways, PTL

\* The two maps of a struct, sessions and channelIndex, always agree: a mapped
\* slot is the one its channel leads to, and no channel leads nowhere.  They are
\* changed in several places (createSessionSlot, detachChannelSlot, removeSlot of
\* a dead worker), each under inst.mu, by threads that looked before.
THEOREM MapsStayConsistent == Spec => []IndexConsistent
<1>1. SlotsInv => IndexConsistent
  <2> SUFFICES ASSUME SlotsInv, NEW o \in Objs
               PROVE  /\ \A w \in Mapped(o) : SlotByChannel(o, slot[w].ch) = {w}
                      /\ \A ch \in Channels : index[o][ch] # 0 => SlotByChannel(o, ch) # {}
    BY DEF IndexConsistent
  <2>1. ASSUME NEW w \in Mapped(o) PROVE SlotByChannel(o, slot[w].ch) = {w}
    <3>1. w \in Workers /\ IsMapped(w) /\ slot[w].obj = o
      BY DEF Mapped, IsMapped
    <3>2. slot[w].ch \in Channels
      BY <3>1 DEF SlotsInv, TypeOK, IsMapped, Slots
    <3>3. index[o][slot[w].ch] = slot[w].sid
      BY <3>1 DEF SlotsInv, IndexOK
    <3>4. w \in SlotByChannel(o, slot[w].ch)
      BY <3>1, <3>3 DEF SlotByChannel, SlotOf, Mapped, IsMapped
    <3>5. ASSUME NEW v \in SlotByChannel(o, slot[w].ch) PROVE v = w
      <4>1. v \in Workers /\ IsMapped(v) /\ slot[v].obj = o /\ slot[v].ch = slot[w].ch
        BY <3>2, <3>5, FoundFacts DEF IsMapped
      <4> QED BY <3>1, <4>1 DEF SlotsInv, IndexOK
    <3> QED BY <3>4, <3>5
  <2> QED BY <2>1, FoundFacts
<1> QED BY <1>1, SlotsInvAlways, PTL

(***************************************************************************)
(* Nobody waits in a circle.  A thread waits on one of three levels: for   *)
(* slot.mu, whose holder is in a turn that waits for nothing; for inst.mu, *)
(* whose holder waits for nothing or for slot.mu; for m.mu, whose holder   *)
(* waits for inst.mu or slot.mu.                                           *)
(***************************************************************************)
SlotLevel(t) == th[t].pc \in {"alive", "slot", "detachOld", "compare", "detach"}
InstLevel(t) == th[t].pc \in {"ensure", "lookup", "clear", "ilock", "examine"}

LEMMA WaitsFor ==
    ASSUME SlotsInv, ~HasParent, ~UsesTools, NEW t \in Threads, Waits(t) # {Nil}
    PROVE  /\ th[t].pc # "chat" /\ th[t].pc # "create" /\ ~(th[t].pc = "spawn" /\ th[t].kind = "send")
           /\ SlotLevel(t) => Waits(t) \subseteq {slotMu[w] : w \in Workers}
           /\ InstLevel(t) => Waits(t) \subseteq {instMu[o] : o \in Objs}
           /\ Waits(t) \subseteq {mMu} \cup {instMu[o] : o \in Objs} \cup {slotMu[w] : w \in Workers} \cup {Nil}
<1>1. KindOK(t, th[t]) /\ th[t] \in ThreadRecs
  BY SlotsFacts
<1>2. th[t].todo \in SUBSET Workers
  BY <1>1 DEF ThreadRecs
<1>3. ToolLock = Nil /\ ParentLock = Nil
  BY DEF ToolLock, ParentLock
<1>4. /\ th[t].pc = "chat" => Waits(t) = {Nil}
      /\ th[t].pc = "create" \/ (th[t].pc = "spawn" /\ th[t].kind = "send") => Waits(t) = {Nil}
  BY <1>3 DEF Waits
<1>5. th[t].pc \in {"alive", "slot", "detachOld", "compare"} => Waits(t) = {slotMu[th[t].slot]}
  BY DEF Waits
<1>6. th[t].pc = "detach" => Waits(t) = {slotMu[w] : w \in th[t].todo}
  BY DEF Waits
<1>7. InstLevel(t) => Waits(t) = {instMu[th[t].obj]}
  BY DEF Waits, InstLevel
<1>8. th[t].pc = "reregister" => Waits(t) = {mMu, instMu[th[t].obj]}
  BY DEF Waits
<1>9. ~SlotLevel(t) /\ ~InstLevel(t) /\ th[t].pc # "reregister" => Waits(t) \subseteq {mMu, Nil}
  BY <1>4 DEF Waits, SlotLevel, InstLevel
<1>10. th[t].pc \in {"alive", "slot", "detachOld", "compare"} => th[t].slot \in Workers
  BY <1>1 DEF KindOK, SlotPcs
<1>11. InstLevel(t) \/ th[t].pc = "reregister" => th[t].obj \in Objs
  BY <1>1 DEF KindOK, ObjPcs, InstLevel
<1>12. SlotLevel(t) => Waits(t) \subseteq {slotMu[w] : w \in Workers}
  BY <1>2, <1>5, <1>6, <1>10 DEF SlotLevel
<1> QED BY <1>4, <1>7, <1>8, <1>9, <1>11, <1>12

LEMMA NoCircle ==
    ASSUME SlotsInv, ~HasParent, ~UsesTools
    PROVE  LocksAcyclic
<1> SUFFICES ASSUME NEW T \in SUBSET {t \in Threads : Waits(t) # {Nil}}, T # {}
             PROVE  \E t \in T : Waits(t) \cap T = {}
  BY DEF LocksAcyclic
<1>1. \A t \in T : t \in Threads /\ Waits(t) # {Nil} /\ t # Nil
  BY SlotsAssumption
<1>2. \A t \in T, w \in Workers : slotMu[w] # t
  BY <1>1, WaitsFor DEF SlotsInv, SLock
<1>3. \A t \in T, o \in Objs : instMu[o] = t => SlotLevel(t)
  <2> TAKE t \in T, o \in Objs
  <2> HAVE instMu[o] = t
  <2>1. Holds(th[t])
    BY <1>1 DEF SlotsInv, ILock
  <2>2. th[t].pc # "create" /\ ~(th[t].pc = "spawn" /\ th[t].kind = "send")
    BY <1>1, WaitsFor
  <2> QED BY <2>1, <2>2 DEF Holds, SlotLevel
<1>4. \A t \in T : mMu = t => SlotLevel(t) \/ InstLevel(t)
  BY <1>1 DEF SlotsInv, MLock, HoldsM, SlotLevel, InstLevel
<1>5. ASSUME NEW t \in T, SlotLevel(t) PROVE Waits(t) \cap T = {}
  <2>1. Waits(t) \subseteq {slotMu[w] : w \in Workers}
    BY <1>1, <1>5, WaitsFor
  <2> QED BY <1>2, <2>1
<1>6. ASSUME NEW t \in T, InstLevel(t), \A k \in T : ~SlotLevel(k) PROVE Waits(t) \cap T = {}
  <2>1. Waits(t) \subseteq {instMu[o] : o \in Objs}
    BY <1>1, <1>6, WaitsFor
  <2> QED BY <1>3, <1>6, <2>1
<1>7. ASSUME NEW t \in T, \A k \in T : ~SlotLevel(k) /\ ~InstLevel(k) PROVE Waits(t) \cap T = {}
  <2>1. Waits(t) \subseteq {mMu} \cup {instMu[o] : o \in Objs} \cup {slotMu[w] : w \in Workers} \cup {Nil}
    BY <1>1, WaitsFor
  <2> QED BY <1>1, <1>2, <1>3, <1>4, <1>7, <2>1
<1> QED BY <1>5, <1>6, <1>7

\* "Lock ordering: m.mu -> inst.mu -> slot.mu (no reverse path exists)": for an
\* instance without a parent, whose turns do not call the management tools, no
\* set of threads waits in a circle, however many callers, sessions and watchers
\* there are.  The two hypotheses are needed: with either the order is reversed
\* (resolveSessionConfig read-locks m.mu under inst.mu, a tool under slot.mu).
THEOREM LocksStayOrdered == ~HasParent /\ ~UsesTools => (Spec => []LocksAcyclic)
<1>1. (~HasParent /\ ~UsesTools) /\ SlotsInv => LocksAcyclic
  BY NoCircle
<1>2. CASE ~HasParent /\ ~UsesTools
  <2>1. SlotsInv => LocksAcyclic
    BY <1>1, <1>2
  <2> QED BY <2>1, SlotsInvAlways, PTL
<1> QED BY <1>2

-----------------------------------------------------------------------------
(***************************************************************************)
(* Whose turns run.  At most one struct is running, and only it has slots  *)
(* that a channel can reach with a loop: a start first takes the stopped   *)
(* struct out of the registry, and one goroutine at a time starts the      *)
(* instance.                                                               *)
(***************************************************************************)
OneStarter == \A c, d \in Callers : "start" \in MayCall[c] \cap MayCall[d] => c = d

NoneRuns == \A o \in Objs : status[o] # "running"
InMaps(w) == slot[w] # Nil /\ slot[w].live /\ slot[w].mapped
Starting(r) == r.pc \in {"register", "reregister"} \/ (r.pc = "spawn" /\ r.kind = "start")

RunRefs(t, r) ==
    /\ t \in Callers => r.kind \in MayCall[t] \cup {"idle"}
    /\ Starting(r) \/ r.pc = "unregister" => r.kind = "start" /\ t \in Callers
    /\ r.pc # "register" /\ (Starting(r) \/ r.pc = "unregister") => NoneRuns
    /\ Starting(r) => registry = Nil
    /\ Holds(r) /\ r.pc \notin {"compare", "detach"} => status[r.obj] = "running"
    /\ r.pc = "detach" => \A w \in Workers : InMaps(w) /\ slot[w].obj = r.obj => w \in r.todo
    /\ r.pc = "register" => \A o \in Objs : status[o] = "running" => slot[r.slot].obj = o
RunInv ==
    /\ \A t \in Threads : RunRefs(t, th[t])
    /\ \A o, p \in Objs : status[o] = "running" /\ status[p] = "running" => o = p
    /\ registry # Nil => status[registry] = "running" \/ NoneRuns
    /\ \A w \in Workers : InMaps(w) => status[slot[w].obj] = "running"

LEMMA HandlesStay ==
    ASSUME NEW r \in ThreadRecs, NEW p, NEW o, NEW S, NEW T
    PROVE  /\ [r EXCEPT !.pc = p].handles = r.handles
           /\ [r EXCEPT !.obj = o, !.pc = p].handles = r.handles
           /\ [r EXCEPT !.pc = p, !.obj = o].handles = r.handles
           /\ [r EXCEPT !.pc = p, !.slot = o].handles = r.handles
           /\ [r EXCEPT !.pc = p, !.sid = o].handles = r.handles
           /\ [r EXCEPT !.pc = p, !.todo = S].handles = r.handles
           /\ [r EXCEPT !.pc = p, !.handles = S].handles = S
           /\ [r EXCEPT !.todo = S, !.handles = T].handles = T
<1>1. DOMAIN r = {"kind", "pc", "ch", "obj", "slot", "sid", "todo", "handles"}
  BY DEF ThreadRecs
<1> QED BY <1>1

LEMMA StartsWithoutHandles ==
    ASSUME NEW k, NEW p, NEW x
    PROVE  /\ Idle.handles = {} /\ Watching.handles = {}
           /\ [Idle EXCEPT !.kind = k, !.pc = p, !.ch = x].handles = {}
<1>1. Idle \in ThreadRecs
  BY IdleFields
<1>2. DOMAIN Idle = {"kind", "pc", "ch", "obj", "slot", "sid", "todo", "handles"} /\ Idle.handles = {}
  BY DEF Idle
<1> QED BY <1>2 DEF Watching

(***************************************************************************)
(* The steps of a thread that change no table: what it is afterwards.      *)
(***************************************************************************)
Alone(t) == \A k \in Threads \ {t} : th'[k] = th[k]
Still ==
    /\ registry' = registry /\ status' = status /\ index' = index /\ slot' = slot
    /\ rows' = rows /\ instRow' = instRow /\ proc' = proc /\ closing' = closing

\* t begins, returns without a handle, or goes on: with a struct from the
\* registry, or, under inst.mu, with a slot of its struct.
Begins(t, r) ==
    /\ t \in Callers /\ th[t].pc = "idle" /\ r.kind \in MayCall[t]
    /\ r.pc = "get" /\ r.obj = Nil /\ r.todo = {} /\ r.handles = {}
Returns(t, r) == r = Idle /\ th[t].pc \notin {"create", "detach", "shutdown", "spawn", "register"}
Looks(t, r) ==
    /\ r.pc \in {"ensure", "clear", "lookup", "mlock", "examine", "ilock"}
    /\ r.obj \in {th[t].obj, registry, Nil}
    /\ th[t].pc \notin {"create", "detach", "shutdown", "spawn", "register"}
    /\ r.pc = "examine" => proc[t] = "dead" /\ t \in Workers
    /\ t \in Workers => th[t].pc \in {"wait", "die", "mlock"}
    /\ t \in Workers /\ r.pc # "examine" => th[t].pc # "wait"
StartLooks(t, r) ==
    /\ r.pc = "unregister" /\ r.kind = "start" /\ t \in Callers
    /\ registry # Nil /\ status[registry] = "stopped" /\ r.obj = registry /\ th[t].pc = "get"
Takes(t, r) ==
    /\ r.pc \in {"alive", "detachOld", "create", "spawn", "compare"} /\ (r.pc = "spawn" => r.kind = "send")
    /\ r.obj = th[t].obj /\ status[r.obj] = "running" /\ th[t].pc \in {"ensure", "clear", "examine"}
    /\ t \in Workers => th[t].pc = "examine" /\ r.pc = "compare"
Uses(t, r) ==
    /\ t \in Callers
    /\ \/ r.pc = "slot" /\ th[t].pc = "lookup" /\ r.slot \in SlotOf(th[t].obj, th[t].sid)
       \/ r.pc = "chat" /\ th[t].pc = "slot" /\ r.slot = th[t].slot /\ slot[r.slot].live
    /\ r.obj = th[t].obj
Snapshots(t, r) ==
    /\ r.pc = "detach" /\ th[t].pc = "ilock" /\ r.obj = th[t].obj /\ r.todo = Mapped(r.obj)
Onward(t, r) ==
    /\ r \in ThreadRecs /\ r.kind = th[t].kind /\ r.handles = th[t].handles
    /\ Looks(t, r) \/ StartLooks(t, r) \/ Takes(t, r) \/ Uses(t, r) \/ Snapshots(t, r)
FreeTo(t, r) == Begins(t, r) \/ Returns(t, r) \/ Onward(t, r)

\* A step that only moves t.
Calm(t) == Still /\ Alone(t) /\ FreeTo(t, th'[t])

LEMMA CalmReturn ==
    ASSUME SlotsInv, NEW t \in Threads, Return(t), Still,
           th[t].pc \notin {"create", "detach", "shutdown", "spawn", "register"}
    PROVE  Calm(t)
<1>1. th'[t] = Idle /\ Alone(t)
  BY SlotsFacts DEF Return, Alone
<1> QED BY <1>1 DEF Calm, FreeTo, Returns

LEMMA CalmMove ==
    ASSUME SlotsInv, NEW t \in Threads, NEW r, th' = [th EXCEPT ![t] = r], Still, FreeTo(t, r)
    PROVE  Calm(t)
<1>1. th'[t] = r /\ Alone(t)
  BY SlotsFacts DEF Alone
<1> QED BY <1>1 DEF Calm

LEMMA StillFacts ==
    ASSUME UNCHANGED <<regVars, slotVars, dbVars>>
    PROVE  Still
BY DEF Still, regVars, slotVars, dbVars

LEMMA CallCalm ==
    ASSUME SlotsInv, NEW c \in Callers, NEW kind \in Calls, Call(c, kind)
    PROVE  Calm(c)
<1>1. PICK x \in Channels : th' = [th EXCEPT ![c] = [Idle EXCEPT !.kind = kind, !.pc = "get", !.ch = x]]
  BY DEF Call
<1>2. c \in Threads /\ kind \in MayCall[c] /\ Still /\ th[c].pc = "idle"
  BY StillFacts, IdleFields DEF Threads, Call
<1>3. PICK r : r = [Idle EXCEPT !.kind = kind, !.pc = "get", !.ch = x]
  OBVIOUS
<1>4. Begun(r, kind, "get") /\ r.handles = {}
  BY <1>3, BeginFields, StartsWithoutHandles DEF Pcs
<1>5. Begins(c, r)
  BY <1>2, <1>4 DEF Begun, Begins
<1> QED BY <1>1, <1>2, <1>3, <1>5, CalmMove DEF FreeTo
\* t goes on to p with the struct o or the slot w in hand.
LEMMA CalmGoto ==
    ASSUME SlotsInv, NEW t \in Threads, NEW p \in Pcs, Goto(t, p), Still,
           \A r : Moved(r, th[t], p, th[t].obj, th[t].slot, th[t].todo) =>
             Looks(t, r) \/ StartLooks(t, r) \/ Takes(t, r) \/ Uses(t, r)
    PROVE  Calm(t)
<1>1. PICK r : r = [th[t] EXCEPT !.pc = p]
  OBVIOUS
<1>2. Moved(r, th[t], p, th[t].obj, th[t].slot, th[t].todo) /\ r.handles = th[t].handles
  BY <1>1, SlotsFacts, PcField, HandlesStay
<1>3. th' = [th EXCEPT ![t] = r] /\ FreeTo(t, r)
  BY <1>1, <1>2 DEF Goto, FreeTo, Onward, Moved
<1> QED BY <1>3, CalmMove

LEMMA CalmObj ==
    ASSUME SlotsInv, NEW t \in Threads, NEW p \in Pcs, NEW o \in Objs \cup {Nil}, Still,
           \/ th' = [th EXCEPT ![t].obj = o, ![t].pc = p]
           \/ th' = [th EXCEPT ![t].pc = p, ![t].obj = o],
           \A r : Moved(r, th[t], p, o, th[t].slot, th[t].todo) => Looks(t, r) \/ StartLooks(t, r)
    PROVE  Calm(t)
<1>1. th[t] \in ThreadRecs
  BY SlotsFacts
<1>2. ASSUME NEW r, r = [th[t] EXCEPT !.obj = o, !.pc = p] \/ r = [th[t] EXCEPT !.pc = p, !.obj = o]
      PROVE  FreeTo(t, r)
  <2>1. Moved(r, th[t], p, o, th[t].slot, th[t].todo)
    BY <1>1, <1>2, ObjPcFields
  <2>2. /\ [th[t] EXCEPT !.obj = o, !.pc = p].handles = th[t].handles
        /\ [th[t] EXCEPT !.pc = p, !.obj = o].handles = th[t].handles
    BY <1>1, HandlesStay
  <2>3. r.handles = th[t].handles
    BY <1>2, <2>2
  <2> QED BY <2>1, <2>3 DEF FreeTo, Onward, Moved
<1>3. CASE th' = [th EXCEPT ![t].obj = o, ![t].pc = p]
  <2>1. PICK r : r = [th[t] EXCEPT !.obj = o, !.pc = p]
    OBVIOUS
  <2>2. th' = [th EXCEPT ![t] = r]
    BY <1>3, <2>1, SlotsFacts
  <2> QED BY <1>2, <2>1, <2>2, CalmMove
<1>4. CASE th' = [th EXCEPT ![t].pc = p, ![t].obj = o]
  <2>1. PICK r : r = [th[t] EXCEPT !.pc = p, !.obj = o]
    OBVIOUS
  <2>2. th' = [th EXCEPT ![t] = r]
    BY <1>4, <2>1, SlotsFacts
  <2> QED BY <1>2, <2>1, <2>2, CalmMove
<1> QED BY <1>3, <1>4

LEMMA CalmSlot ==
    ASSUME SlotsInv, NEW t \in Threads, NEW p \in Pcs, NEW w \in Workers, Still,
           th' = [th EXCEPT ![t].pc = p, ![t].slot = w],
           \A r : Moved(r, th[t], p, th[t].obj, w, th[t].todo) => Takes(t, r) \/ Uses(t, r)
    PROVE  Calm(t)
<1>1. PICK r : r = [th[t] EXCEPT !.pc = p, !.slot = w]
  OBVIOUS
<1>a. th[t] \in ThreadRecs
  BY SlotsFacts
<1>b. r.handles = th[t].handles
  BY <1>1, <1>a, HandlesStay
<1>2. Moved(r, th[t], p, th[t].obj, w, th[t].todo) /\ r.handles = th[t].handles
  BY <1>1, <1>a, <1>b, PcSlotFields
<1>3. th' = [th EXCEPT ![t] = r]
  BY <1>1, SlotsFacts
<1>4. FreeTo(t, r)
  BY <1>2 DEF FreeTo, Onward, Moved
<1> QED BY <1>3, <1>4, CalmMove

LEMMA GetInstanceCalm ==
    ASSUME SlotsInv, NEW c \in Callers, GetInstance(c)
    PROVE  Calm(c)
<1>1. c \in Threads /\ Still /\ th[c].pc = "get" /\ c \notin Workers
  BY StillFacts, SlotsAssumption DEF Threads, GetInstance, At
<1>2. CASE Return(c)
  BY <1>1, <1>2, CalmReturn
<1>3. CASE registry # Nil /\ ~Return(c)
  <2>1. PICK p \in {"ensure", "clear"} : th' = [th EXCEPT ![c].obj = registry, ![c].pc = p]
    BY <1>3 DEF GetInstance
  <2>2. p \in Pcs /\ registry \in Objs \cup {Nil}
    BY SlotsFacts, <1>1 DEF Pcs
  <2>3. \A r : Moved(r, th[c], p, registry, th[c].slot, th[c].todo) => Looks(c, r)
    BY <1>1 DEF Moved, Looks
  <2> QED BY <1>1, <2>1, <2>2, <2>3, CalmObj
<1> QED BY <1>2, <1>3 DEF GetInstance

LEMMA AcquireGetCalm ==
    ASSUME SlotsInv, NEW c \in Callers, AcquireGet(c)
    PROVE  Calm(c)
<1>1. c \in Threads /\ Still /\ th[c].pc = "acquire" /\ c \notin Workers
  BY StillFacts, SlotsAssumption DEF Threads, AcquireGet, At
<1>2. CASE Return(c)
  BY <1>1, <1>2, CalmReturn
<1>3. CASE th' = [th EXCEPT ![c].obj = registry, ![c].pc = "lookup"]
  <2>2. "lookup" \in Pcs /\ registry \in Objs \cup {Nil}
    BY SlotsFacts, <1>1 DEF Pcs
  <2>3. \A r : Moved(r, th[c], "lookup", registry, th[c].slot, th[c].todo) => Looks(c, r)
    BY <1>1 DEF Moved, Looks
  <2> QED BY <1>1, <1>3, <2>2, <2>3, CalmObj
<1> QED BY <1>2, <1>3 DEF AcquireGet

LEMMA AcquireLookupCalm ==
    ASSUME SlotsInv, NEW c \in Callers, AcquireLookup(c)
    PROVE  Calm(c)
<1>1. c \in Threads /\ Still /\ th[c].pc = "lookup" /\ "slot" \in Pcs
  BY StillFacts DEF Threads, AcquireLookup, At, Pcs
<1>2. CASE Return(c)
  BY <1>1, <1>2, CalmReturn
<1>3. ASSUME NEW w \in SlotOf(th[c].obj, th[c].sid), th' = [th EXCEPT ![c].pc = "slot", ![c].slot = w]
      PROVE  Calm(c)
  <2>1. w \in Workers
    BY DEF SlotOf, Mapped
  <2>2. \A r : Moved(r, th[c], "slot", th[c].obj, w, th[c].todo) => Uses(c, r)
    BY <1>1 DEF Moved, Uses
  <2> QED BY <1>1, <1>3, <2>1, <2>2, CalmSlot
<1> QED BY <1>2, <1>3 DEF AcquireLookup

LEMMA AcquireSlotCalm ==
    ASSUME SlotsInv, NEW c \in Callers, AcquireSlot(c)
    PROVE  Calm(c)
<1>1. c \in Threads /\ Still /\ th[c].pc = "slot" /\ "chat" \in Pcs
  BY StillFacts DEF Threads, AcquireSlot, At, Pcs
<1>2. CASE Return(c)
  BY <1>1, <1>2, CalmReturn
<1>3. CASE slot[th[c].slot].live /\ Goto(c, "chat")
  <2>1. \A r : Moved(r, th[c], "chat", th[c].obj, th[c].slot, th[c].todo) => Uses(c, r)
    BY <1>1, <1>3 DEF Moved, Uses
  <2> QED BY <1>1, <1>3, <2>1, CalmGoto
<1> QED BY <1>2, <1>3 DEF AcquireSlot

LEMMA ChatEndsCalm ==
    ASSUME SlotsInv, NEW c \in Callers, ChatEnds(c)
    PROVE  Calm(c)
<1>1. c \in Threads /\ Still /\ th[c].pc = "chat" /\ Return(c)
  BY StillFacts DEF Threads, ChatEnds, At
<1> QED BY <1>1, CalmReturn

\* A struct that was made and is not stopped runs.
LEMMA NotStopped ==
    ASSUME SlotsInv, NEW t \in Threads, th[t].obj \in Objs, status[th[t].obj] # "stopped"
    PROVE  status[th[t].obj] = "running"
<1>1. status[th[t].obj] # "none" /\ status[th[t].obj] \in {"none", "running", "stopped"}
  BY SlotsFacts, SlotsAssumption DEF SlotRefs, TypeOK
<1> QED BY <1>1

LEMMA EnsureLockCalm ==
    ASSUME SlotsInv, NEW c \in Callers, EnsureLock(c)
    PROVE  Calm(c)
<1>1. /\ c \in Threads /\ Still /\ th[c].pc = "ensure" /\ "spawn" \in Pcs /\ "alive" \in Pcs
      /\ c \notin Workers
  BY StillFacts, SlotsAssumption DEF Threads, EnsureLock, At, Pcs
<1>2. th[c].obj \in Objs /\ KindOK(c, th[c])
  BY <1>1, SlotsFacts DEF KindOK, ObjPcs
<1>3. CASE Return(c)
  BY <1>1, <1>3, CalmReturn
<1>4. CASE status[th[c].obj] # "stopped" /\ Goto(c, "spawn")
  <2>1. \A r : Moved(r, th[c], "spawn", th[c].obj, th[c].slot, th[c].todo) => Takes(c, r)
    BY <1>1, <1>2, <1>4, NotStopped DEF Moved, Takes, KindOK
  <2> QED BY <1>1, <1>4, <2>1, CalmGoto
<1>5. ASSUME NEW w \in SlotByChannel(th[c].obj, th[c].ch), status[th[c].obj] # "stopped",
             th' = [th EXCEPT ![c].pc = "alive", ![c].slot = w]
      PROVE  Calm(c)
  <2>1. w \in Workers
    BY DEF SlotByChannel, SlotOf, Mapped
  <2>2. \A r : Moved(r, th[c], "alive", th[c].obj, w, th[c].todo) => Takes(c, r)
    BY <1>1, <1>2, <1>5, NotStopped DEF Moved, Takes
  <2> QED BY <1>1, <1>5, <2>1, <2>2, CalmSlot
<1> QED BY <1>3, <1>4, <1>5 DEF EnsureLock

LEMMA ClearLockCalm ==
    ASSUME SlotsInv, NEW c \in Callers, ClearLock(c)
    PROVE  Calm(c)
<1>1. /\ c \in Threads /\ Still /\ th[c].pc = "clear" /\ "create" \in Pcs /\ "detachOld" \in Pcs
      /\ c \notin Workers
  BY StillFacts, SlotsAssumption DEF Threads, ClearLock, At, Pcs
<1>2. th[c].obj \in Objs /\ KindOK(c, th[c])
  BY <1>1, SlotsFacts DEF KindOK, ObjPcs
<1>3. CASE Return(c)
  BY <1>1, <1>3, CalmReturn
<1>4. CASE status[th[c].obj] # "stopped" /\ Goto(c, "create")
  <2>1. \A r : Moved(r, th[c], "create", th[c].obj, th[c].slot, th[c].todo) => Takes(c, r)
    BY <1>1, <1>2, <1>4, NotStopped DEF Moved, Takes, KindOK
  <2> QED BY <1>1, <1>4, <2>1, CalmGoto
<1>5. ASSUME NEW w \in SlotByChannel(th[c].obj, th[c].ch), status[th[c].obj] # "stopped",
             th' = [th EXCEPT ![c].pc = "detachOld", ![c].slot = w]
      PROVE  Calm(c)
  <2>1. w \in Workers
    BY DEF SlotByChannel, SlotOf, Mapped
  <2>2. \A r : Moved(r, th[c], "detachOld", th[c].obj, w, th[c].todo) => Takes(c, r)
    BY <1>1, <1>2, <1>5, NotStopped DEF Moved, Takes
  <2> QED BY <1>1, <1>5, <2>1, <2>2, CalmSlot
<1> QED BY <1>3, <1>4, <1>5 DEF ClearLock

LEMMA WatchExamineCalm ==
    ASSUME SlotsInv, NEW w \in Workers, WatchExamine(w)
    PROVE  Calm(w)
<1>1. w \in Threads /\ Still /\ th[w].pc = "examine" /\ "compare" \in Pcs
  BY StillFacts DEF Threads, WatchExamine, At, Pcs
<1>2. th[w].obj \in Objs
  BY <1>1, SlotsFacts DEF KindOK, ObjPcs
<1>3. CASE Return(w)
  BY <1>1, <1>3, CalmReturn
<1>4. ASSUME NEW v \in SlotOf(th[w].obj, slot[w].sid), status[th[w].obj] # "stopped",
             th' = [th EXCEPT ![w].pc = "compare", ![w].slot = v]
      PROVE  Calm(w)
  <2>1. v \in Workers
    BY DEF SlotOf, Mapped
  <2>2. \A r : Moved(r, th[w], "compare", th[w].obj, v, th[w].todo) => Takes(w, r)
    BY <1>1, <1>2, <1>4, NotStopped DEF Moved, Takes
  <2> QED BY <1>1, <1>4, <2>1, <2>2, CalmSlot
<1> QED BY <1>3, <1>4 DEF WatchExamine

LEMMA StopGetCalm ==
    ASSUME SlotsInv, NEW c \in Callers, StopGet(c)
    PROVE  Calm(c)
<1>1. c \in Threads /\ Still /\ th[c].pc = "get" /\ "mlock" \in Pcs /\ c \notin Workers
  BY StillFacts, SlotsAssumption DEF Threads, StopGet, At, Pcs
<1>2. CASE Return(c)
  BY <1>1, <1>2, CalmReturn
<1>3. CASE Goto(c, "mlock")
  <2>1. \A r : Moved(r, th[c], "mlock", th[c].obj, th[c].slot, th[c].todo) => Looks(c, r)
    BY <1>1 DEF Moved, Looks
  <2> QED BY <1>1, <1>3, <2>1, CalmGoto
<1> QED BY <1>2, <1>3 DEF StopGet

LEMMA DeleteGetCalm ==
    ASSUME SlotsInv, NEW c \in Callers, DeleteGet(c)
    PROVE  Calm(c)
<1>1. c \in Threads /\ Still /\ th[c].pc = "get" /\ "mlock" \in Pcs /\ c \notin Workers
  BY StillFacts, SlotsAssumption DEF Threads, DeleteGet, At, Pcs
<1>2. CASE Return(c)
  BY <1>1, <1>2, CalmReturn
<1>3. CASE ~Return(c)
  <2>1. PICK o \in {Nil, registry} : th' = [th EXCEPT ![c].pc = "mlock", ![c].obj = o]
    BY <1>3 DEF DeleteGet
  <2>2. o \in Objs \cup {Nil}
    BY SlotsFacts, <1>1
  <2>3. \A r : Moved(r, th[c], "mlock", o, th[c].slot, th[c].todo) => Looks(c, r)
    BY <1>1 DEF Moved, Looks
  <2> QED BY <1>1, <2>1, <2>2, <2>3, CalmObj
<1> QED BY <1>2, <1>3

LEMMA StopLockCalm ==
    ASSUME SlotsInv, NEW c \in Callers, StopLock(c)
    PROVE  Calm(c)
<1>1. c \in Threads /\ Still /\ th[c].pc = "mlock" /\ "ilock" \in Pcs /\ c \notin Workers
  BY StillFacts, SlotsAssumption DEF Threads, StopLock, At, Pcs
<1>2. CASE Return(c)
  BY <1>1, <1>2, CalmReturn
<1>3. CASE th' = [th EXCEPT ![c].pc = "ilock", ![c].obj = registry]
  <2>2. registry \in Objs \cup {Nil}
    BY SlotsFacts, <1>1
  <2>3. \A r : Moved(r, th[c], "ilock", registry, th[c].slot, th[c].todo) => Looks(c, r)
    BY <1>1 DEF Moved, Looks
  <2> QED BY <1>1, <1>3, <2>2, <2>3, CalmObj
<1> QED BY <1>2, <1>3 DEF StopLock

LEMMA StartGetCalm ==
    ASSUME SlotsInv, NEW c \in Callers, StartGet(c)
    PROVE  Calm(c)
<1>1. c \in Threads /\ Still /\ th[c].pc = "get" /\ "unregister" \in Pcs /\ th[c].kind = "start"
  BY StillFacts DEF Threads, StartGet, At, Pcs
<1>2. CASE Return(c)
  BY <1>1, <1>2, CalmReturn
<1>3. CASE registry # Nil /\ status[registry] = "stopped" /\ ~Return(c)
  <2>1. th' = [th EXCEPT ![c].pc = "unregister", ![c].obj = registry]
    BY <1>3 DEF StartGet
  <2>2. registry \in Objs \cup {Nil}
    BY SlotsFacts, <1>1
  <2>3. \A r : Moved(r, th[c], "unregister", registry, th[c].slot, th[c].todo) => StartLooks(c, r)
    BY <1>1, <1>3 DEF Moved, StartLooks
  <2> QED BY <1>1, <2>1, <2>2, <2>3, CalmObj
<1> QED BY <1>2, <1>3 DEF StartGet

LEMMA WatchFindCalm ==
    ASSUME SlotsInv, NEW w \in Workers, WatchFind(w)
    PROVE  Calm(w)
<1>1. w \in Threads /\ Still /\ th[w].pc = "wait" /\ "examine" \in Pcs /\ proc[w] = "dead"
  BY StillFacts DEF Threads, WatchFind, At, Pcs
<1>2. CASE Return(w)
  BY <1>1, <1>2, CalmReturn
<1>3. CASE th' = [th EXCEPT ![w].pc = "examine", ![w].obj = registry]
  <2>2. registry \in Objs \cup {Nil}
    BY SlotsFacts, <1>1
  <2>3. \A r : Moved(r, th[w], "examine", registry, th[w].slot, th[w].todo) => Looks(w, r)
    BY <1>1 DEF Moved, Looks
  <2> QED BY <1>1, <1>3, <2>2, <2>3, CalmObj
<1> QED BY <1>2, <1>3 DEF WatchFind

LEMMA DeathGetCalm ==
    ASSUME SlotsInv, NEW w \in Workers, DeathGet(w)
    PROVE  Calm(w)
<1>1. w \in Threads /\ Still /\ th[w].pc = "die" /\ "mlock" \in Pcs
  BY StillFacts DEF Threads, DeathGet, At, Pcs
<1>2. CASE Return(w)
  BY <1>1, <1>2, CalmReturn
<1>3. CASE th' = [th EXCEPT ![w].pc = "mlock", ![w].obj = registry]
  <2>2. registry \in Objs \cup {Nil}
    BY SlotsFacts, <1>1
  <2>3. \A r : Moved(r, th[w], "mlock", registry, th[w].slot, th[w].todo) => Looks(w, r)
    BY <1>1 DEF Moved, Looks
  <2> QED BY <1>1, <1>3, <2>2, <2>3, CalmObj
<1> QED BY <1>2, <1>3 DEF DeathGet

LEMMA DeathLockCalm ==
    ASSUME SlotsInv, NEW w \in Workers, DeathLock(w)
    PROVE  Calm(w)
<1>1. w \in Threads /\ Still /\ th[w].pc = "mlock" /\ "ilock" \in Pcs
  BY StillFacts DEF Threads, DeathLock, At, Pcs
<1>2. CASE Return(w)
  BY <1>1, <1>2, CalmReturn
<1>3. CASE Goto(w, "ilock")
  <2>1. \A r : Moved(r, th[w], "ilock", th[w].obj, th[w].slot, th[w].todo) => Looks(w, r)
    BY <1>1 DEF Moved, Looks
  <2> QED BY <1>1, <1>3, <2>1, CalmGoto
<1> QED BY <1>2, <1>3 DEF DeathLock

LEMMA InstLockCalm ==
    ASSUME SlotsInv, NEW t \in Threads, InstLock(t)
    PROVE  Calm(t)
<1>1. Still /\ th[t].pc = "ilock" /\ "detach" \in Pcs /\ Mapped(th[t].obj) \in SUBSET Workers
  BY StillFacts DEF InstLock, At, Pcs, Mapped
<1>2. PICK r : r = [th[t] EXCEPT !.pc = "detach", !.todo = Mapped(th[t].obj)]
  OBVIOUS
<1>a. th[t] \in ThreadRecs
  BY SlotsFacts
<1>b. r.handles = th[t].handles
  BY <1>2, <1>a, HandlesStay
<1>c. Moved(r, th[t], "detach", th[t].obj, th[t].slot, Mapped(th[t].obj))
  BY <1>1, <1>2, <1>a, TodoFields
<1>3. Moved(r, th[t], "detach", th[t].obj, th[t].slot, Mapped(th[t].obj)) /\ r.handles = th[t].handles
  BY <1>b, <1>c
<1>4. th' = [th EXCEPT ![t] = r]
  BY <1>2, SlotsFacts DEF InstLock
<1>5. FreeTo(t, r)
  BY <1>1, <1>3 DEF FreeTo, Onward, Moved, Snapshots
<1> QED BY <1>1, <1>4, <1>5, CalmMove

(***************************************************************************)
(* The steps that change a slot, a worker or the registry.                 *)
(***************************************************************************)
\* t is afterwards at p, with the struct o, the slot w and the handles H.
Goes(t, p, o, w, H) ==
    /\ th'[t] \in ThreadRecs /\ th'[t].kind = th[t].kind /\ th'[t].pc = p /\ th'[t].obj = o
    /\ th'[t].slot = w /\ th'[t].handles = H
DbStays == rows' = rows /\ instRow' = instRow
RegistryStays == registry' = registry /\ status' = status
WorkersStay == proc' = proc /\ closing' = closing

\* The slot w loses its loop or its place in the maps.
Trim(w) ==
    /\ w \in Workers /\ slot[w] # Nil /\ slot'[w] \in Slots
    /\ slot'[w].obj = slot[w].obj /\ slot'[w].sid = slot[w].sid /\ slot'[w].ch = slot[w].ch
    /\ \A v \in Workers \ {w} : slot'[v] = slot[v]

\* The slot w is made, with its worker.
Grow(w, o, n, ch) ==
    /\ w \in Workers /\ proc[w] = "none" /\ slot[w] = Nil /\ slot'[w] \in Slots
    /\ slot'[w].obj = o /\ slot'[w].sid = n /\ slot'[w].ch = ch /\ slot'[w].live /\ slot'[w].mapped
    /\ \A v \in Workers \ {w} : slot'[v] = slot[v]
    /\ proc' = [proc EXCEPT ![w] = "up"]

LEMMA SlotUpdate ==
    ASSUME SlotsInv, NEW w \in Workers, slot[w] # Nil
    PROVE  /\ slot' = [slot EXCEPT ![w].mapped = FALSE] =>
                Trim(w) /\ slot'[w].live = slot[w].live /\ ~slot'[w].mapped
           /\ slot' = [slot EXCEPT ![w].live = FALSE] =>
                Trim(w) /\ ~slot'[w].live /\ slot'[w].mapped = slot[w].mapped
           /\ slot' = [slot EXCEPT ![w].live = FALSE, ![w].mapped = FALSE] =>
                Trim(w) /\ ~slot'[w].live /\ ~slot'[w].mapped
<1>1. slot \in [Workers -> Slots \cup {Nil}] /\ slot[w] \in Slots
  BY DEF SlotsInv, TypeOK
<1>2. PICK s \in Slots : s = slot[w]
  BY <1>1
<1>3. ASSUME NEW q, slot' = [slot EXCEPT ![w] = q]
      PROVE  slot'[w] = q /\ \A v \in Workers \ {w} : slot'[v] = slot[v]
  BY <1>1, <1>3
<1>4. PICK a : a = [s EXCEPT !.mapped = FALSE]
  OBVIOUS
<1>5. a \in Slots /\ a.obj = s.obj /\ a.sid = s.sid /\ a.ch = s.ch /\ a.live = s.live /\ ~a.mapped
  BY <1>4 DEF Slots
<1>6. PICK b : b = [s EXCEPT !.live = FALSE]
  OBVIOUS
<1>7. b \in Slots /\ b.obj = s.obj /\ b.sid = s.sid /\ b.ch = s.ch /\ ~b.live /\ b.mapped = s.mapped
  BY <1>6 DEF Slots
<1>8. PICK d : d = [b EXCEPT !.mapped = FALSE]
  OBVIOUS
<1>9. d \in Slots /\ d.obj = s.obj /\ d.sid = s.sid /\ d.ch = s.ch /\ ~d.live /\ ~d.mapped
  BY <1>7, <1>8 DEF Slots
<1>10. /\ slot' = [slot EXCEPT ![w].mapped = FALSE] => slot' = [slot EXCEPT ![w] = a]
       /\ slot' = [slot EXCEPT ![w].live = FALSE] => slot' = [slot EXCEPT ![w] = b]
       /\ slot' = [slot EXCEPT ![w].live = FALSE, ![w].mapped = FALSE] => slot' = [slot EXCEPT ![w] = d]
  BY <1>1, <1>2, <1>4, <1>6, <1>8
<1>a. slot' = [slot EXCEPT ![w].mapped = FALSE] =>
                Trim(w) /\ slot'[w].live = slot[w].live /\ ~slot'[w].mapped
  BY <1>2, <1>3, <1>5, <1>10 DEF Trim
<1>b. slot' = [slot EXCEPT ![w].live = FALSE] =>
                Trim(w) /\ ~slot'[w].live /\ slot'[w].mapped = slot[w].mapped
  BY <1>2, <1>3, <1>7, <1>10 DEF Trim
<1>c. slot' = [slot EXCEPT ![w].live = FALSE, ![w].mapped = FALSE] =>
                Trim(w) /\ ~slot'[w].live /\ ~slot'[w].mapped
  BY <1>2, <1>3, <1>9, <1>10 DEF Trim
<1> QED BY <1>a, <1>b, <1>c

LEMMA SlotAdded ==
    ASSUME SlotsInv, NEW w \in Unspawned, NEW o \in Objs, NEW n \in Nat \ {0},
           NEW ch \in Channels, index[o][ch] = 0,
           slot' = NewSlot(slot, w, o, n, ch), proc' = [proc EXCEPT ![w] = "up"],
           RowsKept, n \in DOMAIN rows', rows'[n].ch = ch
    PROVE  Grow(w, o, n, ch)
<1>1. /\ slot \in [Workers -> Slots \cup {Nil}] /\ Nil \notin Slots
      /\ IndexOK /\ (\A v \in Workers : SlotOK(v))
  BY SlotsAssumption DEF SlotsInv, TypeOK
<1>2. PICK s : s = [obj |-> o, sid |-> n, ch |-> ch, live |-> TRUE, mapped |-> TRUE]
  OBVIOUS
<1>3. s \in Slots /\ s.obj = o /\ s.sid = n /\ s.ch = ch /\ s.live /\ s.mapped
  BY <1>2 DEF Slots
<1>4. w \in Workers /\ slot[w] = Nil /\ proc[w] = "none" /\ slot'[w] = s
  BY <1>2, NewSlotFields DEF Unspawned
<1>5. ASSUME NEW v \in Workers \ {w} PROVE slot'[v] = slot[v]
  <2>1. CASE slot[v] = Nil \/ slot[v].obj # o \/ slot[v].sid # n
    BY <2>1 DEF NewSlot
  <2>2. CASE slot[v] # Nil /\ slot[v].obj = o /\ slot[v].sid = n
    <3>1. slot[v].ch = ch
      BY <1>1, <2>2 DEF SlotOK, RowsKept
    <3>2. ~slot[v].mapped
      BY <1>1, <2>2, <3>1 DEF IndexOK, IsMapped
    <3>3. slot'[v] = [slot[v] EXCEPT !.mapped = FALSE]
      BY <2>2 DEF NewSlot
    <3>4. slot[v] \in Slots
      BY <1>1, <2>2
    <3>5. [slot[v] EXCEPT !.mapped = FALSE] = slot[v]
      BY <3>2, <3>4 DEF Slots
    <3> QED BY <3>3, <3>5
  <2> QED BY <2>1, <2>2
<1> QED BY <1>3, <1>4, <1>5 DEF Grow

LEMMA EnsureAliveDoes ==
    ASSUME SlotsInv, NEW c \in Callers, EnsureAlive(c)
    PROVE  /\ c \in Threads /\ th[c].pc = "alive" /\ RegistryStays /\ DbStays /\ WorkersStay /\ Alone(c)
           /\ \/ slot' = slot /\ Goes(c, "acquire", th[c].obj, th[c].slot, th[c].handles)
              \/ /\ Trim(th[c].slot) /\ ~slot[th[c].slot].live /\ ~slot'[th[c].slot].live
                 /\ ~slot'[th[c].slot].mapped
                 /\ Goes(c, "spawn", th[c].obj, th[c].slot, th[c].handles)
<1>1. c \in Threads /\ th[c].pc = "alive" /\ RegistryStays /\ DbStays /\ WorkersStay
  BY DEF Threads, EnsureAlive, At, RegistryStays, DbStays, WorkersStay, regVars, dbVars
<1>2. /\ th[c] \in ThreadRecs /\ th \in [Threads -> ThreadRecs] /\ KindOK(c, th[c]) /\ SlotRefs(th[c])
      /\ slot \in [Workers -> Slots \cup {Nil}]
  BY <1>1, SlotsFacts
<1>3. th[c].slot \in Workers /\ slot[th[c].slot] # Nil /\ slot[th[c].slot] \in Slots
  BY <1>1, <1>2 DEF KindOK, SlotRefs, SlotPcs
<1>4. CASE slot[th[c].slot].live
  <2>1. th' = [th EXCEPT ![c].pc = "acquire", ![c].sid = slot[th[c].slot].sid] /\ slot' = slot
    BY <1>4 DEF EnsureAlive
  <2>2. PICK r : r = [th[c] EXCEPT !.pc = "acquire", !.sid = slot[th[c].slot].sid]
    OBVIOUS
  <2>3. slot[th[c].slot].sid \in Nat /\ "acquire" \in Pcs
    BY <1>3 DEF Slots, Pcs
  <2>4. Moved(r, th[c], "acquire", th[c].obj, th[c].slot, th[c].todo)
    BY <1>2, <2>2, <2>3, PcSidFields
  <2>5. r.handles = th[c].handles
    BY <1>2, <2>2, HandlesStay
  <2>6. th'[c] = r /\ Alone(c)
    BY <1>1, <1>2, <2>1, <2>2 DEF Alone
  <2> QED BY <1>1, <2>1, <2>4, <2>5, <2>6 DEF Goes, Moved
<1>5. CASE ~slot[th[c].slot].live
  <2>1. Goto(c, "spawn") /\ slot' = [slot EXCEPT ![th[c].slot].mapped = FALSE]
    BY <1>5 DEF EnsureAlive, Unmap
  <2>2. PICK r : r = [th[c] EXCEPT !.pc = "spawn"]
    OBVIOUS
  <2>4. Moved(r, th[c], "spawn", th[c].obj, th[c].slot, th[c].todo)
    BY <1>2, <2>2, PcField DEF Pcs
  <2>5. r.handles = th[c].handles
    BY <1>2, <2>2, HandlesStay
  <2>6. th'[c] = r /\ Alone(c)
    BY <1>1, <1>2, <2>1, <2>2 DEF Alone, Goto
  <2>7. Trim(th[c].slot) /\ slot'[th[c].slot].live = slot[th[c].slot].live /\ ~slot'[th[c].slot].mapped
    BY <1>3, <2>1, SlotUpdate
  <2> QED BY <1>1, <1>5, <2>4, <2>5, <2>6, <2>7 DEF Goes, Moved
<1> QED BY <1>4, <1>5

\* How the row of a cleared session changes.
RowStopped(n) ==
    /\ DOMAIN rows' = DOMAIN rows /\ n \in DOMAIN rows
    /\ \A k \in DOMAIN rows :
         /\ rows'[k].at = rows[k].at /\ rows'[k].ch = rows[k].ch /\ rows'[k].dir = rows[k].dir
         /\ k # n => rows'[k] = rows[k]
    /\ rows'[n].status = IF rows[n].status = "deleted" THEN "deleted" ELSE "stopped"

LEMMA ClearDetachDoes ==
    ASSUME SlotsInv, NEW c \in Callers, ClearDetach(c)
    PROVE  /\ c \in Threads /\ th[c].pc = "detachOld" /\ RegistryStays /\ instRow' = instRow
           /\ WorkersStay /\ Alone(c) /\ slotMu[th[c].slot] = Nil
           /\ Trim(th[c].slot) /\ ~slot'[th[c].slot].live /\ ~slot'[th[c].slot].mapped
           /\ RowStopped(slot[th[c].slot].sid)
           /\ Goes(c, "create", th[c].obj, th[c].slot, IF slot[th[c].slot].live THEN {th[c].slot} ELSE {})
<1>1. /\ c \in Threads /\ th[c].pc = "detachOld" /\ RegistryStays /\ instRow' = instRow /\ WorkersStay
      /\ slotMu[th[c].slot] = Nil
  BY DEF Threads, ClearDetach, At, RegistryStays, WorkersStay, regVars
<1>2. /\ th[c] \in ThreadRecs /\ th \in [Threads -> ThreadRecs] /\ KindOK(c, th[c]) /\ SlotRefs(th[c])
      /\ slot \in [Workers -> Slots \cup {Nil}] /\ rows \in Seq(Rows)
  BY <1>1, SlotsFacts DEF SlotsInv, TypeOK
<1>3. th[c].slot \in Workers /\ slot[th[c].slot] # Nil
  BY <1>1, <1>2 DEF KindOK, SlotRefs, SlotPcs
<1>4. Trim(th[c].slot) /\ ~slot'[th[c].slot].live /\ ~slot'[th[c].slot].mapped
  BY <1>3, SlotUpdate DEF ClearDetach
<1>5. PICK n \in DOMAIN rows : n = slot[th[c].slot].sid
  BY <1>3 DEF SlotsInv, SlotOK
<1>6. RowStopped(n)
  <2>1. rows[n] \in Rows
    BY <1>2, RowUpdates
  <2>2. PICK st : st = IF rows[n].status = "deleted" THEN "deleted" ELSE "stopped"
    OBVIOUS
  <2>3. PICK x : x = [rows[n] EXCEPT !.status = st]
    OBVIOUS
  <2>4. x \in Rows /\ x.at = rows[n].at /\ x.ch = rows[n].ch /\ x.dir = rows[n].dir /\ x.status = st
    BY <2>1, <2>2, <2>3 DEF Rows
  <2>5. rows' = [rows EXCEPT ![n] = x]
    BY <1>5, <2>2, <2>3 DEF ClearDetach
  <2>6. /\ DOMAIN rows' = DOMAIN rows /\ rows'[n] = x
        /\ \A k \in DOMAIN rows : k # n => rows'[k] = rows[k]
    BY <1>2, <2>4, <2>5, RowSet
  <2> QED BY <2>2, <2>4, <2>6 DEF RowStopped
<1>7. PICK H \in SUBSET Workers : H = IF slot[th[c].slot].live THEN {th[c].slot} ELSE {}
  BY <1>3
<1>8. PICK r : r = [th[c] EXCEPT !.pc = "create", !.handles = H]
  OBVIOUS
<1>9. Moved(r, th[c], "create", th[c].obj, th[c].slot, th[c].todo)
  BY <1>2, <1>7, <1>8, PcHandlesFields DEF Pcs
<1>10. r.handles = H
  BY <1>2, <1>8, HandlesStay
<1>11. th' = [th EXCEPT ![c] = r]
  BY <1>2, <1>7, <1>8 DEF ClearDetach
<1>12. th'[c] = r /\ Alone(c)
  BY <1>1, <1>2, <1>11 DEF Alone
<1>13. Goes(c, "create", th[c].obj, th[c].slot, H)
  BY <1>9, <1>10, <1>12 DEF Goes, Moved
<1> QED BY <1>1, <1>4, <1>5, <1>6, <1>7, <1>12, <1>13

LEMMA WatchCompareDoes ==
    ASSUME SlotsInv, NEW w \in Workers, WatchCompare(w)
    PROVE  /\ w \in Threads /\ th[w].pc = "compare" /\ RegistryStays /\ DbStays /\ WorkersStay /\ Alone(w)
           /\ \/ slot' = slot /\ th'[w] = Idle
              \/ /\ th[w].slot = w /\ slot[w].live /\ slotMu[w] = Nil
                 /\ Trim(w) /\ slot'[w].live /\ ~slot'[w].mapped
                 /\ \/ th'[w] = Idle
                    \/ Goes(w, "die", th[w].obj, th[w].slot, th[w].handles)
<1>1. w \in Threads /\ th[w].pc = "compare" /\ RegistryStays /\ DbStays /\ WorkersStay
  BY DEF Threads, WatchCompare, At, RegistryStays, DbStays, WorkersStay, regVars, dbVars
<1>2. /\ th[w] \in ThreadRecs /\ th \in [Threads -> ThreadRecs] /\ KindOK(w, th[w]) /\ SlotRefs(th[w])
      /\ slot \in [Workers -> Slots \cup {Nil}]
  BY <1>1, SlotsFacts
<1>3. th[w].slot \in Workers /\ slot[th[w].slot] # Nil
  BY <1>1, <1>2 DEF KindOK, SlotRefs, SlotPcs
<1>4. CASE th[w].slot # w \/ ~slot[th[w].slot].live
  <2>1. Return(w) /\ slot' = slot
    BY <1>4 DEF WatchCompare
  <2>2. th'[w] = Idle /\ Alone(w)
    BY <1>1, <1>2, <2>1 DEF Return, Alone
  <2> QED BY <1>1, <2>1, <2>2
<1>5. CASE th[w].slot = w /\ slot[w].live
  <2>1. (Goto(w, "die") \/ Return(w)) /\ slot' = [slot EXCEPT ![w].mapped = FALSE] /\ slotMu[w] = Nil
    BY <1>5 DEF WatchCompare, Unmap
  <2>2. Trim(w) /\ slot'[w].live = slot[w].live /\ ~slot'[w].mapped
    BY <1>3, <1>5, <2>1, SlotUpdate
  <2>3. CASE Return(w)
    <3>1. th'[w] = Idle /\ Alone(w)
      BY <1>1, <1>2, <2>3 DEF Return, Alone
    <3> QED BY <1>1, <1>5, <2>1, <2>2, <3>1
  <2>4. CASE Goto(w, "die")
    <3>1. PICK r : r = [th[w] EXCEPT !.pc = "die"]
      OBVIOUS
    <3>2. Moved(r, th[w], "die", th[w].obj, th[w].slot, th[w].todo)
      BY <1>2, <3>1, PcField DEF Pcs
    <3>3. r.handles = th[w].handles
      BY <1>2, <3>1, HandlesStay
    <3>4. th'[w] = r /\ Alone(w)
      BY <1>1, <1>2, <2>4, <3>1 DEF Alone, Goto
    <3>5. Goes(w, "die", th[w].obj, th[w].slot, th[w].handles)
      BY <3>2, <3>3, <3>4 DEF Goes, Moved
    <3> QED BY <1>1, <1>5, <2>1, <2>2, <3>4, <3>5
  <2> QED BY <2>1, <2>3, <2>4
<1> QED BY <1>4, <1>5

LEMMA DetachSlotDoes ==
    ASSUME SlotsInv, NEW t \in Threads, DetachSlot(t)
    PROVE  /\ th[t].pc = "detach" /\ RegistryStays /\ DbStays /\ WorkersStay /\ Alone(t)
           /\ \E w \in th[t].todo :
                /\ slotMu[w] = Nil /\ Trim(w) /\ ~slot'[w].live /\ slot'[w].mapped = slot[w].mapped
                /\ th'[t].todo = th[t].todo \ {w}
                /\ Goes(t, "detach", th[t].obj, th[t].slot,
                        IF slot[w].live THEN th[t].handles \cup {w} ELSE th[t].handles)
<1>1. PICK w \in th[t].todo :
         /\ slotMu[w] = Nil
         /\ slot' = [slot EXCEPT ![w].live = FALSE]
         /\ th' = [th EXCEPT ![t].todo = @ \ {w},
                             ![t].handles = IF slot[w].live THEN @ \cup {w} ELSE @]
  BY DEF DetachSlot
<1>2. /\ th[t] \in ThreadRecs /\ th \in [Threads -> ThreadRecs] /\ SlotRefs(th[t])
      /\ th[t].pc = "detach" /\ RegistryStays /\ DbStays /\ WorkersStay
  BY SlotsFacts DEF DetachSlot, At, RegistryStays, DbStays, WorkersStay, regVars, dbVars
<1>3. th[t].todo \in SUBSET Workers /\ th[t].handles \in SUBSET Workers /\ w \in Workers /\ slot[w] # Nil
  BY <1>1, <1>2 DEF ThreadRecs, SlotRefs
<1>4. PICK S \in SUBSET Workers : S = th[t].todo \ {w}
  BY <1>3
<1>5. PICK H \in SUBSET Workers : H = IF slot[w].live THEN th[t].handles \cup {w} ELSE th[t].handles
  BY <1>3
<1>6. PICK r : r = [th[t] EXCEPT !.todo = S, !.handles = H]
  OBVIOUS
<1>7. Moved(r, th[t], th[t].pc, th[t].obj, th[t].slot, S)
  <2>1. th[t].pc \in Pcs
    BY <1>2 DEF ThreadRecs
  <2> QED BY <1>2, <1>4, <1>5, <1>6, <2>1, TodoFields
<1>8. r.handles = H
  BY <1>2, <1>6, HandlesStay
<1>9. th' = [th EXCEPT ![t] = r]
  BY <1>1, <1>2, <1>4, <1>5, <1>6
<1>10. th'[t] = r /\ Alone(t)
  BY <1>2, <1>9 DEF Alone
<1>11. Trim(w) /\ ~slot'[w].live /\ slot'[w].mapped = slot[w].mapped
  BY <1>1, <1>3, SlotUpdate
<1>12. Goes(t, "detach", th[t].obj, th[t].slot, H) /\ th'[t].todo = th[t].todo \ {w}
  BY <1>2, <1>4, <1>7, <1>8, <1>10 DEF Goes, Moved
<1> QED BY <1>1, <1>2, <1>3, <1>5, <1>10, <1>11, <1>12

\* A row is added, or the directory of one is made or removed.
Extended(ch) ==
    /\ DOMAIN rows' = 1 .. Len(rows) + 1 /\ Len(rows) \in Nat /\ DOMAIN rows = 1 .. Len(rows)
    /\ \A k \in DOMAIN rows : rows'[k] = rows[k]
    /\ rows'[Len(rows) + 1].ch = ch /\ rows'[Len(rows) + 1].status = "running"
    /\ rows'[Len(rows) + 1].at \in Now
Inserted(ch) == Extended(ch) /\ rows'[Len(rows) + 1].dir
DirChanged(n) ==
    /\ DOMAIN rows' = DOMAIN rows /\ n \in DOMAIN rows
    /\ \A k \in DOMAIN rows : /\ k # n => rows'[k] = rows[k]
                              /\ rows'[k].at = rows[k].at /\ rows'[k].ch = rows[k].ch
                              /\ rows'[k].status = rows[k].status

LEMMA InsertRow ==
    ASSUME rows \in Seq(Rows), NEW ch \in Channels, NEW t \in Now, NEW x, x = Insert(ch, t)
    PROVE  /\ x \in Seq(Rows) /\ Len(x) = Len(rows) + 1 /\ DOMAIN x = 1 .. Len(rows) + 1
           /\ Len(rows) \in Nat /\ DOMAIN rows = 1 .. Len(rows)
           /\ \A k \in DOMAIN rows : x[k] = rows[k]
           /\ x[Len(rows) + 1].ch = ch /\ x[Len(rows) + 1].status = "running"
           /\ x[Len(rows) + 1].at = t /\ x[Len(rows) + 1].dir
<1>1. t \in Nat
  BY NowIsTime
<1>2. PICK r : r = [ch |-> ch, status |-> "running", at |-> t, dir |-> TRUE]
  OBVIOUS
<1>3. r \in Rows /\ r.ch = ch /\ r.status = "running" /\ r.at = t /\ r.dir
  BY <1>1, <1>2 DEF Rows
<1>4. x = Append(rows, r)
  BY <1>2 DEF Insert
<1>5. /\ x \in Seq(Rows) /\ Len(x) = Len(rows) + 1 /\ DOMAIN x = 1 .. Len(rows) + 1
      /\ Len(rows) \in Nat /\ DOMAIN rows = 1 .. Len(rows)
      /\ x[Len(rows) + 1] = r /\ \A k \in DOMAIN rows : x[k] = rows[k]
  BY <1>3, <1>4
<1> QED BY <1>3, <1>5

LEMMA IsInserted ==
    ASSUME rows \in Seq(Rows), NEW ch \in Channels, NEW t \in Now, rows' = Insert(ch, t)
    PROVE  Inserted(ch)
<1>1. PICK x : x = Insert(ch, t)
  OBVIOUS
<1>2. rows' = x
  BY <1>1
<1> QED BY <1>1, <1>2, InsertRow DEF Inserted, Extended

SameButDir(x, y) == x.at = y.at /\ x.ch = y.ch /\ x.status = y.status

LEMMA DirField ==
    ASSUME NEW x \in Rows, NEW b \in BOOLEAN, NEW y, y = [x EXCEPT !.dir = b]
    PROVE  y \in Rows /\ SameButDir(y, x) /\ y.dir = b
BY DEF Rows, SameButDir

LEMMA DirSet ==
    ASSUME NEW s \in Seq(Rows), NEW n \in DOMAIN s, NEW y \in Rows, SameButDir(y, s[n]),
           NEW z, z = [s EXCEPT ![n] = y]
    PROVE  /\ z \in Seq(Rows) /\ DOMAIN z = DOMAIN s /\ z[n] = y
           /\ \A k \in DOMAIN s : SameButDir(z[k], s[k]) /\ (k # n => z[k] = s[k])
<1>1. z \in Seq(Rows) /\ DOMAIN z = DOMAIN s /\ z[n] = y /\ \A k \in DOMAIN s : k # n => z[k] = s[k]
  BY RowSet
<1> QED BY <1>1 DEF SameButDir

\* The rows that StartInstance leaves.
StartWrote(done) ==
    \/ rows' = rows /\ instRow' = instRow /\ ~done
    \/ \E n \in LatestByInstance : DirChanged(n) /\ (done => rows'[n].dir) /\ instRow'
    \/ LatestByInstance = {} /\ Extended(Channel0) /\ (done => rows'[Len(rows) + 1].dir) /\ instRow'

LEMMA StartWrites ==
    ASSUME rows \in Seq(Rows), NEW n \in 1 .. Len(rows) + 1, NEW t \in Now, NEW ch \in Channels,
           \/ n \in LatestByInstance /\ ch = rows[n].ch
           \/ n = Len(rows) + 1 /\ LatestByInstance = {} /\ ch = Channel0,
           NEW kept, kept = IF n \in DOMAIN rows THEN WithDir(n) ELSE Insert(ch, t),
           instRow'
    PROVE  /\ rows' = kept => StartWrote(TRUE)
           /\ rows' = [kept EXCEPT ![n].dir = FALSE] => StartWrote(FALSE)
<1>1. /\ Len(rows) \in Nat /\ n \in Nat \ {0} /\ DOMAIN rows = 1 .. Len(rows)
      /\ \A k \in DOMAIN rows : rows[k] \in Rows
  BY NowIsTime, RowUpdates
<1>2. ASSUME NEW x \in Rows, NEW b \in BOOLEAN, NEW y, y = [x EXCEPT !.dir = b]
      PROVE  y \in Rows /\ y.ch = x.ch /\ y.at = x.at /\ y.status = x.status /\ y.dir = b
  BY <1>2 DEF Rows
<1>3. CASE n \in DOMAIN rows
  <2>1. n \in LatestByInstance
    BY <1>1, <1>3
  <2>2. PICK x : x = [rows[n] EXCEPT !.dir = TRUE]
    OBVIOUS
  <2>3. kept = [rows EXCEPT ![n] = x]
    BY <1>3, <2>2 DEF WithDir
  <2>a. x \in Rows /\ SameButDir(x, rows[n]) /\ x.dir = TRUE
    BY <1>1, <1>3, <2>2, DirField
  <2>4. /\ kept \in Seq(Rows) /\ DOMAIN kept = DOMAIN rows /\ kept[n] = x
        /\ \A k \in DOMAIN rows : SameButDir(kept[k], rows[k]) /\ (k # n => kept[k] = rows[k])
    BY <1>3, <2>3, <2>a, DirSet
  <2>b. PICK y : y = [kept[n] EXCEPT !.dir = FALSE]
    OBVIOUS
  <2>c. y \in Rows /\ SameButDir(y, kept[n])
    BY <1>3, <2>4, <2>a, <2>b, DirField
  <2>5. PICK z : z = [kept EXCEPT ![n] = y]
    OBVIOUS
  <2>6. /\ DOMAIN z = DOMAIN kept
        /\ \A k \in DOMAIN kept : SameButDir(z[k], kept[k]) /\ (k # n => z[k] = kept[k])
    BY <1>3, <2>4, <2>5, <2>c, DirSet
  <2>d. [kept EXCEPT ![n].dir = FALSE] = z
    BY <2>5, <2>b
  <2>7. rows' = kept => StartWrote(TRUE)
    BY <1>3, <2>1, <2>4, <2>a DEF StartWrote, DirChanged, SameButDir
  <2>8. rows' = z => StartWrote(FALSE)
    <3>1. DOMAIN z = DOMAIN rows /\ \A k \in DOMAIN rows : SameButDir(z[k], rows[k]) /\ (k # n => z[k] = rows[k])
      BY <2>4, <2>6 DEF SameButDir
    <3>2. rows' = z => DirChanged(n)
      BY <1>3, <3>1 DEF DirChanged, SameButDir
    <3> QED BY <2>1, <3>2 DEF StartWrote
  <2> QED BY <2>7, <2>8, <2>d
<1>4. CASE n \notin DOMAIN rows
  <2>1. n = Len(rows) + 1 /\ LatestByInstance = {} /\ ch = Channel0 /\ kept = Insert(ch, t)
    BY <1>1, <1>4 DEF LatestByInstance, Latest, Sids
  <2>2. /\ kept \in Seq(Rows) /\ Len(kept) = n /\ DOMAIN kept = 1 .. n
        /\ \A k \in DOMAIN rows : kept[k] = rows[k]
        /\ kept[n].ch = ch /\ kept[n].status = "running" /\ kept[n].at = t /\ kept[n].dir
    BY <2>1, InsertRow
  <2>3. rows' = kept => StartWrote(TRUE)
    BY <1>1, <2>1, <2>2 DEF StartWrote, Extended
  <2>4. PICK y : y = [kept[n] EXCEPT !.dir = FALSE]
    OBVIOUS
  <2>5. kept[n] \in Rows /\ n \in DOMAIN kept
    BY <1>1, <2>2
  <2>6. y \in Rows /\ y.ch = ch /\ y.at = t /\ y.status = "running"
    BY <1>2, <2>2, <2>4, <2>5
  <2>7. PICK z : z = [kept EXCEPT ![n] = y]
    OBVIOUS
  <2>8. DOMAIN z = 1 .. n /\ z[n] = y /\ \A k \in DOMAIN kept : k # n => z[k] = kept[k]
    BY <2>2, <2>5, <2>6, <2>7, RowSet
  <2>9. rows' = z => StartWrote(FALSE)
    <3>1. \A k \in DOMAIN rows : z[k] = rows[k]
      BY <1>1, <2>1, <2>2, <2>8
    <3>2. rows' = z => Extended(Channel0)
      BY <1>1, <2>1, <2>6, <2>8, <3>1 DEF Extended
    <3> QED BY <2>1, <3>2 DEF StartWrote
  <2>10. [kept EXCEPT ![n].dir = FALSE] = z
    BY <2>4, <2>7
  <2> QED BY <2>3, <2>9, <2>10
<1> QED BY <1>3, <1>4

\* A caller c ends a spawn with the worker w, whose watcher starts.
Wakes(c, w) ==
    /\ w \in Threads /\ w # c /\ th[w] = Idle /\ th'[w] = Watching
    /\ \A k \in Threads \ {c, w} : th'[k] = th[k]

LEMMA EnsureSpawnDoes ==
    ASSUME SlotsInv, NEW c \in Callers, EnsureSpawn(c)
    PROVE  /\ c \in Threads /\ th[c].pc = "spawn" /\ th[c].kind = "send"
           /\ RegistryStays /\ closing' = closing /\ instRow' = instRow
           /\ rows' = rows \/ (MustCreate(th[c].ch) /\ instRow /\ Inserted(th[c].ch))
           /\ \/ th'[c] = Idle /\ Alone(c) /\ slot' = slot /\ proc' = proc
              \/ \E w \in Workers, n \in Nat :
                   /\ Grow(w, th[c].obj, n, th[c].ch) /\ Wakes(c, w)
                   /\ Goes(c, "acquire", th[c].obj, th[c].slot, th[c].handles)
                   /\ \/ n \in Resumable(th[c].ch) /\ rows' = rows
                      \/ n = Len(rows) + 1 /\ Inserted(th[c].ch)
<1>1. /\ c \in Threads /\ c \notin Workers /\ "acquire" \in Pcs
      /\ th[c].pc = "spawn" /\ th[c].kind = "send"
  BY SlotsAssumption DEF Threads, Pcs, EnsureSpawn, At
<1>2. /\ th[c] \in ThreadRecs /\ th \in [Threads -> ThreadRecs] /\ KindOK(c, th[c]) /\ MapRefs(th[c])
      /\ rows \in Seq(Rows)
  BY <1>1, SlotsFacts DEF SlotsInv, TypeOK
<1>3. /\ th[c].obj \in Objs /\ th[c].ch \in Channels /\ index[th[c].obj][th[c].ch] = 0
  BY <1>1, <1>2 DEF KindOK, MapRefs
<1>4. RegistryStays /\ closing' = closing /\ instRow' = instRow
  BY DEF EnsureSpawn, regVars, RegistryStays
<1>5. CASE /\ Return(c) /\ UNCHANGED <<index, slot, proc>>
           /\ rows' = rows \/ \E t \in Now : MustCreate(th[c].ch) /\ instRow /\ rows' = Insert(th[c].ch, t)
  <2>1. rows' = rows \/ (MustCreate(th[c].ch) /\ instRow /\ Inserted(th[c].ch))
    BY <1>2, <1>3, <1>5, IsInserted
  <2>2. th'[c] = Idle /\ Alone(c)
    BY <1>1, <1>2, <1>5 DEF Return, Alone
  <2> QED BY <1>1, <1>4, <1>5, <2>1, <2>2
<1>6. ASSUME NEW n \in 1 .. Len(rows) + 1, NEW t \in Now, NEW w \in Unspawned,
             \/ n \in Resumable(th[c].ch) /\ rows' = rows
             \/ n = Len(rows) + 1 /\ MustCreate(th[c].ch) /\ instRow /\ rows' = Insert(th[c].ch, t),
             slot' = NewSlot(slot, w, th[c].obj, n, th[c].ch),
             proc' = [proc EXCEPT ![w] = "up"],
             th' = [th EXCEPT ![c].pc = "acquire", ![c].sid = n, ![w] = Watching]
      PROVE  /\ rows' = rows \/ (MustCreate(th[c].ch) /\ instRow /\ Inserted(th[c].ch))
             /\ w \in Workers /\ n \in Nat
             /\ Grow(w, th[c].obj, n, th[c].ch) /\ Wakes(c, w)
             /\ Goes(c, "acquire", th[c].obj, th[c].slot, th[c].handles)
             /\ \/ n \in Resumable(th[c].ch) /\ rows' = rows
                \/ n = Len(rows) + 1 /\ Inserted(th[c].ch)
  <2>1. n \in Resumable(th[c].ch) => n \in DOMAIN rows /\ rows[n].ch = th[c].ch
    BY DEF Resumable, LatestByChannel, Latest, Sids
  <2>2. /\ RowsKept /\ n \in DOMAIN rows' /\ rows'[n].ch = th[c].ch
        /\ n \in Nat \ {0}
    BY <1>2, <1>3, <1>6, <2>1, SessionRow
  <2>3. Grow(w, th[c].obj, n, th[c].ch)
    BY <1>3, <1>6, <2>2, SlotAdded
  <2>4. \/ n \in Resumable(th[c].ch) /\ rows' = rows
        \/ n = Len(rows) + 1 /\ Inserted(th[c].ch) /\ MustCreate(th[c].ch) /\ instRow
    BY <1>2, <1>3, <1>6, IsInserted
  <2>5. PICK r : r = [th[c] EXCEPT !.pc = "acquire", !.sid = n]
    OBVIOUS
  <2>6. Moved(r, th[c], "acquire", th[c].obj, th[c].slot, th[c].todo)
    BY <1>1, <1>2, <2>2, <2>5, PcSidFields
  <2>7. r.handles = th[c].handles
    BY <1>2, <2>5, HandlesStay
  <2>8. w \in Workers /\ w \in Threads /\ w # c /\ th[w] = Idle
    BY <1>1 DEF Unspawned, Threads, SlotsInv, WorkerOK
  <2>9. th' = [[th EXCEPT ![c] = r] EXCEPT ![w] = Watching]
    BY <1>1, <1>2, <1>6, <2>5, <2>8
  <2>10. /\ th'[c] = r /\ th'[w] = Watching /\ \A k \in Threads \ {c, w} : th'[k] = th[k]
    BY <1>1, <1>2, <2>8, <2>9
  <2>11. Wakes(c, w)
    BY <2>8, <2>10 DEF Wakes
  <2>12. Goes(c, "acquire", th[c].obj, th[c].slot, th[c].handles)
    BY <2>6, <2>7, <2>10 DEF Goes, Moved
  <2> QED BY <2>2, <2>3, <2>4, <2>8, <2>11, <2>12
<1>7. \/ /\ Return(c) /\ UNCHANGED <<index, slot, proc>>
         /\ rows' = rows \/ \E t \in Now : MustCreate(th[c].ch) /\ instRow /\ rows' = Insert(th[c].ch, t)
      \/ \E n \in 1 .. Len(rows) + 1, t \in Now, w \in Unspawned :
           /\ \/ n \in Resumable(th[c].ch) /\ rows' = rows
              \/ n = Len(rows) + 1 /\ MustCreate(th[c].ch) /\ instRow /\ rows' = Insert(th[c].ch, t)
           /\ slot' = NewSlot(slot, w, th[c].obj, n, th[c].ch)
           /\ proc' = [proc EXCEPT ![w] = "up"]
           /\ th' = [th EXCEPT ![c].pc = "acquire", ![c].sid = n, ![w] = Watching]
  BY DEF EnsureSpawn
<1>8. CASE \E n \in 1 .. Len(rows) + 1, t \in Now, w \in Unspawned :
           /\ \/ n \in Resumable(th[c].ch) /\ rows' = rows
              \/ n = Len(rows) + 1 /\ MustCreate(th[c].ch) /\ instRow /\ rows' = Insert(th[c].ch, t)
           /\ slot' = NewSlot(slot, w, th[c].obj, n, th[c].ch)
           /\ proc' = [proc EXCEPT ![w] = "up"]
           /\ th' = [th EXCEPT ![c].pc = "acquire", ![c].sid = n, ![w] = Watching]
  <2>1. PICK n \in 1 .. Len(rows) + 1, t \in Now, w \in Unspawned :
           /\ \/ n \in Resumable(th[c].ch) /\ rows' = rows
              \/ n = Len(rows) + 1 /\ MustCreate(th[c].ch) /\ instRow /\ rows' = Insert(th[c].ch, t)
           /\ slot' = NewSlot(slot, w, th[c].obj, n, th[c].ch)
           /\ proc' = [proc EXCEPT ![w] = "up"]
           /\ th' = [th EXCEPT ![c].pc = "acquire", ![c].sid = n, ![w] = Watching]
    BY <1>8
  <2>2. /\ rows' = rows \/ (MustCreate(th[c].ch) /\ instRow /\ Inserted(th[c].ch))
        /\ w \in Workers /\ n \in Nat
        /\ Grow(w, th[c].obj, n, th[c].ch) /\ Wakes(c, w)
        /\ Goes(c, "acquire", th[c].obj, th[c].slot, th[c].handles)
        /\ \/ n \in Resumable(th[c].ch) /\ rows' = rows
           \/ n = Len(rows) + 1 /\ Inserted(th[c].ch)
    BY <1>6, <2>1
  <2> QED BY <1>1, <1>4, <2>2
<1> QED BY <1>5, <1>7, <1>8

LEMMA ClearCreateDoes ==
    ASSUME SlotsInv, NEW c \in Callers, ClearCreate(c)
    PROVE  /\ c \in Threads /\ th[c].pc = "create" /\ th'[c] = Idle /\ RegistryStays /\ instRow' = instRow
           /\ \/ /\ Alone(c) /\ slot' = slot /\ proc' = proc /\ closing' = closing \cup th[c].handles
                 /\ rows' = rows /\ ("clear" \in Faults \/ Unspawned = {})
              \/ /\ Alone(c) /\ slot' = slot /\ proc' = proc /\ closing' = closing
                 /\ "clear_early" \in Faults \/ ~instRow
                 /\ rows' = rows \/ (instRow /\ Inserted(th[c].ch))
              \/ \E w \in Workers :
                   /\ Grow(w, th[c].obj, Len(rows) + 1, th[c].ch) /\ Wakes(c, w)
                   /\ closing' = closing \cup th[c].handles /\ Inserted(th[c].ch) /\ instRow
<1>1. c \in Threads /\ c \notin Workers /\ th[c].pc = "create"
  BY SlotsAssumption DEF Threads, ClearCreate, At
<1>2. /\ th[c] \in ThreadRecs /\ th \in [Threads -> ThreadRecs] /\ KindOK(c, th[c]) /\ MapRefs(th[c])
      /\ rows \in Seq(Rows)
  BY <1>1, SlotsFacts DEF SlotsInv, TypeOK
<1>3. /\ th[c].obj \in Objs /\ th[c].ch \in Channels /\ index[th[c].obj][th[c].ch] = 0
  BY <1>1, <1>2 DEF KindOK, MapRefs, ObjPcs
<1>4. RegistryStays /\ instRow' = instRow
  BY DEF ClearCreate, regVars, RegistryStays
<1>5. Return(c) => th'[c] = Idle /\ Alone(c)
  BY <1>1, <1>2 DEF Return, Alone
<1>6. CASE /\ Return(c) /\ closing' = closing \cup th[c].handles /\ MayFail("clear")
           /\ UNCHANGED <<rows, slot, index, proc>>
  BY <1>1, <1>4, <1>5, <1>6 DEF MayFail
<1>7. CASE /\ Return(c)
           /\ "clear_early" \in Faults \/ ~instRow
           /\ UNCHANGED <<closing, slot, index, proc>>
           /\ rows' = rows \/ \E t \in Now : instRow /\ rows' = Insert(th[c].ch, t)
  <2>1. rows' = rows \/ (instRow /\ Inserted(th[c].ch))
    BY <1>2, <1>3, <1>7, IsInserted
  <2> QED BY <1>1, <1>4, <1>5, <1>7, <2>1
<1>8. ASSUME NEW t \in Now, NEW w \in Unspawned,
             instRow, rows' = Insert(th[c].ch, t), closing' = closing \cup th[c].handles,
             slot' = NewSlot(slot, w, th[c].obj, Len(rows) + 1, th[c].ch),
             proc' = [proc EXCEPT ![w] = "up"], th' = [th EXCEPT ![c] = Idle, ![w] = Watching]
      PROVE  /\ th'[c] = Idle /\ w \in Workers
             /\ Grow(w, th[c].obj, Len(rows) + 1, th[c].ch) /\ Wakes(c, w) /\ Inserted(th[c].ch)
  <2>1. Len(rows) + 1 \in 1 .. Len(rows) + 1
    BY <1>2
  <2>2. /\ RowsKept /\ Len(rows) + 1 \in DOMAIN rows' /\ rows'[Len(rows) + 1].ch = th[c].ch
        /\ Len(rows) + 1 \in Nat \ {0}
    BY <1>2, <1>3, <1>8, <2>1, SessionRow
  <2>3. Grow(w, th[c].obj, Len(rows) + 1, th[c].ch)
    BY <1>3, <1>8, <2>2, SlotAdded
  <2>4. Inserted(th[c].ch)
    BY <1>2, <1>3, <1>8, IsInserted
  <2>8. w \in Workers /\ w \in Threads /\ w # c /\ th[w] = Idle
    BY <1>1 DEF Unspawned, Threads, SlotsInv, WorkerOK
  <2>10. /\ th'[c] = Idle /\ th'[w] = Watching /\ \A k \in Threads \ {c, w} : th'[k] = th[k]
    BY <1>1, <1>2, <1>8, <2>8
  <2>11. Wakes(c, w)
    BY <2>8, <2>10 DEF Wakes
  <2> QED BY <2>3, <2>4, <2>8, <2>10, <2>11
<1>9. CASE \E t \in Now, w \in Unspawned :
             /\ instRow /\ rows' = Insert(th[c].ch, t) /\ closing' = closing \cup th[c].handles
             /\ slot' = NewSlot(slot, w, th[c].obj, Len(rows) + 1, th[c].ch)
             /\ proc' = [proc EXCEPT ![w] = "up"] /\ th' = [th EXCEPT ![c] = Idle, ![w] = Watching]
  BY <1>1, <1>4, <1>8, <1>9
<1> QED BY <1>6, <1>7, <1>9 DEF ClearCreate

LEMMA StartSpawnDoes ==
    ASSUME SlotsInv, NEW c \in Callers, StartSpawn(c)
    PROVE  /\ c \in Threads /\ th[c].pc = "spawn" /\ th[c].kind = "start" /\ Alone(c)
           /\ registry' = registry /\ closing' = closing
           /\ \/ /\ status' = status /\ slot' = slot /\ proc' = proc
                 /\ "start" \in Faults \/ Unspawned = {} \/ Unused = {}
                 /\ Goes(c, "reregister", th[c].obj, th[c].slot, th[c].handles)
                 /\ StartWrote(FALSE) \/ StartWrote(TRUE)
              \/ \E w \in Workers, o \in Objs, n \in Nat, ch \in Channels :
                   /\ status[o] = "none" /\ status' = [status EXCEPT ![o] = "running"]
                   /\ Grow(w, o, n, ch) /\ Goes(c, "register", th[c].obj, w, th[c].handles)
                   /\ n \in LatestByInstance \/ n = Len(rows) + 1
                   /\ StartWrote(TRUE)
<1>1. /\ c \in Threads /\ c \notin Workers /\ "register" \in Pcs /\ "reregister" \in Pcs
      /\ th[c].pc = "spawn" /\ th[c].kind = "start"
  BY SlotsAssumption DEF Threads, Pcs, StartSpawn, At
<1>2. th[c] \in ThreadRecs /\ th \in [Threads -> ThreadRecs] /\ rows \in Seq(Rows)
  BY <1>1, SlotsFacts DEF SlotsInv, TypeOK
<1>5. registry' = registry /\ closing' = closing
  BY DEF StartSpawn
<1>6. PICK n \in 1 .. Len(rows) + 1, ch \in Channels, t \in Now :
         /\ \/ n \in LatestByInstance /\ ch = rows[n].ch
            \/ n = Len(rows) + 1 /\ LatestByInstance = {} /\ ch = Channel0
         /\ LET kept == IF n \in DOMAIN rows THEN WithDir(n) ELSE Insert(ch, t) IN
            \/ \E o \in Unused, w \in Unspawned :
                 /\ rows' = kept /\ instRow' = TRUE
                 /\ status' = [status EXCEPT ![o] = "running"]
                 /\ slot' = NewSlot(slot, w, o, n, ch)
                 /\ proc' = [proc EXCEPT ![w] = "up"]
                 /\ th' = [th EXCEPT ![c].pc = "register", ![c].slot = w]
            \/ /\ MayFail("start") \/ Unused = {}
               /\ \/ rows' = rows /\ instRow' = instRow
                  \/ rows' = kept /\ instRow' = TRUE
                  \/ rows' = [kept EXCEPT ![n].dir = FALSE] /\ instRow' = TRUE
               /\ Goto(c, "reregister")
               /\ UNCHANGED <<status, slot, index, proc>>
  BY DEF StartSpawn, dbVars
<1>7. PICK kept : kept = IF n \in DOMAIN rows THEN WithDir(n) ELSE Insert(ch, t)
  OBVIOUS
<1>8. /\ rows' = kept => /\ RowsKept /\ n \in DOMAIN rows' /\ rows'[n].ch = ch
      /\ n \in Nat \ {0}
  BY <1>2, <1>6, <1>7, StartRows
<1>a. /\ rows' = kept /\ instRow' = TRUE => StartWrote(TRUE)
      /\ rows' = [kept EXCEPT ![n].dir = FALSE] /\ instRow' = TRUE => StartWrote(FALSE)
  BY <1>2, <1>6, <1>7, StartWrites
<1>9. ASSUME NEW o \in Unused, NEW w \in Unspawned,
             rows' = kept, instRow' = TRUE, status' = [status EXCEPT ![o] = "running"],
             slot' = NewSlot(slot, w, o, n, ch),
             proc' = [proc EXCEPT ![w] = "up"],
             th' = [th EXCEPT ![c].pc = "register", ![c].slot = w]
      PROVE  /\ Alone(c) /\ w \in Workers /\ o \in Objs /\ n \in Nat
             /\ status[o] = "none" /\ status' = [status EXCEPT ![o] = "running"]
             /\ Grow(w, o, n, ch) /\ Goes(c, "register", th[c].obj, w, th[c].handles)
             /\ n \in LatestByInstance \/ n = Len(rows) + 1
             /\ StartWrote(TRUE)
  <2>1. o \in Objs /\ status[o] = "none" /\ w \in Workers
    BY <1>1 DEF Unused, Unspawned
  <2>2. index[o][ch] = 0
    <3>1. SUFFICES ASSUME index[o][ch] # 0 PROVE FALSE
      OBVIOUS
    <3>2. PICK v \in Workers : IsMapped(v) /\ slot[v].obj = o
      BY <2>1, <3>1 DEF SlotsInv, IndexOK
    <3> QED BY <2>1, <3>2 DEF SlotsInv, SlotOK, IsMapped
  <2>3. PICK r : r = [th[c] EXCEPT !.pc = "register", !.slot = w]
    OBVIOUS
  <2>4. Moved(r, th[c], "register", th[c].obj, w, th[c].todo)
    BY <1>1, <1>2, <2>1, <2>3, PcSlotFields
  <2>5. r.handles = th[c].handles
    BY <1>2, <2>3, HandlesStay
  <2>6. th' = [th EXCEPT ![c] = r]
    BY <1>2, <1>9, <2>3
  <2>7. th'[c] = r /\ Alone(c)
    BY <1>1, <1>2, <2>6 DEF Alone
  <2>8. Goes(c, "register", th[c].obj, w, th[c].handles)
    BY <2>4, <2>5, <2>7 DEF Goes, Moved
  <2>9. Grow(w, o, n, ch)
    BY <1>8, <1>9, <2>1, <2>2, SlotAdded
  <2> QED BY <1>6, <1>8, <1>9, <1>a, <2>1, <2>7, <2>8, <2>9
<1>10. CASE /\ MayFail("start") \/ Unused = {}
            /\ \/ rows' = rows /\ instRow' = instRow
               \/ rows' = kept /\ instRow' = TRUE
               \/ rows' = [kept EXCEPT ![n].dir = FALSE] /\ instRow' = TRUE
            /\ Goto(c, "reregister")
            /\ UNCHANGED <<status, slot, index, proc>>
  <2>1. StartWrote(FALSE) \/ StartWrote(TRUE)
    <3>1. rows' = rows /\ instRow' = instRow => StartWrote(FALSE)
      BY DEF StartWrote
    <3> QED BY <1>10, <1>a, <3>1
  <2>2. PICK r : r = [th[c] EXCEPT !.pc = "reregister"]
    OBVIOUS
  <2>3. Moved(r, th[c], "reregister", th[c].obj, th[c].slot, th[c].todo)
    BY <1>1, <1>2, <2>2, PcField
  <2>4. r.handles = th[c].handles
    BY <1>2, <2>2, HandlesStay
  <2>5. th'[c] = r /\ Alone(c)
    BY <1>1, <1>2, <1>10, <2>2 DEF Alone, Goto
  <2>6. Goes(c, "reregister", th[c].obj, th[c].slot, th[c].handles)
    BY <2>3, <2>4, <2>5 DEF Goes, Moved
  <2> QED BY <1>1, <1>5, <1>10, <2>1, <2>5, <2>6 DEF MayFail
<1>11. CASE \E o \in Unused, w \in Unspawned :
              /\ rows' = kept /\ instRow' = TRUE
              /\ status' = [status EXCEPT ![o] = "running"]
              /\ slot' = NewSlot(slot, w, o, n, ch)
              /\ proc' = [proc EXCEPT ![w] = "up"]
              /\ th' = [th EXCEPT ![c].pc = "register", ![c].slot = w]
  BY <1>1, <1>5, <1>9, <1>11
<1> QED BY <1>6, <1>7, <1>10, <1>11

(***************************************************************************)
(* At most one struct runs.                                                *)
(***************************************************************************)
LEMMA RestRuns ==
    ASSUME NEW k, MayCall \in [Callers -> SUBSET Calls]
    PROVE  RunRefs(k, Idle)' /\ (k \in Workers => RunRefs(k, Watching)')
<1>1. PICK q : q = Idle
  OBVIOUS
<1>2. q.pc = "idle" /\ q.kind = "idle"
  BY <1>1, IdleFields
<1>3. RunRefs(k, q)'
  BY <1>2 DEF RunRefs, Starting, Holds
<1>4. PICK r : r = Watching
  OBVIOUS
<1>5. r.pc = "wait" /\ r.kind = "watch"
  BY <1>4, WatchingFields DEF Begun
<1>6. k \in Workers => RunRefs(k, r)'
  BY <1>5, SlotsAssumption DEF RunRefs, Starting, Holds
<1> QED BY <1>1, <1>3, <1>4, <1>6

\* Only one thread is in StartInstance after its first look.
LEMMA Starters ==
    ASSUME OneStarter, RunInv, NEW k \in Threads, NEW t \in Threads,
           Starting(th[k]) \/ th[k].pc = "unregister", Starting(th[t]) \/ th[t].pc = "unregister"
    PROVE  k = t
<1>1. /\ k \in Callers /\ th[k].kind = "start" /\ th[k].kind \in MayCall[k] \cup {"idle"}
      /\ t \in Callers /\ th[t].kind = "start" /\ th[t].kind \in MayCall[t] \cup {"idle"}
  BY DEF RunInv, RunRefs
<1>2. "start" \in MayCall[k] \cap MayCall[t]
  BY <1>1
<1> QED BY <1>1, <1>2 DEF OneStarter

\* No struct begins to run and no slot is added.
OnlyStops == \A o \in Objs : status'[o] = "running" => status[o] = "running"
OnlyShrinks ==
    /\ \A w \in Workers : InMaps(w)' => InMaps(w)
    /\ \A w \in Workers : slot[w] # Nil => slot'[w].obj = slot[w].obj

LEMMA RunShrinks ==
    ASSUME SlotsInv, RunInv, NEW t \in Threads, OthersStay(t), OnlyStops, OnlyShrinks,
           NEW r, th'[t] = r, RunRefs(t, r)',
           registry' \in {Nil, registry} \/ \A k \in Threads \ {t} : ~Starting(th[k]),
           \A k \in Threads \ {t} : Holds(th[k]) /\ th[k].pc \notin {"compare", "detach"} =>
             status'[th[k].obj] = status[th[k].obj],
           \A w \in Workers : InMaps(w)' => status'[slot[w].obj] = "running",
           registry' # Nil => status'[registry'] = "running" \/ NoneRuns'
    PROVE  RunInv'
<1>1. ASSUME NEW k \in Threads PROVE RunRefs(k, th[k])'
  <2>1. CASE k = t
    BY <2>1
  <2>2. CASE k # t /\ Woken(k)
    BY <2>2, RestRuns, SlotsAssumption DEF Woken
  <2>3. CASE k # t /\ th'[k] = th[k]
    <3>1. RunRefs(k, th[k])
      BY DEF RunInv
    <3>2. NoneRuns => NoneRuns'
      BY DEF NoneRuns, OnlyStops
    <3>3. Starting(th[k]) /\ registry = Nil => registry' = Nil
      BY <2>3
    <3>4. th[k].pc = "detach" => \A w \in Workers : InMaps(w)' /\ slot'[w].obj = th[k].obj => w \in th[k].todo
      BY <3>1 DEF RunRefs, OnlyShrinks, InMaps
    <3>6. th[k].pc = "register" => slot'[th[k].slot].obj = slot[th[k].slot].obj
      BY SlotsFacts DEF OnlyShrinks, SlotRefs, KindOK, SlotPcs
    <3>7. th[k].pc = "register" => \A o \in Objs : status'[o] = "running" => slot'[th[k].slot].obj = o
      BY <3>1, <3>6 DEF RunRefs, OnlyStops
    <3>5. Holds(th[k]) /\ th[k].pc \notin {"compare", "detach"} => status'[th[k].obj] = "running"
      BY <2>3, <3>1 DEF RunRefs
    <3> QED BY <2>3, <3>1, <3>2, <3>3, <3>4, <3>5, <3>7 DEF RunRefs
  <2> QED BY <2>1, <2>2, <2>3 DEF OthersStay
<1>2. \A o, p \in Objs : status'[o] = "running" /\ status'[p] = "running" => o = p
  BY DEF RunInv, OnlyStops
<1>3. \A w \in Workers : InMaps(w)' => status'[slot'[w].obj] = "running"
  BY DEF OnlyShrinks, InMaps
<1> QED BY <1>1, <1>2, <1>3 DEF RunInv

LEMMA AloneStays == ASSUME NEW t, Alone(t) PROVE OthersStay(t)
BY DEF Alone, OthersStay

\* The maps and the registry stay as they are.
LEMMA RunStill ==
    ASSUME SlotsInv, RunInv, NEW t \in Threads, OthersStay(t), RegistryStays,
           slot' = slot, NEW r, th'[t] = r, RunRefs(t, r)'
    PROVE  RunInv'
<1>1. OnlyStops /\ OnlyShrinks
  BY DEF OnlyStops, OnlyShrinks, RegistryStays, InMaps
<1>2. \A w \in Workers : InMaps(w)' => status'[slot[w].obj] = "running"
  BY DEF RegistryStays, InMaps, RunInv
<1>3. registry' # Nil => status'[registry'] = "running" \/ NoneRuns'
  BY DEF RunInv, RegistryStays, NoneRuns
<1>4. \A k \in Threads \ {t} : Holds(th[k]) /\ th[k].pc \notin {"compare", "detach"} =>
             status'[th[k].obj] = status[th[k].obj]
  BY DEF RegistryStays
<1>5. registry' \in {Nil, registry}
  BY DEF RegistryStays
<1> QED BY <1>1, <1>2, <1>3, <1>4, <1>5, RunShrinks

LEMMA CalmRuns ==
    ASSUME SlotsInv, RunInv, NEW t \in Threads, Calm(t)
    PROVE  RunInv'
<1>1. RegistryStays /\ slot' = slot /\ OthersStay(t) /\ FreeTo(t, th'[t])
  BY AloneStays DEF Calm, Still, RegistryStays
<1>2. PICK r : r = th'[t]
  OBVIOUS
<1>3. RunRefs(t, th[t]) /\ KindOK(t, th[t])
  BY SlotsFacts DEF RunInv
<1>4. CASE r = Idle
  <2>1. RunRefs(t, Idle)'
    BY RestRuns, SlotsAssumption
  <2>2. RunRefs(t, r)'
    BY <1>4, <2>1
  <2> QED BY <1>1, <1>2, <2>2, RunStill
<1>5. CASE Begins(t, r)
  <2>1. RunRefs(t, r)'
    BY <1>5 DEF Begins, RunRefs, Starting, Holds
  <2> QED BY <1>1, <1>2, <2>1, RunStill
<1>6. CASE r.kind = th[t].kind /\ (Looks(t, r) \/ Uses(t, r))
  <2>1. RunRefs(t, r)'
    BY <1>3, <1>6 DEF Looks, Uses, RunRefs, Starting, Holds
  <2> QED BY <1>1, <1>2, <2>1, RunStill
<1>7. CASE r.kind = th[t].kind /\ StartLooks(t, r)
  <2>1. registry \in Objs
    BY <1>7 DEF StartLooks, SlotsInv, TypeOK
  <2>2. NoneRuns'
    BY <1>1, <1>7, <2>1 DEF StartLooks, RunInv, RegistryStays, NoneRuns
  <2>3. RunRefs(t, r)'
    BY <1>3, <1>7, <2>2 DEF StartLooks, RunRefs, Starting, Holds
  <2> QED BY <1>1, <1>2, <2>3, RunStill
<1>8. CASE r.kind = th[t].kind /\ Takes(t, r)
  <2>1. status'[r.obj] = "running"
    BY <1>1, <1>8 DEF Takes, RegistryStays
  <2>2. RunRefs(t, r)'
    BY <1>3, <1>8, <2>1 DEF Takes, RunRefs, Starting, Holds
  <2> QED BY <1>1, <1>2, <2>2, RunStill
<1>9. CASE r.kind = th[t].kind /\ Snapshots(t, r)
  <2>1. \A w \in Workers : InMaps(w)' /\ slot'[w].obj = r.obj => w \in r.todo
    BY <1>1, <1>9 DEF Snapshots, InMaps, Mapped
  <2>2. RunRefs(t, r)'
    BY <1>3, <1>9, <2>1 DEF Snapshots, RunRefs, Starting, Holds
  <2> QED BY <1>1, <1>2, <2>2, RunStill
<1> QED BY <1>1, <1>2, <1>4, <1>5, <1>6, <1>7, <1>8, <1>9 DEF FreeTo, Returns, Onward

\* A slot loses its loop or its place.
LEMMA TrimRuns ==
    ASSUME SlotsInv, RunInv, NEW t \in Threads, Alone(t), RegistryStays, NEW w, Trim(w),
           InMaps(w)' => InMaps(w), NEW r, th'[t] = r, RunRefs(t, r)'
    PROVE  RunInv'
<1>1. OthersStay(t)
  BY AloneStays
<1>2. OnlyStops /\ OnlyShrinks
  BY DEF OnlyStops, OnlyShrinks, RegistryStays, Trim, InMaps
<1>3. \A v \in Workers : InMaps(v)' => status'[slot[v].obj] = "running"
  BY <1>2 DEF RegistryStays, OnlyShrinks, RunInv
<1>4. registry' # Nil => status'[registry'] = "running" \/ NoneRuns'
  BY DEF RunInv, RegistryStays, NoneRuns
<1>5. \A k \in Threads \ {t} : Holds(th[k]) /\ th[k].pc \notin {"compare", "detach"} =>
             status'[th[k].obj] = status[th[k].obj]
  BY DEF RegistryStays
<1>6. registry' \in {Nil, registry}
  BY DEF RegistryStays
<1> QED BY <1>1, <1>2, <1>3, <1>4, <1>5, <1>6, RunShrinks

LEMMA EnsureAliveRuns ==
    ASSUME SlotsInv, RunInv, NEW c \in Callers, EnsureAlive(c)
    PROVE  RunInv'
<1>1. c \in Threads /\ th[c].pc = "alive" /\ RegistryStays /\ Alone(c)
  BY EnsureAliveDoes
<1>2. RunRefs(c, th[c]) /\ KindOK(c, th[c])
  BY <1>1, SlotsFacts DEF RunInv
<1>a. PICK r, v : r = th'[c] /\ v = th[c].slot
  OBVIOUS
<1>3. CASE slot' = slot /\ Goes(c, "acquire", th[c].obj, th[c].slot, th[c].handles)
  <2>1. RunRefs(c, r)'
    BY <1>1, <1>2, <1>3, <1>a DEF Goes, RunRefs, Starting, Holds
  <2> QED BY <1>1, <1>3, <1>a, <2>1, RunStill, AloneStays
<1>4. CASE /\ Trim(th[c].slot) /\ ~slot'[th[c].slot].live
           /\ Goes(c, "spawn", th[c].obj, th[c].slot, th[c].handles)
  <2>1. RunRefs(c, r)'
    BY <1>1, <1>2, <1>4, <1>a DEF Goes, RunRefs, Starting, Holds, KindOK, RegistryStays
  <2>2. ~InMaps(v)' /\ Trim(v)
    BY <1>4, <1>a DEF InMaps
  <2> QED BY <1>1, <1>a, <2>1, <2>2, TrimRuns
<1> QED BY <1>3, <1>4, EnsureAliveDoes

LEMMA ClearDetachRuns ==
    ASSUME SlotsInv, RunInv, NEW c \in Callers, ClearDetach(c)
    PROVE  RunInv'
<1>1. /\ c \in Threads /\ th[c].pc = "detachOld" /\ RegistryStays /\ Alone(c)
      /\ Trim(th[c].slot) /\ ~slot'[th[c].slot].live
      /\ Goes(c, "create", th[c].obj, th[c].slot, IF slot[th[c].slot].live THEN {th[c].slot} ELSE {})
  BY ClearDetachDoes
<1>2. RunRefs(c, th[c])
  BY <1>1 DEF RunInv
<1>a. PICK r, v : r = th'[c] /\ v = th[c].slot
  OBVIOUS
<1>3. RunRefs(c, r)'
  BY <1>1, <1>2, <1>a DEF Goes, RunRefs, Starting, Holds, RegistryStays
<1>4. ~InMaps(v)' /\ Trim(v)
  BY <1>1, <1>a DEF InMaps
<1> QED BY <1>1, <1>a, <1>3, <1>4, TrimRuns

LEMMA WatchCompareRuns ==
    ASSUME SlotsInv, RunInv, NEW w \in Workers, WatchCompare(w)
    PROVE  RunInv'
<1>1. w \in Threads /\ RegistryStays /\ Alone(w) /\ OthersStay(w)
  BY WatchCompareDoes, AloneStays
<1>a. PICK r : r = th'[w]
  OBVIOUS
<1>2. CASE slot' = slot /\ th'[w] = Idle
  <2>1. RunRefs(w, Idle)'
    BY RestRuns, SlotsAssumption
  <2>2. RunRefs(w, r)'
    BY <1>2, <1>a, <2>1
  <2> QED BY <1>1, <1>2, <1>a, <2>2, RunStill
<1>3. CASE Trim(w) /\ ~slot'[w].mapped /\ (th'[w] = Idle \/ Goes(w, "die", th[w].obj, th[w].slot, th[w].handles))
  <2>1. ~InMaps(w)'
    BY <1>3 DEF InMaps
  <2>2. RunRefs(w, r)'
    <3>1. CASE th'[w] = Idle
      <4>1. RunRefs(w, Idle)'
        BY RestRuns, SlotsAssumption
      <4> QED BY <1>a, <3>1, <4>1
    <3>2. CASE Goes(w, "die", th[w].obj, th[w].slot, th[w].handles)
      BY <1>a, <3>2, SlotsAssumption DEF Goes, RunRefs, Starting, Holds
    <3> QED BY <1>3, <3>1, <3>2
  <2> QED BY <1>1, <1>3, <1>a, <2>1, <2>2, TrimRuns
<1> QED BY <1>2, <1>3, WatchCompareDoes

LEMMA DetachSlotRuns ==
    ASSUME SlotsInv, RunInv, NEW t \in Threads, DetachSlot(t)
    PROVE  RunInv'
<1>1. PICK w \in th[t].todo :
        /\ Trim(w) /\ ~slot'[w].live /\ th'[t].todo = th[t].todo \ {w}
        /\ Goes(t, "detach", th[t].obj, th[t].slot,
                IF slot[w].live THEN th[t].handles \cup {w} ELSE th[t].handles)
  BY DetachSlotDoes
<1>2. th[t].pc = "detach" /\ RegistryStays /\ Alone(t) /\ RunRefs(t, th[t])
  BY DetachSlotDoes DEF RunInv
<1>3. ~InMaps(w)' /\ \A v \in Workers \ {w} : InMaps(v)' => InMaps(v) /\ slot'[v].obj = slot[v].obj
  BY <1>1 DEF InMaps, Trim
<1>a. PICK r : r = th'[t]
  OBVIOUS
<1>4. RunRefs(t, r)'
  BY <1>1, <1>2, <1>3, <1>a DEF Goes, RunRefs, Starting, Holds
<1> QED BY <1>1, <1>2, <1>3, <1>4, <1>a, TrimRuns

LEMMA DetachedRuns ==
    ASSUME SlotsInv, RunInv, NEW t \in Threads, Detached(t)
    PROVE  RunInv'
<1>1. th[t].pc = "detach" /\ th[t].todo = {} /\ slot' = slot
  BY DEF Detached, At, slotVars
<1>2. th[t] \in ThreadRecs /\ th \in [Threads -> ThreadRecs] /\ KindOK(t, th[t]) /\ RunRefs(t, th[t])
  BY SlotsFacts DEF RunInv
<1>3. th[t].obj \in Objs /\ Holds(th[t])
  BY <1>1, <1>2 DEF KindOK, ObjPcs, Holds
<1>4. \/ status' = status /\ registry' = Nil
      \/ status' = [status EXCEPT ![th[t].obj] = "stopped"] /\ registry' = registry
  BY DEF Detached
<1>5. status \in [Objs -> {"none", "running", "stopped"}] /\ registry \in Objs \cup {Nil}
  BY DEF SlotsInv, TypeOK
<1>6. OnlyStops /\ OnlyShrinks
  BY <1>1, <1>3, <1>4, <1>5 DEF OnlyStops, OnlyShrinks, InMaps
<1>7. /\ Alone(t) /\ th'[t].pc \in {"idle", "shutdown"} /\ th'[t].kind \in {"idle", th[t].kind}
  <2>1. CASE Return(t)
    BY <1>2, <2>1, IdleFields DEF Return, Alone
  <2>2. CASE Goto(t, "shutdown")
    <3>1. PICK r : r = [th[t] EXCEPT !.pc = "shutdown"]
      OBVIOUS
    <3>2. Moved(r, th[t], "shutdown", th[t].obj, th[t].slot, th[t].todo)
      BY <1>2, <3>1, PcField DEF Pcs
    <3>3. th'[t] = r /\ Alone(t)
      BY <1>2, <2>2, <3>1 DEF Goto, Alone
    <3> QED BY <3>2, <3>3 DEF Moved
  <2> QED BY <2>1, <2>2 DEF Detached
<1>a. PICK r : r = th'[t]
  OBVIOUS
<1>8. RunRefs(t, r)'
  BY <1>2, <1>7, <1>a DEF RunRefs, Starting, Holds
<1>9. \A k \in Threads \ {t} : Holds(th[k]) /\ th[k].pc \notin {"compare", "detach"} =>
             status'[th[k].obj] = status[th[k].obj]
  <2> TAKE k \in Threads \ {t}
  <2> HAVE Holds(th[k]) /\ th[k].pc \notin {"compare", "detach"}
  <2>1. th[k].obj # th[t].obj
    BY <1>3 DEF SlotsInv, ILock
  <2>2. th[k].obj \in Objs
    BY SlotsFacts DEF KindOK, Holds, ObjPcs
  <2> QED BY <1>4, <1>5, <2>1, <2>2
<1>10. \A w \in Workers : InMaps(w)' => status'[slot[w].obj] = "running"
  <2> TAKE w \in Workers
  <2> HAVE InMaps(w)'
  <2>1. InMaps(w) /\ slot[w].obj \in Objs
    BY <1>1 DEF InMaps, SlotsInv, TypeOK, Slots
  <2>2. slot[w].obj # th[t].obj /\ status[slot[w].obj] = "running"
    BY <1>1, <1>2, <2>1 DEF RunRefs, RunInv
  <2> QED BY <1>4, <1>5, <2>1, <2>2
<1>11. registry' # Nil => status'[registry'] = "running" \/ NoneRuns'
  <2> HAVE registry' # Nil
  <2>1. status' = [status EXCEPT ![th[t].obj] = "stopped"] /\ registry' = registry
    BY <1>4
  <2>2. CASE th[t].obj = registry
    BY <1>3, <1>5, <2>1, <2>2 DEF RunInv, NoneRuns
  <2>3. CASE th[t].obj # registry
    BY <1>3, <1>5, <2>1, <2>3 DEF RunInv, NoneRuns
  <2> QED BY <2>2, <2>3
<1>12. registry' \in {Nil, registry}
  BY <1>4
<1> QED BY <1>6, <1>7, <1>8, <1>9, <1>10, <1>11, <1>12, <1>a, RunShrinks, AloneStays

LEMMA DeleteLockDoes ==
    ASSUME SlotsInv, NEW c \in Callers, DeleteLock(c)
    PROVE  /\ c \in Threads /\ th[c].pc = "mlock" /\ th[c].kind = "delete" /\ Alone(c)
           /\ status' = status /\ slot' = slot /\ DbStays /\ WorkersStay
           /\ \/ registry' = Nil /\ Goes(c, "dropRows", th[c].obj, th[c].slot, th[c].handles)
              \/ registry' = registry /\ Goes(c, "ilock", registry, th[c].slot, th[c].handles)
<1>1. /\ c \in Threads /\ th[c].pc = "mlock" /\ th[c].kind = "delete"
      /\ status' = status /\ slot' = slot /\ DbStays /\ WorkersStay
  BY DEF Threads, DeleteLock, At, DbStays, WorkersStay, slotVars, dbVars
<1>2. th[c] \in ThreadRecs /\ th \in [Threads -> ThreadRecs] /\ registry \in Objs \cup {Nil}
  BY <1>1, SlotsFacts
<1>3. CASE registry' = Nil /\ Goto(c, "dropRows")
  <2>1. PICK r : r = [th[c] EXCEPT !.pc = "dropRows"]
    OBVIOUS
  <2>2. Moved(r, th[c], "dropRows", th[c].obj, th[c].slot, th[c].todo)
    BY <1>2, <2>1, PcField DEF Pcs
  <2>3. r.handles = th[c].handles
    BY <1>2, <2>1, HandlesStay
  <2>4. th'[c] = r /\ Alone(c)
    BY <1>1, <1>2, <1>3, <2>1 DEF Alone, Goto
  <2> QED BY <1>1, <1>3, <2>2, <2>3, <2>4 DEF Goes, Moved
<1>4. CASE registry' = registry /\ th' = [th EXCEPT ![c].pc = "ilock", ![c].obj = registry]
  <2>1. PICK r : r = [th[c] EXCEPT !.pc = "ilock", !.obj = registry]
    OBVIOUS
  <2>2. Moved(r, th[c], "ilock", registry, th[c].slot, th[c].todo)
    BY <1>2, <2>1, ObjPcFields DEF Pcs
  <2>3. r.handles = th[c].handles
    BY <1>2, <2>1, HandlesStay
  <2>4. th' = [th EXCEPT ![c] = r]
    BY <1>2, <1>4, <2>1
  <2>5. th'[c] = r /\ Alone(c)
    BY <1>1, <1>2, <2>4 DEF Alone
  <2> QED BY <1>1, <1>4, <2>2, <2>3, <2>5 DEF Goes, Moved
<1> QED BY <1>3, <1>4 DEF DeleteLock

LEMMA StartUnregisterDoes ==
    ASSUME SlotsInv, NEW c \in Callers, StartUnregister(c)
    PROVE  /\ c \in Threads /\ th[c].pc = "unregister" /\ Alone(c)
           /\ status' = status /\ slot' = slot /\ DbStays /\ WorkersStay
           /\ registry' = Nil /\ Goes(c, "spawn", th[c].obj, th[c].slot, th[c].handles)
<1>1. /\ c \in Threads /\ th[c].pc = "unregister" /\ registry' = Nil /\ Goto(c, "spawn")
      /\ status' = status /\ slot' = slot /\ DbStays /\ WorkersStay
  BY DEF Threads, StartUnregister, At, DbStays, WorkersStay, slotVars, dbVars
<1>2. th[c] \in ThreadRecs /\ th \in [Threads -> ThreadRecs]
  BY <1>1, SlotsFacts
<1>3. PICK r : r = [th[c] EXCEPT !.pc = "spawn"]
  OBVIOUS
<1>4. Moved(r, th[c], "spawn", th[c].obj, th[c].slot, th[c].todo)
  BY <1>2, <1>3, PcField DEF Pcs
<1>5. r.handles = th[c].handles
  BY <1>2, <1>3, HandlesStay
<1>6. th'[c] = r /\ Alone(c)
  BY <1>1, <1>2, <1>3 DEF Alone, Goto
<1> QED BY <1>1, <1>4, <1>5, <1>6 DEF Goes, Moved

LEMMA StartRegisterDoes ==
    ASSUME SlotsInv, NEW c \in Callers, StartRegister(c)
    PROVE  /\ c \in Threads /\ th[c].pc = "register" /\ th'[c] = Idle
           /\ th[c].slot \in Workers /\ slot[th[c].slot] # Nil /\ slot[th[c].slot].obj \in Objs
           /\ Wakes(c, th[c].slot) /\ registry' = slot[th[c].slot].obj
           /\ status' = status /\ slot' = slot /\ DbStays /\ WorkersStay
<1>1. /\ c \in Threads /\ c \notin Workers /\ th[c].pc = "register" /\ registry' = slot[th[c].slot].obj
      /\ th' = [th EXCEPT ![c] = Idle, ![th[c].slot] = Watching]
      /\ status' = status /\ slot' = slot /\ DbStays /\ WorkersStay
  BY SlotsAssumption DEF Threads, StartRegister, At, DbStays, WorkersStay, slotVars, dbVars
<1>2. th \in [Threads -> ThreadRecs] /\ KindOK(c, th[c]) /\ SlotRefs(th[c]) /\ slot \in [Workers -> Slots \cup {Nil}]
  BY <1>1, SlotsFacts
<1>3. PICK w : w = th[c].slot
  OBVIOUS
<1>4. w \in Workers /\ slot[w] # Nil /\ th[w] = Idle /\ w \in Threads /\ w # c
  BY <1>1, <1>2, <1>3 DEF KindOK, SlotRefs, SlotPcs, SlotsInv, Registering, Threads
<1>5. slot[w].obj \in Objs
  BY <1>2, <1>4 DEF Slots
<1>6. th'[c] = Idle /\ th'[w] = Watching /\ \A k \in Threads \ {c, w} : th'[k] = th[k]
  BY <1>1, <1>2, <1>3, <1>4
<1> QED BY <1>1, <1>3, <1>4, <1>5, <1>6 DEF Wakes

LEMMA ReregisterDoes ==
    ASSUME SlotsInv, NEW c \in Callers, Reregister(c)
    PROVE  /\ c \in Threads /\ th[c].pc = "reregister" /\ th'[c] = Idle /\ Alone(c)
           /\ th[c].obj \in Objs /\ registry' = th[c].obj /\ instMu[th[c].obj] = Nil
           /\ status' = [status EXCEPT ![th[c].obj] = "stopped"]
           /\ slot' = slot /\ DbStays /\ WorkersStay
<1>1. /\ c \in Threads /\ th[c].pc = "reregister" /\ Return(c)
      /\ registry' = th[c].obj /\ instMu[th[c].obj] = Nil
      /\ status' = [status EXCEPT ![th[c].obj] = "stopped"]
      /\ slot' = slot /\ DbStays /\ WorkersStay
  BY DEF Threads, Reregister, At, DbStays, WorkersStay, slotVars, dbVars
<1>2. th \in [Threads -> ThreadRecs] /\ KindOK(c, th[c])
  BY <1>1, SlotsFacts
<1> QED BY <1>1, <1>2 DEF Return, Alone, KindOK, ObjPcs

LEMMA ShutdownDoes ==
    ASSUME SlotsInv, NEW c \in Callers, Shutdown(c)
    PROVE  /\ c \in Threads /\ th[c].pc = "shutdown" /\ Alone(c)
           /\ RegistryStays /\ slot' = slot /\ DbStays /\ closing' = closing
           /\ proc' = [w \in Workers |-> IF w \in th[c].handles THEN "dead" ELSE proc[w]]
           /\ \/ th'[c] = Idle
              \/ Goes(c, "dropRows", th[c].obj, th[c].slot, {}) /\ th[c].kind = "delete"
<1>1. /\ c \in Threads /\ th[c].pc = "shutdown"
      /\ RegistryStays /\ slot' = slot /\ DbStays /\ closing' = closing
      /\ proc' = [w \in Workers |-> IF w \in th[c].handles THEN "dead" ELSE proc[w]]
  BY DEF Threads, Shutdown, At, DbStays, RegistryStays, regVars, dbVars
<1>2. th[c] \in ThreadRecs /\ th \in [Threads -> ThreadRecs]
  BY <1>1, SlotsFacts
<1>3. CASE Return(c)
  <2>1. th'[c] = Idle /\ Alone(c)
    BY <1>1, <1>2, <1>3 DEF Return, Alone
  <2> QED BY <1>1, <2>1
<1>4. CASE th[c].kind = "delete" /\ th' = [th EXCEPT ![c].pc = "dropRows", ![c].handles = {}]
  <2>1. PICK r : r = [th[c] EXCEPT !.pc = "dropRows", !.handles = {}]
    OBVIOUS
  <2>2. Moved(r, th[c], "dropRows", th[c].obj, th[c].slot, th[c].todo)
    BY <1>2, <2>1, PcHandlesFields DEF Pcs
  <2>3. r.handles = {}
    BY <1>2, <2>1, HandlesStay
  <2>4. th' = [th EXCEPT ![c] = r]
    BY <1>2, <1>4, <2>1
  <2>5. th'[c] = r /\ Alone(c)
    BY <1>1, <1>2, <2>4 DEF Alone
  <2> QED BY <1>1, <1>4, <2>2, <2>3, <2>5 DEF Goes, Moved
<1> QED BY <1>3, <1>4 DEF Shutdown

LEMMA DropRowsDoes ==
    ASSUME SlotsInv, NEW c \in Callers, DropRows(c)
    PROVE  /\ c \in Threads /\ th[c].pc = "dropRows" /\ th'[c] = Idle /\ Alone(c)
           /\ RegistryStays /\ slot' = slot /\ WorkersStay /\ instRow' = FALSE
           /\ DOMAIN rows' = DOMAIN rows
           /\ \A n \in DOMAIN rows : rows'[n].status = "deleted" /\ rows'[n].at = rows[n].at
<1>1. /\ c \in Threads /\ th[c].pc = "dropRows" /\ Return(c)
      /\ RegistryStays /\ slot' = slot /\ WorkersStay /\ instRow' = FALSE
      /\ rows' = [n \in DOMAIN rows |-> [rows[n] EXCEPT !.status = "deleted", !.dir = FALSE]]
  BY DEF Threads, DropRows, At, WorkersStay, RegistryStays, regVars, slotVars
<1>2. th \in [Threads -> ThreadRecs] /\ rows \in Seq(Rows)
  BY <1>1, SlotsFacts DEF SlotsInv, TypeOK
<1>3. th'[c] = Idle /\ Alone(c)
  BY <1>1, <1>2 DEF Return, Alone
<1>4. ASSUME NEW n \in DOMAIN rows PROVE rows'[n].status = "deleted" /\ rows'[n].at = rows[n].at
  <2>1. rows[n] \in Rows
    BY <1>2
  <2>2. PICK x : x = [rows[n] EXCEPT !.status = "deleted"]
    OBVIOUS
  <2>3. x \in Rows /\ x.status = "deleted" /\ x.at = rows[n].at
    BY <2>1, <2>2 DEF Rows
  <2>4. PICK y : y = [x EXCEPT !.dir = FALSE]
    OBVIOUS
  <2>5. y.status = "deleted" /\ y.at = rows[n].at
    BY <2>3, <2>4 DEF Rows
  <2>6. rows'[n] = y
    BY <1>1, <2>2, <2>4
  <2> QED BY <2>5, <2>6
<1> QED BY <1>1, <1>3, <1>4

-----------------------------------------------------------------------------
LEMMA DeleteLockRuns ==
    ASSUME SlotsInv, RunInv, NEW c \in Callers, DeleteLock(c)
    PROVE  RunInv'
<1>1. /\ c \in Threads /\ Alone(c) /\ status' = status /\ slot' = slot /\ registry' \in {Nil, registry}
      /\ th'[c].pc \in {"dropRows", "ilock"} /\ th'[c].kind = th[c].kind
  BY DeleteLockDoes DEF Goes
<1>2. PICK r : r = th'[c]
  OBVIOUS
<1>3. RunRefs(c, th[c])
  BY <1>1 DEF RunInv
<1>4. RunRefs(c, r)'
  BY <1>1, <1>2, <1>3 DEF RunRefs, Starting, Holds
<1>5. OnlyStops /\ OnlyShrinks /\ \A w \in Workers : InMaps(w)' => status'[slot[w].obj] = "running"
  BY <1>1 DEF OnlyStops, OnlyShrinks, InMaps, RunInv
<1>6. registry' # Nil => status'[registry'] = "running" \/ NoneRuns'
  BY <1>1 DEF RunInv, NoneRuns
<1> QED BY <1>1, <1>2, <1>4, <1>5, <1>6, RunShrinks, AloneStays

LEMMA StartUnregisterRuns ==
    ASSUME SlotsInv, RunInv, NEW c \in Callers, StartUnregister(c)
    PROVE  RunInv'
<1>1. /\ c \in Threads /\ Alone(c) /\ status' = status /\ slot' = slot /\ registry' = Nil
      /\ th'[c].pc = "spawn" /\ th'[c].kind = th[c].kind /\ th[c].pc = "unregister"
  BY StartUnregisterDoes DEF Goes
<1>2. PICK r : r = th'[c]
  OBVIOUS
<1>3. RunRefs(c, th[c])
  BY <1>1 DEF RunInv
<1>4. NoneRuns' /\ th[c].kind = "start"
  BY <1>1, <1>3 DEF RunRefs, NoneRuns
<1>5. RunRefs(c, r)'
  BY <1>1, <1>2, <1>3, <1>4 DEF RunRefs, Starting, Holds
<1>6. OnlyStops /\ OnlyShrinks /\ \A w \in Workers : InMaps(w)' => status'[slot[w].obj] = "running"
  BY <1>1 DEF OnlyStops, OnlyShrinks, InMaps, RunInv
<1> QED BY <1>1, <1>2, <1>5, <1>6, RunShrinks, AloneStays

LEMMA StartRegisterRuns ==
    ASSUME OneStarter, SlotsInv, RunInv, NEW c \in Callers, StartRegister(c)
    PROVE  RunInv'
<1>1. /\ c \in Threads /\ th[c].pc = "register" /\ th'[c] = Idle /\ status' = status /\ slot' = slot
  BY StartRegisterDoes
<1>2. PICK w : w = th[c].slot
  OBVIOUS
<1>3. w \in Workers /\ Wakes(c, w) /\ registry' = slot[w].obj /\ slot[w] # Nil /\ slot[w].obj \in Objs
  BY <1>2, StartRegisterDoes
<1>4. OthersStay(c)
  BY <1>3 DEF Wakes, OthersStay, Woken
<1>5. RunRefs(c, Idle)'
  BY RestRuns, SlotsAssumption
<1>6. \A k \in Threads \ {c} : ~Starting(th[k])
  BY <1>1, Starters DEF Starting
<1>7. OnlyStops /\ OnlyShrinks /\ \A v \in Workers : InMaps(v)' => status'[slot[v].obj] = "running"
  BY <1>1 DEF OnlyStops, OnlyShrinks, InMaps, RunInv
<1>8. status'[registry'] = "running" \/ NoneRuns'
  <2>1. status[slot[w].obj] = "running" \/ NoneRuns
    BY <1>1, <1>2 DEF RunInv, RunRefs, NoneRuns
  <2> QED BY <1>1, <1>3, <2>1 DEF NoneRuns
<1> QED BY <1>1, <1>4, <1>5, <1>6, <1>7, <1>8, RunShrinks

LEMMA ReregisterRuns ==
    ASSUME OneStarter, SlotsInv, RunInv, NEW c \in Callers, Reregister(c)
    PROVE  RunInv'
<1>1. /\ c \in Threads /\ th[c].pc = "reregister" /\ th'[c] = Idle /\ Alone(c) /\ slot' = slot
      /\ th[c].obj \in Objs /\ status' = [status EXCEPT ![th[c].obj] = "stopped"]
  BY ReregisterDoes
<1>2. status \in [Objs -> {"none", "running", "stopped"}]
  BY DEF SlotsInv, TypeOK
<1>3. NoneRuns
  BY <1>1 DEF RunInv, RunRefs, Starting
<1>4. NoneRuns'
  BY <1>1, <1>2, <1>3 DEF NoneRuns
<1>5. RunRefs(c, Idle)'
  BY RestRuns, SlotsAssumption
<1>6. \A k \in Threads \ {c} : ~Starting(th[k])
  BY <1>1, Starters DEF Starting
<1>7. OnlyStops /\ OnlyShrinks
  BY <1>1, <1>4 DEF OnlyStops, OnlyShrinks, InMaps, NoneRuns
<1>8. \A w \in Workers : ~InMaps(w)
  <2> SUFFICES ASSUME NEW w \in Workers, InMaps(w) PROVE FALSE
    OBVIOUS
  <2>1. slot[w].obj \in Objs
    BY DEF InMaps, SlotsInv, TypeOK, Slots
  <2> QED BY <1>3, <2>1 DEF RunInv, NoneRuns
<1>9. \A k \in Threads \ {c} : ~(Holds(th[k]) /\ th[k].pc \notin {"compare", "detach"})
  <2> SUFFICES ASSUME NEW k \in Threads \ {c}, Holds(th[k]), th[k].pc \notin {"compare", "detach"} PROVE FALSE
    OBVIOUS
  <2>1. th[k].obj \in Objs
    BY SlotsFacts DEF KindOK, Holds, ObjPcs
  <2> QED BY <1>3, <2>1 DEF RunInv, RunRefs, NoneRuns
<1>10. \A w \in Workers : InMaps(w)' => status'[slot[w].obj] = "running"
  BY <1>7, <1>8 DEF OnlyShrinks
<1> QED BY <1>1, <1>4, <1>5, <1>6, <1>7, <1>9, <1>10, RunShrinks, AloneStays

\* A slot of a struct that runs is made, by a thread that holds inst.mu.
LEMMA RunGrows ==
    ASSUME SlotsInv, RunInv, NEW t \in Threads, OthersStay(t), RegistryStays,
           NEW w, NEW n, NEW ch, Grow(w, th[t].obj, n, ch),
           Holds(th[t]), th[t].pc \notin {"compare", "detach"},
           NEW r, th'[t] = r, RunRefs(t, r)'
    PROVE  RunInv'
<1>1. status[th[t].obj] = "running" /\ th[t].obj \in Objs
  BY SlotsFacts DEF RunInv, RunRefs, KindOK, Holds, ObjPcs
<1>2. /\ \A v \in Workers \ {w} : InMaps(v)' => InMaps(v) /\ slot'[v].obj = slot[v].obj
      /\ slot'[w].obj = th[t].obj /\ \A v \in Workers : slot[v] # Nil => slot'[v].obj = slot[v].obj
  BY DEF Grow, InMaps
<1>3. \A v \in Workers : InMaps(v)' => status'[slot'[v].obj] = "running"
  BY <1>1, <1>2 DEF RunInv, RegistryStays
<1>4. ASSUME NEW k \in Threads PROVE RunRefs(k, th[k])'
  <2>1. CASE k = t
    BY <2>1
  <2>2. CASE k # t /\ Woken(k)
    BY <2>2, RestRuns, SlotsAssumption DEF Woken
  <2>3. CASE k # t /\ th'[k] = th[k]
    <3>1. RunRefs(k, th[k])
      BY DEF RunInv
    <3>2. NoneRuns => NoneRuns'
      BY DEF NoneRuns, RegistryStays
    <3>3. th[k].pc = "detach" => th[k].obj # th[t].obj
      BY <1>1, <2>3 DEF Holds, SlotsInv, ILock
    <3>4. th[k].pc = "detach" => \A v \in Workers : InMaps(v)' /\ slot'[v].obj = th[k].obj => v \in th[k].todo
      BY <1>2, <3>1, <3>3 DEF RunRefs
    <3>5. th[k].pc = "register" => slot'[th[k].slot].obj = slot[th[k].slot].obj
      BY <1>2, SlotsFacts DEF SlotRefs, KindOK, SlotPcs
    <3> QED BY <2>3, <3>1, <3>2, <3>4, <3>5 DEF RunRefs, RegistryStays
  <2> QED BY <2>1, <2>2, <2>3 DEF OthersStay
<1>5. registry' # Nil => status'[registry'] = "running" \/ NoneRuns'
  BY DEF RunInv, RegistryStays, NoneRuns
<1>6. \A o, p \in Objs : status'[o] = "running" /\ status'[p] = "running" => o = p
  BY DEF RunInv, RegistryStays
<1> QED BY <1>3, <1>4, <1>5, <1>6 DEF RunInv

LEMMA WakesOthersStay ==
    ASSUME NEW t, NEW w \in Workers, Wakes(t, w)
    PROVE  OthersStay(t)
BY DEF Wakes, OthersStay, Woken

LEMMA EnsureSpawnRuns ==
    ASSUME SlotsInv, RunInv, NEW c \in Callers, EnsureSpawn(c)
    PROVE  RunInv'
<1>1. c \in Threads /\ th[c].pc = "spawn" /\ th[c].kind = "send" /\ RegistryStays /\ RunRefs(c, th[c])
  BY EnsureSpawnDoes DEF RunInv
<1>2. CASE th'[c] = Idle /\ Alone(c) /\ slot' = slot
  <2>1. RunRefs(c, Idle)'
    BY RestRuns, SlotsAssumption
  <2> QED BY <1>1, <1>2, <2>1, RunStill, AloneStays
<1>3. ASSUME NEW w \in Workers, NEW n \in Nat, Grow(w, th[c].obj, n, th[c].ch), Wakes(c, w),
             Goes(c, "acquire", th[c].obj, th[c].slot, th[c].handles)
      PROVE  RunInv'
  <2>1. PICK r : r = th'[c]
    OBVIOUS
  <2>2. RunRefs(c, r)'
    BY <1>1, <1>3, <2>1 DEF Goes, RunRefs, Starting, Holds
  <2>3. OthersStay(c)
    BY <1>3, WakesOthersStay
  <2>4. Holds(th[c]) /\ th[c].pc \notin {"compare", "detach"}
    BY <1>1 DEF Holds
  <2> QED BY <1>1, <1>3, <2>1, <2>2, <2>3, <2>4, RunGrows
<1> QED BY <1>2, <1>3, EnsureSpawnDoes

LEMMA ClearCreateRuns ==
    ASSUME SlotsInv, RunInv, NEW c \in Callers, ClearCreate(c)
    PROVE  RunInv'
<1>1. c \in Threads /\ th[c].pc = "create" /\ th'[c] = Idle /\ RegistryStays
  BY ClearCreateDoes
<1>2. RunRefs(c, Idle)'
  BY RestRuns, SlotsAssumption
<1>3. CASE Alone(c) /\ slot' = slot
  BY <1>1, <1>2, <1>3, RunStill, AloneStays
<1>4. ASSUME NEW w \in Workers, Grow(w, th[c].obj, Len(rows) + 1, th[c].ch), Wakes(c, w)
      PROVE  RunInv'
  <2>1. OthersStay(c)
    BY <1>4, WakesOthersStay
  <2>2. Holds(th[c]) /\ th[c].pc \notin {"compare", "detach"}
    BY <1>1 DEF Holds
  <2> QED BY <1>1, <1>2, <1>4, <2>1, <2>2, RunGrows
<1> QED BY <1>3, <1>4, ClearCreateDoes

\* The struct StartInstance makes is the only one that runs.
LEMMA StartSpawnRuns ==
    ASSUME OneStarter, SlotsInv, RunInv, NEW c \in Callers, StartSpawn(c)
    PROVE  RunInv'
<1>1. c \in Threads /\ th[c].pc = "spawn" /\ th[c].kind = "start" /\ Alone(c) /\ registry' = registry
  BY StartSpawnDoes
<1>2. RunRefs(c, th[c]) /\ Starting(th[c])
  BY <1>1 DEF RunInv, Starting
<1>3. NoneRuns /\ registry = Nil
  BY <1>1, <1>2 DEF RunRefs
<1>4. PICK r : r = th'[c]
  OBVIOUS
<1>5. CASE status' = status /\ slot' = slot /\ Goes(c, "reregister", th[c].obj, th[c].slot, th[c].handles)
  <2>1. NoneRuns' /\ registry' = Nil /\ RegistryStays
    BY <1>1, <1>3, <1>5 DEF NoneRuns, RegistryStays
  <2>2. RunRefs(c, r)'
    BY <1>1, <1>2, <1>4, <1>5, <2>1 DEF Goes, RunRefs, Starting, Holds
  <2> QED BY <1>1, <1>4, <1>5, <2>1, <2>2, RunStill, AloneStays
<1>6. ASSUME NEW w \in Workers, NEW o \in Objs, NEW n, NEW ch,
             status[o] = "none", status' = [status EXCEPT ![o] = "running"],
             Grow(w, o, n, ch), Goes(c, "register", th[c].obj, w, th[c].handles)
      PROVE  RunInv'
  <2>1. status \in [Objs -> {"none", "running", "stopped"}] /\ th \in [Threads -> ThreadRecs]
    BY DEF SlotsInv, TypeOK
  <2>2. status'[o] = "running" /\ \A p \in Objs : status'[p] = "running" => p = o
    BY <1>3, <1>6, <2>1 DEF NoneRuns
  <2>3. slot'[w].obj = o /\ \A v \in Workers \ {w} : slot'[v] = slot[v]
    BY <1>6 DEF Grow
  <2>4. ASSUME NEW v \in Workers, InMaps(v)' PROVE v = w
    <3> SUFFICES ASSUME v # w PROVE FALSE
      OBVIOUS
    <3>1. InMaps(v) /\ slot[v].obj \in Objs
      BY <2>3, <2>4 DEF InMaps, SlotsInv, TypeOK, Slots
    <3> QED BY <1>3, <3>1 DEF RunInv, NoneRuns
  <2>5. RunRefs(c, r)'
    BY <1>1, <1>2, <1>3, <1>4, <1>6, <2>2, <2>3 DEF Goes, RunRefs, Starting, Holds
  <2>6. ASSUME NEW k \in Threads PROVE RunRefs(k, th[k])'
    <3>1. CASE k = c
      BY <1>4, <2>5, <3>1
    <3>2. CASE k # c
      <4>1. th'[k] = th[k] /\ RunRefs(k, th[k])
        BY <1>1, <3>2 DEF Alone, RunInv
      <4>2. ~Starting(th[k]) /\ th[k].pc # "unregister"
        BY <1>1, <1>2, <3>2, Starters
      <4>3. Holds(th[k]) => th[k].pc \in {"compare", "detach"}
        <5> SUFFICES ASSUME Holds(th[k]), th[k].pc \notin {"compare", "detach"} PROVE FALSE
          OBVIOUS
        <5>1. th[k].obj \in Objs
          BY SlotsFacts DEF KindOK, Holds, ObjPcs
        <5> QED BY <1>3, <4>1, <5>1 DEF RunRefs, NoneRuns
      <4>4. th[k].pc = "detach" => th[k].obj # o
        <5>1. th[k].pc = "detach" => th[k].obj # Nil /\ status[th[k].obj] # "none"
          BY SlotsFacts, SlotsAssumption DEF KindOK, SlotRefs, ObjPcs
        <5> QED BY <1>6, <5>1
      <4>5. th[k].pc = "detach" => \A v \in Workers : InMaps(v)' /\ slot'[v].obj = th[k].obj => v \in th[k].todo
        BY <2>3, <2>4, <4>4
      <4> QED BY <4>1, <4>2, <4>3, <4>5 DEF RunRefs, Starting
    <3> QED BY <3>1, <3>2
  <2>7. \A v \in Workers : InMaps(v)' => status'[slot'[v].obj] = "running"
    BY <2>2, <2>3, <2>4
  <2>8. registry' = Nil
    BY <1>1, <1>3
  <2> QED BY <2>2, <2>6, <2>7, <2>8 DEF RunInv
<1> QED BY <1>5, <1>6, StartSpawnDoes

LEMMA ShutdownRuns ==
    ASSUME SlotsInv, RunInv, NEW c \in Callers, Shutdown(c) \/ DropRows(c)
    PROVE  RunInv'
<1>1. c \in Threads /\ Alone(c) /\ RegistryStays /\ slot' = slot
  BY ShutdownDoes, DropRowsDoes
<1>2. PICK r : r = th'[c]
  OBVIOUS
<1>3. CASE th'[c] = Idle
  <2>1. RunRefs(c, Idle)'
    BY RestRuns, SlotsAssumption
  <2> QED BY <1>1, <1>3, <2>1, RunStill, AloneStays
<1>4. CASE Goes(c, "dropRows", th[c].obj, th[c].slot, {})
  <2>1. RunRefs(c, th[c])
    BY <1>1 DEF RunInv
  <2>2. RunRefs(c, r)'
    BY <1>2, <1>4, <2>1 DEF Goes, RunRefs, Starting, Holds
  <2> QED BY <1>1, <1>2, <2>2, RunStill, AloneStays
<1> QED BY <1>3, <1>4, ShutdownDoes, DropRowsDoes

\* No thread moves, and the maps and the registry stay.
LEMMA RunSame ==
    ASSUME RunInv, registry' = registry, status' = status, slot' = slot, th' = th
    PROVE  RunInv'
<1>1. (NoneRuns <=> NoneRuns') /\ \A w : InMaps(w)' <=> InMaps(w)
  BY DEF NoneRuns, InMaps
<1>2. ASSUME NEW k \in Threads PROVE RunRefs(k, th[k])'
  <2>1. PICK r : r = th[k]
    OBVIOUS
  <2>2. RunRefs(k, r)
    BY <2>1 DEF RunInv
  <2>3. RunRefs(k, r)'
    BY <1>1, <2>2 DEF RunRefs
  <2> QED BY <2>1, <2>3
<1> QED BY <1>1, <1>2 DEF RunInv

LEMMA ExitRuns ==
    ASSUME RunInv, NEW w \in Workers, AsyncShutdown(w) \/ WorkerDies(w)
    PROVE  RunInv'
<1>1. registry' = registry /\ status' = status /\ slot' = slot /\ th' = th
  BY DEF AsyncShutdown, WorkerDies, regVars
<1> QED BY <1>1, RunSame

LEMMA RunInvInit == Init => RunInv
<1> SUFFICES ASSUME Init PROVE RunInv
  OBVIOUS
<1>1. registry = Obj0 /\ status[Obj0] = "running" /\ Obj0 \in Objs /\ \A o \in Objs : status[o] = "running" => o = Obj0
  BY SlotsAssumption DEF Init
<1>2. ASSUME NEW t \in Threads PROVE RunRefs(t, th[t])
  <2>1. PICK r : r = th[t]
    OBVIOUS
  <2>2. r.pc \in {"idle", "wait"} /\ (t \in Callers => r.kind = "idle")
    <3>1. CASE t = Worker0
      BY <2>1, <3>1, SlotsAssumption, WatchingFields DEF Init, Begun
    <3>2. CASE t # Worker0
      BY <2>1, <3>2, IdleFields DEF Init
    <3> QED BY <3>1, <3>2
  <2>3. RunRefs(t, r)
    BY <2>2 DEF RunRefs, Starting, Holds
  <2> QED BY <2>1, <2>3
<1>3. ASSUME NEW w \in Workers, InMaps(w) PROVE status[slot[w].obj] = "running"
  BY <1>1, <1>3 DEF InMaps, Init
<1> QED BY <1>1, <1>2, <1>3 DEF RunInv

LEMMA DetachRuns ==
    ASSUME SlotsInv, RunInv, NEW t \in Threads, DetachStep(t)
    PROVE  RunInv'
BY CalmRuns, InstLockCalm, DetachSlotRuns, DetachedRuns DEF DetachStep

LEMMA CallRuns ==
    ASSUME OneStarter, SlotsInv, RunInv, NEW c \in Callers, CallStep(c)
    PROVE  RunInv'
<1> c \in Threads
  BY DEF Threads
<1>1. CASE GetInstance(c)
  BY <1>1, CalmRuns, GetInstanceCalm
<1>2. CASE SendStep(c)
  BY <1>2, CalmRuns, EnsureLockCalm, EnsureAliveRuns, EnsureSpawnRuns, AcquireGetCalm,
     AcquireLookupCalm, AcquireSlotCalm, ChatEndsCalm DEF SendStep
<1>3. CASE ClearStep(c)
  BY <1>3, CalmRuns, ClearLockCalm, ClearDetachRuns, ClearCreateRuns DEF ClearStep
<1>4. CASE StopStep(c)
  BY <1>4, CalmRuns, StopGetCalm, StopLockCalm, ShutdownRuns DEF StopStep
<1>5. CASE DeleteStep(c)
  BY <1>5, CalmRuns, DeleteGetCalm, DeleteLockRuns, ShutdownRuns DEF DeleteStep
<1>6. CASE StartStep(c)
  BY <1>6, CalmRuns, StartGetCalm, StartUnregisterRuns, StartSpawnRuns, StartRegisterRuns,
     ReregisterRuns DEF StartStep
<1>7. CASE DetachStep(c)
  BY <1>7, DetachRuns
<1> QED BY <1>1, <1>2, <1>3, <1>4, <1>5, <1>6, <1>7 DEF CallStep

LEMMA WatchRuns ==
    ASSUME SlotsInv, RunInv, NEW w \in Workers, WatchStep(w)
    PROVE  RunInv'
<1> w \in Threads
  BY DEF Threads
<1> QED BY CalmRuns, WatchFindCalm, WatchExamineCalm, WatchCompareRuns, DeathGetCalm,
           DeathLockCalm, DetachRuns DEF WatchStep

LEMMA RunInvNext == OneStarter /\ SlotsInv /\ RunInv /\ [Next]_vars => RunInv'
<1> SUFFICES ASSUME OneStarter, SlotsInv, RunInv, [Next]_vars PROVE RunInv'
  OBVIOUS
<1>1. ASSUME NEW c \in Callers, NEW kind \in Calls, Call(c, kind) PROVE RunInv'
  BY <1>1, CallCalm, CalmRuns DEF Threads
<1>2. CASE UNCHANGED vars
  BY <1>2, RunSame DEF vars, regVars, slotVars
<1> QED BY <1>1, <1>2, CallRuns, WatchRuns, ExitRuns DEF Next

(***************************************************************************)
(* Without deaths, the slots with a loop are the ones the channels reach.  *)
(***************************************************************************)
IsLive(w) == slot[w] # Nil /\ slot[w].live
IsDetached(w) == slot[w] # Nil /\ ~slot[w].live

LiveRefs(t, r) ==
    /\ \A w \in r.handles : IsDetached(w)
    /\ r.pc = "chat" => IsLive(r.slot)
    /\ t \in Workers /\ r.pc \in {"examine", "compare"} => proc[t] = "dead"
LiveInv ==
    /\ \A w \in Workers : IsLive(w) => slot[w].mapped /\ proc[w] = "up"
    /\ \A w \in closing : IsDetached(w)
    /\ \A t \in Threads : LiveRefs(t, th[t])

\* A loop is only taken away under slot.mu, and a worker is only shut down after
\* its slot lost the loop.
LoopsKept ==
    \A v \in Workers : slot[v] # Nil =>
       /\ slot'[v] # Nil
       /\ slot'[v].live => slot[v].live /\ slot'[v].mapped = slot[v].mapped /\ proc'[v] = proc[v]
       /\ slot[v].live /\ ~slot'[v].live => slotMu[v] = Nil
LoopsMade ==
    \A v \in Workers : slot[v] = Nil /\ slot'[v] # Nil => slot'[v].live /\ slot'[v].mapped /\ proc'[v] = "up"
DeadStay == \A v \in Workers : proc[v] = "dead" => proc'[v] = "dead"

LEMMA RestLive ==
    ASSUME NEW k
    PROVE  LiveRefs(k, Idle)' /\ LiveRefs(k, Watching)'
<1>1. PICK q, r : q = Idle /\ r = Watching
  OBVIOUS
<1>2. q.pc = "idle" /\ q.handles = {} /\ r.pc = "wait" /\ r.handles = {}
  BY <1>1, IdleFields, WatchingFields, StartsWithoutHandles DEF Begun
<1>3. LiveRefs(k, q)' /\ LiveRefs(k, r)'
  BY <1>2 DEF LiveRefs
<1> QED BY <1>1, <1>3

LEMMA ChatStays ==
    ASSUME SlotsInv, LoopsKept, NEW k \in Threads, th[k].pc = "chat", LiveRefs(k, th[k])
    PROVE  slot'[th[k].slot] # Nil /\ slot'[th[k].slot].live
<1>1. th[k].slot \in Workers /\ k # Nil
  BY SlotsFacts DEF KindOK, SlotPcs
<1>2. slotMu[th[k].slot] = k
  BY <1>1 DEF SlotsInv, SLock
<1>3. PICK v \in Workers : v = th[k].slot
  BY <1>1
<1>4. IsLive(v)
  BY <1>3 DEF LiveRefs
<1>5. slotMu[v] # Nil
  BY <1>1, <1>2, <1>3
<1>6. slot'[v] # Nil /\ slot'[v].live
  BY <1>4, <1>5 DEF LoopsKept, IsLive
<1> QED BY <1>3, <1>6

LEMMA DetachedStay ==
    ASSUME LoopsKept, NEW w \in Workers, IsDetached(w)
    PROVE  IsDetached(w)'
BY DEF LoopsKept, IsDetached

LEMMA LiveStep ==
    ASSUME SlotsInv, LiveInv, NEW t \in Threads, OthersStay(t), LoopsKept, LoopsMade, DeadStay,
           closing' \subseteq closing \cup th[t].handles, NEW r, th'[t] = r, LiveRefs(t, r)'
    PROVE  LiveInv'
<1>1. ASSUME NEW w \in Workers, IsLive(w)' PROVE slot'[w].mapped /\ proc'[w] = "up"
  BY <1>1 DEF LoopsKept, LoopsMade, LiveInv, IsLive
<1>2. ASSUME NEW w \in closing' PROVE IsDetached(w)'
  <2>1. IsDetached(w)
    BY <1>2 DEF LiveInv, LiveRefs
  <2>2. w \in Workers
    BY <1>2, SlotsFacts DEF SlotsInv, TypeOK, ThreadRecs
  <2> QED BY <2>1, <2>2, DetachedStay
<1>3. ASSUME NEW k \in Threads PROVE LiveRefs(k, th[k])'
  <2>1. CASE k = t
    BY <2>1
  <2>2. CASE k # t /\ Woken(k)
    BY <2>2, RestLive DEF Woken
  <2>3. CASE k # t /\ th'[k] = th[k]
    <3>1. LiveRefs(k, th[k]) /\ th[k] \in ThreadRecs
      BY SlotsFacts DEF LiveInv
    <3>2. \A w \in th[k].handles : IsDetached(w)'
      <4> TAKE w \in th[k].handles
      <4>1. IsDetached(w) /\ w \in Workers
        BY <3>1 DEF LiveRefs, ThreadRecs
      <4> QED BY <4>1, DetachedStay
    <3>3. th[k].pc = "chat" => slot'[th[k].slot] # Nil /\ slot'[th[k].slot].live
      BY <3>1, ChatStays
    <3>4. k \in Workers /\ th[k].pc \in {"examine", "compare"} => proc'[k] = "dead"
      BY <3>1 DEF LiveRefs, DeadStay
    <3> QED BY <2>3, <3>2, <3>3, <3>4 DEF LiveRefs, IsLive
  <2> QED BY <2>1, <2>2, <2>3 DEF OthersStay
<1> QED BY <1>1, <1>2, <1>3 DEF LiveInv

LEMMA SlotsSame ==
    ASSUME slot' = slot, proc' = proc
    PROVE  LoopsKept /\ LoopsMade /\ DeadStay
BY DEF LoopsKept, LoopsMade, DeadStay

LEMMA CalmLive ==
    ASSUME SlotsInv, LiveInv, NEW t \in Threads, Calm(t)
    PROVE  LiveInv'
<1>1. slot' = slot /\ proc' = proc /\ closing' = closing /\ OthersStay(t) /\ FreeTo(t, th'[t])
  BY AloneStays DEF Calm, Still
<1>2. LoopsKept /\ LoopsMade /\ DeadStay
  BY <1>1, SlotsSame
<1>3. PICK r : r = th'[t]
  OBVIOUS
<1>4. LiveRefs(t, th[t]) /\ KindOK(t, th[t]) /\ th[t] \in ThreadRecs /\ SlotRefs(th[t])
  BY SlotsFacts DEF LiveInv
<1>5. CASE r = Idle
  <2>1. LiveRefs(t, r)'
    BY <1>5, RestLive
  <2> QED BY <1>1, <1>2, <1>3, <2>1, LiveStep
<1>6. CASE Begins(t, r)
  <2>1. LiveRefs(t, r)'
    BY <1>6 DEF Begins, LiveRefs
  <2> QED BY <1>1, <1>2, <1>3, <2>1, LiveStep
<1>7. CASE Onward(t, r)
  <2>1. \A w \in r.handles : IsDetached(w)'
    BY <1>1, <1>4, <1>7 DEF Onward, LiveRefs, IsDetached
  <2>2. r.pc = "chat" => IsLive(r.slot)'
    <3> HAVE r.pc = "chat"
    <3>1. r.slot = th[t].slot /\ slot[r.slot].live /\ th[t].pc = "slot"
      BY <1>7 DEF Onward, Looks, StartLooks, Takes, Uses, Snapshots
    <3>2. slot[r.slot] # Nil
      BY <1>4, <3>1 DEF SlotRefs, SlotPcs
    <3> QED BY <1>1, <3>1, <3>2 DEF IsLive
  <2>3. t \in Workers /\ r.pc \in {"examine", "compare"} => proc'[t] = "dead"
    BY <1>1, <1>4, <1>7 DEF Onward, Looks, StartLooks, Takes, Uses, Snapshots, LiveRefs
  <2>4. LiveRefs(t, r)'
    BY <2>1, <2>2, <2>3 DEF LiveRefs
  <2> QED BY <1>1, <1>2, <1>3, <2>4, LiveStep
<1> QED BY <1>1, <1>3, <1>5, <1>6, <1>7 DEF FreeTo, Returns

LEMMA TrimLoops ==
    ASSUME NEW w, Trim(w), proc' = proc, ~slot'[w].live, slot[w].live => slotMu[w] = Nil
    PROVE  LoopsKept /\ LoopsMade /\ DeadStay
<1>1. slot'[w] # Nil
  BY SlotsAssumption DEF Trim
<1> QED BY <1>1 DEF Trim, LoopsKept, LoopsMade, DeadStay

LEMMA EnsureAliveLive ==
    ASSUME SlotsInv, LiveInv, NEW c \in Callers, EnsureAlive(c)
    PROVE  LiveInv'
<1>1. c \in Threads /\ Alone(c) /\ OthersStay(c) /\ proc' = proc /\ closing' = closing
  BY EnsureAliveDoes, AloneStays DEF WorkersStay
<1>2. LiveRefs(c, th[c]) /\ c \notin Workers
  BY <1>1, SlotsAssumption DEF LiveInv
<1>3. PICK r, v : r = th'[c] /\ v = th[c].slot
  OBVIOUS
<1>4. r.handles = th[c].handles /\ r.pc \in {"acquire", "spawn"}
  BY <1>3, EnsureAliveDoes DEF Goes
<1>5. LoopsKept /\ LoopsMade /\ DeadStay
  BY <1>1, <1>3, EnsureAliveDoes, SlotsSame, TrimLoops
<1>6. \A w \in r.handles : w \in Workers /\ IsDetached(w)
  BY <1>1, <1>2, <1>4, SlotsFacts DEF LiveRefs, ThreadRecs
<1>7. LiveRefs(c, r)'
  BY <1>2, <1>4, <1>5, <1>6, DetachedStay DEF LiveRefs
<1> QED BY <1>1, <1>3, <1>5, <1>7, LiveStep

LEMMA ClearDetachLive ==
    ASSUME SlotsInv, LiveInv, NEW c \in Callers, ClearDetach(c)
    PROVE  LiveInv'
<1>1. c \in Threads /\ Alone(c) /\ OthersStay(c) /\ proc' = proc /\ closing' = closing /\ c \notin Workers
  BY ClearDetachDoes, AloneStays, SlotsAssumption DEF WorkersStay
<1>2. PICK r, v : r = th'[c] /\ v = th[c].slot
  OBVIOUS
<1>3. slotMu[v] = Nil /\ Trim(v) /\ ~slot'[v].live /\ r.handles \subseteq {v} /\ r.pc = "create"
  BY <1>2, ClearDetachDoes DEF Goes
<1>4. LoopsKept /\ LoopsMade /\ DeadStay
  BY <1>1, <1>3, TrimLoops
<1>5. IsDetached(v)'
  BY <1>3, SlotsAssumption DEF IsDetached, Trim
<1>6. LiveRefs(c, r)'
  BY <1>1, <1>3, <1>5 DEF LiveRefs
<1> QED BY <1>1, <1>2, <1>4, <1>6, LiveStep

\* The watcher of a worker that was shut down finds a detached slot.
LEMMA WatchCompareLive ==
    ASSUME SlotsInv, LiveInv, NEW w \in Workers, WatchCompare(w)
    PROVE  LiveInv'
<1>1. w \in Threads /\ OthersStay(w) /\ proc' = proc /\ closing' = closing /\ th[w].pc = "compare"
  BY WatchCompareDoes, AloneStays DEF WorkersStay
<1>2. LiveRefs(w, th[w]) /\ (th[w].slot = w => slot[w] # Nil)
  BY <1>1, SlotsFacts DEF LiveInv, SlotRefs, SlotPcs
<1>3. ~(th[w].slot = w /\ slot[w].live)
  BY <1>1, <1>2 DEF LiveRefs, LiveInv, IsLive
<1>4. slot' = slot /\ th'[w] = Idle
  BY <1>3, WatchCompareDoes
<1>5. LoopsKept /\ LoopsMade /\ DeadStay /\ LiveRefs(w, Idle)'
  BY <1>1, <1>4, SlotsSame, RestLive
<1> QED BY <1>1, <1>4, <1>5, LiveStep

LEMMA DetachSlotLive ==
    ASSUME SlotsInv, LiveInv, NEW t \in Threads, DetachSlot(t)
    PROVE  LiveInv'
<1>1. OthersStay(t) /\ proc' = proc /\ closing' = closing
  BY DetachSlotDoes, AloneStays DEF WorkersStay
<1>2. PICK r : r = th'[t]
  OBVIOUS
<1>3. PICK w \in th[t].todo :
        slotMu[w] = Nil /\ Trim(w) /\ ~slot'[w].live /\ r.handles \subseteq th[t].handles \cup {w} /\ r.pc = "detach"
  BY <1>2, DetachSlotDoes DEF Goes
<1>4. LoopsKept /\ LoopsMade /\ DeadStay
  BY <1>1, <1>3, TrimLoops
<1>5. IsDetached(w)'
  BY <1>3, SlotsAssumption DEF IsDetached, Trim
<1>6. \A v \in th[t].handles : v \in Workers /\ IsDetached(v)
  BY SlotsFacts DEF LiveInv, LiveRefs, ThreadRecs
<1>7. \A v \in r.handles : IsDetached(v)'
  BY <1>3, <1>4, <1>5, <1>6, DetachedStay
<1>8. LiveRefs(t, r)'
  BY <1>3, <1>7 DEF LiveRefs
<1> QED BY <1>1, <1>2, <1>4, <1>8, LiveStep

LEMMA DetachedDoes ==
    ASSUME SlotsInv, NEW t \in Threads, Detached(t)
    PROVE  /\ th[t].pc = "detach" /\ th[t].todo = {} /\ slot' = slot /\ DbStays /\ WorkersStay /\ Alone(t)
           /\ \/ th'[t] = Idle /\ th[t].kind = "watch"
              \/ Goes(t, "shutdown", th[t].obj, th[t].slot, th[t].handles) /\ th[t].kind # "watch"
           /\ \/ status' = status /\ registry' = Nil /\ th[t].kind = "delete"
              \/ /\ status' = [status EXCEPT ![th[t].obj] = "stopped"] /\ registry' = registry
                 /\ th[t].kind # "delete"
<1>1. /\ th[t].pc = "detach" /\ th[t].todo = {} /\ slot' = slot /\ DbStays /\ WorkersStay
      /\ \/ status' = status /\ registry' = Nil /\ th[t].kind = "delete"
         \/ /\ status' = [status EXCEPT ![th[t].obj] = "stopped"] /\ registry' = registry
            /\ th[t].kind # "delete"
  BY DEF Detached, At, slotVars, dbVars, DbStays, WorkersStay
<1>2. th[t] \in ThreadRecs /\ th \in [Threads -> ThreadRecs]
  BY SlotsFacts
<1>3. CASE th[t].kind = "watch"
  <2>1. Return(t)
    BY <1>3 DEF Detached
  <2>2. th'[t] = Idle /\ Alone(t)
    BY <1>2, <2>1 DEF Return, Alone
  <2> QED BY <1>1, <1>3, <2>2
<1>4. CASE th[t].kind # "watch"
  <2>1. Goto(t, "shutdown")
    BY <1>4 DEF Detached
  <2>2. PICK r : r = [th[t] EXCEPT !.pc = "shutdown"]
    OBVIOUS
  <2>3. Moved(r, th[t], "shutdown", th[t].obj, th[t].slot, th[t].todo)
    BY <1>2, <2>2, PcField DEF Pcs
  <2>4. r.handles = th[t].handles
    BY <1>2, <2>2, HandlesStay
  <2>5. th'[t] = r /\ Alone(t)
    BY <1>2, <2>1, <2>2 DEF Goto, Alone
  <2>6. Goes(t, "shutdown", th[t].obj, th[t].slot, th[t].handles)
    BY <2>3, <2>4, <2>5 DEF Goes, Moved
  <2> QED BY <1>1, <1>4, <2>5, <2>6
<1> QED BY <1>3, <1>4

\* The thread keeps its handles and the slots stay.
LEMMA HandsLive ==
    ASSUME SlotsInv, LiveInv, NEW t \in Threads, OthersStay(t), slot' = slot, proc' = proc,
           closing' \subseteq closing \cup th[t].handles,
           NEW r, th'[t] = r, r.handles \subseteq th[t].handles, r.pc \notin {"chat", "examine", "compare"}
    PROVE  LiveInv'
<1>1. LiveRefs(t, th[t])
  BY DEF LiveInv
<1>2. LiveRefs(t, r)'
  BY <1>1 DEF LiveRefs, IsDetached
<1>3. LoopsKept /\ LoopsMade /\ DeadStay
  BY SlotsSame
<1> QED BY <1>2, <1>3, LiveStep

LEMMA RestHands ==
    /\ Idle.handles = {} /\ Idle.pc \notin {"chat", "examine", "compare"}
    /\ Idle.pc = "idle"
BY IdleFields, StartsWithoutHandles

LEMMA DetachedLive ==
    ASSUME SlotsInv, LiveInv, NEW t \in Threads, Detached(t)
    PROVE  LiveInv'
<1>1. slot' = slot /\ proc' = proc /\ closing' = closing /\ OthersStay(t)
  BY DetachedDoes, AloneStays DEF WorkersStay
<1>2. PICK r : r = th'[t]
  OBVIOUS
<1>3. r.handles \subseteq th[t].handles /\ r.pc \notin {"chat", "examine", "compare"}
  BY <1>2, DetachedDoes, RestHands DEF Goes
<1> QED BY <1>1, <1>2, <1>3, HandsLive

LEMMA RegistryLive ==
    ASSUME SlotsInv, LiveInv, NEW c \in Callers,
           DeleteLock(c) \/ StartUnregister(c) \/ Reregister(c) \/ DropRows(c)
    PROVE  LiveInv'
<1>1. PICK r : r = th'[c]
  OBVIOUS
<1>2. c \in Threads /\ slot' = slot /\ proc' = proc /\ closing' = closing /\ OthersStay(c)
  BY DeleteLockDoes, StartUnregisterDoes, ReregisterDoes, DropRowsDoes, AloneStays DEF WorkersStay
<1>3. r.handles \subseteq th[c].handles /\ r.pc \notin {"chat", "examine", "compare"}
  BY <1>1, DeleteLockDoes, StartUnregisterDoes, ReregisterDoes, DropRowsDoes, RestHands DEF Goes
<1> QED BY <1>1, <1>2, <1>3, HandsLive

LEMMA StartRegisterLive ==
    ASSUME SlotsInv, LiveInv, NEW c \in Callers, StartRegister(c)
    PROVE  LiveInv'
<1>1. c \in Threads /\ slot' = slot /\ proc' = proc /\ closing' = closing /\ th'[c] = Idle
  BY StartRegisterDoes DEF WorkersStay
<1>2. OthersStay(c)
  BY StartRegisterDoes, WakesOthersStay
<1> QED BY <1>1, <1>2, HandsLive, RestHands

LEMMA ShutdownLive ==
    ASSUME SlotsInv, LiveInv, NEW c \in Callers, Shutdown(c)
    PROVE  LiveInv'
<1>1. /\ c \in Threads /\ slot' = slot /\ closing' = closing /\ OthersStay(c) /\ c \notin Workers
      /\ proc' = [w \in Workers |-> IF w \in th[c].handles THEN "dead" ELSE proc[w]]
  BY ShutdownDoes, AloneStays, SlotsAssumption
<1>2. PICK r : r = th'[c]
  OBVIOUS
<1>3. r.handles = {} /\ r.pc \notin {"chat", "examine", "compare"}
  BY <1>2, ShutdownDoes, RestHands DEF Goes
<1>4. \A w \in th[c].handles : IsDetached(w)
  BY <1>1 DEF LiveInv, LiveRefs
<1>5. LoopsKept /\ LoopsMade /\ DeadStay
  BY <1>1, <1>4 DEF LoopsKept, LoopsMade, DeadStay, IsDetached
<1>6. LiveRefs(c, r)'
  BY <1>3 DEF LiveRefs
<1> QED BY <1>1, <1>2, <1>5, <1>6, LiveStep

LEMMA AsyncShutdownLive ==
    ASSUME SlotsInv, LiveInv, NEW w \in Workers, AsyncShutdown(w)
    PROVE  LiveInv'
<1>1. /\ w \in closing /\ closing' = closing \ {w} /\ proc' = [proc EXCEPT ![w] = "dead"]
      /\ slot' = slot /\ th' = th /\ proc \in [Workers -> {"none", "up", "dead"}]
  BY DEF AsyncShutdown, SlotsInv, TypeOK
<1>2. IsDetached(w)
  BY <1>1 DEF LiveInv
<1>3. \A v : (IsLive(v)' <=> IsLive(v)) /\ (IsDetached(v)' <=> IsDetached(v))
  BY <1>1 DEF IsLive, IsDetached
<1>4. ASSUME NEW t \in Threads PROVE LiveRefs(t, th[t])'
  <2>1. PICK r : r = th[t]
    OBVIOUS
  <2>2. LiveRefs(t, r)
    BY <2>1 DEF LiveInv
  <2>3. LiveRefs(t, r)'
    BY <1>1, <1>3, <2>2 DEF LiveRefs
  <2> QED BY <1>1, <2>1, <2>3
<1>5. ASSUME NEW v \in Workers, IsLive(v)' PROVE slot'[v].mapped /\ proc'[v] = "up"
  BY <1>1, <1>2, <1>3, <1>5 DEF LiveInv, IsLive, IsDetached
<1>6. \A v \in closing' : IsDetached(v)'
  BY <1>1, <1>3 DEF LiveInv
<1> QED BY <1>4, <1>5, <1>6 DEF LiveInv

\* A slot is made with its worker.
LEMMA GrowLoops ==
    ASSUME SlotsInv, NEW w, NEW o, NEW n, NEW ch, Grow(w, o, n, ch)
    PROVE  LoopsKept /\ LoopsMade /\ DeadStay
<1>1. proc \in [Workers -> {"none", "up", "dead"}] /\ slot'[w] # Nil
  BY SlotsAssumption DEF SlotsInv, TypeOK, Grow
<1>2. proc'[w] = "up" /\ \A v \in Workers \ {w} : proc'[v] = proc[v] /\ slot'[v] = slot[v]
  BY <1>1 DEF Grow
<1>3. w \in Workers /\ proc[w] = "none" /\ slot[w] = Nil /\ slot'[w].live /\ slot'[w].mapped
  BY DEF Grow
<1> QED BY <1>2, <1>3 DEF LoopsKept, LoopsMade, DeadStay

LEMMA GrowLive ==
    ASSUME SlotsInv, LiveInv, NEW c \in Callers, OthersStay(c),
           NEW w, NEW o, NEW n, NEW ch, Grow(w, o, n, ch),
           closing' \subseteq closing \cup th[c].handles,
           NEW r, th'[c] = r, r.handles \subseteq th[c].handles, r.pc \notin {"chat", "examine", "compare"}
    PROVE  LiveInv'
<1>1. c \in Threads /\ LoopsKept /\ LoopsMade /\ DeadStay
  BY GrowLoops DEF Threads
<1>2. \A v \in r.handles : v \in Workers /\ IsDetached(v)
  BY <1>1, SlotsFacts DEF LiveInv, LiveRefs, ThreadRecs
<1>3. LiveRefs(c, r)'
  BY <1>1, <1>2, DetachedStay DEF LiveRefs
<1> QED BY <1>1, <1>3, LiveStep

LEMMA EnsureSpawnLive ==
    ASSUME SlotsInv, LiveInv, NEW c \in Callers, EnsureSpawn(c)
    PROVE  LiveInv'
<1>1. c \in Threads /\ closing' = closing
  BY EnsureSpawnDoes
<1>2. CASE th'[c] = Idle /\ Alone(c) /\ slot' = slot /\ proc' = proc
  BY <1>1, <1>2, HandsLive, RestHands, AloneStays
<1>3. ASSUME NEW w \in Workers, NEW n \in Nat, Grow(w, th[c].obj, n, th[c].ch), Wakes(c, w),
             Goes(c, "acquire", th[c].obj, th[c].slot, th[c].handles)
      PROVE  LiveInv'
  <2>1. PICK r : r = th'[c]
    OBVIOUS
  <2>2. r.handles = th[c].handles /\ r.pc = "acquire"
    BY <1>3, <2>1 DEF Goes
  <2> QED BY <1>1, <1>3, <2>1, <2>2, GrowLive, WakesOthersStay
<1> QED BY <1>2, <1>3, EnsureSpawnDoes

LEMMA ClearCreateLive ==
    ASSUME SlotsInv, LiveInv, NEW c \in Callers, ClearCreate(c)
    PROVE  LiveInv'
<1>1. c \in Threads /\ closing' \subseteq closing \cup th[c].handles /\ th'[c] = Idle
  BY ClearCreateDoes
<1>2. CASE Alone(c) /\ slot' = slot /\ proc' = proc
  BY <1>1, <1>2, HandsLive, RestHands, AloneStays
<1>3. ASSUME NEW w \in Workers, Grow(w, th[c].obj, Len(rows) + 1, th[c].ch), Wakes(c, w)
      PROVE  LiveInv'
  BY <1>1, <1>3, GrowLive, WakesOthersStay, RestHands
<1> QED BY <1>2, <1>3, ClearCreateDoes

LEMMA StartSpawnLive ==
    ASSUME SlotsInv, LiveInv, NEW c \in Callers, StartSpawn(c)
    PROVE  LiveInv'
<1>1. c \in Threads /\ closing' = closing /\ OthersStay(c)
  BY StartSpawnDoes, AloneStays
<1>2. PICK r : r = th'[c]
  OBVIOUS
<1>3. r.handles = th[c].handles /\ r.pc \in {"register", "reregister"}
  BY <1>2, StartSpawnDoes DEF Goes
<1>4. CASE slot' = slot /\ proc' = proc
  BY <1>1, <1>2, <1>3, <1>4, HandsLive
<1>5. ASSUME NEW w \in Workers, NEW o \in Objs, NEW n \in Nat, NEW ch \in Channels, Grow(w, o, n, ch)
      PROVE  LiveInv'
  BY <1>1, <1>2, <1>3, <1>5, GrowLive
<1> QED BY <1>4, <1>5, StartSpawnDoes

LEMMA LiveInvInit == Init => LiveInv
<1> SUFFICES ASSUME Init PROVE LiveInv
  OBVIOUS
<1>1. ASSUME NEW t \in Threads PROVE LiveRefs(t, th[t])
  <2>1. PICK r : r = th[t]
    OBVIOUS
  <2>2. r.pc \in {"idle", "wait"} /\ r.handles = {}
    <3>1. CASE t = Worker0
      BY <2>1, <3>1, SlotsAssumption, WatchingFields, StartsWithoutHandles DEF Init, Begun
    <3>2. CASE t # Worker0
      BY <2>1, <3>2, RestHands DEF Init
    <3> QED BY <3>1, <3>2
  <2>3. LiveRefs(t, r)
    BY <2>2 DEF LiveRefs
  <2> QED BY <2>1, <2>3
<1>2. ASSUME NEW w \in Workers, IsLive(w) PROVE slot[w].mapped /\ proc[w] = "up"
  BY <1>2 DEF IsLive, Init
<1> QED BY <1>1, <1>2 DEF LiveInv, Init

LEMMA LiveInvNext == MaxDeaths = 0 /\ SlotsInv /\ LiveInv /\ [Next]_vars => LiveInv'
<1> SUFFICES ASSUME MaxDeaths = 0, SlotsInv, LiveInv, [Next]_vars PROVE LiveInv'
  OBVIOUS
<1>1. ASSUME NEW t \in Threads, DetachStep(t) PROVE LiveInv'
  BY <1>1, CalmLive, InstLockCalm, DetachSlotLive, DetachedLive DEF DetachStep
<1>2. ASSUME NEW c \in Callers, CallStep(c) PROVE LiveInv'
  <2> c \in Threads
    BY DEF Threads
  <2>1. CASE GetInstance(c)
    BY <2>1, CalmLive, GetInstanceCalm
  <2>2. CASE SendStep(c)
    BY <2>2, CalmLive, EnsureLockCalm, EnsureAliveLive, EnsureSpawnLive, AcquireGetCalm,
       AcquireLookupCalm, AcquireSlotCalm, ChatEndsCalm DEF SendStep
  <2>3. CASE ClearStep(c)
    BY <2>3, CalmLive, ClearLockCalm, ClearDetachLive, ClearCreateLive DEF ClearStep
  <2>4. CASE StopStep(c)
    BY <2>4, CalmLive, StopGetCalm, StopLockCalm, ShutdownLive DEF StopStep
  <2>5. CASE DeleteStep(c)
    BY <2>5, CalmLive, DeleteGetCalm, RegistryLive DEF DeleteStep
  <2>6. CASE StartStep(c)
    BY <2>6, CalmLive, StartGetCalm, RegistryLive, StartSpawnLive, StartRegisterLive DEF StartStep
  <2> QED BY <1>1, <1>2, <2>1, <2>2, <2>3, <2>4, <2>5, <2>6 DEF CallStep
<1>3. ASSUME NEW w \in Workers, WatchStep(w) PROVE LiveInv'
  BY <1>1, <1>3, CalmLive, WatchFindCalm, WatchExamineCalm, WatchCompareLive, DeathGetCalm,
     DeathLockCalm DEF WatchStep, Threads
<1>4. ASSUME NEW w \in Workers PROVE ~WorkerDies(w)
  BY DEF WorkerDies, SlotsInv, TypeOK
<1>5. ASSUME NEW c \in Callers, NEW kind \in Calls, Call(c, kind) PROVE LiveInv'
  BY <1>5, CallCalm, CalmLive DEF Threads
<1>6. CASE UNCHANGED vars
  <2>1. slot' = slot /\ proc' = proc /\ closing' = closing /\ th' = th
    BY <1>6 DEF vars, slotVars
  <2>2. ASSUME NEW t \in Threads PROVE LiveRefs(t, th[t])'
    <3>1. PICK r : r = th[t]
      OBVIOUS
    <3>2. LiveRefs(t, r)
      BY <3>1 DEF LiveInv
    <3>3. LiveRefs(t, r)'
      BY <2>1, <3>2 DEF LiveRefs, IsLive, IsDetached
    <3> QED BY <2>1, <3>1, <3>3
  <2> QED BY <2>1, <2>2 DEF LiveInv, IsLive, IsDetached
<1> QED BY <1>2, <1>3, <1>4, <1>5, <1>6, AsyncShutdownLive DEF Next

-----------------------------------------------------------------------------
LEMMA OneRuns ==
    ASSUME SlotsInv, RunInv, LiveInv, NEW c \in Chatting
    PROVE  /\ c \in Threads /\ th[c].slot \in Workers /\ slot[th[c].slot] \in Slots /\ slotMu[th[c].slot] = c
           /\ IsMapped(th[c].slot) /\ status[slot[th[c].slot].obj] = "running"
<1>1. c \in Threads /\ th[c].pc = "chat" /\ LiveRefs(c, th[c])
  BY DEF Chatting, Threads, LiveInv
<1>2. th[c].slot \in Workers
  BY <1>1, SlotsFacts DEF KindOK, SlotPcs
<1>3. IsLive(th[c].slot)
  BY <1>1 DEF LiveRefs
<1>4. InMaps(th[c].slot)
  BY <1>2, <1>3 DEF LiveInv, IsLive, InMaps
<1>5. slot[th[c].slot] \in Slots
  BY <1>2, <1>3 DEF SlotsInv, TypeOK, IsLive
<1>6. slotMu[th[c].slot] = c
  BY <1>1, <1>2 DEF SlotsInv, SLock
<1> QED BY <1>1, <1>2, <1>4, <1>5, <1>6 DEF RunInv, InMaps, IsMapped

\* Two turns of one session are turns on one slot: it is mapped in the one
\* struct that runs, at the channel of the session's row.
LEMMA OneChat == SlotsInv /\ RunInv /\ LiveInv => OneChatPerSession
<1> SUFFICES ASSUME SlotsInv, RunInv, LiveInv, NEW c \in Chatting, NEW d \in Chatting,
                    slot[th[c].slot].sid = slot[th[d].slot].sid
             PROVE  c = d
  BY DEF OneChatPerSession
<1>1. PICK v \in Workers, w \in Workers : v = th[c].slot /\ w = th[d].slot
  BY OneRuns
<1>2. /\ slot[v] \in Slots /\ slot[w] \in Slots /\ IsMapped(v) /\ IsMapped(w)
      /\ status[slot[v].obj] = "running" /\ status[slot[w].obj] = "running"
      /\ slotMu[v] = c /\ slotMu[w] = d
  BY <1>1, OneRuns
<1>3. slot[v].obj = slot[w].obj
  BY <1>2 DEF RunInv, Slots
<1>4. slot[v].ch = slot[w].ch
  BY <1>1, <1>2, SlotsAssumption DEF SlotsInv, SlotOK
<1>5. v = w
  BY <1>2, <1>3, <1>4 DEF SlotsInv, IndexOK
<1> QED BY <1>2, <1>5

LEMMA Quiet == SlotsInv /\ RunInv /\ LiveInv => StoppedIsQuiet
<1> SUFFICES ASSUME SlotsInv, RunInv, LiveInv, NEW c \in Chatting, registry # Nil
             PROVE  status[registry] # "stopped"
  BY DEF StoppedIsQuiet
<1>1. PICK w : w = th[c].slot
  OBVIOUS
<1>2. slot[w] \in Slots /\ status[slot[w].obj] = "running"
  BY <1>1, OneRuns
<1> QED BY <1>2 DEF RunInv, NoneRuns, Slots

LEMMA RunInvAlways == OneStarter => (Spec => []RunInv)
<1> SUFFICES ASSUME OneStarter PROVE Spec => []RunInv
  OBVIOUS
<1>1. SlotsInv /\ RunInv /\ [Next]_vars => RunInv'
  BY RunInvNext
<1> QED BY <1>1, SlotsInvAlways, RunInvInit, PTL DEF Spec

LEMMA LiveInvAlways == MaxDeaths = 0 => (Spec => []LiveInv)
<1> SUFFICES ASSUME MaxDeaths = 0 PROVE Spec => []LiveInv
  OBVIOUS
<1>1. SlotsInv /\ LiveInv /\ [Next]_vars => LiveInv'
  BY LiveInvNext
<1> QED BY <1>1, SlotsInvAlways, LiveInvInit, PTL DEF Spec

(***************************************************************************)
(* slot.mu "serializes Chat calls on this session": if workers only exit   *)
(* when they are told to, and one goroutine at a time starts the instance, *)
(* two turns of a session never overlap, over slot and struct replacements.*)
(***************************************************************************)
THEOREM TurnsOfASessionNeverOverlap ==
    OneStarter /\ MaxDeaths = 0 => (Spec => []OneChatPerSession)
<1> SUFFICES ASSUME OneStarter, MaxDeaths = 0 PROVE Spec => []OneChatPerSession
  OBVIOUS
<1> QED BY OneChat, SlotsInvAlways, RunInvAlways, LiveInvAlways, PTL

(***************************************************************************)
(* No turn is under way on an instance that is marked stopped.             *)
(***************************************************************************)
THEOREM StoppedInstanceIsQuiet ==
    OneStarter /\ MaxDeaths = 0 => (Spec => []StoppedIsQuiet)
<1> SUFFICES ASSUME OneStarter, MaxDeaths = 0 PROVE Spec => []StoppedIsQuiet
  OBVIOUS
<1> QED BY Quiet, SlotsInvAlways, RunInvAlways, LiveInvAlways, PTL

(***************************************************************************)
(* Who looks after the workers.                                            *)
(***************************************************************************)
TakenCare(w) == w \in closing \/ \E t \in Threads : w \in th[t].handles
HandsOK(t, r) ==
    /\ r.handles # {} => r.pc \in {"create", "detach", "shutdown"}
    /\ t \in Workers => r.pc \in {"idle", "wait", "examine", "compare"}
    /\ r.pc # "dropRows"
CareInv ==
    /\ \A t \in Threads : HandsOK(t, th[t])
    /\ \A w \in Workers : proc[w] # "none" => slot[w] # Nil
    /\ \A w \in Workers : IsDetached(w) /\ proc[w] = "up" => TakenCare(w)

\* Nobody else knows the struct that StartInstance is about to register.
Unknown(x) ==
    /\ \A v, w \in Workers : slot[v] # Nil /\ slot[v].obj = x /\ slot[w] # Nil /\ slot[w].obj = x => v = w
    /\ \A k \in Threads : th[k].obj # x
StructInv ==
    /\ \A c \in Threads : th[c].pc = "register" => Unknown(slot[th[c].slot].obj)
    /\ \A o \in Objs : status[o] = "running" =>
         registry = o \/ \E c \in Threads : th[c].pc = "register" /\ slot[th[c].slot].obj = o

OrphanInv == instRow /\ CareInv /\ StructInv

\* What a step of t does to the workers and to the structs.
Care(t) ==
    \A w \in Workers : IsDetached(w)' /\ proc'[w] = "up" =>
       \/ w \in closing' \cup th'[t].handles
       \/ IsDetached(w) /\ proc[w] = "up" /\ w \notin th[t].handles /\ (w \in closing => w \in closing')
Structs(t) ==
    /\ OnlyStops
    /\ registry' = registry \/ NoneRuns'
    /\ \A v \in Workers : slot[v] # Nil => slot'[v] # Nil /\ slot'[v].obj = slot[v].obj
    /\ \A v \in Workers : slot[v] = Nil /\ slot'[v] # Nil => slot'[v].obj = th[t].obj
    /\ th[t].pc # "register" /\ th'[t].pc # "register" /\ th'[t].obj \in {th[t].obj, registry, Nil}
Spawned == \A w \in Workers : proc'[w] # "none" => slot'[w] # Nil

LEMMA RestHandsOK ==
    ASSUME NEW k
    PROVE  /\ HandsOK(k, Idle) /\ HandsOK(k, Watching) /\ Idle.handles = {} /\ Watching.handles = {}
           /\ Idle.pc = "idle" /\ Watching.pc = "wait" /\ Idle.obj = Nil /\ Watching.obj = Nil
BY IdleFields, WatchingFields, StartsWithoutHandles DEF Begun, HandsOK

LEMMA CareKept ==
    ASSUME SlotsInv, CareInv, NEW t \in Threads, OthersStay(t), Care(t), Spawned,
           NEW r, th'[t] = r, HandsOK(t, r)
    PROVE  CareInv'
<1>1. ASSUME NEW k \in Threads PROVE HandsOK(k, th'[k])
  BY RestHandsOK DEF OthersStay, Woken, CareInv
<1>2. ASSUME NEW w \in Workers, IsDetached(w)', proc'[w] = "up"
      PROVE  w \in closing' \/ \E k \in Threads : w \in th'[k].handles
  <2>1. CASE w \in closing' \cup th'[t].handles
    BY <2>1
  <2>2. CASE IsDetached(w) /\ proc[w] = "up" /\ w \notin th[t].handles /\ (w \in closing => w \in closing')
    <3>1. TakenCare(w)
      BY <2>2 DEF CareInv
    <3>2. CASE w \in closing
      BY <2>2, <3>2
    <3>3. ASSUME NEW k \in Threads, w \in th[k].handles PROVE w \in th'[k].handles
      BY <2>2, <3>3, RestHandsOK DEF OthersStay, Woken
    <3> QED BY <3>1, <3>2, <3>3 DEF TakenCare
  <2> QED BY <1>2, <2>1, <2>2 DEF Care
<1>3. \A w \in Workers : (IsDetached(w) /\ proc[w] = "up" => TakenCare(w))'
  BY <1>2 DEF TakenCare
<1>4. \A k \in Threads : HandsOK(k, th[k])'
  BY <1>1 DEF HandsOK
<1> QED BY <1>3, <1>4 DEF CareInv, Spawned

LEMMA StructsKept ==
    ASSUME SlotsInv, RunInv, StructInv, NEW t \in Threads, OthersStay(t), Structs(t)
    PROVE  StructInv'
<1>1. ASSUME NEW c \in Threads, th'[c].pc = "register" PROVE Unknown(slot[th[c].slot].obj)'
  <2>1. c # t /\ th'[c] = th[c]
    BY <1>1, RestHandsOK DEF OthersStay, Woken, Structs
  <2>2. Unknown(slot[th[c].slot].obj) /\ registry = Nil
    BY <1>1, <2>1 DEF StructInv, RunInv, RunRefs, Starting
  <2>3. th[c].slot \in Workers /\ slot[th[c].slot] # Nil
    BY <1>1, <2>1, SlotsFacts DEF KindOK, SlotRefs, SlotPcs
  <2>4. PICK x : x = slot[th[c].slot].obj
    OBVIOUS
  <2>5. x = slot'[th[c].slot].obj /\ x \in Objs
    BY <2>3, <2>4 DEF Structs, SlotsInv, TypeOK, Slots
  <2>6. ASSUME NEW k \in Threads PROVE th'[k].obj # x
    <3>1. th[k].obj # x /\ x # Nil
      BY <2>2, <2>4, <2>5, SlotsAssumption DEF Unknown
    <3>2. CASE k = t
      BY <2>2, <3>1, <3>2 DEF Structs
    <3>3. CASE k # t
      BY <3>1, <3>3, RestHandsOK DEF OthersStay, Woken
    <3> QED BY <3>2, <3>3
  <2>7. th[t].obj # x
    BY <2>2, <2>4 DEF Unknown
  <2>8. ASSUME NEW v \in Workers, NEW w \in Workers,
               slot'[v] # Nil, slot'[v].obj = x, slot'[w] # Nil, slot'[w].obj = x
        PROVE  v = w
    BY <2>2, <2>4, <2>7, <2>8 DEF Unknown, Structs
  <2>9. Unknown(x)'
    BY <2>6, <2>8 DEF Unknown
  <2> QED BY <2>1, <2>5, <2>9
<1>2. ASSUME NEW o \in Objs, status'[o] = "running"
      PROVE  registry' = o \/ \E c \in Threads : th'[c].pc = "register" /\ slot'[th'[c].slot].obj = o
  <2>1. status[o] = "running" /\ registry' = registry
    BY <1>2 DEF Structs, OnlyStops, NoneRuns
  <2>2. CASE registry = o
    BY <2>1, <2>2
  <2>3. ASSUME NEW c \in Threads, th[c].pc = "register", slot[th[c].slot].obj = o
        PROVE  th'[c].pc = "register" /\ slot'[th'[c].slot].obj = o
    <3>1. c # t /\ th'[c] = th[c]
      BY <2>3, RestHandsOK DEF OthersStay, Woken, Structs
    <3>2. th[c].slot \in Workers /\ slot[th[c].slot] # Nil
      BY <2>3, SlotsFacts DEF KindOK, SlotRefs, SlotPcs
    <3> QED BY <2>3, <3>1, <3>2 DEF Structs
  <2> QED BY <2>1, <2>2, <2>3 DEF StructInv
<1> QED BY <1>1, <1>2 DEF StructInv

\* The registry, the slots and the workers stay, and t drops no handle.
LEMMA OrphanStill ==
    ASSUME SlotsInv, RunInv, OrphanInv, NEW t \in Threads, OthersStay(t), RegistryStays, slot' = slot,
           WorkersStay, instRow => instRow', NEW r, th'[t] = r, HandsOK(t, r),
           th[t].handles \subseteq r.handles, th[t].pc # "register", r.pc # "register",
           r.obj \in {th[t].obj, registry, Nil}
    PROVE  OrphanInv'
<1>1. Structs(t) /\ Spawned
  BY DEF Structs, RegistryStays, OnlyStops, Spawned, OrphanInv, CareInv, WorkersStay
<1>2. Care(t)
  BY DEF Care, WorkersStay, IsDetached
<1> QED BY <1>1, <1>2, CareKept, StructsKept DEF OrphanInv

LEMMA CalmOrphans ==
    ASSUME SlotsInv, RunInv, OrphanInv, NEW t \in Threads, Calm(t)
    PROVE  OrphanInv'
<1>1. OthersStay(t) /\ RegistryStays /\ slot' = slot /\ WorkersStay /\ instRow' = instRow /\ FreeTo(t, th'[t])
  BY AloneStays DEF Calm, Still, RegistryStays, WorkersStay
<1>2. PICK r : r = th'[t]
  OBVIOUS
<1>3. HandsOK(t, th[t]) /\ (t \in Callers => t \notin Workers)
  BY SlotsAssumption DEF OrphanInv, CareInv
<1>4. CASE r = Idle /\ th[t].pc \notin {"create", "detach", "shutdown", "spawn", "register"}
  <2>1. th[t].handles = {} /\ HandsOK(t, r) /\ r.handles = {} /\ r.pc = "idle" /\ r.obj = Nil
    BY <1>3, <1>4, RestHandsOK DEF HandsOK
  <2> QED BY <1>1, <1>2, <1>4, <2>1, OrphanStill
<1>5. CASE Begins(t, r)
  <2>1. th[t].handles = {} /\ HandsOK(t, r) /\ r.handles = {} /\ r.obj = Nil /\ r.pc = "get" /\ th[t].pc = "idle"
    BY <1>3, <1>5 DEF Begins, HandsOK
  <2> QED BY <1>1, <1>2, <2>1, OrphanStill
<1>6. CASE Onward(t, r)
  <2>1. /\ th[t].handles = r.handles /\ r.obj \in {th[t].obj, registry, Nil}
        /\ r.pc # "register" /\ r.pc # "dropRows" /\ th[t].pc \notin {"create", "detach", "shutdown", "register"}
    BY <1>6 DEF Onward, Looks, StartLooks, Takes, Uses, Snapshots
  <2>2. r.handles = {}
    BY <1>3, <2>1 DEF HandsOK
  <2>3. t \in Workers => r.pc \in {"idle", "wait", "examine", "compare"}
    BY <1>3, <1>6 DEF Onward, Looks, StartLooks, Takes, Uses, Snapshots, HandsOK
  <2>4. HandsOK(t, r)
    BY <2>1, <2>2, <2>3 DEF HandsOK
  <2> QED BY <1>1, <1>2, <2>1, <2>4, OrphanStill
<1> QED BY <1>1, <1>2, <1>4, <1>5, <1>6 DEF FreeTo, Returns

\* A slot loses its loop to t, or had none.
LEMMA TrimOrphans ==
    ASSUME SlotsInv, RunInv, OrphanInv, NEW t \in Threads, OthersStay(t), RegistryStays, WorkersStay,
           instRow' = instRow, NEW w, Trim(w), NEW r, th'[t] = r, HandsOK(t, r),
           th[t].handles \subseteq r.handles, slot[w].live => w \in r.handles,
           th[t].pc # "register", r.pc # "register", r.obj = th[t].obj
    PROVE  OrphanInv'
<1>1. slot'[w] # Nil /\ w \in Workers /\ slot[w] # Nil /\ \A v \in Workers \ {w} : slot'[v] = slot[v]
  BY SlotsAssumption DEF Trim
<1>2. Structs(t) /\ Spawned
  BY <1>1 DEF Structs, RegistryStays, OnlyStops, Spawned, OrphanInv, CareInv, WorkersStay, Trim
<1>3. Care(t)
  BY <1>1 DEF Care, WorkersStay, IsDetached
<1> QED BY <1>2, <1>3, CareKept, StructsKept DEF OrphanInv

LEMMA EnsureAliveOrphans ==
    ASSUME SlotsInv, RunInv, OrphanInv, NEW c \in Callers, EnsureAlive(c)
    PROVE  OrphanInv'
<1>1. /\ c \in Threads /\ OthersStay(c) /\ RegistryStays /\ WorkersStay /\ instRow' = instRow
      /\ th[c].pc = "alive" /\ c \notin Workers
  BY EnsureAliveDoes, AloneStays, SlotsAssumption DEF DbStays
<1>2. PICK r, v : r = th'[c] /\ v = th[c].slot
  OBVIOUS
<1>3. r.handles = th[c].handles /\ r.obj = th[c].obj /\ r.pc \in {"acquire", "spawn"}
  BY <1>2, EnsureAliveDoes DEF Goes
<1>4. th[c].handles = {}
  BY <1>1 DEF OrphanInv, CareInv, HandsOK
<1>5. HandsOK(c, r)
  BY <1>1, <1>3, <1>4 DEF HandsOK
<1>6. slot' = slot \/ (Trim(v) /\ ~slot[v].live)
  BY <1>2, EnsureAliveDoes
<1>7. CASE slot' = slot
  BY <1>1, <1>2, <1>3, <1>5, <1>7, OrphanStill
<1>8. CASE Trim(v) /\ ~slot[v].live
  BY <1>1, <1>2, <1>3, <1>5, <1>8, TrimOrphans
<1> QED BY <1>6, <1>7, <1>8

LEMMA ClearDetachOrphans ==
    ASSUME SlotsInv, RunInv, OrphanInv, NEW c \in Callers, ClearDetach(c)
    PROVE  OrphanInv'
<1>1. /\ c \in Threads /\ OthersStay(c) /\ RegistryStays /\ WorkersStay /\ instRow' = instRow
      /\ th[c].pc = "detachOld" /\ c \notin Workers
  BY ClearDetachDoes, AloneStays, SlotsAssumption
<1>2. PICK r, v : r = th'[c] /\ v = th[c].slot
  OBVIOUS
<1>3. Trim(v) /\ r.handles = (IF slot[v].live THEN {v} ELSE {}) /\ r.obj = th[c].obj /\ r.pc = "create"
  BY <1>2, ClearDetachDoes DEF Goes
<1>4. th[c].handles = {}
  BY <1>1 DEF OrphanInv, CareInv, HandsOK
<1>5. HandsOK(c, r)
  BY <1>1, <1>3 DEF HandsOK
<1>6. slot[v].live => v \in r.handles
  BY <1>3
<1> QED BY <1>1, <1>2, <1>3, <1>4, <1>5, <1>6, TrimOrphans

LEMMA WatcherFinds ==
    ASSUME SlotsInv, LiveInv, NEW w \in Workers, WatchCompare(w)
    PROVE  slot' = slot /\ th'[w] = Idle
<1>1. w \in Threads /\ th[w].pc = "compare"
  BY WatchCompareDoes
<1>2. LiveRefs(w, th[w]) /\ (th[w].slot = w => slot[w] # Nil)
  BY <1>1, SlotsFacts DEF LiveInv, SlotRefs, SlotPcs
<1>3. ~(th[w].slot = w /\ slot[w].live)
  BY <1>1, <1>2 DEF LiveRefs, LiveInv, IsLive
<1> QED BY <1>3, WatchCompareDoes

LEMMA WatchCompareOrphans ==
    ASSUME SlotsInv, RunInv, LiveInv, OrphanInv, NEW w \in Workers, WatchCompare(w)
    PROVE  OrphanInv'
<1>1. /\ w \in Threads /\ OthersStay(w) /\ RegistryStays /\ WorkersStay /\ instRow' = instRow
      /\ th[w].pc = "compare"
  BY WatchCompareDoes, AloneStays DEF DbStays
<1>2. slot' = slot /\ th'[w] = Idle
  BY WatcherFinds
<1>3. th[w].handles = {}
  BY <1>1 DEF OrphanInv, CareInv, HandsOK
<1> QED BY <1>1, <1>2, <1>3, RestHandsOK, OrphanStill

LEMMA DetachSlotOrphans ==
    ASSUME SlotsInv, RunInv, OrphanInv, NEW t \in Threads, DetachSlot(t)
    PROVE  OrphanInv'
<1>1. OthersStay(t) /\ RegistryStays /\ WorkersStay /\ instRow' = instRow /\ th[t].pc = "detach"
  BY DetachSlotDoes, AloneStays DEF DbStays
<1>2. t \notin Workers
  BY <1>1 DEF OrphanInv, CareInv, HandsOK
<1>3. PICK r : r = th'[t]
  OBVIOUS
<1>4. PICK w \in th[t].todo :
        /\ Trim(w) /\ r.handles = (IF slot[w].live THEN th[t].handles \cup {w} ELSE th[t].handles)
        /\ r.obj = th[t].obj /\ r.pc = "detach"
  BY <1>3, DetachSlotDoes DEF Goes
<1>5. HandsOK(t, r) /\ th[t].handles \subseteq r.handles /\ (slot[w].live => w \in r.handles)
  BY <1>2, <1>4 DEF HandsOK
<1> QED BY <1>1, <1>3, <1>4, <1>5, TrimOrphans

\* Nobody deletes the instance, and a /clear either hands its old worker over or
\* fails before it took one.
Keepers == (\A c \in Callers : "delete" \notin MayCall[c]) /\ "clear_early" \notin Faults

LEMMA NobodyDeletes ==
    ASSUME Keepers, SlotsInv, RunInv, NEW c \in Callers
    PROVE  c \in Threads /\ c \notin Workers /\ th[c].kind \notin {"delete", "watch"}
<1>1. c \in Threads
  BY DEF Threads
<1>2. RunRefs(c, th[c]) /\ KindOK(c, th[c])
  BY <1>1, SlotsFacts DEF RunInv
<1> QED BY <1>1, <1>2, SlotsAssumption DEF RunRefs, KindOK, Keepers

\* The slots and the workers stay, and t, who has no handle in hand, moves.
LEMMA OrphanMoves ==
    ASSUME SlotsInv, RunInv, OrphanInv, NEW t \in Threads, OthersStay(t), slot' = slot,
           WorkersStay, instRow', NEW r, th'[t] = r, HandsOK(t, r), StructInv',
           th[t].handles \subseteq r.handles
    PROVE  OrphanInv'
<1>1. Spawned
  BY DEF Spawned, OrphanInv, CareInv, WorkersStay
<1>2. Care(t)
  BY DEF Care, WorkersStay, IsDetached
<1> QED BY <1>1, <1>2, CareKept DEF OrphanInv

LEMMA DetachedOrphans ==
    ASSUME Keepers, SlotsInv, RunInv, OrphanInv, NEW t \in Threads, Detached(t)
    PROVE  OrphanInv'
<1>1. /\ OthersStay(t) /\ WorkersStay /\ instRow' = instRow /\ th[t].pc = "detach" /\ slot' = slot
  BY DetachedDoes, AloneStays DEF DbStays
<1>2. t \in Callers /\ t \notin Workers /\ th[t].kind \notin {"delete", "watch"} /\ instRow
  <2>1. t \notin Workers
    BY <1>1 DEF OrphanInv, CareInv, HandsOK
  <2> QED BY <2>1, NobodyDeletes DEF Threads, OrphanInv
<1>3. PICK r : r = th'[t]
  OBVIOUS
<1>4. /\ r.handles = th[t].handles /\ r.obj = th[t].obj /\ r.pc = "shutdown" /\ registry' = registry
      /\ status' = [status EXCEPT ![th[t].obj] = "stopped"]
  BY <1>2, <1>3, DetachedDoes DEF Goes
<1>5. status \in [Objs -> {"none", "running", "stopped"}]
  BY DEF SlotsInv, TypeOK
<1>6. OnlyStops
  BY <1>4, <1>5 DEF OnlyStops
<1>7. Structs(t)
  BY <1>1, <1>3, <1>4, <1>6 DEF Structs
<1>8. HandsOK(t, r) /\ StructInv'
  BY <1>1, <1>2, <1>4, <1>7, StructsKept DEF HandsOK, OrphanInv
<1> QED BY <1>1, <1>2, <1>3, <1>4, <1>8, OrphanMoves

LEMMA ShutdownOrphans ==
    ASSUME Keepers, SlotsInv, RunInv, LiveInv, OrphanInv, NEW c \in Callers, Shutdown(c)
    PROVE  OrphanInv'
<1>1. c \in Threads /\ th[c].kind # "delete"
  BY NobodyDeletes
<1>2. /\ OthersStay(c) /\ RegistryStays /\ instRow' = instRow /\ th[c].pc = "shutdown" /\ slot' = slot
      /\ closing' = closing /\ proc' = [w \in Workers |-> IF w \in th[c].handles THEN "dead" ELSE proc[w]]
      /\ th'[c] = Idle
  BY <1>1, ShutdownDoes, AloneStays DEF DbStays
<1>3. Structs(c)
  BY <1>2, RestHandsOK DEF Structs, RegistryStays, OnlyStops
<1>4. \A w \in th[c].handles : slot[w] # Nil
  BY <1>1 DEF LiveInv, LiveRefs, IsDetached
<1>6. Spawned
  BY <1>2, <1>4 DEF Spawned, OrphanInv, CareInv
<1>5. Care(c)
  BY <1>2 DEF Care, IsDetached
<1>7. CareInv' /\ StructInv' /\ instRow'
  BY <1>1, <1>2, <1>3, <1>5, <1>6, CareKept, StructsKept, RestHandsOK DEF OrphanInv
<1> QED BY <1>7 DEF OrphanInv

LEMMA StartUnregisterOrphans ==
    ASSUME SlotsInv, RunInv, OrphanInv, NEW c \in Callers, StartUnregister(c)
    PROVE  OrphanInv'
<1>1. /\ c \in Threads /\ c \notin Workers /\ OthersStay(c) /\ WorkersStay /\ instRow' = instRow
      /\ th[c].pc = "unregister" /\ slot' = slot /\ status' = status
  BY StartUnregisterDoes, AloneStays, SlotsAssumption DEF DbStays
<1>2. PICK r : r = th'[c]
  OBVIOUS
<1>3. r.handles = th[c].handles /\ r.obj = th[c].obj /\ r.pc = "spawn"
  BY <1>2, StartUnregisterDoes DEF Goes
<1>4. th[c].handles = {} /\ instRow
  BY <1>1 DEF OrphanInv, CareInv, HandsOK
<1>5. NoneRuns'
  BY <1>1 DEF RunInv, RunRefs, NoneRuns
<1>6. Structs(c)
  BY <1>1, <1>2, <1>3, <1>5 DEF Structs, OnlyStops
<1>7. HandsOK(c, r) /\ StructInv'
  BY <1>1, <1>3, <1>4, <1>6, StructsKept DEF HandsOK, OrphanInv
<1> QED BY <1>1, <1>2, <1>3, <1>4, <1>7, OrphanMoves

LEMMA ReregisterOrphans ==
    ASSUME SlotsInv, RunInv, OrphanInv, NEW c \in Callers, Reregister(c)
    PROVE  OrphanInv'
<1>1. /\ c \in Threads /\ c \notin Workers /\ OthersStay(c) /\ WorkersStay /\ instRow' = instRow
      /\ th[c].pc = "reregister" /\ slot' = slot /\ th'[c] = Idle /\ th[c].obj \in Objs
      /\ status' = [status EXCEPT ![th[c].obj] = "stopped"]
  BY ReregisterDoes, AloneStays, SlotsAssumption DEF DbStays
<1>2. th[c].handles = {} /\ instRow
  BY <1>1 DEF OrphanInv, CareInv, HandsOK
<1>3. NoneRuns /\ status \in [Objs -> {"none", "running", "stopped"}]
  BY <1>1 DEF RunInv, RunRefs, Starting, SlotsInv, TypeOK
<1>4. NoneRuns' /\ OnlyStops
  BY <1>1, <1>3 DEF NoneRuns, OnlyStops
<1>5. Structs(c)
  BY <1>1, <1>4, RestHandsOK DEF Structs
<1>6. StructInv'
  BY <1>1, <1>5, StructsKept DEF OrphanInv
<1> QED BY <1>1, <1>2, <1>6, OrphanMoves, RestHandsOK

LEMMA StartRegisterOrphans ==
    ASSUME OneStarter, SlotsInv, RunInv, OrphanInv, NEW c \in Callers, StartRegister(c)
    PROVE  OrphanInv'
<1>1. /\ c \in Threads /\ c \notin Workers /\ WorkersStay /\ instRow' = instRow
      /\ th[c].pc = "register" /\ slot' = slot /\ th'[c] = Idle /\ status' = status
      /\ registry' = slot[th[c].slot].obj
  BY StartRegisterDoes, SlotsAssumption DEF DbStays
<1>2. OthersStay(c)
  BY StartRegisterDoes, WakesOthersStay
<1>3. th[c].handles = {} /\ instRow
  BY <1>1 DEF OrphanInv, CareInv, HandsOK
<1>4. \A k \in Threads : th'[k].pc # "register"
  BY <1>1, <1>2, Starters, RestHandsOK DEF OthersStay, Woken, Starting
<1>5. \A o \in Objs : status'[o] = "running" => registry' = o
  BY <1>1 DEF RunInv, RunRefs
<1>6. StructInv'
  BY <1>4, <1>5 DEF StructInv
<1> QED BY <1>1, <1>2, <1>3, <1>6, OrphanMoves, RestHandsOK

\* A slot is made with its worker; the handles in hand are handed over.
LEMMA GrowCare ==
    ASSUME SlotsInv, OrphanInv, NEW c \in Threads, OthersStay(c),
           NEW w, NEW o, NEW n, NEW ch, Grow(w, o, n, ch), closing' = closing \cup th[c].handles,
           NEW r, th'[c] = r, HandsOK(c, r)
    PROVE  CareInv'
<1>1. /\ proc'[w] = "up" /\ slot'[w] # Nil /\ slot'[w].live
      /\ \A v \in Workers \ {w} : proc'[v] = proc[v] /\ slot'[v] = slot[v]
  <2>1. proc \in [Workers -> {"none", "up", "dead"}]
    BY DEF SlotsInv, TypeOK
  <2> QED BY <2>1, SlotsAssumption DEF Grow
<1>2. Spawned
  BY <1>1 DEF Spawned, OrphanInv, CareInv
<1>3. Care(c)
  BY <1>1 DEF Care, IsDetached
<1> QED BY <1>2, <1>3, CareKept DEF OrphanInv

LEMMA GrowOrphans ==
    ASSUME SlotsInv, RunInv, OrphanInv, NEW c \in Threads, OthersStay(c), RegistryStays, instRow',
           NEW w, NEW n, NEW ch, Grow(w, th[c].obj, n, ch), closing' = closing \cup th[c].handles,
           NEW r, th'[c] = r, HandsOK(c, r), th[c].pc # "register", r.pc # "register", r.obj \in {th[c].obj, Nil}
    PROVE  OrphanInv'
<1>1. CareInv'
  BY GrowCare
<1>2. Structs(c)
  <2>1. slot[w] = Nil /\ slot'[w].obj = th[c].obj /\ \A v \in Workers \ {w} : slot'[v] = slot[v]
    BY DEF Grow
  <2> QED BY <2>1 DEF Structs, RegistryStays, OnlyStops
<1> QED BY <1>1, <1>2, StructsKept DEF OrphanInv

LEMMA EnsureSpawnOrphans ==
    ASSUME SlotsInv, RunInv, OrphanInv, NEW c \in Callers, EnsureSpawn(c)
    PROVE  OrphanInv'
<1>1. /\ c \in Threads /\ c \notin Workers /\ RegistryStays /\ closing' = closing /\ instRow' = instRow
      /\ th[c].pc = "spawn"
  BY EnsureSpawnDoes, SlotsAssumption
<1>2. th[c].handles = {} /\ instRow
  BY <1>1 DEF OrphanInv, CareInv, HandsOK
<1>3. CASE th'[c] = Idle /\ Alone(c) /\ slot' = slot /\ proc' = proc
  BY <1>1, <1>2, <1>3, OrphanStill, RestHandsOK, AloneStays DEF WorkersStay
<1>4. ASSUME NEW w \in Workers, NEW n \in Nat, Grow(w, th[c].obj, n, th[c].ch), Wakes(c, w),
             Goes(c, "acquire", th[c].obj, th[c].slot, th[c].handles)
      PROVE  OrphanInv'
  <2>1. PICK r : r = th'[c]
    OBVIOUS
  <2>2. r.handles = {} /\ r.pc = "acquire" /\ r.obj = th[c].obj
    BY <1>2, <1>4, <2>1 DEF Goes
  <2>3. HandsOK(c, r)
    BY <1>1, <2>2 DEF HandsOK
  <2>4. OthersStay(c) /\ closing' = closing \cup th[c].handles /\ instRow'
    BY <1>1, <1>2, <1>4, WakesOthersStay
  <2> QED BY <1>1, <1>4, <2>1, <2>2, <2>3, <2>4, GrowOrphans
<1> QED BY <1>3, <1>4, EnsureSpawnDoes

LEMMA ClearCreateOrphans ==
    ASSUME Keepers, SlotsInv, RunInv, OrphanInv, NEW c \in Callers, ClearCreate(c)
    PROVE  OrphanInv'
<1>1. /\ c \in Threads /\ RegistryStays /\ instRow' = instRow /\ instRow
      /\ th[c].pc = "create" /\ th'[c] = Idle
  BY ClearCreateDoes DEF OrphanInv
<1>2. CASE Alone(c) /\ slot' = slot /\ proc' = proc /\ closing' = closing \cup th[c].handles
  <2>1. OthersStay(c) /\ Spawned
    BY <1>2, AloneStays DEF OrphanInv, Spawned, CareInv
  <2>2. Structs(c)
    BY <1>1, <1>2, RestHandsOK DEF Structs, RegistryStays, OnlyStops
  <2>3. Care(c)
    BY <1>2 DEF Care, IsDetached
  <2> QED BY <1>1, <2>1, <2>2, <2>3, CareKept, StructsKept, RestHandsOK DEF OrphanInv
<1>3. ASSUME NEW w \in Workers, Grow(w, th[c].obj, Len(rows) + 1, th[c].ch), Wakes(c, w),
             closing' = closing \cup th[c].handles
      PROVE  OrphanInv'
  BY <1>1, <1>3, GrowOrphans, RestHandsOK, WakesOthersStay
<1> QED BY <1>1, <1>2, <1>3, ClearCreateDoes DEF Keepers

\* The struct StartInstance makes is new to everybody.
LEMMA StartSpawnOrphans ==
    ASSUME OneStarter, SlotsInv, RunInv, OrphanInv, NEW c \in Callers, StartSpawn(c)
    PROVE  OrphanInv'
<1>1. /\ c \in Threads /\ c \notin Workers /\ th[c].pc = "spawn" /\ th[c].kind = "start" /\ Alone(c)
      /\ registry' = registry /\ closing' = closing /\ OthersStay(c)
  BY StartSpawnDoes, AloneStays, SlotsAssumption
<1>2. th[c].handles = {} /\ instRow
  BY <1>1 DEF OrphanInv, CareInv, HandsOK
<1>3. instRow'
  BY <1>2, StartSpawnDoes DEF StartWrote
<1>4. PICK r : r = th'[c]
  OBVIOUS
<1>5. r.handles = {} /\ r.pc \in {"register", "reregister"} /\ r.obj = th[c].obj
  BY <1>2, <1>4, StartSpawnDoes DEF Goes
<1>6. HandsOK(c, r)
  BY <1>1, <1>5 DEF HandsOK
<1>7. CASE /\ status' = status /\ slot' = slot /\ proc' = proc
           /\ Goes(c, "reregister", th[c].obj, th[c].slot, th[c].handles)
  <2>1. r.pc = "reregister" /\ RegistryStays /\ WorkersStay
    BY <1>1, <1>4, <1>7 DEF Goes, RegistryStays, WorkersStay
  <2> QED BY <1>1, <1>2, <1>3, <1>4, <1>5, <1>6, <1>7, <2>1, OrphanStill
<1>8. ASSUME NEW w \in Workers, NEW o \in Objs, NEW n, NEW ch,
             status[o] = "none", status' = [status EXCEPT ![o] = "running"],
             Grow(w, o, n, ch), Goes(c, "register", th[c].obj, w, th[c].handles)
      PROVE  OrphanInv'
  <2>1. closing' = closing \cup th[c].handles /\ r.slot = w /\ r.pc = "register"
    BY <1>1, <1>2, <1>4, <1>8 DEF Goes
  <2>2. CareInv'
    BY <1>1, <1>4, <1>6, <1>8, <2>1, GrowCare
  <2>3. \A k \in Threads \ {c} : th'[k] = th[k] /\ th[k].pc # "register"
    BY <1>1, Starters DEF Alone, Starting
  <2>4. slot'[w].obj = o /\ \A v \in Workers \ {w} : slot'[v] = slot[v]
    BY <1>8 DEF Grow
  <2>5. \A v \in Workers : slot'[v] # Nil /\ slot'[v].obj = o => v = w
    BY <1>8, <2>4 DEF SlotsInv, SlotOK
  <2>6. \A k \in Threads : th[k].obj # o
    <3> TAKE k \in Threads
    <3>1. th[k].obj # Nil => status[th[k].obj] # "none"
      BY SlotsFacts DEF SlotRefs
    <3> QED BY <1>8, <3>1, SlotsAssumption
  <2>7. \A k \in Threads : th'[k].obj # o
    BY <1>4, <1>5, <2>3, <2>6, <1>1
  <2>8. Unknown(o)'
    BY <2>5, <2>7 DEF Unknown
  <2>9. \A p \in Objs : status'[p] = "running" => p = o
    <3>1. NoneRuns /\ status \in [Objs -> {"none", "running", "stopped"}]
      BY <1>1 DEF RunInv, RunRefs, Starting, SlotsInv, TypeOK
    <3> QED BY <1>8, <3>1 DEF NoneRuns
  <2>10. \A k \in Threads : th'[k].pc = "register" => slot'[th'[k].slot].obj = o
    BY <1>4, <2>1, <2>3, <2>4
  <2>11. th'[c].pc = "register" /\ slot'[th'[c].slot].obj = o
    BY <1>4, <2>1, <2>4
  <2>12. ASSUME NEW k \in Threads, th'[k].pc = "register" PROVE Unknown(slot[th[k].slot].obj)'
    <3>1. PICK x : x = slot'[th'[k].slot].obj
      OBVIOUS
    <3>2. Unknown(x)'
      BY <2>8, <2>10, <2>12, <3>1
    <3> QED BY <3>1, <3>2
  <2>13. StructInv'
    BY <1>1, <2>9, <2>11, <2>12 DEF StructInv
  <2> QED BY <1>3, <2>2, <2>13 DEF OrphanInv
<1> QED BY <1>7, <1>8, StartSpawnDoes

\* A worker exits on request, or nothing happens.
LEMMA QuietOrphans ==
    ASSUME SlotsInv, RunInv, OrphanInv, th' = th, RegistryStays, slot' = slot, instRow' = instRow,
           \/ proc' = proc /\ closing' = closing
           \/ \E w \in closing : proc' = [proc EXCEPT ![w] = "dead"] /\ closing' = closing \ {w} /\ slot[w] # Nil
    PROVE  OrphanInv'
<1>1. PICK t \in Threads : t \in Workers
  BY SlotsAssumption DEF Threads
<1>2. PICK r : r = th[t]
  OBVIOUS
<1>3. OthersStay(t) /\ HandsOK(t, r) /\ th'[t] = r
  BY <1>2 DEF OthersStay, OrphanInv, CareInv
<1>4. Structs(t)
  BY <1>1, <1>2, <1>3 DEF Structs, RegistryStays, OnlyStops, HandsOK
<1>5. proc \in [Workers -> {"none", "up", "dead"}]
  BY DEF SlotsInv, TypeOK
<1>6. Spawned
  BY <1>5 DEF Spawned, OrphanInv, CareInv
<1>7. Care(t)
  BY <1>5 DEF Care, IsDetached
<1>8. CareInv' /\ StructInv'
  BY <1>3, <1>4, <1>6, <1>7, CareKept, StructsKept DEF OrphanInv
<1> QED BY <1>8 DEF OrphanInv

LEMMA AsyncShutdownOrphans ==
    ASSUME SlotsInv, RunInv, LiveInv, OrphanInv, NEW w \in Workers, AsyncShutdown(w)
    PROVE  OrphanInv'
<1>1. /\ th' = th /\ RegistryStays /\ slot' = slot /\ instRow' = instRow
      /\ w \in closing /\ closing' = closing \ {w} /\ proc' = [proc EXCEPT ![w] = "dead"]
  BY DEF AsyncShutdown, RegistryStays, regVars, dbVars
<1>2. slot[w] # Nil
  BY <1>1 DEF LiveInv, IsDetached
<1> QED BY <1>1, <1>2, QuietOrphans

LEMMA OrphanInvInit == Init => OrphanInv
<1> SUFFICES ASSUME Init PROVE OrphanInv
  OBVIOUS
<1>1. \A t \in Threads : th[t] = IF t = Worker0 THEN Watching ELSE Idle
  BY DEF Init
<1>2. \A t \in Threads : HandsOK(t, th[t]) /\ th[t].pc # "register"
  BY <1>1, RestHandsOK
<1>3. \A w \in Workers : slot[w] # Nil => slot[w].live
  BY DEF Init
<1>4. \A w \in Workers : proc[w] # "none" => slot[w] # Nil
  <2>1. [obj |-> Obj0, sid |-> 1, ch |-> Channel0, live |-> TRUE, mapped |-> TRUE] # Nil
    <3>1. [obj |-> Obj0, sid |-> 1, ch |-> Channel0, live |-> TRUE, mapped |-> TRUE] \in Slots
      <4>1. 1 \in Nat \ {0} /\ TRUE \in BOOLEAN /\ Obj0 \in Objs /\ Channel0 \in Channels
        BY SlotsAssumption
      <4> QED BY <4>1 DEF Slots
    <3> QED BY <3>1, SlotsAssumption
  <2> QED BY <2>1 DEF Init
<1>5. CareInv
  BY <1>2, <1>3, <1>4 DEF CareInv, IsDetached
<1>6. StructInv
  BY <1>2 DEF StructInv, Init
<1> QED BY <1>5, <1>6 DEF OrphanInv, Init

OrphanSafe == OneStarter /\ MaxDeaths = 0 /\ Keepers

LEMMA OrphanInvNext == OrphanSafe /\ SlotsInv /\ RunInv /\ LiveInv /\ OrphanInv /\ [Next]_vars => OrphanInv'
<1> SUFFICES ASSUME OneStarter, MaxDeaths = 0, Keepers, SlotsInv, RunInv, LiveInv, OrphanInv, [Next]_vars
             PROVE  OrphanInv'
  BY DEF OrphanSafe
<1>1. ASSUME NEW t \in Threads, DetachStep(t) PROVE OrphanInv'
  BY <1>1, CalmOrphans, InstLockCalm, DetachSlotOrphans, DetachedOrphans DEF DetachStep
<1>2. ASSUME NEW c \in Callers, CallStep(c) PROVE OrphanInv'
  <2> c \in Threads
    BY DEF Threads
  <2>1. CASE GetInstance(c)
    BY <2>1, CalmOrphans, GetInstanceCalm
  <2>2. CASE SendStep(c)
    BY <2>2, CalmOrphans, EnsureLockCalm, EnsureAliveOrphans, EnsureSpawnOrphans, AcquireGetCalm,
       AcquireLookupCalm, AcquireSlotCalm, ChatEndsCalm DEF SendStep
  <2>3. CASE ClearStep(c)
    BY <2>3, CalmOrphans, ClearLockCalm, ClearDetachOrphans, ClearCreateOrphans DEF ClearStep
  <2>4. CASE StopStep(c)
    BY <2>4, CalmOrphans, StopGetCalm, StopLockCalm, ShutdownOrphans DEF StopStep
  <2>5. ~DeleteStep(c)
    <3>1. th[c].kind # "delete" /\ th[c].pc # "dropRows"
      BY NobodyDeletes DEF OrphanInv, CareInv, HandsOK
    <3> QED BY <3>1 DEF DeleteStep, DeleteGet, DeleteLock, DropRows, At
  <2>6. CASE StartStep(c)
    BY <2>6, CalmOrphans, StartGetCalm, StartUnregisterOrphans, ReregisterOrphans, StartSpawnOrphans,
       StartRegisterOrphans DEF StartStep
  <2> QED BY <1>1, <1>2, <2>1, <2>2, <2>3, <2>4, <2>5, <2>6 DEF CallStep
<1>3. ASSUME NEW w \in Workers, WatchStep(w) PROVE OrphanInv'
  BY <1>1, <1>3, CalmOrphans, WatchFindCalm, WatchExamineCalm, WatchCompareOrphans, DeathGetCalm,
     DeathLockCalm DEF WatchStep, Threads
<1>4. ASSUME NEW w \in Workers PROVE ~WorkerDies(w)
  BY DEF WorkerDies, SlotsInv, TypeOK
<1>5. ASSUME NEW c \in Callers, NEW kind \in Calls, Call(c, kind) PROVE OrphanInv'
  BY <1>5, CallCalm, CalmOrphans DEF Threads
<1>6. CASE UNCHANGED vars
  <2>1. slot' = slot /\ proc' = proc /\ closing' = closing /\ th' = th /\ instRow' = instRow /\ RegistryStays
    BY <1>6 DEF vars, slotVars, dbVars, regVars, RegistryStays
  <2> QED BY <2>1, QuietOrphans
<1> QED BY <1>2, <1>3, <1>4, <1>5, <1>6, AsyncShutdownOrphans DEF Next

LEMMA Accounted == SlotsInv /\ RunInv /\ LiveInv /\ OrphanInv => NoOrphanWorker
<1> SUFFICES ASSUME SlotsInv, RunInv, LiveInv, OrphanInv, NEW w \in Workers, proc[w] = "up"
             PROVE  \/ w \in closing
                    \/ \E t \in Threads : w \in th[t].handles
                    \/ slot[w].live /\ w \in Mapped(registry)
                    \/ \E c \in Callers : At(c, "register") /\ th[c].slot = w
  BY DEF NoOrphanWorker
<1>1. slot[w] # Nil /\ slot[w].obj \in Objs
  BY DEF OrphanInv, CareInv, SlotsInv, TypeOK, Slots
<1>2. CASE ~slot[w].live
  BY <1>1, <1>2 DEF OrphanInv, CareInv, IsDetached, TakenCare
<1>3. CASE slot[w].live
  <2>1. slot[w].mapped /\ status[slot[w].obj] = "running"
    BY <1>1, <1>3 DEF LiveInv, IsLive, RunInv, InMaps
  <2>2. CASE registry = slot[w].obj
    BY <1>1, <1>3, <2>1, <2>2 DEF Mapped
  <2>3. ASSUME NEW c \in Threads, th[c].pc = "register", slot[th[c].slot].obj = slot[w].obj
        PROVE  c \in Callers /\ th[c].slot = w
    <3>1. c \in Callers
      BY <2>3 DEF RunInv, RunRefs, Starting
    <3>2. th[c].slot \in Workers /\ slot[th[c].slot] # Nil
      BY <2>3, SlotsFacts DEF KindOK, SlotRefs, SlotPcs
    <3>3. Unknown(slot[th[c].slot].obj)
      BY <2>3 DEF OrphanInv, StructInv
    <3> QED BY <1>1, <2>3, <3>1, <3>2, <3>3 DEF Unknown
  <2> QED BY <1>1, <2>1, <2>2, <2>3, <1>3 DEF OrphanInv, StructInv, At
<1> QED BY <1>2, <1>3

(***************************************************************************)
(* Every worker process that is up is reachable: it serves a mapped slot   *)
(* of the registered struct, or somebody is about to shut it down or to    *)
(* register it.  Deaths and deletes are left out because the code does not *)
(* promise it for them (handleInstanceDeath only closes connections, and a *)
(* delete can overtake a start), nor for a /clear that fails after it took *)
(* the old worker.                                                         *)
(***************************************************************************)
THEOREM WorkersAccountedFor == OrphanSafe => (Spec => []NoOrphanWorker)
<1> SUFFICES ASSUME OrphanSafe PROVE Spec => []NoOrphanWorker
  OBVIOUS
<1>1. OneStarter /\ MaxDeaths = 0
  BY DEF OrphanSafe
<1>2. SlotsInv /\ RunInv /\ LiveInv /\ OrphanInv /\ [Next]_vars => OrphanInv'
  BY OrphanInvNext
<1>3. Spec => []SlotsInv /\ []RunInv /\ []LiveInv
  BY <1>1, SlotsInvAlways, RunInvAlways, LiveInvAlways
<1> QED BY <1>2, <1>3, OrphanInvInit, Accounted, PTL DEF Spec

(***************************************************************************)
(* What a cleared session leaves in the table.                             *)
(***************************************************************************)
RowTimes == \A m, n \in DOMAIN rows : m < n => rows[m].at < rows[n].at
Superseded(n) ==
    \/ \E m \in Sids : m > n
    \/ \E t \in Threads : th[t].pc = "create"
    \/ Unspawned = {}
ClearInv ==
    /\ RowTimes
    /\ ~instRow => \A n \in DOMAIN rows : rows[n].status = "deleted"
    /\ \A n \in DOMAIN rows : rows[n].status = "stopped" => Superseded(n)
    /\ ClearedStaysCleared

\* No row is cleared or deleted, and new ones are running.
RowsKeep ==
    /\ DOMAIN rows \subseteq DOMAIN rows'
    /\ \A k \in DOMAIN rows : rows'[k].status = rows[k].status
    /\ \A k \in DOMAIN rows' : k \in DOMAIN rows \/ rows'[k].status = "running"
FewerUnspawned == \A w \in Workers : proc'[w] = "none" => proc[w] = "none"
\* What channels can reach was there, or is no cleared session.
NoneResumed ==
    \A w \in Workers : InMaps(w)' =>
       (InMaps(w) /\ slot'[w].sid = slot[w].sid) \/ rows'[slot'[w].sid].status # "stopped"

LEMMA RowFacts ==
    ASSUME SlotsInv
    PROVE  /\ rows \in Seq(Rows) /\ Len(rows) \in Nat /\ DOMAIN rows = 1 .. Len(rows)
           /\ \A k \in DOMAIN rows : rows[k] \in Rows /\ rows[k].at \in Nat /\ k \in Nat
<1>1. rows \in Seq(Rows)
  BY DEF SlotsInv, TypeOK
<1>2. Len(rows) \in Nat /\ DOMAIN rows = 1 .. Len(rows)
  BY <1>1
<1>3. ASSUME NEW k \in DOMAIN rows PROVE rows[k] \in Rows /\ rows[k].at \in Nat /\ k \in Nat
  <2>1. rows[k] \in Rows
    BY <1>1
  <2> QED BY <1>2, <2>1 DEF Rows
<1> QED BY <1>1, <1>2, <1>3

LEMMA TimesStay ==
    ASSUME RowTimes, DOMAIN rows' = DOMAIN rows, \A k \in DOMAIN rows : rows'[k].at = rows[k].at
    PROVE  RowTimes'
BY DEF RowTimes

LEMMA TimesGrow ==
    ASSUME SlotsInv, RowTimes, ~SameSecond, NEW ch, Extended(ch)
    PROVE  RowTimes'
<1>1. /\ Len(rows) \in Nat /\ DOMAIN rows = 1 .. Len(rows) /\ DOMAIN rows' = 1 .. Len(rows) + 1
      /\ \A k \in DOMAIN rows : rows'[k] = rows[k] /\ rows[k].at \in Nat
  BY RowFacts DEF Extended
<1>2. rows'[Len(rows) + 1].at \in Now
  BY DEF Extended
<1>3. ASSUME NEW m \in DOMAIN rows PROVE rows[m].at < rows'[Len(rows) + 1].at
  <2>1. rows # <<>> /\ Len(rows) \in DOMAIN rows
    BY <1>1, <1>3, RowFacts
  <2>2. rows'[Len(rows) + 1].at = rows[Len(rows)].at + 1
    BY <1>2, <2>1 DEF Now
  <2>3. m = Len(rows) \/ rows[m].at < rows[Len(rows)].at
    BY <1>1, <2>1 DEF RowTimes
  <2> QED BY <1>1, <2>1, <2>2, <2>3
<1>4. ASSUME NEW m \in DOMAIN rows', NEW n \in DOMAIN rows', m < n PROVE rows'[m].at < rows'[n].at
  <2>1. m \in DOMAIN rows /\ rows'[m] = rows[m]
    BY <1>1, <1>4
  <2>2. n = Len(rows) + 1 \/ (n \in DOMAIN rows /\ rows'[n] = rows[n])
    BY <1>1, <1>4
  <2> QED BY <1>3, <1>4, <2>1, <2>2 DEF RowTimes
<1> QED BY <1>4 DEF RowTimes

LEMMA SupersededStays ==
    ASSUME NEW t \in Threads, OthersStay(t), th[t].pc = "create" => th'[t].pc = "create",
           RowsKeep, FewerUnspawned, NEW n, Superseded(n)
    PROVE  Superseded(n)'
<1>1. ASSUME NEW m \in Sids, m > n PROVE m \in Sids' /\ m > n
  BY <1>1 DEF Sids, RowsKeep
<1>2. ASSUME NEW k \in Threads, th[k].pc = "create" PROVE th'[k].pc = "create"
  BY <1>2, RestHandsOK DEF OthersStay, Woken
<1>3. Unspawned = {} => Unspawned' = {}
  BY DEF Unspawned, FewerUnspawned
<1> QED BY <1>1, <1>2, <1>3 DEF Superseded

LEMMA ClearKept ==
    ASSUME SlotsInv, ClearInv, NEW t \in Threads, OthersStay(t),
           th[t].pc = "create" => th'[t].pc = "create",
           RowsKeep, RowTimes', FewerUnspawned, NoneResumed,
           instRow' \/ (~instRow /\ rows' = rows)
    PROVE  ClearInv'
<1>1. ~instRow' => \A n \in DOMAIN rows' : rows'[n].status = "deleted"
  BY DEF ClearInv
<1>2. ASSUME NEW n \in DOMAIN rows', rows'[n].status = "stopped" PROVE Superseded(n)'
  <2>1. n \in DOMAIN rows /\ rows[n].status = "stopped"
    BY <1>2 DEF RowsKeep
  <2>2. Superseded(n)
    BY <2>1 DEF ClearInv
  <2> QED BY <2>2, SupersededStays
<1>3. ASSUME NEW w \in Workers, InMaps(w)' PROVE rows'[slot'[w].sid].status # "stopped"
  <2>1. CASE InMaps(w) /\ slot'[w].sid = slot[w].sid
    <3>1. rows[slot[w].sid].status # "stopped" /\ slot[w].sid \in DOMAIN rows
      BY <2>1 DEF ClearInv, ClearedStaysCleared, InMaps, SlotsInv, SlotOK
    <3> QED BY <2>1, <3>1 DEF RowsKeep
  <2> QED BY <1>3, <2>1 DEF NoneResumed
<1>4. ClearedStaysCleared'
  BY <1>3 DEF ClearedStaysCleared, InMaps
<1> QED BY <1>1, <1>2, <1>4 DEF ClearInv

\* The tables stay and no slot comes into reach.
LEMMA ClearStill ==
    ASSUME SlotsInv, ClearInv, NEW t \in Threads, OthersStay(t),
           th[t].pc = "create" => th'[t].pc = "create", DbStays, FewerUnspawned,
           \A w \in Workers : InMaps(w)' => InMaps(w) /\ slot'[w].sid = slot[w].sid
    PROVE  ClearInv'
<1>1. RowsKeep /\ RowTimes' /\ NoneResumed
  BY TimesStay DEF RowsKeep, DbStays, NoneResumed, ClearInv
<1>2. instRow' \/ (~instRow /\ rows' = rows)
  BY DEF DbStays
<1> QED BY <1>1, <1>2, ClearKept

LEMMA SlotsStill ==
    ASSUME slot' = slot
    PROVE  \A w \in Workers : InMaps(w)' => InMaps(w) /\ slot'[w].sid = slot[w].sid
BY DEF InMaps

LEMMA TrimStill ==
    ASSUME NEW w, Trim(w), ~slot'[w].live \/ ~slot'[w].mapped
    PROVE  \A v \in Workers : InMaps(v)' => InMaps(v) /\ slot'[v].sid = slot[v].sid
BY DEF InMaps, Trim

LEMMA CalmClears ==
    ASSUME SlotsInv, ClearInv, NEW t \in Threads, Calm(t)
    PROVE  ClearInv'
<1>1. OthersStay(t) /\ DbStays /\ slot' = slot /\ proc' = proc /\ FreeTo(t, th'[t])
  BY AloneStays DEF Calm, Still, DbStays
<1>2. th[t].pc # "create"
  BY <1>1 DEF FreeTo, Begins, Returns, Onward, Looks, StartLooks, Takes, Uses, Snapshots
<1> QED BY <1>1, <1>2, ClearStill, SlotsStill DEF FewerUnspawned

LEMMA TrimClears ==
    ASSUME SlotsInv, ClearInv, NEW t \in Threads,
           (EnsureAlive(t) /\ t \in Callers) \/ (WatchCompare(t) /\ t \in Workers) \/ DetachSlot(t)
    PROVE  ClearInv'
<1>1. CASE EnsureAlive(t) /\ t \in Callers
  <2>1. OthersStay(t) /\ DbStays /\ proc' = proc /\ th[t].pc = "alive"
    BY <1>1, EnsureAliveDoes, AloneStays DEF WorkersStay
  <2>2. PICK v : v = th[t].slot
    OBVIOUS
  <2>3. slot' = slot \/ (Trim(v) /\ ~slot'[v].live)
    BY <1>1, <2>2, EnsureAliveDoes
  <2> QED BY <2>1, <2>3, ClearStill, SlotsStill, TrimStill DEF FewerUnspawned
<1>2. CASE WatchCompare(t) /\ t \in Workers
  <2>1. OthersStay(t) /\ DbStays /\ proc' = proc /\ th[t].pc = "compare"
    BY <1>2, WatchCompareDoes, AloneStays DEF WorkersStay
  <2>2. slot' = slot \/ (Trim(t) /\ ~slot'[t].mapped)
    BY <1>2, WatchCompareDoes
  <2> QED BY <2>1, <2>2, ClearStill, SlotsStill, TrimStill DEF FewerUnspawned
<1>3. CASE DetachSlot(t)
  <2>1. OthersStay(t) /\ DbStays /\ proc' = proc /\ th[t].pc = "detach"
    BY <1>3, DetachSlotDoes, AloneStays DEF WorkersStay
  <2>2. PICK v : Trim(v) /\ ~slot'[v].live
    BY <1>3, DetachSlotDoes
  <2> QED BY <2>1, <2>2, ClearStill, TrimStill DEF FewerUnspawned
<1> QED BY <1>1, <1>2, <1>3

LEMMA DetachedClears ==
    ASSUME SlotsInv, ClearInv, NEW t \in Threads, Detached(t)
    PROVE  ClearInv'
<1>1. OthersStay(t) /\ DbStays /\ proc' = proc /\ slot' = slot /\ th[t].pc = "detach"
  BY DetachedDoes, AloneStays DEF WorkersStay
<1> QED BY <1>1, ClearStill, SlotsStill DEF FewerUnspawned

LEMMA RegistryClears ==
    ASSUME SlotsInv, ClearInv, NEW c \in Callers,
           DeleteLock(c) \/ StartUnregister(c) \/ Reregister(c) \/ StartRegister(c) \/ Shutdown(c)
    PROVE  ClearInv'
<1>1. c \in Threads /\ DbStays /\ slot' = slot /\ th[c].pc # "create"
  BY DeleteLockDoes, StartUnregisterDoes, ReregisterDoes, StartRegisterDoes, ShutdownDoes
<1>2. OthersStay(c)
  BY DeleteLockDoes, StartUnregisterDoes, ReregisterDoes, StartRegisterDoes, ShutdownDoes, AloneStays,
     WakesOthersStay
<1>3. FewerUnspawned
  BY DeleteLockDoes, StartUnregisterDoes, ReregisterDoes, StartRegisterDoes, ShutdownDoes
     DEF FewerUnspawned, WorkersStay
<1> QED BY <1>1, <1>2, <1>3, ClearStill, SlotsStill

\* A worker exits, or nothing happens.
LEMMA QuietClears ==
    ASSUME SlotsInv, ClearInv, th' = th, slot' = slot, DbStays, FewerUnspawned
    PROVE  ClearInv'
<1>1. PICK t \in Threads : TRUE
  BY SlotsAssumption DEF Threads
<1>2. OthersStay(t)
  BY DEF OthersStay
<1> QED BY <1>1, <1>2, ClearStill, SlotsStill

LEMMA ExitClears ==
    ASSUME SlotsInv, ClearInv, NEW w \in Workers, AsyncShutdown(w) \/ WorkerDies(w)
    PROVE  ClearInv'
<1>1. th' = th /\ slot' = slot /\ DbStays /\ proc' = [proc EXCEPT ![w] = "dead"]
  BY DEF AsyncShutdown, WorkerDies, DbStays, dbVars
<1>2. FewerUnspawned
  BY <1>1 DEF FewerUnspawned, SlotsInv, TypeOK
<1> QED BY <1>1, <1>2, QuietClears

LEMMA GrowUnspawned ==
    ASSUME SlotsInv, NEW w, NEW o, NEW n, NEW ch, Grow(w, o, n, ch)
    PROVE  FewerUnspawned /\ Unspawned # {} /\ \A v \in Workers : v # w /\ InMaps(v)' => InMaps(v) /\ slot'[v].sid = slot[v].sid
<1>1. proc \in [Workers -> {"none", "up", "dead"}]
  BY DEF SlotsInv, TypeOK
<1> QED BY <1>1 DEF Grow, FewerUnspawned, Unspawned, InMaps

LEMMA ExtendedKeeps ==
    ASSUME SlotsInv, NEW ch, Extended(ch)
    PROVE  RowsKeep /\ Len(rows) + 1 \in Sids' /\ rows'[Len(rows) + 1].status # "stopped"
BY DEF Extended, RowsKeep, Sids

LEMMA EnsureSpawnClears ==
    ASSUME ~SameSecond, SlotsInv, ClearInv, NEW c \in Callers, EnsureSpawn(c)
    PROVE  ClearInv'
<1>1. c \in Threads /\ instRow' = instRow /\ th[c].pc = "spawn"
  BY EnsureSpawnDoes
<1>2. rows' = rows \/ (instRow /\ Extended(th[c].ch))
  BY EnsureSpawnDoes DEF Inserted
<1>3. RowsKeep /\ RowTimes' /\ (instRow' \/ (~instRow /\ rows' = rows))
  <2>1. CASE rows' = rows
    BY <1>1, <2>1, TimesStay DEF RowsKeep, ClearInv
  <2>2. CASE instRow /\ Extended(th[c].ch)
    BY <1>1, <2>2, ExtendedKeeps, TimesGrow DEF ClearInv
  <2> QED BY <1>2, <2>1, <2>2
<1>4. CASE Alone(c) /\ slot' = slot /\ proc' = proc
  <2>1. OthersStay(c) /\ FewerUnspawned /\ NoneResumed
    BY <1>4, AloneStays, SlotsStill DEF FewerUnspawned, NoneResumed
  <2> QED BY <1>1, <1>3, <2>1, ClearKept
<1>5. ASSUME NEW w \in Workers, NEW n \in Nat, Grow(w, th[c].obj, n, th[c].ch), Wakes(c, w),
             (n \in Resumable(th[c].ch) /\ rows' = rows) \/ (n = Len(rows) + 1 /\ Inserted(th[c].ch))
      PROVE  ClearInv'
  <2>1. rows'[n].status # "stopped"
    BY <1>5, ExtendedKeeps DEF Inserted, Resumable
  <2>2. slot'[w].sid = n
    BY <1>5 DEF Grow
  <2>3. NoneResumed /\ FewerUnspawned
    BY <1>5, <2>1, <2>2, GrowUnspawned DEF NoneResumed
  <2>4. OthersStay(c)
    BY <1>5, WakesOthersStay
  <2> QED BY <1>1, <1>3, <2>3, <2>4, ClearKept
<1>6. \/ Alone(c) /\ slot' = slot /\ proc' = proc
      \/ \E w \in Workers, n \in Nat :
           /\ Grow(w, th[c].obj, n, th[c].ch) /\ Wakes(c, w)
           /\ (n \in Resumable(th[c].ch) /\ rows' = rows) \/ (n = Len(rows) + 1 /\ Inserted(th[c].ch))
  BY EnsureSpawnDoes
<1> QED BY <1>4, <1>5, <1>6

\* StartInstance resumes the latest session: a cleared one is not the latest.
LEMMA LatestNotCleared ==
    ASSUME SlotsInv, RunInv, ClearInv, NEW n \in LatestByInstance, NoneRuns, Unspawned # {}
    PROVE  rows[n].status # "stopped"
<1> SUFFICES ASSUME rows[n].status = "stopped" PROVE FALSE
  OBVIOUS
<1>1. n \in Sids /\ n \in DOMAIN rows /\ \A k \in Sids : rows[k].at <= rows[n].at
  BY DEF LatestByInstance, Latest, Sids
<1>2. Superseded(n)
  BY <1>1 DEF ClearInv
<1>3. ASSUME NEW m \in Sids, m > n PROVE FALSE
  <2>1. rows[n].at < rows[m].at /\ rows[m].at <= rows[n].at
    BY <1>1, <1>3, RowFacts DEF ClearInv, RowTimes, Sids
  <2>2. m \in DOMAIN rows
    BY DEF Sids
  <2> QED BY <1>1, <2>1, <2>2, RowFacts
<1>4. ASSUME NEW t \in Threads, th[t].pc = "create" PROVE FALSE
  <2>1. status[th[t].obj] = "running" /\ th[t].obj \in Objs
    BY <1>4, SlotsFacts DEF RunInv, RunRefs, Holds, KindOK, ObjPcs
  <2> QED BY <2>1 DEF NoneRuns
<1> QED BY <1>2, <1>3, <1>4 DEF Superseded

LEMMA StartSpawnClears ==
    ASSUME ~SameSecond, SlotsInv, SlotsInv', RunInv, ClearInv, NEW c \in Callers, StartSpawn(c)
    PROVE  ClearInv'
<1>1. c \in Threads /\ th[c].pc = "spawn" /\ th[c].kind = "start" /\ OthersStay(c)
  BY StartSpawnDoes, AloneStays
<1>2. \/ rows' = rows /\ instRow' = instRow
      \/ instRow' /\ \E n \in LatestByInstance : DirChanged(n)
      \/ instRow' /\ Extended(Channel0)
  BY StartSpawnDoes DEF StartWrote
<1>3. RowsKeep /\ RowTimes' /\ (instRow' \/ (~instRow /\ rows' = rows))
  <2>1. CASE rows' = rows /\ instRow' = instRow
    BY <2>1, TimesStay DEF RowsKeep, ClearInv
  <2>2. ASSUME instRow', NEW n, DirChanged(n)
        PROVE  RowsKeep /\ RowTimes'
    BY <2>2, TimesStay DEF RowsKeep, ClearInv, DirChanged
  <2>3. CASE instRow' /\ Extended(Channel0)
    BY <2>3, ExtendedKeeps, TimesGrow DEF ClearInv
  <2> QED BY <1>2, <2>1, <2>2, <2>3
<1>4. CASE slot' = slot /\ proc' = proc
  <2>1. FewerUnspawned /\ NoneResumed
    BY <1>4, SlotsStill DEF FewerUnspawned, NoneResumed
  <2> QED BY <1>1, <1>3, <2>1, ClearKept
<1>5. ASSUME NEW w \in Workers, NEW o \in Objs, NEW n \in Nat, NEW ch \in Channels, Grow(w, o, n, ch),
             n \in LatestByInstance \/ n = Len(rows) + 1
      PROVE  ClearInv'
  <2>1. NoneRuns
    BY <1>1 DEF RunInv, RunRefs, Starting
  <2>2. slot'[w].sid = n /\ slot'[w] # Nil /\ Unspawned # {} /\ FewerUnspawned
    BY <1>5, GrowUnspawned, SlotsAssumption DEF Grow
  <2>3. rows'[n].status # "stopped"
    <3>1. CASE n \in LatestByInstance
      <4>1. rows[n].status # "stopped" /\ n \in DOMAIN rows
        BY <2>1, <2>2, <3>1, LatestNotCleared DEF LatestByInstance, Latest, Sids
      <4> QED BY <1>3, <4>1 DEF RowsKeep
    <3>2. CASE n = Len(rows) + 1
      <4>1. n \in DOMAIN rows'
        BY <2>2 DEF SlotsInv, SlotOK
      <4>2. n \notin DOMAIN rows
        BY <3>2, RowFacts
      <4> QED BY <1>3, <4>1, <4>2 DEF RowsKeep
    <3> QED BY <1>5, <3>1, <3>2
  <2>4. NoneResumed
    BY <1>5, <2>2, <2>3, GrowUnspawned DEF NoneResumed
  <2> QED BY <1>1, <1>3, <2>2, <2>4, ClearKept
<1> QED BY <1>4, <1>5, StartSpawnDoes

\* /clear takes the session out of the one struct that maps it.
LEMMA ClearDetachClears ==
    ASSUME SlotsInv, RunInv, ClearInv, NEW c \in Callers, ClearDetach(c)
    PROVE  ClearInv'
<1>1. c \in Threads /\ th[c].pc = "detachOld" /\ OthersStay(c) /\ instRow' = instRow
  BY ClearDetachDoes, AloneStays
<1>2. PICK v : v = th[c].slot
  OBVIOUS
<1>3. PICK n : n = slot[v].sid
  OBVIOUS
<1>4. /\ Trim(v) /\ ~slot'[v].live /\ RowStopped(n) /\ th'[c].pc = "create"
      /\ v \in Workers /\ IsMapped(v) /\ slot[v].obj = th[c].obj
  BY <1>1, <1>2, <1>3, ClearDetachDoes, SlotsFacts DEF Goes, MapRefs, Trim, IsMapped
<1>5. RowTimes'
  BY <1>4, TimesStay DEF RowStopped, ClearInv
<1>6. ASSUME ~instRow', NEW k \in DOMAIN rows' PROVE rows'[k].status = "deleted"
  BY <1>1, <1>4, <1>6 DEF RowStopped, ClearInv
<1>7. \A k \in DOMAIN rows' : Superseded(k)'
  BY <1>1, <1>4 DEF Superseded
<1>8. ASSUME NEW w \in Workers, InMaps(w)' PROVE rows'[slot'[w].sid].status # "stopped"
  <2>1. w # v /\ slot'[w] = slot[w] /\ InMaps(w)
    BY <1>4, <1>8 DEF Trim, InMaps
  <2>2. rows[slot[w].sid].status # "stopped" /\ slot[w].sid \in DOMAIN rows
    BY <2>1 DEF ClearInv, ClearedStaysCleared, InMaps, SlotsInv, SlotOK
  <2>3. slot[w].sid # n
    <3> SUFFICES ASSUME slot[w].sid = n PROVE FALSE
      OBVIOUS
    <3>1. status[slot[w].obj] = "running" /\ status[slot[v].obj] = "running"
      BY <1>1, <1>4, <2>1 DEF RunInv, RunRefs, Holds
    <3>2. slot[w].obj \in Objs /\ slot[v].obj \in Objs
      BY <1>4, <2>1 DEF InMaps, IsMapped, SlotsInv, TypeOK, Slots
    <3>3. slot[w].obj = slot[v].obj
      BY <3>1, <3>2 DEF RunInv
    <3>4. slot[w].ch = slot[v].ch
      BY <1>3, <1>4, <2>1 DEF SlotsInv, SlotOK, InMaps, IsMapped
    <3> QED BY <1>4, <2>1, <3>3, <3>4 DEF SlotsInv, IndexOK, IsMapped, InMaps
  <2> QED BY <1>4, <2>1, <2>2, <2>3 DEF RowStopped
<1>9. ClearedStaysCleared'
  BY <1>8 DEF ClearedStaysCleared, InMaps
<1> QED BY <1>5, <1>6, <1>7, <1>9 DEF ClearInv

ClearsWork == ~SameSecond /\ {"clear", "clear_early"} \cap Faults = {}

LEMMA ClearCreateClears ==
    ASSUME ClearsWork, SlotsInv, ClearInv, NEW c \in Callers, ClearCreate(c)
    PROVE  ClearInv'
<1>1. c \in Threads /\ th[c].pc = "create" /\ instRow' = instRow
  BY ClearCreateDoes
<1>2. CASE slot' = slot /\ proc' = proc /\ rows' = rows /\ (Unspawned = {} \/ ~instRow)
  <2>1. \A n \in DOMAIN rows : rows[n].status = "stopped" => Unspawned = {}
    BY <1>2 DEF ClearInv
  <2>2. Unspawned' = Unspawned
    BY <1>2 DEF Unspawned
  <2>3. \A n \in DOMAIN rows' : rows'[n].status = "stopped" => Superseded(n)'
    BY <1>2, <2>1, <2>2 DEF Superseded
  <2>4. ClearedStaysCleared' /\ RowTimes'
    BY <1>2 DEF ClearedStaysCleared, ClearInv, RowTimes
  <2> QED BY <1>1, <1>2, <2>3, <2>4 DEF ClearInv
<1>3. ASSUME NEW w \in Workers, Grow(w, th[c].obj, Len(rows) + 1, th[c].ch), Inserted(th[c].ch), instRow
      PROVE  ClearInv'
  <2>1. Extended(th[c].ch) /\ ~SameSecond
    BY <1>3 DEF Inserted, ClearsWork
  <2>2. RowsKeep /\ RowTimes' /\ Len(rows) + 1 \in Sids' /\ rows'[Len(rows) + 1].status # "stopped"
    BY <2>1, ExtendedKeeps, TimesGrow DEF ClearInv
  <2>3. ASSUME NEW n \in DOMAIN rows', rows'[n].status = "stopped" PROVE Superseded(n)'
    <3>1. n \in DOMAIN rows
      BY <2>2, <2>3 DEF RowsKeep
    <3>2. Len(rows) + 1 > n
      BY <3>1, RowFacts
    <3>3. PICK m : m = Len(rows) + 1
      OBVIOUS
    <3> QED BY <2>2, <3>2, <3>3 DEF Superseded
  <2>4. ASSUME NEW v \in Workers, InMaps(v)' PROVE rows'[slot'[v].sid].status # "stopped"
    <3>1. CASE v = w
      BY <1>3, <2>2, <3>1 DEF Grow
    <3>2. CASE v # w
      <4>1. InMaps(v) /\ slot'[v].sid = slot[v].sid
        BY <1>3, <2>4, <3>2, GrowUnspawned
      <4>2. rows[slot[v].sid].status # "stopped" /\ slot[v].sid \in DOMAIN rows
        BY <4>1 DEF ClearInv, ClearedStaysCleared, InMaps, SlotsInv, SlotOK
      <4> QED BY <2>2, <4>1, <4>2 DEF RowsKeep
    <3> QED BY <3>1, <3>2
  <2>5. ClearedStaysCleared'
    BY <2>4 DEF ClearedStaysCleared, InMaps
  <2> QED BY <1>1, <1>3, <2>2, <2>3, <2>5 DEF ClearInv
<1> QED BY <1>2, <1>3, ClearCreateDoes DEF ClearsWork

LEMMA DropRowsClears ==
    ASSUME SlotsInv, SlotsInv', ClearInv, NEW c \in Callers, DropRows(c)
    PROVE  ClearInv'
<1>1. /\ DOMAIN rows' = DOMAIN rows /\ slot' = slot
      /\ \A n \in DOMAIN rows : rows'[n].status = "deleted" /\ rows'[n].at = rows[n].at
  BY DropRowsDoes
<1>2. RowTimes'
  BY <1>1, TimesStay DEF ClearInv
<1>3. ASSUME NEW w \in Workers, slot'[w] # Nil PROVE rows'[slot'[w].sid].status # "stopped"
  BY <1>1, <1>3 DEF SlotsInv, SlotOK
<1>4. ClearedStaysCleared'
  BY <1>3 DEF ClearedStaysCleared
<1> QED BY <1>1, <1>2, <1>4 DEF ClearInv

LEMMA ClearInvInit == Init => ClearInv
<1> SUFFICES ASSUME Init PROVE ClearInv
  OBVIOUS
<1>1. rows = <<[ch |-> Channel0, status |-> "running", at |-> 0, dir |-> TRUE]>> /\ instRow
  BY DEF Init
<1>2. DOMAIN rows = {1} /\ rows[1].status = "running"
  BY <1>1
<1>3. RowTimes
  BY <1>2 DEF RowTimes
<1>4. \A w \in Workers : slot[w] # Nil => slot[w].sid = 1
  BY DEF Init
<1> QED BY <1>1, <1>2, <1>3, <1>4 DEF ClearInv, ClearedStaysCleared

LEMMA ClearInvNext ==
    ClearsWork /\ SlotsInv /\ SlotsInv' /\ RunInv /\ ClearInv /\ [Next]_vars => ClearInv'
<1> SUFFICES ASSUME ClearsWork, SlotsInv, SlotsInv', RunInv, ClearInv, [Next]_vars
             PROVE  ClearInv'
  OBVIOUS
<1>a. ~SameSecond
  BY DEF ClearsWork
<1>1. ASSUME NEW t \in Threads, DetachStep(t) PROVE ClearInv'
  BY <1>1, CalmClears, InstLockCalm, TrimClears, DetachedClears DEF DetachStep
<1>2. ASSUME NEW c \in Callers, CallStep(c) PROVE ClearInv'
  <2> c \in Threads
    BY DEF Threads
  <2>1. CASE GetInstance(c)
    BY <2>1, CalmClears, GetInstanceCalm
  <2>2. CASE SendStep(c)
    <3>1. CASE EnsureAlive(c)
      BY <3>1, TrimClears
    <3>2. CASE EnsureSpawn(c)
      BY <1>a, <3>2, EnsureSpawnClears
    <3> QED BY <2>2, <3>1, <3>2, CalmClears, EnsureLockCalm, AcquireGetCalm,
       AcquireLookupCalm, AcquireSlotCalm, ChatEndsCalm DEF SendStep
  <2>3. CASE ClearStep(c)
    BY <2>3, CalmClears, ClearLockCalm, ClearDetachClears, ClearCreateClears DEF ClearStep
  <2>4. CASE StopStep(c)
    BY <2>4, CalmClears, StopGetCalm, StopLockCalm, RegistryClears DEF StopStep
  <2>5. CASE DeleteStep(c)
    BY <2>5, CalmClears, DeleteGetCalm, RegistryClears, DropRowsClears DEF DeleteStep
  <2>6. CASE StartStep(c)
    BY <1>a, <2>6, CalmClears, StartGetCalm, RegistryClears, StartSpawnClears DEF StartStep
  <2> QED BY <1>1, <1>2, <2>1, <2>2, <2>3, <2>4, <2>5, <2>6 DEF CallStep
<1>3. ASSUME NEW w \in Workers, WatchStep(w) PROVE ClearInv'
  BY <1>1, <1>3, CalmClears, WatchFindCalm, WatchExamineCalm, TrimClears, DeathGetCalm,
     DeathLockCalm DEF WatchStep, Threads
<1>5. ASSUME NEW c \in Callers, NEW kind \in Calls, Call(c, kind) PROVE ClearInv'
  BY <1>5, CallCalm, CalmClears DEF Threads
<1>6. CASE UNCHANGED vars
  BY <1>6, QuietClears DEF vars, slotVars, dbVars, DbStays, FewerUnspawned
<1> QED BY <1>2, <1>3, <1>5, <1>6, ExitClears DEF Next

(***************************************************************************)
(* A session ended by /clear is never resumed, whatever dies, stops,       *)
(* restarts or is deleted meanwhile: if one goroutine at a time starts the *)
(* instance, no two sessions are created within a second and the spawn of  *)
(* the new session succeeds.                                               *)
(***************************************************************************)
THEOREM ClearedSessionsStayCleared == OneStarter /\ ClearsWork => (Spec => []ClearedStaysCleared)
<1> SUFFICES ASSUME OneStarter, ClearsWork PROVE Spec => []ClearedStaysCleared
  OBVIOUS
<1>1. SlotsInv /\ SlotsInv' /\ RunInv /\ ClearInv /\ [Next]_vars => ClearInv'
  BY ClearInvNext
<1>2. ClearInv => ClearedStaysCleared
  BY DEF ClearInv
<1> QED BY <1>1, <1>2, SlotsInvAlways, RunInvAlways, ClearInvInit, PTL DEF Spec

(***************************************************************************)
(* Which sessions are given up.  A start that fails may leave a session    *)
(* without its directory: the latest one, while nothing runs, and the next *)
(* start takes up just that one.                                           *)
(***************************************************************************)
Abandoned(n) == rows[n].status = "running" /\ ~rows[n].dir
KeptInv ==
    /\ RowTimes
    /\ \A n \in DOMAIN rows : Abandoned(n) => NoneRuns /\ \A k \in Sids : k <= n

\* No directory is removed from under a running session.
DirsKeep == \A k \in DOMAIN rows' : Abandoned(k)' => k \in DOMAIN rows /\ Abandoned(k)

LEMMA KeptStep ==
    ASSUME SlotsInv, KeptInv, RowTimes', DirsKeep, OnlyStops, Sids' \subseteq Sids
    PROVE  KeptInv'
<1>1. ASSUME NEW n \in DOMAIN rows', Abandoned(n)' PROVE NoneRuns' /\ \A k \in Sids' : k <= n
  <2>1. NoneRuns /\ \A k \in Sids : k <= n
    BY <1>1 DEF DirsKeep, KeptInv
  <2> QED BY <2>1 DEF NoneRuns, OnlyStops
<1> QED BY <1>1 DEF KeptInv

LEMMA KeptStill ==
    ASSUME SlotsInv, KeptInv, rows' = rows, OnlyStops
    PROVE  KeptInv'
<1>1. RowTimes' /\ DirsKeep /\ Sids' = Sids
  BY DEF KeptInv, RowTimes, DirsKeep, Abandoned, Sids
<1> QED BY <1>1, KeptStep

LEMMA StatusStays ==
    ASSUME RegistryStays \/ status' = status
    PROVE  OnlyStops
BY DEF RegistryStays, OnlyStops

LEMMA StatusStops ==
    ASSUME SlotsInv, NEW o, status' = [status EXCEPT ![o] = "stopped"]
    PROVE  OnlyStops
<1>1. status \in [Objs -> {"none", "running", "stopped"}]
  BY DEF SlotsInv, TypeOK
<1> QED BY <1>1 DEF OnlyStops

LEMMA CalmKeeps ==
    ASSUME SlotsInv, KeptInv, NEW t, Calm(t)
    PROVE  KeptInv'
<1>1. rows' = rows /\ status' = status
  BY DEF Calm, Still
<1> QED BY <1>1, KeptStill, StatusStays

LEMMA TrimKeeps ==
    ASSUME SlotsInv, KeptInv, NEW t \in Threads,
           (EnsureAlive(t) /\ t \in Callers) \/ (WatchCompare(t) /\ t \in Workers) \/ DetachSlot(t)
    PROVE  KeptInv'
<1>1. DbStays /\ RegistryStays
  BY EnsureAliveDoes, WatchCompareDoes, DetachSlotDoes
<1> QED BY <1>1, KeptStill, StatusStays DEF DbStays

LEMMA DetachedKeeps ==
    ASSUME SlotsInv, KeptInv, NEW t \in Threads, Detached(t)
    PROVE  KeptInv'
<1>1. rows' = rows
  BY DetachedDoes DEF DbStays
<1>2. OnlyStops
  BY DetachedDoes, StatusStays, StatusStops
<1> QED BY <1>1, <1>2, KeptStill

LEMMA RegistryKeeps ==
    ASSUME SlotsInv, KeptInv, NEW c \in Callers,
           DeleteLock(c) \/ StartUnregister(c) \/ Reregister(c) \/ StartRegister(c) \/ Shutdown(c)
    PROVE  KeptInv'
<1>1. DbStays
  BY DeleteLockDoes, StartUnregisterDoes, ReregisterDoes, StartRegisterDoes, ShutdownDoes
<1>2. status' = status \/ status' = [status EXCEPT ![th[c].obj] = "stopped"]
  BY DeleteLockDoes, StartUnregisterDoes, ReregisterDoes, StartRegisterDoes, ShutdownDoes DEF RegistryStays
<1>3. OnlyStops
  BY <1>2, StatusStays, StatusStops
<1> QED BY <1>1, <1>3, KeptStill DEF DbStays

LEMMA ExitKeeps ==
    ASSUME SlotsInv, KeptInv, NEW w \in Workers, AsyncShutdown(w) \/ WorkerDies(w)
    PROVE  KeptInv'
<1>1. status' = status /\ rows' = rows
  BY DEF AsyncShutdown, WorkerDies, dbVars, regVars
<1> QED BY <1>1, KeptStill, StatusStays

LEMMA ClearDetachKeeps ==
    ASSUME SlotsInv, KeptInv, NEW c \in Callers, ClearDetach(c)
    PROVE  KeptInv'
<1>1. PICK n : RowStopped(n)
  BY ClearDetachDoes
<1>2. RowTimes' /\ DirsKeep
  BY <1>1, TimesStay DEF RowStopped, KeptInv, DirsKeep, Abandoned
<1>3. Sids' \subseteq Sids
  BY <1>1 DEF RowStopped, Sids
<1>4. OnlyStops
  BY ClearDetachDoes, StatusStays
<1> QED BY <1>2, <1>3, <1>4, KeptStep

LEMMA DropRowsKeeps ==
    ASSUME SlotsInv, KeptInv, NEW c \in Callers, DropRows(c)
    PROVE  KeptInv'
<1>1. /\ DOMAIN rows' = DOMAIN rows
      /\ \A n \in DOMAIN rows : rows'[n].status = "deleted" /\ rows'[n].at = rows[n].at
  BY DropRowsDoes
<1>2. RowTimes' /\ DirsKeep /\ Sids' \subseteq Sids
  BY <1>1, TimesStay DEF KeptInv, DirsKeep, Abandoned, Sids
<1>3. OnlyStops
  BY DropRowsDoes, StatusStays
<1> QED BY <1>2, <1>3, KeptStep

\* A channel gets a session only while a struct runs: none is without its
\* directory then, nor is the new one.
LEMMA SpawnKeeps ==
    ASSUME ~SameSecond, SlotsInv, RunInv, KeptInv, NEW c \in Callers, EnsureSpawn(c) \/ ClearCreate(c)
    PROVE  KeptInv'
<1>1. /\ c \in Threads /\ RegistryStays /\ (rows' = rows \/ Inserted(th[c].ch))
      /\ th[c].pc = "create" \/ (th[c].pc = "spawn" /\ th[c].kind = "send")
  BY EnsureSpawnDoes, ClearCreateDoes
<1>2. CASE rows' = rows
  BY <1>1, <1>2, KeptStill, StatusStays
<1>3. CASE Inserted(th[c].ch)
  <2>1. RowTimes'
    BY <1>3, TimesGrow DEF Inserted, KeptInv
  <2>2. ~NoneRuns
    <3>1. Holds(th[c]) /\ th[c].pc \notin {"compare", "detach"}
      BY <1>1 DEF Holds
    <3>2. status[th[c].obj] = "running"
      BY <1>1, <3>1 DEF RunInv, RunRefs
    <3>3. th[c].obj \in Objs
      BY <1>1, SlotsFacts DEF KindOK, ObjPcs
    <3> QED BY <3>2, <3>3 DEF NoneRuns
  <2>3. \A k \in DOMAIN rows : ~Abandoned(k)
    BY <2>2 DEF KeptInv
  <2>4. \A k \in DOMAIN rows' : ~Abandoned(k)'
    BY <1>3, <2>3 DEF Inserted, Extended, Abandoned
  <2> QED BY <2>1, <2>4 DEF KeptInv
<1> QED BY <1>1, <1>2, <1>3

\* A finite set that is not empty has a member of least measure.
LEMMA LeastMember ==
    ASSUME NEW S, IsFiniteSet(S), S # {}, NEW f \in [S -> Int]
    PROVE  \E x \in S : \A y \in S : f[x] <= f[y]
<1> DEFINE Below(x) == {y \in S : f[y] <= f[x]}
           F == {Below(x) : x \in S}
<1>1. F \subseteq SUBSET S /\ F # {}
  <2>1. \A x \in S : Below(x) \in SUBSET S
    OBVIOUS
  <2> HIDE DEF Below
  <2>2. F \subseteq SUBSET S
    BY <2>1
  <2>3. PICK x \in S : TRUE
    OBVIOUS
  <2>4. Below(x) \in F
    BY <2>3
  <2> QED BY <2>2, <2>4
<1>2. IsWellFoundedOn(StrictSubsetOrdering(S), SUBSET S)
  BY FS_StrictSubsetOrderingWellFounded, FS_FiniteSubsetsOfFinite
<1>3. PICK M \in F : \A N \in F : ~ (<<N, M>> \in StrictSubsetOrdering(S))
  <2> HIDE DEF F
  <2> QED BY <1>1, <1>2, WFMin
<1>4. PICK x \in S : M = Below(x)
  OBVIOUS
<1>5. ASSUME NEW y \in S, ~ (f[x] <= f[y]) PROVE FALSE
  <2>1. f[y] < f[x] /\ f[x] \in Int /\ f[y] \in Int
    BY <1>5
  <2>2. Below(y) \subseteq Below(x) /\ x \in Below(x) /\ x \notin Below(y)
    BY <2>1
  <2>3. Below(y) \in F /\ Below(y) \in SUBSET S /\ Below(x) \in SUBSET S
    OBVIOUS
  <2> HIDE DEF F, Below
  <2>4. <<Below(y), Below(x)>> \in StrictSubsetOrdering(S)
    BY <2>2, <2>3 DEF StrictSubsetOrdering
  <2> QED BY <1>3, <1>4, <2>3, <2>4
<1> QED BY <1>5

\* Two rows of one time are one row, so there is one latest session.
LEMMA OneLatest ==
    ASSUME SlotsInv, RowTimes, NEW S, S \subseteq DOMAIN rows, NEW m \in Latest(S), NEW n \in Latest(S)
    PROVE  m = n
<1>1. /\ m \in DOMAIN rows /\ n \in DOMAIN rows /\ rows[m].at <= rows[n].at /\ rows[n].at <= rows[m].at
      /\ rows[m].at \in Nat /\ rows[n].at \in Nat /\ m \in Nat /\ n \in Nat
  BY RowFacts DEF Latest
<1>2. m < n => rows[m].at < rows[n].at
  BY <1>1 DEF RowTimes
<1>3. n < m => rows[n].at < rows[m].at
  BY <1>1 DEF RowTimes
<1> QED BY <1>1, <1>2, <1>3

LEMMA SomeLatest ==
    ASSUME SlotsInv, LatestByInstance = {}
    PROVE  Sids = {}
<1> SUFFICES ASSUME Sids # {} PROVE FALSE
  OBVIOUS
<1> DEFINE f == [n \in Sids |-> 0 - rows[n].at]
<1>1. Sids \subseteq 1 .. Len(rows) /\ Len(rows) \in Nat /\ \A n \in Sids : rows[n].at \in Nat
  BY RowFacts DEF Sids
<1>2. IsFiniteSet(Sids)
  <2>1. IsFiniteSet(1 .. Len(rows))
    BY <1>1, FS_Interval
  <2> QED BY <1>1, <2>1, FS_Subset
<1>3. f \in [Sids -> Int] /\ \A n \in Sids : f[n] = 0 - rows[n].at
  BY <1>1
<1> HIDE DEF f
<1>4. PICK n \in Sids : \A k \in Sids : f[n] <= f[k]
  BY <1>2, <1>3, LeastMember
<1>5. \A k \in Sids : rows[k].at <= rows[n].at
  BY <1>1, <1>3, <1>4
<1> QED BY <1>5 DEF LatestByInstance, Latest

LEMMA LatestIsLast ==
    ASSUME SlotsInv, RowTimes, NEW m \in LatestByInstance
    PROVE  m \in Sids /\ \A k \in Sids : k <= m
<1>1. m \in Sids /\ \A k \in Sids : rows[k].at <= rows[m].at
  BY DEF LatestByInstance, Latest
<1>2. ASSUME NEW k \in Sids PROVE k <= m
  <2>1. /\ k \in DOMAIN rows /\ m \in DOMAIN rows /\ k \in Nat /\ m \in Nat
        /\ rows[k].at \in Nat /\ rows[m].at \in Nat /\ rows[k].at <= rows[m].at
    BY <1>1, RowFacts DEF Sids
  <2>2. m < k => rows[m].at < rows[k].at
    BY <2>1 DEF RowTimes
  <2> QED BY <2>1, <2>2
<1> QED BY <1>1, <1>2

LEMMA StartSpawnKeeps ==
    ASSUME ~SameSecond, SlotsInv, RunInv, KeptInv, NEW c \in Callers, StartSpawn(c)
    PROVE  KeptInv'
<1>1. c \in Threads /\ th[c].pc = "spawn" /\ th[c].kind = "start"
  BY StartSpawnDoes
<1>2. NoneRuns
  BY <1>1 DEF RunInv, RunRefs, Starting
<1>3. PICK done \in BOOLEAN : StartWrote(done) /\ (~done => status' = status)
  BY StartSpawnDoes
<1>4. ASSUME NEW k \in DOMAIN rows, Abandoned(k) PROVE k \in Sids /\ \A j \in Sids : j <= k
  BY <1>4 DEF KeptInv, Abandoned, Sids
<1>5. ~done => NoneRuns'
  BY <1>2, <1>3 DEF NoneRuns
<1>6. CASE rows' = rows /\ ~done
  <2>1. OnlyStops
    BY <1>3, <1>6, StatusStays
  <2> QED BY <1>6, <2>1, KeptStill
<1>7. ASSUME NEW m \in LatestByInstance, DirChanged(m), done => rows'[m].dir PROVE KeptInv'
  <2>1. m \in Sids /\ \A k \in Sids : k <= m
    BY LatestIsLast DEF KeptInv
  <2>2. RowTimes'
    BY <1>7, TimesStay DEF KeptInv, DirChanged
  <2>3. Sids' = Sids
    BY <1>7 DEF DirChanged, Sids
  <2>4. ASSUME NEW n \in DOMAIN rows', Abandoned(n)' PROVE n = m
    <3>1. CASE n # m
      <4>1. n \in DOMAIN rows /\ Abandoned(n)
        BY <1>7, <2>4, <3>1 DEF DirChanged, Abandoned
      <4>2. n <= m /\ m <= n
        BY <1>4, <2>1, <4>1
      <4>3. n \in Nat /\ m \in Nat
        BY <2>1, <4>1, RowFacts DEF Sids
      <4> QED BY <4>2, <4>3
    <3> QED BY <3>1
  <2>5. ASSUME NEW n \in DOMAIN rows', Abandoned(n)' PROVE NoneRuns' /\ \A k \in Sids' : k <= n
    <3>1. n = m
      BY <2>4, <2>5
    <3>2. ~done
      BY <1>7, <2>5, <3>1 DEF Abandoned
    <3> QED BY <1>5, <2>1, <2>3, <3>1, <3>2
  <2> QED BY <2>2, <2>5 DEF KeptInv
<1>8. CASE LatestByInstance = {} /\ Extended(Channel0) /\ (done => rows'[Len(rows) + 1].dir)
  <2>1. Sids = {}
    BY <1>8, SomeLatest
  <2>2. RowTimes'
    BY <1>8, TimesGrow DEF KeptInv
  <2>3. ASSUME NEW n \in DOMAIN rows', Abandoned(n)' PROVE NoneRuns' /\ \A k \in Sids' : k <= n
    <3>1. n = Len(rows) + 1
      <4>1. CASE n \in DOMAIN rows
        <5>1. Abandoned(n)
          BY <1>8, <2>3, <4>1 DEF Extended, Abandoned
        <5> QED BY <1>4, <2>1, <4>1, <5>1
      <4> QED BY <1>8, <2>3, <4>1 DEF Extended
    <3>2. ~done
      BY <1>8, <2>3, <3>1 DEF Abandoned
    <3>3. \A k \in Sids' : k <= Len(rows) + 1
      BY <1>8 DEF Extended, Sids
    <3> QED BY <1>5, <3>1, <3>2, <3>3
  <2> QED BY <2>2, <2>3 DEF KeptInv
<1> QED BY <1>3, <1>6, <1>7, <1>8 DEF StartWrote

LEMMA KeptInvInit == Init => KeptInv
<1> SUFFICES ASSUME Init PROVE KeptInv
  OBVIOUS
<1>1. rows = <<[ch |-> Channel0, status |-> "running", at |-> 0, dir |-> TRUE]>>
  BY DEF Init
<1>2. DOMAIN rows = {1} /\ rows[1].dir
  BY <1>1
<1> QED BY <1>2 DEF KeptInv, RowTimes, Abandoned

LEMMA KeptInvNext == ~SameSecond /\ SlotsInv /\ RunInv /\ KeptInv /\ [Next]_vars => KeptInv'
<1> SUFFICES ASSUME ~SameSecond, SlotsInv, RunInv, KeptInv, [Next]_vars
             PROVE  KeptInv'
  OBVIOUS
<1>1. ASSUME NEW t \in Threads, DetachStep(t) PROVE KeptInv'
  BY <1>1, CalmKeeps, InstLockCalm, TrimKeeps, DetachedKeeps DEF DetachStep
<1>2. ASSUME NEW c \in Callers, CallStep(c) PROVE KeptInv'
  <2> c \in Threads
    BY DEF Threads
  <2>1. CASE GetInstance(c)
    BY <2>1, CalmKeeps, GetInstanceCalm
  <2>2. CASE SendStep(c)
    BY <2>2, CalmKeeps, EnsureLockCalm, TrimKeeps, SpawnKeeps, AcquireGetCalm,
       AcquireLookupCalm, AcquireSlotCalm, ChatEndsCalm DEF SendStep
  <2>3. CASE ClearStep(c)
    BY <2>3, CalmKeeps, ClearLockCalm, ClearDetachKeeps, SpawnKeeps DEF ClearStep
  <2>4. CASE StopStep(c)
    BY <2>4, CalmKeeps, StopGetCalm, StopLockCalm, RegistryKeeps DEF StopStep
  <2>5. CASE DeleteStep(c)
    BY <2>5, CalmKeeps, DeleteGetCalm, RegistryKeeps, DropRowsKeeps DEF DeleteStep
  <2>6. CASE StartStep(c)
    BY <2>6, CalmKeeps, StartGetCalm, RegistryKeeps, StartSpawnKeeps DEF StartStep
  <2> QED BY <1>1, <1>2, <2>1, <2>2, <2>3, <2>4, <2>5, <2>6 DEF CallStep
<1>3. ASSUME NEW w \in Workers, WatchStep(w) PROVE KeptInv'
  BY <1>1, <1>3, CalmKeeps, WatchFindCalm, WatchExamineCalm, TrimKeeps, DeathGetCalm,
     DeathLockCalm DEF WatchStep, Threads
<1>5. ASSUME NEW c \in Callers, NEW kind \in Calls, Call(c, kind) PROVE KeptInv'
  BY <1>5, CallCalm, CalmKeeps DEF Threads
<1>6. CASE UNCHANGED vars
  BY <1>6, KeptStill, StatusStays DEF vars, slotVars, dbVars, regVars
<1> QED BY <1>2, <1>3, <1>5, <1>6, ExitKeeps DEF Next

LEMMA CallerMoves ==
    ASSUME SlotsInv, NEW c \in Callers, NEW t \in Threads, OthersStay(t), th'[c] # th[c]
    PROVE  c = t
BY SlotsAssumption DEF OthersStay, Woken, Threads

LEMMA ExtendedLast ==
    ASSUME SlotsInv, SlotsInv', NEW ch, Extended(ch)
    PROVE  rows'[Len(rows')].ch = ch
<1>1. rows' \in Seq(Rows) /\ Len(rows) \in Nat /\ DOMAIN rows' = 1 .. Len(rows) + 1
  BY DEF SlotsInv, TypeOK, Extended
<1>2. Len(rows') \in Nat /\ DOMAIN rows' = 1 .. Len(rows')
  BY <1>1
<1>3. Len(rows') = Len(rows) + 1
  <2>1. Len(rows) + 1 \in 1 .. Len(rows')
    BY <1>1, <1>2
  <2>2. Len(rows') \in 1 .. Len(rows) + 1
    BY <1>1, <1>2, <2>1
  <2> QED BY <1>1, <1>2, <2>1, <2>2
<1> QED BY <1>3 DEF Extended

\* EnsureSession passes over a session that is neither cleared nor deleted only
\* if its directory is gone, and then no struct runs.
LEMMA EnsureSpawnGivesUp ==
    ASSUME SlotsInv, SlotsInv', RunInv, KeptInv, NEW c \in Callers, EnsureSpawn(c), Len(rows') > Len(rows),
           NEW n, n \in LatestByChannel(rows'[Len(rows')].ch)
    PROVE  rows[n].status = "stopped"
<1>1. c \in Threads /\ th[c].pc = "spawn" /\ th[c].kind = "send"
  BY EnsureSpawnDoes
<1>2. rows' # rows
  BY RowFacts
<1>3. MustCreate(th[c].ch) /\ Inserted(th[c].ch)
  BY <1>2, EnsureSpawnDoes
<1>4. rows'[Len(rows')].ch = th[c].ch
  BY <1>3, ExtendedLast DEF Inserted
<1>5. PICK ch : ch = th[c].ch
  OBVIOUS
<1>6. n \in LatestByChannel(ch) /\ MustCreate(ch)
  BY <1>3, <1>4, <1>5
<1>7. PICK m \in LatestByChannel(ch) : m \notin Resumable(ch)
  BY <1>6 DEF MustCreate
<1>8. m = n
  <2>1. {k \in Sids : rows[k].ch = ch} \subseteq DOMAIN rows
    BY DEF Sids
  <2> QED BY <1>6, <1>7, <2>1, OneLatest DEF LatestByChannel, KeptInv
<1>9. n \in DOMAIN rows /\ rows[n].status # "deleted" /\ rows[n] \in Rows
  BY <1>6, RowFacts DEF LatestByChannel, Latest, Sids
<1>10. rows[n].status = "stopped" \/ Abandoned(n)
  BY <1>7, <1>8, <1>9 DEF Resumable, Abandoned, Rows
<1>11. ~NoneRuns
  BY <1>1, SlotsFacts DEF RunInv, RunRefs, Holds, NoneRuns, KindOK
<1> QED BY <1>9, <1>10, <1>11 DEF KeptInv

LEMMA StartSpawnGivesUp ==
    ASSUME SlotsInv, SlotsInv', NEW c \in Callers, StartSpawn(c), Len(rows') > Len(rows), NEW ch
    PROVE  LatestByChannel(ch) = {}
<1>1. rows \in Seq(Rows) /\ rows' \in Seq(Rows)
  BY DEF SlotsInv, TypeOK
<1>2. /\ Len(rows) \in Nat /\ Len(rows') \in Nat
      /\ DOMAIN rows = 1 .. Len(rows) /\ DOMAIN rows' = 1 .. Len(rows')
  BY <1>1
<1>3. DOMAIN rows' # DOMAIN rows
  <2>1. Len(rows') \in 1 .. Len(rows') /\ Len(rows') \notin 1 .. Len(rows)
    BY <1>2
  <2> QED BY <1>2, <2>1
<1>4. LatestByInstance = {}
  BY <1>3, StartSpawnDoes DEF StartWrote, DirChanged
<1>5. Sids = {}
  BY <1>4, SomeLatest
<1> QED BY <1>5 DEF LatestByChannel, Latest

GivesUp ==
    \A c \in Callers : At(c, "spawn") /\ th'[c] # th[c] /\ Len(rows') > Len(rows)
       => \A n \in LatestByChannel(rows'[Len(rows')].ch) : rows[n].status = "stopped"

LEMMA GivesUpOnly ==
    SlotsInv /\ SlotsInv' /\ RunInv /\ KeptInv /\ [Next]_vars => [GivesUp]_vars
<1> SUFFICES ASSUME SlotsInv, SlotsInv', RunInv, KeptInv, Next, NEW c \in Callers,
                    At(c, "spawn"), th'[c] # th[c], Len(rows') > Len(rows),
                    NEW n \in LatestByChannel(rows'[Len(rows')].ch)
             PROVE  rows[n].status = "stopped"
  BY DEF GivesUp
<1>1. c \in Threads /\ th[c].pc = "spawn" /\ c \notin Workers /\ th[c] \in ThreadRecs
  BY SlotsAssumption, SlotsFacts DEF At, Threads
<1>2. rows' # rows
  BY RowFacts
<1>3. EnsureSpawn(c) \/ StartSpawn(c)
  <2>1. ASSUME NEW t \in Threads, Calm(t) PROVE FALSE
    BY <1>2, <2>1 DEF Calm, Still
  <2>2. ASSUME NEW t \in Threads, DetachStep(t) PROVE FALSE
    BY <1>2, <2>1, <2>2, InstLockCalm, DetachSlotDoes, DetachedDoes DEF DetachStep, DbStays
  <2>3. ASSUME NEW t \in Threads, OthersStay(t) PROVE t = c
    BY <2>3, CallerMoves
  <2>4. ASSUME NEW d \in Callers, CallStep(d) PROVE EnsureSpawn(c) \/ StartSpawn(c)
    <3>0. d \in Threads
      BY DEF Threads
    <3>1. CASE GetInstance(d)
      BY <2>1, <3>0, <3>1, GetInstanceCalm
    <3>2. CASE SendStep(d)
      <4>1. CASE EnsureSpawn(d)
        <5>1. OthersStay(d)
          BY <4>1, EnsureSpawnDoes, AloneStays, WakesOthersStay
        <5> QED BY <2>3, <3>0, <4>1, <5>1
      <4>2. CASE EnsureAlive(d)
        BY <1>2, <4>2, EnsureAliveDoes DEF DbStays
      <4> QED BY <2>1, <3>0, <3>2, <4>1, <4>2, EnsureLockCalm, AcquireGetCalm,
              AcquireLookupCalm, AcquireSlotCalm, ChatEndsCalm DEF SendStep
    <3>3. CASE ClearStep(d)
      <4>1. CASE ClearDetach(d)
        <5>1. OthersStay(d) /\ th[d].pc = "detachOld"
          BY <4>1, ClearDetachDoes, AloneStays
        <5> QED BY <1>1, <2>3, <3>0, <5>1
      <4>2. CASE ClearCreate(d)
        <5>1. OthersStay(d) /\ th[d].pc = "create"
          BY <4>2, ClearCreateDoes, AloneStays, WakesOthersStay
        <5> QED BY <1>1, <2>3, <3>0, <5>1
      <4> QED BY <2>1, <3>0, <3>3, <4>1, <4>2, ClearLockCalm DEF ClearStep
    <3>4. CASE StopStep(d)
      BY <1>2, <2>1, <3>0, <3>4, StopGetCalm, StopLockCalm, ShutdownDoes DEF StopStep, DbStays
    <3>5. CASE DeleteStep(d)
      <4>1. CASE DropRows(d)
        <5>1. OthersStay(d) /\ th[d].pc = "dropRows"
          BY <4>1, DropRowsDoes, AloneStays
        <5> QED BY <1>1, <2>3, <3>0, <5>1
      <4> QED BY <1>2, <2>1, <3>0, <3>5, <4>1, DeleteGetCalm, DeleteLockDoes DEF DeleteStep, DbStays
    <3>6. CASE StartStep(d)
      <4>1. CASE StartSpawn(d)
        <5>1. OthersStay(d)
          BY <4>1, StartSpawnDoes, AloneStays
        <5> QED BY <2>3, <3>0, <4>1, <5>1
      <4> QED BY <1>2, <2>1, <3>0, <3>6, <4>1, StartGetCalm, StartUnregisterDoes, StartRegisterDoes,
              ReregisterDoes DEF StartStep, DbStays
    <3> QED BY <2>2, <2>4, <3>0, <3>1, <3>2, <3>3, <3>4, <3>5, <3>6 DEF CallStep
  <2>5. ASSUME NEW w \in Workers, WatchStep(w) PROVE FALSE
    BY <1>2, <2>1, <2>2, <2>5, WatchFindCalm, WatchExamineCalm, WatchCompareDoes, DeathGetCalm,
       DeathLockCalm DEF WatchStep, Threads, DbStays
  <2>6. ASSUME NEW w \in Workers, AsyncShutdown(w) \/ WorkerDies(w) PROVE FALSE
    BY <1>2, <2>6 DEF AsyncShutdown, WorkerDies, dbVars
  <2>7. ASSUME NEW d \in Callers, NEW kind \in Calls, Call(d, kind) PROVE FALSE
    BY <2>1, <2>7, CallCalm DEF Threads
  <2> QED BY <2>4, <2>5, <2>6, <2>7 DEF Next
<1>4. CASE EnsureSpawn(c)
  BY <1>4, EnsureSpawnGivesUp
<1>5. CASE StartSpawn(c)
  BY <1>5, StartSpawnGivesUp
<1> QED BY <1>3, <1>4, <1>5

(***************************************************************************)
(* Only /clear ends a conversation, over stops, restarts, deaths and       *)
(* deletes, and starts that fail half-way: if one goroutine at a time      *)
(* starts the instance and no two sessions are created within a second.    *)
(***************************************************************************)
THEOREM OnlyClearEndsAConversation == OneStarter /\ ~SameSecond => (Spec => ConversationKept)
<1> SUFFICES ASSUME OneStarter, ~SameSecond PROVE Spec => ConversationKept
  OBVIOUS
<1>1. SlotsInv /\ RunInv /\ KeptInv /\ [Next]_vars => KeptInv'
  BY KeptInvNext
<1>2. SlotsInv /\ SlotsInv' /\ RunInv /\ KeptInv /\ [Next]_vars => [GivesUp]_vars
  BY GivesUpOnly
<1>3. Spec => [][GivesUp]_vars
  BY <1>1, <1>2, SlotsInvAlways, RunInvAlways, KeptInvInit, PTL DEF Spec
<1> QED BY <1>3 DEF ConversationKept, GivesUp

-----------------------------------------------------------------------------
(***************************************************************************)
(* The history of a session.                                               *)
(*                                                                         *)
(* A leaf summary is linked to the messages of its chunk, but takes the    *)
(* place of everything in their range of ordinals.  Nothing is lost only   *)
(* because summaries come before messages in the table, which is therefore *)
(* part of the invariant; and because whatever is appended while the model *)
(* writes the summary gets an ordinal above the range.                     *)
(***************************************************************************)
SummariesFirst ==
    \A c, d \in context : c.depth = Message /\ d.depth # Message => d.ord < c.ord

TableOK == IsFiniteSet(context) /\ ContextCoversHistory /\ SummariesFirst

\* What a summary that is being written is about is still there.
InRange == {c \in context : comp.from <= c.ord /\ c.ord <= comp.to}
CompOK ==
    comp.pc \in {"llm", "replace"} =>
        /\ comp.iter < MaxIterations
        /\ \E a, b \in context : a.ord = comp.from /\ b.ord = comp.to /\ a.ord <= b.ord
        /\ comp.covers = Covered(InRange)
        /\ \A c \in context : c.depth = Message => comp.from <= c.ord

ConvInv == ConvTypeOK /\ TableOK /\ CompOK

LEMMA OldestIn ==
    ASSUME NEW S, S \subseteq Items, IsFiniteSet(S), S # {}
    PROVE  OldestOf(S) \in S /\ \A d \in S : OldestOf(S).ord <= d.ord
<1> DEFINE f == [c \in S |-> c.ord]
<1>1. f \in [S -> Int] /\ \A c \in S : f[c] = c.ord
  BY DEF Items
<1> HIDE DEF f
<1>2. PICK c \in S : \A d \in S : f[c] <= f[d]
  BY <1>1, LeastMember
<1>3. \A d \in S : c.ord <= d.ord
  BY <1>1, <1>2
<1> QED BY <1>3 DEF OldestOf

LEMMA NewestIn ==
    ASSUME NEW S, S \subseteq Items, IsFiniteSet(S), S # {}
    PROVE  NewestOf(S) \in S /\ \A d \in S : d.ord <= NewestOf(S).ord
<1> DEFINE f == [c \in S |-> 0 - c.ord]
<1>1. f \in [S -> Int] /\ \A c \in S : f[c] = 0 - c.ord /\ c.ord \in Nat
  BY DEF Items
<1> HIDE DEF f
<1>2. PICK c \in S : \A d \in S : f[c] <= f[d]
  BY <1>1, LeastMember
<1>3. \A d \in S : d.ord <= c.ord
  BY <1>1, <1>2
<1> QED BY <1>3 DEF NewestOf

LEMMA CoveredIs == ASSUME NEW S, NEW m PROVE m \in Covered(S) <=> \E c \in S : m \in c.covers
BY DEF Covered

LEMMA RowsOrdered ==
    ASSUME context \subseteq Items, ContextCoversHistory, NEW c \in context, NEW d \in context
    PROVE  /\ c.ord \in Nat /\ d.ord \in Nat
           /\ c.ord = d.ord => c = d
           /\ c.ord < d.ord => \A m \in c.covers, k \in d.covers : m < k
<1>1. c.ord \in Nat /\ d.ord \in Nat
  BY DEF Items
<1>2. c # d => /\ c.ord # d.ord
               /\ c.ord < d.ord => \A m \in c.covers, k \in d.covers : m < k
  BY DEF ContextCoversHistory
<1> QED BY <1>1, <1>2

-----------------------------------------------------------------------------
\* AppendMessage: the new row is the newest, stands for the new message, and is
\* in nobody's range.
LEMMA AppendKeeps ==
    ASSUME ConvInv, NEW size \in 1..MaxSize, Append1(size), UNCHANGED comp
    PROVE  /\ history' \in Seq(1..MaxSize) /\ Len(history') <= MaxMessages
           /\ context' \subseteq Items /\ NewItem(size) \in Items
           /\ TableOK' /\ CompOK'
<1> DEFINE new == NewItem(size)
           n == Len(history)
<1>0. /\ history \in Seq(1..MaxSize) /\ context \subseteq Items /\ comp \in CompRecs
      /\ TableOK /\ CompOK
      /\ IsFiniteSet(context) /\ ContextCoversHistory /\ SummariesFirst
  BY DEF ConvInv, ConvTypeOK, TableOK
<1>1. n \in Nat /\ n < MaxMessages /\ history' = Append(history, size) /\ context' = context \cup {new}
  BY <1>0 DEF Append1
<1>2. /\ history' \in Seq(1..MaxSize) /\ Len(history') = n + 1 /\ Len(history') <= MaxMessages
  BY <1>0, <1>1, ConversationAssumption
<1>3. new.ord \in Nat /\ \A c \in context : c.ord \in Nat /\ c.ord < new.ord
  <2>1. CASE context = {}
    BY <2>1 DEF NewItem
  <2>2. CASE context # {}
    <3>1. NewestOf(context) \in context /\ \A d \in context : d.ord <= NewestOf(context).ord
      BY <1>0, <2>2, NewestIn
    <3>2. new.ord = NewestOf(context).ord + 1
      BY <2>2 DEF NewItem
    <3>3. NewestOf(context).ord \in Nat /\ \A c \in context : c.ord \in Nat
      BY <1>0, <3>1 DEF Items
    <3> QED BY <3>1, <3>2, <3>3
  <2> QED BY <2>1, <2>2
<1>4. new.covers = {n + 1} /\ new.depth = Message /\ new.tokens = size
  BY DEF NewItem
<1>5. new \in Items
  <2>1. new = [ord |-> new.ord, covers |-> {n + 1}, depth |-> Message, tokens |-> size]
    BY DEF NewItem
  <2>2. size \in Nat /\ {n + 1} \in SUBSET Nat
    BY <1>1, ConversationAssumption
  <2> HIDE DEF new
  <2> QED BY <1>3, <2>1, <2>2 DEF Items
<1> HIDE DEF new
<1>6. IsFiniteSet(context')
  BY <1>0, <1>1, FS_AddElement
<1>8. ContextCoversHistory'
  <2>1. Covered(context') = 1..Len(history')
    <3>1. \A m : m \in Covered(context') <=> m \in Covered(context) \/ m = n + 1
      BY <1>1, <1>4, CoveredIs
    <3>2. Covered(context) = 1..n
      BY <1>0 DEF ContextCoversHistory
    <3>3. Covered(context') = (1..n) \cup {n + 1}
      BY <3>1, <3>2
    <3>4. (1..n) \cup {n + 1} = 1..(n + 1)
      BY <1>1
    <3> QED BY <1>2, <3>3, <3>4
  <2>2. ASSUME NEW c \in context', NEW d \in context', c # d
        PROVE  /\ c.ord # d.ord
               /\ c.ord < d.ord => \A m \in c.covers, k \in d.covers : m < k
    <3>1. CASE c \in context /\ d \in context
      BY <1>0, <2>2, <3>1, RowsOrdered
    <3>2. CASE c \in context /\ d = new
      <4>1. \A m \in c.covers : m \in 1..n
        BY <1>0, <3>2, CoveredIs DEF ContextCoversHistory
      <4> QED BY <1>1, <1>3, <1>4, <3>2, <4>1
    <3>3. CASE c = new /\ d \in context
      <4>1. d.ord \in Nat /\ c.ord \in Nat /\ d.ord < c.ord
        BY <1>3, <3>3
      <4> QED BY <4>1
    <3> QED BY <1>1, <2>2, <3>1, <3>2, <3>3
  <2> QED BY <2>1, <2>2 DEF ContextCoversHistory, Covered
<1>9. SummariesFirst'
  BY <1>0, <1>1, <1>3, <1>4 DEF SummariesFirst
<1>10. CompOK'
  <2> SUFFICES ASSUME comp.pc \in {"llm", "replace"}
               PROVE  /\ comp.iter < MaxIterations
                      /\ \E a, b \in context' : a.ord = comp.from /\ b.ord = comp.to /\ a.ord <= b.ord
                      /\ comp.covers = Covered(InRange)'
                      /\ \A c \in context' : c.depth = Message => comp.from <= c.ord
    BY DEF CompOK
  <2>1. PICK a \in context, b \in context : a.ord = comp.from /\ b.ord = comp.to /\ a.ord <= b.ord
    BY <1>0 DEF CompOK
  <2>2. new.ord > comp.to /\ new.ord > comp.from /\ comp.from \in Nat /\ comp.to \in Nat
    BY <1>3, <2>1
  <2>3. InRange' = InRange
    BY <1>1, <1>3, <2>2 DEF InRange
  <2>4. Covered(InRange)' = Covered(InRange)
    BY <2>3 DEF Covered
  <2>5. \A c \in context' : c.depth = Message => comp.from <= c.ord
    BY <1>0, <1>1, <1>3, <2>2 DEF CompOK
  <2> QED BY <1>0, <1>1, <2>1, <2>4, <2>5 DEF CompOK
<1>11. context' \subseteq Items
  BY <1>0, <1>1, <1>5
<1>12. new = NewItem(size)
  BY DEF new
<1> QED BY <1>2, <1>5, <1>6, <1>8, <1>9, <1>10, <1>11, <1>12 DEF TableOK

-----------------------------------------------------------------------------
(***************************************************************************)
(* What a pass of the compaction chooses is everything in its range, and   *)
(* no message is below the range.                                          *)
(***************************************************************************)
WholeRange(S) ==
    /\ S \subseteq context /\ S # {}
    /\ S = {c \in context : OldestOf(S).ord <= c.ord /\ c.ord <= NewestOf(S).ord}
    /\ \A c \in context : c.depth = Message => OldestOf(S).ord <= c.ord

\* With a message the chunk contains every older one.
LEMMA ChunkClosed ==
    ASSUME ConvInv, NEW b \in OldestMessages, NEW c \in context, c.depth = Message, c.ord <= b.ord
    PROVE  c \in OldestMessages
<1> DEFINE Upto(x) == {d \in OutsideTail : d.ord <= x.ord}
           Fits(x) == Upto(x) = {x} \/ Total(Upto(x)) <= LeafChunkTokens
           Newer(x) == {d \in context : x.ord < d.ord}
<1>0. IsFiniteSet(context) /\ context \subseteq Items
  BY DEF ConvInv, TableOK, ConvTypeOK
<1>1. b \in OutsideTail /\ \A d \in Upto(b) : Fits(d)
  BY DEF OldestMessages
<1>2. b \in context /\ Cardinality(Newer(b)) >= FreshTailCount
  BY <1>1 DEF OutsideTail
<1>3. \A d \in context : d.ord \in Nat
  BY <1>0 DEF Items
<1>4. Newer(b) \subseteq Newer(c) /\ Newer(c) \subseteq context
  BY <1>2, <1>3
<1>5. Cardinality(Newer(c)) >= FreshTailCount
  <2> HIDE DEF Newer
  <2>1. IsFiniteSet(Newer(c))
    BY <1>0, <1>4, FS_Subset
  <2>2. Cardinality(Newer(b)) <= Cardinality(Newer(c)) /\ IsFiniteSet(Newer(b))
    BY <1>4, <2>1, FS_Subset
  <2>3. Cardinality(Newer(b)) \in Nat /\ Cardinality(Newer(c)) \in Nat
    BY <2>1, <2>2, FS_CardinalityType
  <2> QED BY <1>2, <2>2, <2>3, ConversationAssumption
<1>6. c \in OutsideTail
  BY <1>5 DEF OutsideTail
<1>7. Upto(c) \subseteq Upto(b)
  <2>1. \A d \in OutsideTail : d \in context
    BY DEF OutsideTail
  <2> QED BY <1>2, <1>3, <2>1
<1>8. \A d \in Upto(c) : Fits(d)
  <2> HIDE DEF Upto, Fits
  <2> QED BY <1>1, <1>7
<1> QED BY <1>6, <1>8 DEF OldestMessages

LEMMA ChunkWhole ==
    ASSUME ConvInv, OldestMessages # {}
    PROVE  WholeRange(OldestMessages)
<1> DEFINE S == OldestMessages
<1>0. /\ IsFiniteSet(context) /\ context \subseteq Items /\ SummariesFirst
      /\ ContextCoversHistory
  BY DEF ConvInv, TableOK, ConvTypeOK
<1>1. S \subseteq context /\ \A c \in S : c.depth = Message
  BY DEF OldestMessages, OutsideTail
<1>2. \A b \in S, c \in context : c.depth = Message /\ c.ord <= b.ord => c \in S
  BY ChunkClosed
<1> HIDE DEF S
<1>3. IsFiniteSet(S) /\ S \subseteq Items /\ S # {}
  BY <1>0, <1>1, FS_Subset DEF S
<1> DEFINE a == OldestOf(S)
           b == NewestOf(S)
<1>4. /\ a \in S /\ \A d \in S : a.ord <= d.ord
      /\ b \in S /\ \A d \in S : d.ord <= b.ord
  BY <1>3, OldestIn, NewestIn
<1> HIDE DEF a, b
<1>5. \A d \in context : d.ord \in Nat
  BY <1>0 DEF Items
<1>6. ASSUME NEW c \in context, a.ord <= c.ord, c.ord <= b.ord PROVE c \in S
  <2>1. c.depth = Message
    BY <1>0, <1>1, <1>4, <1>5, <1>6 DEF SummariesFirst
  <2> QED BY <1>2, <1>4, <1>6, <2>1
<1>7. ASSUME NEW c \in context, c.depth = Message PROVE a.ord <= c.ord
  <2>1. CASE c \in S
    BY <1>4, <2>1
  <2>2. CASE c \notin S
    <3>1. ~ (c.ord <= a.ord)
      BY <1>2, <1>4, <1>7, <2>2
    <3> QED BY <1>1, <1>4, <1>5, <3>1
  <2> QED BY <2>1, <2>2
<1>8. S = {c \in context : a.ord <= c.ord /\ c.ord <= b.ord}
  BY <1>1, <1>4, <1>6
<1> QED BY <1>1, <1>3, <1>7, <1>8 DEF WholeRange, a, b, S

\* Everything between two rows is their range again, and a run of summaries
\* has all messages above it.
LEMMA RunWhole ==
    ASSUME ConvInv, NEW depth, depth # Message, NEW r \in Runs(depth)
    PROVE  WholeRange(r)
<1>0. IsFiniteSet(context) /\ context \subseteq Items /\ SummariesFirst
  BY DEF ConvInv, TableOK, ConvTypeOK
<1>1. PICK p \in context, q \in context : r = Between(p, q)
  BY DEF Runs
<1>2. Cardinality(r) >= CondenseMinFanout /\ \A c \in r : c.depth = depth
  BY DEF Runs
<1>3. r = {c \in context : p.ord <= c.ord /\ c.ord <= q.ord}
  BY <1>1 DEF Between
<1>4. r \subseteq context /\ r \subseteq Items /\ IsFiniteSet(r)
  BY <1>0, <1>3, FS_Subset
<1>5. r # {}
  <2>1. Cardinality({}) = 0
    BY FS_EmptySet
  <2> QED BY <1>2, <2>1, ConversationAssumption
<1> DEFINE a == OldestOf(r)
           b == NewestOf(r)
<1>6. /\ a \in r /\ \A d \in r : a.ord <= d.ord
      /\ b \in r /\ \A d \in r : d.ord <= b.ord
  BY <1>4, <1>5, OldestIn, NewestIn
<1> HIDE DEF a, b
<1>7. \A d \in context : d.ord \in Nat
  BY <1>0 DEF Items
<1>8. ASSUME NEW c \in context, a.ord <= c.ord, c.ord <= b.ord PROVE c \in r
  <2>1. a \in context /\ b \in context /\ p.ord <= a.ord /\ b.ord <= q.ord
    BY <1>3, <1>6
  <2>2. p.ord <= c.ord /\ c.ord <= q.ord
    BY <1>7, <1>8, <2>1
  <2> QED BY <1>3, <2>2
<1>9. r = {c \in context : a.ord <= c.ord /\ c.ord <= b.ord}
  BY <1>4, <1>6, <1>8
<1>10. ASSUME NEW c \in context, c.depth = Message PROVE a.ord <= c.ord
  <2>1. a \in context /\ a.depth # Message
    BY <1>2, <1>4, <1>6
  <2>2. a.ord < c.ord
    BY <1>0, <1>10, <2>1 DEF SummariesFirst
  <2> QED BY <1>7, <2>1, <2>2
<1> QED BY <1>4, <1>5, <1>9, <1>10 DEF WholeRange, a, b

\* The first of the longest runs exists.
LEMMA LongestRunIn ==
    ASSUME ConvInv, NEW depth, Runs(depth) # {}
    PROVE  LongestRun(depth) \in Runs(depth)
<1>0. IsFiniteSet(context) /\ context \subseteq Items
  BY DEF ConvInv, TableOK, ConvTypeOK
<1>1. Runs(depth) \in SUBSET SUBSET context
  BY DEF Runs, Between
<1>2. IsFiniteSet(Runs(depth))
  BY <1>0, <1>1, FS_SUBSET, FS_Subset
<1>3. ASSUME NEW r \in Runs(depth) PROVE Cardinality(r) \in Nat /\ OldestOf(r).ord \in Nat
  <2>1. r \in SUBSET context
    BY <1>1
  <2>2. IsFiniteSet(r) /\ r \subseteq Items
    BY <1>0, <2>1, FS_Subset
  <2>3. Cardinality(r) \in Nat /\ Cardinality({}) = 0
    BY <2>2, FS_CardinalityType, FS_EmptySet
  <2>4. Cardinality(r) >= CondenseMinFanout
    BY DEF Runs
  <2>5. r # {}
    BY <2>3, <2>4, ConversationAssumption
  <2>6. OldestOf(r) \in r
    BY <2>2, <2>5, OldestIn
  <2> QED BY <2>2, <2>3, <2>6 DEF Items
<1> DEFINE f == [r \in Runs(depth) |-> 0 - Cardinality(r)]
<1>4. f \in [Runs(depth) -> Int] /\ \A r \in Runs(depth) : f[r] = 0 - Cardinality(r)
  BY <1>3
<1> HIDE DEF f
<1>5. PICK l \in Runs(depth) : \A r \in Runs(depth) : f[l] <= f[r]
  BY <1>2, <1>4, LeastMember
<1> DEFINE L == {r \in Runs(depth) : Cardinality(r) = Cardinality(l)}
           g == [r \in L |-> OldestOf(r).ord]
<1>6. IsFiniteSet(L) /\ L # {}
  BY <1>2, FS_Subset
<1>7. g \in [L -> Int] /\ \A r \in L : g[r] = OldestOf(r).ord
  BY <1>3
<1>8. \A r \in L : r \in Runs(depth) /\ Cardinality(r) = Cardinality(l)
  OBVIOUS
<1>9. \A r \in Runs(depth) : Cardinality(r) = Cardinality(l) => r \in L
  OBVIOUS
<1> HIDE DEF g, L
<1>10. PICK m \in L : \A r \in L : g[m] <= g[r]
  BY <1>6, <1>7, LeastMember
<1>11. \A s \in Runs(depth) :
          \/ Cardinality(s) < Cardinality(m)
          \/ Cardinality(s) = Cardinality(m) /\ OldestOf(m).ord <= OldestOf(s).ord
  <2> SUFFICES ASSUME NEW s \in Runs(depth)
               PROVE  \/ Cardinality(s) < Cardinality(m)
                      \/ Cardinality(s) = Cardinality(m) /\ OldestOf(m).ord <= OldestOf(s).ord
    OBVIOUS
  <2>1. Cardinality(m) = Cardinality(l) /\ Cardinality(s) \in Nat /\ Cardinality(l) \in Nat
    BY <1>3, <1>8
  <2>2. 0 - Cardinality(l) <= 0 - Cardinality(s)
    BY <1>4, <1>5
  <2>3. CASE Cardinality(s) = Cardinality(l)
    BY <1>7, <1>9, <1>10, <2>1, <2>3
  <2>4. CASE Cardinality(s) # Cardinality(l)
    BY <2>1, <2>2, <2>4
  <2> QED BY <2>3, <2>4
<1>12. m \in Runs(depth)
  BY <1>8
<1> QED BY <1>11, <1>12 DEF LongestRun

LEMMA ShallowestIn ==
    ASSUME ConvInv, Condensable # {}
    PROVE  /\ Min(Condensable) \in Condensable /\ Min(Condensable) \in Nat
           /\ Min(Condensable) # Message
<1> DEFINE C == {c \in context : c.depth \in Condensable}
           f == [c \in C |-> c.depth]
<1>0. IsFiniteSet(context) /\ context \subseteq Items
  BY DEF ConvInv, TableOK, ConvTypeOK
<1>1. \A d \in Condensable : d # Message /\ \E c \in C : c.depth = d
  BY DEF Condensable
<1>2. IsFiniteSet(C) /\ C # {}
  BY <1>0, <1>1, FS_Subset
<1>3. \A c \in C : c.depth \in Condensable /\ c.depth \in Nat
  BY <1>0, <1>1 DEF Items
<1>4. f \in [C -> Int] /\ \A c \in C : f[c] = c.depth
  BY <1>3
<1> HIDE DEF f, C
<1>5. PICK c \in C : \A d \in C : f[c] <= f[d]
  BY <1>2, <1>4, LeastMember
<1>6. c.depth \in Condensable /\ \A d \in Condensable : c.depth <= d
  BY <1>1, <1>3, <1>4, <1>5
<1>7. Min(Condensable) \in Condensable
  BY <1>6 DEF Min
<1> QED BY <1>1, <1>3, <1>7

-----------------------------------------------------------------------------
\* Nothing happens to the tables.
LEMMA TablesStay ==
    ASSUME ConvInv, UNCHANGED <<history, context>>
    PROVE  TableOK'
BY DEF ConvInv, TableOK, ContextCoversHistory, SummariesFirst, Covered

\* ... nor to a summary that is being written.
LEMMA CompStays ==
    ASSUME ConvInv, UNCHANGED <<context, comp>>
    PROVE  CompOK'
BY DEF ConvInv, CompOK, InRange, Covered

LEMMA SummarizeStep ==
    ASSUME ConvInv, NEW S, WholeRange(S), NEW depth \in Nat, Summarize(S, depth),
           comp.iter < MaxIterations,
           UNCHANGED <<history, context, turn, needs, asyncs, lastInput>>
    PROVE  ConvInv'
<1>0. /\ ConvTypeOK /\ IsFiniteSet(context) /\ context \subseteq Items /\ comp \in CompRecs
  BY DEF ConvInv, TableOK, ConvTypeOK
<1>1. /\ S \subseteq context /\ S # {}
      /\ S = {c \in context : OldestOf(S).ord <= c.ord /\ c.ord <= NewestOf(S).ord}
      /\ \A c \in context : c.depth = Message => OldestOf(S).ord <= c.ord
  BY DEF WholeRange
<1>2. S \subseteq Items /\ IsFiniteSet(S)
  BY <1>0, <1>1, FS_Subset
<1>3. /\ OldestOf(S) \in S /\ NewestOf(S) \in S /\ OldestOf(S).ord <= NewestOf(S).ord
  BY <1>1, <1>2, OldestIn, NewestIn
<1>4. OldestOf(S).ord \in Nat /\ NewestOf(S).ord \in Nat
  BY <1>2, <1>3 DEF Items
<1>5. Covered(S) \in SUBSET Nat
  BY <1>2 DEF Covered, Items
<1>6. /\ comp' \in CompRecs /\ comp'.iter = comp.iter /\ comp'.from = OldestOf(S).ord
      /\ comp'.to = NewestOf(S).ord /\ comp'.covers = Covered(S)
  BY <1>0, <1>4, <1>5 DEF Summarize, CompRecs
<1>7. ConvTypeOK'
  BY <1>0, <1>6 DEF ConvTypeOK
<1>8. InRange' = S
  BY <1>1, <1>6 DEF InRange
<1>9. Covered(InRange)' = Covered(S)
  BY <1>8 DEF Covered
<1>10. CompOK'
  BY <1>1, <1>3, <1>6, <1>9 DEF CompOK
<1> QED BY <1>7, <1>10, TablesStay DEF ConvInv

LEMMA SweepEndsTypes ==
    ASSUME ConvTypeOK, SweepEnds
    PROVE  comp' = NoComp /\ comp' \in CompRecs /\ turn' \in TurnRecs /\ needs' \in BOOLEAN
<1>1. comp' = NoComp /\ NoComp \in CompRecs
  BY ConversationAssumption DEF SweepEnds, NoComp, CompRecs
<1>2. turn' \in TurnRecs
  BY DEF SweepEnds, ConvTypeOK, TurnRecs
<1>3. needs' \in BOOLEAN
  BY DEF SweepEnds
<1> QED BY <1>1, <1>2, <1>3

\* No compaction is under way afterwards.
LEMMA NothingWritten ==
    ASSUME ConvInv, UNCHANGED <<history, context>>, comp'.pc \in {"off", "sweep"}, ConvTypeOK'
    PROVE  ConvInv'
BY TablesStay DEF ConvInv, CompOK

LEMMA SweepStep ==
    ASSUME ConvInv, Sweep
    PROVE  ConvInv'
<1>0. /\ ConvTypeOK /\ comp \in CompRecs /\ comp.pc = "sweep"
      /\ UNCHANGED <<history, context, asyncs, lastInput>>
  BY DEF Sweep, ConvInv, ConvTypeOK
<1>1. CASE SweepEnds
  <2>1. comp' = NoComp /\ comp' \in CompRecs /\ turn' \in TurnRecs /\ needs' \in BOOLEAN
    BY <1>0, <1>1, SweepEndsTypes
  <2>2. ConvTypeOK'
    BY <1>0, <2>1 DEF ConvTypeOK
  <2>3. comp'.pc = "off"
    BY <2>1 DEF NoComp
  <2> QED BY <1>0, <2>2, <2>3, NothingWritten
<1>2. CASE /\ comp.iter < MaxIterations /\ UNCHANGED <<needs, turn>>
           /\ comp' = [comp EXCEPT !.iter = @ + 1]
  <2>1. comp' \in CompRecs /\ comp'.pc = "sweep"
    BY <1>0, <1>2, ConversationAssumption DEF CompRecs
  <2>2. ConvTypeOK'
    BY <1>0, <1>2, <2>1 DEF ConvTypeOK
  <2> QED BY <1>0, <2>1, <2>2, NothingWritten
<1>3. CASE /\ comp.iter < MaxIterations /\ UNCHANGED <<needs, turn>>
           /\ ~ (Cardinality(OldestMessages) < LeafMinFanout)
           /\ Summarize(OldestMessages, 0)
  <2>1. OldestMessages # {}
    <3>1. Cardinality({}) = 0
      BY FS_EmptySet
    <3> QED BY <1>3, <3>1, ConversationAssumption
  <2>2. WholeRange(OldestMessages)
    BY <2>1, ChunkWhole
  <2> QED BY <1>0, <1>3, <2>2, SummarizeStep
<1>4. CASE /\ comp.iter < MaxIterations /\ UNCHANGED <<needs, turn>>
           /\ Condensable # {}
           /\ Summarize(LongestRun(Min(Condensable)), Min(Condensable) + 1)
  <2> DEFINE d == Min(Condensable)
  <2>1. d \in Condensable /\ d \in Nat /\ d # Message
    BY <1>4, ShallowestIn
  <2>2. Runs(d) # {}
    BY <2>1 DEF Condensable
  <2> HIDE DEF d
  <2>3. LongestRun(d) \in Runs(d)
    BY <2>2, LongestRunIn
  <2>4. WholeRange(LongestRun(d))
    BY <2>1, <2>3, RunWhole
  <2>5. d + 1 \in Nat /\ Summarize(LongestRun(d), d + 1)
    BY <1>4, <2>1 DEF d
  <2> QED BY <1>0, <1>4, <2>4, <2>5, SummarizeStep
<1> QED BY <1>1, <1>2, <1>3, <1>4 DEF Sweep

LEMMA SummarizedStep ==
    ASSUME ConvInv, Summarized
    PROVE  ConvInv'
<1>0. /\ ConvTypeOK /\ comp \in CompRecs /\ turn \in TurnRecs /\ comp.pc = "llm" /\ CompOK
      /\ UNCHANGED <<history, context, asyncs, needs, lastInput>>
  BY DEF Summarized, ConvInv, ConvTypeOK
<1>1. CASE comp' = [comp EXCEPT !.pc = "replace"] /\ UNCHANGED turn
  <2>1. /\ comp' \in CompRecs /\ comp'.iter = comp.iter /\ comp'.from = comp.from
        /\ comp'.to = comp.to /\ comp'.covers = comp.covers
    BY <1>0, <1>1 DEF CompRecs
  <2>2. ConvTypeOK'
    BY <1>0, <1>1, <2>1 DEF ConvTypeOK
  <2>3. Covered(InRange)' = Covered(InRange)
    BY <1>0, <2>1 DEF Covered, InRange
  <2>4. CompOK'
    BY <1>0, <2>1, <2>3 DEF CompOK
  <2> QED BY <1>0, <2>2, <2>4, TablesStay DEF ConvInv
<1>2. CASE /\ comp' = NoComp
           /\ turn' = IF comp.owner = "chat" THEN [turn EXCEPT !.pc = "assemble"] ELSE turn
  <2>1. comp' \in CompRecs /\ comp'.pc = "off"
    BY <1>2, ConversationAssumption DEF NoComp, CompRecs
  <2>2. turn' \in TurnRecs
    BY <1>0, <1>2 DEF TurnRecs
  <2>3. ConvTypeOK'
    BY <1>0, <2>1, <2>2 DEF ConvTypeOK
  <2> QED BY <1>0, <2>1, <2>3, NothingWritten
<1> QED BY <1>1, <1>2 DEF Summarized

\* ReplaceContextItems: what stays is outside the range, and the summary stands
\* for all that was in it.
LEMMA ReplaceStep ==
    ASSUME ConvInv, ReplaceItems
    PROVE  ConvInv'
<1> DEFINE new == [ord |-> comp.from, covers |-> comp.covers, depth |-> comp.depth, tokens |-> 1]
           Out == {c \in context : c.ord < comp.from \/ c.ord > comp.to}
<1>0. /\ ConvTypeOK /\ comp \in CompRecs /\ turn \in TurnRecs /\ comp.pc = "replace" /\ CompOK
      /\ context \subseteq Items /\ IsFiniteSet(context)
      /\ ContextCoversHistory /\ SummariesFirst
      /\ UNCHANGED <<history, turn, asyncs, needs, lastInput>>
  BY DEF ReplaceItems, ConvInv, ConvTypeOK, TableOK
<1>1. /\ comp.iter < MaxIterations /\ comp.covers = Covered(InRange)
      /\ \A c \in context : c.depth = Message => comp.from <= c.ord
  BY <1>0 DEF CompOK
<1>2. PICK a \in context, b \in context : a.ord = comp.from /\ b.ord = comp.to /\ a.ord <= b.ord
  BY <1>0 DEF CompOK
<1>3. \A c \in context : c.ord \in Nat
  BY <1>0 DEF Items
<1>4. comp.from \in Nat /\ comp.to \in Nat /\ comp.from <= comp.to
  BY <1>2, <1>3
<1>5. context' = Out \cup {new}
  BY DEF ReplaceItems, Replace
<1>6. new \in Items /\ new.depth # Message /\ new.ord = comp.from /\ new.covers = comp.covers
  BY <1>0 DEF Items, CompRecs, Message
<1>7. /\ Out \subseteq context /\ \A c \in Out : c.ord < comp.from \/ c.ord > comp.to
      /\ \A c \in context : c \in Out \/ c \in InRange
      /\ InRange \subseteq context
  BY <1>3, <1>4 DEF InRange
<1>8. \A m : m \in comp.covers <=> \E c \in InRange : m \in c.covers
  BY <1>1, CoveredIs
<1> HIDE DEF new, Out
<1>9. context' \subseteq Items /\ IsFiniteSet(context')
  <2>1. IsFiniteSet(Out)
    BY <1>0, <1>7, FS_Subset
  <2> QED BY <1>0, <1>5, <1>6, <1>7, <2>1, FS_AddElement
<1>10. ASSUME NEW c \in Out
       PROVE  /\ c.ord # comp.from /\ c.ord \in Nat
              /\ c.ord < comp.from => \A m \in c.covers, k \in comp.covers : m < k
              /\ comp.from < c.ord => \A m \in comp.covers, k \in c.covers : m < k
  <2>1. c \in context /\ c.ord \in Nat /\ (c.ord < comp.from \/ c.ord > comp.to)
    BY <1>3, <1>7
  <2>2. ASSUME NEW d \in InRange
        PROVE  /\ c.ord < comp.from => \A m \in c.covers, k \in d.covers : m < k
               /\ comp.from < c.ord => \A m \in d.covers, k \in c.covers : m < k
    <3>1. d \in context /\ d.ord \in Nat /\ comp.from <= d.ord /\ d.ord <= comp.to
      BY <1>3 DEF InRange
    <3>2. (c.ord < comp.from => c.ord < d.ord) /\ (comp.from < c.ord => d.ord < c.ord)
      BY <1>4, <2>1, <3>1
    <3> QED BY <1>0, <2>1, <3>1, <3>2, RowsOrdered
  <2>3. c.ord # comp.from
    BY <1>4, <2>1
  <2> QED BY <1>8, <2>1, <2>2, <2>3
<1>11. ContextCoversHistory'
  <2>1. Covered(context') = Covered(context)
    <3>1. \A m : m \in Covered(context') <=> m \in Covered(context)
      <4> SUFFICES ASSUME NEW m PROVE m \in Covered(context') <=> m \in Covered(context)
        OBVIOUS
      <4>1. m \in Covered(context') <=> (\E c \in Out : m \in c.covers) \/ m \in comp.covers
        BY <1>5, <1>6, CoveredIs
      <4>2. m \in Covered(context) <=> \E c \in context : m \in c.covers
        BY CoveredIs
      <4> QED BY <1>7, <1>8, <4>1, <4>2
    <3> QED BY <3>1
  <2>2. ASSUME NEW c \in context', NEW d \in context', c # d
        PROVE  /\ c.ord # d.ord
               /\ c.ord < d.ord => \A m \in c.covers, k \in d.covers : m < k
    <3>1. CASE c \in Out /\ d \in Out
      BY <1>0, <1>7, <2>2, <3>1, RowsOrdered
    <3>2. CASE c \in Out /\ d = new
      BY <1>6, <1>10, <3>2
    <3>3. CASE c = new /\ d \in Out
      BY <1>6, <1>10, <3>3
    <3> QED BY <1>5, <2>2, <3>1, <3>2, <3>3
  <2>3. Covered(context)' = 1..Len(history')
    BY <1>0, <2>1 DEF ContextCoversHistory, Covered
  <2> QED BY <2>2, <2>3 DEF ContextCoversHistory
<1>12. SummariesFirst'
  <2> SUFFICES ASSUME NEW c \in context', NEW d \in context', c.depth = Message, d.depth # Message
               PROVE  d.ord < c.ord
    BY DEF SummariesFirst
  <2>1. c \in Out /\ c \in context
    BY <1>5, <1>6, <1>7
  <2>2. CASE d \in Out
    BY <1>0, <1>7, <2>1, <2>2 DEF SummariesFirst
  <2>3. CASE d = new
    <3>1. comp.from <= c.ord /\ c.ord # comp.from /\ c.ord \in Nat
      BY <1>1, <1>10, <2>1
    <3> QED BY <1>4, <1>6, <2>3, <3>1
  <2> QED BY <1>5, <2>2, <2>3
<1>13. comp' \in CompRecs /\ comp'.pc = "sweep"
  <2>1. comp' = [NoComp EXCEPT !.pc = "sweep", !.owner = comp.owner, !.iter = comp.iter + 1]
    BY DEF ReplaceItems
  <2>2. NoComp \in CompRecs
    BY ConversationAssumption DEF NoComp, CompRecs
  <2>3. comp.iter \in 0..MaxIterations /\ comp.owner \in {"async", "chat"}
    BY <1>0 DEF CompRecs
  <2>4. comp.iter + 1 \in 0..MaxIterations
    BY <1>1, <2>3, ConversationAssumption
  <2> QED BY <2>1, <2>2, <2>3, <2>4 DEF CompRecs
<1>14. ConvTypeOK'
  BY <1>0, <1>9, <1>13 DEF ConvTypeOK
<1>15. TableOK' /\ CompOK'
  BY <1>9, <1>11, <1>12, <1>13 DEF TableOK, CompOK
<1> QED BY <1>14, <1>15 DEF ConvInv

-----------------------------------------------------------------------------
\* CompactIfNeeded has compactMu, and either leaves it or begins a sweep.
LEMMA CompactTypes ==
    ASSUME NEW owner \in {"async", "chat"}, Compact(owner)
    PROVE  comp' \in CompRecs /\ comp'.pc \in {"off", "sweep"}
<1>1. NoComp \in CompRecs /\ NoComp.pc = "off"
  BY ConversationAssumption DEF NoComp, CompRecs
<1>2. \/ comp' = NoComp
      \/ comp' = [NoComp EXCEPT !.pc = "sweep", !.owner = owner]
  BY DEF Compact
<1>3. [NoComp EXCEPT !.pc = "sweep", !.owner = owner] \in CompRecs
  BY <1>1 DEF CompRecs
<1>4. [NoComp EXCEPT !.pc = "sweep", !.owner = owner].pc = "sweep"
  BY DEF NoComp
<1> QED BY <1>1, <1>2, <1>3, <1>4

LEMMA AsyncStep == ASSUME ConvInv, AsyncCompaction PROVE ConvInv'
<1>0. /\ ConvTypeOK /\ asyncs \in 0..MaxMessages /\ asyncs > 0 /\ asyncs' = asyncs - 1
      /\ UNCHANGED <<history, context, turn, needs, lastInput>>
  BY DEF ConvInv, ConvTypeOK, AsyncCompaction
<1>1. comp' \in CompRecs /\ comp'.pc \in {"off", "sweep"}
  BY CompactTypes DEF AsyncCompaction
<1>2. asyncs' \in 0..MaxMessages
  BY <1>0, ConversationAssumption
<1>3. ConvTypeOK'
  BY <1>0, <1>1, <1>2 DEF ConvTypeOK
<1> QED BY <1>0, <1>1, <1>3, NothingWritten

LEMMA SyncStep == ASSUME ConvInv, SyncCompaction PROVE ConvInv'
<1>0. ConvTypeOK /\ turn \in TurnRecs /\ UNCHANGED <<history, context, asyncs, needs, lastInput>>
  BY DEF ConvInv, ConvTypeOK, SyncCompaction
<1>1. comp' \in CompRecs /\ comp'.pc \in {"off", "sweep"}
  BY CompactTypes DEF SyncCompaction
<1>2. turn' \in TurnRecs
  <2>1. turn' = [turn EXCEPT !.pc = "assemble"] \/ turn' = turn
    BY DEF SyncCompaction
  <2> QED BY <1>0, <2>1 DEF TurnRecs
<1>3. ConvTypeOK'
  BY <1>0, <1>1, <1>2 DEF ConvTypeOK
<1> QED BY <1>0, <1>1, <1>3, NothingWritten

\* A step of the turn that writes no message.
LEMMA TurnStays ==
    ASSUME ConvInv, turn' \in TurnRecs, needs' \in BOOLEAN, lastInput' \in Nat,
           asyncs' \in 0..MaxMessages, UNCHANGED <<history, context, comp>>
    PROVE  ConvInv'
<1>1. ConvTypeOK'
  BY DEF ConvInv, ConvTypeOK
<1> QED BY <1>1, TablesStay, CompStays DEF ConvInv

LEMMA TurnStep ==
    ASSUME ConvInv, BeginTurn \/ ReadItems \/ StreamFails \/ EndTurn
    PROVE  ConvInv'
<1>0. /\ ConvTypeOK /\ turn \in TurnRecs /\ needs \in BOOLEAN /\ lastInput \in Nat
      /\ asyncs \in 0..MaxMessages /\ context \subseteq Items
  BY DEF ConvInv, ConvTypeOK
<1>1. NoTurn \in TurnRecs
  BY DEF NoTurn, TurnRecs
<1>2. CASE BeginTurn
  <2>1. \/ turn' = [turn EXCEPT !.pc = "sync"]
        \/ turn' = [turn EXCEPT !.pc = "assemble"]
    BY <1>2 DEF BeginTurn
  <2>2. turn' \in TurnRecs
    BY <1>0, <2>1 DEF TurnRecs
  <2> QED BY <1>0, <1>2, <2>2, TurnStays DEF BeginTurn
<1>3. CASE ReadItems
  <2>1. turn' \in TurnRecs
    BY <1>0, <1>3 DEF ReadItems, TurnRecs
  <2> QED BY <1>0, <1>3, <2>1, TurnStays DEF ReadItems
<1>4. CASE StreamFails
  BY <1>0, <1>1, <1>4, TurnStays DEF StreamFails
<1>5. CASE EndTurn
  <2>1. lastInput' \in Nat /\ asyncs' \in 0..MaxMessages
    BY <1>0, <1>5, ConversationAssumption DEF EndTurn
  <2> QED BY <1>0, <1>1, <1>5, <2>1, TurnStays DEF EndTurn
<1> QED BY <1>2, <1>3, <1>4, <1>5

\* What is sent are rows that were read.
LEMMA AssembleTypes == ASSUME NEW items PROVE Assemble(items) \subseteq items
BY DEF Assemble, FillBudget, Evictable, FreshTail

LEMMA ResolveStep == ASSUME ConvInv, ResolveItems PROVE ConvInv'
<1>0. /\ ConvTypeOK /\ turn \in TurnRecs /\ needs \in BOOLEAN /\ lastInput \in Nat
      /\ asyncs \in 0..MaxMessages
      /\ UNCHANGED <<comp, asyncs, needs, lastInput>>
  BY DEF ConvInv, ConvTypeOK, ResolveItems
<1>1. Assemble(turn.items) \subseteq Items
  BY <1>0, AssembleTypes DEF TurnRecs
<1>2. CASE /\ turn' = [turn EXCEPT !.pc = "stream", !.sent = Assemble(turn.items)]
           /\ UNCHANGED <<history, context>>
  <2>1. turn' \in TurnRecs
    BY <1>0, <1>1, <1>2 DEF TurnRecs
  <2> QED BY <1>0, <1>2, <2>1, TurnStays
<1>3. CASE /\ Append1(1)
           /\ turn' = [turn EXCEPT !.pc = "stream",
                                   !.sent = Assemble(turn.items) \cup {NewItem(1)}]
  <2>1. 1 \in 1..MaxSize
    BY ConversationAssumption
  <2>2. /\ history' \in Seq(1..MaxSize) /\ Len(history') <= MaxMessages
        /\ context' \subseteq Items /\ NewItem(1) \in Items
        /\ TableOK' /\ CompOK'
    BY <1>0, <1>3, <2>1, AppendKeeps
  <2>3. turn' \in TurnRecs
    BY <1>0, <1>1, <1>3, <2>2 DEF TurnRecs
  <2>4. ConvTypeOK'
    BY <1>0, <2>2, <2>3 DEF ConvTypeOK
  <2> QED BY <2>2, <2>4 DEF ConvInv
<1> QED BY <1>2, <1>3 DEF ResolveItems

LEMMA PersistStep == ASSUME ConvInv, Persist PROVE ConvInv'
<1>0. ConvTypeOK /\ UNCHANGED <<comp, asyncs, needs, lastInput>>
  BY DEF ConvInv, Persist
<1>1. PICK size \in 1..MaxSize : Append1(size)
  BY DEF Persist
<1>2. /\ history' \in Seq(1..MaxSize) /\ Len(history') <= MaxMessages
      /\ context' \subseteq Items /\ TableOK' /\ CompOK'
  BY <1>0, <1>1, AppendKeeps
<1>3. turn' \in TurnRecs
  BY DEF Persist, NoTurn, TurnRecs
<1>4. ConvTypeOK'
  BY <1>0, <1>2, <1>3 DEF ConvTypeOK
<1> QED BY <1>2, <1>4 DEF ConvInv

LEMMA ConvCrashStep == ASSUME ConvInv, ConvCrash PROVE ConvInv'
<1>1. /\ ConvTypeOK /\ UNCHANGED <<history, context>> /\ turn' = NoTurn /\ comp' = NoComp
      /\ asyncs' = 0 /\ needs' = FALSE /\ lastInput' = 0
  BY DEF ConvCrash, ConvInv
<1>2. NoTurn \in TurnRecs /\ NoComp \in CompRecs /\ NoComp.pc = "off"
  BY ConversationAssumption DEF NoTurn, TurnRecs, NoComp, CompRecs
<1>3. ConvTypeOK'
  <2>1. 0 \in 0..MaxMessages /\ 0 \in Nat /\ FALSE \in BOOLEAN
    BY ConversationAssumption
  <2>2. turn' \in TurnRecs /\ comp' \in CompRecs
    BY <1>1, <1>2
  <2> QED BY <1>1, <2>1, <2>2 DEF ConvTypeOK
<1> QED BY <1>1, <1>2, <1>3, NothingWritten

LEMMA ConvInvInit == ConvInit => ConvInv
<1> SUFFICES ASSUME ConvInit PROVE ConvInv
  OBVIOUS
<1>1. history = <<>> /\ context = {} /\ turn = NoTurn /\ comp = NoComp
  BY DEF ConvInit
<1>2. NoTurn \in TurnRecs /\ NoComp \in CompRecs /\ NoComp.pc = "off"
  BY ConversationAssumption DEF NoTurn, TurnRecs, NoComp, CompRecs
<1>3. ConvTypeOK
  <2>1. 0 \in 0..MaxMessages /\ 0 \in Nat /\ FALSE \in BOOLEAN /\ 0 <= MaxMessages
    BY ConversationAssumption
  <2>2. turn \in TurnRecs /\ comp \in CompRecs /\ context \subseteq Items
    BY <1>1, <1>2
  <2>3. history \in Seq(1..MaxSize) /\ Len(history) = 0
    BY <1>1
  <2> QED BY <2>1, <2>2, <2>3 DEF ConvInit, ConvTypeOK
<1>4. Covered(context) = 1..Len(history)
  BY <1>1 DEF Covered
<1>5. TableOK
  BY <1>1, <1>4, FS_EmptySet DEF TableOK, ContextCoversHistory, SummariesFirst
<1> QED BY <1>1, <1>2, <1>3, <1>5 DEF ConvInv, CompOK

LEMMA ConvAlways == ConvSpec => []ConvInv
<1>1. ConvInit => ConvInv
  BY ConvInvInit
<1>2. ConvInv /\ [ConvNext]_convVars => ConvInv'
  <2> SUFFICES ASSUME ConvInv, [ConvNext]_convVars PROVE ConvInv'
    OBVIOUS
  <2>1. CASE UNCHANGED convVars
    <3>1. ConvTypeOK'
      BY <2>1 DEF ConvInv, ConvTypeOK, convVars
    <3> QED BY <2>1, <3>1, TablesStay, CompStays DEF ConvInv, convVars
  <2>2. CASE ConvNext
    BY <2>2, AsyncStep, SweepStep, SummarizedStep, ReplaceStep, SyncStep, TurnStep,
       ResolveStep, PersistStep, ConvCrashStep DEF ConvNext
  <2> QED BY <2>1, <2>2
<1> QED BY <1>1, <1>2, PTL DEF ConvSpec

\* Type correctness of a session's history: the rows of context_items, the turn
\* under way and the compaction that holds compactMu stay in their types.
THEOREM ConvTypeCorrect == ConvSpec => []ConvTypeOK
<1>1. ConvInv => ConvTypeOK
  BY DEF ConvInv
<1> QED BY <1>1, ConvAlways, PTL

\* However the appends of a turn, the passes of a background or a synchronous
\* compaction and crashes interleave, the rows of context_items lead to every
\* message of the session exactly once and in its order (loop.go persistTurn,
\* compaction.go fullSweep, messages.go AppendMessage and ReplaceContextItems).
THEOREM HistoryStaysCovered == ConvSpec => []ContextCoversHistory
<1>1. ConvInv => ContextCoversHistory
  BY DEF ConvInv, TableOK
<1> QED BY <1>1, ConvAlways, PTL

=============================================================================
