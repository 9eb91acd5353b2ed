-------------------------- MODULE SchedulerProofs --------------------------
(***************************************************************************)
(* Proofs about Scheduler for every set of subscriptions, instances,       *)
(* goroutines and clients, every cron schedule and every bound.            *)
(***************************************************************************)
EXTENDS Scheduler, TLAPS

IsHeap(h) == IsABag(h) /\ BagToSet(h) \subseteq Subs \X Nat

(***************************************************************************)
(* Bags of heap entries.                                                   *)
(***************************************************************************)

\* heap.Push keeps a heap of well-formed entries well-formed.
LEMMA PushIsHeap ==
    ASSUME NEW h, IsHeap(h), NEW E \in SUBSET (Subs \X Nat)
    PROVE  IsHeap(h (+) SetToBag(E))
<1> DEFINE k == h (+) SetToBag(E)
<1>1. DOMAIN k = DOMAIN h \cup E
  BY DEF (+), SetToBag
<1>2. \A e \in DOMAIN k : k[e] \in Nat /\ k[e] > 0
  BY DEF (+), SetToBag, IsHeap, IsABag, BagToSet
<1>3. k \in [DOMAIN k -> {n \in Nat : n > 0}]
  BY <1>2 DEF (+), SetToBag
<1> QED
  BY <1>1, <1>3 DEF IsHeap, IsABag, BagToSet

\* heap.Pop and heap.Remove take entries away and add none.
LEMMA PopIsHeap ==
    ASSUME NEW h, IsHeap(h), NEW E
    PROVE  IsHeap(h (-) SetToBag(E))
<1> DEFINE m == [e \in DOMAIN h |-> IF e \in E THEN h[e] - 1 ELSE h[e]]
           k == [e \in {d \in DOMAIN h : m[d] > 0} |-> m[e]]
<1>1. h (-) SetToBag(E) = k
  BY DEF (-), SetToBag
<1>2. \A e \in DOMAIN h : m[e] \in Int
  BY DEF IsHeap, IsABag
<1>3. k \in [DOMAIN k -> {n \in Nat : n > 0}]
  BY <1>2
<1>4. DOMAIN k \subseteq DOMAIN h
  OBVIOUS
<1> QED
  BY <1>1, <1>3, <1>4 DEF IsHeap, IsABag, BagToSet

\* PauseInstance rebuilds the heap from some of its entries.
LEMMA FilterIsHeap ==
    ASSUME NEW h, IsHeap(h), NEW D \in SUBSET DOMAIN h
    PROVE  IsHeap([e \in D |-> h[e]])
BY DEF IsHeap, IsABag, BagToSet

\* A heap built from a set of entries has each of them once.
LEMMA SetIsHeap ==
    ASSUME NEW E \in SUBSET (Subs \X Nat)
    PROVE  IsHeap(SetToBag(E))
BY DEF IsHeap, IsABag, BagToSet, SetToBag

(***************************************************************************)
(* Type correctness.                                                       *)
(***************************************************************************)

\* buildEntry returns a fire time or nothing.
LEMMA BuildTimeType ==
    ASSUME TableType, NEW s \in Subs, NEW t \in 0..MaxTime
    PROVE  BuildTime(s, t) \in Nat \cup {Null}
BY SubsAssumption, ClockAssumption DEF TableType, BuildTime, Rows

\* The stored fire time of a one-shot is a time.
LEMMA TruncType ==
    ASSUME NEW t \in Nat
    PROVE  Trunc(t) \in Nat
BY ClockAssumption DEF Trunc

\* Deleting, or writing one column of, a row leaves a table.
LEMMA TableWrites ==
    ASSUME TableType, NEW s \in Subs
    PROVE  /\ DeleteSubscription(s) \in [Subs -> Rows]
           /\ \A t \in Nat \cup {Null} : SetNext(s, t) \in [Subs -> Rows]
           /\ SetStatus(s, "active") \in [Subs -> Rows]
BY ZenonT(30) DEF TableType, DeleteSubscription, SetNext, SetStatus, Rows

\* A server that has just started is well typed.
LEMMA TypeInit == Init => TypeOK
<1> SUFFICES ASSUME Init PROVE TypeOK
  OBVIOUS
<1>1. HeapType
  BY SetIsHeap DEF Init, EmptyBag, HeapType, IsHeap
<1>2. ProcType
  BY ClockAssumption DEF Init, ProcType
<1>3. LoopType
  <2>1. loop \in [pc: {"eval", "empty", "sleep", "fire", "done"}, at: Nat]
    BY DEF Init
  <2>2. wake \in BOOLEAN
    BY DEF Init
  <2> QED
    BY <2>1, <2>2 DEF LoopType
<1>4. TableType
  BY DEF Init, TableType, Rows
<1>5. FireType /\ OpType
  BY DEF Init, FireType, OpType
<1> QED
  BY <1>1, <1>2, <1>3, <1>4, <1>5 DEF TypeOK

\* What the program counter of a request says about its fields.
LEMMA OpFields ==
    ASSUME OpType, NEW c \in Callers, op[c] # Nil
    PROVE  /\ op[c] \in SubOps \cup InstOps
           /\ op[c].pc \in {"add", "remove", "activate"} => op[c] \in SubOps
           /\ op[c].pc \notin {"add", "remove", "activate"} => op[c] \in InstOps
BY DEF OpType, SubOps, InstOps

\* A request that begins or returns keeps the types.
LEMMA OpSteps ==
    ASSUME OpType, ProcType, NEW c \in Callers
    PROVE  /\ \A o \in SubOps \cup InstOps : Begin(c, o) => OpType'
           /\ \A o : Begin(c, o) => used' \in [requests: Nat, exits: Nat, crashes: Nat]
           /\ Return(c) => OpType'
BY DEF OpType, ProcType, Begin, Return

\* A request that continues keeps its type.
LEMMA OpContinues ==
    ASSUME OpType, NEW c \in Callers, op[c] # Nil
    PROVE  /\ op[c] \in SubOps /\ Continue(c, "add") => OpType'
           /\ \A pc \in {"pauseHeap", "dropRow", "spawn", "startRow", "resumeRows"} :
                 op[c] \in InstOps /\ Continue(c, pc) => OpType'
<1>1. ASSUME op[c] \in SubOps, Continue(c, "add") PROVE OpType'
  <2>1. [op[c] EXCEPT !.pc = "add"] \in SubOps
    BY <1>1 DEF SubOps
  <2> QED
    BY <2>1, <1>1 DEF OpType, Continue
<1>2. ASSUME op[c] \in InstOps,
             NEW pc \in {"pauseHeap", "dropRow", "spawn", "startRow", "resumeRows"},
             Continue(c, pc)
      PROVE  OpType'
  <2>1. [op[c] EXCEPT !.pc = pc] \in InstOps
    BY <1>2 DEF InstOps
  <2> QED
    BY <2>1, <1>2 DEF OpType, Continue
<1> QED
  BY <1>1, <1>2

\* The requests the Begin actions build.
LEMMA RequestType ==
    ASSUME NEW i \in Instances
    PROVE  /\ \A k \in SubRequests, pc \in {"add", "remove", "activate"}, s \in Subs :
                 Request(k, pc, s, i) \in SubOps
           /\ \A k \in InstRequests, pc \in {"pauseRows", "unregister"} :
                 Request(k, pc, Nil, i) \in InstOps
BY ClockAssumption DEF Request, SubOps, InstOps

\* Every request action keeps the types.
LEMMA TypeSubRequests ==
    ASSUME TypeOK, NEW c \in Callers, NEW s \in Subs
    PROVE  /\ ScheduleRecurring(c, s) => TypeOK'
           /\ ScheduleOnce(c, s) => TypeOK'
           /\ CancelSchedule(c, s) => TypeOK'
           /\ PauseSubscription(c, s) => TypeOK'
           /\ ResumeSubscription(c, s) => TypeOK'
<1> USE DEF TypeOK
<1>i. InstOf[s] \in Instances
  BY SubsAssumption
<1>1. ASSUME ScheduleRecurring(c, s) PROVE TypeOK'
  <2>1. db' \in [Subs -> Rows]
    BY <1>1, ClockAssumption DEF ScheduleRecurring, TableType, Rows, ProcType
  <2>2. OpType' /\ ProcType'
    BY <1>1, <1>i, OpSteps, RequestType DEF ScheduleRecurring, SubRequests, ProcType
  <2> QED
    BY <1>1, <2>1, <2>2 DEF ScheduleRecurring, TableType, HeapType, FireType, LoopType,
                            schedVars, fireVars
<1>2. ASSUME ScheduleOnce(c, s) PROVE TypeOK'
  <2>1. PICK fireAt \in now + 1 .. now + MaxDelay :
          db' = [db EXCEPT ![s] = [status |-> "active", next |-> fireAt, at |-> Trunc(fireAt)]]
    BY <1>2 DEF ScheduleOnce
  <2>2. fireAt \in Nat
    BY ClockAssumption DEF ProcType
  <2>3. db' \in [Subs -> Rows]
    BY <2>1, <2>2, TruncType DEF TableType, Rows
  <2>4. OpType' /\ ProcType'
    BY <1>2, <1>i, OpSteps, RequestType DEF ScheduleOnce, SubRequests, ProcType
  <2> QED
    BY <1>2, <2>3, <2>4 DEF ScheduleOnce, TableType, HeapType, FireType, LoopType,
                            schedVars, fireVars
<1>3. ASSUME CancelSchedule(c, s) PROVE TypeOK'
  <2>1. OpType' /\ ProcType'
    BY <1>3, <1>i, OpSteps, RequestType DEF CancelSchedule, SubRequests, ProcType
  <2> QED
    BY <1>3, <2>1, TableWrites DEF CancelSchedule, TableType, HeapType, FireType, LoopType,
                                   schedVars, fireVars
<1>4. ASSUME PauseSubscription(c, s) PROVE TypeOK'
  <2>1. OpType' /\ ProcType'
    BY <1>4, <1>i, OpSteps, RequestType DEF PauseSubscription, SubRequests, ProcType
  <2>2. db' \in [Subs -> Rows]
    BY <1>4, ZenonT(30) DEF PauseSubscription, TableType, Rows
  <2> QED
    BY <1>4, <2>1, <2>2 DEF PauseSubscription, TableType, HeapType, FireType, LoopType,
                            schedVars, fireVars
<1>5. ASSUME ResumeSubscription(c, s) PROVE TypeOK'
  <2>1. ResumeClass(s) \in SubRequests
    BY DEF ResumeClass, SubRequests
  <2>2. OpType' /\ ProcType'
    BY <1>5, <1>i, <2>1, OpSteps, RequestType DEF ResumeSubscription, ProcType
  <2> QED
    BY <1>5, <2>2 DEF ResumeSubscription, TableType, HeapType, FireType, LoopType,
                      tableVars, schedVars, fireVars
<1> QED
  BY <1>1, <1>2, <1>3, <1>4, <1>5

\* Stopping, starting and deleting an instance begin with well-typed requests.
LEMMA TypeInstRequests ==
    ASSUME TypeOK, NEW c \in Callers, NEW i \in Instances
    PROVE  /\ StopInstance(c, i) => TypeOK'
           /\ DeleteInstance(c, i) => TypeOK'
           /\ StartInstance(c, i) => TypeOK'
<1> USE DEF TypeOK
<1>1. ASSUME StopInstance(c, i) PROVE TypeOK'
  <2>1. OpType' /\ ProcType'
    BY <1>1, OpSteps, RequestType DEF StopInstance, InstRequests, ProcType
  <2>2. TableType'
    BY <1>1 DEF StopInstance, TableType
  <2> QED
    BY <1>1, <2>1, <2>2 DEF StopInstance, HeapType, FireType, LoopType, schedVars, fireVars
<1>2. ASSUME DeleteInstance(c, i) PROVE TypeOK'
  <2>1. OpType' /\ ProcType'
    BY <1>2, OpSteps, RequestType DEF DeleteInstance, InstRequests, ProcType
  <2>2. TableType'
    BY <1>2 DEF DeleteInstance, TableType
  <2> QED
    BY <1>2, <2>1, <2>2 DEF DeleteInstance, HeapType, FireType, LoopType, schedVars, fireVars
<1>3. ASSUME StartInstance(c, i) PROVE TypeOK'
  <2>1. OpType' /\ ProcType'
    BY <1>3, OpSteps, RequestType DEF StartInstance, InstRequests, ProcType
  <2> QED
    BY <1>3, <2>1 DEF StartInstance, TableType, HeapType, FireType, LoopType,
                      tableVars, schedVars, fireVars
<1> QED
  BY <1>1, <1>2, <1>3

\* The death of an instance's workers keeps the types.
LEMMA TypeInstanceDeath ==
    ASSUME TypeOK, NEW i \in Instances, InstanceDeath(i)
    PROVE  TypeOK'
<1>1. TableType'
  BY DEF InstanceDeath, TypeOK, TableType
<1>2. ProcType'
  BY DEF InstanceDeath, TypeOK, ProcType
<1> QED
  BY <1>1, <1>2 DEF InstanceDeath, TypeOK, HeapType, FireType, LoopType, OpType,
                    schedVars, fireVars

\* Every later step of a request on a subscription keeps the types.
LEMMA TypeSubSteps ==
    ASSUME TypeOK, NEW c \in Callers
    PROVE  /\ Add(c) => TypeOK'
           /\ Remove(c) => TypeOK'
           /\ Activate(c) => TypeOK'
<1> USE DEF TypeOK
<1>s. op[c] # Nil /\ op[c].pc \in {"add", "remove", "activate"} =>
        op[c] \in SubOps /\ op[c].sub \in Subs
  BY OpFields DEF SubOps
<1>1. ASSUME Add(c) PROVE TypeOK'
  <2> DEFINE s == op[c].sub
             t == BuildTime(s, now)
  <2>1. s \in Subs
    BY <1>1, <1>s DEF Add
  <2>2. t \in Nat \cup {Null}
    BY <2>1, BuildTimeType DEF ProcType
  <2>3. CASE t = Null
    <3>1. db' = DeleteSubscription(s) /\ UNCHANGED <<heap, wake>>
      BY <1>1, <2>3 DEF Add
    <3> QED
      BY <1>1, <2>1, <3>1, OpSteps, TableWrites
      DEF Add, ProcType, TableType, HeapType, FireType, LoopType, procVars, fireVars
  <2>4. CASE t # Null
    <3>1. heap' = heap (+) SetToBag({<<s, t>>}) /\ wake' = TRUE /\ db' = db
      BY <1>1, <2>4 DEF Add
    <3>2. {<<s, t>>} \in SUBSET (Subs \X Nat)
      BY <2>1, <2>2, <2>4
    <3>3. HeapType'
      BY <3>1, <3>2, PushIsHeap DEF HeapType, IsHeap
    <3> QED
      BY <1>1, <3>1, <3>3, OpSteps
      DEF Add, ProcType, TableType, FireType, LoopType, procVars, fireVars
  <2> QED
    BY <2>3, <2>4
<1>2. ASSUME Remove(c) PROVE TypeOK'
  <2>1. HeapType'
    BY <1>2, PopIsHeap DEF Remove, HeapType, IsHeap
  <2>2. cancelled' \in SUBSET Subs
    BY <1>2 DEF Remove, FireType
  <2> QED
    BY <1>2, <2>1, <2>2, OpSteps
    DEF Remove, ProcType, TableType, FireType, LoopType, procVars, tableVars, fireVars
<1>3. ASSUME Activate(c) PROVE TypeOK'
  <2>1. db' \in [Subs -> Rows]
    BY <1>3, <1>s, TableWrites DEF Activate
  <2>2. OpType'
    BY <1>3, <1>s, OpSteps, OpContinues DEF Activate
  <2> QED
    BY <1>3, <2>1, <2>2
    DEF Activate, ProcType, TableType, HeapType, FireType, LoopType, procVars, schedVars, fireVars
<1> QED
  BY <1>1, <1>2, <1>3

\* Every later step of a request on an instance keeps the types.
LEMMA TypeInstSteps ==
    ASSUME TypeOK, NEW c \in Callers
    PROVE  /\ PauseRows(c) => TypeOK'
           /\ PauseHeap(c) => TypeOK'
           /\ DropRow(c) => TypeOK'
           /\ Unregister(c) => TypeOK'
           /\ Spawn(c) => TypeOK'
           /\ StartRow(c) => TypeOK'
           /\ ResumeRows(c) => TypeOK'
           /\ Build(c) => TypeOK'
           /\ PushBuilt(c) => TypeOK'
<1> USE DEF TypeOK
<1>o. op[c] # Nil /\ op[c].pc \notin {"add", "remove", "activate"} =>
        /\ op[c] \in InstOps
        /\ op[c].inst \in Instances /\ op[c].todo \in SUBSET Subs
        /\ op[c].at \in 0..MaxTime /\ op[c].built \in SUBSET (Subs \X Nat)
  BY OpFields DEF InstOps
<1>1. ASSUME PauseRows(c) PROVE TypeOK'
  <2>1. OpType'
    BY <1>1, <1>o, OpContinues DEF PauseRows
  <2>2. db' \in [Subs -> Rows]
    BY <1>1 DEF PauseRows, TableType, Rows
  <2> QED
    BY <1>1, <2>1, <2>2
    DEF PauseRows, ProcType, TableType, HeapType, FireType, LoopType, procVars, schedVars, fireVars
<1>2. ASSUME PauseHeap(c) PROVE TypeOK'
  <2>1. OpType'
    BY <1>2, <1>o, OpSteps, OpContinues DEF PauseHeap
  <2>2. HeapType'
    BY <1>2, FilterIsHeap DEF PauseHeap, HeapType, IsHeap, BagToSet
  <2>3. cancelled' \in SUBSET Subs
    BY <1>2 DEF PauseHeap, FireType
  <2> QED
    BY <1>2, <2>1, <2>2, <2>3
    DEF PauseHeap, ProcType, TableType, FireType, LoopType, procVars, tableVars, fireVars
<1>3. ASSUME DropRow(c) PROVE TypeOK'
  <2>1. TableType'
    BY <1>3, <1>o DEF DropRow, TableType, Rows
  <2> QED
    BY <1>3, <2>1, OpSteps
    DEF DropRow, ProcType, HeapType, FireType, LoopType, procVars, schedVars, fireVars
<1>4. ASSUME Unregister(c) PROVE TypeOK'
  <2>1. OpType'
    BY <1>4, <1>o, OpContinues DEF Unregister
  <2>2. TableType'
    BY <1>4, <1>o DEF Unregister, TableType
  <2> QED
    BY <1>4, <2>1, <2>2
    DEF Unregister, ProcType, HeapType, FireType, LoopType, procVars, schedVars, fireVars
<1>5. ASSUME Spawn(c) PROVE TypeOK'
  <2>1. OpType'
    BY <1>5, <1>o, OpSteps, OpContinues DEF Spawn
  <2>2. TableType'
    BY <1>5, <1>o DEF Spawn, TableType
  <2> QED
    BY <1>5, <2>1, <2>2
    DEF Spawn, ProcType, HeapType, FireType, LoopType, procVars, schedVars, fireVars
<1>6. ASSUME StartRow(c) PROVE TypeOK'
  <2>1. OpType'
    BY <1>6, <1>o, OpContinues DEF StartRow
  <2>2. TableType'
    BY <1>6, <1>o DEF StartRow, TableType
  <2> QED
    BY <1>6, <2>1, <2>2
    DEF StartRow, ProcType, HeapType, FireType, LoopType, procVars, schedVars, fireVars
<1>7. ASSUME ResumeRows(c) PROVE TypeOK'
  <2>1. db' \in [Subs -> Rows]
    BY <1>7 DEF ResumeRows, TableType, Rows
  <2>2. [op[c] EXCEPT !.pc = "build", !.at = now,
                      !.todo = {s \in SubsOf(op[c].inst) : HasRow(s)}] \in InstOps
    BY <1>7, <1>o DEF ResumeRows, InstOps, SubsOf, ProcType
  <2>3. OpType'
    BY <1>7, <2>2 DEF ResumeRows, OpType
  <2> QED
    BY <1>7, <2>1, <2>3
    DEF ResumeRows, ProcType, TableType, HeapType, FireType, LoopType, procVars, schedVars, fireVars
<1>8. ASSUME Build(c) PROVE TypeOK'
  <2>1. PICK s \in op[c].todo :
          LET t == BuildTime(s, op[c].at) IN
          /\ db' = IF t = Null THEN DeleteSubscription(s)
                   ELSE IF HasRow(s)
                        THEN [db EXCEPT ![s].status = "active", ![s].next = t] ELSE db
          /\ op' = [op EXCEPT ![c].todo = @ \ {s},
                              ![c].built = IF t = Null THEN @ ELSE @ \cup {<<s, t>>}]
    BY <1>8 DEF Build
  <2> DEFINE t == BuildTime(s, op[c].at)
  <2>2. op[c] \in InstOps /\ s \in Subs /\ t \in Nat \cup {Null}
    BY <1>8, <1>o, BuildTimeType DEF Build
  <2>3. db' \in [Subs -> Rows]
    <3>1. [db EXCEPT ![s].status = "active", ![s].next = t] \in [Subs -> Rows]
      BY <2>2, ZenonT(30) DEF TableType, Rows
    <3> QED
      BY <2>1, <2>2, <3>1, TableWrites DEF TableType
  <2>4. OpType'
    <3> DEFINE o == [op[c] EXCEPT !.todo = @ \ {s},
                                  !.built = IF t = Null THEN @ ELSE @ \cup {<<s, t>>}]
    <3>1. o \in InstOps
      <4> DEFINE b == IF t = Null THEN op[c].built ELSE op[c].built \cup {<<s, t>>}
      <4>1. b \in SUBSET (Subs \X Nat)
        BY <1>8, <1>o, <2>2 DEF Build
      <4>2. o = [op[c] EXCEPT !.todo = op[c].todo \ {s}, !.built = b]
        BY <2>2 DEF InstOps
      <4> HIDE DEF b, o
      <4> QED
        BY <2>2, <4>1, <4>2 DEF InstOps
    <3>2. op' = [op EXCEPT ![c] = o]
      BY <2>1
    <3> QED
      BY <3>1, <3>2 DEF OpType
  <2> QED
    BY <1>8, <2>3, <2>4
    DEF Build, ProcType, TableType, HeapType, FireType, LoopType, procVars, schedVars, fireVars
<1>9. ASSUME PushBuilt(c) PROVE TypeOK'
  <2>1. HeapType'
    BY <1>9, <1>o, PushIsHeap DEF PushBuilt, HeapType, IsHeap
  <2> QED
    BY <1>9, <2>1, OpSteps
    DEF PushBuilt, ProcType, TableType, FireType, LoopType, procVars, tableVars, fireVars
<1> QED
  BY <1>1, <1>2, <1>3, <1>4, <1>5, <1>6, <1>7, <1>8, <1>9

\* The run goroutine and fireReady keep the types.
LEMMA TypeRunLoop ==
    ASSUME TypeOK, RunLoop
    PROVE  TypeOK'
<1> USE DEF TypeOK
<1>h. \A e \in BagToSet(heap) : e[1] \in Subs /\ e[2] \in Nat
  BY DEF HeapType
<1>1. CASE RunEval
  <2>1. loop' \in [pc: {"eval", "empty", "sleep", "fire", "done"}, at: Nat]
    BY <1>1, <1>h DEF RunEval, Soonest, ProcType
  <2> QED
    BY <1>1, <2>1 DEF RunEval, ProcType, TableType, HeapType, FireType, LoopType, OpType,
                      procVars, tableVars, schedVars, fireVars
<1>2. CASE RunWake
  <2>1. LoopType'
    BY <1>2 DEF RunWake, LoopType
  <2> QED
    BY <1>2, <2>1 DEF RunWake, ProcType, TableType, HeapType, FireType, OpType,
                      procVars, tableVars, fireVars
<1>3. CASE RunTimer \/ RunDone \/ FireReadyReturn
  <2>1. loop' \in [pc: {"eval", "empty", "sleep", "fire", "done"}, at: Nat]
    BY <1>3 DEF RunTimer, RunDone, FireReadyReturn, ProcType
  <2> QED
    BY <1>3, <2>1 DEF RunTimer, RunDone, FireReadyReturn, ProcType, TableType, HeapType,
                      FireType, LoopType, OpType, procVars, tableVars, schedVars, fireVars
<1>4. ASSUME NEW g \in Fires, Launch(g) PROVE TypeOK'
  <2>1. PICK e \in Soonest :
          /\ heap' = heap (-) SetToBag({e})
          /\ running' = running \cup {e[1]}
          /\ fire' = [fire EXCEPT ![g] = [sub |-> e[1], pc |-> "launch", next |-> Null,
                                          ok |-> FALSE, held |-> FALSE]]
          /\ shots' = shots \cup (IF Kind[e[1]] = "once" THEN {e[1]} ELSE {})
    BY <1>4 DEF Launch
  <2>2. e[1] \in Subs
    BY <1>h DEF Soonest
  <2>3. HeapType'
    BY <2>1, PopIsHeap DEF HeapType, IsHeap
  <2>4. FireType'
    <3>1. [sub |-> e[1], pc |-> "launch", next |-> Null, ok |-> FALSE, held |-> FALSE] \in FireRecs
      BY <2>2 DEF FireRecs
    <3> QED
      BY <1>4, <2>1, <2>2, <3>1 DEF Launch, FireType
  <2> QED
    BY <1>4, <2>3, <2>4 DEF Launch, ProcType, TableType, LoopType, OpType, procVars, tableVars
<1> QED
  BY <1>1, <1>2, <1>3, <1>4 DEF RunLoop

\* fireSingle keeps the types.
LEMMA TypeFireSingle ==
    ASSUME TypeOK, NEW g \in Fires, FireSingle(g)
    PROVE  TypeOK'
<1> USE DEF TypeOK
<1>f. fire[g] \in FireRecs /\ fire[g].sub \in Subs
  BY DEF FireSingle, TurnBegins, TurnEnds, Record, DropOneShot, Finish, FireType, FireRecs
<1>1. CASE TurnBegins(g)
  <2>1. [fire[g] EXCEPT !.pc = "chat", !.held = TRUE] \in FireRecs
    BY <1>f DEF FireRecs
  <2>2. FireType'
    BY <1>1, <2>1 DEF TurnBegins, FireType, schedVars
  <2> QED
    BY <1>1, <2>2 DEF TurnBegins, ProcType, TableType, HeapType, LoopType, OpType,
                      procVars, tableVars, schedVars
<1>2. CASE TurnEnds(g)
  <2>1. PICK ok \in {FALSE, fire[g].pc = "chat"} :
          fire' = [fire EXCEPT ![g].pc = "record", ![g].ok = ok, ![g].held = FALSE,
                     ![g].next = IF Kind[fire[g].sub] = "cron"
                                 THEN CronNext(fire[g].sub, now) ELSE Null]
    BY <1>2 DEF TurnEnds
  <2> DEFINE t == IF Kind[fire[g].sub] = "cron" THEN CronNext(fire[g].sub, now) ELSE Null
  <2>2. t \in Nat \cup {Null}
    BY <1>f, ClockAssumption DEF ProcType
  <2>3. ok \in BOOLEAN
    OBVIOUS
  <2>4. [fire[g] EXCEPT !.pc = "record", !.ok = ok, !.held = FALSE, !.next = t] \in FireRecs
    BY <1>f, <2>2, <2>3 DEF FireRecs
  <2>5. FireType'
    BY <1>2, <2>1, <2>4 DEF TurnEnds, FireType, schedVars
  <2> QED
    BY <1>2, <2>5 DEF TurnEnds, ProcType, TableType, HeapType, LoopType, OpType,
                      procVars, tableVars, schedVars
<1>3. CASE Record(g)
  <2>1. db' \in [Subs -> Rows]
    BY <1>3, <1>f, TableWrites DEF Record, FireRecs, TableType
  <2>2. \A p \in {"drop", "finish"} : [fire[g] EXCEPT !.pc = p] \in FireRecs
    BY <1>f DEF FireRecs
  <2>3. FireType'
    BY <1>3, <2>2 DEF Record, FireType, schedVars
  <2> QED
    BY <1>3, <2>1, <2>3 DEF Record, ProcType, TableType, HeapType, LoopType, OpType,
                            procVars, schedVars
<1>4. CASE DropOneShot(g)
  <2>1. db' \in [Subs -> Rows]
    BY <1>4, <1>f, TableWrites DEF DropOneShot, TableType
  <2>2. [fire[g] EXCEPT !.pc = "finish", !.next = Null] \in FireRecs
    BY <1>f DEF FireRecs
  <2>3. FireType'
    BY <1>4, <2>2 DEF DropOneShot, FireType, schedVars
  <2> QED
    BY <1>4, <2>1, <2>3 DEF DropOneShot, ProcType, TableType, HeapType, LoopType, OpType,
                            procVars, schedVars
<1>5. CASE Finish(g)
  <2>1. HeapType'
    <3>1. MayReAdd(g) => {<<fire[g].sub, fire[g].next>>} \in SUBSET (Subs \X Nat)
      BY <1>f DEF MayReAdd, FireRecs
    <3> QED
      BY <1>5, <3>1, PushIsHeap DEF Finish, HeapType, IsHeap
  <2>2. FireType'
    BY <1>5 DEF Finish, FireType
  <2> QED
    BY <1>5, <2>1, <2>2 DEF Finish, ProcType, TableType, LoopType, OpType, procVars, tableVars
<1> QED
  BY <1>1, <1>2, <1>3, <1>4, <1>5 DEF FireSingle

\* A process that ends leaves an empty scheduler.
LEMMA TypeMemoryLost ==
    ASSUME TypeOK, MemoryLost, used' \in [requests: Nat, exits: Nat, crashes: Nat]
    PROVE  TypeOK'
<1> USE DEF TypeOK
<1>1. HeapType'
  BY SetIsHeap DEF MemoryLost, EmptyBag, HeapType, IsHeap
<1>2. ProcType' /\ TableType'
  BY DEF MemoryLost, ProcType, TableType
<1>3. FireType' /\ OpType'
  BY DEF MemoryLost, FireType, OpType
<1>4. LoopType'
  <2>1. wake' \in BOOLEAN
    BY DEF MemoryLost
  <2>2. loop' \in [pc: {"eval", "empty", "sleep", "fire", "done"}, at: Nat]
    BY DEF MemoryLost
  <2> QED
    BY <2>1, <2>2 DEF LoopType
<1> QED
  BY <1>1, <1>2, <1>3, <1>4

\* The clock, shutdown, crash and boot keep the types.
LEMMA TypeProcess ==
    ASSUME TypeOK, Process
    PROVE  TypeOK'
<1> USE DEF TypeOK
<1>1. CASE Tick \/ Cancel
  <2>1. ProcType'
    BY <1>1, ClockAssumption DEF Tick, Cancel, ProcType
  <2> QED
    BY <1>1, <2>1 DEF Tick, Cancel, TableType, HeapType, FireType, LoopType, OpType,
                      tableVars, schedVars, fireVars
<1>2. CASE Exit \/ Crash
  BY <1>2, TypeMemoryLost DEF Exit, Crash, ProcType
<1>3. CASE Boot
  <2>1. \A s \in Subs : BuildTime(s, now) \in Nat \cup {Null}
    BY BuildTimeType DEF ProcType
  <2>2. HeapType'
    <3> DEFINE E == {<<s, BuildTime(s, now)>> : s \in {u \in Loaded : BuildTime(u, now) # Null}}
    <3>1. E \in SUBSET (Subs \X Nat)
      BY <2>1 DEF Loaded
    <3> QED
      BY <1>3, <3>1, SetIsHeap DEF Boot, HeapType, IsHeap
  <2>3. TableType'
    BY <1>3 DEF Boot, TableType, Rows
  <2>4. ProcType' /\ LoopType'
    BY <1>3 DEF Boot, ProcType, LoopType
  <2> QED
    BY <1>3, <2>2, <2>3, <2>4 DEF Boot, FireType, OpType, fireVars
<1> QED
  BY <1>1, <1>2, <1>3 DEF Process

\* Every step keeps the types, so TypeOK is inductive by itself.
LEMMA TypeNext == TypeOK /\ [Next]_vars => TypeOK'
<1> SUFFICES ASSUME TypeOK, [Next]_vars PROVE TypeOK'
  OBVIOUS
<1>1. ASSUME NEW c \in Callers, BeginSub(c) \/ BeginInst(c) \/ Step(c) PROVE TypeOK'
  BY <1>1, TypeSubRequests, TypeInstRequests, TypeSubSteps, TypeInstSteps
  DEF BeginSub, BeginInst, Step
<1>2. ASSUME NEW i \in Instances, InstanceDeath(i) PROVE TypeOK'
  BY <1>2, TypeInstanceDeath
<1>3. ASSUME NEW g \in Fires, FireSingle(g) PROVE TypeOK'
  BY <1>3, TypeFireSingle
<1>4. CASE UNCHANGED vars
  BY <1>4 DEF TypeOK, ProcType, TableType, HeapType, FireType, LoopType, OpType,
              vars, procVars, tableVars, schedVars, fireVars
<1> QED
  BY <1>1, <1>2, <1>3, <1>4, TypeRunLoop, TypeProcess DEF Next

\* Every reachable state of the scheduler is well typed: no entry without a
\* fire time is ever pushed, whatever the clients do.
THEOREM TypeCorrect == Spec => []TypeOK
BY TypeInit, TypeNext, PTL DEF Spec

(***************************************************************************)
(* The overlap guard.  NoOverlap alone is not inductive: a launch is safe  *)
(* because the running map holds every subscription in flight, and a       *)
(* fire's end is safe because it is the only one of its subscription.      *)
(***************************************************************************)
Guard == RunningExact /\ NoOverlap

\* The same goroutines are in flight, for the same subscriptions.
SameFires ==
    \A g \in Fires : /\ fire'[g] = Nil <=> fire[g] = Nil
                     /\ fire[g] # Nil => fire'[g].sub = fire[g].sub

\* A step that only moves goroutines along, and cancels only what is running.
LEMMA GuardStable ==
    ASSUME Guard, running' = running, cancelled' \subseteq running, SameFires
    PROVE  Guard'
<1>1. InFlight' = InFlight
  BY DEF InFlight, SameFires
<1>2. \A g \in InFlight : fire'[g].sub = fire[g].sub
  BY DEF InFlight, SameFires
<1> QED
  BY <1>1, <1>2 DEF Guard, RunningExact, NoOverlap

\* One goroutine moves along.
LEMMA GuardMove ==
    ASSUME TypeOK, Guard, running' = running, cancelled' = cancelled,
           NEW g \in Fires, fire[g] # Nil, NEW r \in FireRecs, r.sub = fire[g].sub,
           fire' = [fire EXCEPT ![g] = r]
    PROVE  Guard'
<1>1. r # Nil
  BY NilAssumption
<1>2. SameFires
  BY <1>1 DEF TypeOK, FireType, SameFires
<1>3. cancelled' \subseteq running
  BY DEF Guard, RunningExact
<1> QED
  BY <1>2, <1>3, GuardStable

\* fireReady launches a subscription that is not in flight.
LEMMA GuardLaunch ==
    ASSUME TypeOK, Guard, NEW g \in Fires, Launch(g)
    PROVE  Guard'
<1>1. PICK e \in Soonest :
        /\ e[1] \notin running
        /\ running' = running \cup {e[1]}
        /\ fire' = [fire EXCEPT ![g] = [sub |-> e[1], pc |-> "launch", next |-> Null,
                                        ok |-> FALSE, held |-> FALSE]]
  BY DEF Launch, MayLaunch
<1> DEFINE r == [sub |-> e[1], pc |-> "launch", next |-> Null, ok |-> FALSE, held |-> FALSE]
<1>2. r \in FireRecs /\ r # Nil
  <2>1. e[1] \in Subs
    BY DEF TypeOK, HeapType, Soonest
  <2>2. r \in FireRecs
    BY <2>1 DEF FireRecs
  <2> QED
    BY <2>2, NilAssumption
<1>3. fire[g] = Nil /\ g \notin InFlight
  BY DEF Launch, InFlight
<1>4. fire'[g] = r /\ \A h \in Fires \ {g} : fire'[h] = fire[h]
  BY <1>1 DEF TypeOK, FireType
<1>5. InFlight' = InFlight \cup {g}
  BY <1>2, <1>4 DEF InFlight
<1>6. \A h \in InFlight : fire'[h].sub = fire[h].sub /\ fire[h].sub # e[1]
  BY <1>1, <1>3, <1>4 DEF InFlight, Guard, RunningExact
<1>7. fire'[g].sub = e[1]
  BY <1>4
<1>8. NoOverlap'
  BY <1>5, <1>6, <1>7 DEF NoOverlap, Guard
<1>9. RunningExact'
  <2>1. running' = {fire'[h].sub : h \in InFlight'}
    BY <1>1, <1>5, <1>6, <1>7 DEF Guard, RunningExact
  <2>2. cancelled' \subseteq running'
    BY <1>1 DEF Launch, Guard, RunningExact
  <2> QED
    BY <2>1, <2>2 DEF RunningExact
<1> QED
  BY <1>8, <1>9 DEF Guard

\* A fire that ends takes its subscription, and only that one, out of running.
LEMMA GuardFinish ==
    ASSUME TypeOK, Guard, NEW g \in Fires, Finish(g)
    PROVE  Guard'
<1>1. fire'[g] = Nil /\ \A h \in Fires \ {g} : fire'[h] = fire[h]
  BY DEF Finish, TypeOK, FireType
<1>2. InFlight' = InFlight \ {g} /\ g \in InFlight
  BY <1>1 DEF InFlight, Finish
<1>3. \A h \in InFlight' : fire'[h].sub = fire[h].sub /\ fire[h].sub # fire[g].sub
  BY <1>1, <1>2 DEF InFlight, Guard, NoOverlap
<1>4. NoOverlap'
  BY <1>2, <1>3 DEF NoOverlap, Guard
<1>5. running' = {fire'[h].sub : h \in InFlight'}
  BY <1>2, <1>3 DEF Finish, Guard, RunningExact
<1>6. cancelled' \subseteq running'
  BY DEF Finish, Guard, RunningExact
<1> QED
  BY <1>4, <1>5, <1>6 DEF Guard, RunningExact

\* Every step of fireSingle keeps the overlap guard.
LEMMA GuardFireSingle ==
    ASSUME TypeOK, Guard, NEW g \in Fires, FireSingle(g)
    PROVE  Guard'
<1>f. fire[g] \in FireRecs /\ fire[g] # Nil
  BY DEF FireSingle, TurnBegins, TurnEnds, Record, DropOneShot, Finish, TypeOK, FireType
<1>1. CASE TurnBegins(g)
  <2> DEFINE r == [fire[g] EXCEPT !.pc = "chat", !.held = TRUE]
  <2>1. r \in FireRecs /\ r.sub = fire[g].sub
    BY <1>f DEF FireRecs
  <2>2. fire' = [fire EXCEPT ![g] = r]
    BY <1>1 DEF TurnBegins
  <2> QED
    BY <1>1, <1>f, <2>1, <2>2, GuardMove DEF TurnBegins, schedVars
<1>2. CASE TurnEnds(g)
  <2>1. PICK ok \in {FALSE, fire[g].pc = "chat"} :
          fire' = [fire EXCEPT ![g].pc = "record", ![g].ok = ok, ![g].held = FALSE,
                     ![g].next = IF Kind[fire[g].sub] = "cron"
                                 THEN CronNext(fire[g].sub, now) ELSE Null]
    BY <1>2 DEF TurnEnds
  <2> DEFINE t == IF Kind[fire[g].sub] = "cron" THEN CronNext(fire[g].sub, now) ELSE Null
             r == [fire[g] EXCEPT !.pc = "record", !.ok = ok, !.held = FALSE, !.next = t]
  <2>2. t \in Nat \cup {Null} /\ ok \in BOOLEAN
    BY <1>f, ClockAssumption DEF TypeOK, ProcType, FireRecs
  <2>3. r \in FireRecs /\ r.sub = fire[g].sub
    BY <1>f, <2>2 DEF FireRecs
  <2>4. fire' = [fire EXCEPT ![g] = r]
    BY <2>1
  <2> QED
    BY <1>2, <1>f, <2>3, <2>4, GuardMove DEF TurnEnds, schedVars
<1>3. CASE Record(g)
  <2> DEFINE p == IF Kind[fire[g].sub] = "once" /\ fire[g].ok THEN "drop" ELSE "finish"
             r == [fire[g] EXCEPT !.pc = p]
  <2>1. r \in FireRecs /\ r.sub = fire[g].sub
    BY <1>f DEF FireRecs
  <2>2. fire' = [fire EXCEPT ![g] = r]
    BY <1>3 DEF Record
  <2> QED
    BY <1>3, <1>f, <2>1, <2>2, GuardMove DEF Record, schedVars
<1>4. CASE DropOneShot(g)
  <2> DEFINE r == [fire[g] EXCEPT !.pc = "finish", !.next = Null]
  <2>1. r \in FireRecs /\ r.sub = fire[g].sub
    BY <1>f DEF FireRecs
  <2>2. fire' = [fire EXCEPT ![g] = r]
    BY <1>4 DEF DropOneShot
  <2> QED
    BY <1>4, <1>f, <2>1, <2>2, GuardMove DEF DropOneShot, schedVars
<1>5. CASE Finish(g)
  BY <1>5, GuardFinish
<1> QED
  BY <1>1, <1>2, <1>3, <1>4, <1>5 DEF FireSingle

\* Nothing is in flight in a process that has just ended.
LEMMA GuardMemoryLost ==
    ASSUME MemoryLost
    PROVE  Guard'
<1>1. InFlight' = {}
  BY DEF MemoryLost, InFlight
<1> QED
  BY <1>1 DEF MemoryLost, Guard, RunningExact, NoOverlap

\* The overlap guard holds of a server that has just started.
LEMMA GuardInit == Init => Guard
<1> SUFFICES ASSUME Init PROVE Guard
  OBVIOUS
<1>1. InFlight = {}
  BY DEF Init, InFlight
<1> QED
  BY <1>1 DEF Init, Guard, RunningExact, NoOverlap

\* With the types, the overlap guard is inductive.
LEMMA GuardNext == TypeOK /\ Guard /\ [Next]_vars => Guard'
<1> SUFFICES ASSUME TypeOK, Guard, [Next]_vars PROVE Guard'
  OBVIOUS
<1>s. fire' = fire /\ running' = running /\ cancelled' \subseteq running => Guard'
  BY GuardStable DEF SameFires
<1>c. cancelled \subseteq running
  BY DEF Guard, RunningExact
<1>1. ASSUME NEW c \in Callers, BeginSub(c) \/ BeginInst(c) PROVE Guard'
  BY <1>1, <1>s, <1>c
  DEF BeginSub, BeginInst, ScheduleRecurring, ScheduleOnce, CancelSchedule, PauseSubscription,
      ResumeSubscription, StopInstance, StartInstance, DeleteInstance, schedVars, fireVars
<1>2. ASSUME NEW c \in Callers, Step(c) PROVE Guard'
  <2>1. CASE Remove(c) \/ PauseHeap(c)
    BY <2>1, <1>s, <1>c DEF Remove, PauseHeap, fireVars
  <2>2. CASE Add(c) \/ PushBuilt(c)
    BY <2>2, <1>s, <1>c DEF Add, PushBuilt, fireVars
  <2>3. CASE Activate(c) \/ PauseRows(c) \/ DropRow(c) \/ Unregister(c) \/ Spawn(c)
             \/ StartRow(c) \/ ResumeRows(c) \/ Build(c)
    BY <2>3, <1>s, <1>c DEF Activate, PauseRows, DropRow, Unregister, Spawn, StartRow,
                            ResumeRows, Build, schedVars, fireVars
  <2> QED
    BY <1>2, <2>1, <2>2, <2>3 DEF Step
<1>3. ASSUME NEW i \in Instances, InstanceDeath(i) PROVE Guard'
  BY <1>3, <1>s, <1>c DEF InstanceDeath, schedVars, fireVars
<1>4. CASE RunLoop
  <2>1. CASE RunEval \/ RunWake \/ RunTimer \/ RunDone \/ FireReadyReturn
    BY <2>1, <1>s, <1>c DEF RunEval, RunWake, RunTimer, RunDone, FireReadyReturn,
                            schedVars, fireVars
  <2> QED
    BY <1>4, <2>1, GuardLaunch DEF RunLoop
<1>5. ASSUME NEW g \in Fires, FireSingle(g) PROVE Guard'
  BY <1>5, GuardFireSingle
<1>6. CASE Process
  <2>1. CASE Tick \/ Cancel \/ Boot
    BY <2>1, <1>s, <1>c DEF Tick, Cancel, Boot, schedVars, fireVars
  <2>2. CASE Exit \/ Crash
    <3>1. MemoryLost
      BY <2>2 DEF Exit, Crash
    <3> QED
      BY <3>1, GuardMemoryLost
  <2> QED
    BY <1>6, <2>1, <2>2 DEF Process
<1>7. CASE UNCHANGED vars
  BY <1>7, <1>s, <1>c DEF vars, schedVars, fireVars
<1> QED
  BY <1>1, <1>2, <1>3, <1>4, <1>5, <1>6, <1>7 DEF Next

\* The running map is exactly what is in flight and cancellations never outlive
\* their fire (fireReady, fireSingle, Remove, PauseInstance).
THEOREM RunningIsExact == Spec => []RunningExact
<1>1. Init => TypeOK /\ Guard
  BY TypeInit, GuardInit
<1>2. TypeOK /\ Guard /\ [Next]_vars => (TypeOK /\ Guard)'
  BY TypeNext, GuardNext
<1>3. TypeOK /\ Guard => RunningExact
  BY DEF Guard
<1> QED
  BY <1>1, <1>2, <1>3, PTL DEF Spec

\* A subscription never has two turns in flight (fireReady's overlap guard).
THEOREM NeverOverlaps == Spec => []NoOverlap
<1>1. Init => TypeOK /\ Guard
  BY TypeInit, GuardInit
<1>2. TypeOK /\ Guard /\ [Next]_vars => (TypeOK /\ Guard)'
  BY TypeNext, GuardNext
<1>3. TypeOK /\ Guard => NoOverlap
  BY DEF Guard
<1> QED
  BY <1>1, <1>2, <1>3, PTL DEF Spec

(***************************************************************************)
(* What the scheduler holds of each schedule.                              *)
(*                                                                         *)
(* The theorems of this part are about clients that wait for the answer    *)
(* before they send another request on the same instance, and about        *)
(* servers in which the two known ways to a second entry are closed: an    *)
(* active schedule is not resumed, and where instances are started again,  *)
(* none is left stopped with active schedules, by a crash, by a death or   *)
(* by a resume.                                                            *)
(***************************************************************************)

\* Requests on one instance do not overlap.
Serialized == \A c, d \in OpsUnderWay : op[c].inst = op[d].inst => c = d

RestartSafe ==
    /\ "resume_active" \notin Requests
    /\ "start" \in Requests
         => MaxCrashes = 0 /\ {"death", "resume_stopped"} \cap Requests = {}

\* The request o is about s, alone or with all schedules of its instance.
About(o, s) == o.sub = s \/ (o.sub = Nil /\ o.inst = InstOf[s])

\* The entry of s is in the heap at most once, and not while a fire will put
\* it there again.
Sane(s) ==
    /\ \A e \in Entries(s) : heap[e] = 1
    /\ \A e, f \in Entries(s) : e = f
    /\ Entries(s) # {} => ~WillReAdd(s)

\* The scheduler has nothing of s and will get nothing back.
Quiet(s) == Entries(s) = {} /\ (WillReAdd(s) => Kind[s] = "once")

\* A one-shot that was launched is out of the heap and its time has passed, so
\* that buildEntry never makes an entry of it again.
ShotOK(s) ==
    /\ s \in shots => Kind[s] = "once" /\ Entries(s) = {} /\ db[s].at <= now
    /\ Kind[s] = "once" => /\ s \in running => s \in shots
                           /\ \A e \in Entries(s) : e[2] = db[s].at

FreshOK(s) == db[s].status = "fresh" => Quiet(s) /\ s \notin running /\ s \notin shots

\* The table says that s will fire, or a fire of s is about to make it say so.
Expected(s) ==
    /\ db[s].status = "active"
    /\ db[s].next # Null \/ (s \in running /\ Kind[s] = "cron")

\* What a schedule looks like while nobody works on it.
AtRest(s) ==
    /\ db[s].status \in {"paused", "gone"} => Quiet(s)
    /\ mode = "up" /\ Expected(s) => Entries(s) # {} \/ WillReAdd(s)

RestOK(s) == Settled(s) => AtRest(s)

\* What it looks like at each step of a request.
Building(o, s) ==
    /\ db[s].status # "paused"
    /\ db[s].status = "active" => s \in o.todo \/ \E e \in o.built : e[1] = s
    /\ s \in o.todo => db[s].status = "active" \/ s \in shots
    /\ s \in shots => db[s].at <= o.at
    /\ \A e \in o.built : e[1] = s =>
         /\ s \notin o.todo /\ s \notin shots /\ db[s].status = "active"
         /\ Kind[s] = "once" => e[2] = db[s].at
         /\ \A f \in o.built : f[1] = s => e = f

StartPcs == {"unregister", "spawn", "startRow", "resumeRows", "build"}

StepOK(o, s) ==
    /\ o.pc = "add" => Quiet(s) /\ (db[s].status = "active" \/ s \in shots)
    /\ o.pc \in {"remove", "activate"} => db[s].status \in {"paused", "gone"}
    /\ o.pc \in {"pauseHeap", "dropRow"} \cup (StartPcs \ {"build"}) => db[s].status # "active"
    /\ o.pc \in {"activate", "dropRow"} \cup StartPcs => Quiet(s)
    /\ o.pc = "build" => Building(o, s)

OpOK(o) ==
    /\ o.pc \in StartPcs => "start" \in Requests
    /\ o.sub # Nil => o.inst = InstOf[o.sub]
    /\ o.pc # "build" => o.built = {}
    /\ o.at <= now
    /\ \A s \in o.todo : InstOf[s] = o.inst
    /\ \A e \in o.built : InstOf[e[1]] = o.inst
    /\ "start" \in Requests =>
         /\ o.pc \in {"activate", "startRow", "resumeRows", "build"} => inst[o.inst] = "running"
         /\ o.pc \in {"resumeRows", "build"} => instRow[o.inst] # "stopped"

\* Where instances are started again, none is stopped with an active schedule.
InstOK(i) ==
    "start" \in Requests =>
      /\ inst[i] = "running" /\ instRow[i] = "stopped"
           => \E c \in OpsUnderWay : op[c].pc = "startRow" /\ op[c].inst = i
      /\ \A s \in SubsOf(i) :
           db[s].status = "active" /\ (inst[i] = "stopped" \/ instRow[i] = "stopped")
             => \E c \in OpsUnderWay : op[c].pc = "pauseRows" /\ op[c].inst = i

FireOK(r) ==
    /\ Kind[r.sub] = "once" => r.sub \in shots /\ r.next = Null
    /\ r.pc = "drop" => Kind[r.sub] = "once"
    /\ Kind[r.sub] = "cron" /\ r.pc \in {"record", "finish"} => r.next # Null
    /\ Kind[r.sub] = "once" /\ r.pc \in {"drop", "finish"} /\ mode = "up" /\ HasRow(r.sub)
         => db[r.sub].next = Null

ProcOK ==
    /\ loop.pc = "fire" => loop.at <= now
    /\ mode = "down" => heap = EmptyBag /\ running = {} /\ OpsUnderWay = {} /\ InFlight = {}

SubOK(s) ==
    /\ Sane(s) /\ ShotOK(s) /\ FreshOK(s) /\ RestOK(s)
    /\ \A c \in OpsUnderWay : About(op[c], s) => StepOK(op[c], s)

ArmInv ==
    /\ \A s \in Subs : SubOK(s)
    /\ \A c \in OpsUnderWay : OpOK(op[c])
    /\ \A i \in Instances : InstOK(i)
    /\ \A g \in InFlight : FireOK(fire[g])
    /\ ProcOK

(***************************************************************************)
(* Effects on the entries of one schedule.                                 *)
(***************************************************************************)

\* What a step leaves of the entries of s.
SameEntries(s) == Entries(s)' = Entries(s) /\ \A e \in Entries(s) : heap'[e] = heap[e]

\* heap.Push adds the new entries of s, each once.
LEMMA PushEffect ==
    ASSUME HeapType, NEW E \in SUBSET (Subs \X Nat), heap' = heap (+) SetToBag(E), NEW s
    PROVE  /\ Entries(s)' = Entries(s) \cup {e \in E : e[1] = s}
           /\ \A e \in Entries(s)' :
                heap'[e] = (IF e \in Entries(s) THEN heap[e] ELSE 0) + (IF e \in E THEN 1 ELSE 0)
<1>1. BagToSet(heap') = BagToSet(heap) \cup E
  BY DEF (+), SetToBag, BagToSet
<1>2. \A e \in BagToSet(heap') :
        heap'[e] = (IF e \in BagToSet(heap) THEN heap[e] ELSE 0) + (IF e \in E THEN 1 ELSE 0)
  <2>1. heap' = [e \in DOMAIN heap \cup E |->
                   (IF e \in DOMAIN heap THEN heap[e] ELSE 0)
                   + (IF e \in E THEN SetToBag(E)[e] ELSE 0)]
    BY DEF (+), SetToBag
  <2>2. \A e \in E : SetToBag(E)[e] = 1
    BY DEF SetToBag
  <2> QED
    BY <2>1, <2>2 DEF BagToSet
<1> QED
  BY <1>1, <1>2 DEF Entries

\* Pushing a set of entries none of which is of s changes nothing for s.
LEMMA PushOthers ==
    ASSUME HeapType, NEW E \in SUBSET (Subs \X Nat), heap' = heap (+) SetToBag(E),
           NEW s, \A e \in E : e[1] # s
    PROVE  SameEntries(s)
<1>1. {e \in E : e[1] = s} = {}
  OBVIOUS
<1>2. Entries(s)' = Entries(s)
  BY <1>1, PushEffect
<1>3. \A e \in Entries(s) : e \notin E /\ heap[e] \in Nat
  BY DEF Entries, HeapType, IsABag, BagToSet
<1>4. \A e \in Entries(s) : heap'[e] = heap[e] + 0
  BY <1>2, <1>3, PushEffect
<1> QED
  BY <1>2, <1>3, <1>4 DEF SameEntries

\* Pushing an entry of a schedule that had none.
LEMMA PushFirst ==
    ASSUME HeapType, NEW E \in SUBSET (Subs \X Nat), heap' = heap (+) SetToBag(E),
           NEW s, Entries(s) = {}
    PROVE  Entries(s)' = {e \in E : e[1] = s} /\ \A e \in Entries(s)' : heap'[e] = 1
<1>1. Entries(s)' = {e \in E : e[1] = s}
  BY PushEffect
<1>2. \A e \in Entries(s)' : heap'[e] = 0 + 1
  BY <1>1, PushEffect
<1> QED
  BY <1>1, <1>2

\* heap.Pop and heap.Remove take one copy of one entry.
LEMMA PopEffect ==
    ASSUME HeapType, NEW x \in BagToSet(heap), heap' = heap (-) SetToBag({x})
    PROVE  /\ \A s : s # x[1] => SameEntries(s)
           /\ heap[x] = 1 => Entries(x[1])' = Entries(x[1]) \ {x}
           /\ \A e \in Entries(x[1])' : e # x => heap'[e] = heap[e]
<1> DEFINE m == [e \in DOMAIN heap |-> IF e = x THEN heap[e] - 1 ELSE heap[e]]
<1>1. heap' = [e \in {d \in DOMAIN heap : m[d] > 0} |-> m[e]]
  <2>1. SetToBag({x}) = [e \in {x} |-> 1]
    BY DEF SetToBag
  <2> QED
    BY <2>1 DEF (-)
<1>2. \A e \in DOMAIN heap : heap[e] \in Nat /\ heap[e] > 0
  BY DEF HeapType, IsABag
<1>3. \A e \in BagToSet(heap) : e # x => e \in BagToSet(heap') /\ heap'[e] = heap[e]
  BY <1>1, <1>2 DEF BagToSet
<1>4. BagToSet(heap') \subseteq BagToSet(heap)
  BY <1>1 DEF BagToSet
<1>5. heap[x] = 1 => x \notin BagToSet(heap')
  <2>1. x \in DOMAIN heap
    BY DEF BagToSet
  <2>2. heap[x] = 1 => ~(m[x] > 0)
    BY <2>1
  <2>3. DOMAIN heap' = {d \in DOMAIN heap : m[d] > 0}
    BY <1>1
  <2> QED
    BY <2>2, <2>3 DEF BagToSet
<1>6. \A s : s # x[1] => SameEntries(s)
  BY <1>3, <1>4 DEF SameEntries, Entries
<1>7. heap[x] = 1 => Entries(x[1])' = Entries(x[1]) \ {x}
  BY <1>3, <1>4, <1>5 DEF Entries
<1> QED
  BY <1>3, <1>4, <1>6, <1>7 DEF Entries

\* PauseInstance drops the entries of the instance's schedules and no others.
LEMMA FilterEffect ==
    ASSUME NEW i, heap' = [e \in {d \in BagToSet(heap) : InstOf[d[1]] # i} |-> heap[e]], NEW s
    PROVE  /\ InstOf[s] = i => Entries(s)' = {}
           /\ InstOf[s] # i => SameEntries(s)
<1>1. BagToSet(heap') = {d \in BagToSet(heap) : InstOf[d[1]] # i}
  BY DEF BagToSet
<1>2. \A e \in BagToSet(heap') : heap'[e] = heap[e]
  BY <1>1
<1> QED
  BY <1>1, <1>2 DEF Entries, SameEntries

\* A heap built at once has each entry once.
LEMMA BuiltEffect ==
    ASSUME NEW E, heap' = SetToBag(E), NEW s
    PROVE  Entries(s)' = {e \in E : e[1] = s} /\ \A e \in Entries(s)' : heap'[e] = 1
BY DEF SetToBag, BagToSet, Entries

(***************************************************************************)
(* Frames.                                                                 *)
(***************************************************************************)

\* The requests about s are where they were.
SameOps(s) ==
    \A c \in Callers :
       (op'[c] # Nil /\ About(op'[c], s)) \/ (op[c] # Nil /\ About(op[c], s))
         => op'[c] = op[c]

\* The scheduler has of s what it had.
SameHold(s) ==
    /\ SameEntries(s)
    /\ s \in running' <=> s \in running
    /\ s \in cancelled' <=> s \in cancelled
    /\ s \in shots' <=> s \in shots

\* Time only passes, and a server comes up only by Boot.
Onward == now' >= now /\ (mode' = "up" => mode = "up")

\* The row of s is the same but for a next fire that changes nothing for it.
SameRow(s) ==
    /\ db'[s].status = db[s].status /\ db'[s].at = db[s].at
    /\ mode' = "up" /\ Expected(s)' => Expected(s)

\* A step that leaves alone what the scheduler holds of s keeps it.
LEMMA HoldFrame ==
    ASSUME NEW s, SameHold(s)
    PROVE  (Sane(s) => Sane(s)') /\ (Quiet(s) => Quiet(s)')
BY DEF SameHold, SameEntries, Sane, Quiet, WillReAdd

\* So do the parts of the invariant that need no request.
LEMMA RowFrame ==
    ASSUME NEW s \in Subs, TypeOK, TypeOK', SubOK(s), SameHold(s), db'[s].at = db[s].at, now' >= now,
           db'[s].status = "fresh" => db[s].status = "fresh"
    PROVE  Sane(s)' /\ ShotOK(s)' /\ FreshOK(s)'
<1>1. Sane(s)'
  BY HoldFrame DEF SubOK
<1>2. db[s].at \in Nat /\ now \in Nat /\ now' \in Nat
  BY DEF TypeOK, TableType, Rows, ProcType
<1>3. ShotOK(s)'
  BY <1>2 DEF SubOK, ShotOK, SameHold, SameEntries
<1>4. FreshOK(s)'
  BY HoldFrame DEF SubOK, FreshOK, SameHold
<1> QED
  BY <1>1, <1>3, <1>4

\* What a request relies on stays true while the schedule is left alone.
LEMMA StepFrame ==
    ASSUME NEW s \in Subs, NEW o, StepOK(o, s), SameHold(s),
           db'[s].status = db[s].status, db'[s].at = db[s].at
    PROVE  StepOK(o, s)'
<1>1. Quiet(s) => Quiet(s)'
  BY HoldFrame
<1>2. Building(o, s) => Building(o, s)'
  BY DEF Building, SameHold
<1> QED
  BY <1>1, <1>2 DEF StepOK, SameHold

\* A step that leaves s, its row and the requests about it alone keeps all of
\* its part of the invariant.
LEMMA SubFrame ==
    ASSUME NEW s \in Subs, TypeOK, TypeOK', SubOK(s), SameOps(s), SameHold(s), SameRow(s), Onward
    PROVE  SubOK(s)'
<1>1. Sane(s)' /\ ShotOK(s)' /\ FreshOK(s)'
  BY RowFrame DEF SameRow, Onward
<1>2. Settled(s)' => Settled(s)
  BY DEF Settled, SameOps, OpsUnderWay, About
<1>3. RestOK(s)'
  <2>1. AtRest(s) => AtRest(s)'
    <3>1. Quiet(s) => Quiet(s)'
      BY HoldFrame
    <3>2. WillReAdd(s)' = WillReAdd(s)
      BY DEF SameHold, WillReAdd
    <3> QED
      BY <3>1, <3>2 DEF AtRest, SameRow, Onward, SameHold, SameEntries
  <2> QED
    BY <1>2, <2>1 DEF RestOK, SubOK
<1>4. ASSUME NEW c \in OpsUnderWay', About(op[c], s)' PROVE StepOK(op[c], s)'
  <2>1. c \in OpsUnderWay /\ op'[c] = op[c] /\ About(op[c], s)
    BY <1>4 DEF SameOps, OpsUnderWay, About
  <2>2. StepOK(op[c], s)
    BY <2>1 DEF SubOK
  <2>3. PICK o : o = op[c] /\ StepOK(o, s)
    BY <2>2
  <2>4. StepOK(o, s)'
    BY <2>3, StepFrame DEF SameRow
  <2> QED
    BY <2>1, <2>3, <2>4
<1> QED
  BY <1>1, <1>3, <1>4 DEF SubOK

(***************************************************************************)
(* Fires and the run loop.                                                 *)
(***************************************************************************)

\* What the proof of a step starts from.
ArmHyps ==
    /\ RestartSafe /\ Serialized /\ Serialized'
    /\ TypeOK /\ TypeOK' /\ Guard /\ ArmInv

\* Types in the form the steps use.
LEMMA RowTypes ==
    ASSUME TypeOK, NEW s \in Subs
    PROVE  /\ db[s].status \in {"fresh", "active", "paused", "gone"}
           /\ db[s].at \in Nat /\ now \in Nat /\ now \in 0..MaxTime
           /\ db[s].next \in Nat \cup {Null}
           /\ Kind[s] \in {"cron", "once"} /\ InstOf[s] \in Instances
BY SubsAssumption, ClockAssumption DEF TypeOK, TableType, Rows, ProcType

\* Steps that touch neither the requests nor what is held of any schedule.
LEMMA ArmQuietSteps ==
    ASSUME ArmHyps, NEW s \in Subs, UNCHANGED <<op, db, schedVars, shots>> \/
             UNCHANGED <<op, db, heap, running, cancelled, shots>>, Onward
    PROVE  SubOK(s)'
<1>1. SameHold(s)
  BY DEF SameHold, SameEntries, Entries, schedVars
<1>2. SameOps(s)
  BY DEF SameOps
<1>3. SameRow(s)
  BY DEF SameRow, Expected, schedVars
<1> QED
  BY <1>1, <1>2, <1>3, SubFrame DEF ArmHyps, ArmInv

\* A launch takes the only entry of a schedule that no request has quieted.
LEMMA ArmLaunch ==
    ASSUME ArmHyps, NEW g \in Fires, Launch(g), NEW s \in Subs
    PROVE  SubOK(s)'
<1>1. PICK e \in Soonest :
        /\ e[2] <= loop.at /\ e[1] \notin running
        /\ heap' = heap (-) SetToBag({e})
        /\ running' = running \cup {e[1]}
        /\ shots' = shots \cup (IF Kind[e[1]] = "once" THEN {e[1]} ELSE {})
  BY DEF Launch, MayLaunch
<1>2. e \in BagToSet(heap) /\ e[1] \in Subs /\ e[2] \in Nat
  BY DEF Soonest, ArmHyps, TypeOK, HeapType
<1>3. SubOK(s) /\ cancelled \subseteq running /\ cancelled' = cancelled /\ db' = db /\ op' = op
      /\ now' = now /\ mode' = mode
  BY DEF ArmHyps, ArmInv, Guard, RunningExact, Launch, tableVars, procVars
<1>4. HeapType
  BY DEF ArmHyps, TypeOK
<1>5. CASE s # e[1]
  <2>1. SameEntries(s)
    BY <1>1, <1>2, <1>4, <1>5, PopEffect
  <2>2. SameHold(s)
    BY <1>1, <1>3, <1>5, <2>1 DEF SameHold
  <2>3. SameRow(s) /\ SameOps(s) /\ Onward
    BY <1>1, <1>3, <1>5, RowTypes DEF SameRow, SameOps, Expected, Onward, ArmHyps
  <2> QED
    BY <2>2, <2>3, <1>3, SubFrame DEF ArmHyps
<1>6. CASE s = e[1]
  <2>1. e \in Entries(s) /\ heap[e] = 1 /\ Entries(s) = {e}
    BY <1>2, <1>3, <1>6 DEF Entries, SubOK, Sane
  <2>2. Entries(s)' = {}
    BY <2>1, <1>1, <1>2, <1>4, <1>6, PopEffect
  <2>3. ~Quiet(s) /\ db[s].status # "fresh" /\ s \notin shots
    BY <2>1, <1>3 DEF Quiet, SubOK, FreshOK, ShotOK
  <2>4. WillReAdd(s)'
    BY <1>1, <1>3, <1>6 DEF WillReAdd
  <2>5. Sane(s)'
    BY <2>2 DEF Sane
  <2>6. ShotOK(s)'
    <3>1. loop.at <= now /\ loop.at \in Nat /\ now \in Nat /\ db[s].at \in Nat
      BY RowTypes DEF Launch, ArmHyps, ArmInv, ProcOK, TypeOK, LoopType
    <3>2. Kind[s] = "once" => e[2] = db[s].at
      BY <2>1, <1>3 DEF SubOK, ShotOK
    <3>3. Kind[s] = "once" => db[s].at <= now
      BY <3>1, <3>2, <1>1, <1>2
    <3> QED
      BY <3>3, <2>2, <2>3, <1>1, <1>3, <1>6 DEF ShotOK
  <2>7. FreshOK(s)'
    BY <2>3, <1>3 DEF FreshOK
  <2>8. RestOK(s)'
    <3>1. Settled(s)' = Settled(s)
      BY <1>3 DEF Settled, OpsUnderWay
    <3>2. AtRest(s) => AtRest(s)'
      BY <2>3, <2>4, <1>3 DEF AtRest
    <3> QED
      BY <3>1, <3>2, <1>3 DEF RestOK, SubOK
  <2>9. ASSUME NEW c \in OpsUnderWay', About(op[c], s)' PROVE StepOK(op[c], s)'
    <3>1. StepOK(op[c], s)
      BY <2>9, <1>3 DEF SubOK, About, OpsUnderWay
    <3>2. op[c].pc \notin {"add", "activate", "dropRow"} \cup StartPcs
      BY <3>1, <2>3 DEF StepOK
    <3> QED
      BY <3>1, <3>2, <1>3 DEF StepOK, StartPcs
  <2> QED
    BY <2>5, <2>6, <2>7, <2>8, <2>9 DEF SubOK
<1> QED
  BY <1>5, <1>6

\* UpdateSubscriptionFired makes an active schedule due again only while its
\* fire is out.
LEMMA ArmRecord ==
    ASSUME ArmHyps, NEW g \in Fires, Record(g), NEW s \in Subs
    PROVE  SubOK(s)'
<1> DEFINE u == fire[g].sub
<1>1. g \in InFlight /\ FireOK(fire[g]) /\ u \in Subs /\ u \in running
      /\ fire[g].next \in Nat \cup {Null}
  BY DEF Record, InFlight, ArmHyps, ArmInv, TypeOK, FireType, FireRecs, Guard, RunningExact
<1>2. db' = db \/ (HasRow(u) /\ db' = [db EXCEPT ![u].next = fire[g].next])
  BY DEF Record, SetNext
<1>3. db \in [Subs -> Rows]
  BY DEF ArmHyps, TypeOK, TableType
<1>4. db'[s].status = db[s].status /\ db'[s].at = db[s].at
      /\ (db'[s].next = db[s].next \/ (s = u /\ db'[s].next = fire[g].next))
  BY <1>1, <1>2, <1>3 DEF Rows
<1>5. UNCHANGED <<now, mode, heap, running, cancelled, shots, op>>
  BY DEF Record, procVars, schedVars
<1>6. SameRow(s)
  <2>1. Expected(s)' => Expected(s)
    <3>1. s = u /\ Kind[s] = "once" => fire[g].next = Null
      BY <1>1 DEF FireOK
    <3>2. s = u => s \in running
      BY <1>1
    <3>3. Kind[s] \in {"cron", "once"}
      BY SubsAssumption
    <3> QED
      BY <1>4, <1>5, <3>1, <3>2, <3>3 DEF Expected
  <2> QED
    BY <2>1, <1>4 DEF SameRow
<1>7. SameHold(s) /\ SameOps(s) /\ Onward
  BY <1>5, RowTypes DEF SameHold, SameEntries, Entries, SameOps, Onward, ArmHyps
<1> QED
  BY <1>6, <1>7, SubFrame DEF ArmHyps, ArmInv

\* The row of a one-shot that fired goes; whoever works on it will find its
\* time passed.
LEMMA ArmDropOneShot ==
    ASSUME ArmHyps, NEW g \in Fires, DropOneShot(g), NEW s \in Subs
    PROVE  SubOK(s)'
<1> DEFINE u == fire[g].sub
<1>1. g \in InFlight /\ FireOK(fire[g]) /\ u \in Subs /\ Kind[u] = "once" /\ u \in shots
  BY DEF DropOneShot, InFlight, ArmHyps, ArmInv, TypeOK, FireType, FireRecs, FireOK
<1>2. db' = db \/ (HasRow(u) /\ db' = [db EXCEPT ![u].status = "gone", ![u].next = Null])
  BY DEF DropOneShot, DeleteSubscription
<1>3. db \in [Subs -> Rows]
  BY DEF ArmHyps, TypeOK, TableType
<1>4. UNCHANGED <<now, mode, heap, running, cancelled, shots, op>>
  BY DEF DropOneShot, procVars, schedVars
<1>5. SameHold(s) /\ SameOps(s) /\ Onward /\ SubOK(s)
  BY <1>4, RowTypes DEF SameHold, SameEntries, Entries, SameOps, Onward, ArmHyps, ArmInv
<1>6. CASE db'[s] = db[s]
  <2>1. SameRow(s)
    BY <1>4, <1>6 DEF SameRow, Expected
  <2> QED
    BY <1>5, <2>1, SubFrame DEF ArmHyps
<1>7. CASE db'[s] # db[s]
  <2>1. s = u /\ db'[s].status = "gone" /\ db'[s].at = db[s].at
    BY <1>1, <1>2, <1>3, <1>7 DEF Rows
  <2>2. Sane(s)' /\ ShotOK(s)' /\ FreshOK(s)'
    BY <1>5, <2>1, RowFrame DEF Onward, ArmHyps
  <2>3. Quiet(s) /\ Quiet(s)'
    <3>1. Quiet(s)
      BY <1>1, <1>5, <2>1 DEF SubOK, ShotOK, Quiet
    <3> QED
      BY <1>5, <3>1, HoldFrame
  <2>4. RestOK(s)'
    BY <2>1, <2>3 DEF RestOK, AtRest, Expected
  <2>5. ASSUME NEW c \in OpsUnderWay', About(op[c], s)' PROVE StepOK(op[c], s)'
    <3>1. StepOK(op[c], s)
      BY <2>5, <1>4, <1>5 DEF SubOK, About, OpsUnderWay
    <3>2. op'[c] = op[c] /\ s \in shots' /\ s \in shots
      BY <1>1, <1>4, <2>1
    <3>3. Building(op[c], s) => Building(op[c], s)'
      BY <3>2, <2>1 DEF Building
    <3> QED
      BY <3>1, <3>2, <3>3, <2>1, <2>3 DEF StepOK
  <2> QED
    BY <2>2, <2>4, <2>5 DEF SubOK
<1> QED
  BY <1>6, <1>7

\* A fire that ends puts the entry back, or is cancelled and leaves what others
\* added, or was a one-shot's, whose row expects no more.
LEMMA ArmFinish ==
    ASSUME ArmHyps, NEW g \in Fires, Finish(g), NEW s \in Subs
    PROVE  SubOK(s)'
<1> DEFINE u == fire[g].sub
<1>1. g \in InFlight /\ FireOK(fire[g]) /\ u \in Subs /\ u \in running
      /\ fire[g].next \in Nat \cup {Null} /\ fire[g].pc = "finish"
  BY DEF Finish, InFlight, ArmHyps, ArmInv, TypeOK, FireType, FireRecs, Guard, RunningExact
<1>2. UNCHANGED <<now, mode, db, shots, op>>
  BY DEF Finish, procVars, tableVars
<1>3. running' = running \ {u} /\ cancelled' = cancelled \ {u}
  BY DEF Finish
<1>4. SubOK(s) /\ HeapType /\ Kind[s] \in {"cron", "once"}
  BY SubsAssumption DEF ArmHyps, ArmInv, TypeOK
<1>5. heap' = heap \/ (MayReAdd(g) /\ heap' = heap (+) SetToBag({<<u, fire[g].next>>}))
  BY DEF Finish
<1>6. MayReAdd(g) => fire[g].next \in Nat
  BY <1>1 DEF MayReAdd
<1>7. CASE s # u
  <2>1. SameEntries(s)
    <3>1. CASE heap' = heap
      BY <3>1 DEF SameEntries, Entries
    <3>2. CASE MayReAdd(g) /\ heap' = heap (+) SetToBag({<<u, fire[g].next>>})
      <4> DEFINE E == {<<u, fire[g].next>>}
      <4>1. E \in SUBSET (Subs \X Nat)
        BY <1>1, <1>6, <3>2
      <4>2. \A e \in E : e[1] # s
        BY <1>7
      <4> QED
        BY <1>4, <3>2, <4>1, <4>2, PushOthers
    <3> QED
      BY <1>5, <3>1, <3>2
  <2>2. SameHold(s)
    BY <1>2, <1>3, <1>7, <2>1 DEF SameHold
  <2>3. SameRow(s) /\ SameOps(s) /\ Onward
    BY <1>2, <1>3, <1>7, RowTypes DEF SameRow, SameOps, Expected, Onward, ArmHyps
  <2> QED
    BY <2>2, <2>3, <1>4, SubFrame DEF ArmHyps
<1>8. CASE s = u /\ MayReAdd(g)
  <2>1. Kind[s] = "cron" /\ WillReAdd(s) /\ Entries(s) = {} /\ ~Quiet(s)
    BY <1>1, <1>4, <1>8 DEF MayReAdd, FireOK, WillReAdd, SubOK, Sane, Quiet
  <2>2. heap' = heap (+) SetToBag({<<s, fire[g].next>>})
    BY <1>8 DEF Finish
  <2> DEFINE x == <<s, fire[g].next>>
  <2>3. Entries(s)' = {x} /\ heap'[x] = 1
    <3>1. {x} \in SUBSET (Subs \X Nat) /\ x[1] = s
      BY <1>6, <1>8
    <3> HIDE DEF x
    <3>2. {e \in {x} : e[1] = s} = {x}
      BY <3>1
    <3> QED
      BY <1>4, <2>1, <2>2, <3>1, <3>2, PushFirst DEF x
  <2>4. s \notin shots /\ db[s].status # "fresh"
    BY <2>1, <1>1, <1>4, <1>8 DEF SubOK, ShotOK, FreshOK
  <2>5. ~WillReAdd(s)'
    BY <1>3, <1>8 DEF WillReAdd
  <2>6. Sane(s)' /\ ShotOK(s)' /\ FreshOK(s)'
    BY <2>1, <2>3, <2>4, <2>5, <1>2 DEF Sane, ShotOK, FreshOK
  <2>7. RestOK(s)'
    <3>1. Settled(s)' = Settled(s)
      BY <1>2 DEF Settled, OpsUnderWay
    <3>2. AtRest(s) => AtRest(s)'
      BY <2>1, <2>3, <1>2 DEF AtRest
    <3> QED
      BY <3>1, <3>2, <1>4 DEF RestOK, SubOK
  <2>8. ASSUME NEW c \in OpsUnderWay', About(op[c], s)' PROVE StepOK(op[c], s)'
    <3>1. StepOK(op[c], s)
      BY <2>8, <1>2, <1>4 DEF SubOK, About, OpsUnderWay
    <3>2. op[c].pc \notin {"add", "activate", "dropRow"} \cup StartPcs
      BY <3>1, <2>1 DEF StepOK
    <3> QED
      BY <3>1, <3>2, <1>2 DEF StepOK, StartPcs
  <2> QED
    BY <2>6, <2>7, <2>8 DEF SubOK
<1>9. CASE s = u /\ ~MayReAdd(g)
  <2>1. heap' = heap
    BY <1>9 DEF Finish
  <2>2. SameEntries(s) /\ ~WillReAdd(s)'
    BY <2>1, <1>3, <1>9 DEF SameEntries, Entries, WillReAdd
  <2>3. Quiet(s) => Quiet(s)'
    BY <2>2 DEF Quiet, SameEntries
  <2>4. Sane(s)' /\ ShotOK(s)' /\ FreshOK(s)'
    BY <2>2, <2>3, <1>2, <1>3, <1>4 DEF Sane, ShotOK, FreshOK, SubOK, SameEntries
  <2>5. RestOK(s)'
    <3>1. Settled(s)' = Settled(s)
      BY <1>2 DEF Settled, OpsUnderWay
    <3>2. ASSUME AtRest(s), mode = "up", Expected(s)' PROVE Entries(s)' # {}
      <4>1. HasRow(s) /\ db[s].next # Null /\ Expected(s)
        BY <3>2, <1>2, <1>3, <1>9 DEF Expected, HasRow
      <4>2. Kind[s] = "cron"
        BY <4>1, <3>2, <1>1, <1>4, <1>9 DEF FireOK
      <4>3. s \in cancelled
        BY <4>2, <1>1, <1>9 DEF FireOK, MayReAdd
      <4> QED
        BY <4>1, <4>3, <3>2, <2>2 DEF AtRest, WillReAdd, SameEntries
    <3>3. AtRest(s) => AtRest(s)'
      BY <3>2, <2>3, <1>2 DEF AtRest
    <3> QED
      BY <3>1, <3>3, <1>4 DEF RestOK, SubOK
  <2>6. ASSUME NEW c \in OpsUnderWay', About(op[c], s)' PROVE StepOK(op[c], s)'
    <3>1. StepOK(op[c], s)
      BY <2>6, <1>2, <1>4 DEF SubOK, About, OpsUnderWay
    <3>2. Building(op[c], s) => Building(op[c], s)'
      BY <1>2 DEF Building
    <3> QED
      BY <3>1, <3>2, <2>3, <1>2 DEF StepOK
  <2> QED
    BY <2>4, <2>5, <2>6 DEF SubOK
<1> QED
  BY <1>7, <1>8, <1>9

(***************************************************************************)
(* Requests.                                                               *)
(***************************************************************************)

\* A request that continues keeps all of its fields but the place.
LEMMA ContinueFields ==
    ASSUME OpType, NEW c \in Callers, op[c] # Nil,
           NEW pc,
           \/ op[c] \in SubOps /\ pc = "add"
           \/ op[c] \in InstOps /\ pc \in {"pauseHeap", "dropRow", "spawn", "startRow", "resumeRows"},
           Continue(c, pc)
    PROVE  /\ op'[c] # Nil /\ op'[c].pc = pc
           /\ op'[c].kind = op[c].kind /\ op'[c].sub = op[c].sub /\ op'[c].inst = op[c].inst
           /\ op'[c].at = op[c].at /\ op'[c].todo = op[c].todo /\ op'[c].built = op[c].built
           /\ \A d \in Callers \ {c} : op'[d] = op[d]
<1> DEFINE r == [op[c] EXCEPT !.pc = pc]
<1>1. r \in SubOps \cup InstOps
  BY DEF SubOps, InstOps
<1>2. op'[c] = r /\ \A d \in Callers \ {c} : op'[d] = op[d]
  BY DEF Continue, OpType
<1>3. /\ r.pc = pc /\ r.kind = op[c].kind /\ r.sub = op[c].sub /\ r.inst = op[c].inst
      /\ r.at = op[c].at /\ r.todo = op[c].todo /\ r.built = op[c].built
  BY DEF SubOps, InstOps
<1> QED
  BY <1>1, <1>2, <1>3, NilAssumption

\* What a request that begins looks like.
LEMMA BeginFields ==
    ASSUME OpType, NEW c \in Callers, NEW k, NEW pc, NEW u, NEW i \in Instances,
           \/ k \in SubRequests /\ pc \in {"add", "remove", "activate"} /\ u \in Subs
           \/ k \in InstRequests /\ pc \in {"pauseRows", "unregister"} /\ u = Nil,
           Begin(c, Request(k, pc, u, i))
    PROVE  /\ op'[c] # Nil /\ op'[c].pc = pc /\ op'[c].kind = k /\ op'[c].sub = u /\ op'[c].inst = i
           /\ op'[c].at = 0 /\ op'[c].todo = {} /\ op'[c].built = {}
           /\ \A d \in Callers \ {c} : op'[d] = op[d]
<1>1. Request(k, pc, u, i) \in SubOps \cup InstOps
  BY RequestType
<1>2. op'[c] = Request(k, pc, u, i) /\ \A d \in Callers \ {c} : op'[d] = op[d]
  BY DEF Begin, OpType
<1> QED
  BY <1>1, <1>2, NilAssumption DEF Request

\* A request that returns is gone.
LEMMA ReturnFields ==
    ASSUME OpType, NEW c \in Callers, Return(c)
    PROVE  op'[c] = Nil /\ \A d \in Callers \ {c} : op'[d] = op[d]
BY DEF OpType, Return

\* A request about s is on the instance of s.
LEMMA AboutInst ==
    ASSUME ArmHyps, NEW d \in OpsUnderWay, NEW s \in Subs, About(op[d], s)
    PROVE  op[d].inst = InstOf[s]
BY NilAssumption DEF ArmHyps, ArmInv, OpOK, About

\* Nobody else works on a schedule that a request is about.
LEMMA StepContext ==
    ASSUME ArmHyps, NEW c \in Callers, op[c] # Nil, NEW s \in Subs, About(op[c], s)
    PROVE  /\ \A d \in OpsUnderWay \ {c} : ~About(op[d], s)
           /\ StepOK(op[c], s) /\ SubOK(s) /\ op[c].inst = InstOf[s]
<1>1. c \in OpsUnderWay
  BY DEF OpsUnderWay
<1>2. op[c].inst = InstOf[s]
  BY <1>1, AboutInst
<1>3. \A d \in OpsUnderWay \ {c} : ~About(op[d], s)
  BY <1>1, <1>2, AboutInst DEF ArmHyps, Serialized
<1> QED
  BY <1>1, <1>2, <1>3 DEF ArmHyps, ArmInv, SubOK

\* Nobody worked on the instance of a request that begins.
LEMMA BeginContext ==
    ASSUME ArmHyps, NEW c \in Callers, op[c] = Nil, op'[c] # Nil, NEW s \in Subs,
           op'[c].inst = InstOf[s], \A d \in Callers \ {c} : op'[d] = op[d]
    PROVE  /\ \A d \in OpsUnderWay : op[d].inst # InstOf[s]
           /\ \A d \in OpsUnderWay \ {c} : ~About(op[d], s)
           /\ Settled(s) /\ AtRest(s) /\ SubOK(s)
<1>1. \A d \in OpsUnderWay : op[d].inst # InstOf[s]
  <2> SUFFICES ASSUME NEW d \in OpsUnderWay, op[d].inst = InstOf[s] PROVE FALSE
    OBVIOUS
  <2>1. d # c /\ d \in OpsUnderWay' /\ c \in OpsUnderWay'
    BY DEF OpsUnderWay
  <2>2. op'[d].inst = op'[c].inst
    BY <2>1 DEF OpsUnderWay
  <2> QED
    BY <2>1, <2>2 DEF ArmHyps, Serialized
<1>2. \A d \in OpsUnderWay : ~About(op[d], s)
  BY <1>1, AboutInst
<1>3. Settled(s)
  BY <1>2 DEF Settled, About
<1> QED
  BY <1>1, <1>2, <1>3 DEF ArmHyps, ArmInv, SubOK, RestOK

\* What to show of a schedule that a request works on.
LEMMA SubByOp ==
    ASSUME NEW s \in Subs, NEW c \in Callers, \A d \in Callers \ {c} : op'[d] = op[d],
           \A d \in OpsUnderWay \ {c} : ~About(op[d], s),
           Sane(s)', ShotOK(s)', FreshOK(s)',
           op'[c] # Nil /\ About(op'[c], s) => StepOK(op[c], s)',
           op'[c] = Nil => AtRest(s)', op'[c] # Nil => About(op'[c], s)
    PROVE  SubOK(s)'
<1>1. \A d \in OpsUnderWay' : About(op[d], s)' => d = c
  BY DEF OpsUnderWay, About
<1>2. RestOK(s)'
  BY DEF RestOK, Settled, OpsUnderWay, About
<1> QED
  BY <1>1, <1>2 DEF SubOK, OpsUnderWay

\* Other schedules see nothing of a request's step on its tables and heap.
LEMMA SubByOther ==
    ASSUME ArmHyps, NEW s \in Subs, NEW c \in Callers, \A d \in Callers \ {c} : op'[d] = op[d],
           op[c] # Nil => ~About(op[c], s), op'[c] # Nil => ~About(op'[c], s),
           SameHold(s), db'[s] = db[s], now' = now, mode' = mode
    PROVE  SubOK(s)'
<1>1. SameOps(s)
  BY DEF SameOps
<1>2. SameRow(s) /\ Onward
  BY RowTypes DEF SameRow, Onward, Expected, SameHold, ArmHyps
<1> QED
  BY <1>1, <1>2, SubFrame DEF ArmHyps, ArmInv

\* schedule_recurring and schedule_once: a fresh schedule is nowhere.
LEMMA ArmSchedule ==
    ASSUME ArmHyps, NEW c \in Callers, NEW u \in Subs,
           ScheduleRecurring(c, u) \/ ScheduleOnce(c, u), NEW s \in Subs
    PROVE  SubOK(s)'
<1>1. op[c] = Nil /\ Begin(c, Request("schedule", "add", u, InstOf[u])) /\ db[u].status = "fresh"
      /\ UNCHANGED <<now, mode, instRow, inst, schedVars, fireVars, loop>>
  BY DEF ScheduleRecurring, ScheduleOnce, MayBegin
<1>2. db'[u].status = "active" /\ \A v \in Subs \ {u} : db'[v] = db[v]
  <2>1. db \in [Subs -> Rows]
    BY DEF ArmHyps, TypeOK, TableType
  <2>2. CASE ScheduleRecurring(c, u)
    BY <2>1, <2>2 DEF ScheduleRecurring
  <2>3. CASE ScheduleOnce(c, u)
    <3>1. PICK t : db' = [db EXCEPT ![u] = [status |-> "active", next |-> t, at |-> Trunc(t)]]
      BY <2>3 DEF ScheduleOnce
    <3> QED
      BY <2>1, <3>1
  <2> QED
    BY <2>2, <2>3
<1>3. /\ op'[c] # Nil /\ op'[c].pc = "add" /\ op'[c].sub = u /\ op'[c].inst = InstOf[u]
      /\ \A d \in Callers \ {c} : op'[d] = op[d]
  <2>1. InstOf[u] \in Instances /\ "schedule" \in SubRequests /\ OpType
    BY SubsAssumption DEF SubRequests, ArmHyps, TypeOK
  <2> QED
    BY <1>1, <2>1, BeginFields
<1>4. \A v : SameHold(v)
  BY <1>1 DEF SameHold, SameEntries, Entries, schedVars, fireVars
<1>5. CASE s # u
  <2>1. ~About(op'[c], s)
    BY <1>3, <1>5, NilAssumption DEF About
  <2> QED
    BY <1>1, <1>2, <1>3, <1>4, <1>5, <2>1, SubByOther
<1>6. CASE s = u
  <2>1. SubOK(s) /\ \A d \in OpsUnderWay \ {c} : ~About(op[d], s)
    BY <1>1, <1>3, <1>6, BeginContext
  <2>2. Quiet(s) /\ s \notin running /\ s \notin shots
    BY <1>1, <1>6, <2>1 DEF SubOK, FreshOK
  <2>3. Quiet(s)' /\ Sane(s)' /\ s \notin running' /\ s \notin shots'
    BY <1>4, <2>1, <2>2, HoldFrame DEF SameHold, SubOK
  <2>4. ShotOK(s)' /\ FreshOK(s)'
    BY <2>3 DEF ShotOK, FreshOK, Quiet
  <2>5. StepOK(op[c], s)'
    BY <1>2, <1>3, <1>6, <2>3 DEF StepOK, StartPcs
  <2>6. About(op'[c], s)
    BY <1>3, <1>6 DEF About
  <2> QED
    BY <1>3, <2>1, <2>3, <2>4, <2>5, <2>6, SubByOp
<1> QED
  BY <1>5, <1>6

\* Cancelling, pausing and resuming: the table first, the scheduler later.
LEMMA ArmSubRequest ==
    ASSUME ArmHyps, NEW c \in Callers, NEW u \in Subs,
           CancelSchedule(c, u) \/ PauseSubscription(c, u) \/ ResumeSubscription(c, u), NEW s \in Subs
    PROVE  SubOK(s)'
<1>0. op[c] = Nil /\ HasRow(u) /\ UNCHANGED <<now, mode, instRow, inst, schedVars, fireVars, loop>>
  BY DEF CancelSchedule, PauseSubscription, ResumeSubscription, MayBegin, tableVars
<1>d. db \in [Subs -> Rows] /\ OpType /\ InstOf[u] \in Instances
  BY SubsAssumption DEF ArmHyps, TypeOK, TableType
<1>1. PICK k \in SubRequests, pc \in {"remove", "activate"} :
         /\ Begin(c, Request(k, pc, u, InstOf[u]))
         /\ pc = "activate" => ResumeSubscription(c, u)
         /\ pc = "remove" => CancelSchedule(c, u) \/ PauseSubscription(c, u)
  BY DEF CancelSchedule, PauseSubscription, ResumeSubscription, ResumeClass, SubRequests
<1>2. /\ op'[c] # Nil /\ op'[c].pc = pc /\ op'[c].sub = u /\ op'[c].inst = InstOf[u]
      /\ \A d \in Callers \ {c} : op'[d] = op[d]
  BY <1>1, <1>d, BeginFields
<1>3. \A v \in Subs : v # u => db'[v] = db[v]
  BY <1>d DEF CancelSchedule, PauseSubscription, ResumeSubscription, DeleteSubscription, tableVars
<1>4. db'[u].at = db[u].at /\ db'[u].status # "fresh"
  <2>1. CASE CancelSchedule(c, u)
    BY <1>0, <1>d, <2>1 DEF CancelSchedule, DeleteSubscription, Rows
  <2>2. CASE PauseSubscription(c, u)
    BY <1>d, <2>2 DEF PauseSubscription, Rows
  <2>3. CASE ResumeSubscription(c, u)
    BY <1>0, <2>3 DEF ResumeSubscription, tableVars, HasRow
  <2> QED
    BY <2>1, <2>2, <2>3
<1>5. \A v : SameHold(v)
  BY <1>0 DEF SameHold, SameEntries, Entries, schedVars, fireVars
<1>6. CASE s # u
  <2>1. ~About(op'[c], s)
    BY <1>2, <1>6, NilAssumption DEF About
  <2> QED
    BY <1>0, <1>2, <1>3, <1>5, <1>6, <2>1, SubByOther
<1>7. CASE s = u
  <2>1. SubOK(s) /\ AtRest(s) /\ \A d \in OpsUnderWay \ {c} : ~About(op[d], s)
    BY <1>0, <1>2, <1>7, BeginContext
  <2>2. now' >= now
    BY <1>0, RowTypes DEF ArmHyps
  <2>3. Sane(s)' /\ ShotOK(s)' /\ FreshOK(s)'
    BY <1>4, <1>5, <1>7, <2>1, <2>2, RowFrame DEF ArmHyps
  <2>4. StepOK(op[c], s)'
    <3>1. CASE pc = "remove"
      <4>1. db'[s].status \in {"paused", "gone"}
        BY <1>0, <1>1, <1>d, <1>7, <3>1
        DEF CancelSchedule, PauseSubscription, DeleteSubscription, Rows
      <4> QED
        BY <1>2, <3>1, <4>1 DEF StepOK, StartPcs
    <3>2. CASE pc = "activate"
      <4>1. db' = db /\ ResumeClass(s) \in Requests
        BY <1>1, <1>7, <3>2 DEF ResumeSubscription, MayBegin, tableVars
      <4>2. db[s].status = "paused"
        BY <1>0, <1>7, <4>1 DEF ResumeClass, ArmHyps, RestartSafe, HasRow
      <4>3. Quiet(s)'
        BY <4>2, <2>1, <1>5, HoldFrame DEF AtRest
      <4> QED
        BY <1>2, <3>2, <4>1, <4>2, <4>3 DEF StepOK, StartPcs
    <3> QED
      BY <3>1, <3>2
  <2>5. About(op'[c], s)
    BY <1>2, <1>7 DEF About
  <2> QED
    BY <1>2, <2>1, <2>3, <2>4, <2>5, SubByOp
<1> QED
  BY <1>6, <1>7

\* StopInstance, DeleteInstance and StartInstance concern every schedule of the
\* instance; a start finds none of them active.
LEMMA ArmInstRequest ==
    ASSUME ArmHyps, NEW c \in Callers, NEW i \in Instances,
           StopInstance(c, i) \/ DeleteInstance(c, i) \/ StartInstance(c, i), NEW s \in Subs
    PROVE  SubOK(s)'
<1>1. op[c] = Nil /\ UNCHANGED <<now, mode, db, schedVars, fireVars, loop>>
  BY DEF StopInstance, DeleteInstance, StartInstance, MayBegin, tableVars
<1>2. PICK k \in InstRequests, pc \in {"pauseRows", "unregister"} :
         /\ Begin(c, Request(k, pc, Nil, i))
         /\ pc = "unregister" => StartInstance(c, i)
  BY DEF StopInstance, DeleteInstance, StartInstance, InstRequests
<1>3. /\ op'[c] # Nil /\ op'[c].pc = pc /\ op'[c].sub = Nil /\ op'[c].inst = i
      /\ \A d \in Callers \ {c} : op'[d] = op[d]
  <2>1. OpType
    BY DEF ArmHyps, TypeOK
  <2> QED
    BY <1>2, <2>1, BeginFields
<1>4. \A v : SameHold(v)
  BY <1>1 DEF SameHold, SameEntries, Entries, schedVars, fireVars
<1>5. CASE InstOf[s] # i
  <2>1. ~About(op'[c], s)
    BY <1>3, <1>5, NilAssumption DEF About
  <2> QED
    BY <1>1, <1>3, <1>4, <2>1, SubByOther
<1>6. CASE InstOf[s] = i
  <2>1. SubOK(s) /\ AtRest(s) /\ (\A d \in OpsUnderWay \ {c} : ~About(op[d], s))
        /\ \A d \in OpsUnderWay : op[d].inst # i
    BY <1>1, <1>3, <1>6, BeginContext
  <2>2. Sane(s)' /\ ShotOK(s)' /\ FreshOK(s)'
    <3>1. now' >= now
      BY <1>1, RowTypes DEF ArmHyps
    <3> QED
      BY <1>1, <1>4, <2>1, <3>1, RowFrame DEF ArmHyps
  <2>3. StepOK(op[c], s)'
    <3>1. CASE pc = "pauseRows"
      BY <1>3, <3>1 DEF StepOK, StartPcs
    <3>2. CASE pc = "unregister"
      <4>1. inst[i] = "stopped" /\ "start" \in Requests
        BY <1>2, <3>2 DEF StartInstance, MayBegin
      <4>2. db[s].status # "active"
        BY <4>1, <2>1, <1>6 DEF ArmHyps, ArmInv, InstOK, SubsOf
      <4>3. Quiet(s)
        BY <4>2, <2>1, RowTypes DEF AtRest, SubOK, FreshOK, ArmHyps
      <4>4. Quiet(s)'
        BY <4>3, <1>4, HoldFrame
      <4> QED
        BY <1>1, <1>3, <3>2, <4>2, <4>4 DEF StepOK, StartPcs
    <3> QED
      BY <3>1, <3>2
  <2>4. About(op'[c], s)
    BY <1>3, <1>6 DEF About
  <2> QED
    BY <1>3, <2>1, <2>2, <2>3, <2>4, SubByOp
<1> QED
  BY <1>5, <1>6

\* The requests on one schedule have a schedule, the others an instance.
LEMMA OpShape ==
    ASSUME ArmHyps, NEW c \in Callers, op[c] # Nil
    PROVE  /\ op[c].pc \in {"add", "remove", "activate"} =>
                op[c].sub \in Subs /\ op[c] \in SubOps /\ \A s \in Subs : About(op[c], s) <=> s = op[c].sub
           /\ op[c].pc \notin {"add", "remove", "activate"} =>
                op[c].sub = Nil /\ op[c] \in InstOps /\ \A s \in Subs : About(op[c], s) <=> InstOf[s] = op[c].inst
           /\ OpType /\ op[c].inst \in Instances
<1>1. OpType
  BY DEF ArmHyps, TypeOK
<1>2. op[c] \in SubOps => op[c].sub \in Subs /\ op[c].inst \in Instances
  BY DEF SubOps
<1>3. op[c] \in InstOps => op[c].sub = Nil /\ op[c].inst \in Instances
  BY DEF InstOps
<1> QED
  BY <1>1, <1>2, <1>3, OpFields, NilAssumption DEF About

\* Scheduler.Add arms a schedule of which nothing is held, or deletes a
\* one-shot that is too late.
LEMMA ArmAdd ==
    ASSUME ArmHyps, NEW c \in Callers, Add(c), NEW s \in Subs
    PROVE  SubOK(s)'
<1> DEFINE u == op[c].sub
           t == BuildTime(u, now)
<1>1. op[c] # Nil /\ op[c].pc = "add" /\ Return(c)
      /\ UNCHANGED <<now, mode, instRow, inst, running, cancelled, fire, shots, loop>>
  BY DEF Add, procVars, fireVars
<1>2. u \in Subs /\ (\A v \in Subs : About(op[c], v) <=> v = u)
      /\ op'[c] = Nil /\ \A d \in Callers \ {c} : op'[d] = op[d]
  BY <1>1, OpShape, ReturnFields
<1>3. db \in [Subs -> Rows] /\ HeapType /\ TableType
  BY DEF ArmHyps, TypeOK, TableType
<1>4. t \in Nat \cup {Null}
  BY <1>2, <1>3, BuildTimeType, RowTypes DEF ArmHyps
<1>5. (t = Null /\ db' = DeleteSubscription(u) /\ heap' = heap)
      \/ (t # Null /\ t \in Nat /\ heap' = heap (+) SetToBag({<<u, t>>}) /\ db' = db)
  BY <1>4 DEF Add
<1>6. CASE s # u
  <2>1. SameEntries(s)
    <3>1. CASE heap' = heap
      BY <3>1 DEF SameEntries, Entries
    <3>2. CASE t \in Nat /\ heap' = heap (+) SetToBag({<<u, t>>})
      <4> DEFINE E == {<<u, t>>}
      <4>1. E \in SUBSET (Subs \X Nat) /\ \A e \in E : e[1] # s
        BY <1>2, <1>6, <3>2
      <4> QED
        BY <1>3, <3>2, <4>1, PushOthers
    <3> QED
      BY <1>5, <3>1, <3>2
  <2>2. SameHold(s)
    BY <1>1, <2>1 DEF SameHold
  <2>3. db'[s] = db[s]
    BY <1>3, <1>5, <1>6 DEF DeleteSubscription
  <2> QED
    BY <1>1, <1>2, <1>6, <2>2, <2>3, SubByOther
<1>7. CASE s = u
  <2>1. SubOK(s) /\ StepOK(op[c], s) /\ \A d \in OpsUnderWay \ {c} : ~About(op[d], s)
    BY <1>1, <1>2, <1>7, StepContext
  <2>2. Quiet(s) /\ (db[s].status = "active" \/ s \in shots)
    BY <1>1, <2>1 DEF StepOK
  <2>3. CASE t = Null /\ db' = DeleteSubscription(u) /\ heap' = heap
    <3>1. SameHold(s) /\ now' >= now
      BY <1>1, <2>3, RowTypes DEF SameHold, SameEntries, Entries, ArmHyps
    <3>2. db'[s].at = db[s].at /\ (db'[s].status = "fresh" => db[s].status = "fresh")
          /\ db'[s].status # "active"
      BY <1>3, <1>7, <2>3, RowTypes DEF DeleteSubscription, HasRow, Rows
    <3>3. Sane(s)' /\ ShotOK(s)' /\ FreshOK(s)' /\ Quiet(s)'
      BY <2>1, <2>2, <3>1, <3>2, RowFrame, HoldFrame DEF ArmHyps
    <3>4. AtRest(s)'
      BY <3>2, <3>3 DEF AtRest, Expected
    <3> QED
      BY <1>2, <2>1, <3>3, <3>4, SubByOp
  <2>4. CASE t \in Nat /\ t # Null /\ heap' = heap (+) SetToBag({<<u, t>>}) /\ db' = db
    <3> DEFINE x == <<s, t>>
    <3>1. Entries(s)' = {x} /\ heap'[x] = 1
      <4>1. {x} \in SUBSET (Subs \X Nat) /\ {e \in {x} : e[1] = s} = {x}
        BY <2>4
      <4> QED
        BY <1>3, <1>7, <2>2, <2>4, <4>1, PushFirst DEF Quiet
    <3>2. Kind[s] = "once" => t = db[s].at /\ s \notin shots
      <4>1. Kind[s] = "once" => t = db[s].at /\ db[s].at > now
        BY <1>7, <2>4 DEF BuildTime
      <4> QED
        BY <4>1, <2>1, RowTypes DEF SubOK, ShotOK, ArmHyps
    <3>3. s \notin shots /\ db[s].status = "active" /\ x[2] = t
      BY <3>2, <2>1, <2>2 DEF SubOK, ShotOK
    <3>4. ~WillReAdd(s)'
      BY <3>3, <2>1, <2>2, <1>1 DEF SubOK, ShotOK, Quiet, WillReAdd
    <3>5. Sane(s)' /\ ShotOK(s)' /\ FreshOK(s)'
      <4>1. Sane(s)'
        BY <3>1, <3>4 DEF Sane
      <4>2. ShotOK(s)'
        BY <3>1, <3>2, <3>3, <1>1, <2>1, <2>4 DEF ShotOK, SubOK
      <4>3. FreshOK(s)'
        BY <3>3, <2>4 DEF FreshOK
      <4> QED
        BY <4>1, <4>2, <4>3
    <3>6. AtRest(s)'
      BY <3>1, <3>3, <2>4 DEF AtRest
    <3> QED
      BY <1>2, <2>1, <3>5, <3>6, SubByOp
  <2> QED
    BY <1>5, <2>3, <2>4
<1> QED
  BY <1>6, <1>7

\* Scheduler.Remove quiets the schedule: the one entry goes, or the fire that
\* has it is told not to put it back.
LEMMA ArmRemove ==
    ASSUME ArmHyps, NEW c \in Callers, Remove(c), NEW s \in Subs
    PROVE  SubOK(s)'
<1> DEFINE u == op[c].sub
<1>1. op[c] # Nil /\ op[c].pc = "remove" /\ Return(c)
      /\ UNCHANGED <<now, mode, db, instRow, inst, running, fire, shots, loop>>
  BY DEF Remove, procVars, tableVars, fireVars
<1>2. u \in Subs /\ (\A v \in Subs : About(op[c], v) <=> v = u)
      /\ op'[c] = Nil /\ \A d \in Callers \ {c} : op'[d] = op[d]
  BY <1>1, OpShape, ReturnFields
<1>3. HeapType
  BY DEF ArmHyps, TypeOK
<1>4. \/ (\E e \in Entries(u) : heap' = heap (-) SetToBag({e})) /\ cancelled' = cancelled
      \/ Entries(u) = {} /\ heap' = heap /\ cancelled' = cancelled \cup ({u} \cap running)
  BY DEF Remove
<1>5. CASE s # u
  <2>1. SameEntries(s)
    <3>1. CASE heap' = heap
      BY <3>1 DEF SameEntries, Entries
    <3>2. ASSUME NEW e \in Entries(u), heap' = heap (-) SetToBag({e}) PROVE SameEntries(s)
      <4>1. e \in BagToSet(heap) /\ e[1] = u
        BY DEF Entries
      <4> QED
        BY <1>3, <1>5, <3>2, <4>1, PopEffect
    <3> QED
      BY <1>4, <3>1, <3>2
  <2>2. SameHold(s)
    BY <1>1, <1>4, <1>5, <2>1 DEF SameHold
  <2> QED
    BY <1>1, <1>2, <1>5, <2>2, SubByOther
<1>6. CASE s = u
  <2>1. SubOK(s) /\ StepOK(op[c], s) /\ \A d \in OpsUnderWay \ {c} : ~About(op[d], s)
    BY <1>1, <1>2, <1>6, StepContext
  <2>2. db[s].status \in {"paused", "gone"}
    BY <1>1, <2>1 DEF StepOK
  <2>3. Entries(s)' = {}
    <3>1. CASE Entries(u) = {} /\ heap' = heap
      BY <1>6, <3>1 DEF Entries
    <3>2. ASSUME NEW e \in Entries(u), heap' = heap (-) SetToBag({e}) PROVE Entries(s)' = {}
      <4>1. e \in BagToSet(heap) /\ e[1] = s
        BY <1>6 DEF Entries
      <4>2. heap[e] = 1 /\ Entries(s) = {e}
        BY <1>6, <2>1, <3>2 DEF SubOK, Sane
      <4> QED
        BY <1>3, <3>2, <4>1, <4>2, PopEffect
    <3> QED
      BY <1>4, <3>1, <3>2
  <2>4. ~WillReAdd(s)'
    BY <1>1, <1>4, <1>6, <2>1 DEF SubOK, Sane, WillReAdd
  <2>5. Quiet(s)' /\ Sane(s)'
    BY <2>3, <2>4 DEF Quiet, Sane
  <2>6. ShotOK(s)' /\ FreshOK(s)'
    BY <1>1, <2>1, <2>2, <2>3 DEF SubOK, ShotOK, FreshOK
  <2>7. AtRest(s)'
    BY <1>1, <2>2, <2>5 DEF AtRest, Expected
  <2> QED
    BY <1>2, <2>1, <2>5, <2>6, <2>7, SubByOp
<1> QED
  BY <1>5, <1>6

\* handleResumeSubscription makes a quiet schedule active; Add follows.
LEMMA ArmActivate ==
    ASSUME ArmHyps, NEW c \in Callers, Activate(c), NEW s \in Subs
    PROVE  SubOK(s)'
<1> DEFINE u == op[c].sub
<1>1. op[c] # Nil /\ op[c].pc = "activate" /\ db' = SetStatus(u, "active")
      /\ UNCHANGED <<now, mode, instRow, inst, schedVars, fire, shots, loop>>
      /\ (IF HasRow(u) THEN Continue(c, "add") ELSE Return(c))
  BY DEF Activate, procVars, fireVars
<1>2. u \in Subs /\ op[c] \in SubOps /\ OpType /\ (\A v \in Subs : About(op[c], v) <=> v = u)
  BY <1>1, OpShape
<1>3. db \in [Subs -> Rows]
  BY DEF ArmHyps, TypeOK, TableType
<1>4. (\A d \in Callers \ {c} : op'[d] = op[d])
      /\ (HasRow(u) => op'[c] # Nil /\ op'[c].pc = "add" /\ op'[c].sub = u)
      /\ (~HasRow(u) => op'[c] = Nil)
  BY <1>1, <1>2, ContinueFields, ReturnFields
<1>5. SameHold(s)
  BY <1>1 DEF SameHold, SameEntries, Entries, schedVars
<1>6. CASE s # u
  <2>1. db'[s] = db[s]
    BY <1>1, <1>3, <1>6 DEF SetStatus
  <2>2. op'[c] # Nil => ~About(op'[c], s)
    BY <1>2, <1>4, <1>6, NilAssumption DEF About
  <2> QED
    BY <1>1, <1>2, <1>4, <1>5, <1>6, <2>1, <2>2, SubByOther
<1>7. CASE s = u
  <2>1. SubOK(s) /\ StepOK(op[c], s) /\ \A d \in OpsUnderWay \ {c} : ~About(op[d], s)
    BY <1>1, <1>2, <1>7, StepContext
  <2>2. db[s].status \in {"paused", "gone"} /\ Quiet(s)
    BY <1>1, <2>1 DEF StepOK
  <2>3. db'[s].at = db[s].at /\ (HasRow(u) => db'[s].status = "active")
        /\ (~HasRow(u) => db'[s] = db[s])
    BY <1>1, <1>3, <1>7 DEF SetStatus, Rows
  <2>4. now' >= now /\ (db'[s].status = "fresh" => db[s].status = "fresh")
    BY <1>1, <2>2, <2>3, RowTypes DEF ArmHyps
  <2>5. Sane(s)' /\ ShotOK(s)' /\ FreshOK(s)' /\ Quiet(s)'
    BY <1>5, <2>1, <2>2, <2>3, <2>4, RowFrame, HoldFrame DEF ArmHyps
  <2>6. CASE HasRow(u)
    <3>1. StepOK(op[c], s)' /\ About(op'[c], s)
      BY <1>4, <1>7, <2>3, <2>5, <2>6 DEF StepOK, StartPcs, About
    <3> QED
      BY <1>4, <2>1, <2>5, <2>6, <3>1, SubByOp
  <2>7. CASE ~HasRow(u)
    <3>1. AtRest(s)'
      BY <2>2, <2>3, <2>5, <2>7 DEF AtRest, Expected
    <3> QED
      BY <1>4, <2>1, <2>5, <2>7, <3>1, SubByOp
  <2> QED
    BY <2>6, <2>7
<1> QED
  BY <1>6, <1>7

\* A step of a request on an instance is nothing to the schedules of others.
LEMMA InstByOther ==
    ASSUME ArmHyps, NEW c \in Callers, op[c] # Nil, op[c].sub = Nil,
           op'[c] # Nil => op'[c].sub = Nil /\ op'[c].inst = op[c].inst,
           \A d \in Callers \ {c} : op'[d] = op[d],
           NEW s \in Subs, InstOf[s] # op[c].inst,
           SameHold(s), db'[s] = db[s], now' = now, mode' = mode
    PROVE  SubOK(s)'
<1>1. ~About(op[c], s) /\ (op'[c] # Nil => ~About(op'[c], s))
  BY NilAssumption DEF About
<1> QED
  BY <1>1, SubByOther

\* The place of a request on an instance, and what its next step leaves.
LEMMA InstStepFields ==
    ASSUME ArmHyps, NEW c \in Callers, op[c] # Nil, op[c].pc \notin {"add", "remove", "activate"},
           \/ Return(c)
           \/ \E pc \in {"pauseHeap", "dropRow", "spawn", "startRow", "resumeRows"} : Continue(c, pc)
    PROVE  /\ op[c].sub = Nil /\ \A d \in Callers \ {c} : op'[d] = op[d]
           /\ op'[c] # Nil => /\ op'[c].sub = Nil /\ op'[c].inst = op[c].inst
                              /\ op'[c].built = op[c].built /\ op'[c].todo = op[c].todo
                              /\ op'[c].at = op[c].at /\ op'[c].kind = op[c].kind
           /\ \A pc \in {"pauseHeap", "dropRow", "spawn", "startRow", "resumeRows"} :
                 Continue(c, pc) => op'[c] # Nil /\ op'[c].pc = pc
           /\ Return(c) => op'[c] = Nil
<1>1. op[c].sub = Nil /\ op[c] \in InstOps /\ OpType
  BY OpShape
<1>2. CASE Return(c)
  <2>1. op'[c] = Nil /\ \A d \in Callers \ {c} : op'[d] = op[d]
    BY <1>1, <1>2, ReturnFields
  <2>2. \A pc \in {"pauseHeap", "dropRow", "spawn", "startRow", "resumeRows"} : ~Continue(c, pc)
    BY <1>1, <2>1, ContinueFields
  <2> QED
    BY <1>1, <2>1, <2>2
<1>3. ASSUME NEW pc \in {"pauseHeap", "dropRow", "spawn", "startRow", "resumeRows"}, Continue(c, pc)
      PROVE  /\ op'[c] # Nil /\ op'[c].pc = pc /\ op'[c].sub = Nil /\ op'[c].inst = op[c].inst
             /\ op'[c].built = op[c].built /\ op'[c].todo = op[c].todo
             /\ op'[c].at = op[c].at /\ op'[c].kind = op[c].kind
             /\ \A d \in Callers \ {c} : op'[d] = op[d]
  BY <1>1, <1>3, ContinueFields
<1>4. Return(c) => op'[c] = Nil
  BY <1>1, ReturnFields
<1> QED
  BY <1>1, <1>2, <1>3, <1>4

\* PauseInstanceSubscriptions leaves no active row of the instance.
LEMMA ArmPauseRows ==
    ASSUME ArmHyps, NEW c \in Callers, PauseRows(c), NEW s \in Subs
    PROVE  SubOK(s)'
<1>1. op[c] # Nil /\ op[c].pc = "pauseRows" /\ Continue(c, "pauseHeap")
      /\ UNCHANGED <<now, mode, schedVars, fire, shots>>
  BY DEF PauseRows, procVars, fireVars
<1>2. op'[c] # Nil /\ op'[c].pc = "pauseHeap" /\ op'[c].sub = Nil /\ op'[c].inst = op[c].inst
      /\ op[c].sub = Nil /\ \A d \in Callers \ {c} : op'[d] = op[d]
  BY <1>1, InstStepFields
<1>3. SameHold(s)
  BY <1>1 DEF SameHold, SameEntries, Entries, schedVars
<1>4. db'[s] = IF InstOf[s] = op[c].inst /\ db[s].status = "active"
               THEN [db[s] EXCEPT !.status = "paused"] ELSE db[s]
  BY DEF PauseRows
<1>5. CASE InstOf[s] # op[c].inst
  BY <1>1, <1>2, <1>3, <1>4, <1>5, InstByOther
<1>6. CASE InstOf[s] = op[c].inst
  <2>1. About(op[c], s) /\ About(op'[c], s)
    BY <1>2, <1>6 DEF About
  <2>2. SubOK(s) /\ StepOK(op[c], s) /\ \A d \in OpsUnderWay \ {c} : ~About(op[d], s)
    BY <1>1, <2>1, StepContext
  <2>3. db[s] \in Rows
    BY DEF ArmHyps, TypeOK, TableType
  <2>4. db'[s].at = db[s].at /\ db'[s].status # "active"
        /\ (db'[s].status = "fresh" => db[s].status = "fresh")
    BY <1>4, <1>6, <2>3 DEF Rows
  <2>5. now' >= now
    BY <1>1, RowTypes DEF ArmHyps
  <2>6. Sane(s)' /\ ShotOK(s)' /\ FreshOK(s)'
    BY <1>3, <2>2, <2>4, <2>5, RowFrame DEF ArmHyps
  <2>7. StepOK(op[c], s)'
    BY <1>2, <2>4 DEF StepOK, StartPcs
  <2> QED
    BY <1>2, <2>1, <2>2, <2>6, <2>7, SubByOp
<1> QED
  BY <1>5, <1>6

\* PauseInstance quiets every schedule of the instance.
LEMMA ArmPauseHeap ==
    ASSUME ArmHyps, NEW c \in Callers, PauseHeap(c), NEW s \in Subs
    PROVE  SubOK(s)'
<1>1. op[c] # Nil /\ op[c].pc = "pauseHeap" /\ (Continue(c, "dropRow") \/ Return(c))
      /\ UNCHANGED <<now, mode, db, running, fire, shots>>
      /\ cancelled' = cancelled \cup (running \cap SubsOf(op[c].inst))
      /\ heap' = [e \in {d \in BagToSet(heap) : InstOf[d[1]] # op[c].inst} |-> heap[e]]
  BY DEF PauseHeap, procVars, tableVars, fireVars
<1>2. /\ op[c].sub = Nil /\ \A d \in Callers \ {c} : op'[d] = op[d]
      /\ op'[c] # Nil => op'[c].pc = "dropRow" /\ op'[c].sub = Nil /\ op'[c].inst = op[c].inst
  BY <1>1, InstStepFields
<1>3. CASE InstOf[s] # op[c].inst
  <2>1. SameEntries(s)
    BY <1>1, <1>3, FilterEffect
  <2>2. SameHold(s)
    BY <1>1, <1>3, <2>1 DEF SameHold, SubsOf
  <2> QED
    BY <1>1, <1>2, <1>3, <2>2, InstByOther
<1>4. CASE InstOf[s] = op[c].inst
  <2>1. About(op[c], s) /\ (op'[c] # Nil => About(op'[c], s))
    BY <1>2, <1>4 DEF About
  <2>2. SubOK(s) /\ StepOK(op[c], s) /\ \A d \in OpsUnderWay \ {c} : ~About(op[d], s)
    BY <1>1, <2>1, StepContext
  <2>3. Entries(s)' = {}
    BY <1>1, <1>4, FilterEffect
  <2>4. ~WillReAdd(s)'
    BY <1>1, <1>4 DEF WillReAdd, SubsOf
  <2>5. Quiet(s)' /\ Sane(s)'
    BY <2>3, <2>4 DEF Quiet, Sane
  <2>6. ShotOK(s)' /\ FreshOK(s)'
    BY <1>1, <2>2, <2>3, <2>5 DEF SubOK, ShotOK, FreshOK
  <2>7. db[s].status # "active"
    BY <1>1, <2>2 DEF StepOK
  <2>8. AtRest(s)'
    BY <1>1, <2>5, <2>7 DEF AtRest, Expected
  <2>9. op'[c] # Nil => StepOK(op[c], s)'
    BY <1>1, <1>2, <2>5, <2>7 DEF StepOK, StartPcs
  <2> QED
    BY <1>2, <2>1, <2>2, <2>5, <2>6, <2>8, <2>9, SubByOp
<1> QED
  BY <1>3, <1>4

\* The rows of a deleted instance go when nothing is held of them any more.
LEMMA ArmDropRow ==
    ASSUME ArmHyps, NEW c \in Callers, DropRow(c), NEW s \in Subs
    PROVE  SubOK(s)'
<1>1. op[c] # Nil /\ op[c].pc = "dropRow" /\ Return(c)
      /\ UNCHANGED <<now, mode, schedVars, fire, shots>>
  BY DEF DropRow, procVars, fireVars
<1>2. op[c].sub = Nil /\ op'[c] = Nil /\ \A d \in Callers \ {c} : op'[d] = op[d]
  BY <1>1, InstStepFields
<1>3. SameHold(s)
  BY <1>1 DEF SameHold, SameEntries, Entries, schedVars
<1>4. db'[s] = IF InstOf[s] = op[c].inst /\ HasRow(s)
               THEN [db[s] EXCEPT !.status = "gone", !.next = Null] ELSE db[s]
  BY DEF DropRow
<1>5. CASE InstOf[s] # op[c].inst
  BY <1>1, <1>2, <1>3, <1>4, <1>5, InstByOther
<1>6. CASE InstOf[s] = op[c].inst
  <2>1. About(op[c], s)
    BY <1>2, <1>6 DEF About
  <2>2. SubOK(s) /\ StepOK(op[c], s) /\ \A d \in OpsUnderWay \ {c} : ~About(op[d], s)
    BY <1>1, <2>1, StepContext
  <2>3. db[s] \in Rows
    BY DEF ArmHyps, TypeOK, TableType
  <2>4. Quiet(s) /\ db[s].status # "active"
    BY <1>1, <2>2 DEF StepOK
  <2>5. db'[s].at = db[s].at /\ db'[s].status # "active"
        /\ (db'[s].status = "fresh" => db[s].status = "fresh")
    BY <1>4, <1>6, <2>3, <2>4 DEF Rows
  <2>6. now' >= now
    BY <1>1, RowTypes DEF ArmHyps
  <2>7. Sane(s)' /\ ShotOK(s)' /\ FreshOK(s)' /\ Quiet(s)'
    BY <1>3, <2>2, <2>4, <2>5, <2>6, RowFrame, HoldFrame DEF ArmHyps
  <2>8. AtRest(s)'
    BY <2>5, <2>7 DEF AtRest, Expected
  <2> QED
    BY <1>2, <2>2, <2>7, <2>8, SubByOp
<1> QED
  BY <1>5, <1>6

\* The steps of StartInstance before the schedules are resumed.
LEMMA ArmStarting ==
    ASSUME ArmHyps, NEW c \in Callers, Unregister(c) \/ Spawn(c) \/ StartRow(c), NEW s \in Subs
    PROVE  SubOK(s)'
<1>1. op[c] # Nil /\ op[c].pc \in {"unregister", "spawn", "startRow"}
      /\ UNCHANGED <<now, mode, db, schedVars, fire, shots>>
      /\ (Return(c) \/ \E pc \in {"spawn", "startRow", "resumeRows"} : Continue(c, pc))
  BY DEF Unregister, Spawn, StartRow, procVars, fireVars
<1>2. /\ op[c].sub = Nil /\ \A d \in Callers \ {c} : op'[d] = op[d]
      /\ op'[c] # Nil => /\ op'[c].pc \in {"spawn", "startRow", "resumeRows"}
                         /\ op'[c].sub = Nil /\ op'[c].inst = op[c].inst
  BY <1>1, InstStepFields
<1>3. SameHold(s)
  BY <1>1 DEF SameHold, SameEntries, Entries, schedVars
<1>4. CASE InstOf[s] # op[c].inst
  BY <1>1, <1>2, <1>3, <1>4, InstByOther
<1>5. CASE InstOf[s] = op[c].inst
  <2>1. About(op[c], s) /\ (op'[c] # Nil => About(op'[c], s))
    BY <1>2, <1>5 DEF About
  <2>2. SubOK(s) /\ StepOK(op[c], s) /\ \A d \in OpsUnderWay \ {c} : ~About(op[d], s)
    BY <1>1, <2>1, StepContext
  <2>3. Quiet(s) /\ db[s].status # "active"
    BY <1>1, <2>2 DEF StepOK, StartPcs
  <2>4. now' >= now
    BY <1>1, RowTypes DEF ArmHyps
  <2>5. Sane(s)' /\ ShotOK(s)' /\ FreshOK(s)' /\ Quiet(s)'
    BY <1>1, <1>3, <2>2, <2>3, <2>4, RowFrame, HoldFrame DEF ArmHyps
  <2>6. AtRest(s)'
    BY <1>1, <2>3, <2>5 DEF AtRest, Expected
  <2>7. op'[c] # Nil => StepOK(op[c], s)'
    BY <1>1, <1>2, <2>3, <2>5 DEF StepOK, StartPcs
  <2> QED
    BY <1>2, <2>1, <2>2, <2>5, <2>6, <2>7, SubByOp
<1> QED
  BY <1>4, <1>5

\* ResumeInstanceSubscriptions: every row becomes active and is to be built.
LEMMA ArmResumeRows ==
    ASSUME ArmHyps, NEW c \in Callers, ResumeRows(c), NEW s \in Subs
    PROVE  SubOK(s)'
<1> DEFINE T == {v \in SubsOf(op[c].inst) : HasRow(v)}
<1>1. op[c] # Nil /\ op[c].pc = "resumeRows" /\ UNCHANGED <<now, mode, schedVars, fire, shots>>
      /\ op' = [op EXCEPT ![c].pc = "build", ![c].at = now, ![c].todo = T]
  BY DEF ResumeRows, procVars, fireVars
<1>2. op[c].sub = Nil /\ op[c] \in InstOps /\ OpType /\ op[c].built = {}
  <2>1. OpOK(op[c])
    BY <1>1 DEF ArmHyps, ArmInv, OpsUnderWay
  <2> QED
    BY <1>1, <2>1, OpShape DEF OpOK
<1>3. /\ op'[c] # Nil /\ op'[c].pc = "build" /\ op'[c].sub = Nil /\ op'[c].inst = op[c].inst
      /\ op'[c].at = now /\ op'[c].todo = T /\ op'[c].built = {}
      /\ \A d \in Callers \ {c} : op'[d] = op[d]
  <2> DEFINE r == [op[c] EXCEPT !.pc = "build", !.at = now, !.todo = T]
  <2>1. op' = [op EXCEPT ![c] = r]
    BY <1>1
  <2>2. r.pc = "build" /\ r.sub = Nil /\ r.inst = op[c].inst /\ r.at = now /\ r.todo = T /\ r.built = {}
    BY <1>2 DEF InstOps
  <2>3. op'[c] = r /\ \A d \in Callers \ {c} : op'[d] = op[d]
    BY <1>2, <2>1 DEF OpType
  <2>4. r \in InstOps
    BY <1>2, RowTypes DEF InstOps, SubsOf, ArmHyps, TypeOK, ProcType
  <2> QED
    BY <2>2, <2>3, <2>4, NilAssumption
<1>4. SameHold(s)
  BY <1>1 DEF SameHold, SameEntries, Entries, schedVars
<1>5. db'[s] = IF InstOf[s] = op[c].inst /\ db[s].status = "paused"
               THEN [db[s] EXCEPT !.status = "active"] ELSE db[s]
  BY DEF ResumeRows
<1>6. CASE InstOf[s] # op[c].inst
  BY <1>1, <1>2, <1>3, <1>4, <1>5, <1>6, InstByOther
<1>7. CASE InstOf[s] = op[c].inst
  <2>1. About(op[c], s) /\ About(op'[c], s)
    BY <1>2, <1>3, <1>7 DEF About
  <2>2. SubOK(s) /\ StepOK(op[c], s) /\ \A d \in OpsUnderWay \ {c} : ~About(op[d], s)
    BY <1>1, <2>1, StepContext
  <2>3. db[s] \in Rows /\ db[s].status \in {"fresh", "paused", "gone"} /\ Quiet(s)
    BY <1>1, <2>2, RowTypes DEF ArmHyps, TypeOK, TableType, StepOK, StartPcs
  <2>4. db'[s].at = db[s].at /\ db'[s].status # "paused"
        /\ (db'[s].status = "fresh" => db[s].status = "fresh")
        /\ (db'[s].status = "active" <=> s \in T)
    BY <1>5, <1>7, <2>3 DEF Rows, HasRow, SubsOf
  <2>5. now' >= now /\ now' = now
    BY <1>1, RowTypes DEF ArmHyps
  <2>6. Sane(s)' /\ ShotOK(s)' /\ FreshOK(s)' /\ Quiet(s)'
    BY <1>4, <2>2, <2>3, <2>4, <2>5, RowFrame, HoldFrame DEF ArmHyps
  <2>7. Building(op[c], s)'
    BY <1>1, <1>3, <2>2, <2>4, <2>5 DEF Building, SubOK, ShotOK
  <2>8. StepOK(op[c], s)'
    BY <1>3, <2>6, <2>7 DEF StepOK, StartPcs
  <2> QED
    BY <1>3, <2>1, <2>2, <2>6, <2>8, SubByOp
<1> QED
  BY <1>6, <1>7

\* What an iteration of ResumeInstance's loop leaves of its request.
LEMMA BuildFields ==
    ASSUME ArmHyps, NEW c \in Callers, op[c] # Nil, op[c].pc = "build",
           NEW T \in SUBSET op[c].todo, NEW B \in SUBSET (Subs \X Nat),
           op' = [op EXCEPT ![c].todo = T, ![c].built = B]
    PROVE  /\ op'[c] # Nil /\ op'[c].pc = "build" /\ op'[c].sub = Nil /\ op'[c].inst = op[c].inst
           /\ op'[c].at = op[c].at /\ op'[c].todo = T /\ op'[c].built = B
           /\ \A d \in Callers \ {c} : op'[d] = op[d]
<1>1. op[c] \in InstOps /\ OpType
  BY OpShape
<1> DEFINE r == [op[c] EXCEPT !.todo = T, !.built = B]
<1>2. op'[c] = r /\ \A d \in Callers \ {c} : op'[d] = op[d]
  BY <1>1 DEF OpType
<1>3. r.pc = "build" /\ r.sub = Nil /\ r.inst = op[c].inst /\ r.at = op[c].at /\ r.todo = T /\ r.built = B
  BY <1>1 DEF InstOps
<1>4. r \in InstOps
  BY <1>1 DEF InstOps
<1> QED
  BY <1>2, <1>3, <1>4, NilAssumption

\* An iteration of ResumeInstance's loop.
LEMMA BuildStep ==
    ASSUME ArmHyps, NEW c \in Callers, Build(c)
    PROVE  \E v \in op[c].todo, t \in Nat \cup {Null} :
             /\ v \in Subs /\ InstOf[v] = op[c].inst /\ t = BuildTime(v, op[c].at)
             /\ db' = IF t = Null THEN DeleteSubscription(v)
                      ELSE IF HasRow(v)
                           THEN [db EXCEPT ![v].status = "active", ![v].next = t] ELSE db
             /\ op'[c] # Nil /\ op'[c].pc = "build" /\ op'[c].sub = Nil /\ op'[c].inst = op[c].inst
             /\ op'[c].at = op[c].at /\ op'[c].todo = op[c].todo \ {v}
             /\ op'[c].built = IF t = Null THEN op[c].built ELSE op[c].built \cup {<<v, t>>}
             /\ \A d \in Callers \ {c} : op'[d] = op[d]
<1>1. op[c] # Nil /\ op[c].pc = "build"
  BY DEF Build
<1>2. op[c] \in InstOps /\ OpOK(op[c])
  BY <1>1, OpShape DEF ArmHyps, ArmInv, OpsUnderWay
<1>3. op[c].at \in 0..MaxTime /\ op[c].todo \subseteq Subs /\ op[c].built \subseteq Subs \X Nat
  BY <1>2 DEF InstOps
<1>4. PICK v \in op[c].todo :
        LET t == BuildTime(v, op[c].at) IN
         /\ db' = IF t = Null THEN DeleteSubscription(v)
                  ELSE IF HasRow(v)
                       THEN [db EXCEPT ![v].status = "active", ![v].next = t] ELSE db
         /\ op' = [op EXCEPT ![c].todo = @ \ {v},
                             ![c].built = IF t = Null THEN @ ELSE @ \cup {<<v, t>>}]
  BY DEF Build
<1> DEFINE t == BuildTime(v, op[c].at)
           T == op[c].todo \ {v}
           B == IF t = Null THEN op[c].built ELSE op[c].built \cup {<<v, t>>}
<1>5. v \in Subs /\ InstOf[v] = op[c].inst
  BY <1>2, <1>3 DEF OpOK
<1>6. t \in Nat \cup {Null}
  BY <1>3, <1>5, BuildTimeType DEF ArmHyps, TypeOK
<1>7. B \in SUBSET (Subs \X Nat) /\ T \in SUBSET op[c].todo
  BY <1>3, <1>5, <1>6
<1>8. op' = [op EXCEPT ![c].todo = T, ![c].built = B]
  BY <1>4
<1>9. /\ op'[c] # Nil /\ op'[c].pc = "build" /\ op'[c].sub = Nil /\ op'[c].inst = op[c].inst
      /\ op'[c].at = op[c].at /\ op'[c].todo = T /\ op'[c].built = B
      /\ \A d \in Callers \ {c} : op'[d] = op[d]
  <2> HIDE DEF T, B
  <2> QED
    BY <1>1, <1>7, <1>8, BuildFields
<1>10. db' = IF t = Null THEN DeleteSubscription(v)
             ELSE IF HasRow(v)
                  THEN [db EXCEPT ![v].status = "active", ![v].next = t] ELSE db
  BY <1>4
<1> HIDE DEF t
<1> QED
  BY <1>5, <1>6, <1>9, <1>10 DEF t

\* buildEntry: a launched one-shot is never built again.
LEMMA BuiltNotShot ==
    ASSUME ArmHyps, NEW s \in Subs, SubOK(s), NEW o, o.at \in 0..MaxTime, Building(o, s),
           BuildTime(s, o.at) # Null
    PROVE  s \notin shots /\ (Kind[s] = "once" => BuildTime(s, o.at) = db[s].at)
<1>1. s \in shots => Kind[s] = "once" /\ db[s].at <= o.at
  BY DEF SubOK, ShotOK, Building
<1>2. db[s].at \in Nat /\ o.at \in Nat
  BY ClockAssumption, RowTypes DEF ArmHyps
<1> QED
  BY <1>1, <1>2 DEF BuildTime

\* ResumeInstance's loop: the row built is expected to fire, and what was
\* launched before is deleted.
LEMMA ArmBuild ==
    ASSUME ArmHyps, NEW c \in Callers, Build(c), NEW s \in Subs
    PROVE  SubOK(s)'
<1>1. op[c] # Nil /\ op[c].pc = "build" /\ UNCHANGED <<now, mode, schedVars, fire, shots>>
  BY DEF Build, procVars, fireVars
<1>2. PICK v \in op[c].todo, t \in Nat \cup {Null} :
             /\ v \in Subs /\ InstOf[v] = op[c].inst /\ t = BuildTime(v, op[c].at)
             /\ db' = IF t = Null THEN DeleteSubscription(v)
                      ELSE IF HasRow(v)
                           THEN [db EXCEPT ![v].status = "active", ![v].next = t] ELSE db
             /\ op'[c] # Nil /\ op'[c].pc = "build" /\ op'[c].sub = Nil /\ op'[c].inst = op[c].inst
             /\ op'[c].at = op[c].at /\ op'[c].todo = op[c].todo \ {v}
             /\ op'[c].built = IF t = Null THEN op[c].built ELSE op[c].built \cup {<<v, t>>}
             /\ \A d \in Callers \ {c} : op'[d] = op[d]
  BY BuildStep
<1>3. db \in [Subs -> Rows] /\ op[c].sub = Nil /\ op[c] \in InstOps
  BY <1>1, OpShape DEF ArmHyps, TypeOK, TableType
<1>4. op[c].at \in 0..MaxTime
  BY <1>3 DEF InstOps
<1>5. SameHold(s)
  BY <1>1 DEF SameHold, SameEntries, Entries, schedVars
<1>6. s # v => db'[s] = db[s]
  BY <1>2, <1>3 DEF DeleteSubscription
<1>7. CASE InstOf[s] # op[c].inst
  BY <1>1, <1>2, <1>3, <1>5, <1>6, <1>7, InstByOther
<1>8. CASE InstOf[s] = op[c].inst
  <2>1. About(op[c], s) /\ About(op'[c], s)
    BY <1>2, <1>3, <1>8 DEF About
  <2>2. SubOK(s) /\ StepOK(op[c], s) /\ \A d \in OpsUnderWay \ {c} : ~About(op[d], s)
    BY <1>1, <2>1, StepContext
  <2>3. Quiet(s) /\ Building(op[c], s)
    BY <1>1, <2>2 DEF StepOK, StartPcs
  <2>4. now' >= now
    BY <1>1, RowTypes DEF ArmHyps
  <2>5. db'[s].at = db[s].at /\ (db'[s].status = "fresh" => db[s].status = "fresh") /\ Building(op[c], s)'
    <3>1. CASE s # v
      <4>1. db'[s] = db[s] /\ shots' = shots
        BY <1>1, <1>6, <3>1
      <4>2. \A e \in op'[c].built : e[1] = s => e \in op[c].built
        BY <1>2, <3>1
      <4>3. op[c].built \subseteq op'[c].built /\ (s \in op'[c].todo <=> s \in op[c].todo)
            /\ op'[c].at = op[c].at
        BY <1>2, <3>1
      <4>4. Building(op[c], s)'
        BY <2>3, <4>1, <4>2, <4>3 DEF Building
      <4> QED
        BY <4>1, <4>4
    <3>2. CASE s = v /\ t = Null
      <4>1. db'[s].at = db[s].at /\ (db'[s].status = "fresh" => db[s].status = "fresh")
            /\ db'[s].status \notin {"active", "paused"}
        BY <1>2, <1>3, <3>2 DEF DeleteSubscription, HasRow, Rows
      <4>2. op'[c].built = op[c].built /\ s \notin op'[c].todo /\ \A e \in op[c].built : e[1] # s
        BY <1>2, <2>3, <3>2 DEF Building
      <4>3. Building(op[c], s)'
        BY <1>1, <1>2, <2>3, <4>1, <4>2 DEF Building
      <4> QED
        BY <4>1, <4>3
    <3>3. CASE s = v /\ t # Null
      <4>1. PICK o : o = op[c]
        OBVIOUS
      <4>2. s \notin shots /\ (Kind[s] = "once" => t = db[s].at)
        BY <1>2, <1>4, <2>2, <2>3, <3>3, <4>1, BuiltNotShot
      <4>3. db[s].status = "active" /\ \A e \in op[c].built : e[1] # s
        BY <1>2, <2>3, <3>3, <4>2 DEF Building
      <4>4. db' = [db EXCEPT ![s].status = "active", ![s].next = t]
        BY <1>2, <3>3, <4>3 DEF HasRow
      <4>5. db'[s].at = db[s].at /\ db'[s].status = "active"
        BY <1>3, <4>4 DEF Rows
      <4>6. op'[c].built = op[c].built \cup {<<s, t>>} /\ s \notin op'[c].todo
        BY <1>2, <3>3
      <4>7. \A e \in op'[c].built : e[1] = s => e = <<s, t>>
        BY <4>3, <4>6
      <4>8. \E e \in op'[c].built : e[1] = s
        <5>1. <<s, t>> \in op'[c].built /\ <<s, t>>[1] = s
          BY <4>6
        <5> QED
          BY <5>1
      <4>9. Building(op[c], s)'
        BY <1>1, <4>2, <4>5, <4>6, <4>7, <4>8 DEF Building
      <4> QED
        BY <4>5, <4>9
    <3> QED
      BY <3>1, <3>2, <3>3
  <2>6. Sane(s)' /\ ShotOK(s)' /\ FreshOK(s)' /\ Quiet(s)'
    BY <1>5, <2>2, <2>3, <2>4, <2>5, RowFrame, HoldFrame DEF ArmHyps
  <2>7. StepOK(op[c], s)'
    BY <1>2, <2>5, <2>6 DEF StepOK, StartPcs
  <2> QED
    BY <1>2, <2>1, <2>2, <2>6, <2>7, SubByOp
<1> QED
  BY <1>7, <1>8

\* ResumeInstance pushes each schedule it built, of which nothing was held.
LEMMA ArmPushBuilt ==
    ASSUME ArmHyps, NEW c \in Callers, PushBuilt(c), NEW s \in Subs
    PROVE  SubOK(s)'
<1>1. op[c] # Nil /\ op[c].pc = "build" /\ op[c].todo = {} /\ Return(c)
      /\ heap' = heap (+) SetToBag(op[c].built)
      /\ UNCHANGED <<now, mode, db, running, cancelled, fire, shots>>
  BY DEF PushBuilt, procVars, tableVars, fireVars
<1>2. op[c].sub = Nil /\ op'[c] = Nil /\ op[c] \in InstOps /\ \A d \in Callers \ {c} : op'[d] = op[d]
  BY <1>1, OpShape, ReturnFields
<1>3. op[c].built \in SUBSET (Subs \X Nat) /\ HeapType
  BY <1>2 DEF InstOps, ArmHyps, TypeOK
<1>4. \A e \in op[c].built : InstOf[e[1]] = op[c].inst
  BY <1>1 DEF ArmHyps, ArmInv, OpOK, OpsUnderWay
<1>5. CASE InstOf[s] # op[c].inst
  <2>1. \A e \in op[c].built : e[1] # s
    BY <1>4, <1>5
  <2>2. SameEntries(s)
    BY <1>1, <1>3, <2>1, PushOthers
  <2>3. SameHold(s)
    BY <1>1, <2>2 DEF SameHold
  <2> QED
    BY <1>1, <1>2, <1>5, <2>3, InstByOther
<1>6. CASE InstOf[s] = op[c].inst
  <2>1. About(op[c], s)
    BY <1>2, <1>6 DEF About
  <2>2. SubOK(s) /\ StepOK(op[c], s) /\ \A d \in OpsUnderWay \ {c} : ~About(op[d], s)
    BY <1>1, <2>1, StepContext
  <2>3. Quiet(s) /\ Building(op[c], s)
    BY <1>1, <2>2 DEF StepOK, StartPcs
  <2>4. Entries(s)' = {e \in op[c].built : e[1] = s} /\ \A e \in Entries(s)' : heap'[e] = 1
    BY <1>1, <1>3, <2>3, PushFirst DEF Quiet
  <2>5. Entries(s)' # {} => s \notin shots /\ db[s].status = "active" /\ ~WillReAdd(s)
    <3>1. Entries(s)' # {} => s \notin shots /\ db[s].status = "active"
      BY <2>3, <2>4 DEF Building
    <3> QED
      BY <3>1, <2>2, <2>3 DEF Quiet, WillReAdd, SubOK, ShotOK
  <2>6. WillReAdd(s)' = WillReAdd(s)
    BY <1>1 DEF WillReAdd
  <2>7. Sane(s)'
    <3>1. \A e, f \in Entries(s)' : e = f
      BY <2>3, <2>4 DEF Building
    <3> QED
      BY <2>4, <2>5, <2>6, <3>1 DEF Sane
  <2>8. ShotOK(s)'
    <3>1. Kind[s] = "once" => \A e \in Entries(s)' : e[2] = db[s].at
      BY <2>3, <2>4 DEF Building
    <3> QED
      BY <1>1, <2>2, <2>5, <3>1 DEF ShotOK, SubOK
  <2>9. Entries(s)' = {} => Quiet(s)'
    BY <2>3, <2>6 DEF Quiet
  <2>10. FreshOK(s)'
    BY <1>1, <2>2, <2>5, <2>9 DEF FreshOK, SubOK
  <2>11. AtRest(s)'
    <3>1. db[s].status = "active" => Entries(s)' # {}
      BY <1>1, <2>3, <2>4 DEF Building
    <3>2. db[s].status \in {"paused", "gone"} => Quiet(s)'
      BY <2>5, <2>9
    <3> QED
      BY <1>1, <3>1, <3>2 DEF AtRest, Expected
  <2> QED
    BY <1>2, <2>2, <2>7, <2>8, <2>10, <2>11, SubByOp
<1> QED
  BY <1>5, <1>6

(***************************************************************************)
(* The server process.                                                     *)
(***************************************************************************)

\* A process that ended holds nothing.
LEMMA ArmMemoryLost ==
    ASSUME ArmHyps, MemoryLost, NEW s \in Subs
    PROVE  SubOK(s)'
<1>1. Entries(s)' = {}
  BY DEF MemoryLost, Entries, EmptyBag, SetToBag, BagToSet
<1>2. s \notin running' /\ ~WillReAdd(s)' /\ OpsUnderWay' = {}
      /\ db' = db /\ shots' = shots /\ now' = now /\ mode' # "up"
  BY DEF MemoryLost, WillReAdd, OpsUnderWay
<1>3. SubOK(s)
  BY DEF ArmHyps, ArmInv
<1>4. Sane(s)' /\ Quiet(s)'
  BY <1>1, <1>2 DEF Sane, Quiet
<1>5. ShotOK(s)' /\ FreshOK(s)'
  BY <1>1, <1>2, <1>3, <1>4 DEF ShotOK, FreshOK, SubOK
<1>6. RestOK(s)'
  BY <1>2, <1>4 DEF RestOK, AtRest
<1> QED
  BY <1>2, <1>4, <1>5, <1>6 DEF SubOK

\* Start arms every row it loads, or deletes the one-shots that are too late.
LEMMA ArmBoot ==
    ASSUME ArmHyps, Boot, NEW s \in Subs
    PROVE  SubOK(s)'
<1> DEFINE F == {u \in Loaded : BuildTime(u, now) # Null}
           E == {<<u, BuildTime(u, now)>> : u \in F}
<1>1. /\ mode = "down" /\ heap' = SetToBag(E)
      /\ UNCHANGED <<now, running, cancelled, shots, fire, op>>
      /\ db'[s] = IF s \in Loaded /\ BuildTime(s, now) = Null
                  THEN [db[s] EXCEPT !.status = "gone", !.next = Null] ELSE db[s]
  BY DEF Boot, fireVars
<1>2. running = {} /\ OpsUnderWay = {} /\ SubOK(s)
  BY <1>1 DEF ArmHyps, ArmInv, ProcOK
<1>3. {e \in E : e[1] = s} = IF s \in F THEN {<<s, BuildTime(s, now)>>} ELSE {}
  OBVIOUS
<1>4. Entries(s)' = (IF s \in F THEN {<<s, BuildTime(s, now)>>} ELSE {})
      /\ \A e \in Entries(s)' : heap'[e] = 1
  <2> HIDE DEF F, E
  <2> QED
    BY <1>1, <1>3, BuiltEffect
<1>5. ~WillReAdd(s)' /\ s \notin running'
  BY <1>1, <1>2 DEF WillReAdd
<1>6. Sane(s)'
  BY <1>4, <1>5 DEF Sane
<1>7. db[s] \in Rows /\ db[s].at \in Nat /\ now \in Nat
  BY RowTypes DEF ArmHyps, TypeOK, TableType
<1>8. db'[s].at = db[s].at /\ (db'[s].status = "fresh" => db[s].status = "fresh")
      /\ (s \in F => db'[s] = db[s] /\ db[s].status = "active")
      /\ (s \notin F /\ db'[s].status = "active" => db'[s].next = Null)
  BY <1>1, <1>7 DEF Rows, Loaded
<1>9. ShotOK(s)'
  <2>1. s \in F /\ Kind[s] = "once" => BuildTime(s, now) = db[s].at /\ db[s].at > now
    BY DEF BuildTime
  <2>2. s \in F => s \notin shots
    BY <1>2, <1>7, <2>1 DEF SubOK, ShotOK
  <2>3. Kind[s] = "once" => \A e \in Entries(s)' : e[2] = db'[s].at
    BY <1>4, <1>8, <2>1
  <2> QED
    BY <1>1, <1>2, <1>4, <1>5, <1>8, <2>2, <2>3 DEF ShotOK, SubOK
<1>10. s \notin F => Quiet(s)'
  BY <1>4, <1>5 DEF Quiet
<1>11. FreshOK(s)'
  BY <1>1, <1>2, <1>5, <1>8, <1>10 DEF FreshOK, SubOK
<1>12. RestOK(s)'
  <2>1. s \in F => Entries(s)' # {}
    BY <1>4
  <2> QED
    BY <1>5, <1>8, <1>10, <2>1 DEF RestOK, AtRest, Expected
<1>13. OpsUnderWay' = {}
  BY <1>1, <1>2 DEF OpsUnderWay
<1> QED
  BY <1>6, <1>9, <1>11, <1>12, <1>13 DEF SubOK

(***************************************************************************)
(* The requests themselves, and the instances.                             *)
(***************************************************************************)

\* A request on an instance that nobody else changes keeps its conditions.
LEMMA OpFrame ==
    ASSUME TypeOK, TypeOK', NEW o, o.at \in 0..MaxTime, OpOK(o), now' >= now,
           inst'[o.inst] = inst[o.inst], instRow'[o.inst] = instRow[o.inst]
    PROVE  OpOK(o)'
<1>1. o.at <= now'
  BY ClockAssumption DEF OpOK, TypeOK, ProcType
<1> QED
  BY <1>1 DEF OpOK

\* A step of the request of c on instance j: the requests on other instances
\* are untouched.
OpStep(c, j) ==
    /\ op[c] # Nil \/ op'[c] # Nil
    /\ op[c] # Nil => op[c].inst = j
    /\ op'[c] # Nil => op'[c].inst = j
    /\ \A d \in Callers \ {c} : op'[d] = op[d]
    /\ \A i \in Instances \ {j} : inst'[i] = inst[i] /\ instRow'[i] = instRow[i]
    /\ \A s \in Subs : InstOf[s] # j /\ db'[s].status = "active" => db[s].status = "active"
    /\ now' = now

\* Serialized: the other requests are on other instances.
LEMMA OthersElsewhere ==
    ASSUME ArmHyps, NEW c \in Callers, NEW j, OpStep(c, j)
    PROVE  \A d \in OpsUnderWay \ {c} : op[d].inst # j
<1> SUFFICES ASSUME NEW d \in OpsUnderWay \ {c}, op[d].inst = j PROVE FALSE
  OBVIOUS
<1>1. d \in Callers /\ op[d] # Nil /\ op'[d] = op[d]
  BY DEF OpsUnderWay, OpStep
<1>2. CASE op[c] # Nil
  BY <1>1, <1>2 DEF OpsUnderWay, OpStep, ArmHyps, Serialized
<1>3. CASE op'[c] # Nil
  <2>1. c \in OpsUnderWay' /\ d \in OpsUnderWay' /\ op'[c].inst = op'[d].inst
    BY <1>1, <1>3 DEF OpsUnderWay, OpStep
  <2> QED
    BY <2>1 DEF ArmHyps, Serialized
<1> QED
  BY <1>2, <1>3 DEF OpStep

\* So only the request that moves has to be looked at,
LEMMA OpByStep ==
    ASSUME ArmHyps, NEW c \in Callers, NEW j, OpStep(c, j), op'[c] # Nil => OpOK(op[c])'
    PROVE  \A d \in OpsUnderWay' : OpOK(op[d])'
<1> SUFFICES ASSUME NEW d \in OpsUnderWay', d # c PROVE OpOK(op[d])'
  BY DEF OpsUnderWay
<1>1. d \in OpsUnderWay /\ op'[d] = op[d] /\ d \in Callers /\ op[d] # Nil
  BY DEF OpsUnderWay, OpStep
<1>2. op[d].inst # j /\ op[d].inst \in Instances
  BY <1>1, OthersElsewhere, OpShape
<1>3. op[d].at \in 0..MaxTime
  <2>1. op[d] \in SubOps \cup InstOps
    BY <1>1, OpShape
  <2> QED
    BY <2>1 DEF SubOps, InstOps
<1>4. PICK o : o = op[d]
  OBVIOUS
<1>5. OpOK(o) /\ now' >= now
  BY <1>1, <1>4 DEF ArmHyps, ArmInv, OpStep, TypeOK, ProcType
<1>6. OpOK(o)'
  BY <1>2, <1>3, <1>4, <1>5, OpFrame DEF ArmHyps, OpStep
<1> QED
  BY <1>1, <1>4, <1>6

\* and only its instance.
LEMMA InstByStep ==
    ASSUME ArmHyps, NEW c \in Callers, NEW j, OpStep(c, j), InstOK(j)', NEW i \in Instances
    PROVE  InstOK(i)'
<1> SUFFICES ASSUME i # j PROVE InstOK(i)'
  OBVIOUS
<1>1. \A d \in OpsUnderWay : op[d].inst = i => d \in OpsUnderWay' /\ op'[d] = op[d]
  BY DEF OpsUnderWay, OpStep
<1>2. inst'[i] = inst[i] /\ instRow'[i] = instRow[i]
      /\ \A s \in SubsOf(i) : db'[s].status = "active" => db[s].status = "active"
  BY DEF OpStep, SubsOf
<1>3. InstOK(i)
  BY DEF ArmHyps, ArmInv
<1> QED
  BY <1>1, <1>2, <1>3 DEF InstOK

\* Steps of a request in which its instance and its active rows stay.
LEMMA InstSame ==
    ASSUME ArmHyps, NEW c \in Callers, NEW j \in Instances, OpStep(c, j),
           op[c] # Nil => op[c].pc \notin {"startRow", "pauseRows"},
           inst'[j] = inst[j], instRow'[j] = instRow[j],
           \A s \in SubsOf(j) : db'[s].status = "active" => db[s].status = "active"
    PROVE  InstOK(j)'
<1>1. ~\E d \in OpsUnderWay : op[d].pc \in {"startRow", "pauseRows"} /\ op[d].inst = j
  BY OthersElsewhere DEF OpsUnderWay
<1>2. InstOK(j)
  BY DEF ArmHyps, ArmInv
<1> QED
  BY <1>1, <1>2 DEF InstOK

\* Requests that begin.
LEMMA ArmOpsBegin ==
    ASSUME ArmHyps, NEW c \in Callers, BeginSub(c) \/ BeginInst(c)
    PROVE  (\A d \in OpsUnderWay' : OpOK(op[d])') /\ (\A i \in Instances : InstOK(i)')
<1>t. OpType /\ db \in [Subs -> Rows] /\ now \in Nat
      /\ inst \in [Instances -> {"running", "stopped", "absent"}]
      /\ instRow \in [Instances -> {"running", "stopped", "gone"}]
  BY ClockAssumption DEF ArmHyps, TypeOK, TableType, ProcType
<1>1. ASSUME NEW u \in Subs,
             ScheduleRecurring(c, u) \/ ScheduleOnce(c, u) \/ CancelSchedule(c, u)
             \/ PauseSubscription(c, u) \/ ResumeSubscription(c, u)
      PROVE  (\A d \in OpsUnderWay' : OpOK(op[d])') /\ (\A i \in Instances : InstOK(i)')
  <2> DEFINE j == InstOf[u]
  <2>1. j \in Instances
    BY SubsAssumption
  <2>2. op[c] = Nil /\ UNCHANGED <<now, inst, instRow>>
    BY <1>1 DEF ScheduleRecurring, ScheduleOnce, CancelSchedule, PauseSubscription,
                ResumeSubscription, MayBegin, tableVars
  <2>3. PICK k \in SubRequests, pc \in {"add", "remove", "activate"} :
          /\ Begin(c, Request(k, pc, u, j))
          /\ pc = "activate" => ResumeSubscription(c, u)
    BY <1>1 DEF ScheduleRecurring, ScheduleOnce, CancelSchedule, PauseSubscription,
                ResumeSubscription, ResumeClass, SubRequests
  <2>4. /\ op'[c] # Nil /\ op'[c].pc = pc /\ op'[c].sub = u /\ op'[c].inst = j
        /\ op'[c].at = 0 /\ op'[c].todo = {} /\ op'[c].built = {}
        /\ \A d \in Callers \ {c} : op'[d] = op[d]
    BY <1>t, <2>1, <2>3, BeginFields
  <2>5. \A s \in Subs : s # u => db'[s] = db[s]
    <3>1. CASE ScheduleOnce(c, u)
      <4>1. PICK t : db' = [db EXCEPT ![u] = [status |-> "active", next |-> t, at |-> Trunc(t)]]
        BY <3>1 DEF ScheduleOnce
      <4> QED
        BY <1>t, <4>1
    <3>2. CASE ~ScheduleOnce(c, u)
      BY <1>1, <1>t, <3>2 DEF ScheduleRecurring, CancelSchedule, PauseSubscription,
                ResumeSubscription, DeleteSubscription, tableVars
    <3> QED
      BY <3>1, <3>2
  <2>6. OpStep(c, j)
    BY <2>2, <2>4, <2>5 DEF OpStep
  <2>7. OpOK(op[c])'
    <3>1. "start" \in Requests /\ pc = "activate" => inst[j] = "running"
      <4>1. pc = "activate" => ResumeClass(u) \in Requests /\ HasRow(u)
        BY <2>3 DEF ResumeSubscription, MayBegin
      <4> QED
        BY <4>1 DEF ResumeClass, ArmHyps, RestartSafe
    <3>2. 0 <= now'
      BY <1>t, <2>2
    <3> QED
      BY <2>2, <2>4, <3>1, <3>2 DEF OpOK, StartPcs
  <2>8. InstOK(j)'
    <3>1. CASE ScheduleRecurring(c, u) \/ ScheduleOnce(c, u)
      <4>1. inst[j] = "running"
        BY <3>1 DEF ScheduleRecurring, ScheduleOnce
      <4>2. \A d \in OpsUnderWay : op[d].inst # j
        BY <2>2, <2>4, BeginContext
      <4>3. "start" \in Requests => instRow[j] # "stopped"
        BY <2>1, <4>1, <4>2 DEF ArmHyps, ArmInv, InstOK
      <4> QED
        BY <2>2, <4>1, <4>3 DEF InstOK
    <3>2. CASE CancelSchedule(c, u) \/ PauseSubscription(c, u) \/ ResumeSubscription(c, u)
      <4>1. db'[u].status = "active" => db[u].status = "active"
        BY <1>t, <3>2 DEF CancelSchedule, PauseSubscription, ResumeSubscription,
                          DeleteSubscription, HasRow, tableVars, Rows
      <4>2. \A s \in SubsOf(j) : db'[s].status = "active" => db[s].status = "active"
        BY <2>5, <4>1 DEF SubsOf
      <4> QED
        BY <2>1, <2>2, <2>6, <4>2, InstSame
    <3> QED
      BY <1>1, <3>1, <3>2
  <2> QED
    BY <2>6, <2>7, <2>8, OpByStep, InstByStep
<1>2. ASSUME NEW j \in Instances, StopInstance(c, j) \/ StartInstance(c, j) \/ DeleteInstance(c, j)
      PROVE  (\A d \in OpsUnderWay' : OpOK(op[d])') /\ (\A i \in Instances : InstOK(i)')
  <2>1. op[c] = Nil /\ UNCHANGED <<now, db>>
        /\ (\A i \in Instances \ {j} : inst'[i] = inst[i] /\ instRow'[i] = instRow[i])
    BY <1>2, <1>t DEF StopInstance, StartInstance, DeleteInstance, MayBegin, tableVars
  <2>2. PICK k \in InstRequests, pc \in {"pauseRows", "unregister"} :
          /\ Begin(c, Request(k, pc, Nil, j))
          /\ pc = "unregister" => StartInstance(c, j)
          /\ pc = "pauseRows" => inst'[j] # "running"
    <3>1. CASE StartInstance(c, j)
      BY <3>1 DEF StartInstance, InstRequests
    <3>2. CASE StopInstance(c, j) \/ DeleteInstance(c, j)
      <4>1. inst'[j] # "running"
        BY <1>t, <3>2 DEF StopInstance, DeleteInstance
      <4> QED
        BY <3>2, <4>1 DEF StopInstance, DeleteInstance, InstRequests
    <3> QED
      BY <1>2, <3>1, <3>2
  <2>3. /\ op'[c] # Nil /\ op'[c].pc = pc /\ op'[c].sub = Nil /\ op'[c].inst = j
        /\ op'[c].at = 0 /\ op'[c].todo = {} /\ op'[c].built = {}
        /\ \A d \in Callers \ {c} : op'[d] = op[d]
    BY <1>t, <2>2, BeginFields
  <2>4. OpStep(c, j)
    BY <2>1, <2>3 DEF OpStep
  <2>5. OpOK(op[c])'
    <3>1. pc = "unregister" => "start" \in Requests
      BY <2>2 DEF StartInstance, MayBegin
    <3>2. 0 <= now'
      BY <1>t, <2>1
    <3> QED
      BY <2>3, <3>1, <3>2 DEF OpOK, StartPcs
  <2>6. InstOK(j)'
    <3>1. CASE pc = "unregister"
      <4>1. inst' = inst /\ instRow' = instRow
        BY <2>2, <3>1 DEF StartInstance, tableVars
      <4> QED
        BY <2>1, <2>4, <4>1, InstSame
    <3>2. CASE pc = "pauseRows"
      <4>1. c \in OpsUnderWay' /\ op'[c].pc = "pauseRows" /\ op'[c].inst = j
        BY <2>3, <3>2 DEF OpsUnderWay
      <4> QED
        BY <2>2, <3>2, <4>1 DEF InstOK
    <3> QED
      BY <3>1, <3>2
  <2> QED
    BY <2>4, <2>5, <2>6, OpByStep, InstByStep
<1> QED
  BY <1>1, <1>2 DEF BeginSub, BeginInst

\* Requests that go on or return.
LEMMA ArmOpsSubStep ==
    ASSUME ArmHyps, NEW c \in Callers, Add(c) \/ Remove(c) \/ Activate(c)
    PROVE  (\A d \in OpsUnderWay' : OpOK(op[d])') /\ (\A i \in Instances : InstOK(i)')
<1>1. op[c] # Nil /\ op[c].pc \in {"add", "remove", "activate"} /\ UNCHANGED <<now, inst, instRow>>
  BY DEF Add, Remove, Activate, procVars, tableVars
<1>2. PICK u \in Subs : u = op[c].sub /\ op[c] \in SubOps /\ OpType
  BY <1>1, OpShape
<1> DEFINE j == InstOf[u]
<1>3. OpOK(op[c]) /\ op[c].inst = j /\ j \in Instances
  BY <1>1, <1>2, NilAssumption, SubsAssumption DEF ArmHyps, ArmInv, OpsUnderWay, OpOK
<1>4. db \in [Subs -> Rows] /\ now \in Nat
  BY ClockAssumption DEF ArmHyps, TypeOK, TableType, ProcType
<1>5. \A s \in Subs : s # u => db'[s] = db[s]
  BY <1>2, <1>4 DEF Add, Remove, Activate, DeleteSubscription, SetStatus, tableVars
<1>6. CASE Return(c)
  <2>1. op'[c] = Nil /\ \A d \in Callers \ {c} : op'[d] = op[d]
    BY <1>2, <1>6, ReturnFields
  <2>2. OpStep(c, j)
    BY <1>1, <1>3, <1>5, <2>1 DEF OpStep
  <2>3. db'[u].status = "active" => db[u].status = "active"
    <3>1. CASE Add(c)
      BY <1>2, <1>4, <3>1 DEF Add, DeleteSubscription, HasRow, Rows
    <3>2. CASE Remove(c)
      BY <3>2 DEF Remove, tableVars
    <3>3. CASE Activate(c)
      <4>1. ~HasRow(u)
        <5>1. ASSUME HasRow(u) PROVE FALSE
          <6>1. Continue(c, "add")
            BY <1>2, <3>3, <5>1 DEF Activate
          <6>2. op'[c] # Nil
            BY <1>1, <1>2, <6>1, ContinueFields
          <6> QED
            BY <2>1, <6>2
        <5> QED
          BY <5>1
      <4> QED
        BY <1>2, <3>3, <4>1 DEF Activate, SetStatus
    <3> QED
      BY <3>1, <3>2, <3>3
  <2>4. InstOK(j)'
    BY <1>1, <1>3, <1>5, <2>2, <2>3, InstSame DEF SubsOf
  <2> QED
    BY <2>1, <2>2, <2>4, OpByStep, InstByStep
<1>7. CASE Activate(c) /\ Continue(c, "add")
  <2>1. /\ op'[c] # Nil /\ op'[c].pc = "add" /\ op'[c].sub = u /\ op'[c].inst = j
        /\ op'[c].at = op[c].at /\ op'[c].todo = op[c].todo /\ op'[c].built = op[c].built
        /\ \A d \in Callers \ {c} : op'[d] = op[d]
    BY <1>1, <1>2, <1>3, <1>7, ContinueFields
  <2>2. OpStep(c, j)
    BY <1>1, <1>3, <1>5, <2>1 DEF OpStep
  <2>3. op[c].pc = "activate"
    BY <1>7 DEF Activate
  <2>4. OpOK(op[c])'
    BY <1>1, <1>3, <2>1, <2>3 DEF OpOK, StartPcs
  <2>5. InstOK(j)'
    <3>1. "start" \in Requests => inst[j] = "running"
      BY <1>3, <2>3 DEF OpOK
    <3>2. \A d \in OpsUnderWay : op[d].inst = j => op[d].pc # "startRow"
      BY <2>2, <2>3, OthersElsewhere
    <3>3. "start" \in Requests => instRow[j] # "stopped"
      BY <1>3, <3>1, <3>2 DEF ArmHyps, ArmInv, InstOK
    <3> QED
      BY <1>1, <3>1, <3>3 DEF InstOK
  <2> QED
    BY <2>2, <2>4, <2>5, OpByStep, InstByStep
<1> QED
  BY <1>2, <1>6, <1>7 DEF Add, Remove, Activate

\* StopInstance, DeleteInstance and StartInstance up to the resumption.
LEMMA ArmOpsInstStep ==
    ASSUME ArmHyps, NEW c \in Callers,
           PauseRows(c) \/ PauseHeap(c) \/ DropRow(c) \/ Unregister(c) \/ Spawn(c) \/ StartRow(c)
    PROVE  (\A d \in OpsUnderWay' : OpOK(op[d])') /\ (\A i \in Instances : InstOK(i)')
<1>j. PICK j : j = op[c].inst
  OBVIOUS
<1> USE <1>j
<1> DEFINE Places == {"pauseHeap", "dropRow", "spawn", "startRow", "resumeRows"}
<1>1. op[c] # Nil /\ now' = now
      /\ op[c].pc \in {"pauseRows", "pauseHeap", "dropRow", "unregister", "spawn", "startRow"}
      /\ (Return(c) \/ \E pc \in Places : Continue(c, pc))
  BY DEF PauseRows, PauseHeap, DropRow, Unregister, Spawn, StartRow, procVars
<1>2. /\ op[c].sub = Nil /\ \A d \in Callers \ {c} : op'[d] = op[d]
      /\ op'[c] # Nil => /\ op'[c].sub = Nil /\ op'[c].inst = j
                         /\ op'[c].built = op[c].built /\ op'[c].todo = op[c].todo
                         /\ op'[c].at = op[c].at
      /\ \A pc \in Places : Continue(c, pc) => op'[c] # Nil /\ op'[c].pc = pc
      /\ Return(c) => op'[c] = Nil
  BY <1>1, InstStepFields
<1>3. OpOK(op[c]) /\ j \in Instances /\ c \in OpsUnderWay /\ InstOK(j)
  BY <1>1, OpShape DEF ArmHyps, ArmInv, OpsUnderWay
<1>4. db \in [Subs -> Rows] /\ inst \in [Instances -> {"running", "stopped", "absent"}]
      /\ instRow \in [Instances -> {"running", "stopped", "gone"}]
  BY DEF ArmHyps, TypeOK, TableType
<1>5. \A s \in Subs : db'[s].status = "active" => db[s].status = "active"
  <2>1. CASE PauseRows(c)
    BY <1>4, <2>1 DEF PauseRows, Rows
  <2>2. CASE DropRow(c)
    BY <1>4, <2>2 DEF DropRow, Rows
  <2>3. CASE PauseHeap(c) \/ Unregister(c) \/ Spawn(c) \/ StartRow(c)
    BY <2>3 DEF PauseHeap, Unregister, Spawn, StartRow, tableVars
  <2> QED
    BY <2>1, <2>2, <2>3
<1>6. \A i \in Instances \ {j} : inst'[i] = inst[i] /\ instRow'[i] = instRow[i]
  BY <1>4 DEF PauseRows, PauseHeap, DropRow, Unregister, Spawn, StartRow, tableVars
<1>7. OpStep(c, j)
  BY <1>1, <1>2, <1>5, <1>6 DEF OpStep
<1>8. \A d \in OpsUnderWay : op[d].inst = j => d = c
  BY <1>7, OthersElsewhere
<1>9. \A s \in SubsOf(j) : StepOK(op[c], s)
  BY <1>2, <1>3 DEF SubsOf, About, ArmHyps, ArmInv, SubOK
<1>10. op[c].pc \in StartPcs \ {"build"} => \A s \in SubsOf(j) : db'[s].status # "active"
  BY <1>5, <1>9 DEF StepOK, SubsOf
<1>11. CASE PauseRows(c)
  <2>1. op[c].pc = "pauseRows" /\ op'[c].pc = "pauseHeap" /\ op'[c] # Nil /\ UNCHANGED <<inst, instRow>>
    BY <1>2, <1>11 DEF PauseRows
  <2>2. OpOK(op[c])'
    BY <1>1, <1>2, <1>3, <2>1 DEF OpOK, StartPcs
  <2>3. \A s \in SubsOf(j) : db'[s].status # "active"
    BY <1>4, <1>11 DEF PauseRows, SubsOf, Rows
  <2>4. InstOK(j)'
    BY <1>3, <1>8, <2>1, <2>3 DEF InstOK
  <2> QED
    BY <1>7, <2>2, <2>4, OpByStep, InstByStep
<1>12. CASE PauseHeap(c)
  <2>1. op[c].pc = "pauseHeap" /\ UNCHANGED <<inst, instRow>> /\ (op'[c] # Nil => op'[c].pc = "dropRow")
    BY <1>2, <1>12 DEF PauseHeap, tableVars
  <2>2. op'[c] # Nil => OpOK(op[c])'
    BY <1>1, <1>2, <1>3, <2>1 DEF OpOK, StartPcs
  <2>3. InstOK(j)'
    BY <1>3, <1>5, <1>7, <2>1, InstSame DEF SubsOf
  <2> QED
    BY <1>7, <2>2, <2>3, OpByStep, InstByStep
<1>13. CASE DropRow(c)
  <2>1. op[c].pc = "dropRow" /\ inst' = inst /\ instRow'[j] = "gone" /\ op'[c] = Nil
    BY <1>2, <1>3, <1>4, <1>13 DEF DropRow
  <2>2. \A s \in SubsOf(j) : db'[s].status # "active"
    BY <1>5, <1>9, <2>1 DEF StepOK, SubsOf
  <2>3. InstOK(j)'
    BY <2>1, <2>2 DEF InstOK
  <2> QED
    BY <1>7, <2>1, <2>3, OpByStep, InstByStep
<1>14. CASE Unregister(c)
  <2>1. op[c].pc = "unregister" /\ inst'[j] = "absent" /\ op'[c] # Nil /\ op'[c].pc = "spawn"
    BY <1>2, <1>3, <1>4, <1>14 DEF Unregister
  <2>2. OpOK(op[c])'
    BY <1>1, <1>2, <1>3, <2>1 DEF OpOK, StartPcs
  <2>3. InstOK(j)'
    BY <1>10, <2>1 DEF InstOK, StartPcs
  <2> QED
    BY <1>7, <2>2, <2>3, OpByStep, InstByStep
<1>15. CASE Spawn(c)
  <2>1. op[c].pc = "spawn"
    BY <1>15 DEF Spawn
  <2>2. \/ inst'[j] = "running" /\ op'[c] # Nil /\ op'[c].pc = "startRow"
        \/ inst'[j] = "stopped" /\ op'[c] = Nil
    BY <1>2, <1>3, <1>4, <1>15 DEF Spawn
  <2>3. op'[c] # Nil => OpOK(op[c])'
    BY <1>1, <1>2, <1>3, <2>1, <2>2 DEF OpOK, StartPcs
  <2>4. InstOK(j)'
    <3>1. op'[c] # Nil => c \in OpsUnderWay' /\ op'[c].inst = j
      BY <1>2 DEF OpsUnderWay
    <3> QED
      BY <1>10, <2>1, <2>2, <3>1 DEF InstOK, StartPcs
  <2> QED
    BY <1>7, <2>3, <2>4, OpByStep, InstByStep
<1>16. CASE StartRow(c)
  <2>1. op[c].pc = "startRow" /\ op'[c] # Nil /\ op'[c].pc = "resumeRows"
        /\ inst' = inst /\ instRow'[j] # "stopped"
    BY <1>2, <1>3, <1>4, <1>16 DEF StartRow
  <2>2. OpOK(op[c])'
    BY <1>1, <1>2, <1>3, <2>1 DEF OpOK, StartPcs
  <2>3. InstOK(j)'
    BY <1>10, <2>1 DEF InstOK, StartPcs
  <2> QED
    BY <1>7, <2>2, <2>3, OpByStep, InstByStep
<1> QED
  BY <1>11, <1>12, <1>13, <1>14, <1>15, <1>16

\* ResumeInstance: the instance runs and its row says so.
LEMMA ArmOpsResume ==
    ASSUME ArmHyps, NEW c \in Callers, ResumeRows(c) \/ Build(c) \/ PushBuilt(c)
    PROVE  (\A d \in OpsUnderWay' : OpOK(op[d])') /\ (\A i \in Instances : InstOK(i)')
<1>j. PICK j : j = op[c].inst
  OBVIOUS
<1> USE <1>j
<1>1. op[c] # Nil /\ UNCHANGED <<now, inst, instRow>> /\ op[c].pc \in {"resumeRows", "build"}
  BY DEF ResumeRows, Build, PushBuilt, procVars, tableVars
<1>2. OpOK(op[c]) /\ j \in Instances /\ op[c].sub = Nil /\ op[c] \in InstOps /\ OpType
  BY <1>1, OpShape DEF ArmHyps, ArmInv, OpsUnderWay
<1>3. "start" \in Requests => inst[j] = "running" /\ instRow[j] # "stopped"
  BY <1>1, <1>2 DEF OpOK
<1>4. InstOK(j)'
  BY <1>1, <1>3 DEF InstOK
<1>5. db \in [Subs -> Rows] /\ now \in Nat /\ now \in 0..MaxTime
  BY ClockAssumption DEF ArmHyps, TypeOK, TableType, ProcType
<1>6. CASE ResumeRows(c)
  <2> DEFINE T == {v \in SubsOf(j) : HasRow(v)}
             r == [op[c] EXCEPT !.pc = "build", !.at = now, !.todo = T]
  <2>1. op' = [op EXCEPT ![c] = r]
    BY <1>6 DEF ResumeRows
  <2>2. op'[c] = r /\ \A d \in Callers \ {c} : op'[d] = op[d]
    BY <1>2, <2>1 DEF OpType
  <2>3. r.pc = "build" /\ r.sub = Nil /\ r.inst = j /\ r.at = now /\ r.todo = T /\ r.built = op[c].built
    BY <1>2 DEF InstOps
  <2>4. \A s \in Subs : InstOf[s] # j => db'[s] = db[s]
    BY <1>6 DEF ResumeRows
  <2> HIDE DEF r
  <2>5. OpStep(c, j)
    BY <1>1, <2>2, <2>3, <2>4 DEF OpStep
  <2>6. OpOK(op[c])'
    <3>1. now <= now'
      BY <1>1, <1>5
    <3>2. \A s \in T : InstOf[s] = j
      BY DEF SubsOf
    <3> HIDE DEF T
    <3> QED
      BY <1>1, <1>2, <2>2, <2>3, <3>1, <3>2 DEF OpOK, StartPcs
  <2> QED
    BY <1>4, <2>5, <2>6, OpByStep, InstByStep
<1>7. CASE Build(c)
  <2>1. PICK v \in op[c].todo, t \in Nat \cup {Null} :
             /\ v \in Subs /\ InstOf[v] = op[c].inst /\ t = BuildTime(v, op[c].at)
             /\ db' = IF t = Null THEN DeleteSubscription(v)
                      ELSE IF HasRow(v)
                           THEN [db EXCEPT ![v].status = "active", ![v].next = t] ELSE db
             /\ op'[c] # Nil /\ op'[c].pc = "build" /\ op'[c].sub = Nil /\ op'[c].inst = op[c].inst
             /\ op'[c].at = op[c].at /\ op'[c].todo = op[c].todo \ {v}
             /\ op'[c].built = IF t = Null THEN op[c].built ELSE op[c].built \cup {<<v, t>>}
             /\ \A d \in Callers \ {c} : op'[d] = op[d]
    BY <1>7, BuildStep
  <2>2. \A s \in Subs : s # v => db'[s] = db[s]
    BY <1>5, <2>1 DEF DeleteSubscription
  <2>3. OpStep(c, j)
    BY <1>1, <2>1, <2>2 DEF OpStep
  <2>4. op[c].pc = "build"
    BY <1>7 DEF Build
  <2>5. OpOK(op[c])'
    BY <1>1, <1>2, <2>1, <2>4 DEF OpOK, StartPcs
  <2> QED
    BY <1>4, <2>3, <2>5, OpByStep, InstByStep
<1>8. CASE PushBuilt(c)
  <2>1. op'[c] = Nil /\ (\A d \in Callers \ {c} : op'[d] = op[d]) /\ db' = db
    BY <1>2, <1>8, ReturnFields DEF PushBuilt, tableVars
  <2>2. OpStep(c, j)
    BY <1>1, <2>1 DEF OpStep
  <2> QED
    BY <1>4, <2>1, <2>2, OpByStep, InstByStep
<1> QED
  BY <1>6, <1>7, <1>8

\* Steps that are no request's.
LEMMA ArmOpsElse ==
    ASSUME ArmHyps, op' = op, inst' = inst, instRow' = instRow, now' >= now,
           \A s \in Subs : db'[s].status = "active" => db[s].status = "active"
    PROVE  (\A d \in OpsUnderWay' : OpOK(op[d])') /\ (\A i \in Instances : InstOK(i)')
<1>1. ASSUME NEW d \in OpsUnderWay' PROVE OpOK(op[d])'
  <2>1. d \in OpsUnderWay /\ d \in Callers /\ op[d] # Nil
    BY DEF OpsUnderWay
  <2>2. op[d].at \in 0..MaxTime
    <3>1. op[d] \in SubOps \cup InstOps
      BY <2>1, OpShape
    <3> QED
      BY <3>1 DEF SubOps, InstOps
  <2>3. PICK o : o = op[d]
    OBVIOUS
  <2>4. OpOK(o)
    BY <2>1, <2>3 DEF ArmHyps, ArmInv
  <2>5. OpOK(o)'
    BY <2>2, <2>3, <2>4, OpFrame DEF ArmHyps
  <2> QED
    BY <2>3, <2>5
<1>2. ASSUME NEW i \in Instances PROVE InstOK(i)'
  <2>1. InstOK(i) /\ OpsUnderWay' = OpsUnderWay
    BY DEF ArmHyps, ArmInv, OpsUnderWay
  <2> QED
    BY <2>1 DEF InstOK, SubsOf
<1> QED
  BY <1>1, <1>2

(***************************************************************************)
(* The fires themselves.                                                   *)
(***************************************************************************)

\* Fires that the step does not move.
LEMMA FireFrame ==
    ASSUME ArmHyps, NEW g \in Fires, fire[g] # Nil, fire'[g] = fire[g], shots \subseteq shots',
           mode' = "up" => mode = "up",
           \A s \in shots : mode' = "up" /\ HasRow(s)'
             => HasRow(s) /\ (db'[s].next = db[s].next \/ db'[s].next = Null)
    PROVE  FireOK(fire[g])'
<1>1. FireOK(fire[g])
  BY DEF ArmHyps, ArmInv, InFlight
<1> QED
  BY <1>1 DEF FireOK

\* Steps that move no fire.
LEMMA ArmFires ==
    ASSUME ArmHyps, fire' = fire, shots' = shots, mode' = "up" => mode = "up",
           \A s \in shots : mode' = "up" /\ HasRow(s)'
             => HasRow(s) /\ (db'[s].next = db[s].next \/ db'[s].next = Null)
    PROVE  \A g \in InFlight' : FireOK(fire[g])'
BY FireFrame DEF InFlight

\* No request makes a one-shot that was launched due again.
LEMMA ArmFiresRequests ==
    ASSUME ArmHyps, NEW c \in Callers, BeginSub(c) \/ BeginInst(c) \/ Step(c)
    PROVE  \A g \in InFlight' : FireOK(fire[g])'
<1>t. db \in [Subs -> Rows] /\ shots \subseteq Subs
  BY DEF ArmHyps, TypeOK, TableType, FireType
<1>1. fire' = fire /\ shots' = shots /\ mode' = mode
  <2>1. CASE BeginSub(c) \/ BeginInst(c)
    BY <2>1 DEF BeginSub, BeginInst, ScheduleRecurring, ScheduleOnce, CancelSchedule, PauseSubscription,
         ResumeSubscription, StopInstance, StartInstance, DeleteInstance, fireVars
  <2>2. CASE Step(c)
    BY <2>2 DEF Step, Add, Remove, Activate, PauseRows, PauseHeap, DropRow, Unregister, Spawn,
         StartRow, ResumeRows, Build, PushBuilt, fireVars, procVars
  <2> QED
    BY <2>1, <2>2
<1>2. ASSUME NEW s \in shots, HasRow(s)'
      PROVE  HasRow(s) /\ (db'[s].next = db[s].next \/ db'[s].next = Null)
  <2>s. s \in Subs /\ SubOK(s) /\ db[s].status # "fresh"
    BY <1>t DEF ArmHyps, ArmInv, SubOK, FreshOK
  <2>1. CASE BeginSub(c)
    <3>1. PICK u \in Subs : ScheduleRecurring(c, u) \/ ScheduleOnce(c, u) \/ CancelSchedule(c, u)
            \/ PauseSubscription(c, u) \/ ResumeSubscription(c, u)
      BY <2>1 DEF BeginSub
    <3>2. CASE ScheduleRecurring(c, u)
      BY <1>2, <1>t, <2>s, <3>2 DEF ScheduleRecurring, HasRow
    <3>3. CASE ScheduleOnce(c, u)
      <4>1. PICK t : db' = [db EXCEPT ![u] = [status |-> "active", next |-> t, at |-> Trunc(t)]]
        BY <3>3 DEF ScheduleOnce
      <4>2. s # u
        BY <2>s, <3>3 DEF ScheduleOnce
      <4> QED
        BY <1>2, <1>t, <2>s, <4>1, <4>2 DEF HasRow
    <3>4. CASE CancelSchedule(c, u)
      BY <1>2, <1>t, <2>s, <3>4 DEF CancelSchedule, DeleteSubscription, HasRow, Rows
    <3>5. CASE PauseSubscription(c, u)
      BY <1>2, <1>t, <2>s, <3>5 DEF PauseSubscription, HasRow, Rows
    <3>6. CASE ResumeSubscription(c, u)
      BY <1>2, <3>6 DEF ResumeSubscription, tableVars, HasRow
    <3> QED
      BY <3>1, <3>2, <3>3, <3>4, <3>5, <3>6
  <2>2. CASE BeginInst(c) \/ Remove(c) \/ PauseHeap(c) \/ Unregister(c) \/ Spawn(c)
             \/ StartRow(c) \/ PushBuilt(c)
    <3>1. db' = db
      BY <2>2 DEF BeginInst, StopInstance, StartInstance, DeleteInstance, Remove, PauseHeap,
                  Unregister, Spawn, StartRow, PushBuilt, tableVars
    <3> QED
      BY <1>2, <3>1 DEF HasRow
  <2>3. CASE Add(c)
    <3>1. op[c].sub \in Subs
      BY <2>3, OpShape DEF Add
    <3> QED
      BY <1>2, <1>t, <2>s, <2>3, <3>1 DEF Add, DeleteSubscription, HasRow, Rows
  <2>4. CASE Activate(c)
    <3>1. op[c].sub \in Subs
      BY <2>4, OpShape DEF Activate
    <3> QED
      BY <1>2, <1>t, <2>s, <2>4, <3>1 DEF Activate, SetStatus, HasRow, Rows
  <2>5. CASE PauseRows(c) \/ ResumeRows(c)
    BY <1>2, <1>t, <2>s, <2>5 DEF PauseRows, ResumeRows, HasRow, Rows
  <2>6. CASE DropRow(c)
    BY <1>2, <1>t, <2>s, <2>6 DEF DropRow, HasRow, Rows
  <2>7. CASE Build(c)
    <3>1. PICK v \in op[c].todo, t \in Nat \cup {Null} :
             /\ v \in Subs /\ InstOf[v] = op[c].inst /\ t = BuildTime(v, op[c].at)
             /\ db' = IF t = Null THEN DeleteSubscription(v)
                      ELSE IF HasRow(v)
                           THEN [db EXCEPT ![v].status = "active", ![v].next = t] ELSE db
             /\ op'[c] # Nil /\ op'[c].pc = "build" /\ op'[c].sub = Nil /\ op'[c].inst = op[c].inst
             /\ op'[c].at = op[c].at /\ op'[c].todo = op[c].todo \ {v}
             /\ op'[c].built = IF t = Null THEN op[c].built ELSE op[c].built \cup {<<v, t>>}
             /\ \A d \in Callers \ {c} : op'[d] = op[d]
      BY <2>7, BuildStep
    <3>2. CASE s # v
      <4>1. db'[s] = db[s]
        BY <1>t, <2>s, <3>1, <3>2 DEF DeleteSubscription
      <4> QED
        BY <1>2, <4>1 DEF HasRow
    <3>3. CASE s = v
      <4>1. op[c] # Nil /\ op[c].pc = "build"
        BY <2>7 DEF Build
      <4>2. op[c] \in InstOps /\ About(op[c], s)
        BY <2>s, <3>1, <3>3, <4>1, OpShape
      <4>3. Building(op[c], s) /\ op[c].at \in 0..MaxTime
        BY <2>s, <4>1, <4>2, StepContext DEF StepOK, InstOps
      <4>4. PICK o : o = op[c]
        OBVIOUS
      <4>5. t = Null
        BY <1>2, <2>s, <3>1, <3>3, <4>3, <4>4, BuiltNotShot
      <4> QED
        BY <1>2, <1>t, <2>s, <3>1, <3>3, <4>5 DEF DeleteSubscription, HasRow, Rows
    <3> QED
      BY <3>2, <3>3
  <2>8. CASE Step(c)
    BY <2>8, <2>2, <2>3, <2>4, <2>5, <2>6, <2>7 DEF Step
  <2> QED
    BY <2>1, <2>2, <2>8
<1> QED
  BY <1>1, <1>2, ArmFires

\* fireSingle and the launch.
LEMMA ArmFiresMove ==
    ASSUME ArmHyps, NEW g \in Fires, FireSingle(g) \/ Launch(g)
    PROVE  \A h \in InFlight' : FireOK(fire[h])'
<1>t. db \in [Subs -> Rows] /\ shots \subseteq Subs /\ fire \in [Fires -> FireRecs \cup {Nil}]
  BY DEF ArmHyps, TypeOK, TableType, FireType
<1>1. mode' = mode /\ shots \subseteq shots' /\ \A h \in Fires \ {g} : fire'[h] = fire[h]
  BY <1>t DEF FireSingle, TurnBegins, TurnEnds, Record, DropOneShot, Finish, Launch, procVars
<1>2. \A s \in shots : mode' = "up" /\ HasRow(s)'
             => HasRow(s) /\ (db'[s].next = db[s].next \/ db'[s].next = Null)
  <2> SUFFICES ASSUME NEW s \in shots, HasRow(s)'
               PROVE  HasRow(s) /\ (db'[s].next = db[s].next \/ db'[s].next = Null)
    OBVIOUS
  <2>1. CASE Record(g)
    <3>1. fire[g] \in FireRecs /\ fire[g].sub \in Subs /\ FireOK(fire[g])
      BY <1>t, <2>1 DEF Record, FireRecs, ArmHyps, ArmInv, InFlight
    <3>2. Kind[s] = "once"
      BY <1>t DEF ArmHyps, ArmInv, SubOK, ShotOK
    <3>3. s = fire[g].sub => fire[g].next = Null
      BY <3>1, <3>2 DEF FireOK
    <3> QED
      BY <1>t, <2>1, <3>1, <3>3 DEF Record, SetNext, HasRow, Rows
  <2>2. CASE DropOneShot(g)
    <3>1. fire[g].sub \in Subs
      BY <1>t, <2>2 DEF DropOneShot, FireRecs
    <3> QED
      BY <1>t, <2>2, <3>1 DEF DropOneShot, DeleteSubscription, HasRow, Rows
  <2>3. CASE TurnBegins(g) \/ TurnEnds(g) \/ Finish(g) \/ Launch(g)
    <3>1. db' = db
      BY <2>3 DEF TurnBegins, TurnEnds, Finish, Launch, tableVars
    <3> QED
      BY <3>1 DEF HasRow
  <2> QED
    BY <2>1, <2>2, <2>3 DEF FireSingle
<1>3. fire'[g] # Nil => FireOK(fire[g])'
  <2>1. CASE Launch(g)
    <3>1. PICK e \in Soonest :
        /\ fire' = [fire EXCEPT ![g] = [sub |-> e[1], pc |-> "launch", next |-> Null,
                                        ok |-> FALSE, held |-> FALSE]]
        /\ shots' = shots \cup (IF Kind[e[1]] = "once" THEN {e[1]} ELSE {})
      BY <2>1 DEF Launch
    <3>2. fire'[g] = [sub |-> e[1], pc |-> "launch", next |-> Null, ok |-> FALSE, held |-> FALSE]
      BY <1>t, <3>1
    <3> QED
      BY <3>1, <3>2 DEF FireOK
  <2>2. CASE FireSingle(g)
    <3>1. fire[g] \in FireRecs /\ fire[g] # Nil /\ FireOK(fire[g]) /\ fire[g].sub \in Subs
      BY <1>t, <2>2 DEF FireSingle, TurnBegins, TurnEnds, Record, DropOneShot, Finish,
                   FireRecs, ArmHyps, ArmInv, InFlight
    <3>k. Kind[fire[g].sub] \in {"cron", "once"}
      BY <3>1, SubsAssumption
    <3>2. CASE TurnBegins(g)
      <4>1. fire'[g] = [fire[g] EXCEPT !.pc = "chat", !.held = TRUE] /\ shots' = shots
        BY <1>t, <3>2 DEF TurnBegins
      <4>2. fire'[g].pc = "chat" /\ fire'[g].sub = fire[g].sub /\ fire'[g].next = fire[g].next
        BY <3>1, <4>1 DEF FireRecs
      <4> QED
        BY <3>1, <4>1, <4>2 DEF FireOK
    <3>3. CASE TurnEnds(g)
      <4> DEFINE t == IF Kind[fire[g].sub] = "cron" THEN CronNext(fire[g].sub, now) ELSE Null
      <4>1. PICK ok : fire' = [fire EXCEPT ![g].pc = "record", ![g].ok = ok, ![g].held = FALSE,
                                           ![g].next = t]
        BY <3>3 DEF TurnEnds
      <4>2. fire'[g] = [fire[g] EXCEPT !.pc = "record", !.ok = ok, !.held = FALSE, !.next = t]
        BY <1>t, <4>1
      <4>3. fire'[g].pc = "record" /\ fire'[g].sub = fire[g].sub /\ fire'[g].next = t
        BY <3>1, <4>2 DEF FireRecs
      <4>4. Kind[fire[g].sub] = "cron" => t # Null
        BY <3>1, ClockAssumption DEF Null, ArmHyps, TypeOK, ProcType
      <4>5. Kind[fire[g].sub] = "once" => t = Null /\ fire[g].sub \in shots
        BY <3>1 DEF FireOK
      <4> HIDE DEF t
      <4>6. shots' = shots
        BY <3>3 DEF TurnEnds
      <4> QED
        BY <4>3, <4>4, <4>5, <4>6, <3>k DEF FireOK
    <3>4. CASE Record(g)
      <4> DEFINE p == IF Kind[fire[g].sub] = "once" /\ fire[g].ok THEN "drop" ELSE "finish"
      <4>1. fire'[g] = [fire[g] EXCEPT !.pc = p] /\ shots' = shots /\ fire[g].pc = "record"
        BY <1>t, <3>4 DEF Record
      <4>2. fire'[g].pc = p /\ fire'[g].sub = fire[g].sub /\ fire'[g].next = fire[g].next
        BY <3>1, <4>1 DEF FireRecs
      <4>3. mode = "up" /\ HasRow(fire[g].sub)' => db'[fire[g].sub].next = fire[g].next
        BY <1>t, <3>1, <3>4 DEF Record, SetNext, HasRow, Rows
      <4>4. p \in {"drop", "finish"} /\ (p = "drop" => Kind[fire[g].sub] = "once")
        OBVIOUS
      <4> HIDE DEF p
      <4> QED
        BY <1>1, <3>1, <3>k, <4>1, <4>2, <4>3, <4>4 DEF FireOK
    <3>5. CASE DropOneShot(g)
      <4>1. fire'[g] = [fire[g] EXCEPT !.pc = "finish", !.next = Null] /\ shots' = shots
            /\ fire[g].pc = "drop"
        BY <1>t, <3>5 DEF DropOneShot
      <4>2. fire'[g].pc = "finish" /\ fire'[g].sub = fire[g].sub /\ fire'[g].next = Null
        BY <3>1, <4>1 DEF FireRecs
      <4>3. mode = "up" => ~HasRow(fire[g].sub)'
        BY <1>t, <3>1, <3>5 DEF DropOneShot, DeleteSubscription, HasRow, Rows
      <4> QED
        BY <1>1, <3>1, <4>1, <4>2, <4>3 DEF FireOK
    <3>6. CASE Finish(g)
      BY <1>t, <3>6 DEF Finish
    <3> QED
      BY <2>2, <3>2, <3>3, <3>4, <3>5, <3>6 DEF FireSingle
  <2> QED
    BY <2>1, <2>2
<1>4. ASSUME NEW h \in Fires, h # g, fire'[h] # Nil PROVE FireOK(fire[h])'
  <2>1. fire'[h] = fire[h] /\ fire[h] # Nil
    BY <1>1, <1>4
  <2> QED
    BY <1>1, <1>2, <2>1, FireFrame
<1> QED
  BY <1>3, <1>4 DEF InFlight

(***************************************************************************)
(* The invariant is inductive.                                             *)
(***************************************************************************)

\* A server that has just started holds nothing.
LEMMA ArmInit == Init => ArmInv
<1> SUFFICES ASSUME Init PROVE ArmInv
  OBVIOUS
<1>1. BagToSet(heap) = {} /\ OpsUnderWay = {} /\ InFlight = {}
  BY DEF Init, EmptyBag, SetToBag, BagToSet, OpsUnderWay, InFlight
<1>2. \A s : Entries(s) = {}
  BY <1>1 DEF Entries
<1>3. running = {} /\ shots = {} /\ mode = "up" /\ loop.pc = "eval"
  BY DEF Init
<1>4. ASSUME NEW s \in Subs PROVE SubOK(s)
  <2>1. db[s].status = "fresh" /\ db[s].next = Null
    BY DEF Init
  <2>2. Sane(s) /\ Quiet(s)
    BY <1>2, <1>3 DEF Sane, Quiet, WillReAdd
  <2>3. ShotOK(s) /\ FreshOK(s) /\ RestOK(s)
    BY <1>2, <1>3, <2>1, <2>2 DEF ShotOK, FreshOK, RestOK, AtRest, Expected
  <2> QED
    BY <1>1, <2>2, <2>3 DEF SubOK
<1>5. ASSUME NEW i \in Instances PROVE InstOK(i)
  <2>1. inst[i] = "running" /\ instRow[i] = "running"
    BY DEF Init
  <2> QED
    BY <2>1 DEF InstOK
<1>6. ProcOK
  BY <1>3 DEF ProcOK
<1> QED
  BY <1>1, <1>4, <1>5, <1>6 DEF ArmInv

\* Requests.
LEMMA ArmNextRequest ==
    ASSUME ArmHyps, NEW c \in Callers, BeginSub(c) \/ BeginInst(c) \/ Step(c)
    PROVE  ArmInv'
<1>1. ASSUME NEW s \in Subs PROVE SubOK(s)'
  <2>1. CASE BeginSub(c)
    BY <2>1, ArmSchedule, ArmSubRequest DEF BeginSub
  <2>2. CASE BeginInst(c)
    BY <2>2, ArmInstRequest DEF BeginInst
  <2>3. CASE Step(c)
    BY <2>3, ArmAdd, ArmRemove, ArmActivate, ArmPauseRows, ArmPauseHeap, ArmDropRow, ArmStarting,
       ArmResumeRows, ArmBuild, ArmPushBuilt DEF Step
  <2> QED
    BY <2>1, <2>2, <2>3
<1>2. (\A d \in OpsUnderWay' : OpOK(op[d])') /\ (\A i \in Instances : InstOK(i)')
  BY ArmOpsBegin, ArmOpsSubStep, ArmOpsInstStep, ArmOpsResume DEF Step
<1>3. \A g \in InFlight' : FireOK(fire[g])'
  BY ArmFiresRequests
<1>4. ProcOK'
  <2>1. mode # "down" /\ mode' = mode /\ loop' = loop /\ now' = now
    <3>1. CASE BeginSub(c) \/ BeginInst(c)
      BY <3>1 DEF BeginSub, BeginInst, ScheduleRecurring, ScheduleOnce, CancelSchedule,
           PauseSubscription, ResumeSubscription, StopInstance, StartInstance, DeleteInstance, MayBegin
    <3>2. CASE Step(c)
      BY <3>2 DEF Step, Add, Remove, Activate, PauseRows, PauseHeap, DropRow, Unregister, Spawn,
           StartRow, ResumeRows, Build, PushBuilt, procVars
    <3> QED
      BY <3>1, <3>2
  <2> QED
    BY <2>1 DEF ProcOK, ArmHyps, ArmInv
<1> QED
  BY <1>1, <1>2, <1>3, <1>4 DEF ArmInv

\* A death of an instance; where instances are started again there is none.
LEMMA ArmNextDeath ==
    ASSUME ArmHyps, NEW j \in Instances, InstanceDeath(j)
    PROVE  ArmInv'
<1>1. UNCHANGED <<now, mode, db, schedVars, fireVars, loop, op>> /\ "start" \notin Requests /\ mode = "up"
  BY DEF InstanceDeath, ArmHyps, RestartSafe
<1>n. now \in Nat
  BY ClockAssumption DEF ArmHyps, TypeOK, ProcType
<1>2. \A s \in Subs : SubOK(s)'
  BY <1>1, <1>n, ArmQuietSteps DEF Onward, fireVars
<1>3. \A d \in OpsUnderWay' : OpOK(op[d])'
  <2>1. \A d \in OpsUnderWay : OpOK(op[d])
    BY DEF ArmHyps, ArmInv
  <2> QED
    BY <1>1, <2>1 DEF OpOK, OpsUnderWay
<1>4. \A i \in Instances : InstOK(i)'
  BY <1>1 DEF InstOK
<1>5. \A g \in InFlight' : FireOK(fire[g])'
  BY <1>1, ArmFires DEF fireVars, HasRow
<1>6. ProcOK'
  BY <1>1 DEF ProcOK, ArmHyps, ArmInv
<1> QED
  BY <1>2, <1>3, <1>4, <1>5, <1>6 DEF ArmInv

\* The run goroutine and fireSingle.
LEMMA ArmNextFires ==
    ASSUME ArmHyps, RunLoop \/ \E g \in Fires : FireSingle(g)
    PROVE  ArmInv'
<1>n. now \in Nat /\ db \in [Subs -> Rows]
  BY ClockAssumption DEF ArmHyps, TypeOK, ProcType, TableType
<1>1. mode # "down" /\ UNCHANGED <<now, mode, inst, instRow, op>>
  BY DEF RunLoop, RunEval, RunWake, RunTimer, RunDone, FireReadyReturn, Launch, FireSingle, TurnBegins,
         TurnEnds, Record, DropOneShot, Finish, procVars, tableVars
<1>2. ASSUME NEW s \in Subs PROVE SubOK(s)'
  <2>1. Onward
    BY <1>1, <1>n DEF Onward
  <2>2. CASE RunEval \/ RunWake \/ RunTimer \/ RunDone \/ FireReadyReturn
    <3>1. UNCHANGED <<op, db, heap, running, cancelled, shots>>
      BY <2>2 DEF RunEval, RunWake, RunTimer, RunDone, FireReadyReturn, tableVars, schedVars, fireVars
    <3> QED
      BY <2>1, <3>1, ArmQuietSteps
  <2>3. ASSUME NEW g \in Fires, TurnBegins(g) \/ TurnEnds(g) PROVE SubOK(s)'
    <3>1. UNCHANGED <<op, db, heap, running, cancelled, shots>>
      BY <2>3 DEF TurnBegins, TurnEnds, tableVars, schedVars
    <3> QED
      BY <2>1, <3>1, ArmQuietSteps
  <2> QED
    BY <2>2, <2>3, ArmLaunch, ArmRecord, ArmDropOneShot, ArmFinish DEF RunLoop, FireSingle
<1>3. (\A d \in OpsUnderWay' : OpOK(op[d])') /\ (\A i \in Instances : InstOK(i)')
  <2>1. \A s \in Subs : db'[s].status = "active" => db[s].status = "active"
    <3>1. ASSUME NEW g \in Fires, Record(g) PROVE \A s \in Subs : db'[s].status = db[s].status
      BY <3>1, <1>n DEF Record, SetNext, Rows
    <3>2. ASSUME NEW g \in Fires, DropOneShot(g)
          PROVE  \A s \in Subs : db'[s].status = "active" => db[s].status = "active"
      BY <3>2, <1>n DEF DropOneShot, DeleteSubscription, Rows
    <3>3. (\E g \in Fires : Record(g) \/ DropOneShot(g)) \/ db' = db
      BY DEF RunLoop, RunEval, RunWake, RunTimer, RunDone, FireReadyReturn, Launch, FireSingle,
             TurnBegins, TurnEnds, Finish, tableVars
    <3> QED
      BY <3>1, <3>2, <3>3
  <2> QED
    BY <1>1, <1>n, <2>1, ArmOpsElse
<1>4. \A g \in InFlight' : FireOK(fire[g])'
  <2>1. CASE RunEval \/ RunWake \/ RunTimer \/ RunDone \/ FireReadyReturn
    <3>1. fire' = fire /\ shots' = shots /\ db' = db
      BY <2>1 DEF RunEval, RunWake, RunTimer, RunDone, FireReadyReturn, tableVars, fireVars
    <3> QED
      BY <1>1, <3>1, ArmFires DEF HasRow
  <2>2. ASSUME NEW g \in Fires, FireSingle(g) \/ Launch(g) PROVE \A h \in InFlight' : FireOK(fire[h])'
    BY <2>2, ArmFiresMove
  <2> QED
    BY <2>1, <2>2 DEF RunLoop
<1>5. ProcOK'
  <2>1. loop'.pc = "fire" => loop'.at <= now'
    <3>1. CASE RunEval
      <4>1. loop'.pc = "fire" => loop'.at = now
        BY <3>1 DEF RunEval
      <4> QED
        BY <1>1, <1>n, <4>1
    <3>2. CASE RunTimer
      <4>1. loop'.at = now
        BY <3>2 DEF RunTimer
      <4> QED
        BY <1>1, <1>n, <4>1
    <3>3. CASE RunWake \/ RunDone \/ FireReadyReturn
      BY <3>3 DEF RunWake, RunDone, FireReadyReturn
    <3>4. CASE (\E g \in Fires : Launch(g)) \/ (\E g \in Fires : FireSingle(g))
      <4>1. loop' = loop
        BY <3>4 DEF Launch, FireSingle, TurnBegins, TurnEnds, Record, DropOneShot, Finish
      <4> QED
        BY <1>1, <4>1 DEF ProcOK, ArmHyps, ArmInv
    <3> QED
      BY <3>1, <3>2, <3>3, <3>4 DEF RunLoop
  <2> QED
    BY <1>1, <2>1 DEF ProcOK
<1> QED
  BY <1>2, <1>3, <1>4, <1>5 DEF ArmInv

\* The clock and the life of the process.
LEMMA ArmNextProcess ==
    ASSUME ArmHyps, Process
    PROVE  ArmInv'
<1>n. now \in Nat /\ now' \in Nat
  BY ClockAssumption DEF ArmHyps, TypeOK, ProcType
<1>1. CASE Tick \/ Cancel
  <2>1. UNCHANGED <<op, db, schedVars, fire, shots, inst, instRow, loop>> /\ now' >= now
        /\ (mode' = mode \/ mode' = "stopping") /\ (mode' = "up" => mode = "up")
    BY <1>1, <1>n DEF Tick, Cancel, tableVars, fireVars
  <2>2. \A s \in Subs : SubOK(s)'
    BY <2>1, ArmQuietSteps DEF Onward
  <2>3. (\A d \in OpsUnderWay' : OpOK(op[d])') /\ (\A i \in Instances : InstOK(i)')
    BY <2>1, ArmOpsElse
  <2>4. \A g \in InFlight' : FireOK(fire[g])'
    BY <2>1, ArmFires DEF HasRow
  <2>5. ProcOK'
    <3>1. loop.pc = "fire" => loop.at <= now'
      BY <1>n, <2>1 DEF ProcOK, ArmHyps, ArmInv, TypeOK, LoopType
    <3> QED
      BY <2>1, <3>1 DEF ProcOK, ArmHyps, ArmInv, schedVars, OpsUnderWay, InFlight
  <2> QED
    BY <2>2, <2>3, <2>4, <2>5 DEF ArmInv
<1>2. CASE Exit \/ Crash
  <2>1. MemoryLost
    BY <1>2 DEF Exit, Crash
  <2>2. \A s \in Subs : SubOK(s)'
    BY <2>1, ArmMemoryLost
  <2>3. OpsUnderWay' = {} /\ InFlight' = {} /\ ProcOK'
    BY <2>1 DEF MemoryLost, OpsUnderWay, InFlight, ProcOK
  <2>4. ASSUME NEW i \in Instances, "start" \in Requests PROVE InstOK(i)'
    <3>1. OpsUnderWay = {}
      BY <1>2, <2>4 DEF Exit, Crash, ArmHyps, RestartSafe, TypeOK, ProcType
    <3>2. InstOK(i) /\ inst'[i] = "absent" /\ UNCHANGED <<db, instRow>>
      BY <2>1 DEF ArmHyps, ArmInv, MemoryLost
    <3> QED
      BY <3>1, <3>2 DEF InstOK
  <2>5. \A i \in Instances : InstOK(i)'
    BY <2>4 DEF InstOK
  <2> QED
    BY <2>2, <2>3, <2>5 DEF ArmInv
<1>3. CASE Boot
  <2>1. mode = "down" /\ UNCHANGED <<now, instRow, fire, op>> /\ mode' = "up" /\ loop'.pc = "eval"
    BY <1>3 DEF Boot, fireVars
  <2>2. \A s \in Subs : SubOK(s)'
    BY <1>3, ArmBoot
  <2>3. OpsUnderWay = {} /\ OpsUnderWay' = {} /\ InFlight' = {} /\ ProcOK'
    BY <2>1 DEF ProcOK, ArmHyps, ArmInv, OpsUnderWay, InFlight
  <2>4. ASSUME NEW i \in Instances PROVE InstOK(i)'
    <3>1. inst'[i] = IF instRow[i] = "gone" THEN "absent" ELSE instRow[i]
      BY <1>3 DEF Boot
    <3>2. \A s \in Subs : db'[s].status = "active" => db[s].status = "active"
      <4>1. db \in [Subs -> Rows]
        BY DEF ArmHyps, TypeOK, TableType
      <4> QED
        BY <1>3, <4>1 DEF Boot, Rows
    <3>3. InstOK(i)
      BY DEF ArmHyps, ArmInv
    <3> QED
      BY <2>1, <2>3, <3>1, <3>2, <3>3 DEF InstOK, SubsOf
  <2> QED
    BY <2>2, <2>3, <2>4 DEF ArmInv
<1> QED
  BY <1>1, <1>2, <1>3 DEF Process

\* With the types and the overlap guard, ArmInv is inductive.
LEMMA ArmNext == ArmHyps /\ [Next]_vars => ArmInv'
<1> SUFFICES ASSUME ArmHyps, [Next]_vars PROVE ArmInv'
  OBVIOUS
<1>1. CASE UNCHANGED vars
  BY <1>1 DEF ArmHyps, ArmInv, SubOK, Sane, ShotOK, FreshOK, RestOK, AtRest, Expected, Settled, Quiet,
              WillReAdd, Entries, StepOK, Building, About, OpOK, InstOK, FireOK, ProcOK, OpsUnderWay,
              InFlight, HasRow, vars, procVars, tableVars, schedVars, fireVars
<1> QED
  BY <1>1, ArmNextRequest, ArmNextDeath, ArmNextFires, ArmNextProcess DEF Next

\* A schedule at rest is as the two properties say.
LEMMA ArmGivesArmed == TypeOK /\ ArmInv => ActiveIsArmed
<1> SUFFICES ASSUME TypeOK, ArmInv, NEW s \in Subs, mode = "up", Settled(s), s \in Loaded
             PROVE  \/ Entries(s) = {} /\ WillReAdd(s)
                    \/ ~WillReAdd(s) /\ \E e \in Entries(s) : Entries(s) = {e} /\ heap[e] = 1
  BY DEF ActiveIsArmed
<1>1. SubOK(s) /\ Expected(s)
  BY DEF ArmInv, Expected, Loaded
<1>2. Entries(s) # {} \/ WillReAdd(s)
  BY <1>1 DEF SubOK, RestOK, AtRest
<1>3. CASE Entries(s) = {}
  BY <1>2, <1>3
<1>4. CASE Entries(s) # {}
  <2>1. PICK e \in Entries(s) : TRUE
    BY <1>4
  <2>2. Entries(s) = {e} /\ heap[e] = 1 /\ ~WillReAdd(s)
    BY <1>1, <1>4, <2>1 DEF SubOK, Sane
  <2> QED
    BY <2>1, <2>2
<1> QED
  BY <1>3, <1>4

\* The same for what is paused or gone.
LEMMA ArmGivesQuiet == ArmInv => InactiveIsQuiet
BY DEF ArmInv, SubOK, RestOK, AtRest, InactiveIsQuiet, Quiet

\* Only fireReady makes a subscription running, and it has no launched one-shot.
LEMMA ArmGivesOnce == ArmHyps /\ [Next]_vars => [running' \cap shots \subseteq running]_vars
<1> SUFFICES ASSUME ArmHyps, Next PROVE running' \cap shots \subseteq running
  OBVIOUS
<1>1. ASSUME NEW g \in Fires, Launch(g) PROVE running' \cap shots \subseteq running
  <2>1. PICK e \in Soonest : running' = running \cup {e[1]}
    BY <1>1 DEF Launch
  <2>2. e[1] \in Subs /\ e \in Entries(e[1])
    BY DEF Soonest, Entries, ArmHyps, TypeOK, HeapType
  <2>3. e[1] \notin shots
    BY <2>2 DEF ArmHyps, ArmInv, SubOK, ShotOK
  <2> QED
    BY <2>1, <2>3
<1>2. (\E g \in Fires : Launch(g)) \/ running' \subseteq running
  <2>1. ASSUME NEW c \in Callers, BeginSub(c) \/ BeginInst(c) PROVE running' = running
    BY <2>1 DEF BeginSub, BeginInst, ScheduleRecurring, ScheduleOnce, CancelSchedule, PauseSubscription,
         ResumeSubscription, StopInstance, StartInstance, DeleteInstance, schedVars
  <2>2. ASSUME NEW c \in Callers, Step(c) PROVE running' = running
    BY <2>2 DEF Step, Add, Remove, Activate, PauseRows, PauseHeap, DropRow, Unregister, Spawn,
         StartRow, ResumeRows, Build, PushBuilt, schedVars
  <2>3. ASSUME NEW g \in Fires, FireSingle(g) PROVE running' \subseteq running
    BY <2>3 DEF FireSingle, TurnBegins, TurnEnds, Record, DropOneShot, Finish, schedVars
  <2>4. CASE Process
    BY <2>4 DEF Process, Tick, Cancel, Exit, Crash, MemoryLost, Boot, schedVars
  <2>5. CASE RunLoop
    BY <2>5 DEF RunLoop, RunEval, RunWake, RunTimer, RunDone, FireReadyReturn, schedVars
  <2>6. ASSUME NEW i \in Instances, InstanceDeath(i) PROVE running' = running
    BY <2>6 DEF InstanceDeath, schedVars
  <2> QED
    BY <2>1, <2>2, <2>3, <2>4, <2>5, <2>6 DEF Next
<1> QED
  BY <1>1, <1>2

\* Where requests on one instance do not overlap and no second entry is asked
\* for, a schedule the table says will fire is held by the scheduler exactly
\* once (Add, ResumeInstance, fireSingle, Start).
THEOREM ActiveStaysArmed == RestartSafe => (Spec /\ []Serialized => []ActiveIsArmed)
<1> SUFFICES ASSUME RestartSafe PROVE Spec /\ []Serialized => []ActiveIsArmed
  OBVIOUS
<1>1. Init => TypeOK /\ Guard /\ ArmInv
  BY TypeInit, GuardInit, ArmInit
<1>2. TypeOK /\ Guard /\ ArmInv /\ Serialized /\ Serialized' /\ [Next]_vars => (TypeOK /\ Guard /\ ArmInv)'
  BY TypeNext, GuardNext, ArmNext DEF ArmHyps
<1>3. TypeOK /\ Guard /\ ArmInv => ActiveIsArmed
  BY ArmGivesArmed
<1> QED
  BY <1>1, <1>2, <1>3, PTL DEF Spec

\* Under the same conditions a schedule that was cancelled, paused or deleted
\* is out of the scheduler once the request has returned (Remove, PauseInstance).
THEOREM InactiveStaysQuiet == RestartSafe => (Spec /\ []Serialized => []InactiveIsQuiet)
<1> SUFFICES ASSUME RestartSafe PROVE Spec /\ []Serialized => []InactiveIsQuiet
  OBVIOUS
<1>1. Init => TypeOK /\ Guard /\ ArmInv
  BY TypeInit, GuardInit, ArmInit
<1>2. TypeOK /\ Guard /\ ArmInv /\ Serialized /\ Serialized' /\ [Next]_vars => (TypeOK /\ Guard /\ ArmInv)'
  BY TypeNext, GuardNext, ArmNext DEF ArmHyps
<1>3. TypeOK /\ Guard /\ ArmInv => InactiveIsQuiet
  BY ArmGivesQuiet
<1> QED
  BY <1>1, <1>2, <1>3, PTL DEF Spec

\* Under the same conditions a one-shot is launched at most once, whatever
\* pauses, resumes, restarts and crashes its turn meets (fireReady, buildEntry).
THEOREM OneShotsFireOnce == RestartSafe => (Spec /\ []Serialized => OneShotAtMostOnce)
<1> SUFFICES ASSUME RestartSafe PROVE Spec /\ []Serialized => OneShotAtMostOnce
  OBVIOUS
<1>1. Init => TypeOK /\ Guard /\ ArmInv
  BY TypeInit, GuardInit, ArmInit
<1>2. TypeOK /\ Guard /\ ArmInv /\ Serialized /\ Serialized' /\ [Next]_vars => (TypeOK /\ Guard /\ ArmInv)'
  BY TypeNext, GuardNext, ArmNext DEF ArmHyps
<1>3. TypeOK /\ Guard /\ ArmInv /\ Serialized /\ Serialized' /\ [Next]_vars
        => [running' \cap shots \subseteq running]_vars
  BY TypeNext, ArmGivesOnce DEF ArmHyps
<1> QED
  BY <1>1, <1>2, <1>3, PTL DEF Spec, OneShotAtMostOnce
=============================================================================
