---------------------------- MODULE Conversation ----------------------------
(***************************************************************************)
(* The history of one persistent session: a turn assembles its context     *)
(* from context_items, calls the model and appends the new messages, while *)
(* compaction, in the background or before a turn, replaces old messages   *)
(* by leaf summaries and runs of summaries by deeper ones.                 *)
(*                                                                         *)
(* Messages are numbered by seq.  A context item covers the messages it    *)
(* stands for: a message itself, a summary what its links lead to.         *)
(* Assembly does not take compactMu, and the model's answer to a           *)
(* summarisation comes back after other messages were appended.            *)
(***************************************************************************)
EXTENDS Integers, Sequences, FiniteSets, FiniteSetsExt

CONSTANTS
    FreshTailCount, LeafChunkTokens, LeafMinFanout, CondenseMinFanout,
    MaxSummaryDepth, SoftLimit, HardLimit, TokenBudget,  \* CompactionConfig
    MaxIterations,      \* of fullSweep
    MaxSize,            \* bound on the tokens of a message
    MaxMessages         \* bound on the length of the history

ASSUME ConversationAssumption ==
    /\ FreshTailCount \in Nat /\ LeafMinFanout \in Nat \ {0}
    /\ CondenseMinFanout \in Nat \ {0, 1} /\ MaxSummaryDepth \in Nat
    /\ SoftLimit \in Nat /\ HardLimit \in Nat /\ TokenBudget \in Nat
    /\ SoftLimit <= HardLimit /\ HardLimit <= TokenBudget
    /\ MaxIterations \in Nat /\ MaxSize \in Nat \ {0} /\ MaxMessages \in Nat

VARIABLES
    history,    \* tokens of the message with each seq
    context,    \* the rows of context_items
    turn,       \* the Chat call under way: pc, the rows it read, what it sends
    comp,       \* the compaction that holds compactMu
    asyncs,     \* background compactions waiting for compactMu
    needs,      \* needsCompaction
    lastInput   \* lastInputTokens, as the provider reported it

convVars == <<history, context, turn, comp, asyncs, needs, lastInput>>

Message == -1       \* the depth of an item that is not a summary
Items == [ord : Nat, covers : SUBSET Nat, depth : Nat \cup {Message}, tokens : Nat]

NoTurn == [pc |-> "idle", items |-> {}, sent |-> {}]
NoComp == [pc |-> "off", owner |-> "async", iter |-> 0, from |-> 0, to |-> 0,
           covers |-> {}, depth |-> 0]

TurnRecs == [pc: {"idle", "sync", "assemble", "resolve", "stream", "persist"},
             items: SUBSET Items, sent: SUBSET Items]
CompRecs == [pc: {"off", "sweep", "llm", "replace"}, owner: {"async", "chat"},
             iter: 0..MaxIterations, from: Nat, to: Nat, covers: SUBSET Nat, depth: Nat]

ConvTypeOK ==
    /\ history \in Seq(1..MaxSize) /\ Len(history) <= MaxMessages
    /\ context \subseteq Items
    /\ turn \in TurnRecs /\ comp \in CompRecs
    /\ asyncs \in 0..MaxMessages /\ needs \in BOOLEAN /\ lastInput \in Nat

ConvInit ==
    /\ history = <<>> /\ context = {}
    /\ turn = NoTurn /\ comp = NoComp /\ asyncs = 0
    /\ needs = FALSE /\ lastInput = 0

-----------------------------------------------------------------------------
(* The tables.  Rows are read in the order of their ordinals.              *)

Total(items) == MapThenSumSet(LAMBDA c : c.tokens, items)
OldestOf(items) == CHOOSE c \in items : \A d \in items : c.ord <= d.ord
NewestOf(items) == CHOOSE c \in items : \A d \in items : d.ord <= c.ord
Covered(items) == UNION {c.covers : c \in items}

\* AppendMessage: next seq and next ordinal in one transaction.
NewItem(size) ==
    [ord |-> IF context = {} THEN 0 ELSE NewestOf(context).ord + 1,
     covers |-> {Len(history) + 1}, depth |-> Message, tokens |-> size]

Append1(size) ==
    /\ Len(history) < MaxMessages
    /\ history' = Append(history, size)
    /\ context' = context \cup {NewItem(size)}

\* The message items that are not among the last FreshTailCount items.
OutsideTail ==
    {c \in context : /\ c.depth = Message
                     /\ Cardinality({d \in context : c.ord < d.ord}) >= FreshTailCount}

\* MessageTokensOutsideTail.
TokensOutside == Total(OutsideTail)

\* OldestMessageContextItems: the oldest of them that fit the chunk, and at
\* least one.
OldestMessages ==
    LET Upto(c) == {d \in OutsideTail : d.ord <= c.ord}
        Fits(c) == Upto(c) = {c} \/ Total(Upto(c)) <= LeafChunkTokens
    IN  {c \in OutsideTail : \A d \in Upto(c) : Fits(d)}

\* ContiguousSummariesAtDepth: the runs of neighbours at one depth, and the
\* first of the longest.
Between(a, b) == {c \in context : a.ord <= c.ord /\ c.ord <= b.ord}
Runs(depth) ==
    {r \in {Between(a, b) : a, b \in context} :
        /\ Cardinality(r) >= CondenseMinFanout
        /\ \A c \in r : c.depth = depth}
LongestRun(depth) ==
    CHOOSE r \in Runs(depth) : \A s \in Runs(depth) :
        \/ Cardinality(s) < Cardinality(r)
        \/ Cardinality(s) = Cardinality(r) /\ OldestOf(r).ord <= OldestOf(s).ord

\* condensationPass: the shallowest depth with a run that is long enough; zero
\* as MaxSummaryDepth sets no limit.
Condensable ==
    {d \in {c.depth : c \in context} \ {Message} :
        (MaxSummaryDepth > 0 => d < MaxSummaryDepth) /\ Runs(d) # {}}

\* Mutant of Replace: everything from the first replaced item on is deleted.
ReplaceToEnd(from, to, sum) == {c \in context : c.ord < from} \cup {sum}

\* ReplaceContextItems: an inclusive range of ordinals becomes one item at the
\* first of them.
Replace(from, to, sum) == {c \in context : c.ord < from \/ c.ord > to} \cup {sum}

-----------------------------------------------------------------------------
(* Compaction.                                                             *)

\* CompactIfNeeded up to the threshold: reported tokens, or the estimate.
\* Below the soft limit the call ends at once and leaves compactMu.
Compact(owner) ==
    LET tokens == IF lastInput = 0 THEN Total(context) ELSE lastInput IN
    /\ comp.pc = "off"
    /\ comp' = IF tokens < SoftLimit THEN NoComp
               ELSE [NoComp EXCEPT !.pc = "sweep", !.owner = owner]

\* The goroutine persistTurn started gets compactMu.
AsyncCompaction ==
    /\ asyncs > 0 /\ asyncs' = asyncs - 1
    /\ Compact("async")
    /\ UNCHANGED <<history, context, turn, needs, lastInput>>

\* CompactIfNeeded returns; only the background one keeps the verdict.
SweepEnds ==
    /\ comp' = NoComp
    /\ needs' = (needs \/ (comp.owner = "async" /\ Total(context) >= HardLimit))
    /\ turn' = IF comp.owner = "chat" THEN [turn EXCEPT !.pc = "assemble"] ELSE turn

\* The items a summary is asked for, which will stand for what they stood for.
Summarize(items, depth) ==
    comp' = [comp EXCEPT !.pc = "llm", !.from = OldestOf(items).ord, !.to = NewestOf(items).ord,
                         !.covers = Covered(items), !.depth = depth]

\* One turn of fullSweep: messages first, summaries when few are left.  Too
\* few messages make a turn without effect.
Sweep ==
    /\ comp.pc = "sweep"
    /\ \/ /\ comp.iter = MaxIterations
          /\ SweepEnds
       \/ /\ comp.iter < MaxIterations /\ TokensOutside >= LeafChunkTokens
          /\ IF Cardinality(OldestMessages) < LeafMinFanout
             THEN comp' = [comp EXCEPT !.iter = @ + 1]
             ELSE Summarize(OldestMessages, 0)
          /\ UNCHANGED <<needs, turn>>
       \/ /\ comp.iter < MaxIterations /\ TokensOutside < LeafChunkTokens
          /\ IF Condensable = {} THEN SweepEnds
             ELSE /\ LET d == Min(Condensable) IN Summarize(LongestRun(d), d + 1)
                  /\ UNCHANGED <<needs, turn>>
    /\ UNCHANGED <<history, context, asyncs, lastInput>>

\* summarizeWithEscalation returned a summary, which is created and linked;
\* or it failed and the compaction ends with nothing changed.
Summarized ==
    /\ comp.pc = "llm"
    /\ \/ comp' = [comp EXCEPT !.pc = "replace"] /\ UNCHANGED <<turn>>
       \/ /\ comp' = NoComp
          /\ turn' = IF comp.owner = "chat" THEN [turn EXCEPT !.pc = "assemble"] ELSE turn
    /\ UNCHANGED <<history, context, asyncs, needs, lastInput>>

\* The summary takes the place of its sources.
ReplaceItems ==
    /\ comp.pc = "replace"
    /\ context' = Replace(comp.from, comp.to,
         [ord |-> comp.from, covers |-> comp.covers, depth |-> comp.depth, tokens |-> 1])
    /\ comp' = [NoComp EXCEPT !.pc = "sweep", !.owner = comp.owner, !.iter = comp.iter + 1]
    /\ UNCHANGED <<history, turn, asyncs, needs, lastInput>>

-----------------------------------------------------------------------------
(* A turn.                                                                 *)

\* syncCompactIfNeeded's decision: the flag is taken, or the last context was
\* over the soft limit.
BeginTurn ==
    /\ turn.pc = "idle" /\ Len(history) < MaxMessages
    /\ needs' = FALSE
    /\ turn' = [turn EXCEPT !.pc = IF needs \/ lastInput >= SoftLimit THEN "sync"
                                   ELSE "assemble"]
    /\ UNCHANGED <<history, context, comp, asyncs, lastInput>>

\* It gets compactMu.
SyncCompaction ==
    /\ turn.pc = "sync" /\ comp.pc = "off"
    /\ Compact("chat")
    /\ turn' = IF comp'.pc = "off" THEN [turn EXCEPT !.pc = "assemble"] ELSE turn
    /\ UNCHANGED <<history, context, asyncs, needs, lastInput>>

\* GetContextItems of Assemble; a sync compaction is over by then.
ReadItems ==
    /\ turn.pc = "assemble"
    /\ turn' = [turn EXCEPT !.pc = "resolve", !.items = context]
    /\ UNCHANGED <<history, context, comp, asyncs, needs, lastInput>>

\* An item and all that are newer.
Since(items, c) == {d \in items : c.ord <= d.ord}

\* capFreshTail: the newest items, as many as stay whatever the rest needs.
FreshTail(items) ==
    {c \in items : LET n == Cardinality(Since(items, c)) IN
        n <= FreshTailCount
          /\ (n <= 1 \/ Total(Since(items, c)) <= (TokenBudget * 80) \div 100)}

\* What the budget may drop: all that is not in the tail as it was cut.
Evictable(items) == items \ FreshTail(items)

\* fillBudget: of those the newest, until one does not fit.
FillBudget(items, remaining) == {c \in items : Total(Since(items, c)) <= remaining}

Assemble(items) ==
    FillBudget(Evictable(items), TokenBudget - Total(FreshTail(items))) \cup FreshTail(items)

\* resolveAllItems reads the rows one by one: compaction deletes none of
\* them.  applyContextDeltas may append an announcement of its own.
ResolveItems ==
    /\ turn.pc = "resolve"
    /\ LET kept == Assemble(turn.items)
       IN  \/ /\ turn' = [turn EXCEPT !.pc = "stream", !.sent = kept]
              /\ UNCHANGED <<history, context>>
           \/ /\ Append1(1)
              /\ turn' = [turn EXCEPT !.pc = "stream", !.sent = kept \cup {NewItem(1)}]
    /\ UNCHANGED <<comp, asyncs, needs, lastInput>>

\* agent.Stream failed: nothing of the turn is stored.
StreamFails ==
    /\ turn.pc = "stream"
    /\ turn' = NoTurn
    /\ UNCHANGED <<history, context, comp, asyncs, needs, lastInput>>

\* persistTurn: the prompt and then the messages of the steps, each in its own
\* transaction, each of which may fail alone.
Persist ==
    /\ turn.pc \in {"stream", "persist"}
    /\ turn' = [NoTurn EXCEPT !.pc = "persist"]
    /\ \E size \in 1..MaxSize : Append1(size)
    /\ UNCHANGED <<comp, asyncs, needs, lastInput>>

\* The end of the turn: what the provider counted, and a compaction to come.
EndTurn ==
    /\ turn.pc = "persist"
    /\ turn' = NoTurn
    /\ lastInput' \in {0, SoftLimit}
    /\ asyncs' = asyncs + 1
    /\ asyncs < MaxMessages
    /\ UNCHANGED <<history, context, comp, needs>>

\* The server stops in the middle of anything; the loop starts from the rows.
ConvCrash ==
    /\ turn # NoTurn \/ comp # NoComp
    /\ turn' = NoTurn /\ comp' = NoComp /\ asyncs' = 0
    /\ needs' = FALSE /\ lastInput' = 0
    /\ UNCHANGED <<history, context>>

ConvNext ==
    \/ AsyncCompaction \/ Sweep \/ Summarized \/ ReplaceItems
    \/ BeginTurn \/ SyncCompaction \/ ReadItems \/ ResolveItems
    \/ StreamFails \/ Persist \/ EndTurn \/ ConvCrash

ConvSpec == ConvInit /\ [][ConvNext]_convVars

-----------------------------------------------------------------------------
(* What a session promises.                                                *)

\* No message is ever lost from the context and none is in it twice: whatever
\* is appended while a summary is being written, and wherever a crash falls
\* between creating, linking and replacing, what the links of the items lead to
\* is the whole history, in the order of the items (compaction.go, messages.go
\* ReplaceContextItems).
ContextCoversHistory ==
    /\ Covered(context) = 1..Len(history)
    /\ \A c, d \in context : c # d =>
         /\ c.ord # d.ord
         /\ c.ord < d.ord => \A m \in c.covers, k \in d.covers : m < k

=============================================================================
