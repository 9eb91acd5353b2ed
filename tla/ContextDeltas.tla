--------------------------- MODULE ContextDeltas ---------------------------
(***************************************************************************)
(* What an agent is told about its surroundings: the context providers of  *)
(* inference/context_providers.go and context_subscriptions.go, and how    *)
(* Loop.applyContextDeltas uses them.                                      *)
(*                                                                         *)
(* Nothing but the conversation records what was announced: each turn the  *)
(* providers replay the announcements among the messages that will be sent *)
(* and announce the difference.  Announcements are lost when they are      *)
(* compacted or when the token budget evicts them.                         *)
(*                                                                         *)
(* An announcement is the set of its entries, one per context type; other  *)
(* messages are left out.                                                  *)
(***************************************************************************)
EXTENDS Integers, Sequences

CONSTANTS
    Names,              \* of skills, secrets and agents
    Contents,           \* what todos, mounts, nodes and schedules may look like
    NoContent,          \* ... and that there are none
    MaxMemoryEntries,   \* maxMemoryEntries
    MaxWorldChanges,    \* bound on changes of what the providers read
    MaxTurns            \* bound on turns

VARIABLES
    skills,     \* names in the agent's and the shared directory, or unreadable
    sources,    \* what the other providers read
    tools,      \* the gating tools that are active
    persistent, \* mode of the session
    stored,     \* the announcements in the history, oldest first
    compacted,  \* how many of them were replaced by summaries
    cutoff,     \* the latest of them that a request started with
    widened,    \* a request started with an older one than a request before it
    chat,       \* the turn under way
    worldChanges, turns

deltaVars == <<skills, sources, tools, persistent, stored, compacted, cutoff,
               widened, chat, worldChanges, turns>>

Dirs == {"agent", "shared"}
NamedSets == {"skills", "secrets", "agents"}
GatingTools == {"Skill", "SpawnInstance", "ListNodes", "ScheduleRecurring"}
NoChat == [pc |-> "idle", sent |-> <<>>, read |-> <<>>]

\* A new session, of an instance that may have a past.
DeltaInit ==
    /\ skills = [d \in Dirs |-> [names |-> {}, ok |-> TRUE]]
    /\ \E c \in {NoContent, CHOOSE x \in Contents : TRUE} :
         sources = [secrets |-> {}, agents |-> {}, memory |-> <<>>, todos |-> c,
                    nodes |-> c, mounts |-> c, subscriptions |-> c]
    /\ tools = GatingTools
    /\ persistent \in BOOLEAN
    /\ stored = <<>> /\ compacted = 0
    /\ cutoff = 1 /\ widened = FALSE
    /\ chat = NoChat
    /\ worldChanges = 0 /\ turns = 0

-----------------------------------------------------------------------------
(* The announcements in a list of messages.                                *)

\* The messages that have an entry of a context type; no message has two.
Telling(type, msgs) == {k \in DOMAIN msgs : \E e \in msgs[k] : e.type = type}
EntryOf(type, m) == CHOOSE e \in m : e.type = type

\* The names that were added and not removed since; removals come second.
ReplayAnnounced(type, msgs) ==
    {n \in Names : \E k \in Telling(type, msgs) :
        /\ n \in EntryOf(type, msgs[k]).added
        /\ \A j \in Telling(type, msgs) : j >= k => n \notin EntryOf(type, msgs[j]).removed}

\* Mutant of ReplayLatestHash: the oldest one.
ReplayOldestHash(type, msgs) ==
    IF Telling(type, msgs) = {} THEN NoContent
    ELSE EntryOf(type, msgs[CHOOSE k \in Telling(type, msgs) :
                                \A j \in Telling(type, msgs) : k <= j]).text

\* The last announced content, or NoContent; a hash stands for its text.
ReplayLatestHash(type, msgs) ==
    IF Telling(type, msgs) = {} THEN NoContent
    ELSE EntryOf(type, msgs[CHOOSE k \in Telling(type, msgs) :
                                \A j \in Telling(type, msgs) : j <= k]).text

\* A set of names: the first announcement lists everything, the later ones what
\* came and what went.
NamedDelta(type, current, msgs) ==
    LET announced == ReplayAnnounced(type, msgs)
    IN  IF announced = current THEN {}
        ELSE {[type |-> type, added |-> current \ announced, removed |-> announced \ current,
               initial |-> announced = {}, listing |-> current]}

\* A content: announced again when it changed, unless there is nothing.
ContentDelta(type, text, msgs) ==
    IF text \in {<<>>, NoContent} \/ ReplayLatestHash(type, msgs) = text THEN {}
    ELSE {[type |-> type, text |-> text]}

-----------------------------------------------------------------------------
(* The providers.                                                          *)

\* One file that cannot be parsed makes the whole directory unreadable, and
\* the provider ignores the error.
LoadSkills(d) == IF skills[d].ok THEN skills[d].names ELSE {}

\* By name, the agent's own first.
MergeSkills == LoadSkills("agent") \cup LoadSkills("shared")

SkillProvider(msgs) == IF "Skill" \in tools THEN NamedDelta("skills", MergeSkills, msgs) ELSE {}

SecretProvider(msgs) == NamedDelta("secrets", sources.secrets, msgs)

AgentListingProvider(msgs) ==
    IF "SpawnInstance" \in tools THEN NamedDelta("agents", sources.agents, msgs) ELSE {}

MemoryProvider(msgs) == ContentDelta("memory", sources.memory, msgs)

TodoProvider(msgs) == ContentDelta("todos", sources.todos, msgs)

MountProvider(msgs) == ContentDelta("mounts", sources.mounts, msgs)

NodeListingProvider(msgs) ==
    IF "ListNodes" \in tools THEN ContentDelta("nodes", sources.nodes, msgs) ELSE {}

SubscriptionProvider(msgs) ==
    IF "ScheduleRecurring" \in tools
    THEN ContentDelta("subscriptions", sources.subscriptions, msgs) ELSE {}

\* At most one message; no two providers have one context type.
ComputeDeltas(msgs) ==
    UNION {MemoryProvider(msgs), TodoProvider(msgs), SecretProvider(msgs),
           AgentListingProvider(msgs), NodeListingProvider(msgs), SkillProvider(msgs),
           MountProvider(msgs), SubscriptionProvider(msgs)}

\* What the providers that are asked read.
Reading ==
    [type \in (DOMAIN sources \cup {"skills"})
             \ ({t \in {"skills"} : "Skill" \notin tools}
                  \cup {t \in {"agents"} : "SpawnInstance" \notin tools}
                  \cup {t \in {"nodes"} : "ListNodes" \notin tools}
                  \cup {t \in {"subscriptions"} : "ScheduleRecurring" \notin tools})
        |-> IF type = "skills" THEN MergeSkills ELSE sources[type]]

-----------------------------------------------------------------------------
(* A turn.                                                                 *)

\* assembleMessages: a persistent session sends what compaction left and the
\* budget admits, the newest; an ephemeral one sends its whole buffer.  The
\* budget is the model's of the turn, and a history that cannot be assembled is
\* sent as an empty one: the next turn may send more of it than this one.
AssembleHistory ==
    /\ chat.pc = "idle" /\ turns < MaxTurns
    /\ turns' = turns + 1
    /\ \E first \in 1..(Len(stored) + 1) :
         /\ persistent => first > compacted
         /\ ~persistent => first = 1
         /\ chat' = [pc |-> "deltas", sent |-> SubSeq(stored, first, Len(stored)),
                     read |-> <<>>]
         /\ cutoff' = IF first > cutoff THEN first ELSE cutoff
         /\ widened' = (widened \/ first < cutoff)
    /\ UNCHANGED <<skills, sources, tools, persistent, stored, compacted, worldChanges>>

\* applyContextDeltas; each provider reads its own source, so that they all do
\* it at once loses nothing.  A delta that is not stored is not sent either.
ApplyContextDeltas ==
    LET delta == ComputeDeltas(chat.sent)
        news == delta # {}
    IN
    /\ chat.pc = "deltas"
    /\ \/ /\ ~news
          /\ chat' = [chat EXCEPT !.pc = "stream", !.read = Reading]
          /\ UNCHANGED stored
       \/ /\ news
          /\ stored' = Append(stored, delta)
          /\ chat' = [pc |-> "stream", sent |-> Append(chat.sent, delta), read |-> Reading]
       \/ /\ news /\ persistent    \* AppendMessage fails
          /\ chat' = [chat EXCEPT !.pc = "stream"]
          /\ UNCHANGED stored
    /\ UNCHANGED <<skills, sources, tools, persistent, compacted, cutoff, widened, worldChanges, turns>>

\* The model has answered, or the call failed: announcements stay stored.
StreamEnds ==
    /\ chat.pc = "stream"
    /\ chat' = NoChat
    /\ UNCHANGED <<skills, sources, tools, persistent, stored, compacted, cutoff, widened, worldChanges, turns>>

\* Compaction replaces the oldest messages, at any time.
CompactOldest ==
    /\ persistent /\ compacted < Len(stored)
    /\ compacted' = compacted + 1
    /\ UNCHANGED <<skills, sources, tools, persistent, stored, cutoff, widened, chat, worldChanges, turns>>

-----------------------------------------------------------------------------
(* The sources change: by tools of this and other sessions, by the user.    *)

WorldStep(next) ==
    /\ worldChanges < MaxWorldChanges /\ worldChanges' = worldChanges + 1
    /\ sources' = next
    /\ UNCHANGED <<skills, tools, persistent, stored, compacted, cutoff, widened, chat, turns>>

\* AddMemory, under memoryMu: the oldest entry makes room.
AddMemory ==
    LET entries == Append(sources.memory, worldChanges + 1)
    IN  WorldStep([sources EXCEPT !.memory =
            SubSeq(entries, IF Len(entries) > MaxMemoryEntries THEN 2 ELSE 1, Len(entries))])

\* ForgetMemory: the entries that match are removed, at least one.
ForgetMemory ==
    \E matched \in SUBSET {sources.memory[k] : k \in DOMAIN sources.memory} :
        /\ matched # {}
        /\ WorldStep([sources EXCEPT !.memory = SelectSeq(@, LAMBDA e : e \notin matched)])

\* TodoWrite replaces the list.
TodoWrite == \E c \in Contents \cup {NoContent} : WorldStep([sources EXCEPT !.todos = c])

SetSecret(n) == WorldStep([sources EXCEPT !.secrets = @ \cup {n}])
DeleteSecret(n) == n \in sources.secrets /\ WorldStep([sources EXCEPT !.secrets = @ \ {n}])

\* Agent definitions come and go, nodes change, directories are mounted,
\* remounted with another mode or unmounted, schedules change.
AgentsChange == \E S \in SUBSET Names : WorldStep([sources EXCEPT !.agents = S])
NodesChange == \E c \in Contents \cup {NoContent} : WorldStep([sources EXCEPT !.nodes = c])
MountsChange == \E c \in Contents \cup {NoContent} : WorldStep([sources EXCEPT !.mounts = c])
SchedulesChange == \E c \in Contents \cup {NoContent} : WorldStep([sources EXCEPT !.subscriptions = c])

\* Skill files are written, removed or broken; the active tools change.
SkillsChange ==
    /\ worldChanges < MaxWorldChanges /\ worldChanges' = worldChanges + 1
    /\ \E d \in Dirs, S \in SUBSET Names, ok \in BOOLEAN :
         skills' = [skills EXCEPT ![d] = [names |-> S, ok |-> ok]]
    /\ UNCHANGED <<sources, tools, persistent, stored, compacted, cutoff, widened, chat, turns>>

ToolsChange ==
    /\ worldChanges < MaxWorldChanges /\ worldChanges' = worldChanges + 1
    /\ tools' \in {GatingTools \ {t} : t \in GatingTools} \cup {GatingTools}
    /\ UNCHANGED <<skills, sources, persistent, stored, compacted, cutoff, widened, chat, turns>>

DeltaNext ==
    \/ AssembleHistory \/ ApplyContextDeltas \/ StreamEnds \/ CompactOldest
    \/ AddMemory \/ ForgetMemory \/ TodoWrite
    \/ AgentsChange \/ NodesChange \/ MountsChange \/ SchedulesChange
    \/ SkillsChange \/ ToolsChange
    \/ \E n \in Names : SetSecret(n) \/ DeleteSecret(n)

DeltaSpec == DeltaInit /\ [][DeltaNext]_deltaVars

-----------------------------------------------------------------------------
DeltaTypeOK ==
    /\ skills \in [Dirs -> [names : SUBSET Names, ok : BOOLEAN]]
    /\ sources.secrets \subseteq Names /\ sources.agents \subseteq Names
    /\ Len(sources.memory) <= MaxMemoryEntries
    /\ compacted \in 0..Len(stored) /\ cutoff \in 1..(Len(stored) + 1)
    /\ chat.pc \in {"idle", "deltas", "stream"}

\* The names a reader of the messages takes to be there: listed or added and not
\* gone since.  For some readers a full listing replaces what was said before.
Understood(type, msgs, replacing) ==
    {n \in Names : \E k \in Telling(type, msgs) :
        /\ LET e == EntryOf(type, msgs[k])
           IN  n \in IF e.initial THEN e.listing ELSE e.added
        /\ \A j \in Telling(type, msgs) : j > k =>
             LET e == EntryOf(type, msgs[j])
             IN  n \notin e.removed /\ ~(replacing /\ e.initial)}

\* The content a reader of the messages takes for the present one is c.
LastText(type, msgs, c) ==
    \E k \in Telling(type, msgs) :
        /\ EntryOf(type, msgs[k]).text = c
        /\ \A j \in Telling(type, msgs) : j <= k

\* Whatever compaction and the token budget took away, and after any sequence
\* of changes and reversals, the messages of a request tell the model exactly
\* the skills, secrets and agents there are and the latest memory, tasks,
\* nodes, mounts and schedules, as applyContextDeltas found them, unless the
\* announcement could not be stored.  Contents that became empty are the
\* exception the code makes.  A full listing may be read as one more addition;
\* it may also be read as the end of what was said before, as long as no
\* request went back in the history (to a larger budget, or after a history
\* that could not be assembled): then an older listing comes back before it.
ToldIsCurrent ==
    chat.pc = "stream" =>
        \A type \in DOMAIN chat.read :
            IF type \in NamedSets
            THEN \A replacing \in BOOLEAN :
                    (replacing /\ widened) \/ Understood(type, chat.sent, replacing) = chat.read[type]
            ELSE chat.read[type] \in {<<>>, NoContent}
                    \/ LastText(type, chat.sent, chat.read[type])
=============================================================================
