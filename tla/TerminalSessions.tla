-------------------------- MODULE TerminalSessions --------------------------
(***************************************************************************)
(* Terminal sessions that outlive the web sockets looking at them: shells  *)
(* on this machine and on a worker node, the pump from a shell to the      *)
(* replay buffer and the subscribers, clients that attach and detach, and  *)
(* the creation and the closing of sessions.                               *)
(*                                                                         *)
(* The chunks of a shell's output are numbered.  The replay buffer holds   *)
(* lo..written; fanned is the last chunk that went to the subscribers.     *)
(***************************************************************************)
EXTENDS Naturals, Sequences, FiniteSets

CONSTANTS
    Locals, Remotes,        \* ids of sessions that may be created, by place
    Clients,                \* web sockets
    MaxPerNode, MaxTotal,   \* maxSessionsPerNode, maxTotalSessions
    MaxReplay,              \* capacity of the replay buffer, in chunks
    SubscriberBuffer,       \* subscriberBufferSize
    MaxOutput               \* bound on the chunks of one shell

ASSUME TerminalAssumption ==
    /\ Locals \cap Remotes = {} /\ Locals \cup Remotes # {}
    /\ MaxPerNode \in Nat /\ MaxTotal \in Nat /\ MaxReplay \in Nat \ {0}
    /\ SubscriberBuffer \in Nat /\ MaxOutput \in Nat

Terms == Locals \cup Remotes

VARIABLES
    term,       \* sessions: the leader's record and the shell
    client,     \* what each web socket is attached to and was sent
    far         \* worker node: its part of each remote session

termVars == <<term, client, far>>

FreeTerm == [place |-> "free", shell |-> "none", exited |-> FALSE, exits |-> 0,
             out |-> 0, written |-> 0, fanned |-> 0, lo |-> 1]
Away == [at |-> {}, step |-> 0, sub |-> FALSE, from |-> 0, got |-> {}, queued |-> 0,
         lost |-> FALSE, sawExit |-> FALSE]

TermRecs == [place : {"free", "made", "await", "listed", "gone"},
             shell : {"none", "alive", "dead"}, exited : BOOLEAN, exits : 0..2,
             out : 0..MaxOutput, written : Nat, fanned : Nat, lo : Nat]
ClientRecs == [at : SUBSET Terms, step : 0..3, sub : BOOLEAN, from : Nat, got : SUBSET Nat,
               queued : 0..SubscriberBuffer, lost : BOOLEAN, sawExit : BOOLEAN]
FarRecs == [create : {"no", "sent", "started", "done"}, reply : {"no", "ok", "failed"},
            close : BOOLEAN]

TermTypeOK ==
    /\ term \in [Terms -> TermRecs] /\ client \in [Clients -> ClientRecs]
    /\ far \in [Remotes -> FarRecs]
    /\ \A s \in Terms : /\ term[s].fanned <= term[s].written /\ term[s].written <= term[s].out
                        /\ term[s].written - term[s].lo < MaxReplay
    /\ \A c \in Clients : \A s, t \in client[c].at : s = t

TermInit ==
    /\ term = [s \in Terms |-> FreeTerm]
    /\ client = [c \in Clients |-> Away]
    /\ far = [s \in Remotes |-> [create |-> "no", reply |-> "no", close |-> FALSE]]

-----------------------------------------------------------------------------
(* Creation.                                                               *)

InMap(s) == term[s].place \in {"await", "listed"}
Neighbours(s) == IF s \in Locals THEN Locals ELSE Remotes

\* checkLimits.
LimitsAllow(s) ==
    /\ Cardinality({t \in Terms : InMap(t)}) < MaxTotal
    /\ Cardinality({t \in Neighbours(s) : InMap(t) /\ ~term[t].exited}) < MaxPerNode

\* createLocal: the first check, and the shell.
CreateLocal(s) ==
    /\ s \in Locals /\ term[s].place = "free" /\ LimitsAllow(s)
    /\ term' = [term EXCEPT ![s].place = "made", ![s].shell = "alive"]
    /\ UNCHANGED <<client, far>>

\* The second check and the insertion, under one lock.
InsertLocal(s) ==
    /\ s \in Locals /\ term[s].place = "made"
    /\ term' = [term EXCEPT ![s] =
         IF LimitsAllow(s) THEN [@ EXCEPT !.place = "listed"]
         ELSE [@ EXCEPT !.place = "gone", !.shell = "dead"]]
    /\ UNCHANGED <<client, far>>

\* createRemote: the session is in the map before the node is asked.
CreateRemote(s) ==
    /\ s \in Remotes /\ term[s].place = "free" /\ LimitsAllow(s)
    /\ \/ /\ term' = [term EXCEPT ![s].place = "await"]
          /\ far' = [far EXCEPT ![s].create = "sent"]
       \/ term' = [term EXCEPT ![s].place = "gone"] /\ UNCHANGED far   \* send failed
    /\ UNCHANGED client

\* The node's handleCreate, in a goroutine of its own: the shell, and then the
\* entry in its map together with the answer.
NodeStarts(s) ==
    /\ far[s].create = "sent"
    /\ \/ /\ far' = [far EXCEPT ![s].create = "started"]
          /\ term' = [term EXCEPT ![s].shell = "alive"]
       \/ /\ far' = [far EXCEPT ![s].create = "done", ![s].reply = "failed"]
          /\ UNCHANGED term
    /\ UNCHANGED client
NodeRegisters(s) ==
    /\ far[s].create = "started"
    /\ far' = [far EXCEPT ![s].create = "done", ![s].reply = "ok"]
    /\ UNCHANGED <<term, client>>

\* HandleTerminalCreated; an answer after the timeout finds no channel.
CreatedArrives(s) ==
    /\ far[s].reply # "no"
    /\ far' = [far EXCEPT ![s].reply = "no"]
    /\ term' = IF term[s].place # "await" THEN term
               ELSE [term EXCEPT ![s].place = IF far[s].reply = "ok" THEN "listed" ELSE "gone"]
    /\ UNCHANGED client

CreateTimesOut(s) ==
    /\ term[s].place = "await"
    /\ term' = [term EXCEPT ![s].place = "gone"]
    /\ far' = [far EXCEPT ![s].close = TRUE]
    /\ UNCHANGED client

-----------------------------------------------------------------------------
(* Output and exit.                                                        *)

Attached(s) == {c \in Clients : client[c].sub /\ s \in client[c].at}

\* A non-blocking send of a sessionEvent, some chunks or the exit, to every
\* subscriber: one whose buffer is full misses it.
FanOut(s, chunks, exit) ==
    client' = [c \in Clients |->
        IF c \notin Attached(s) THEN client[c]
        ELSE IF client[c].queued = SubscriberBuffer THEN [client[c] EXCEPT !.lost = TRUE]
        ELSE [client[c] EXCEPT !.got = @ \cup chunks, !.sawExit = @ \/ exit,
                               !.queued = @ + 1]]

ShellPrints(s) ==
    /\ term[s].shell = "alive" /\ term[s].out < MaxOutput
    /\ term' = [term EXCEPT ![s].out = @ + 1]
    /\ UNCHANGED <<client, far>>

ShellExits(s) ==
    /\ term[s].shell = "alive" /\ (s \in Remotes => far[s].create = "done")
    /\ term' = [term EXCEPT ![s].shell = "dead"]
    /\ UNCHANGED <<client, far>>

\* The leader's side of a shell is at work: the pump of a local session once
\* it is in the map, the handlers of a remote one while it is in the map.
Pumped(s) == IF s \in Locals THEN term[s].place \in {"listed", "gone"} ELSE InMap(s)

\* outputPump and HandleTerminalOutput: first the replay buffer ...
WriteReplay(s) ==
    /\ Pumped(s) /\ term[s].written = term[s].fanned /\ term[s].written < term[s].out
    /\ LET n == term[s].written + 1
       IN  term' = [term EXCEPT ![s].written = n,
                                ![s].lo = IF n - @ >= MaxReplay THEN @ + 1 ELSE @]
    /\ UNCHANGED <<client, far>>

\* ... then the subscribers.
FanOutData(s) ==
    /\ term[s].fanned < term[s].written
    /\ term' = [term EXCEPT ![s].fanned = @ + 1]
    /\ FanOut(s, {term[s].fanned + 1}, FALSE)
    /\ UNCHANGED far

\* The shell is gone and its output pumped: the exit is marked under the
\* session's lock, which Attach holds from its second to its third step, and
\* then told.
MarkExited(s) ==
    /\ Pumped(s) /\ term[s].shell = "dead" /\ term[s].exits = 0
    /\ term[s].fanned = term[s].out
    /\ \A c \in Clients : s \in client[c].at => client[c].step # 2
    /\ term' = [term EXCEPT ![s].exited = TRUE, ![s].exits = 1]
    /\ UNCHANGED <<client, far>>
TellExited(s) ==
    /\ term[s].exits = 1
    /\ term' = [term EXCEPT ![s].exits = 2]
    /\ FanOut(s, {}, TRUE)
    /\ UNCHANGED far

-----------------------------------------------------------------------------
(* Clients.                                                                *)

\* Mutant of AttachOrder: the replay is taken before the subscription.
AttachOrderSwapped == <<"replay", "subscribe">>

\* What Attach does under the session's lock, in this order.  The pump does
\* not take that lock.
AttachOrder == <<"subscribe", "replay">>

Subscribed(k) == [k EXCEPT !.sub = TRUE, !.step = k.step + 1]
Replayed(k, t) == [k EXCEPT !.from = t.lo, !.got = k.got \cup t.lo..t.written,
                            !.sawExit = k.sawExit \/ t.exited, !.step = k.step + 1]

\* The look-up in the map.
AttachLookup(c, s) ==
    /\ client[c] = Away /\ InMap(s)
    /\ client' = [client EXCEPT ![c].at = {s}, ![c].step = 1]
    /\ UNCHANGED <<term, far>>

AttachStep(c, s) ==
    /\ s \in client[c].at /\ client[c].step \in {1, 2}
    /\ client[c].step = 1 => \A d \in Clients : s \in client[d].at => client[d].step # 2
    /\ client' = [client EXCEPT ![c] = IF AttachOrder[client[c].step] = "subscribe"
                                       THEN Subscribed(client[c])
                                       ELSE Replayed(client[c], term[s])]
    /\ UNCHANGED <<term, far>>

\* writePump takes an event; it stops after the exit.
ClientReads(c) ==
    /\ client[c].step = 3 /\ client[c].queued > 0
    /\ client' = [client EXCEPT ![c].queued = @ - 1]
    /\ UNCHANGED <<term, far>>

\* Detach of one session or of all when the socket goes.
Detach(c) ==
    /\ client[c].step = 3
    /\ client' = [client EXCEPT ![c] = Away]
    /\ UNCHANGED <<term, far>>

\* Close by a client, by SweepExited, by cleanupIdle or by Shutdown: out of
\* the map, subscribers' channels closed, and the shell killed unless it has
\* exited; a remote one is told so.
Close(s) ==
    /\ InMap(s)
    /\ term' = [term EXCEPT ![s].place = "gone",
                            ![s].shell = IF s \in Locals THEN "dead" ELSE @]
    /\ client' = [c \in Clients |-> IF c \in Attached(s) /\ client[c].step = 3 THEN Away
                                    ELSE IF c \in Attached(s) THEN [client[c] EXCEPT !.sub = FALSE]
                                    ELSE client[c]]
    /\ far' = IF s \in Remotes /\ ~term[s].exited
              THEN [far EXCEPT ![s].close = TRUE] ELSE far

\* The node's handleClose, in another goroutine than its handleCreate: a
\* session that is not in its map yet is not found.
NodeCloses(s) ==
    /\ far[s].close
    /\ far' = [far EXCEPT ![s].close = FALSE]
    /\ term' = IF far[s].create = "done" /\ term[s].shell = "alive"
               THEN [term EXCEPT ![s].shell = "dead"] ELSE term
    /\ UNCHANGED client

TermNext ==
    \/ \E s \in Terms : \/ CreateLocal(s) \/ InsertLocal(s) \/ CreateRemote(s)
                        \/ CreateTimesOut(s) \/ ShellPrints(s) \/ ShellExits(s)
                        \/ WriteReplay(s) \/ FanOutData(s) \/ MarkExited(s)
                        \/ TellExited(s) \/ Close(s)
    \/ \E s \in Remotes : \/ NodeStarts(s) \/ NodeRegisters(s) \/ CreatedArrives(s)
                          \/ NodeCloses(s)
    \/ \E c \in Clients : \/ ClientReads(c) \/ Detach(c)
                          \/ \E s \in Terms : AttachLookup(c, s) \/ AttachStep(c, s)

TermSpec == TermInit /\ [][TermNext]_termVars

-----------------------------------------------------------------------------
\* A client that attached at any moment, and whose buffer never overflowed,
\* has every chunk from the beginning of its replay on and has been told the
\* exit ("to prevent data loss between replay and live", Attach), although
\* the pump takes none of the locks Attach holds.
AttachedMissNothing ==
    \A c \in Clients : \A s \in client[c].at :
        client[c].step = 3 /\ client[c].sub /\ ~client[c].lost =>
          /\ client[c].from..term[s].fanned \subseteq client[c].got
          /\ term[s].exits = 2 => client[c].sawExit

=============================================================================
