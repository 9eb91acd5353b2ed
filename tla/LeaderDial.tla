------------------------------ MODULE LeaderDial ------------------------------
(***************************************************************************)
(* How a worker finds and reaches its leader: the peers the tracker tells  *)
(* DiscoveryClient, the race of DialLeader between the leader's addresses  *)
(* and the relay with its cache of the last winner, and on the leader the  *)
(* RelayClient's control connection, its data connections and the          *)
(* ChannelListener that hands them to gRPC.  Tracker and relay are outside *)
(* this repository: what they answer is chosen freely.                     *)
(***************************************************************************)
EXTENDS Integers, FiniteSets

CONSTANTS
    Addrs,         \* addresses the leader may advertise
    Static,        \* the configured leader address, one of them
    Relay,         \* the route through the relay
    NoRoute,
    MaxRelayConns, \* maxPendingRelayConns
    ListenerSize,  \* relayListenerBuffer
    BackoffInitial, BackoffMax,
    MaxMoves       \* bound: changes of the leader's addresses and of the network

ASSUME DialAssumption ==
    /\ Static \in Addrs /\ Relay \notin Addrs /\ NoRoute \notin Addrs \cup {Relay}
    /\ MaxRelayConns \in Nat /\ ListenerSize \in Nat /\ MaxMoves \in Nat
    /\ BackoffInitial \in Nat \ {0} /\ BackoffMax \in Nat

VARIABLES
    tracker,    \* addresses the tracker has for the leader ({}: it knows none)
    known,      \* ... as of the worker's last announce
    reachable,  \* the addresses that answer
    cache,      \* WinnerCache entry of the leader
    race,       \* [pc, keyed]: DialLeader
    attempt,    \* the goroutine of each route
    results,    \* the routes whose result is in the channel
    conns,      \* connections that are open at the worker
    winner,     \* the connection DialLeader returned
    ctrl,       \* the leader's control connection to the relay is up
    backoff,    \* the pause of RelayClient.Run
    incoming,   \* goroutines of notificationLoop: handleIncoming
    queue, listening, \* ChannelListener: buffered connections; not closed
    moves

DialVars == <<tracker, known, reachable, cache, race, attempt, results, conns, winner,
              ctrl, backoff, incoming, queue, listening, moves>>
workerVars == <<known, cache, race, attempt, results, conns, winner>>
relayVars == <<ctrl, backoff, incoming, queue, listening>>
worldVars == <<tracker, reachable, moves>>

Routes == Addrs \cup {Relay}

DialTypeOK ==
    /\ tracker \subseteq Addrs /\ known \subseteq Addrs /\ reachable \subseteq Addrs
    /\ cache \in Addrs \cup {NoRoute}
    /\ race \in [pc: {"idle", "solo", "racing", "won", "lost"}, keyed: BOOLEAN]
    /\ attempt \in [Routes -> {"none", "waiting", "dialing", "ok", "failed"}]
    /\ results \subseteq Routes /\ conns \subseteq Routes
    /\ winner \in Routes \cup {NoRoute}
    /\ ctrl \in BOOLEAN /\ backoff \in Nat \ {0}
    /\ incoming \in 0..MaxRelayConns /\ queue \in 0..ListenerSize
    /\ listening \in BOOLEAN /\ moves \in 0..MaxMoves

DialInit ==
    /\ tracker \in SUBSET Addrs /\ known = {} /\ reachable \in SUBSET Addrs
    /\ cache = NoRoute
    /\ race = [pc |-> "idle", keyed |-> FALSE]
    /\ attempt = [r \in Routes |-> "none"]
    /\ results = {} /\ conns = {} /\ winner = NoRoute
    /\ ctrl = FALSE /\ backoff = BackoffInitial /\ incoming = 0
    /\ queue = 0 /\ listening = TRUE /\ moves = 0

-----------------------------------------------------------------------------
\* announce: a failed one keeps what was known.
Announce ==
    /\ known' = tracker
    /\ UNCHANGED <<cache, race, attempt, results, conns, winner, relayVars, worldVars>>

\* leaderDialTargets: discovery when it knows a leader, else the last address.
Targets == IF known = {} THEN {Static} ELSE known

\* raceDial: one goroutine per route, the relay's with a delay.
StartRace(routes) ==
    attempt' = [r \in Routes |-> IF r = Relay THEN "waiting"
                                 ELSE IF r \in routes THEN "dialing" ELSE "none"]

\* DialLeader
DialLeader ==
    /\ race.pc = "idle"
    /\ IF known # {} /\ cache # NoRoute
       THEN race' = [pc |-> "solo", keyed |-> TRUE] /\ UNCHANGED attempt
       ELSE race' = [pc |-> "racing", keyed |-> known # {}] /\ StartRace(Targets)
    /\ UNCHANGED <<known, cache, results, conns, winner, relayVars, worldVars>>

\* tryCachedWinner: the cached address answers in time, or it is forgotten.
TryCachedWinner ==
    /\ race.pc = "solo"
    /\ \/ /\ cache \in reachable
          /\ race' = [race EXCEPT !.pc = "won"]
          /\ conns' = {cache} /\ winner' = cache
          /\ UNCHANGED <<cache, attempt>>
       \/ /\ cache' = NoRoute
          /\ race' = [race EXCEPT !.pc = "racing"]
          /\ StartRace(Targets)
          /\ UNCHANGED <<conns, winner>>
    /\ UNCHANGED <<known, results, relayVars, worldVars>>

\* The relay's turn, unless the race is already decided (raceCtx is cancelled).
StartRelay ==
    /\ attempt[Relay] = "waiting"
    /\ \/ race.pc = "racing" /\ attempt' = [attempt EXCEPT ![Relay] = "dialing"]
          /\ UNCHANGED results
       \/ race.pc = "won" /\ attempt' = [attempt EXCEPT ![Relay] = "failed"]
          /\ results' = results \cup {Relay}
    /\ UNCHANGED <<known, cache, race, conns, winner, relayVars, worldVars>>

\* A route's goroutine has its result, also after the race was decided.
Dialled(r, ok) ==
    /\ attempt[r] = "dialing"
    /\ attempt' = [attempt EXCEPT ![r] = IF ok THEN "ok" ELSE "failed"]
    /\ conns' = IF ok THEN conns \cup {r} ELSE conns
    /\ results' = results \cup {r}
    /\ UNCHANGED <<known, cache, race, winner, relayVars, worldVars>>

DialOne(r) == \E ok \in BOOLEAN : (ok => r \in reachable) /\ Dialled(r, ok)

\* The relay pairs a worker only while the leader's control connection is up.
DialRelay == \E ok \in BOOLEAN : (ok => ctrl) /\ Dialled(Relay, ok)

\* raceDial takes the next result; only a direct address is remembered.
TakeResult(r) ==
    /\ race.pc = "racing" /\ r \in results
    /\ results' = results \ {r}
    /\ IF attempt[r] = "ok"
       THEN /\ race' = [race EXCEPT !.pc = "won"]
            /\ winner' = r
            /\ cache' = IF race.keyed /\ r # Relay THEN r ELSE cache
            /\ UNCHANGED attempt
       ELSE /\ attempt' = [attempt EXCEPT ![r] = "none"]
            /\ race' = IF \A q \in Routes \ {r} : attempt[q] = "none"
                       THEN [race EXCEPT !.pc = "lost"] ELSE race
            /\ UNCHANGED <<winner, cache>>
    /\ UNCHANGED <<known, conns, relayVars, worldVars>>

\* Mutant of DrainAndClose: the late connections are left open.
DrainOnly(r) ==
    /\ race.pc = "won" /\ r \in results
    /\ results' = results \ {r}
    /\ UNCHANGED <<known, cache, race, attempt, conns, winner, relayVars, worldVars>>

\* drainAndClose
DrainAndClose(r) ==
    /\ race.pc = "won" /\ r \in results
    /\ results' = results \ {r}
    /\ conns' = IF attempt[r] = "ok" THEN conns \ {r} ELSE conns
    /\ UNCHANGED <<known, cache, race, attempt, winner, relayVars, worldVars>>

Settled == results = {} /\ \A r \in Routes : attempt[r] \notin {"waiting", "dialing"}

\* The connection ends, or none was made, and the worker will dial again.
Redial ==
    /\ race.pc \in {"won", "lost"} /\ Settled
    /\ race' = [pc |-> "idle", keyed |-> FALSE]
    /\ conns' = conns \ {winner} /\ winner' = NoRoute
    /\ attempt' = [r \in Routes |-> "none"]
    /\ UNCHANGED <<known, cache, results, relayVars, worldVars>>

-----------------------------------------------------------------------------
(***************************************************************************)
(* The leader's side of the relay.                                         *)
(***************************************************************************)
\* connectAndServe registers, or fails: dial, handshake, status or conflict.
RegisterWithRelay ==
    /\ ~ctrl /\ listening
    /\ \/ ctrl' = TRUE /\ UNCHANGED backoff
       \/ backoff' = (IF backoff < BackoffMax THEN backoff * 2 ELSE backoff) /\ UNCHANGED ctrl
    /\ UNCHANGED <<workerVars, incoming, queue, listening, worldVars>>

\* The control connection is lost (read error or failed keepalive).
ControlLost ==
    /\ ctrl
    /\ ctrl' = FALSE /\ backoff' = BackoffInitial
    /\ UNCHANGED <<workerVars, incoming, queue, listening, worldVars>>

\* notificationLoop: a worker waits; with too many the notification is dropped.
NotifyIncoming ==
    /\ ctrl /\ incoming < MaxRelayConns
    /\ incoming' = incoming + 1
    /\ UNCHANGED <<workerVars, ctrl, backoff, queue, listening, worldVars>>

\* handleIncoming: no pairing, or Enqueue; on a closed listener select may
\* still choose the buffer.
HandleIncoming ==
    /\ incoming > 0
    /\ incoming' = incoming - 1
    /\ \/ UNCHANGED queue
       \/ queue < ListenerSize /\ queue' = queue + 1
    /\ UNCHANGED <<workerVars, ctrl, backoff, listening, worldVars>>

\* ChannelListener.Accept by gRPC's Serve
Accept ==
    /\ listening /\ queue > 0
    /\ queue' = queue - 1
    /\ UNCHANGED <<workerVars, ctrl, backoff, incoming, listening, worldVars>>

\* ChannelListener.Close at shutdown, which drains the buffer.
CloseListener ==
    /\ listening
    /\ listening' = FALSE /\ queue' = 0 /\ ctrl' = FALSE
    /\ UNCHANGED <<workerVars, backoff, incoming, worldVars>>

\* The leader moves, or addresses come and go.
WorldChanges ==
    /\ moves < MaxMoves /\ moves' = moves + 1
    /\ tracker' \in SUBSET Addrs /\ reachable' \in SUBSET Addrs
    /\ UNCHANGED <<workerVars, relayVars>>

DialNext ==
    \/ Announce \/ DialLeader \/ TryCachedWinner \/ StartRelay \/ Redial
    \/ DialRelay
    \/ \E r \in Addrs : DialOne(r)
    \/ \E r \in Routes : TakeResult(r) \/ DrainAndClose(r)
    \/ RegisterWithRelay \/ ControlLost \/ NotifyIncoming \/ HandleIncoming
    \/ Accept \/ CloseListener \/ WorldChanges

DialSpec == DialInit /\ [][DialNext]_DialVars

-----------------------------------------------------------------------------
\* No dial leaks a connection: once the attempts that lost the race, late
\* successes included, are drained, the only open connection is the one that
\* DialLeader returned, and none is left when it returned an error.
NoLeakedConn == Settled => conns = IF race.pc = "won" THEN {winner} ELSE {}
=============================================================================
