\* The parts of the fleet, each on its own small instance.
SPECIFICATION Spec
CONSTANTS
    \* RemoteWorkers
    Handles = {h1, h2}
    Sessions = {se1}
    NoHandle = NoHandle
    NoSession = NoSession
    MaxBreaks = 1
    \* FileSync
    Leader = leader
    Workers = {w1, w2}
    MaxEvents = 2
    \* TerminalSessions
    Locals = {l1}
    Remotes = {r1}
    Clients = {c1}
    MaxPerNode = 1
    MaxTotal = 1
    MaxReplay = 1
    SubscriberBuffer = 1
    MaxOutput = 2
    \* ControlPlane
    Requests = {1, 2}
    Providers = {p1, p2}
    MaxChanges = 3
    MaxFileEdits = 1
    \* Swarm
    Peers = {q1, q2}
    Dispatches = {t1, t2}
    NoPeer = NoPeer
INVARIANTS AnswersFit  AttachedMissNothing  NothingLeftOfTask
CHECK_DEADLOCK FALSE
