\* The parts of an instance, each on its own small instance.
SPECIFICATION Spec
CONSTANTS
    \* InstanceTree
    Ids = {i1, i2, i3}
    NoId = NoId
    Jobs = {j1, j2}
    MaxOps = 3
    MaxCrashes = 1
    MaxFailures = 1
    \* ToolRules
    ShellTool = bash
    FileTool = read
    Commands = {k1}
    Models = {m1, m2}
    MaxChanges = 2
    \* Wildcard
    MaxPattern = 4
    MaxText = 3
    \* Conversation
    FreshTailCount = 2
    LeafChunkTokens = 2
    LeafMinFanout = 2
    CondenseMinFanout = 2
    MaxSummaryDepth = 2
    SoftLimit = 2
    HardLimit = 3
    TokenBudget = 4
    MaxIterations = 3
    MaxSize = 2
    MaxMessages = 6
    \* ContextDeltas
    Names = {n1, n2}
    Contents = {c1, c2}
    NoContent = NoContent
    MaxMemoryEntries = 1
    MaxWorldChanges = 2
    MaxTurns = 3
    \* ChannelRouter
    Webs = {w1, w2}
    Chats = {t1}
    Pumps = {1, 2}
    MaxNotes = 2
    MaxDisruptions = 1
    \* ChannelAccess
    Senders = {s1, s2}
    Writers = {a1, a2, p1, p2}
    NoWriter = NoWriter
    MaxPendingSenders = 1
    Updates = 2
    Pollers = {p1, p2}
    MaxAdmin = 2
    \* BackgroundTasks
    Tasks = {b1, b2, b3}
    MaxBackgroundJobs = 2
    JobBuffer = 1
    \* LeaderDial
    Addrs = {a1, a2}
    Static = a1
    Relay = relay
    NoRoute = NoRoute
    MaxRelayConns = 1
    ListenerSize = 1
    BackoffInitial = 1
    BackoffMax = 2
    MaxMoves = 1
INVARIANTS
    ChildrenRegistered SpawnLeavesNothing MatchDecides  ToldIsCurrent
    DeliveredInOrder DecisionsStand ConfirmedWasHandled 
    NoLeakedConn
  
CHECK_DEADLOCK FALSE
