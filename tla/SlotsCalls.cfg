\* An operator stops and starts the instance while its channels are used.
SPECIFICATION Spec
CONSTANTS
  c1 = c1
  c2 = c2
  c3 = c3
  Nil = Nil
  Channels = {web, tg}
  Workers = {w1, w2, w3}
  Objs = {o1, o2}
  Callers = {c1, c2, c3}
  MayCall <- OperatorAndChannels
  Faults = {"ensure"}
  SameSecond = FALSE
  MaxSessions = 2
  MaxCalls = 5
  MaxDeaths = 0
  HasParent = FALSE
  UsesTools = FALSE
  Obj0 = o1
  Worker0 = w1
  Channel0 = web
INVARIANTS TypeOK IndexConsistent OneChatPerSession StoppedIsQuiet NoOrphanWorker LocksAcyclic ClearedStaysCleared
 
SYMMETRY HandleSymmetry
CHECK_DEADLOCK FALSE
