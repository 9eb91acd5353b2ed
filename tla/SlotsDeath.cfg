\* Workers die, spawns fail everywhere, the instance is deleted.
SPECIFICATION FairSpec
CONSTANTS
  c1 = c1
  c2 = c2
  c3 = c3
  Nil = Nil
  Channels = {web, tg}
  Workers = {w1, w2}
  Objs = {o1, o2}
  Callers = {c1, c2}
  MayCall <- OperatorAndChannel
  Faults = {"ensure", "clear", "clear_early", "start"}
  SameSecond = FALSE
  MaxSessions = 2
  MaxCalls = 3
  MaxDeaths = 1
  HasParent = FALSE
  UsesTools = FALSE
  Obj0 = o1
  Worker0 = w1
  Channel0 = web
INVARIANT IndexConsistent
PROPERTIES DeadSlotRemoved CallsReturn
CHECK_DEADLOCK FALSE
