\* A worker dies between two messages to its session.
SPECIFICATION Spec
CONSTANTS
  c1 = c1
  c2 = c2
  c3 = c3
  Nil = Nil
  Channels = {web, tg}
  Workers = {w1, w2}
  Objs = {o1, o2}
  Callers = {c1, c2}
  MayCall <- TwoSenders
  Faults = {}
  SameSecond = FALSE
  MaxSessions = 2
  MaxCalls = 2
  MaxDeaths = 1
  HasParent = FALSE
  UsesTools = FALSE
  Obj0 = o1
  Worker0 = w1
  Channel0 = web
INVARIANT OneChatPerSession
CHECK_DEADLOCK FALSE
