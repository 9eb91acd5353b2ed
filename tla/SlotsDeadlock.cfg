\* An instance with a parent is stopped while a channel opens a session.
SPECIFICATION Spec
CONSTANTS
  c1 = c1
  c2 = c2
  c3 = c3
  Nil = Nil
  Channels = {web, tg}
  Workers = {w1, w2}
  Objs = {o1, o2}
  Callers = {c1, c2}
  MayCall <- StopAndSend
  Faults = {}
  SameSecond = FALSE
  MaxSessions = 2
  MaxCalls = 2
  MaxDeaths = 0
  HasParent = TRUE
  UsesTools = FALSE
  Obj0 = o1
  Worker0 = w1
  Channel0 = web
INVARIANT LocksAcyclic
CHECK_DEADLOCK FALSE
