\* A paused and resumed schedule across a graceful restart.
SPECIFICATION Spec
CONSTANTS
  a = a
  b = b
  i1 = i1
  Nil = Nil
  Subs = {a}
  Instances = {i1}
  InstOf <- OneInstance
  Kind <- AllCron
  CronNext <- MCCronNext
  Fires = {g1, g2}
  Callers = {c1}
  Requests = {"schedule", "pause", "resume"}
  TicksPerSecond = 1
  MaxDelay = 1
  MaxTime = 2
  MaxRequests = 3
  MaxExits = 1
  MaxCrashes = 0
INVARIANT ActiveCronIsArmed
CHECK_DEADLOCK FALSE
