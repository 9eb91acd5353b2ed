\* Schedules are paused and resumed over the API, the server crashes at any step.
SPECIFICATION FairSpec
CONSTANTS
  a = a
  b = b
  i1 = i1
  Nil = Nil
  Subs = {a, b}
  Instances = {i1}
  InstOf <- OneInstance
  Kind <- CronOnce
  CronNext <- MCCronNext
  Fires = {g1, g2}
  Callers = {c1}
  Requests = {"schedule", "pause", "resume", "resume_stopped", "death"}
  TicksPerSecond = 1
  MaxDelay = 1
  MaxTime = 2
  MaxRequests = 4
  MaxExits = 0
  MaxCrashes = 1
INVARIANT InactiveIsQuiet
PROPERTIES OneShotAtMostOnce DueFires
CHECK_DEADLOCK FALSE
