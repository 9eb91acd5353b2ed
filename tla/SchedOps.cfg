\* Instances are stopped, started and deleted, the server restarts gracefully.
SPECIFICATION Spec
CONSTANTS
  a = a
  b = b
  i1 = i1
  Nil = Nil
  Subs = {a, b}
  Instances = {i1}
  InstOf <- OneInstance
  Kind <- CronOnce
  CronNext <- MCCronNext
  Fires = {g1, g2}
  Callers = {c1}
  Requests = {"schedule", "stop", "start", "cancel", "delete"}
  TicksPerSecond = 1
  MaxDelay = 1
  MaxTime = 3
  MaxRequests = 4
  MaxExits = 1
  MaxCrashes = 0
INVARIANTS TypeOK NoOverlap RunningExact ActiveIsArmed InactiveIsQuiet
PROPERTIES OneShotAtMostOnce
SYMMETRY FireSymmetry
CHECK_DEADLOCK FALSE
