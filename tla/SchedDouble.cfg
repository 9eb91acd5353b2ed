\* A schedule resumed while its instance is stopped, then cancelled.
SPECIFICATION Spec
CONSTANTS
  a = a
  b = b
  i1 = i1
  Nil = Nil
  Subs = {a}
  Instances = {i1}
  InstOf <- OneInstance
  Kind <- AllCron
  CronNext <- MCCronNext
  Fires = {g1, g2}
  Callers = {c1}
  Requests = {"schedule", "stop", "resume_stopped", "start", "cancel"}
  TicksPerSecond = 1
  MaxDelay = 1
  MaxTime = 2
  MaxRequests = 5
  MaxExits = 0
  MaxCrashes = 0
INVARIANT InactiveIsQuiet
CHECK_DEADLOCK FALSE
