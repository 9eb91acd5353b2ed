SPECIFICATION Spec
CONSTANTS
    Nodes = {n1, n2}
    Streams = {s1, s2}
    NoStream = NoStream
    MaxPending = 1
    MaxFaults = 1
    MaxRequests = 2
    Producers = {p1, p2}
    MaxNotifications = 2
    MaxPushes = 4
INVARIANT RegistryIsServed
PROPERTIES  QueueIsMailbox
CHECK_DEADLOCK FALSE
