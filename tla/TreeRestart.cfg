\* The server stops and restores its instances.
SPECIFICATION TreeSpec
CONSTANTS
    Ids = {i1, i2, i3}
    NoId = NoId
    Jobs = {j1, j2}
    MaxOps = 2
    MaxCrashes = 1
    MaxFailures = 0
INVARIANT PersistentSurvivesRestart
CHECK_DEADLOCK FALSE
