SPECIFICATION Spec
CHECK_DEADLOCK FALSE
CONSTANTS
    Instances = {i1}
    Profiles = {p}
    p = p
    NoInstance = NoInstance
    ProfileOf <- SameProfile
    MaxUnloads = 1
    MaxConns = 2
    MaxAgentRestarts = 1
    MaxServerRestarts = 1
    MaxHealthReports = 1
    HaltMayFail = TRUE
    DBMayFail = TRUE
INVARIANTS
    RunningWasReady
    StoppedIsDown
    AlertedIsDead
    DeadIsDown
PROPERTY
    StartingResolves
