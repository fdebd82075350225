SPECIFICATION Spec
CHECK_DEADLOCK FALSE
CONSTANTS
    Instances = {i1, i2}
    Profiles = {p}
    p = p
    NoInstance = NoInstance
    ProfileOf <- SameProfile
    MaxUnloads = 1
    MaxConns = 1
    MaxAgentRestarts = 0
    MaxServerRestarts = 0
    MaxHealthReports = 0
    HaltMayFail = FALSE
    DBMayFail = FALSE
INVARIANT OneActivePerProfile
