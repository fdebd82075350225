SPECIFICATION MCSpec
CONSTANTS
    ada = ada
    loc = loc
    g1 = g1
    d1 = d1
    DayLen = 8
    WeekLen = 2
    Back = 1
    Ahead = 2
    Zones <- MCZones
    Specs <- MCSpecs
    Horizon = 24
    MaxEdits = 2
    EngineRuns = {1, 2}
    Versions = {v1, v2}
    People = {ada, loc, sa}
    Directory = {ada}
    LocalOnly = {loc}
    Visits = {r1, r2}
    Lifetime = 3
    Interval = 2
    Window = 2
    MaxTries = 2
    LastInstant = 4
    Staff = {ada, loc}
    LocalStaff = {loc}
    AppGroups = {g1, g2}
    AdGroups = {d1}
    Profiles = {m1}
    Nodes = {n1}
    Forms = {1, 2}
    Values = {"x", "y"}
INVARIANTS
    LatestIsLatest
    NeverTwice
    EngineWasVerified
    AttemptsLimited
    AdmittedIsCurrent
    AccessWasGranted
CHECK_DEADLOCK FALSE
