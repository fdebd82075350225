SPECIFICATION MCSpec
CONSTANTS
    u1 = u1
    u2 = u2
    p1 = p1
    Users = {u1, u2}
    Admins = {u1}
    GroupMembers = {u2}
    SuperAdmin = sa
    Producers = {p1, p2}
    Keys = {k1}
    NoKey = nokey
    MaxAlerts = 2
    MaxSeverity = 2
    AudienceSets <- MCAudiences
    MaxMails = 2
    MaxAttempts = 2
    BatchSize = 2
    MaxUnsure = 1
    MaxCrashes = 1
    Accounts = {u1, u2, d1}
    DirectoryBacked = {d1}
    Addrs = {x1, x2}
    NoAddr = noaddr
    Slots = {r1, r2}
    MaxTokens = 2
INVARIANTS
    OneOpenPerCondition
    ReadWasSeen
    MailSentOnce
    AddressWasConfirmed
PROPERTIES
    MailSettles
    DigestNewsKept
CHECK_DEADLOCK FALSE
