SPECIFICATION Spec
CHECK_DEADLOCK FALSE
CONSTANTS
    t1 = t1
    t2 = t2
    m1 = m1
    Transfers = {t1}
    Kinds = {"internet", "peer"}
    Models = {m1}
    ModelOf <- OneModel
    MaxConns = 2
    MaxSourceDrops = 1
    MaxRestarts = 1
INVARIANTS
    PullIsAuthorized
    CompletedWasFetched
PROPERTIES
    TransferEnds
    CancelStopsRun
