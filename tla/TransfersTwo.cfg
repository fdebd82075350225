SPECIFICATION Spec
CHECK_DEADLOCK FALSE
CONSTANTS
    t1 = t1
    t2 = t2
    m1 = m1
    Transfers = {t1, t2}
    Kinds = {"internet", "peer"}
    Models = {m1}
    ModelOf <- OneModel
    MaxConns = 1
    MaxSourceDrops = 0
    MaxRestarts = 0
SYMMETRY TransferSymmetry
INVARIANTS
    PresentIsWhole
