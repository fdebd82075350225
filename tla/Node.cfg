SPECIFICATION MCSpec
CONSTANTS
    Instances = {1, 2}
    Labelled = {1}
    ChunkSize = 1
    MaxRequests = 3
    ModelFiles = {"st", "Q4_K_M", "Q4_K", "a1", "b1", "b3"}
    FormatOf <- MCFormatOf
    SetOf <- MCSetOf
    Rank <- MCRank
    LabelOf <- MCLabelOf
    LabelsIn <- MCLabelsIn
    MaxScans = 1
INVARIANTS
    RemovedWasOver
    ListIsWhole
    ImportSparesNeighbours
CHECK_DEADLOCK FALSE
