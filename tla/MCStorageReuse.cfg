CONSTANTS
    BodyLen = 16
    ForwardLen = 2
    CellHeader = 2
    SpillThreshold = 9
    ChainHeader = 2
    FieldLen <- MCFieldLen
    DocLens = {1, 9, 20}
    Setups <- MCSetups
    MaxRecordOps = 1
    TreeRIDs <- MCRIDs
    TreeSetups <- MCTreeSetups
    ScanRanges <- MCRanges
    PutFields = {2, 4, 11, 14}
    MaxTreeOps = 2
    XFields = {1, 8}
    StoreSetups <- MCStoreSetups
    Transactions <- MCTransactions
    MaxCommits = 2
    MaxBuilds = 1
    MaxCrashes = 1
    MaxReads = 1
    MaxEvents = 0
    Clients = {c1, c2}
    Databases = {db1, db2}
    Names = {n1, n2}
    MaxCreates = 2
    MaxReopens = 1
    MaxFails = 0
    Machines = {"engine"}

SPECIFICATION MCSpec
INVARIANT NoDroppedDocuments
CHECK_DEADLOCK FALSE
