CONSTANTS
    ExactInt = 30
    Int32Max = 7
    Int64Max = 15
    Now = 4
    NameOrder <- MCNameOrder
    Clients = {p1, p2}
    Colls = {"x", "y"}
    Scenes <- MCScenes
    MaxRetries = 2
    MaxPolicies = 1
    ArchPages = {1, 2}
    MaxBatch = 2
    ArchScenes <- MCArchScenes
    Flushers = {"loop", "user"}
SPECIFICATION MCSpec
INVARIANTS
  WritesAreKept
  ArchiveRestores
PROPERTIES
  CallsAreTrue
  ExpiredAreRemoved
  CapturedAreArchived
CHECK_DEADLOCK FALSE
