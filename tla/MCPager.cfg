CONSTANTS
  Pages = {p1, p2, p3}
  PoolPages = 2
  CkptFrames = 3
  MaxTxns = 2
  MaxLSN = 3
  MaxGen = 3
  MaxCrashes = 2
  Interleaved = FALSE
  OnlineBackup = TRUE
  Failures = TRUE
  PoolUsers = {"heap", "index"}
  PoolHeap = "heap"
  PoolStarts <- MCStarts
  Machines = {"pager", "pool"}
SPECIFICATION MCSpec
SYMMETRY Perms
VIEW PoolView
INVARIANTS
  ServesLastCommit
  NoUncommittedPageStolen
  BackupIsSnapshot
  PoolIsSound
PROPERTIES
  ExhaustedIsHonest
