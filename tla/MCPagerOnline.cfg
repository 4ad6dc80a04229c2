CONSTANTS
  Pages = {p1, p2}
  PoolPages = 2
  CkptFrames = 3
  MaxTxns = 2
  MaxLSN = 4
  MaxGen = 3
  MaxCrashes = 1
  Interleaved = TRUE
  OnlineBackup = FALSE
  Failures = FALSE
  PoolUsers = {"heap", "index"}
  PoolHeap = "heap"
  PoolStarts <- MCStarts
  Machines = {"pager"}
SPECIFICATION MCSpec
SYMMETRY Perms
INVARIANTS
  NoCommittedWriteLost
