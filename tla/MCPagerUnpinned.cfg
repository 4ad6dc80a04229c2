CONSTANTS
  Pages = {p1}
  PoolPages = 2
  CkptFrames = 3
  MaxTxns = 1
  MaxLSN = 1
  MaxGen = 3
  MaxCrashes = 1
  Interleaved = FALSE
  OnlineBackup = FALSE
  Failures = FALSE
  PoolUsers = {"heap", "index"}
  PoolHeap = "heap"
  PoolStarts <- MCFreeing
  Machines = {"pool"}
SPECIFICATION MCSpec
SYMMETRY Perms
VIEW PoolView
INVARIANTS
  FetchedIsPinned
