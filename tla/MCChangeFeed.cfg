CONSTANTS
  Writers = {w1}
  Streams = {s1}
  Colls = {c1, c2}
  Docs = {d1}
  FeedCapacity = 2
  MaxEvents = 4
  MaxWatches = 2
  ConnLimits = {1, 2}
  Lsids = {l1}
  TxnNums = {1, 2}
  Results = {3}
  MaxAccepts = 2
  MaxRequests = 4
  MaxTxns = 2
  MaxCursors = 1
  Machines = {"feed", "wire"}
SPECIFICATION MCSpec
INVARIANTS
  StreamsAreHonest
  NothingLeaks
  CommitRepliesTrue
  CursorDeliversAll
PROPERTIES
  EventsAreDelivered
  ServeReturns
