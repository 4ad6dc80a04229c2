CONSTANTS
  NoDoc = NoDoc
  Clients = {c1, c2, c3}
  k1 = k1
  k2 = k2
  x1 = x1
  x2 = x2
  Keys = {k1, k2}
  Colls = {x1, x2}
  CollOf <- MCCollOf
  Docs = {d1}
  MaxRecovered = 1
  MaxVer = 2
  MaxWriters = 2
  MaxMulti = 1
SPECIFICATION Spec
SYMMETRY Perms
INVARIANTS
  TypeOK
  OracleIsExact
  ChainsAreSound
  GcWatermarkSafe
  NoGarbageWhenQuiet
PROPERTIES
  ImplementsSnapshotIsolation
