CONSTANTS
  Txns = {t1, t2, t3}
  Keys = {k1, k2, k3}
  MaxKeysRead = 2
  MaxKeysWritten = 1
  Scans = TRUE
SPECIFICATION Spec
SYMMETRY Perms
INVARIANTS
  WindowCoversConcurrent
  UpdatesSerializable
  NoLostUpdate
