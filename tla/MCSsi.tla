------------------------------- MODULE MCSsi -------------------------------
EXTENDS Ssi, TLC

Perms == Permutations(Txns) \cup Permutations(Keys)
=============================================================================
