---------------------------- MODULE MCSyncEngine ----------------------------
EXTENDS SyncEngine, TLC

Symmetry == Permutations(Keys) \cup Permutations(Runs)
=============================================================================
