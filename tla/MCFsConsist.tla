----------------------------- MODULE MCFsConsist -----------------------------
EXTENDS FsConsist, TLC

Symmetry == Permutations(Clients) \cup Permutations(Slots)
=============================================================================
