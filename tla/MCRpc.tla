-------------------------------- MODULE MCRpc --------------------------------
EXTENDS Rpc, TLC

Symmetry == Permutations(Clients)
=============================================================================
