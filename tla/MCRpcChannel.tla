----------------------------- MODULE MCRpcChannel -----------------------------
(***************************************************************************)
(* Instance of RpcChannel for TLC.  Processes and servers are              *)
(* interchangeable in the specification, so safety runs use symmetry.      *)
(***************************************************************************)
EXTENDS RpcChannel, TLC

Symmetry == Permutations(Procs) \cup Permutations(Servers)
=============================================================================
