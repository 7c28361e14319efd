------------------------------ MODULE MCRpcNack ------------------------------
(***************************************************************************)
(* Instance of RpcNack for TLC: the configuration gives it the four        *)
(* buffers of the source and room for three calls of NegAckFunc.           *)
(***************************************************************************)
EXTENDS RpcNack
=============================================================================
