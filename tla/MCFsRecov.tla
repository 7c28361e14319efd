----------------------------- MODULE MCFsRecov -----------------------------
(* FsRecov with names for a client's processes and handles.                *)
EXTENDS FsRecov

CONSTANTS p1, p2, h1, h2
============================================================================
