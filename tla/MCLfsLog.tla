------------------------------ MODULE MCLfsLog ------------------------------
(* LfsLog with names for the files and for the processes that sync.        *)
EXTENDS LfsLog

CONSTANTS f1, f2, s1
=============================================================================
