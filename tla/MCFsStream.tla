------------------------------ MODULE MCFsStream ------------------------------
(***************************************************************************)
(* FsStream for TLC: process p1 on the server reads the pipe, p2 on a      *)
(* client writes it, and p3 on another client only locks the file, with    *)
(* and without blocking.  All three lock the file.                         *)
(***************************************************************************)
EXTENDS FsStream, TLC

CONSTANTS p1, p2, p3, h1, h2, h3

MCHostOf == p1 :> h1 @@ p2 :> h2 @@ p3 :> h3
OneWriter == p1 :> {"READ"} @@ p2 :> {"WRITE"} @@ p3 :> {}
MCNonBlocking == p1 :> {FALSE} @@ p2 :> {FALSE} @@ p3 :> BOOLEAN
MCModes == p1 :> {"SHARED"} @@ p2 :> {"SHARED"} @@ p3 :> {"EXCLUSIVE"}
MCLists == {"lock", "read", "write"}
=============================================================================
