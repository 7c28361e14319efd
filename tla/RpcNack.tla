------------------------------- MODULE RpcNack -------------------------------
(***************************************************************************)
(* Negative acknowledgements of the RPC server side (rpc/rpcServer.c).     *)
(*                                                                         *)
(* When no server process can be allocated for a request, the interrupt    *)
(* handler RpcServerDispatch copies the header into a buffer and leaves    *)
(* the sending to NegAckFunc, which a kernel server process runs later     *)
(* (Proc_CallFunc).  NegAckFunc gives up rpcNack.mutex while a packet is   *)
(* transmitted, so several calls of it and more interrupts interleave.     *)
(***************************************************************************)
EXTENDS Integers, FiniteSets

CONSTANTS
    NumNackBuffers,  \* rpc_NumNackBuffers
    Funcs            \* entries for NegAckFunc in the queue of Proc_CallFunc

ASSUME NackAssumption == NumNackBuffers \in Nat \ {0}

Buffers == 0 .. NumNackBuffers - 1

VARIABLES
    hdrState,   \* rpcNack.hdrState
    numFree,    \* rpcNack.numFree
    at          \* the loop index i of each call of NegAckFunc

vars == <<hdrState, numFree, at>>

\* A call of NegAckFunc that has not begun, and an entry that is not in use
\* (its loop, if any, is past the last buffer).
NotBegun == -1
Returned == NumNackBuffers

TypeOK ==
    /\ hdrState \in [Buffers -> {"FREE", "WAITING", "XMITTING"}]
    /\ numFree \in 0 .. NumNackBuffers
    /\ at \in [Funcs -> NotBegun .. Returned]

\* RpcSetNackBufs.
Init ==
    /\ hdrState = [i \in Buffers |-> "FREE"]
    /\ numFree = NumNackBuffers
    /\ at = [f \in Funcs |-> Returned]
-----------------------------------------------------------------------------
InState(st) == {i \in Buffers : hdrState[i] = st}

First(i, S) == i \in S /\ \A j \in S : i <= j

\* Mutant: any waiting buffer is taken as a sign that a function will come by.
FuncIsAnywhere(k) == \E i \in InState("WAITING") : i # k

\* A function is already going to pass the buffer k: one of the buffers before
\* k is waiting.  (alreadyFunc != -1 && alreadyFunc < foundSpot)
FuncIsBefore(k) == \E i \in InState("WAITING") : i < k

\* Proc_CallFunc(NegAckFunc, NIL, 0).
CallFunc ==
    \E f \in Funcs : /\ at[f] = Returned
                     /\ at' = [at EXCEPT ![f] = NotBegun]

\* RpcServerDispatch for a message with no server.  A full table drops the
\* negative acknowledgement.
RpcServerDispatch ==
    /\ numFree > 0
    /\ \E k \in InState("FREE") :
         /\ First(k, InState("FREE"))
         /\ hdrState' = [hdrState EXCEPT ![k] = "WAITING"]
         /\ numFree' = numFree - 1
         /\ IF FuncIsBefore(k) THEN UNCHANGED at ELSE CallFunc

\* Mutant: the buffer is not marked while its packet is transmitted.
ScanOnUnmarked(f, st) ==
    LET waiting == {i \in Buffers : st[i] = "WAITING" /\ i > at[f]} IN
    \/ \E i \in waiting :
         /\ First(i, waiting)
         /\ hdrState' = st
         /\ at' = [at EXCEPT ![f] = i]
    \/ /\ waiting = {}
       /\ hdrState' = st
       /\ at' = [at EXCEPT ![f] = Returned]

\* The loop of NegAckFunc in call f goes on from its index to the next waiting
\* buffer, or to its end; `st` is the table.
ScanOn(f, st) ==
    LET waiting == {i \in Buffers : st[i] = "WAITING" /\ i > at[f]} IN
    \/ \E i \in waiting :
         /\ First(i, waiting)
         /\ hdrState' = [st EXCEPT ![i] = "XMITTING"]
         /\ at' = [at EXCEPT ![f] = i]
    \/ /\ waiting = {}
       /\ hdrState' = st
       /\ at' = [at EXCEPT ![f] = Returned]

\* NegAckFunc gets rpcNack.mutex for the first time.
NegAckFunc(f) ==
    /\ at[f] = NotBegun
    /\ ScanOn(f, hdrState)
    /\ UNCHANGED numFree

\* Mutant: the buffer is released and the count is forgotten.
NegAckSentUncounted(f) ==
    /\ at[f] \in Buffers
    /\ ScanOn(f, [hdrState EXCEPT ![at[f]] = "FREE"])
    /\ UNCHANGED numFree

\* Mutant: the buffer is counted twice, by the sender and by its caller.
NegAckSentTwice(f) ==
    /\ at[f] \in Buffers
    /\ ScanOn(f, [hdrState EXCEPT ![at[f]] = "FREE"])
    /\ numFree' = numFree + 2

\* RpcOutput returns with rpcNack.mutex: the buffer is free again.
NegAckSent(f) ==
    /\ at[f] \in Buffers
    /\ ScanOn(f, [hdrState EXCEPT ![at[f]] = "FREE"])
    /\ numFree' = numFree + 1

Next ==
    \/ RpcServerDispatch
    \/ \E f \in Funcs : NegAckFunc(f) \/ NegAckSent(f)

Spec == Init /\ [][Next]_vars

\* A kernel server process runs every queued function, and the network driver
\* ends every transmission.
Fairness == \A f \in Funcs : WF_vars(NegAckFunc(f)) /\ WF_vars(NegAckSent(f))

FairSpec == Spec /\ Fairness
-----------------------------------------------------------------------------
\* The counter that decides whether the negative acknowledgement is dropped
\* agrees with the table.  So the panic of RpcServerDispatch, "couldn't find
\* free rpcHdr", is unreachable.
NackCountExact == numFree = Cardinality(InState("FREE"))

\* The economy of RpcServerDispatch (no new call of NegAckFunc when one "is
\* already" going to come by) never strands a buffer: every waiting one is
\* ahead of some call.
WaitingCovered ==
    \A i \in InState("WAITING") : \E f \in Funcs : at[f] < i

\* A buffer is transmitted by one call at a time, and is not reused meanwhile.
OneSender ==
    /\ \A f \in Funcs : at[f] \in Buffers => hdrState[at[f]] = "XMITTING"
    /\ \A f, g \in Funcs : at[f] \in Buffers /\ at[f] = at[g] => f = g

\* Every negative acknowledgement that was not dropped is sent, and its buffer
\* comes back.
NackIsSent ==
    \A i \in Buffers : hdrState[i] = "WAITING" ~> hdrState[i] = "FREE"
=============================================================================
