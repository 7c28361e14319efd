------------------------------ MODULE RpcChannel ------------------------------
(***************************************************************************)
(* The pool of client channels of the Sprite RPC system (rpc/rpcCall.c).   *)
(*                                                                         *)
(* A process that makes an RPC owns one channel from RpcChanAlloc to       *)
(* RpcChanFree and sleeps on the condition freeChannels when it cannot get *)
(* one.  At interrupt level RpcChanClose borrows an idle channel to answer *)
(* a server that wants its server process back.  A server that answers     *)
(* with negative acknowledgements is recorded as congested for a while,    *)
(* and fewer channels are then used with it.                               *)
(*                                                                         *)
(* Everything between MASTER_LOCK(&rpcMutex) and MASTER_UNLOCK(&rpcMutex)  *)
(* is one atomic action.                                                   *)
(***************************************************************************)
EXTENDS Integers, FiniteSets

CONSTANTS
    Procs,           \* processes that make RPCs
    Servers,         \* server hosts
    NoServer,        \* serverID == -1: the channel has never been used
    NumChannels,     \* rpcNumChannels
    MaxUnhappy,      \* entries of serverAllocState
    ChannelNegAcks,  \* rpcChannelNegAcks: ramp down channels on negative acks
    Multiprocessor   \* MACH_MAX_NUM_PROCESSORS > 1

ASSUME ChannelAssumption ==
    /\ NumChannels \in Nat \ {0}
    /\ NoServer \notin Servers
    /\ MaxUnhappy \in Nat
    /\ ChannelNegAcks \in BOOLEAN
    /\ Multiprocessor \in BOOLEAN

Channels == 0 .. NumChannels - 1

NoChannel == -1

VARIABLES
    state,            \* the bits of chanPtr->state of each channel
    serverID,         \* chanPtr->serverID
    numFreeChannels,
    unhappy,          \* serverAllocState: "no" entry, "recent" or "old" entry
    pc,               \* where each process is in Rpc_Call
    target,           \* the serverID argument of the process
    mine,             \* chanPtr of the process
    closing           \* channels RpcChanClose has marked busy

vars == <<state, serverID, numFreeChannels, unhappy, pc, target, mine, closing>>

\* CHAN_FREE and CHAN_BUSY; the bits that RpcDoCall uses are in module Rpc.
ChanBits == {"FREE", "BUSY"}

TypeOK ==
    /\ state \in [Channels -> SUBSET ChanBits]
    /\ serverID \in [Channels -> Servers \cup {NoServer}]
    /\ numFreeChannels \in 0 .. NumChannels
    /\ unhappy \in [Servers -> {"no", "recent", "old"}]
    /\ pc \in [Procs -> {"idle", "alloc", "sleep", "rpc", "nacked", "panic"}]
    /\ target \in [Procs -> Servers \cup {NoServer}]
    /\ mine \in [Procs -> Channels \cup {NoChannel}]
    /\ closing \in SUBSET Channels

Init ==
    /\ state = [c \in Channels |-> {"FREE"}]
    /\ serverID = [c \in Channels |-> NoServer]
    /\ numFreeChannels = NumChannels
    /\ unhappy = [s \in Servers |-> "no"]
    /\ pc = [p \in Procs |-> "idle"]
    /\ target = [p \in Procs |-> NoServer]
    /\ mine = [p \in Procs |-> NoChannel]
    /\ closing = {}
-----------------------------------------------------------------------------
IsFree(c) == state[c] = {"FREE"}

FreeChannels == {c \in Channels : IsFree(c)}

\* Mutant: the regular branch tests the address before the state.
BusyOrFreeMatch(s) == {c \in Channels : serverID[c] = s}

\* The candidates RpcChanAlloc distinguishes, for server s.
FreeMatch(s) == {c \in Channels : serverID[c] = s /\ IsFree(c)}
BusyMatch(s) == {c \in Channels : serverID[c] = s /\ ~IsFree(c)}
FreeOther(s) == {c \in Channels : serverID[c] \notin {s, NoServer} /\ IsFree(c)}
FreeUnused   == {c \in Channels : serverID[c] = NoServer /\ IsFree(c)}
Unused       == {c \in Channels : serverID[c] = NoServer}

\* c is the first of the set S of channels in table order.
First(c, S) == c \in S /\ \A d \in S : c <= d

\* The process sleeps on the condition freeChannels.
Sleep(p) ==
    /\ pc' = [pc EXCEPT ![p] = "sleep"]
    /\ UNCHANGED <<state, serverID, numFreeChannels, mine>>

\* Mutant: the count is decremented before the label "found", which a channel
\* with the right address jumps to.
TakeUncounted(p, c, s) ==
    /\ state' = [state EXCEPT ![c] = {"BUSY"}]
    /\ serverID' = [serverID EXCEPT ![c] = s]
    /\ numFreeChannels' = IF serverID[c] = s THEN numFreeChannels
                                                  ELSE numFreeChannels - 1
    /\ mine' = [mine EXCEPT ![p] = c]
    /\ pc' = [pc EXCEPT ![p] = "rpc"]

\* Label "found": the channel becomes busy and belongs to the process.
Take(p, c, s) ==
    /\ state' = [state EXCEPT ![c] = {"BUSY"}]
    /\ serverID' = [serverID EXCEPT ![c] = s]
    /\ numFreeChannels' = numFreeChannels - 1
    /\ mine' = [mine EXCEPT ![p] = c]
    /\ pc' = [pc EXCEPT ![p] = "rpc"]

\* No address match: the first unused channel, else the first free one.
TakeOther(p, s, unused) ==
    \/ \E c \in unused : First(c, unused) /\ Take(p, c, s)
    \/ /\ unused = {}
       /\ \E c \in FreeOther(s) : First(c, FreeOther(s)) /\ Take(p, c, s)
    \/ /\ unused = {}
       /\ FreeOther(s) = {}
       /\ pc' = [pc EXCEPT ![p] = "panic"]
       /\ UNCHANGED <<state, serverID, numFreeChannels, mine>>

\* The ramp-down branch of RpcChanAlloc.
AllocCongested(p, s) ==
    /\ unhappy[s] = "recent"
    /\ UNCHANGED unhappy
    /\ LET lowestMatchIsFree ==
             \E c \in FreeMatch(s) : \A b \in BusyMatch(s) : c < b
           firstBusyIsPositive ==
             BusyMatch(s) # {} /\ 0 \notin BusyMatch(s)
       IN \/ /\ lowestMatchIsFree
             /\ \E c \in FreeMatch(s) : First(c, FreeMatch(s)) /\ Take(p, c, s)
          \/ ~lowestMatchIsFree /\ firstBusyIsPositive /\ Sleep(p)
          \/ ~lowestMatchIsFree /\ ~firstBusyIsPositive /\ TakeOther(p, s, Unused)

\* The regular branch; it first forgets an old entry of serverAllocState.
AllocRegular(p, s) ==
    /\ unhappy[s] # "recent"
    /\ unhappy' = [unhappy EXCEPT ![s] = "no"]
    /\ \/ \E c \in FreeMatch(s) : First(c, FreeMatch(s)) /\ Take(p, c, s)
       \/ FreeMatch(s) = {} /\ TakeOther(p, s, FreeUnused)

\* Mutant: the test for a free channel is off by one.
RpcChanAllocOffByOne(p) ==
    /\ pc[p] = "alloc"
    /\ \/ numFreeChannels < 0 /\ Sleep(p) /\ UNCHANGED unhappy
       \/ numFreeChannels >= 0 /\ AllocCongested(p, target[p])
       \/ numFreeChannels >= 0 /\ AllocRegular(p, target[p])
    /\ UNCHANGED <<target, closing>>

RpcChanAlloc(p) ==
    /\ pc[p] = "alloc"
    /\ \/ numFreeChannels < 1 /\ Sleep(p) /\ UNCHANGED unhappy
       \/ numFreeChannels >= 1 /\ AllocCongested(p, target[p])
       \/ numFreeChannels >= 1 /\ AllocRegular(p, target[p])
    /\ UNCHANGED <<target, closing>>
-----------------------------------------------------------------------------
\* Rpc_Call is entered with a server host that is not this host.
Rpc_Call(p) ==
    /\ pc[p] = "idle"
    /\ pc' = [pc EXCEPT ![p] = "alloc"]
    /\ \E s \in Servers : target' = [target EXCEPT ![p] = s]
    /\ UNCHANGED <<state, serverID, numFreeChannels, unhappy, mine, closing>>

\* Sync_MasterBroadcast(&freeChannels), and the process goes on to `next`.
BroadcastAnd(p, next) ==
    [q \in Procs |-> IF q = p THEN next
                     ELSE IF pc[q] = "sleep" THEN "alloc" ELSE pc[q]]

\* Mutant: the last free channel is given back without waking anybody.
RpcChanFreeSilent(p) ==
    /\ pc[p] = "rpc"
    /\ state' = [state EXCEPT ![mine[p]] = {"FREE"}]
    /\ numFreeChannels' = numFreeChannels + 1
    /\ pc' = [pc EXCEPT ![p] = "idle"]
    /\ mine' = [mine EXCEPT ![p] = NoChannel]
    /\ UNCHANGED <<serverID, unhappy, target, closing>>

\* Mutant: only one of several waiters could go on, so wake when two are free.
RpcChanFreeLateWake(p) ==
    /\ pc[p] = "rpc"
    /\ state' = [state EXCEPT ![mine[p]] = {"FREE"}]
    /\ numFreeChannels' = numFreeChannels + 1
    /\ pc' = IF numFreeChannels + 1 = 2 THEN BroadcastAnd(p, "idle")
                                        ELSE [pc EXCEPT ![p] = "idle"]
    /\ mine' = [mine EXCEPT ![p] = NoChannel]
    /\ UNCHANGED <<serverID, unhappy, target, closing>>

\* RpcDoCall has returned.  The channel is freed, and sleepers are woken when
\* it is the only free one; RPC_NACK_ERROR sends the process to "nacked".
RpcChanFree(p) ==
    /\ pc[p] = "rpc"
    /\ state' = [state EXCEPT ![mine[p]] = {"FREE"}]
    /\ numFreeChannels' = numFreeChannels + 1
    /\ \E next \in {"idle"} \cup (IF ChannelNegAcks THEN {"nacked"} ELSE {}) :
         pc' = IF numFreeChannels + 1 = 1 \/ ChannelNegAcks
               THEN BroadcastAnd(p, next)
               ELSE [pc EXCEPT ![p] = next]
    /\ mine' = [mine EXCEPT ![p] = NoChannel]
    /\ UNCHANGED <<serverID, unhappy, target, closing>>

\* SetChannelAllocState(serverID, TRUE); goto allocAgain.
SetChannelAllocState(p) ==
    /\ pc[p] = "nacked"
    /\ LET s == target[p]
           room == Cardinality({t \in Servers : unhappy[t] # "no"}) < MaxUnhappy
       IN unhappy' = IF unhappy[s] # "no" \/ room
                     THEN [unhappy EXCEPT ![s] = "recent"] ELSE unhappy
    /\ pc' = [pc EXCEPT ![p] = "alloc"]
    /\ UNCHANGED <<state, serverID, numFreeChannels, target, mine, closing>>

\* channelStateInterval has passed since the entry was written.
CongestionExpires(s) ==
    /\ unhappy[s] = "recent"
    /\ unhappy' = [unhappy EXCEPT ![s] = "old"]
    /\ UNCHANGED <<state, serverID, numFreeChannels, pc, target, mine, closing>>

\* Mutant: the second test of CHAN_BUSY, under the lock, is forgotten.
RpcChanCloseUnchecked(c) ==
    /\ Multiprocessor
    /\ c \notin closing
    /\ state' = [state EXCEPT ![c] = @ \cup {"BUSY"}]
    /\ numFreeChannels' = numFreeChannels - 1
    /\ closing' = closing \cup {c}
    /\ UNCHANGED <<serverID, unhappy, pc, target, mine>>

\* First critical section of RpcChanClose: borrow the channel if it is not
\* busy.  RpcClientDispatch holds the mutex of the channel all along.  On a
\* uniprocessor the handler runs to its end with interrupts off, so that the
\* borrowing is never visible.
RpcChanClose(c) ==
    /\ Multiprocessor
    /\ c \notin closing
    /\ "BUSY" \notin state[c]
    /\ state' = [state EXCEPT ![c] = @ \cup {"BUSY"}]
    /\ numFreeChannels' = numFreeChannels - 1
    /\ closing' = closing \cup {c}
    /\ UNCHANGED <<serverID, unhappy, pc, target, mine>>

\* Last critical section of RpcChanClose.  Nobody is woken.
RpcChanCloseDone(c) ==
    /\ c \in closing
    /\ state' = [state EXCEPT ![c] = @ \ {"BUSY"}]
    /\ numFreeChannels' = numFreeChannels + 1
    /\ closing' = closing \ {c}
    /\ UNCHANGED <<serverID, unhappy, pc, target, mine>>

Proc(p) == Rpc_Call(p) \/ RpcChanAlloc(p) \/ RpcChanFree(p) \/ SetChannelAllocState(p)

\* A panic stops the host.
Running == \A p \in Procs : pc[p] # "panic"

Next ==
    /\ Running
    /\ \/ \E p \in Procs : Proc(p)
       \/ \E s \in Servers : CongestionExpires(s)
       \/ \E c \in Channels : RpcChanClose(c) \/ RpcChanCloseDone(c)

Spec == Init /\ [][Next]_vars
-----------------------------------------------------------------------------
\* A process inside RpcDoCall or asleep on rpcMutex is eventually scheduled,
\* and RpcDoCall returns because it gives up after maxTries; a process need
\* not start another RPC.
Fairness ==
    \A p \in Procs :
        /\ WF_vars(Running /\ RpcChanAlloc(p))
        /\ WF_vars(Running /\ RpcChanFree(p))
        /\ WF_vars(Running /\ SetChannelAllocState(p))

FairSpec == Spec /\ Fairness
-----------------------------------------------------------------------------
\* The channels that processes hold.
Held == {mine[p] : p \in {q \in Procs : pc[q] = "rpc"}}

\* The counter that lets RpcChanAlloc pass without looking at the table
\* agrees with the table at every release of rpcMutex.
FreeCountExact == numFreeChannels = Cardinality(FreeChannels)

\* A channel is dedicated to one RPC: from RpcChanAlloc to RpcChanFree no
\* other process has it, the close handler does not borrow it, and it stays
\* bound to the server the call is for.
ChannelDedicated ==
    \A p \in Procs :
        pc[p] = "rpc" =>
            /\ mine[p] \in Channels \ closing
            /\ state[mine[p]] = {"BUSY"}
            /\ serverID[mine[p]] = target[p]
            /\ \A q \in Procs : pc[q] = "rpc" /\ mine[q] = mine[p] => q = p

\* A process sleeps in RpcChanAlloc only while some RPC is under way whose
\* RpcChanFree is bound to broadcast: either no channel is left, or broadcasts
\* are unconditional and a channel of the sleeper's server is in use.
SleeperHasWaker ==
    \A p \in Procs :
        pc[p] = "sleep" =>
            \E q \in Procs :
                /\ pc[q] = "rpc"
                /\ \/ numFreeChannels = 0
                   \/ ChannelNegAcks /\ target[q] = target[p]

\* The panic of RpcChanAlloc, "can't find the free channel", is unreachable
\* while channels are not ramped down.
NeverPanics == Running

\* A process that waits for a channel is eventually woken to look again.
SleeperWakes == \A p \in Procs : pc[p] = "sleep" ~> pc[p] # "sleep"
=============================================================================
