--------------------------------- MODULE Rpc ---------------------------------
(***************************************************************************)
(* The Sprite RPC protocol between client channels and the server          *)
(* processes of one host: rpc/rpcClient.c, rpcServer.c, rpcDaemon.c and    *)
(* the dispatching part of rpcDispatch.c.                                  *)
(*                                                                         *)
(* A request is acknowledged by its reply, and a reply by the next request *)
(* on the channel.  Explicit acknowledgements are sent only on a resent    *)
(* request, and by the daemon's probe of a server that has become idle.    *)
(*                                                                         *)
(* The kernel is a uniprocessor one (MACH_MAX_NUM_PROCESSORS is 1): what   *)
(* runs at interrupt level (Rpc_Dispatch, Rpc_Timeout) is one step, and so *)
(* is a section of a process under a master lock.  Messages fit in one     *)
(* packet.  Each client host uses one channel.                             *)
(***************************************************************************)
EXTENDS Integers, Sequences, FiniteSets, SequencesExt

CONSTANTS
    Clients,       \* client hosts
    NoClient,      \* clientID == -1: the server has never been allocated
    Commands,      \* RPC commands
    NoCommand,     \* the command field of a header not yet used
    NumServers,    \* rpcNumServers
    MaxTries,      \* constPtr->maxTries
    MaxServerAge,  \* rpcMaxServerAge
    SendNegAcks,   \* rpcSendNegAcks
    FreshServers,  \* the server processes have yet to install themselves
    Ordered,       \* the network keeps the order of messages
    Prompt,        \* a packet arrives or is lost before any timer that was
                   \* running when it was sent expires
    MaxID,         \* bound: calls that a client makes between two boots
    MaxReboots,    \* bound: times that a client reboots
    MaxNet         \* bound: packets under way in one direction

ASSUME RpcAssumption ==
    /\ NoClient \notin Clients
    /\ NoCommand \notin Commands
    /\ NumServers \in Nat \ {0}
    /\ MaxTries \in Nat \ {0}
    /\ MaxServerAge \in Nat
    /\ MaxID \in Nat /\ MaxReboots \in Nat /\ MaxNet \in Nat
    /\ {SendNegAcks, FreshServers, Ordered, Prompt} \subseteq BOOLEAN

ServerIDs == 0 .. NumServers - 1

\* A call is told apart by its client, the client's boot and its rpcID.
Call(c, b, i) == [clt |-> c, boot |-> b, id |-> i]
Calls == [clt : Clients, boot : 0 .. MaxReboots, id : 1 .. MaxID]

VARIABLES
    (* client side: RpcClientChannel and the process in Rpc_Call *)
    cstate,      \* bits of chanPtr->state
    cpc,         \* where the process is: idle, loop, wait, done
    error,       \* what RpcDoCall returns
    rpcID,       \* the next transaction ID
    bootID,      \* rpcBootID
    request,     \* requestRpcHdr: ID, command, RPC_PLSACK
    input,       \* replyRpcHdr: the last message accepted
    numTries,
    (* server side: RpcServerState and the process in Rpc_Server *)
    state,       \* bits of srvPtr->state
    ID,          \* srvPtr->ID
    age,
    clientID,
    requestHdr,  \* requestRpcHdr
    reply,       \* replyRpcHdr
    freeReply,   \* freeReplyProc != NIL: the reply's storage is allocated
    spc,         \* where the process is: start, top, wait, exec
    doing,       \* the call whose arguments the service procedure was given
    knownBoot,   \* the boot of each client that the recovery module knows
    (* the network *)
    toServer, toClient,
    (* history *)
    execs,       \* how often each call was executed (2: more than once)
    outcome      \* how each call ended

cvars == <<cstate, cpc, error, rpcID, bootID, request, input, numTries, outcome>>
svars == <<state, ID, age, clientID, requestHdr, reply, freeReply>>
pvars == <<spc, doing, knownBoot, execs>>
vars == <<cvars, svars, pvars, toServer, toClient>>

ChanBits == {"BUSY", "WAITING", "INPUT", "TIMEOUT"}
SrvBits == {"FREE", "BUSY", "WAITING", "AGING", "STUCK"}
IDs == 0 .. MaxID
NoCall == Call(NoClient, 0, 0)

ToServer == [type : {"REQUEST", "CLOSE_ACK"}, call : Calls, cmd : Commands,
             hint : ServerIDs, plsAck : BOOLEAN]
ToClient == [type : {"REPLY", "ACK", "NACK", "CLOSE"}, clt : Clients, id : IDs,
             cmd : Commands, hint : ServerIDs, of : Calls \cup {NoCall}]

TypeOK ==
    /\ cstate \in [Clients -> SUBSET ChanBits]
    /\ cpc \in [Clients -> {"idle", "loop", "wait", "done"}]
    /\ error \in [Clients -> {"SUCCESS", "RPC_TIMEOUT"}]
    /\ rpcID \in [Clients -> 1 .. MaxID + 1]
    /\ bootID \in [Clients -> 0 .. MaxReboots]
    /\ request \in [Clients -> [id : IDs, cmd : Commands \cup {NoCommand}, plsAck : BOOLEAN]]
    /\ \A c \in Clients : input[c].hint \in ServerIDs
    /\ numTries \in [Clients -> 0 .. MaxTries]
    /\ state \in [ServerIDs -> SUBSET SrvBits]
    /\ ID \in [ServerIDs -> IDs]
    /\ age \in [ServerIDs -> 0 .. MaxServerAge]
    /\ clientID \in [ServerIDs -> Clients \cup {NoClient}]
    /\ requestHdr \in [ServerIDs -> [type : {"NONE", "REQUEST", "CLOSE_ACK"}, call : Calls \cup {NoCall},
                                 cmd : Commands \cup {NoCommand}]]
    /\ freeReply \in [ServerIDs -> BOOLEAN]
    /\ spc \in [ServerIDs -> {"start", "top", "wait", "exec"}]
    /\ doing \in [ServerIDs -> Calls \cup {NoCall}]
    /\ toServer \in Seq(ToServer) /\ Len(toServer) <= MaxNet
    /\ toClient \in Seq(ToClient) /\ Len(toClient) <= MaxNet
    /\ execs \in [Calls -> 0 .. 2]
    /\ outcome \in [Calls -> {"none", "reply", "timeout", "crash"}]

\* Rpc_Init and RpcInitServerState; unless FreshServers, every server process
\* is waiting for its first request.
Init ==
    /\ cstate = [c \in Clients |-> {}]
    /\ cpc = [c \in Clients |-> "idle"]
    /\ error = [c \in Clients |-> "SUCCESS"]
    /\ rpcID = [c \in Clients |-> 1]
    /\ bootID = [c \in Clients |-> 0]
    /\ request = [c \in Clients |-> [id |-> 0, cmd |-> NoCommand, plsAck |-> FALSE]]
    /\ input = [c \in Clients |-> [type |-> "ACK", id |-> 0, hint |-> 0, of |-> NoCall]]
    /\ numTries = [c \in Clients |-> 0]
    /\ state = [s \in ServerIDs |-> IF FreshServers THEN {} ELSE {"FREE", "WAITING"}]
    /\ ID = [s \in ServerIDs |-> 0]
    /\ age = [s \in ServerIDs |-> 0]
    /\ clientID = [s \in ServerIDs |-> NoClient]
    /\ requestHdr = [s \in ServerIDs |-> [type |-> "NONE", call |-> NoCall, cmd |-> NoCommand]]
    /\ reply = [s \in ServerIDs |-> [clt |-> NoClient, id |-> 0, cmd |-> NoCommand, err |-> FALSE, of |-> NoCall]]
    /\ freeReply = [s \in ServerIDs |-> FALSE]
    /\ spc = [s \in ServerIDs |-> IF FreshServers THEN "start" ELSE "wait"]
    /\ doing = [s \in ServerIDs |-> NoCall]
    /\ knownBoot = [c \in Clients |-> 0]
    /\ toServer = <<>>
    /\ toClient = <<>>
    /\ execs = [k \in Calls |-> 0]
    /\ outcome = [k \in Calls |-> "none"]
-----------------------------------------------------------------------------
(* The network: packets may be lost, and are when MaxNet are under way. *)

Sent(net, m) == IF Len(net) < MaxNet THEN Append(net, m) ELSE net

\* Positions of the packets that can arrive next.
Arriving(net) == {n \in 1 .. Len(net) : Ordered => n = 1}

\* No timer expires while a packet to or from the client is under way.
TimerMayExpire(c) ==
    Prompt => /\ \A n \in 1 .. Len(toServer) : toServer[n].call.clt # c
              /\ \A n \in 1 .. Len(toClient) : toClient[n].clt # c

LosePacket ==
    \/ /\ \E n \in Arriving(toServer) : toServer' = RemoveAt(toServer, n)
       /\ UNCHANGED <<cvars, svars, pvars, toClient>>
    \/ /\ \E n \in Arriving(toClient) : toClient' = RemoveAt(toClient, n)
       /\ UNCHANGED <<cvars, svars, pvars, toServer>>
-----------------------------------------------------------------------------
(* The client: Rpc_Call, RpcDoCall, RpcClientDispatch. *)

CurrentCall(c) == Call(c, bootID[c], request[c].id)
Pending(c) == cpc[c] \in {"loop", "wait"}

\* RpcOutput of the request, with the server hint last received.
SendRequest(c, hdr) ==
    toServer' = Sent(toServer, [type |-> "REQUEST", call |-> Call(c, bootID[c], hdr.id),
                                cmd |-> hdr.cmd, hint |-> input[c].hint, plsAck |-> hdr.plsAck])

\* RpcSetup and the first transmission of RpcDoCall.
Rpc_Call(c) ==
    /\ cpc[c] = "idle"
    /\ rpcID[c] <= MaxID
    /\ \E k \in Commands :
         LET hdr == [id |-> rpcID[c], cmd |-> k, plsAck |-> FALSE] IN
         request' = [request EXCEPT ![c] = hdr] /\ SendRequest(c, hdr)
    /\ rpcID' = [rpcID EXCEPT ![c] = @ + 1]
    /\ cstate' = [cstate EXCEPT ![c] = {"BUSY", "WAITING"}]
    /\ cpc' = [cpc EXCEPT ![c] = "loop"]
    /\ error' = [error EXCEPT ![c] = "SUCCESS"]
    /\ numTries' = [numTries EXCEPT ![c] = 0]
    /\ UNCHANGED <<svars, pvars, bootID, input, outcome, toClient>>

\* RpcOutput has returned and no input came meanwhile: schedule the timeout.
AwaitInput(c) ==
    /\ cpc[c] = "loop"
    /\ "INPUT" \notin cstate[c]
    /\ cstate' = [cstate EXCEPT ![c] = @ \cup {"TIMEOUT", "WAITING"}]
    /\ cpc' = [cpc EXCEPT ![c] = "wait"]
    /\ UNCHANGED <<svars, pvars, error, rpcID, bootID, request, input, numTries, outcome,
                   toServer, toClient>>

\* RpcDoCall leaves its loop.
Return(c, err) ==
    /\ error' = [error EXCEPT ![c] = err]
    /\ cstate' = [cstate EXCEPT ![c] = {"BUSY"}]
    /\ cpc' = [cpc EXCEPT ![c] = "done"]
    /\ outcome' = [outcome EXCEPT ![CurrentCall(c)] =
                     IF err = "SUCCESS" THEN "reply" ELSE "timeout"]

\* RpcDoCall finds input.  A reply ends the call; an acknowledgement, positive
\* or negative, restarts the count of tries (except every maxAcks-th one), and
\* the loop waits again.
DoInput(c) ==
    /\ cpc[c] \in {"loop", "wait"}
    /\ "INPUT" \in cstate[c]
    /\ \/ /\ input[c].type = "REPLY"
          /\ Return(c, "SUCCESS")
          /\ UNCHANGED numTries
       \/ /\ input[c].type \in {"ACK", "NACK"}
          /\ numTries' \in {[numTries EXCEPT ![c] = 0], numTries}
          /\ cstate' = [cstate EXCEPT ![c] = (@ \ {"INPUT"}) \cup {"TIMEOUT", "WAITING"}]
          /\ cpc' = [cpc EXCEPT ![c] = "wait"]
          /\ UNCHANGED <<error, outcome>>
    /\ UNCHANGED <<svars, pvars, rpcID, bootID, request, input, toServer, toClient>>

\* Rpc_Timeout, called from the timer queue.
Rpc_Timeout(c) ==
    /\ "TIMEOUT" \in cstate[c]
    /\ TimerMayExpire(c)
    /\ cstate' = [cstate EXCEPT ![c] = @ \ {"TIMEOUT"}]
    /\ UNCHANGED <<svars, pvars, cpc, error, rpcID, bootID, request, input, numTries, outcome,
                   toServer, toClient>>

\* Mutant: the count of tries is compared before it is incremented.
DoTimeoutForever(c) ==
    /\ cpc[c] = "wait"
    /\ cstate[c] \cap {"INPUT", "TIMEOUT"} = {}
    /\ LET hdr == [request[c] EXCEPT !.plsAck = TRUE] IN
       request' = [request EXCEPT ![c] = hdr] /\ SendRequest(c, hdr)
    /\ cpc' = [cpc EXCEPT ![c] = "loop"]
    /\ UNCHANGED <<svars, pvars, cstate, error, rpcID, bootID, input, numTries, outcome, toClient>>

\* RpcDoCall is woken without input: resend with RPC_PLSACK, or give up.
DoTimeout(c) ==
    /\ cpc[c] = "wait"
    /\ cstate[c] \cap {"INPUT", "TIMEOUT"} = {}
    /\ numTries' = [numTries EXCEPT ![c] = @ + 1]
    /\ \/ /\ numTries[c] + 1 < MaxTries
          /\ LET hdr == [request[c] EXCEPT !.plsAck = TRUE] IN
             request' = [request EXCEPT ![c] = hdr] /\ SendRequest(c, hdr)
          /\ cpc' = [cpc EXCEPT ![c] = "loop"]
          /\ UNCHANGED <<cstate, error, outcome>>
       \/ /\ numTries[c] + 1 >= MaxTries
          /\ Return(c, "RPC_TIMEOUT")
          /\ UNCHANGED <<request, toServer>>
    /\ UNCHANGED <<svars, pvars, rpcID, bootID, input, toClient>>

RpcChanFree(c) ==
    /\ cpc[c] = "done"
    /\ cpc' = [cpc EXCEPT ![c] = "idle"]
    /\ cstate' = [cstate EXCEPT ![c] = {}]
    /\ UNCHANGED <<svars, pvars, error, rpcID, bootID, request, input, numTries, outcome,
                   toServer, toClient>>

\* The host crashes and boots again, which takes longer than any timer: only
\* the packets under way and the server remember.
Reboot(c) ==
    /\ bootID[c] < MaxReboots
    /\ TimerMayExpire(c)
    /\ bootID' = [bootID EXCEPT ![c] = @ + 1]
    /\ rpcID' = [rpcID EXCEPT ![c] = 1]
    /\ cstate' = [cstate EXCEPT ![c] = {}]
    /\ cpc' = [cpc EXCEPT ![c] = "idle"]
    /\ request' = [request EXCEPT ![c] = [id |-> 0, cmd |-> NoCommand, plsAck |-> FALSE]]
    /\ input' = [input EXCEPT ![c] = [type |-> "ACK", id |-> 0, hint |-> 0, of |-> NoCall]]
    /\ numTries' = [numTries EXCEPT ![c] = 0]
    /\ outcome' = IF Pending(c) THEN [outcome EXCEPT ![CurrentCall(c)] = "crash"] ELSE outcome
    /\ UNCHANGED <<svars, pvars, error, toServer, toClient>>

CloseAck(m) == [type |-> "CLOSE_ACK", call |-> Call(m.clt, bootID[m.clt], m.id),
                cmd |-> m.cmd, hint |-> m.hint, plsAck |-> FALSE]

\* Mutant: a close request is answered on a busy channel too.
RpcChanCloseBusy(m) ==
    /\ toServer' = Sent(toServer, CloseAck(m))
    /\ UNCHANGED <<cstate, input>>

\* A close request of the server is answered if the channel is not busy.
RpcChanClose(m) ==
    /\ toServer' = IF "BUSY" \in cstate[m.clt] THEN toServer ELSE Sent(toServer, CloseAck(m))
    /\ UNCHANGED <<cstate, input>>

\* The channel has input, and its timeout is descheduled.
AcceptInput(m) ==
    LET c == m.clt IN
    /\ input' = [input EXCEPT ![c] = [type |-> m.type, id |-> m.id, hint |-> m.hint, of |-> m.of]]
    /\ cstate' = [cstate EXCEPT ![c] = (@ \ {"WAITING", "TIMEOUT"}) \cup {"INPUT"}]

\* Mutant: the transaction ID is not verified.
ClientInputAnyID(m) ==
    /\ IF "WAITING" \in cstate[m.clt] THEN AcceptInput(m) ELSE UNCHANGED <<cstate, input>>
    /\ UNCHANGED toServer

\* Other packets must carry the ID of the request and find the channel waiting.
\* (So the test for an old ID in RpcDoCall never succeeds.)
ClientInput(m) ==
    /\ IF m.id = request[m.clt].id /\ "WAITING" \in cstate[m.clt]
       THEN AcceptInput(m)
       ELSE UNCHANGED <<cstate, input>>
    /\ UNCHANGED toServer

RpcClientDispatch(m) == IF m.type = "CLOSE" THEN RpcChanClose(m) ELSE ClientInput(m)

\* Rpc_Dispatch for a packet without RPC_SERVER.
ClientArrival ==
    \E n \in Arriving(toClient) :
        /\ toClient' = RemoveAt(toClient, n)
        /\ RpcClientDispatch(toClient[n])
        /\ UNCHANGED <<svars, pvars, cpc, error, rpcID, bootID, request, numTries, outcome>>
-----------------------------------------------------------------------------
(* The server side at interrupt level: RpcServerAlloc, RpcServerDispatch.  *)

\* The table is searched cyclically from the hint of the packet.
Rank(s, m) == (s - m.hint + NumServers) % NumServers
FirstFrom(s, S, m) == s \in S /\ \A t \in S : Rank(s, m) <= Rank(t, m)

NotStuck == {s \in ServerIDs : "STUCK" \notin state[s]}
Matching(m) == {s \in NotStuck : clientID[s] = m.call.clt}
FreeServers == {s \in NotStuck : "FREE" \in state[s]}

\* RpcServerAlloc gives the packet m to the server s.
RpcServerAlloc(s, m) ==
    \/ FirstFrom(s, Matching(m), m)
    \/ Matching(m) = {} /\ FirstFrom(s, FreeServers, m)

\* The bits of srvPtr->state after RpcServerAlloc and the top of RpcServerDispatch.
Bits(s) == state[s] \ {"FREE", "AGING"}

\* RpcSrvInitHdr and RpcOutput of an acknowledgement of type t.
Ack(s, t, hdr) ==
    [type |-> t, clt |-> hdr.call.clt, id |-> hdr.call.id, cmd |-> hdr.cmd, hint |-> s, of |-> NoCall]

\* RpcOutput of a reply.
ReplyPacket(s, r) ==
    [type |-> "REPLY", clt |-> r.clt, id |-> r.id, cmd |-> r.cmd, hint |-> s, of |-> r.of]

Hdr(m) == [type |-> m.type, call |-> m.call, cmd |-> m.cmd]

\* Mutant: srvPtr->ID is not updated.
NewRequestIDKept(s, m) ==
    /\ m.call.id # ID[s]
    /\ "BUSY" \notin state[s]
    /\ requestHdr' = [requestHdr EXCEPT ![s] = Hdr(m)]
    /\ state' = [state EXCEPT ![s] = {"BUSY"}]
    /\ toClient' = IF m.plsAck THEN Sent(toClient, Ack(s, "ACK", Hdr(m))) ELSE toClient
    /\ UNCHANGED <<ID, reply>>

\* Mutant: a busy server takes a new request.
NewRequestWhileBusy(s, m) ==
    /\ m.call.id # ID[s]
    /\ ID' = [ID EXCEPT ![s] = m.call.id]
    /\ requestHdr' = [requestHdr EXCEPT ![s] = Hdr(m)]
    /\ state' = [state EXCEPT ![s] = {"BUSY"}]
    /\ toClient' = IF m.plsAck THEN Sent(toClient, Ack(s, "ACK", Hdr(m))) ELSE toClient
    /\ UNCHANGED reply

\* An ID different from srvPtr->ID, whatever the type of the packet.
NewRequest(s, m) ==
    /\ m.call.id # ID[s]
    /\ "BUSY" \notin state[s]
    /\ ID' = [ID EXCEPT ![s] = m.call.id]
    /\ requestHdr' = [requestHdr EXCEPT ![s] = Hdr(m)]
    /\ state' = [state EXCEPT ![s] = {"BUSY"}]
    /\ toClient' = IF m.plsAck THEN Sent(toClient, Ack(s, "ACK", Hdr(m))) ELSE toClient
    /\ UNCHANGED reply

\* The client has abandoned the call that the server works on.
Abandoned(s, m) ==
    /\ m.call.id # ID[s]
    /\ "BUSY" \in state[s]
    /\ state' = [state EXCEPT ![s] = (Bits(s) \ {"WAITING"}) \cup {"STUCK"}]
    /\ UNCHANGED <<ID, requestHdr, reply, toClient>>

\* RPC_ACK | RPC_CLOSE frees the server regardless of its state.
CloseAcked(s, m) ==
    /\ m.call.id = ID[s] /\ m.type = "CLOSE_ACK"
    /\ state' = [state EXCEPT ![s] = {"FREE"}]
    /\ UNCHANGED <<ID, requestHdr, reply, toClient>>

\* A resent request: acknowledged while it is worked on, answered again when
\* the reply is there (RpcResend), dropped in any other state of the server.
Resent(s, m) ==
    /\ m.call.id = ID[s] /\ m.type = "REQUEST"
    /\ \/ /\ Bits(s) = {"BUSY"}
          /\ toClient' = Sent(toClient, Ack(s, "ACK", requestHdr[s]))
          /\ state' = [state EXCEPT ![s] = Bits(s)]
          /\ UNCHANGED reply
       \/ /\ Bits(s) = {"WAITING"}
          /\ toClient' = IF reply[s].err \/ reply[s].cmd = requestHdr[s].cmd
                         THEN Sent(toClient, ReplyPacket(s, reply[s]))
                         ELSE toClient
          /\ state' = [state EXCEPT ![s] = Bits(s)]
          /\ UNCHANGED reply
       \/ /\ Bits(s) \notin {{"BUSY"}, {"WAITING"}}
          /\ reply' = [reply EXCEPT ![s].id = 0]
          /\ state' = [state EXCEPT ![s] = {"FREE"}]
          /\ UNCHANGED toClient
    /\ UNCHANGED <<ID, requestHdr>>

RpcServerDispatch(s, m) ==
    /\ NewRequest(s, m) \/ Abandoned(s, m) \/ CloseAcked(s, m) \/ Resent(s, m)
    /\ age' = [age EXCEPT ![s] = 0]
    /\ clientID' = [clientID EXCEPT ![s] = m.call.clt]
    /\ UNCHANGED freeReply

\* No server: the packet is dropped, with or without a negative acknowledgement
\* (module RpcNack), and Rpc_Daemon is asked for another server.
NoServer(m) ==
    /\ Matching(m) = {} /\ FreeServers = {}
    /\ \/ UNCHANGED toClient
       \/ /\ SendNegAcks
          /\ toClient' = Sent(toClient, Ack(0, "NACK", Hdr(m)))
    /\ UNCHANGED svars

\* Rpc_Dispatch for a packet with RPC_SERVER.
ServerArrival ==
    \E n \in Arriving(toServer) :
        LET m == toServer[n] IN
        /\ toServer' = RemoveAt(toServer, n)
        /\ NoServer(m) \/ \E s \in ServerIDs : RpcServerAlloc(s, m) /\ RpcServerDispatch(s, m)
        /\ UNCHANGED <<cvars, pvars>>
-----------------------------------------------------------------------------
(* The server process, Rpc_Server, and the daemon. *)

RpcServerInstall(s) ==
    /\ spc[s] = "start"
    /\ state' = [state EXCEPT ![s] = {"FREE"}]
    /\ spc' = [spc EXCEPT ![s] = "top"]
    /\ UNCHANGED <<cvars, ID, age, clientID, requestHdr, reply, freeReply, doing, knownBoot, execs,
                   toServer, toClient>>

\* The top of the loop: ready for input.
ServerReady(s) ==
    /\ spc[s] = "top"
    /\ state' = [state EXCEPT ![s] = (@ \ {"BUSY", "STUCK"}) \cup {"WAITING"}]
    /\ spc' = [spc EXCEPT ![s] = "wait"]
    /\ UNCHANGED <<cvars, ID, age, clientID, requestHdr, reply, freeReply, doing, knownBoot, execs,
                   toServer, toClient>>

\* Recov_HostAlive finds a new boot of the client: RpcCrashCallBack.
CrashCallBack(c) ==
    [s \in ServerIDs |-> IF "BUSY" \in state[s] /\ clientID[s] = c
                         THEN state[s] \cup {"STUCK"} ELSE state[s]]

\* The process wakes, frees its previous reply and calls the service procedure.
ServerRun(s) ==
    LET k == requestHdr[s].call IN
    /\ spc[s] = "wait"
    /\ "BUSY" \in state[s]
    /\ spc' = [spc EXCEPT ![s] = "exec"]
    /\ freeReply' = [freeReply EXCEPT ![s] = FALSE]
    /\ doing' = [doing EXCEPT ![s] = k]
    /\ execs' = [execs EXCEPT ![k] = IF @ = 0 THEN 1 ELSE 2]
    /\ knownBoot' = [knownBoot EXCEPT ![k.clt] = k.boot]
    /\ state' = IF k.boot = knownBoot[k.clt] THEN state ELSE CrashCallBack(k.clt)
    /\ UNCHANGED <<cvars, ID, age, clientID, requestHdr, reply, toServer, toClient>>

\* The service procedure is done: Rpc_Reply, or Rpc_ErrorReply, which has no
\* storage to free.  The reply is addressed with the request header as it is now.
Rpc_Reply(s, err) ==
    LET hdr == requestHdr[s]
        new == [clt |-> hdr.call.clt, id |-> hdr.call.id, cmd |-> hdr.cmd, err |-> err, of |-> doing[s]]
    IN /\ spc[s] = "exec"
       /\ reply' = [reply EXCEPT ![s] = new]
       /\ toClient' = Sent(toClient, ReplyPacket(s, new))
       /\ freeReply' = [freeReply EXCEPT ![s] = ~err]
       /\ spc' = [spc EXCEPT ![s] = "top"]
       /\ UNCHANGED <<cvars, state, ID, age, clientID, requestHdr, doing, knownBoot, execs, toServer>>

Probed(s) == Sent(toClient, Ack(s, "CLOSE", requestHdr[s]))   \* RpcProbe
Idle(s) == clientID[s] # NoClient /\ "WAITING" \in state[s]

\* The first pass of RpcReclaimServers that finds the server idle;
\* serversMaxed is rpcNoServers < 0.
StartAging(s, serversMaxed) ==
    /\ Idle(s) /\ "AGING" \notin state[s]
    /\ state' = [state EXCEPT ![s] = @ \cup {"AGING"}]
    /\ age' = [age EXCEPT ![s] = 1]
    /\ toClient' = IF serversMaxed THEN Probed(s) ELSE toClient
    /\ UNCHANGED freeReply

\* Mutant: a server ages for ever.
GrowOlderForever(s) ==
    /\ Idle(s) /\ "AGING" \in state[s]
    /\ age' = [age EXCEPT ![s] = IF @ <= MaxServerAge THEN @ + 1 ELSE @]
    /\ toClient' = Probed(s) /\ UNCHANGED <<state, freeReply>>

\* A later pass: probe the client, or give up and free the server.
GrowOlder(s) ==
    /\ Idle(s) /\ "AGING" \in state[s]
    /\ age' = [age EXCEPT ![s] = @ + 1]
    /\ IF age[s] + 1 >= MaxServerAge
       THEN /\ state' = [state EXCEPT ![s] = {"FREE"}]
            /\ freeReply' = [freeReply EXCEPT ![s] = FALSE]
            /\ UNCHANGED toClient
       ELSE toClient' = Probed(s) /\ UNCHANGED <<state, freeReply>>

\* Mutant: the storage of a reply is freed without a look at the server's state.
TidyAnyState(s) ==
    /\ freeReply[s]
    /\ freeReply' = [freeReply EXCEPT ![s] = FALSE]
    /\ UNCHANGED <<state, age, toClient>>

\* Free the storage of a reply that the client has acknowledged.
Tidy(s) ==
    /\ ~Idle(s) /\ "FREE" \in state[s] /\ freeReply[s]
    /\ freeReply' = [freeReply EXCEPT ![s] = FALSE]
    /\ UNCHANGED <<state, age, toClient>>

\* RpcReclaimServers looks at one server.
Reclaim(s, serversMaxed) ==
    /\ TimerMayExpire(clientID[s])
    /\ StartAging(s, serversMaxed) \/ GrowOlder(s) \/ Tidy(s)
    /\ UNCHANGED <<cvars, pvars, ID, clientID, requestHdr, reply, toServer>>
-----------------------------------------------------------------------------
ClientProcess(c) == AwaitInput(c) \/ DoInput(c) \/ DoTimeout(c) \/ RpcChanFree(c)
ServerProcess(s) == RpcServerInstall(s) \/ ServerReady(s) \/ ServerRun(s) \/ \E err \in BOOLEAN : Rpc_Reply(s, err)

Next ==
    \/ \E c \in Clients : Rpc_Call(c) \/ ClientProcess(c) \/ Rpc_Timeout(c) \/ Reboot(c)
    \/ \E s \in ServerIDs : ServerProcess(s) \/ \E maxed \in BOOLEAN : Reclaim(s, maxed)
    \/ ClientArrival \/ ServerArrival \/ LosePacket

Spec == Init /\ [][Next]_vars

\* Processes are scheduled, the timer expires and service procedures return.
\* The network may lose every packet, but keeps none for ever.
Fairness ==
    /\ WF_vars(ClientArrival \/ ServerArrival \/ LosePacket)
    /\ \A c \in Clients : WF_vars(ClientProcess(c)) /\ WF_vars(Rpc_Timeout(c))
    /\ \A s \in ServerIDs : WF_vars(ServerProcess(s))

FairSpec == Spec /\ Fairness
-----------------------------------------------------------------------------
\* No call is executed twice, however often its request is resent: the check of
\* srvPtr->ID in RpcServerDispatch against resent and delayed requests.
AtMostOnce == \A k \in Calls : execs[k] <= 1

\* A call that succeeds was given the result of its own execution, not the
\* reply to another call of this or of another client: transaction IDs in
\* RpcClientDispatch, reuse of srvPtr->requestRpcHdr by RpcServerDispatch.
ReplyIsForRequest ==
    \A c \in Clients :
        cpc[c] = "done" /\ error[c] = "SUCCESS" => input[c].of = CurrentCall(c)

\* A reply that RpcResend would send again still has its storage: neither
\* RpcReclaimServers nor Rpc_Server has called its freeReplyProc.
ResendIsBacked ==
    \A s \in ServerIDs :
        Bits(s) = {"WAITING"} /\ ID[s] # 0 /\ ~reply[s].err => freeReply[s]

\* Only request messages are passed to the server process; an acknowledgement
\* is handled by RpcServerDispatch itself.
OnlyRequestsServed ==
    \A s \in ServerIDs : spc[s] = "exec" => requestHdr[s].type = "REQUEST"

\* Rpc_Server clears SRV_BUSY only once it has executed the request that the
\* bit announces: no request is dropped between RpcServerDispatch and Rpc_Server.
BusyIsServed ==
    [][\A s \in ServerIDs :
         spc[s] = "top" /\ spc'[s] = "wait" /\ "BUSY" \in state[s]
             => doing[s] = requestHdr[s].call]_vars

\* RpcDoCall returns, with a reply or with RPC_TIMEOUT, even if the network
\* loses every packet: a timer is running whenever the process waits.
CallReturns == \A c \in Clients : Pending(c) ~> cpc[c] = "idle"
-----------------------------------------------------------------------------
(* The service that the protocol implements. *)

callStatus ==
    [k \in Calls |->
        CASE outcome[k] = "reply" -> "answered"
          [] outcome[k] \in {"timeout", "crash"} -> "aborted"
          [] outcome[k] = "none" /\ Pending(k.clt) /\ CurrentCall(k.clt) = k -> "pending"
          [] OTHER -> "new"]

Service == INSTANCE RpcService WITH status <- callStatus, ran <- execs

\* The protocol implements the at-most-once, in-order, terminating service: the
\* retransmissions, acknowledgements and probes are invisible to the caller.
ImplementsService == Service!Spec
=============================================================================
