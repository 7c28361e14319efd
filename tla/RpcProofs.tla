------------------------------- MODULE RpcProofs -------------------------------
(***************************************************************************)
(* Proofs about the request-response protocol of Rpc.  Types are right on  *)
(* any network.  On one that keeps the order of packets and loses them     *)
(* rather than keeps them, a probe of an idle server is answered before    *)
(* the server or the client has moved on; from this follows what the       *)
(* server processes rely on, for any number of clients, servers and        *)
(* reboots.  Calls run at most once if besides no server is taken from a   *)
(* client that has not let it go.                                          *)
(***************************************************************************)
EXTENDS Rpc, SequenceTheorems, TLAPS

Inputs == [type : {"REPLY", "ACK", "NACK"}, id : IDs, hint : ServerIDs, of : Calls \cup {NoCall}]
Replies == [clt : Clients \cup {NoClient}, id : IDs, cmd : Commands \cup {NoCommand},
            err : BOOLEAN, of : Calls \cup {NoCall}]
Requests == [id : IDs, cmd : Commands \cup {NoCommand}, plsAck : BOOLEAN]
Headers == [type : {"NONE", "REQUEST", "CLOSE_ACK"}, call : Calls \cup {NoCall},
            cmd : Commands \cup {NoCommand}]

\* The channel is busy and its request is filled in as long as there is a call.
ClientOK(c) ==
    /\ cpc[c] = "idle" => cstate[c] = {}
    /\ cpc[c] # "idle" => "BUSY" \in cstate[c] /\ request[c].id # 0 /\ request[c].cmd \in Commands
    /\ cstate[c] \cap {"WAITING", "INPUT", "TIMEOUT"} # {} => Pending(c)
    /\ Pending(c) => numTries[c] < MaxTries
    /\ request[c].id < rpcID[c]

ClientTypes ==
    /\ cstate \in [Clients -> SUBSET ChanBits]
    /\ cpc \in [Clients -> {"idle", "loop", "wait", "done"}]
    /\ error \in [Clients -> {"SUCCESS", "RPC_TIMEOUT"}]
    /\ rpcID \in [Clients -> 1 .. MaxID + 1]
    /\ bootID \in [Clients -> 0 .. MaxReboots]
    /\ request \in [Clients -> Requests]
    /\ input \in [Clients -> Inputs]
    /\ numTries \in [Clients -> 0 .. MaxTries]
    /\ outcome \in [Calls -> {"none", "reply", "timeout", "crash"}]
    /\ \A c \in Clients : ClientOK(c)

\* A server that has been allocated has a request; a reply is addressed once it has
\* been filled in; a server is freed before it is too old.
ServerOK(s) ==
    /\ ID[s] = 0 <=> clientID[s] = NoClient
    /\ requestHdr[s].call.id = ID[s]
    /\ ID[s] # 0 => requestHdr[s].call \in Calls /\ requestHdr[s].cmd \in Commands
    /\ "BUSY" \in state[s] \/ spc[s] = "exec" => ID[s] # 0
    /\ reply[s].clt = NoClient <=> reply[s].cmd = NoCommand
    /\ reply[s].clt = NoClient => ~reply[s].err
    /\ "AGING" \in state[s] => age[s] < MaxServerAge

ServerTypes ==
    /\ state \in [ServerIDs -> SUBSET SrvBits]
    /\ ID \in [ServerIDs -> IDs]
    /\ age \in [ServerIDs -> 0 .. MaxServerAge]
    /\ clientID \in [ServerIDs -> Clients \cup {NoClient}]
    /\ requestHdr \in [ServerIDs -> Headers]
    /\ reply \in [ServerIDs -> Replies]
    /\ freeReply \in [ServerIDs -> BOOLEAN]
    /\ spc \in [ServerIDs -> {"start", "top", "wait", "exec"}]
    /\ doing \in [ServerIDs -> Calls \cup {NoCall}]
    /\ knownBoot \in [Clients -> 0 .. MaxReboots]
    /\ execs \in [Calls -> 0 .. 2]
    /\ \A s \in ServerIDs : ServerOK(s)

\* A probe has the ID of a request.
Packets == {m \in ToClient : m.type = "CLOSE" => m.id # 0}

NetTypes ==
    /\ toServer \in Seq(ToServer) /\ Len(toServer) <= MaxNet
    /\ toClient \in Seq(Packets) /\ Len(toClient) <= MaxNet

TypeInv == ClientTypes /\ ServerTypes /\ NetTypes
-----------------------------------------------------------------------------
(* The operations on the network.                                          *)

LEMMA SentNet ==
    ASSUME NEW S, NEW net \in Seq(S), NEW m \in S, Len(net) <= MaxNet
    PROVE  /\ Sent(net, m) \in Seq(S) /\ Len(Sent(net, m)) <= MaxNet
           /\ Len(Sent(net, m)) \in {Len(net), Len(net) + 1}
           /\ \A n \in 1 .. Len(Sent(net, m)) :
                 \/ n \in 1 .. Len(net) /\ Sent(net, m)[n] = net[n]
                 \/ n = Len(net) + 1 /\ Sent(net, m)[n] = m
           /\ \A n \in 1 .. Len(net) : Sent(net, m)[n] = net[n]
<1>1. Len(net) \in Nat /\ MaxNet \in Nat
  BY RpcAssumption
<1>2. CASE Len(net) < MaxNet
  <2>1. Sent(net, m) = Append(net, m)
    BY <1>2 DEF Sent
  <2>2. /\ Append(net, m) \in Seq(S) /\ Len(Append(net, m)) = Len(net) + 1
        /\ \A n \in 1 .. Len(net) : Append(net, m)[n] = net[n]
        /\ Append(net, m)[Len(net) + 1] = m
    BY AppendProperties
  <2>3. QED
    BY <1>1, <1>2, <2>1, <2>2
<1>3. CASE ~(Len(net) < MaxNet)
  <2>1. Sent(net, m) = net
    BY <1>3 DEF Sent
  <2>2. QED
    BY <1>1, <2>1
<1>4. QED
  BY <1>2, <1>3

LEMMA RemovedNet ==
    ASSUME NEW S, NEW net \in Seq(S), NEW n \in 1 .. Len(net)
    PROVE  /\ RemoveAt(net, n) \in Seq(S) /\ Len(RemoveAt(net, n)) = Len(net) - 1
           /\ net[n] \in S
           /\ n = 1 => \A i \in 1 .. Len(net) - 1 : RemoveAt(net, n)[i] = net[i + 1]
<1> DEFINE a == SubSeq(net, 1, n - 1)
           b == SubSeq(net, n + 1, Len(net))
<1>1. /\ Len(net) \in Nat /\ n \in Nat
      /\ \A i \in 1 .. Len(net) : net[i] \in S
  BY ElementOfSeq
<1>2. /\ a \in Seq(S) /\ Len(a) = n - 1
      /\ b \in Seq(S) /\ Len(b) = Len(net) - n
      /\ \A i \in 1 .. Len(net) - n : b[i] = net[n + i]
  <2>1. /\ a \in Seq(S)
        /\ Len(a) = IF 1 <= n - 1 THEN (n - 1) - 1 + 1 ELSE 0
    BY <1>1, SubSeqProperties
  <2>2. /\ b \in Seq(S)
        /\ Len(b) = IF n + 1 <= Len(net) THEN Len(net) - (n + 1) + 1 ELSE 0
        /\ \A i \in 1 .. Len(net) - (n + 1) + 1 : b[i] = net[(n + 1) + i - 1]
    BY <1>1, SubSeqProperties
  <2> HIDE DEF a, b
  <2>3. QED
    BY <1>1, <2>1, <2>2
<1>3. RemoveAt(net, n) = a \o b
  BY DEF RemoveAt
<1> HIDE DEF a, b
<1>4. /\ a \o b \in Seq(S) /\ Len(a \o b) = Len(a) + Len(b)
      /\ \A i \in 1 .. Len(a) + Len(b) : (a \o b)[i] = IF i <= Len(a) THEN a[i] ELSE b[i - Len(a)]
  BY <1>2, ConcatProperties
<1>5. QED
  BY <1>1, <1>2, <1>3, <1>4

LEMMA CallFacts ==
    /\ NoCall \notin Calls /\ NoCall.id = 0
    /\ \A k \in Calls : k.clt \in Clients /\ k.boot \in 0 .. MaxReboots /\ k.id \in IDs /\ k.id # 0
    /\ \A k \in Calls : k = Call(k.clt, k.boot, k.id)
    /\ \A c \in Clients, b \in 0 .. MaxReboots, i \in IDs : i # 0 => Call(c, b, i) \in Calls
    /\ 0 \in IDs /\ 0 \in ServerIDs
BY RpcAssumption DEF Calls, NoCall, Call, IDs, ServerIDs
-----------------------------------------------------------------------------
(* Types.                                                                  *)

LEMMA TypeFrames ==
    /\ ClientTypes /\ UNCHANGED cvars => ClientTypes'
    /\ ServerTypes /\ UNCHANGED <<svars, pvars>> => ServerTypes'
BY DEF ClientTypes, ServerTypes, cvars, svars, pvars, ClientOK, ServerOK, Pending

LEMMA PlsAckFacts ==
    ASSUME NEW r \in Requests
    PROVE  /\ [r EXCEPT !.plsAck = TRUE] \in Requests
           /\ [r EXCEPT !.plsAck = TRUE].id = r.id
           /\ [r EXCEPT !.plsAck = TRUE].cmd = r.cmd
BY DEF Requests

\* The processes of a client and its timer.
LEMMA ClientTypesKept ==
    ASSUME TypeInv, NEW c \in Clients,
           Rpc_Call(c) \/ ClientProcess(c) \/ Rpc_Timeout(c) \/ Reboot(c)
    PROVE  ClientTypes'
<1> USE RpcAssumption, CallFacts DEF TypeInv, ClientTypes, ClientOK, Pending
<1>1. CASE Rpc_Call(c)
  BY <1>1 DEF Rpc_Call, Requests, IDs, ChanBits
<1>2. CASE AwaitInput(c)
  BY <1>2 DEF AwaitInput, ChanBits
<1>3. ASSUME NEW err \in {"SUCCESS", "RPC_TIMEOUT"}, Return(c, err), Pending(c),
             UNCHANGED <<rpcID, bootID, input>>, request' = request,
             numTries' \in [Clients -> 0 .. MaxTries],
             \A d \in Clients \ {c} : numTries'[d] = numTries[d]
      PROVE  ClientTypes'
  <2>1. CurrentCall(c) \in Calls
    BY <1>3 DEF CurrentCall, Requests
  <2>2. /\ cstate' \in [Clients -> SUBSET ChanBits]
        /\ cpc' \in [Clients -> {"idle", "loop", "wait", "done"}]
        /\ error' \in [Clients -> {"SUCCESS", "RPC_TIMEOUT"}]
        /\ outcome' \in [Calls -> {"none", "reply", "timeout", "crash"}]
    BY <1>3, <2>1 DEF Return, ChanBits
  <2>3. ASSUME NEW d \in Clients PROVE ClientOK(d)'
    <3>1. CASE d = c
      BY <1>3, <3>1 DEF Return
    <3>2. CASE d # c
      BY <1>3, <3>2 DEF Return
    <3>3. QED
      BY <3>1, <3>2
  <2>4. \A d \in Clients : ClientOK(d)'
    BY <2>3
  <2>5. QED
    BY <1>3, <2>2, <2>4
<1>4. CASE DoInput(c)
  <2>1. CASE input[c].type = "REPLY" /\ Return(c, "SUCCESS") /\ UNCHANGED numTries
    BY <1>3, <1>4, <2>1 DEF DoInput
  <2>2. CASE /\ numTries' \in {[numTries EXCEPT ![c] = 0], numTries}
             /\ cstate' = [cstate EXCEPT ![c] = (@ \ {"INPUT"}) \cup {"TIMEOUT", "WAITING"}]
             /\ cpc' = [cpc EXCEPT ![c] = "wait"]
             /\ UNCHANGED <<error, outcome>>
    <3>1. /\ Pending(c) /\ UNCHANGED <<rpcID, bootID, request, input>>
          /\ numTries' \in [Clients -> 0 .. MaxTries]
          /\ \A d \in Clients : numTries'[d] = numTries[d] \/ numTries'[d] = 0
      BY <1>4, <2>2 DEF DoInput
    <3>2. cstate' \in [Clients -> SUBSET ChanBits] /\ cpc' \in [Clients -> {"idle", "loop", "wait", "done"}]
      BY <2>2 DEF ChanBits
    <3>3. ASSUME NEW d \in Clients PROVE ClientOK(d)'
      <4>1. CASE d = c
        BY <2>2, <3>1, <4>1
      <4>2. CASE d # c
        BY <2>2, <3>1, <4>2
      <4>3. QED
        BY <4>1, <4>2
    <3>4. \A d \in Clients : ClientOK(d)'
      BY <3>3
    <3>5. QED
      BY <2>2, <3>1, <3>2, <3>4
  <2>3. QED
    BY <1>4, <2>1, <2>2 DEF DoInput
<1>5. CASE DoTimeout(c)
  <2>1. Pending(c) /\ numTries[c] + 1 \in 0 .. MaxTries
    BY <1>5 DEF DoTimeout
  <2>2. CASE Return(c, "RPC_TIMEOUT") /\ UNCHANGED <<request, toServer>>
    BY <1>3, <1>5, <2>1, <2>2 DEF DoTimeout
  <2>3. CASE /\ numTries[c] + 1 < MaxTries
             /\ request' = [request EXCEPT ![c] = [request[c] EXCEPT !.plsAck = TRUE]]
             /\ cpc' = [cpc EXCEPT ![c] = "loop"]
             /\ UNCHANGED <<cstate, error, outcome>>
    <3>1. request[c] \in Requests
      OBVIOUS
    <3>2. QED
      BY <1>5, <2>1, <2>3, <3>1, PlsAckFacts DEF DoTimeout
  <2>4. QED
    BY <1>5, <2>2, <2>3 DEF DoTimeout
<1>6. CASE RpcChanFree(c)
  BY <1>6 DEF RpcChanFree
<1>7. CASE Rpc_Timeout(c)
  BY <1>7 DEF Rpc_Timeout
<1>8. CASE Reboot(c)
  <2>1. outcome' \in [Calls -> {"none", "reply", "timeout", "crash"}]
    BY <1>8 DEF Reboot
  <2>2. /\ [id |-> 0, cmd |-> NoCommand, plsAck |-> FALSE] \in Requests
        /\ [type |-> "ACK", id |-> 0, hint |-> 0, of |-> NoCall] \in Inputs
    BY DEF Requests, Inputs
  <2>3. QED
    BY <1>8, <2>1, <2>2 DEF Reboot
<1>9. QED
  BY <1>1, <1>2, <1>4, <1>5, <1>6, <1>7, <1>8 DEF ClientProcess

\* What they send.
LEMMA ClientNetKept ==
    ASSUME TypeInv, NEW c \in Clients,
           Rpc_Call(c) \/ ClientProcess(c) \/ Rpc_Timeout(c) \/ Reboot(c)
    PROVE  NetTypes'
<1>1. ASSUME NEW hdr \in Requests, hdr.id # 0, hdr.cmd \in Commands, SendRequest(c, hdr), toClient' = toClient
      PROVE  NetTypes'
  <2>1. [type |-> "REQUEST", call |-> Call(c, bootID[c], hdr.id), cmd |-> hdr.cmd,
         hint |-> input[c].hint, plsAck |-> hdr.plsAck] \in ToServer
    BY <1>1, CallFacts DEF ToServer, TypeInv, ClientTypes, Requests, Inputs
  <2>2. QED
    BY <1>1, <2>1, SentNet DEF SendRequest, TypeInv, NetTypes
<1>2. CASE Rpc_Call(c)
  <2>1. PICK k \in Commands : SendRequest(c, [id |-> rpcID[c], cmd |-> k, plsAck |-> FALSE])
    BY <1>2 DEF Rpc_Call
  <2>2. rpcID[c] \in IDs /\ rpcID[c] # 0
    BY <1>2, RpcAssumption DEF Rpc_Call, TypeInv, ClientTypes, IDs
  <2>3. QED
    BY <1>1, <1>2, <2>1, <2>2 DEF Rpc_Call, Requests
<1>3. CASE DoTimeout(c)
  <2>1. CASE UNCHANGED toServer
    BY <1>3, <2>1 DEF DoTimeout, TypeInv, NetTypes
  <2>2. CASE SendRequest(c, [request[c] EXCEPT !.plsAck = TRUE])
    <3>1. request[c] \in Requests /\ request[c].id # 0 /\ request[c].cmd \in Commands
      BY <1>3 DEF DoTimeout, TypeInv, ClientTypes, ClientOK
    <3>2. QED
      BY <1>1, <1>3, <2>2, <3>1, PlsAckFacts DEF DoTimeout
  <2>3. QED
    BY <1>3, <2>1, <2>2 DEF DoTimeout
<1>4. CASE UNCHANGED <<toServer, toClient>>
  BY <1>4 DEF TypeInv, NetTypes
<1>5. QED
  BY <1>2, <1>3, <1>4
  DEF ClientProcess, AwaitInput, DoInput, RpcChanFree, Rpc_Timeout, Reboot

\* A packet is taken off the network.
LEMMA ArrivingNet ==
    ASSUME NEW S, NEW net \in Seq(S), NEW n \in Arriving(net), Len(net) <= MaxNet
    PROVE  /\ n \in 1 .. Len(net) /\ net[n] \in S
           /\ RemoveAt(net, n) \in Seq(S) /\ Len(RemoveAt(net, n)) <= MaxNet
           /\ Len(RemoveAt(net, n)) = Len(net) - 1
           /\ Ordered => n = 1 /\ \A i \in 1 .. Len(net) - 1 : RemoveAt(net, n)[i] = net[i + 1]
<1>1. n \in 1 .. Len(net) /\ (Ordered => n = 1)
  BY DEF Arriving
<1>2. Len(net) \in Nat /\ MaxNet \in Nat
  BY RpcAssumption
<1>3. /\ RemoveAt(net, n) \in Seq(S) /\ Len(RemoveAt(net, n)) = Len(net) - 1 /\ net[n] \in S
      /\ n = 1 => \A i \in 1 .. Len(net) - 1 : RemoveAt(net, n)[i] = net[i + 1]
  BY <1>1, RemovedNet
<1>4. Len(RemoveAt(net, n)) <= MaxNet
  BY <1>2, <1>3
<1>5. QED
  BY <1>1, <1>3, <1>4

LEMMA LoseTypes == ASSUME TypeInv, LosePacket PROVE TypeInv'
<1>1. UNCHANGED <<cvars, svars, pvars>>
  BY DEF LosePacket
<1>2. NetTypes'
  BY ArrivingNet DEF LosePacket, TypeInv, NetTypes
<1>3. QED
  BY <1>1, <1>2, TypeFrames DEF TypeInv

LEMMA ClientArrivalTypes == ASSUME TypeInv, ClientArrival PROVE TypeInv'
<1>1. PICK n \in Arriving(toClient) :
        /\ toClient' = RemoveAt(toClient, n)
        /\ RpcClientDispatch(toClient[n])
        /\ UNCHANGED <<svars, pvars, cpc, error, rpcID, bootID, request, numTries, outcome>>
  BY DEF ClientArrival
<1> DEFINE m == toClient[n]
<1>2. m \in Packets /\ toClient' \in Seq(Packets) /\ Len(toClient') <= MaxNet
  BY <1>1, ArrivingNet DEF TypeInv, NetTypes
<1>3. /\ m.clt \in Clients /\ m.id \in IDs /\ m.cmd \in Commands /\ m.hint \in ServerIDs
      /\ m.of \in Calls \cup {NoCall} /\ m.type \in {"REPLY", "ACK", "NACK", "CLOSE"}
      /\ m.type = "CLOSE" => m.id # 0
  BY <1>2 DEF Packets, ToClient
<1> HIDE DEF m
<1>4. CASE m.type = "CLOSE"
  <2>1. UNCHANGED cvars
    BY <1>1, <1>4 DEF RpcClientDispatch, RpcChanClose, cvars, m
  <2>2. CASE UNCHANGED toServer
    BY <1>1, <1>2, <2>1, <2>2, TypeFrames DEF TypeInv, NetTypes
  <2>3. CASE toServer' = Sent(toServer, CloseAck(m)) /\ m.id # 0
    <3>1. CloseAck(m) \in ToServer
      BY <1>3, <2>3, CallFacts DEF CloseAck, ToServer, TypeInv, ClientTypes
    <3>2. QED
      BY <1>1, <1>2, <2>1, <2>3, <3>1, SentNet, TypeFrames DEF TypeInv, NetTypes
  <2>4. QED
    BY <1>1, <1>3, <1>4, <2>2, <2>3 DEF RpcClientDispatch, RpcChanClose, m
<1>5. CASE m.type # "CLOSE"
  <2>1. ClientInput(m)
    BY <1>1, <1>5 DEF RpcClientDispatch, m
  <2>2. ClientTypes'
    <3>1. CASE UNCHANGED <<cstate, input>>
      BY <1>1, <3>1, TypeFrames DEF TypeInv, cvars
    <3>2. CASE "WAITING" \in cstate[m.clt] /\ AcceptInput(m)
      <4>1. [type |-> m.type, id |-> m.id, hint |-> m.hint, of |-> m.of] \in Inputs
        BY <1>3, <1>5 DEF Inputs
      <4>2. QED
        BY <1>1, <1>3, <3>2, <4>1 DEF AcceptInput, TypeInv, ClientTypes, ClientOK, Pending, ChanBits
    <3>3. QED
      BY <2>1, <3>1, <3>2 DEF ClientInput
  <2>3. QED
    BY <1>1, <1>2, <2>1, <2>2, TypeFrames DEF ClientInput, TypeInv, NetTypes
<1>6. QED
  BY <1>4, <1>5

\* What a server sends.
LEMMA ServerPackets ==
    ASSUME NEW s \in ServerIDs
    PROVE  /\ \A t \in {"ACK", "NACK", "CLOSE"}, h \in Headers :
                 h.call \in Calls /\ h.cmd \in Commands => Ack(s, t, h) \in Packets
           /\ \A r \in Replies : r.clt # NoClient /\ r.cmd # NoCommand => ReplyPacket(s, r) \in Packets
           /\ \A m \in ToServer : Hdr(m) \in Headers /\ Hdr(m).call \in Calls /\ Hdr(m).cmd \in Commands
<1>1. \A k \in Calls : k.clt \in Clients /\ k.id \in IDs /\ k.id # 0
  BY CallFacts
<1>2. ASSUME NEW t \in {"ACK", "NACK", "CLOSE"}, NEW h \in Headers, h.call \in Calls, h.cmd \in Commands
      PROVE  Ack(s, t, h) \in Packets
  BY <1>1, <1>2 DEF Ack, Packets, ToClient
<1>3. ASSUME NEW r \in Replies, r.clt # NoClient, r.cmd # NoCommand
      PROVE  ReplyPacket(s, r) \in Packets
  BY <1>3 DEF ReplyPacket, Packets, ToClient, Replies
<1>4. \A m \in ToServer : Hdr(m) \in Headers /\ Hdr(m).call \in Calls /\ Hdr(m).cmd \in Commands
  BY DEF Hdr, Headers, ToServer
<1>5. QED
  BY <1>2, <1>3, <1>4

LEMMA SentPacket ==
    ASSUME NetTypes, NEW m \in Packets
    PROVE  Sent(toClient, m) \in Seq(Packets) /\ Len(Sent(toClient, m)) <= MaxNet
BY SentNet DEF NetTypes

LEMMA DispatchTypes ==
    ASSUME TypeInv, NEW m \in ToServer, NEW s \in ServerIDs, RpcServerDispatch(s, m), UNCHANGED pvars
    PROVE  ServerTypes' /\ toClient' \in Seq(Packets) /\ Len(toClient') <= MaxNet
<1> USE RpcAssumption, CallFacts DEF TypeInv, ServerTypes, ServerOK, pvars
<1>1. /\ m.call \in Calls /\ m.call.clt \in Clients /\ m.call.id \in IDs /\ m.call.id # 0
      /\ m.type \in {"REQUEST", "CLOSE_ACK"}
  BY DEF ToServer
<1>2. /\ age' = [age EXCEPT ![s] = 0]
      /\ clientID' = [clientID EXCEPT ![s] = m.call.clt]
      /\ UNCHANGED freeReply
  BY DEF RpcServerDispatch
<1>3. toClient \in Seq(Packets) /\ Len(toClient) <= MaxNet
  BY DEF NetTypes
<1>4. CASE NewRequest(s, m)
  <2>1. Hdr(m) \in Headers /\ Hdr(m).call = m.call /\ Hdr(m).cmd \in Commands
    BY <1>1, ServerPackets DEF Hdr
  <2>2. ServerTypes'
    BY <1>1, <1>2, <1>4, <2>1 DEF NewRequest, SrvBits
  <2>3. Ack(s, "ACK", Hdr(m)) \in Packets
    BY <1>1, <2>1, ServerPackets
  <2>4. QED
    BY <1>3, <1>4, <2>2, <2>3, SentPacket DEF NewRequest
<1>5. CASE Abandoned(s, m)
  BY <1>1, <1>2, <1>3, <1>5 DEF Abandoned, Bits, SrvBits
<1>6. CASE CloseAcked(s, m)
  BY <1>1, <1>2, <1>3, <1>6 DEF CloseAcked, SrvBits
<1>7. CASE Resent(s, m)
  <2>1. ID[s] # 0 /\ requestHdr[s] \in Headers /\ requestHdr[s].call \in Calls /\ requestHdr[s].cmd \in Commands
    BY <1>1, <1>7 DEF Resent
  <2>2. /\ state'[s] \in SUBSET SrvBits /\ state' = [state EXCEPT ![s] = state'[s]]
        /\ "BUSY" \in state'[s] => "BUSY" \in state[s]
        /\ "AGING" \notin state'[s]
    BY <1>7 DEF Resent, Bits, SrvBits
  <2>3. /\ reply' \in [ServerIDs -> Replies]
        /\ \A t \in ServerIDs : reply'[t].clt = reply[t].clt /\ reply'[t].cmd = reply[t].cmd
                                /\ reply'[t].err = reply[t].err
    <3>1. CASE UNCHANGED reply
      BY <3>1
    <3>2. CASE reply' = [reply EXCEPT ![s].id = 0]
      <4>1. reply[s] \in Replies
        OBVIOUS
      <4>2. /\ [reply[s] EXCEPT !.id = 0] \in Replies
            /\ [reply[s] EXCEPT !.id = 0].clt = reply[s].clt
            /\ [reply[s] EXCEPT !.id = 0].cmd = reply[s].cmd
            /\ [reply[s] EXCEPT !.id = 0].err = reply[s].err
        BY <4>1 DEF Replies
      <4>3. QED
        BY <3>2, <4>2
    <3>3. QED
      BY <1>7, <3>1, <3>2 DEF Resent
  <2>4. UNCHANGED <<ID, requestHdr>>
    BY <1>7 DEF Resent
  <2>5. ServerTypes'
    <3>1. state' \in [ServerIDs -> SUBSET SrvBits]
      BY <2>2, ZenonT(60)
    <3>2. ASSUME NEW t \in ServerIDs PROVE ServerOK(t)'
      <4>0. ServerOK(t) /\ spc'[t] = spc[t] /\ ID'[t] = ID[t] /\ requestHdr'[t] = requestHdr[t]
        BY <2>4
      <4>1. CASE t = s
        <5>1. clientID'[t] = m.call.clt /\ m.call.clt # NoClient /\ ID[t] # 0
          BY <1>1, <1>2, <2>1, <4>1
        <5>2. ("BUSY" \in state'[t] => "BUSY" \in state[t]) /\ "AGING" \notin state'[t]
          BY <2>2, <4>1
        <5>3. QED
          BY <2>3, <4>0, <5>1, <5>2
      <4>2. CASE t # s
        <5>1. clientID'[t] = clientID[t] /\ age'[t] = age[t] /\ state'[t] = state[t]
          BY <1>2, <2>2, <4>2
        <5>2. QED
          BY <2>3, <4>0, <5>1
      <4>3. QED
        BY <4>1, <4>2
    <3>3. /\ age' \in [ServerIDs -> 0 .. MaxServerAge]
          /\ clientID' \in [ServerIDs -> Clients \cup {NoClient}]
      BY <1>1, <1>2
    <3>4. QED
      BY <1>2, <2>3, <2>4, <3>1, <3>2, <3>3
  <2>6. CASE toClient' = toClient
    BY <1>3, <2>5, <2>6
  <2>7. CASE toClient' = Sent(toClient, Ack(s, "ACK", requestHdr[s]))
    BY <2>1, <2>5, <2>7, SentPacket, ServerPackets
  <2>8. CASE /\ toClient' = Sent(toClient, ReplyPacket(s, reply[s]))
             /\ reply[s].err \/ reply[s].cmd = requestHdr[s].cmd
    <3>1. reply[s] \in Replies /\ reply[s].clt # NoClient /\ reply[s].cmd # NoCommand
      BY <2>1, <2>8
    <3>2. QED
      BY <2>5, <2>8, <3>1, SentPacket, ServerPackets
  <2>9. QED
    BY <1>7, <2>6, <2>7, <2>8 DEF Resent
<1>8. QED
  BY <1>4, <1>5, <1>6, <1>7 DEF RpcServerDispatch

LEMMA ServerArrivalTypes == ASSUME TypeInv, ServerArrival PROVE TypeInv'
<1>1. PICK n \in Arriving(toServer) :
        /\ toServer' = RemoveAt(toServer, n)
        /\ \/ NoServer(toServer[n])
           \/ \E s \in ServerIDs : RpcServerAlloc(s, toServer[n]) /\ RpcServerDispatch(s, toServer[n])
        /\ UNCHANGED <<cvars, pvars>>
  BY DEF ServerArrival
<1>2. toServer[n] \in ToServer /\ toServer' \in Seq(ToServer) /\ Len(toServer') <= MaxNet
  BY <1>1, ArrivingNet DEF TypeInv, NetTypes
<1>3. UNCHANGED pvars /\ ClientTypes'
  BY <1>1, TypeFrames DEF TypeInv
<1>4. CASE NoServer(toServer[n])
  <2>1. UNCHANGED svars
    BY <1>4 DEF NoServer
  <2>2. ServerTypes'
    BY <1>3, <2>1, TypeFrames DEF TypeInv
  <2>3. Ack(0, "NACK", Hdr(toServer[n])) \in Packets
    BY <1>2, CallFacts, ServerPackets
  <2>4. QED
    BY <1>2, <1>3, <1>4, <2>2, <2>3, SentPacket DEF NoServer, TypeInv, NetTypes
<1>5. CASE \E s \in ServerIDs : RpcServerAlloc(s, toServer[n]) /\ RpcServerDispatch(s, toServer[n])
  BY <1>2, <1>3, <1>5, DispatchTypes DEF TypeInv, NetTypes
<1>6. QED
  BY <1>1, <1>4, <1>5

LEMMA ServerProcessTypes ==
    ASSUME TypeInv, NEW s \in ServerIDs, ServerProcess(s)
    PROVE  TypeInv'
<1> USE RpcAssumption, CallFacts DEF ServerTypes, ServerOK
<1>0. ServerTypes /\ NetTypes
  BY DEF TypeInv
<1>1. UNCHANGED <<cvars, toServer>>
  BY DEF ServerProcess, RpcServerInstall, ServerReady, ServerRun, Rpc_Reply
<1>2. ClientTypes'
  BY <1>1, TypeFrames DEF TypeInv
<1>3. CASE RpcServerInstall(s)
  <2>1. ServerTypes'
    BY <1>0, <1>3 DEF RpcServerInstall, SrvBits
  <2>2. QED
    BY <1>0, <1>1, <1>2, <1>3, <2>1 DEF RpcServerInstall, TypeInv, NetTypes
<1>4. CASE ServerReady(s)
  <2>1. ServerTypes'
    BY <1>0, <1>4 DEF ServerReady, SrvBits
  <2>2. QED
    BY <1>0, <1>1, <1>2, <1>4, <2>1 DEF ServerReady, TypeInv, NetTypes
<1>5. CASE ServerRun(s)
  <2> DEFINE k == requestHdr[s].call
  <2>1. k \in Calls /\ ID[s] # 0 /\ k.clt \in Clients /\ k.boot \in 0 .. MaxReboots
    BY <1>0, <1>5 DEF ServerRun
  <2>2. /\ state' \in [ServerIDs -> SUBSET SrvBits]
        /\ \A t \in ServerIDs : /\ "BUSY" \in state'[t] => "BUSY" \in state[t]
                                /\ "AGING" \in state'[t] => "AGING" \in state[t]
    BY <1>0, <1>5 DEF ServerRun, CrashCallBack, SrvBits
  <2> HIDE DEF k
  <2>3. /\ UNCHANGED <<ID, age, clientID, requestHdr, reply, toClient>>
        /\ freeReply' \in [ServerIDs -> BOOLEAN]
        /\ spc' = [spc EXCEPT ![s] = "exec"]
        /\ doing' \in [ServerIDs -> Calls \cup {NoCall}]
        /\ knownBoot' \in [Clients -> 0 .. MaxReboots]
        /\ execs' \in [Calls -> 0 .. 2]
    BY <1>0, <1>5, <2>1 DEF ServerRun, k
  <2>4. ServerTypes'
    BY <1>0, <2>1, <2>2, <2>3
  <2>5. QED
    BY <1>0, <1>1, <1>2, <2>3, <2>4 DEF TypeInv, NetTypes
<1>6. ASSUME NEW err \in BOOLEAN, Rpc_Reply(s, err) PROVE TypeInv'
  <2> DEFINE new == [clt |-> requestHdr[s].call.clt, id |-> requestHdr[s].call.id,
                     cmd |-> requestHdr[s].cmd, err |-> err, of |-> doing[s]]
  <2>1. requestHdr[s].call \in Calls /\ requestHdr[s].cmd \in Commands
    BY <1>0, <1>6 DEF Rpc_Reply
  <2>2. new \in Replies /\ new.clt \in Clients /\ new.cmd \in Commands
    BY <1>0, <2>1 DEF Replies
  <2>3. ReplyPacket(s, new) \in Packets
    BY <2>2, ServerPackets
  <2>4. /\ reply' = [reply EXCEPT ![s] = new]
        /\ toClient' = Sent(toClient, ReplyPacket(s, new))
        /\ freeReply' \in [ServerIDs -> BOOLEAN]
        /\ spc' = [spc EXCEPT ![s] = "top"]
        /\ UNCHANGED <<state, ID, age, clientID, requestHdr, doing, knownBoot, execs>>
    BY <1>0, <1>6 DEF Rpc_Reply
  <2> HIDE DEF new
  <2>5. ServerTypes'
    BY <1>0, <2>2, <2>4
  <2>6. QED
    BY <1>0, <1>1, <1>2, <2>3, <2>4, <2>5, SentPacket DEF TypeInv, NetTypes
<1>7. QED
  BY <1>3, <1>4, <1>5, <1>6 DEF ServerProcess

LEMMA ReclaimTypes ==
    ASSUME TypeInv, MaxServerAge >= 2, NEW s \in ServerIDs, NEW maxed \in BOOLEAN, Reclaim(s, maxed)
    PROVE  TypeInv'
<1> USE RpcAssumption, CallFacts DEF ServerTypes, ServerOK, pvars
<1>0. ServerTypes /\ NetTypes
  BY DEF TypeInv
<1>1. UNCHANGED <<cvars, pvars, ID, clientID, requestHdr, reply, toServer>>
  BY DEF Reclaim
<1>2. ClientTypes'
  BY <1>1, TypeFrames DEF TypeInv
<1>3. /\ StartAging(s, maxed) \/ GrowOlder(s) \/ Tidy(s)
      /\ Idle(s) => Probed(s) \in Seq(Packets) /\ Len(Probed(s)) <= MaxNet
  <2>1. StartAging(s, maxed) \/ GrowOlder(s) \/ Tidy(s)
    BY DEF Reclaim
  <2>2. ASSUME Idle(s) PROVE Ack(s, "CLOSE", requestHdr[s]) \in Packets
    <3>1. requestHdr[s].call \in Calls /\ requestHdr[s].cmd \in Commands /\ requestHdr[s] \in Headers
      BY <1>0, <2>2 DEF Idle
    <3>2. QED
      BY <3>1, ServerPackets
  <2>3. QED
    BY <1>0, <2>1, <2>2, SentPacket DEF Probed
<1>4. toClient' \in Seq(Packets) /\ Len(toClient') <= MaxNet
  BY <1>0, <1>3 DEF StartAging, GrowOlder, Tidy, NetTypes
<1>5. ServerTypes'
  <2>1. CASE StartAging(s, maxed)
    BY <1>0, <1>1, <2>1 DEF StartAging, Idle, SrvBits
  <2>2. CASE GrowOlder(s)
    <3>1. age[s] + 1 \in 0 .. MaxServerAge
      BY <1>0, <2>2 DEF GrowOlder
    <3>2. CASE age[s] + 1 >= MaxServerAge
      <4>1. /\ state' = [state EXCEPT ![s] = {"FREE"}] /\ age' = [age EXCEPT ![s] = @ + 1]
            /\ freeReply' = [freeReply EXCEPT ![s] = FALSE]
        BY <2>2, <3>2 DEF GrowOlder
      <4>2. QED
        BY <1>0, <1>1, <3>1, <4>1 DEF SrvBits
    <3>3. CASE ~(age[s] + 1 >= MaxServerAge)
      <4>1. UNCHANGED <<state, freeReply>> /\ age' = [age EXCEPT ![s] = @ + 1]
        BY <2>2, <3>3 DEF GrowOlder
      <4>2. age[s] + 1 < MaxServerAge
        BY <1>0, <3>3
      <4>3. QED
        BY <1>0, <1>1, <3>1, <4>1, <4>2
    <3>4. QED
      BY <3>2, <3>3
  <2>3. CASE Tidy(s)
    BY <1>0, <1>1, <2>3 DEF Tidy
  <2>4. QED
    BY <1>3, <2>1, <2>2, <2>3
<1>6. QED
  BY <1>0, <1>1, <1>2, <1>4, <1>5 DEF TypeInv, NetTypes

LEMMA InitTypes == Init => TypeInv
<1> SUFFICES ASSUME Init PROVE TypeInv
  OBVIOUS
<1> USE RpcAssumption, CallFacts
<1>1. ClientTypes
  <2>1. /\ [id |-> 0, cmd |-> NoCommand, plsAck |-> FALSE] \in Requests
        /\ [type |-> "ACK", id |-> 0, hint |-> 0, of |-> NoCall] \in Inputs
    BY DEF Requests, Inputs
  <2>2. QED
    BY <2>1 DEF Init, ClientTypes, ClientOK, Pending
<1>2. ServerTypes
  <2>1. /\ [type |-> "NONE", call |-> NoCall, cmd |-> NoCommand] \in Headers
        /\ [clt |-> NoClient, id |-> 0, cmd |-> NoCommand, err |-> FALSE, of |-> NoCall] \in Replies
    BY DEF Headers, Replies
  <2>2. QED
    BY <2>1 DEF Init, ServerTypes, ServerOK, SrvBits
<1>3. NetTypes
  BY DEF Init, NetTypes
<1>4. QED
  BY <1>1, <1>2, <1>3 DEF TypeInv

LEMMA NextTypes == ASSUME TypeInv, MaxServerAge >= 2, [Next]_vars PROVE TypeInv'
<1>1. ASSUME NEW c \in Clients, Rpc_Call(c) \/ ClientProcess(c) \/ Rpc_Timeout(c) \/ Reboot(c)
      PROVE  TypeInv'
  <2>1. UNCHANGED <<svars, pvars>>
    BY <1>1 DEF Rpc_Call, ClientProcess, AwaitInput, DoInput, DoTimeout, RpcChanFree, Rpc_Timeout, Reboot
  <2>2. QED
    BY <1>1, <2>1, TypeFrames, ClientTypesKept, ClientNetKept DEF TypeInv
<1>2. CASE UNCHANGED vars
  BY <1>2, TypeFrames DEF TypeInv, NetTypes, vars
<1>3. QED
  BY <1>1, <1>2, ServerProcessTypes, ReclaimTypes, ClientArrivalTypes, ServerArrivalTypes, LoseTypes
  DEF Next

\* The variables have their types on every network: in particular a probe, an
\* acknowledgement or a reply that is sent again is addressed to a client, and a
\* server process is given a call to execute.
THEOREM RpcTypeCorrect == ASSUME MaxServerAge >= 2 PROVE Spec => []TypeOK
<1>1. Init => TypeInv
  BY InitTypes
<1>2. TypeInv /\ [Next]_vars => TypeInv'
  BY NextTypes
<1>3. TypeInv => TypeOK
  <2> SUFFICES ASSUME TypeInv PROVE TypeOK
    OBVIOUS
  <2>1. toClient \in Seq(ToClient)
    BY DEF TypeInv, NetTypes, Packets
  <2>2. \A c \in Clients : input[c].hint \in ServerIDs
    BY DEF TypeInv, ClientTypes, Inputs
  <2>3. QED
    BY <2>1, <2>2 DEF TypeInv, ClientTypes, ServerTypes, NetTypes, TypeOK, Requests, Headers
<1>4. QED
  BY <1>1, <1>2, <1>3, PTL DEF Spec
-----------------------------------------------------------------------------
(***************************************************************************)
(* Probes and what the server processes rely on.                           *)
(***************************************************************************)

\* The network keeps the order of packets and loses them rather than keeps them
\* until a timer expires; a server is probed at least once before it is freed.
Orderly == Ordered /\ Prompt /\ MaxServerAge >= 2

\* The bits of a server and what its process does.
StageOK(s) ==
    /\ "BUSY" \in state[s] => state[s] \subseteq {"BUSY", "STUCK"}
    /\ "STUCK" \in state[s] => "BUSY" \in state[s]
    /\ "AGING" \in state[s] => "WAITING" \in state[s]
    /\ "WAITING" \in state[s] => spc[s] = "wait"
    /\ spc[s] = "start" => ID[s] = 0 /\ FreshServers
    /\ spc[s] = "start" <=> state[s] = {}
    /\ spc[s] = "exec" => "BUSY" \in state[s] /\ doing[s] = requestHdr[s].call
    /\ spc[s] = "top" /\ ID[s] # 0 => "BUSY" \in state[s]
    /\ spc[s] = "top" /\ ~FreshServers => ID[s] # 0 /\ doing[s] = requestHdr[s].call
    /\ {"FREE", "WAITING"} \subseteq state[s] => ID[s] = 0
    /\ state[s] \cap {"WAITING", "BUSY"} # {} /\ ID[s] # 0 => requestHdr[s].call.clt = clientID[s]
    /\ ID[s] # 0 => requestHdr[s].type = "REQUEST"
StagesAgree == \A s \in ServerIDs : StageOK(s)

\* The server s is idle since the call with ID i of client c.
StillIdle(s, c, i) == clientID[s] = c /\ ID[s] = i /\ "WAITING" \in state[s]

\* The client waits with its timer running, and has no input.
Committed(c) ==
    /\ Pending(c) /\ (cpc[c] = "wait" => "TIMEOUT" \in cstate[c])
    /\ "INPUT" \notin cstate[c]

NoneOf(c) == \A i \in 1 .. Len(toServer) : toServer[i].call.clt # c
FirstOf(n) == \A i \in 1 .. n - 1 : toServer[i].call.clt # toServer[n].call.clt
FirstFor(n) == \A i \in 1 .. n - 1 : toClient[i].clt # toClient[n].clt

\* The client of a probe has sent nothing since and the server is still idle; or it
\* has, and is busy until the probe has arrived.
Answerable(m) == (StillIdle(m.hint, m.clt, m.id) /\ NoneOf(m.clt)) \/ Committed(m.clt)
ProbesAgree ==
    \A n \in 1 .. Len(toClient) :
        toClient[n].type = "CLOSE" => FirstFor(n) /\ Answerable(toClient[n])

\* The answer to a probe finds the server as it was, and is the first to arrive.
Expected(m) == StillIdle(m.hint, m.call.clt, m.call.id)
AnswersAgree ==
    \A n \in 1 .. Len(toServer) :
        toServer[n].type = "CLOSE_ACK" => FirstOf(n) /\ Expected(toServer[n])

ProbeInv == TypeInv /\ StagesAgree /\ ProbesAgree /\ AnswersAgree

\* What is under way on a network after d packets were taken off its front and, if
\* there was room, x was sent.
Follows(net, new, d, x) ==
    /\ Len(new) \in Nat
    /\ \A n \in 1 .. Len(new) : \/ n + d \in 1 .. Len(net) /\ new[n] = net[n + d]
                                \/ n + d = Len(net) + 1 /\ new[n] = x

LEMMA PacketFacts ==
    ASSUME TypeInv
    PROVE  /\ Len(toClient) \in Nat /\ Len(toServer) \in Nat
           /\ \A n \in 1 .. Len(toClient) : toClient[n] \in Packets
           /\ \A n \in 1 .. Len(toServer) : toServer[n] \in ToServer
           /\ \A m \in Packets : m.clt \in Clients /\ m.hint \in ServerIDs /\ m.id \in IDs
           /\ \A m \in ToServer : /\ m.call \in Calls /\ m.call.clt \in Clients /\ m.hint \in ServerIDs
                                  /\ m.call.id # 0 /\ m.call.id \in IDs
                                  /\ m.call = Call(m.call.clt, m.call.boot, m.call.id)
<1>1. toClient \in Seq(Packets) /\ toServer \in Seq(ToServer)
  BY DEF TypeInv, NetTypes
<1>2. /\ \A n \in 1 .. Len(toClient) : toClient[n] \in Packets
      /\ \A n \in 1 .. Len(toServer) : toServer[n] \in ToServer
  BY <1>1, ElementOfSeq
<1>3. \A m \in Packets : m.clt \in Clients /\ m.hint \in ServerIDs /\ m.id \in IDs
  BY DEF Packets, ToClient
<1>4. \A m \in ToServer : m.call \in Calls /\ m.hint \in ServerIDs
  BY DEF ToServer
<1>5. QED
  BY <1>1, <1>2, <1>3, <1>4, CallFacts

LEMMA FollowsFacts ==
    ASSUME NEW S, NEW net \in Seq(S), Len(net) <= MaxNet
    PROVE  /\ \A x : Follows(net, net, 0, x)
           /\ \A x \in S : Follows(net, Sent(net, x), 0, x)
           /\ Ordered => \A n \in Arriving(net) : \A x : n = 1 /\ Follows(net, RemoveAt(net, n), 1, x)
<1>1. Len(net) \in Nat
  OBVIOUS
<1>2. \A x : Follows(net, net, 0, x)
  BY <1>1 DEF Follows
<1>3. ASSUME NEW x \in S PROVE Follows(net, Sent(net, x), 0, x)
  <2>1. /\ Len(Sent(net, x)) \in Nat
        /\ \A n \in 1 .. Len(Sent(net, x)) :
              \/ n \in 1 .. Len(net) /\ Sent(net, x)[n] = net[n]
              \/ n = Len(net) + 1 /\ Sent(net, x)[n] = x
    BY SentNet
  <2>2. QED
    BY <1>1, <2>1 DEF Follows
<1>4. ASSUME Ordered, NEW n \in Arriving(net), NEW x PROVE n = 1 /\ Follows(net, RemoveAt(net, n), 1, x)
  <2>1. /\ n = 1 /\ n \in 1 .. Len(net) /\ RemoveAt(net, n) \in Seq(S) /\ Len(RemoveAt(net, n)) = Len(net) - 1
        /\ \A i \in 1 .. Len(net) - 1 : RemoveAt(net, n)[i] = net[i + 1]
    BY <1>4, ArrivingNet
  <2>2. QED
    BY <1>1, <2>1 DEF Follows
<1>5. QED
  BY <1>2, <1>3, <1>4

\* The probes under way can be answered if those could that were, and the new one.
LEMMA ProbesKept ==
    ASSUME TypeInv, ProbesAgree, NEW d \in 0 .. 1, NEW x, Follows(toClient, toClient', d, x),
           \A n \in 1 .. Len(toClient) : \A m \in Packets :
              n > d /\ m = toClient[n] /\ m.type = "CLOSE" /\ FirstFor(n) /\ Answerable(m) => Answerable(m)',
           x.type = "CLOSE" => Answerable(x)' /\ \A n \in 1 .. Len(toClient) : toClient[n].clt # x.clt
    PROVE  ProbesAgree'
<1>1. ASSUME NEW n, NEW m, toClient'[n] = m, Answerable(m)' PROVE Answerable(toClient[n])'
  BY <1>1 DEF Answerable, StillIdle, NoneOf, Committed, Pending
<1> SUFFICES ASSUME NEW n \in 1 .. Len(toClient'), toClient'[n].type = "CLOSE"
             PROVE  FirstFor(n)' /\ Answerable(toClient[n])'
  BY DEF ProbesAgree
<1>2. /\ Len(toClient) \in Nat /\ Len(toClient') \in Nat
      /\ \A i \in 1 .. Len(toClient) : toClient[i] \in Packets
  BY PacketFacts DEF Follows
<1>3. ASSUME NEW i \in 1 .. n - 1 PROVE i + d \in 1 .. Len(toClient) /\ toClient'[i] = toClient[i + d]
  <2>1. i \in 1 .. Len(toClient') /\ i # Len(toClient')
    BY <1>2
  <2>2. QED
    BY <1>2, <2>1 DEF Follows
<1>4. CASE n + d \in 1 .. Len(toClient) /\ toClient'[n] = toClient[n + d]
  <2>1. FirstFor(n + d) /\ Answerable(toClient[n + d])
    BY <1>4 DEF ProbesAgree
  <2>2. FirstFor(n)'
    BY <1>2, <1>3, <1>4, <2>1 DEF FirstFor
  <2>3. PICK m \in Packets : m = toClient[n + d]
    BY <1>2, <1>4
  <2>4. Answerable(m)'
    BY <1>4, <2>1, <2>3
  <2>5. QED
    BY <1>1, <1>4, <2>2, <2>3, <2>4
<1>5. CASE n + d = Len(toClient) + 1 /\ toClient'[n] = x
  <2>1. FirstFor(n)'
    BY <1>2, <1>3, <1>5 DEF FirstFor
  <2>2. QED
    BY <1>1, <1>5, <2>1
<1>6. QED
  BY <1>4, <1>5 DEF Follows

\* The same for the answers.
LEMMA AnswersKept ==
    ASSUME TypeInv, AnswersAgree, NEW d \in 0 .. 1, NEW x, Follows(toServer, toServer', d, x),
           \A n \in 1 .. Len(toServer) : \A m \in ToServer :
              n > d /\ m = toServer[n] /\ m.type = "CLOSE_ACK" /\ FirstOf(n) /\ Expected(m) => Expected(m)',
           x.type = "CLOSE_ACK" => Expected(x)' /\ NoneOf(x.call.clt)
    PROVE  AnswersAgree'
<1>1. ASSUME NEW n, NEW m, toServer'[n] = m, Expected(m)' PROVE Expected(toServer[n])'
  BY <1>1 DEF Expected, StillIdle
<1> SUFFICES ASSUME NEW n \in 1 .. Len(toServer'), toServer'[n].type = "CLOSE_ACK"
             PROVE  FirstOf(n)' /\ Expected(toServer[n])'
  BY DEF AnswersAgree
<1>2. /\ Len(toServer) \in Nat /\ Len(toServer') \in Nat
      /\ \A i \in 1 .. Len(toServer) : toServer[i] \in ToServer
  BY PacketFacts DEF Follows
<1>3. \A i \in 1 .. n - 1 : i + d \in 1 .. Len(toServer) /\ toServer'[i] = toServer[i + d]
  BY <1>2 DEF Follows
<1>4. CASE n + d \in 1 .. Len(toServer) /\ toServer'[n] = toServer[n + d]
  <2>1. FirstOf(n + d) /\ Expected(toServer[n + d])
    BY <1>4 DEF AnswersAgree
  <2>2. FirstOf(n)'
    BY <1>2, <1>3, <1>4, <2>1 DEF FirstOf
  <2>3. PICK m \in ToServer : m = toServer[n + d]
    BY <1>2, <1>4
  <2>4. Expected(m)'
    BY <1>4, <2>1, <2>3, SMTT(60)
  <2>5. QED
    BY <1>1, <1>4, <2>2, <2>3, <2>4
<1>5. CASE n + d = Len(toServer) + 1 /\ toServer'[n] = x
  <2>1. FirstOf(n)'
    BY <1>2, <1>3, <1>5 DEF FirstOf, NoneOf
  <2>2. QED
    BY <1>1, <1>5, <2>1
<1>6. QED
  BY <1>4, <1>5 DEF Follows
\* A packet that is not there: nothing was sent.
Nothing == [type |-> "NONE", clt |-> NoClient, call |-> NoCall]

LEMMA NothingFacts ==
    /\ Nothing.type \notin {"CLOSE", "CLOSE_ACK", "REPLY", "REQUEST"} /\ Nothing.call.clt \notin Clients
    /\ Nothing.clt \notin Clients
BY RpcAssumption DEF Nothing, NoCall, Call

LEMMA NoneOfKept ==
    ASSUME NEW c, NEW d \in 0 .. 1, NEW y, Follows(toServer, toServer', d, y), y.call.clt # c, NoneOf(c)
    PROVE  NoneOf(c)'
BY DEF NoneOf, Follows

\* Nothing but a probe or its answer is disturbed as long as the idle servers stay idle.
LEMMA QuietStep ==
    ASSUME ProbeInv, UNCHANGED <<cpc, cstate>>,
           NEW d \in 0 .. 1, NEW x, Follows(toClient, toClient', d, x), x.type # "CLOSE",
           NEW e \in 0 .. 1, Follows(toServer, toServer', e, Nothing),
           \A s \in ServerIDs, c \in Clients, i \in IDs : i # 0 /\ StillIdle(s, c, i) => StillIdle(s, c, i)'
    PROVE  ProbesAgree' /\ AnswersAgree'
<1>1. TypeInv /\ ProbesAgree /\ AnswersAgree
  BY DEF ProbeInv
<1>2. ASSUME NEW m \in Packets, m.type = "CLOSE", Answerable(m) PROVE Answerable(m)'
  <2>1. m.clt \in Clients /\ m.hint \in ServerIDs /\ m.id \in IDs /\ m.id # 0
    BY <1>1, <1>2, PacketFacts DEF Packets
  <2>2. CASE StillIdle(m.hint, m.clt, m.id) /\ NoneOf(m.clt)
    <3>1. NoneOf(m.clt)'
      BY <2>1, <2>2, NoneOfKept, NothingFacts
    <3>2. StillIdle(m.hint, m.clt, m.id)'
      BY <2>1, <2>2
    <3>3. QED
      BY <3>1, <3>2 DEF Answerable
  <2>3. CASE Committed(m.clt)
    BY <2>3 DEF Answerable, Committed, Pending
  <2>4. QED
    BY <1>2, <2>2, <2>3 DEF Answerable
<1>3. ASSUME NEW m \in ToServer, m.type = "CLOSE_ACK", Expected(m) PROVE Expected(m)'
  BY <1>1, <1>3, PacketFacts DEF Expected
<1>4. ProbesAgree'
  BY <1>1, <1>2, ProbesKept
<1>5. AnswersAgree'
  BY <1>1, <1>3, AnswersKept, NothingFacts
<1>6. QED
  BY <1>4, <1>5

LEMMA NetFollows ==
    ASSUME TypeInv
    PROVE  /\ \A x : Follows(toClient, toClient, 0, x) /\ Follows(toServer, toServer, 0, x)
           /\ \A x \in Packets : Follows(toClient, Sent(toClient, x), 0, x)
           /\ \A x \in ToServer : Follows(toServer, Sent(toServer, x), 0, x)
           /\ Ordered => /\ \A n \in Arriving(toClient) : \A x : n = 1 /\ Follows(toClient, RemoveAt(toClient, n), 1, x)
                         /\ \A n \in Arriving(toServer) : \A x : n = 1 /\ Follows(toServer, RemoveAt(toServer, n), 1, x)
<1>1. /\ toClient \in Seq(Packets) /\ Len(toClient) <= MaxNet
      /\ toServer \in Seq(ToServer) /\ Len(toServer) <= MaxNet
  BY DEF TypeInv, NetTypes
<1>2. QED
  BY <1>1, FollowsFacts

LEMMA LoseProbes == ASSUME Orderly, ProbeInv, LosePacket PROVE ProbesAgree' /\ AnswersAgree'
<1>0. TypeInv /\ Ordered
  BY DEF ProbeInv, Orderly
<1>1. UNCHANGED <<cpc, cstate, state, ID, clientID>>
  BY DEF LosePacket, cvars, svars
<1>2. \A s \in ServerIDs, c \in Clients, i \in IDs : i # 0 /\ StillIdle(s, c, i) => StillIdle(s, c, i)'
  BY <1>1 DEF StillIdle
<1>3. \/ Follows(toServer, toServer', 1, Nothing) /\ Follows(toClient, toClient', 0, Nothing)
      \/ Follows(toServer, toServer', 0, Nothing) /\ Follows(toClient, toClient', 1, Nothing)
  BY <1>0, NetFollows DEF LosePacket
<1>4. QED
  BY <1>1, <1>2, <1>3, QuietStep, NothingFacts

LEMMA ServerProcessProbes ==
    ASSUME Orderly, ProbeInv, NEW s \in ServerIDs, ServerProcess(s)
    PROVE  ProbesAgree' /\ AnswersAgree'
<1>0. TypeInv /\ ServerTypes
  BY DEF ProbeInv, TypeInv
<1>1. UNCHANGED <<cpc, cstate, toServer, ID, clientID>>
  BY DEF ServerProcess, RpcServerInstall, ServerReady, ServerRun, Rpc_Reply, cvars
<1>2. Follows(toServer, toServer', 0, Nothing)
  BY <1>0, <1>1, NetFollows
<1>3. \A t \in ServerIDs, c \in Clients, i \in IDs : i # 0 /\ StillIdle(t, c, i) => StillIdle(t, c, i)'
  <2> SUFFICES ASSUME NEW t \in ServerIDs, "WAITING" \in state[t], ID[t] # 0
               PROVE  "WAITING" \in state'[t]
    BY <1>1 DEF StillIdle
  <2>1. spc[t] = "wait"
    BY DEF ProbeInv, StagesAgree, StageOK
  <2>2. CASE RpcServerInstall(s)
    BY <1>0, <2>1, <2>2 DEF ServerTypes, RpcServerInstall
  <2>3. CASE ServerReady(s)
    BY <1>0, <2>1, <2>3 DEF ServerTypes, ServerReady
  <2>4. CASE ServerRun(s)
    BY <1>0, <2>4 DEF ServerTypes, ServerRun, CrashCallBack
  <2>5. QED
    BY <2>2, <2>3, <2>4 DEF ServerProcess, Rpc_Reply
<1>4. CASE toClient' = toClient
  <2>1. Follows(toClient, toClient', 0, Nothing)
    BY <1>0, <1>4, NetFollows
  <2>2. QED
    BY <1>1, <1>2, <1>3, <2>1, QuietStep, NothingFacts
<1>5. ASSUME NEW err \in BOOLEAN, Rpc_Reply(s, err) PROVE ProbesAgree' /\ AnswersAgree'
  <2> DEFINE new == [clt |-> requestHdr[s].call.clt, id |-> requestHdr[s].call.id,
                     cmd |-> requestHdr[s].cmd, err |-> err, of |-> doing[s]]
  <2>1. requestHdr[s].call \in Calls /\ requestHdr[s].cmd \in Commands
    BY <1>0, <1>5, CallFacts DEF Rpc_Reply, ServerTypes, ServerOK
  <2>2. new \in Replies /\ new.clt \in Clients /\ new.cmd \in Commands
    BY <1>0, <2>1, CallFacts DEF Replies, ServerTypes
  <2>3. ReplyPacket(s, new) \in Packets /\ ReplyPacket(s, new).type = "REPLY"
    BY <2>2, ServerPackets, RpcAssumption DEF ReplyPacket
  <2>4. toClient' = Sent(toClient, ReplyPacket(s, new))
    BY <1>5 DEF Rpc_Reply
  <2> HIDE DEF new
  <2>5. Follows(toClient, toClient', 0, ReplyPacket(s, new))
    BY <1>0, <2>3, <2>4, NetFollows
  <2>6. QED
    BY <1>1, <1>2, <1>3, <2>3, <2>5, QuietStep
<1>6. QED
  BY <1>4, <1>5 DEF ServerProcess, RpcServerInstall, ServerReady, ServerRun
LEMMA ReclaimProbes ==
    ASSUME Orderly, ProbeInv, NEW s \in ServerIDs, NEW maxed \in BOOLEAN, Reclaim(s, maxed)
    PROVE  ProbesAgree' /\ AnswersAgree'
<1>0. TypeInv /\ ServerTypes /\ StageOK(s) /\ ServerOK(s) /\ ProbesAgree /\ AnswersAgree
  BY DEF ProbeInv, StagesAgree, TypeInv, ServerTypes
<1>1. UNCHANGED <<cpc, cstate, toServer, ID, clientID>>
  BY DEF Reclaim, cvars
<1>2. /\ NoneOf(clientID[s])
      /\ \A n \in 1 .. Len(toClient) : toClient[n].clt # clientID[s]
  BY DEF Reclaim, Orderly, TimerMayExpire, NoneOf
<1>3. Follows(toServer, toServer', 0, Nothing)
  BY <1>0, <1>1, NetFollows
<1>4. /\ \A t \in ServerIDs : t # s => state'[t] = state[t]
      /\ (Idle(s) /\ "WAITING" \in state'[s]) \/ toClient' = toClient
  BY <1>0 DEF Reclaim, StartAging, GrowOlder, Tidy, ServerTypes, Idle
<1>5. ASSUME NEW t \in ServerIDs, NEW c \in Clients, NEW i, c # clientID[s], StillIdle(t, c, i)
      PROVE  StillIdle(t, c, i)'
  BY <1>1, <1>4, <1>5 DEF StillIdle
<1>6. ASSUME NEW n \in 1 .. Len(toClient), NEW m \in Packets, m = toClient[n], Answerable(m)
      PROVE  Answerable(m)'
  <2>1. m.clt \in Clients /\ m.hint \in ServerIDs /\ m.clt # clientID[s]
    BY <1>0, <1>2, <1>6, PacketFacts
  <2>2. CASE StillIdle(m.hint, m.clt, m.id) /\ NoneOf(m.clt)
    <3>1. NoneOf(m.clt)'
      BY <1>1, <2>2 DEF NoneOf
    <3>2. QED
      BY <1>5, <2>1, <2>2, <3>1 DEF Answerable
  <2>3. CASE Committed(m.clt)
    BY <1>1, <2>3 DEF Answerable, Committed, Pending
  <2>4. QED
    BY <1>6, <2>2, <2>3 DEF Answerable
<1>7. AnswersAgree'
  <2>1. ASSUME NEW n \in 1 .. Len(toServer), NEW m \in ToServer, m = toServer[n], Expected(m)
        PROVE  Expected(m)'
    <3>1. m.call.clt \in Clients /\ m.hint \in ServerIDs /\ m.call.clt # clientID[s]
      BY <1>0, <1>2, <2>1, PacketFacts DEF NoneOf
    <3>2. QED
      BY <1>5, <2>1, <3>1 DEF Expected
  <2>2. QED
    BY <1>0, <1>3, <2>1, AnswersKept, NothingFacts
<1>8. CASE toClient' = toClient
  <2>1. Follows(toClient, toClient', 0, Nothing)
    BY <1>0, <1>8, NetFollows
  <2>2. ProbesAgree'
    BY <1>0, <1>6, <2>1, ProbesKept, NothingFacts
  <2>3. QED
    BY <1>7, <2>2
<1>9. CASE toClient' = Probed(s) /\ Idle(s) /\ "WAITING" \in state'[s]
  <2>1. /\ requestHdr[s] \in Headers /\ requestHdr[s].call \in Calls /\ requestHdr[s].cmd \in Commands
        /\ requestHdr[s].call.clt = clientID[s] /\ requestHdr[s].call.id = ID[s]
    BY <1>0, <1>9 DEF Idle, StageOK, ServerOK, ServerTypes
  <2>2. PICK x \in Packets : x = Ack(s, "CLOSE", requestHdr[s])
    BY <2>1, ServerPackets
  <2>3. x.hint = s /\ x.clt = clientID[s] /\ x.id = ID[s]
    BY <2>1, <2>2 DEF Ack
  <2>4. Follows(toClient, toClient', 0, x)
    BY <1>0, <1>9, <2>2, NetFollows DEF Probed
  <2>5. Answerable(x)'
    <3>1. StillIdle(x.hint, x.clt, x.id)'
      BY <1>1, <1>9, <2>3 DEF StillIdle
    <3>2. NoneOf(x.clt)'
      BY <1>1, <1>2, <2>3 DEF NoneOf
    <3>3. QED
      BY <3>1, <3>2 DEF Answerable
  <2>6. \A n \in 1 .. Len(toClient) : toClient[n].clt # x.clt
    BY <1>2, <2>3
  <2>7. ProbesAgree'
    BY <1>0, <1>6, <2>4, <2>5, <2>6, ProbesKept
  <2>8. QED
    BY <1>7, <2>7
<1>10. toClient' \in {toClient, Probed(s)}
  BY DEF Reclaim, StartAging, GrowOlder, Tidy
<1>11. QED
  BY <1>4, <1>8, <1>9, <1>10

\* A client that sends is committed until its timer expires; it takes nothing that a
\* probe could be mistaken about.
LEMMA ClientProbes ==
    ASSUME Orderly, ProbeInv, NEW c \in Clients,
           Rpc_Call(c) \/ ClientProcess(c) \/ Rpc_Timeout(c) \/ Reboot(c)
    PROVE  ProbesAgree' /\ AnswersAgree'
<1>0. TypeInv /\ ClientTypes /\ ProbesAgree /\ AnswersAgree
  BY DEF ProbeInv, TypeInv
<1>1. UNCHANGED <<toClient, state, ID, clientID>>
  BY DEF svars, Rpc_Call, ClientProcess, AwaitInput, DoInput, DoTimeout, RpcChanFree, Rpc_Timeout, Reboot
<1>2. \A b \in Clients : b # c => cpc'[b] = cpc[b] /\ cstate'[b] = cstate[b]
  BY <1>0 DEF ClientTypes, Rpc_Call, ClientProcess, AwaitInput, DoInput, DoTimeout, Return, RpcChanFree,
              Rpc_Timeout, Reboot
<1>3. \/ toServer' = toServer /\ ~Committed(c)
      \/ toServer' = toServer /\ Committed(c)'
      \/ toServer' = toServer /\ \A n \in 1 .. Len(toClient) : toClient[n].clt # c
      \/ Committed(c)' /\ \E hdr \in Requests : hdr.id # 0 /\ hdr.cmd \in Commands /\ SendRequest(c, hdr)
  <2>1. CASE Rpc_Call(c)
    <3>1. PICK k \in Commands : SendRequest(c, [id |-> rpcID[c], cmd |-> k, plsAck |-> FALSE])
      BY <2>1 DEF Rpc_Call
    <3>2. [id |-> rpcID[c], cmd |-> k, plsAck |-> FALSE] \in Requests /\ rpcID[c] # 0
      BY <1>0, <2>1, RpcAssumption DEF Rpc_Call, ClientTypes, IDs, Requests
    <3>3. Committed(c)'
      BY <1>0, <2>1 DEF Rpc_Call, Committed, Pending, ClientTypes
    <3>4. QED
      BY <3>1, <3>2, <3>3
  <2>2. CASE AwaitInput(c)
    BY <1>0, <2>2 DEF AwaitInput, Committed, Pending, ClientTypes
  <2>3. CASE DoInput(c)
    BY <2>3 DEF DoInput, Committed
  <2>4. CASE DoTimeout(c)
    <3>1. CASE UNCHANGED toServer
      BY <2>4, <3>1 DEF DoTimeout, Committed
    <3>2. CASE SendRequest(c, [request[c] EXCEPT !.plsAck = TRUE]) /\ cpc' = [cpc EXCEPT ![c] = "loop"] /\ UNCHANGED cstate
      <4>1. request[c] \in Requests /\ request[c].id # 0 /\ request[c].cmd \in Commands
        BY <1>0, <2>4 DEF DoTimeout, ClientTypes, ClientOK
      <4>2. Committed(c)'
        BY <1>0, <2>4, <3>2 DEF DoTimeout, Committed, Pending, ClientTypes
      <4>3. QED
        BY <3>2, <4>1, <4>2, PlsAckFacts
    <3>3. QED
      BY <2>4, <3>1, <3>2 DEF DoTimeout
  <2>5. CASE RpcChanFree(c)
    BY <2>5 DEF RpcChanFree, Committed, Pending
  <2>6. CASE Rpc_Timeout(c) \/ Reboot(c)
    BY <2>6 DEF Rpc_Timeout, Reboot, TimerMayExpire, Orderly
  <2>7. QED
    BY <2>1, <2>2, <2>3, <2>4, <2>5, <2>6 DEF ClientProcess
<1>4. PICK y : /\ Follows(toServer, toServer', 0, y) /\ y.type # "CLOSE_ACK"
               /\ \A b \in Clients : b # c => y.call.clt # b
               /\ toServer' = toServer \/ Committed(c)'
  <2>1. CASE toServer' = toServer
    BY <1>0, <2>1, NetFollows, NothingFacts
  <2>2. ASSUME Committed(c)', NEW hdr \in Requests, hdr.id # 0, hdr.cmd \in Commands, SendRequest(c, hdr)
        PROVE  \E y : /\ Follows(toServer, toServer', 0, y) /\ y.type # "CLOSE_ACK"
                      /\ \A b \in Clients : b # c => y.call.clt # b
                      /\ toServer' = toServer \/ Committed(c)'
    <3> DEFINE y == [type |-> "REQUEST", call |-> Call(c, bootID[c], hdr.id), cmd |-> hdr.cmd,
                     hint |-> input[c].hint, plsAck |-> hdr.plsAck]
    <3>1. y \in ToServer /\ y.type = "REQUEST" /\ y.call.clt = c
      BY <1>0, <2>2, CallFacts DEF ToServer, ClientTypes, Requests, Inputs, Call
    <3>2. toServer' = Sent(toServer, y)
      BY <2>2 DEF SendRequest
    <3> HIDE DEF y
    <3>3. QED
      BY <1>0, <2>2, <3>1, <3>2, NetFollows
  <2>3. QED
    BY <1>3, <2>1, <2>2
<1>5. AnswersAgree'
  BY <1>0, <1>1, <1>4, AnswersKept DEF Expected, StillIdle
<1>6. ASSUME NEW n \in 1 .. Len(toClient), NEW m \in Packets, m = toClient[n], Answerable(m)
      PROVE  Answerable(m)'
  <2>1. m.clt \in Clients
    BY <1>0, <1>6, PacketFacts
  <2>2. StillIdle(m.hint, m.clt, m.id) => StillIdle(m.hint, m.clt, m.id)'
    BY <1>1 DEF StillIdle
  <2>3. CASE m.clt # c
    <3>1. NoneOf(m.clt) => NoneOf(m.clt)'
      BY <1>4, <2>1, <2>3, NoneOfKept
    <3>2. Committed(m.clt) => Committed(m.clt)'
      BY <1>2, <2>1, <2>3 DEF Committed, Pending
    <3>3. QED
      BY <1>6, <2>2, <3>1, <3>2 DEF Answerable
  <2>4. CASE m.clt = c /\ Committed(c)'
    BY <2>4 DEF Answerable
  <2>5. CASE m.clt = c /\ ~Committed(c) /\ toServer' = toServer
    BY <1>6, <2>2, <2>5 DEF Answerable, NoneOf
  <2>6. QED
    BY <1>3, <1>6, <2>3, <2>4, <2>5
<1>7. Follows(toClient, toClient', 0, Nothing)
  BY <1>0, <1>1, NetFollows
<1>8. ProbesAgree'
  BY <1>0, <1>6, <1>7, ProbesKept, NothingFacts
<1>9. QED
  BY <1>5, <1>8
\* A client that is not busy answers; the answer is for the server that asked.
LEMMA ClientArrivalProbes == ASSUME Orderly, ProbeInv, ClientArrival PROVE ProbesAgree' /\ AnswersAgree'
<1>0. TypeInv /\ ClientTypes /\ ProbesAgree /\ AnswersAgree /\ Ordered
  BY DEF ProbeInv, TypeInv, Orderly
<1>1. PICK n \in Arriving(toClient) :
        /\ toClient' = RemoveAt(toClient, n)
        /\ RpcClientDispatch(toClient[n])
        /\ UNCHANGED <<state, ID, clientID, cpc, bootID>>
  BY DEF ClientArrival, svars
<1>2. n = 1 /\ 1 \in 1 .. Len(toClient) /\ Follows(toClient, toClient', 1, Nothing)
  BY <1>0, <1>1, NetFollows DEF Arriving
<1>3. PICK m \in Packets : m = toClient[1]
  BY <1>0, <1>2, PacketFacts
<1>4. m.clt \in Clients /\ m.hint \in ServerIDs /\ m.id \in IDs /\ (m.type = "CLOSE" => m.id # 0) /\ m.cmd \in Commands
  BY <1>0, PacketFacts DEF Packets, ToClient
<1>5. \A b \in Clients : b # m.clt => cstate'[b] = cstate[b]
  BY <1>0, <1>1, <1>2, <1>3 DEF RpcClientDispatch, RpcChanClose, ClientInput, AcceptInput, ClientTypes
<1>6. PICK y : /\ Follows(toServer, toServer', 0, y)
               /\ \A b \in Clients : b # m.clt => y.call.clt # b
               /\ y.type = "CLOSE_ACK" => Expected(y)' /\ NoneOf(y.call.clt)
  <2>1. CASE toServer' = toServer
    BY <1>0, <2>1, NetFollows, NothingFacts
  <2>2. CASE m.type = "CLOSE" /\ "BUSY" \notin cstate[m.clt] /\ toServer' = Sent(toServer, CloseAck(m))
    <3>1. PICK y : y = CloseAck(m)
      OBVIOUS
    <3>2. y \in ToServer /\ y.call.clt = m.clt /\ y.call.id = m.id /\ y.hint = m.hint
      BY <1>0, <1>4, <2>2, <3>1, CallFacts DEF CloseAck, ToServer, ClientTypes, Call
    <3>3. Answerable(m)
      BY <1>0, <1>2, <1>3, <2>2 DEF ProbesAgree
    <3>4. ~Committed(m.clt)
      BY <1>0, <1>4, <2>2 DEF ClientTypes, ClientOK, Committed, Pending
    <3>5. Expected(y)' /\ NoneOf(y.call.clt)
      BY <1>1, <3>2, <3>3, <3>4 DEF Answerable, Expected, StillIdle
    <3>6. Follows(toServer, toServer', 0, y)
      BY <1>0, <2>2, <3>1, <3>2, NetFollows
    <3>7. QED
      BY <3>2, <3>5, <3>6
  <2>3. QED
    BY <1>1, <1>2, <1>3, <2>1, <2>2 DEF RpcClientDispatch, RpcChanClose, ClientInput
<1>7. AnswersAgree'
  BY <1>0, <1>1, <1>6, AnswersKept DEF Expected, StillIdle
<1>8. ASSUME NEW i \in 1 .. Len(toClient), NEW p \in Packets, i > 1, p = toClient[i], FirstFor(i), Answerable(p)
      PROVE  Answerable(p)'
  <2>1. p.clt \in Clients /\ p.clt # m.clt
    <3>1. 1 \in 1 .. i - 1
      BY <1>0, <1>8, PacketFacts
    <3>2. QED
      BY <1>0, <1>3, <1>8, <3>1, PacketFacts DEF FirstFor
  <2>2. StillIdle(p.hint, p.clt, p.id) => StillIdle(p.hint, p.clt, p.id)'
    BY <1>1 DEF StillIdle
  <2>3. NoneOf(p.clt) => NoneOf(p.clt)'
    BY <1>6, <2>1, NoneOfKept
  <2>4. Committed(p.clt) => Committed(p.clt)'
    BY <1>1, <1>5, <2>1 DEF Committed, Pending
  <2>5. QED
    BY <1>8, <2>2, <2>3, <2>4 DEF Answerable
<1>9. ProbesAgree'
  BY <1>0, <1>2, <1>8, ProbesKept, NothingFacts
<1>10. QED
  BY <1>7, <1>9

\* The servers that RpcServerAlloc can choose: one that works for the client of the
\* packet, the one of the hint first of all, or a free one.
LEMMA RankZero ==
    ASSUME NEW s \in ServerIDs, NEW m, m.hint \in ServerIDs, Rank(s, m) <= Rank(m.hint, m)
    PROVE  s = m.hint
<1> DEFINE N == NumServers
           h == m.hint
<1>1. N \in Nat /\ N > 0 /\ h \in 0 .. N - 1 /\ s \in 0 .. N - 1
  BY RpcAssumption DEF ServerIDs
<1> HIDE DEF N, h
<1>2. N % N = 0
  BY <1>1
<1>3. (h - h + N) % N = 0
  <2>1. h - h + N = N
    BY <1>1
  <2>2. QED
    BY <1>2, <2>1
<1>4. (s - h + N) % N <= 0
  BY <1>3 DEF Rank, N, h
<1>5. CASE s < h
  <2>1. s - h + N \in 1 .. N - 1
    BY <1>1, <1>5
  <2>2. (s - h + N) % N = s - h + N
    BY <1>1, <2>1
  <2>3. QED
    BY <1>4, <2>1, <2>2
<1>6. CASE s > h
  <2>1. s - h \in 1 .. N - 1 /\ s - h + N = (s - h) + N
    BY <1>1, <1>6
  <2>2. ((s - h) + N) % N = (s - h) % N
    BY <1>1, <2>1
  <2>3. (s - h) % N = s - h
    BY <1>1, <2>1
  <2>4. QED
    BY <1>4, <2>1, <2>2, <2>3
<1>7. QED
  BY <1>1, <1>5, <1>6 DEF h

LEMMA AllocFacts ==
    ASSUME ProbeInv, NEW s \in ServerIDs, NEW m \in ToServer, RpcServerAlloc(s, m)
    PROVE  /\ "STUCK" \notin state[s]
           /\ clientID[s] = m.call.clt \/ "FREE" \in state[s]
           /\ Expected(m) => s = m.hint
           /\ \A t \in ServerIDs : \A c, i : c # m.call.clt /\ i # 0 /\ StillIdle(t, c, i) => t # s
<1>1. /\ s \in NotStuck
      /\ clientID[s] = m.call.clt \/ "FREE" \in state[s]
  BY DEF RpcServerAlloc, FirstFrom, Matching, FreeServers
<1>2. ASSUME Expected(m) PROVE s = m.hint
  <2>1. m.hint \in ServerIDs
    BY DEF ToServer
  <2>2. "STUCK" \notin state[m.hint]
    BY <1>2, <2>1 DEF Expected, StillIdle, ProbeInv, StagesAgree, StageOK
  <2>3. m.hint \in Matching(m)
    BY <1>2, <2>1, <2>2 DEF Expected, StillIdle, Matching, NotStuck
  <2>4. Rank(s, m) <= Rank(m.hint, m)
    BY <2>3 DEF RpcServerAlloc, FirstFrom
  <2>5. QED
    BY <2>1, <2>4, RankZero
<1>3. ASSUME NEW t \in ServerIDs, NEW c, NEW i, c # m.call.clt, i # 0, StillIdle(t, c, i) PROVE t # s
  BY <1>1, <1>3 DEF StillIdle, ProbeInv, StagesAgree, StageOK
<1>4. QED
  BY <1>1, <1>2, <1>3 DEF NotStuck
\* What a dispatched packet makes its server send.
LEMMA DispatchSends ==
    ASSUME TypeInv, NEW s \in ServerIDs, NEW m \in ToServer, RpcServerDispatch(s, m)
    PROVE  \E x : /\ Follows(toClient, toClient', 0, x) /\ x.type # "CLOSE"
                  /\ x.type = "REPLY" => x = ReplyPacket(s, reply[s])
<1>1. CASE toClient' = toClient
  BY <1>1, NetFollows, NothingFacts
<1>2. ASSUME NEW h \in Headers, h.call \in Calls, h.cmd \in Commands, toClient' = Sent(toClient, Ack(s, "ACK", h))
      PROVE  \E x : /\ Follows(toClient, toClient', 0, x) /\ x.type # "CLOSE"
                    /\ x.type = "REPLY" => x = ReplyPacket(s, reply[s])
  <2>1. Ack(s, "ACK", h) \in Packets /\ Ack(s, "ACK", h).type = "ACK"
    BY <1>2, ServerPackets DEF Ack
  <2>2. QED
    BY <1>2, <2>1, NetFollows
<1>3. CASE NewRequest(s, m)
  BY <1>1, <1>2, <1>3, ServerPackets DEF NewRequest
<1>4. CASE Abandoned(s, m) \/ CloseAcked(s, m)
  BY <1>1, <1>4 DEF Abandoned, CloseAcked
<1>5. CASE Resent(s, m)
  <2>1. /\ requestHdr[s] \in Headers /\ requestHdr[s].call \in Calls /\ requestHdr[s].cmd \in Commands
        /\ reply[s] \in Replies
        /\ reply[s].err \/ reply[s].cmd = requestHdr[s].cmd => reply[s].clt # NoClient /\ reply[s].cmd # NoCommand
    BY <1>5, CallFacts, PacketFacts, RpcAssumption DEF Resent, TypeInv, ServerTypes, ServerOK
  <2>2. CASE toClient' = Sent(toClient, Ack(s, "ACK", requestHdr[s]))
    BY <1>2, <2>1, <2>2
  <2>3. CASE toClient' = Sent(toClient, ReplyPacket(s, reply[s])) /\ (reply[s].err \/ reply[s].cmd = requestHdr[s].cmd)
    <3>1. ReplyPacket(s, reply[s]) \in Packets /\ ReplyPacket(s, reply[s]).type = "REPLY"
      BY <2>1, <2>3, ServerPackets DEF ReplyPacket
    <3>2. QED
      BY <2>3, <3>1, NetFollows
  <2>4. QED
    BY <1>1, <1>5, <2>2, <2>3 DEF Resent
<1>6. QED
  BY <1>3, <1>4, <1>5 DEF RpcServerDispatch

\* Only the server that is given the packet changes.
LEMMA DispatchFrame ==
    ASSUME TypeInv, NEW s \in ServerIDs, NEW m, RpcServerDispatch(s, m)
    PROVE  /\ freeReply' = freeReply
           /\ \A t \in ServerIDs : t # s => /\ state'[t] = state[t] /\ ID'[t] = ID[t] /\ clientID'[t] = clientID[t]
                                            /\ requestHdr'[t] = requestHdr[t] /\ reply'[t] = reply[t]
           /\ clientID'[s] = m.call.clt
           /\ age' = [age EXCEPT ![s] = 0]
<1>1. ServerTypes
  BY DEF TypeInv
<1>2. \A t \in ServerIDs : t # s => /\ state'[t] = state[t] /\ ID'[t] = ID[t]
                                    /\ requestHdr'[t] = requestHdr[t] /\ reply'[t] = reply[t]
  BY <1>1 DEF RpcServerDispatch, NewRequest, Abandoned, CloseAcked, Resent, ServerTypes
<1>3. QED
  BY <1>1, <1>2 DEF RpcServerDispatch, ServerTypes

LEMMA ServerArrivalProbes == ASSUME Orderly, ProbeInv, ServerArrival PROVE ProbesAgree' /\ AnswersAgree'
<1>0. TypeInv /\ ProbesAgree /\ AnswersAgree /\ Ordered
  BY DEF ProbeInv, Orderly
<1>1. PICK n \in Arriving(toServer) :
        /\ toServer' = RemoveAt(toServer, n)
        /\ \/ NoServer(toServer[n])
           \/ \E s \in ServerIDs : RpcServerAlloc(s, toServer[n]) /\ RpcServerDispatch(s, toServer[n])
        /\ UNCHANGED <<cpc, cstate>>
  BY DEF ServerArrival, cvars
<1>2. n = 1 /\ 1 \in 1 .. Len(toServer) /\ Follows(toServer, toServer', 1, Nothing)
  BY <1>0, <1>1, NetFollows DEF Arriving
<1>3. PICK m \in ToServer : m = toServer[1]
  BY <1>0, <1>2, PacketFacts
<1>4. /\ \A t \in ServerIDs : \A c, i : c # m.call.clt /\ i # 0 /\ StillIdle(t, c, i) => StillIdle(t, c, i)'
      /\ \E x : Follows(toClient, toClient', 0, x) /\ x.type # "CLOSE"
  <2>1. CASE NoServer(m)
    <3>1. UNCHANGED <<state, ID, clientID>>
      BY <2>1 DEF NoServer, svars
    <3>2. Ack(0, "NACK", Hdr(m)) \in Packets /\ Ack(0, "NACK", Hdr(m)).type = "NACK"
      BY CallFacts, ServerPackets DEF Ack
    <3>3. QED
      BY <1>0, <2>1, <3>1, <3>2, NetFollows, NothingFacts DEF NoServer, StillIdle
  <2>2. ASSUME NEW s \in ServerIDs, RpcServerAlloc(s, m), RpcServerDispatch(s, m)
        PROVE  /\ \A t \in ServerIDs : \A c, i : c # m.call.clt /\ i # 0 /\ StillIdle(t, c, i) => StillIdle(t, c, i)'
               /\ \E x : Follows(toClient, toClient', 0, x) /\ x.type # "CLOSE"
    <3>1. \A t \in ServerIDs : \A c, i : c # m.call.clt /\ i # 0 /\ StillIdle(t, c, i) => t # s
      BY <2>2, AllocFacts
    <3>2. \A t \in ServerIDs : \A c, i : c # m.call.clt /\ i # 0 /\ StillIdle(t, c, i) => StillIdle(t, c, i)'
      BY <1>0, <2>2, <3>1, DispatchFrame DEF StillIdle
    <3>3. QED
      BY <1>0, <2>2, <3>2, DispatchSends
  <2>3. QED
    BY <1>1, <1>2, <1>3, <2>1, <2>2
<1>5. AnswersAgree'
  <2>1. ASSUME NEW i \in 1 .. Len(toServer), NEW p \in ToServer, i > 1, p = toServer[i], FirstOf(i), Expected(p)
        PROVE  Expected(p)'
    <3>1. 1 \in 1 .. i - 1
      BY <1>0, <2>1, PacketFacts
    <3>2. p.call.clt # m.call.clt /\ p.hint \in ServerIDs /\ p.call.id # 0
      BY <1>0, <1>3, <2>1, <3>1, PacketFacts DEF FirstOf
    <3>3. QED
      BY <1>4, <2>1, <3>2 DEF Expected
  <2>2. QED
    BY <1>0, <1>2, <2>1, AnswersKept, NothingFacts
<1>6. ASSUME NEW p \in Packets, p.type = "CLOSE", Answerable(p) PROVE Answerable(p)'
  <2>1. p.clt \in Clients /\ p.hint \in ServerIDs /\ p.id # 0
    BY <1>0, <1>6, PacketFacts DEF Packets
  <2>2. CASE StillIdle(p.hint, p.clt, p.id) /\ NoneOf(p.clt)
    <3>1. p.clt # m.call.clt
      BY <1>2, <1>3, <2>2 DEF NoneOf
    <3>2. NoneOf(p.clt)'
      BY <1>2, <2>1, <2>2, NoneOfKept, NothingFacts
    <3>3. QED
      BY <1>4, <2>1, <2>2, <3>1, <3>2 DEF Answerable
  <2>3. CASE Committed(p.clt)
    BY <1>1, <2>3 DEF Answerable, Committed, Pending
  <2>4. QED
    BY <1>6, <2>2, <2>3 DEF Answerable
<1>7. ProbesAgree'
  BY <1>0, <1>4, <1>6, ProbesKept
<1>8. QED
  BY <1>5, <1>7
-----------------------------------------------------------------------------
(* The server processes.                                                   *)

LEMMA ServerProcessStages ==
    ASSUME ProbeInv, NEW s \in ServerIDs, ServerProcess(s)
    PROVE  StagesAgree'
<1>0. ServerTypes /\ \A t \in ServerIDs : StageOK(t) /\ ServerOK(t) /\ state[t] \subseteq SrvBits
  BY DEF ProbeInv, StagesAgree, TypeInv, ServerTypes
<1>1. UNCHANGED <<ID, clientID, requestHdr>>
  BY DEF ServerProcess, RpcServerInstall, ServerReady, ServerRun, Rpc_Reply
<1> SUFFICES ASSUME NEW t \in ServerIDs PROVE StageOK(t)'
  BY DEF StagesAgree
<1>2. CASE RpcServerInstall(s)
  BY <1>0, <1>1, <1>2 DEF RpcServerInstall, ServerTypes, StageOK
<1>3. CASE ServerReady(s)
  <2>1. /\ t # s => state'[t] = state[t] /\ spc'[t] = spc[t]
        /\ t = s => /\ state'[t] = (state[t] \ {"BUSY", "STUCK"}) \cup {"WAITING"}
                    /\ spc'[t] = "wait" /\ spc[t] = "top"
        /\ doing'[t] = doing[t]
    BY <1>0, <1>3 DEF ServerReady, ServerTypes
  <2>2. CASE t # s
    BY <1>0, <1>1, <2>1, <2>2 DEF StageOK
  <2>3. CASE t = s
    <3>1. "BUSY" \notin state'[t] /\ "STUCK" \notin state'[t] /\ "WAITING" \in state'[t]
      BY <2>1, <2>3
    <3>2. ID[t] # 0 => state'[t] = {"WAITING"}
      BY <1>0, <2>1, <2>3 DEF StageOK
    <3>3. ID[t] # 0 => requestHdr[t].call.clt = clientID[t]
      BY <1>0, <2>1, <2>3 DEF StageOK
    <3>4. /\ spc'[t] = "wait" /\ ID'[t] = ID[t] /\ clientID'[t] = clientID[t] /\ requestHdr'[t] = requestHdr[t]
          /\ ID[t] # 0 => requestHdr[t].type = "REQUEST"
      BY <1>0, <1>1, <2>1, <2>3 DEF StageOK
    <3>5. {"FREE", "WAITING"} \subseteq state'[t] => ID[t] = 0
      BY <3>2
    <3>6. QED
      BY <3>1, <3>3, <3>4, <3>5 DEF StageOK
  <2>4. QED
    BY <2>2, <2>3
<1>4. CASE ServerRun(s)
  <2>1. \/ state'[t] = state[t]
        \/ "BUSY" \in state[t] /\ state'[t] = state[t] \cup {"STUCK"}
    <3>1. PICK c : state' = state \/ state' = CrashCallBack(c)
      BY <1>4 DEF ServerRun
    <3>2. QED
      BY <3>1 DEF CrashCallBack
  <2>2. /\ t # s => spc'[t] = spc[t] /\ doing'[t] = doing[t]
        /\ t = s => /\ spc'[t] = "exec" /\ doing'[t] = requestHdr[t].call
                    /\ spc[t] = "wait" /\ "BUSY" \in state[t]
    BY <1>0, <1>4 DEF ServerRun, ServerTypes
  <2>3. QED
    BY <1>0, <1>1, <2>1, <2>2 DEF StageOK
<1>5. ASSUME NEW err \in BOOLEAN, Rpc_Reply(s, err) PROVE StageOK(t)'
  BY <1>0, <1>1, <1>5 DEF Rpc_Reply, ServerTypes, StageOK, ServerOK
<1>6. QED
  BY <1>2, <1>3, <1>4, <1>5 DEF ServerProcess

LEMMA ReclaimStages ==
    ASSUME ProbeInv, NEW s \in ServerIDs, NEW maxed \in BOOLEAN, Reclaim(s, maxed)
    PROVE  StagesAgree'
<1>0. ServerTypes /\ \A t \in ServerIDs : StageOK(t) /\ ServerOK(t) /\ state[t] \subseteq SrvBits
  BY DEF ProbeInv, StagesAgree, TypeInv, ServerTypes
<1>1. UNCHANGED <<spc, doing, ID, clientID, requestHdr>>
  BY DEF Reclaim, pvars
<1>2. /\ \A t \in ServerIDs : t # s => state'[t] = state[t]
      /\ \/ state'[s] = state[s]
         \/ "WAITING" \in state[s] /\ state'[s] \in {{"FREE"}, state[s] \cup {"AGING"}}
  BY <1>0 DEF Reclaim, StartAging, GrowOlder, Tidy, ServerTypes, Idle
<1> SUFFICES ASSUME NEW t \in ServerIDs PROVE StageOK(t)'
  BY DEF StagesAgree
<1>3. CASE t # s
  BY <1>0, <1>1, <1>2, <1>3 DEF StageOK
<1>4. CASE t = s
  BY <1>0, <1>1, <1>2, <1>4 DEF StageOK
<1>5. QED
  BY <1>3, <1>4

\* An acknowledgement of a probe finds its server idle with the same ID, so that it
\* is never taken for a request.
LEMMA DispatchStage ==
    ASSUME ProbeInv, NEW s \in ServerIDs, NEW m \in ToServer,
           RpcServerAlloc(s, m), RpcServerDispatch(s, m), UNCHANGED pvars,
           m.type = "CLOSE_ACK" => Expected(m)
    PROVE  StageOK(s)'
<1>0. ServerTypes /\ StageOK(s) /\ ServerOK(s) /\ state[s] \subseteq SrvBits /\ TypeInv
  BY DEF ProbeInv, StagesAgree, TypeInv, ServerTypes
<1>1. /\ "STUCK" \notin state[s] /\ (clientID[s] = m.call.clt \/ "FREE" \in state[s])
      /\ m.type = "CLOSE_ACK" => s = m.hint /\ StillIdle(s, m.call.clt, m.call.id)
  BY AllocFacts DEF Expected
<1>2. m.call \in Calls /\ m.call.clt \in Clients /\ m.call.id # 0 /\ m.type \in {"REQUEST", "CLOSE_ACK"}
  BY <1>0, PacketFacts DEF ToServer
<1>3. UNCHANGED <<spc, doing>> /\ clientID'[s] = m.call.clt
  BY <1>0, DispatchFrame DEF pvars
<1>4. CASE NewRequest(s, m)
  <2>1. m.type = "REQUEST"
    BY <1>1, <1>2, <1>4 DEF NewRequest, StillIdle
  <2>2. ID'[s] = m.call.id /\ requestHdr'[s] = Hdr(m) /\ state'[s] = {"BUSY"} /\ "BUSY" \notin state[s]
    BY <1>0, <1>4 DEF NewRequest, ServerTypes
  <2>3. Hdr(m).call = m.call /\ Hdr(m).type = "REQUEST"
    BY <2>1 DEF Hdr
  <2>4. spc[s] # "start" /\ spc[s] # "exec" /\ (spc[s] = "top" => FreshServers)
    BY <1>0, <1>1, <1>2, <2>2, RpcAssumption DEF StageOK, ServerOK
  <2>5. QED
    BY <1>2, <1>3, <2>2, <2>3, <2>4 DEF StageOK
<1>5. CASE Abandoned(s, m)
  <2>1. UNCHANGED <<ID, requestHdr>> /\ "BUSY" \in state[s] /\ state'[s] = {"BUSY", "STUCK"}
    BY <1>0, <1>1, <1>5 DEF Abandoned, ServerTypes, StageOK, Bits
  <2>2. QED
    BY <1>0, <1>1, <1>3, <2>1 DEF StageOK
<1>6. CASE CloseAcked(s, m)
  <2>1. UNCHANGED <<ID, requestHdr>> /\ state'[s] = {"FREE"} /\ "WAITING" \in state[s]
    BY <1>0, <1>1, <1>6 DEF CloseAcked, ServerTypes, StillIdle
  <2>2. QED
    BY <1>0, <1>3, <2>1 DEF StageOK
<1>7. CASE Resent(s, m)
  <2>1. UNCHANGED <<ID, requestHdr>> /\ ID[s] # 0
    BY <1>2, <1>7 DEF Resent
  <2>2. \/ Bits(s) = {"BUSY"} /\ state'[s] = {"BUSY"}
        \/ Bits(s) = {"WAITING"} /\ state'[s] = {"WAITING"}
        \/ Bits(s) \notin {{"BUSY"}, {"WAITING"}} /\ state'[s] = {"FREE"}
    BY <1>0, <1>7 DEF Resent, ServerTypes
  <2>3. CASE Bits(s) \in {{"BUSY"}, {"WAITING"}} /\ state'[s] = Bits(s)
    <3>1. state[s] \cap {"BUSY", "WAITING"} # {} /\ ("BUSY" \in state[s] <=> "BUSY" \in state'[s])
          /\ ("WAITING" \in state[s] <=> "WAITING" \in state'[s])
      BY <2>3 DEF Bits
    <3>2. clientID[s] = m.call.clt
      BY <1>0, <1>1, <2>1, <3>1 DEF StageOK
    <3>3. QED
      BY <1>0, <1>3, <2>1, <2>3, <3>1, <3>2 DEF StageOK
  <2>4. CASE Bits(s) \notin {{"BUSY"}, {"WAITING"}} /\ state'[s] = {"FREE"}
    <3>1. "BUSY" \notin state[s]
      BY <1>0, <1>1, <2>4 DEF StageOK, Bits
    <3>2. spc[s] = "wait"
      BY <1>0, <2>1, <3>1 DEF StageOK, ServerTypes
    <3>3. QED
      BY <1>0, <1>3, <2>1, <2>4, <3>2 DEF StageOK
  <2>5. QED
    BY <2>2, <2>3, <2>4
<1>8. QED
  BY <1>4, <1>5, <1>6, <1>7 DEF RpcServerDispatch

LEMMA ServerArrivalStages == ASSUME Orderly, ProbeInv, ServerArrival PROVE StagesAgree'
<1>0. TypeInv /\ AnswersAgree /\ Ordered
  BY DEF ProbeInv, Orderly
<1>1. PICK n \in Arriving(toServer) :
        /\ \/ NoServer(toServer[n])
           \/ \E s \in ServerIDs : RpcServerAlloc(s, toServer[n]) /\ RpcServerDispatch(s, toServer[n])
        /\ UNCHANGED pvars
  BY DEF ServerArrival
<1>2. toServer[n] \in ToServer /\ (toServer[n].type = "CLOSE_ACK" => Expected(toServer[n]))
  BY <1>0, PacketFacts DEF Arriving, AnswersAgree
<1>3. CASE NoServer(toServer[n])
  BY <1>1, <1>3 DEF NoServer, svars, pvars, ProbeInv, StagesAgree, StageOK
<1>4. ASSUME NEW s \in ServerIDs, RpcServerAlloc(s, toServer[n]), RpcServerDispatch(s, toServer[n])
      PROVE  StagesAgree'
  <2>1. StageOK(s)'
    BY <1>1, <1>2, <1>4, DispatchStage
  <2>2. ASSUME NEW t \in ServerIDs, t # s PROVE StageOK(t)'
    <3>1. StageOK(t) /\ UNCHANGED <<spc, doing>>
      BY <1>1 DEF ProbeInv, StagesAgree, pvars
    <3>2. /\ state'[t] = state[t] /\ ID'[t] = ID[t] /\ clientID'[t] = clientID[t]
          /\ requestHdr'[t] = requestHdr[t]
      BY <1>0, <1>4, <2>2, DispatchFrame
    <3>3. QED
      BY <3>1, <3>2 DEF StageOK
  <2>3. QED
    BY <2>1, <2>2 DEF StagesAgree
<1>5. QED
  BY <1>1, <1>3, <1>4

LEMMA InitProbes == Init => ProbeInv
<1> SUFFICES ASSUME Init PROVE ProbeInv
  OBVIOUS
<1>1. TypeInv
  BY InitTypes
<1>2. StagesAgree
  BY RpcAssumption DEF Init, StagesAgree, StageOK
<1>3. ProbesAgree /\ AnswersAgree
  BY DEF Init, ProbesAgree, AnswersAgree
<1>4. QED
  BY <1>1, <1>2, <1>3 DEF ProbeInv

LEMMA NextProbes == ASSUME Orderly, ProbeInv, [Next]_vars PROVE ProbeInv'
<1>1. TypeInv'
  BY NextTypes DEF ProbeInv, Orderly
<1>2. CASE UNCHANGED <<svars, pvars>>
  <2>1. StagesAgree'
    BY <1>2 DEF ProbeInv, StagesAgree, StageOK, svars, pvars
  <2>2. CASE UNCHANGED vars
    <3>1. ProbesAgree' /\ AnswersAgree'
      BY <2>2 DEF vars, cvars, svars, ProbeInv, ProbesAgree, AnswersAgree, FirstFor, FirstOf, Answerable,
                  Expected, StillIdle, NoneOf, Committed, Pending
    <3>2. QED
      BY <1>1, <2>1, <3>1 DEF ProbeInv
  <2>3. CASE \E c \in Clients : Rpc_Call(c) \/ ClientProcess(c) \/ Rpc_Timeout(c) \/ Reboot(c)
    BY <1>1, <2>1, <2>3, ClientProbes DEF ProbeInv
  <2>4. CASE ClientArrival
    BY <1>1, <2>1, <2>4, ClientArrivalProbes DEF ProbeInv
  <2>5. CASE LosePacket
    BY <1>1, <2>1, <2>5, LoseProbes DEF ProbeInv
  <2>6. ASSUME \/ UNCHANGED vars \/ ClientArrival \/ LosePacket
               \/ \E c \in Clients : Rpc_Call(c) \/ ClientProcess(c) \/ Rpc_Timeout(c) \/ Reboot(c)
        PROVE  ProbeInv'
    BY <2>2, <2>3, <2>4, <2>5, <2>6
  <2>7. ServerArrival => ProbeInv'
    BY <1>1, <2>1, ServerArrivalProbes DEF ProbeInv
  <2>8. (\E s \in ServerIDs : ServerProcess(s) \/ \E maxed \in BOOLEAN : Reclaim(s, maxed)) => ProbeInv'
    BY <1>1, <2>1, ServerProcessProbes, ReclaimProbes DEF ProbeInv
  <2>9. QED
    BY <2>6, <2>7, <2>8 DEF Next
<1>3. CASE ~UNCHANGED <<svars, pvars>>
  <2>1. \/ \E s \in ServerIDs : ServerProcess(s) \/ \E maxed \in BOOLEAN : Reclaim(s, maxed)
        \/ ServerArrival
    BY <1>3 DEF Next, vars, ClientArrival, LosePacket, Rpc_Call, ClientProcess, AwaitInput, DoInput, DoTimeout,
                RpcChanFree, Rpc_Timeout, Reboot
  <2>2. QED
    BY <1>1, <2>1, ServerArrivalProbes, ServerArrivalStages, ServerProcessProbes, ServerProcessStages,
       ReclaimProbes, ReclaimStages
    DEF ProbeInv
<1>4. QED
  BY <1>2, <1>3

\* Probes and answers are what the server relies on, at every step.
LEMMA ProbeInvariant == ASSUME Orderly PROVE Spec => []ProbeInv
<1>1. Init => ProbeInv
  BY InitProbes
<1>2. ProbeInv /\ [Next]_vars => ProbeInv'
  BY NextProbes
<1>3. QED
  BY <1>1, <1>2, PTL DEF Spec

\* On a network that keeps the order of packets, the acknowledgement of a probe is
\* never given to a server process as if it were a request, whichever clients, servers
\* and reboots there are: RpcServerDispatch compares only IDs.
THEOREM RpcOnlyRequestsServed == ASSUME Orderly PROVE Spec => []OnlyRequestsServed
<1>1. ProbeInv => OnlyRequestsServed
  BY DEF ProbeInv, StagesAgree, StageOK, TypeInv, ServerTypes, ServerOK, OnlyRequestsServed
<1>2. QED
  BY <1>1, ProbeInvariant, PTL

\* Rpc_Server clears SRV_BUSY only once the announced request was executed, provided
\* that the server processes were waiting when the first request came.
THEOREM RpcBusyIsServed == ASSUME Orderly, ~FreshServers PROVE Spec => BusyIsServed
<1>1. ProbeInv /\ [Next]_vars =>
        [\A s \in ServerIDs : spc[s] = "top" /\ spc'[s] = "wait" /\ "BUSY" \in state[s]
             => doing[s] = requestHdr[s].call]_vars
  BY DEF ProbeInv, StagesAgree, StageOK
<1>2. QED
  BY <1>1, ProbeInvariant, PTL DEF Spec, BusyIsServed
\* A process that has answered, and a server that is idle after a call, has the
\* storage of the reply, or an error reply that needs none.
BackedAt(s) == spc[s] = "top" \/ ("WAITING" \in state[s] /\ ID[s] # 0) => reply[s].err \/ freeReply[s]
ReplyBacked == \A s \in ServerIDs : BackedAt(s)

LEMMA NextBacked ==
    ASSUME ~FreshServers, ProbeInv, ReplyBacked, [Next]_vars
    PROVE  ReplyBacked'
<1>0. ServerTypes /\ TypeInv /\ \A t \in ServerIDs : StageOK(t) /\ ServerOK(t) /\ BackedAt(t)
  BY DEF ProbeInv, StagesAgree, TypeInv, ServerTypes, ReplyBacked
<1> SUFFICES ASSUME NEW t \in ServerIDs PROVE BackedAt(t)'
  BY DEF ReplyBacked
<1>1. ASSUME NEW s \in ServerIDs, RpcServerInstall(s) PROVE BackedAt(t)'
  BY <1>0, <1>1 DEF RpcServerInstall, StageOK
<1>2. ASSUME NEW s \in ServerIDs, ServerReady(s) PROVE BackedAt(t)'
  BY <1>0, <1>2 DEF ServerReady, BackedAt, ServerTypes
<1>3. ASSUME NEW s \in ServerIDs, ServerRun(s) PROVE BackedAt(t)'
  <2>1. "WAITING" \in state'[t] => "WAITING" \in state[t]
    BY <1>0, <1>3 DEF ServerRun, CrashCallBack, ServerTypes
  <2>2. t = s => "WAITING" \notin state[t]
    BY <1>0, <1>3 DEF ServerRun, StageOK
  <2>3. QED
    BY <1>0, <1>3, <2>1, <2>2 DEF ServerRun, BackedAt, ServerTypes
<1>4. ASSUME NEW s \in ServerIDs, NEW err \in BOOLEAN, Rpc_Reply(s, err) PROVE BackedAt(t)'
  BY <1>0, <1>4 DEF Rpc_Reply, BackedAt, ServerTypes
<1>5. ASSUME NEW s \in ServerIDs, NEW maxed \in BOOLEAN, Reclaim(s, maxed) PROVE BackedAt(t)'
  <2>1. UNCHANGED <<spc, ID, reply, clientID>>
    BY <1>5 DEF Reclaim, pvars
  <2>2. CASE StartAging(s, maxed)
    BY <1>0, <2>1, <2>2 DEF StartAging, Idle, BackedAt, ServerTypes
  <2>3. CASE GrowOlder(s)
    <3>1. spc[s] = "wait"
      BY <1>0, <2>3 DEF GrowOlder, Idle, StageOK
    <3>2. QED
      BY <1>0, <2>1, <2>3, <3>1 DEF GrowOlder, BackedAt, ServerTypes
  <2>4. CASE Tidy(s)
    <3>1. spc[s] # "top" /\ ~("WAITING" \in state[s] /\ ID[s] # 0)
      BY <1>0, <2>4 DEF Tidy, Idle, StageOK, ServerOK
    <3>2. QED
      BY <1>0, <2>1, <2>4, <3>1 DEF Tidy, BackedAt, ServerTypes
  <2>5. QED
    BY <1>5, <2>2, <2>3, <2>4 DEF Reclaim
<1>6. CASE ServerArrival
  <2>1. PICK n \in Arriving(toServer) :
          /\ \/ NoServer(toServer[n])
             \/ \E s \in ServerIDs : RpcServerDispatch(s, toServer[n])
          /\ UNCHANGED pvars
    BY <1>6 DEF ServerArrival
  <2>2. CASE NoServer(toServer[n])
    BY <1>0, <2>1, <2>2 DEF NoServer, svars, pvars, BackedAt
  <2>3. ASSUME NEW s \in ServerIDs, RpcServerDispatch(s, toServer[n]) PROVE BackedAt(t)'
    <3>1. UNCHANGED <<spc, freeReply>>
      BY <1>0, <2>1, <2>3, DispatchFrame DEF pvars
    <3>2. CASE t # s
      BY <1>0, <2>3, <3>1, <3>2, DispatchFrame DEF BackedAt
    <3>3. CASE t = s
      <4>1. reply'[s].err = reply[s].err
        <5>1. reply[s] \in Replies
          BY <1>0 DEF ServerTypes
        <5>2. [reply[s] EXCEPT !.id = 0].err = reply[s].err
          BY <5>1 DEF Replies
        <5>3. QED
          BY <1>0, <2>3, <5>2 DEF RpcServerDispatch, NewRequest, Abandoned, CloseAcked, Resent, ServerTypes
      <4>2. "WAITING" \in state'[s] => "WAITING" \in state[s] /\ ID'[s] = ID[s]
        BY <1>0, <2>3
        DEF RpcServerDispatch, NewRequest, Abandoned, CloseAcked, Resent, ServerTypes, Bits
      <4>3. QED
        BY <1>0, <3>1, <3>3, <4>1, <4>2 DEF BackedAt
    <3>4. QED
      BY <3>2, <3>3
  <2>4. QED
    BY <2>1, <2>2, <2>3
<1>7. CASE UNCHANGED <<svars, pvars>>
  BY <1>0, <1>7 DEF svars, pvars, BackedAt
<1>8. QED
  BY <1>1, <1>2, <1>3, <1>4, <1>5, <1>6, <1>7
  DEF Next, ServerProcess, vars, ClientArrival, LosePacket, Rpc_Call, ClientProcess, AwaitInput, DoInput, DoTimeout,
      RpcChanFree, Rpc_Timeout, Reboot

\* A reply that RpcResend would send again still has its storage.
THEOREM RpcResendIsBacked == ASSUME Orderly, ~FreshServers PROVE Spec => []ResendIsBacked
<1>1. Init => ReplyBacked
  BY RpcAssumption DEF Init, ReplyBacked, BackedAt
<1>2. ProbeInv /\ ReplyBacked /\ [Next]_vars => ReplyBacked'
  BY NextBacked
<1>3. ReplyBacked => ResendIsBacked
  BY DEF ReplyBacked, BackedAt, ResendIsBacked, Bits
<1>4. QED
  BY <1>1, <1>2, <1>3, ProbeInvariant, PTL DEF Spec
-----------------------------------------------------------------------------
(***************************************************************************)
(* Replies, when no client reboots.                                        *)
(***************************************************************************)

\* The result with ID i that client c is given is that of the call with this ID.
Honest(c, i, of) == i # 0 => of = Call(c, 0, i) /\ of \in Calls /\ execs[of] # 0

ServerHonest(s) ==
    /\ Honest(reply[s].clt, reply[s].id, reply[s].of)
    /\ spc[s] = "exec" => execs[doing[s]] # 0
RepliesHonest ==
    \A n \in 1 .. Len(toClient) :
        toClient[n].type = "REPLY" => Honest(toClient[n].clt, toClient[n].id, toClient[n].of)

\* Input is for the current request, and the call that ended well has its reply.
ClientHonest(c) ==
    /\ input[c].type = "REPLY" => Honest(c, input[c].id, input[c].of)
    /\ "INPUT" \in cstate[c] => input[c].id = request[c].id
    /\ cpc[c] = "done" /\ error[c] = "SUCCESS" => input[c].type = "REPLY" /\ input[c].id = request[c].id

ResultsAgree ==
    /\ \A s \in ServerIDs : ServerHonest(s)
    /\ RepliesHonest
    /\ \A c \in Clients : ClientHonest(c)

LEMMA ExecsGrow ==
    ASSUME TypeInv, [Next]_vars
    PROVE  \A k \in Calls : execs[k] # 0 => execs'[k] # 0
<1>1. CASE UNCHANGED execs
  BY <1>1
<1>2. ASSUME NEW s \in ServerIDs, ServerRun(s) PROVE \A k \in Calls : execs[k] # 0 => execs'[k] # 0
  BY <1>2 DEF ServerRun, TypeInv, ServerTypes
<1>3. UNCHANGED execs \/ \E s \in ServerIDs : ServerRun(s)
  BY DEF Next, vars, pvars, ServerProcess, RpcServerInstall, ServerReady, Rpc_Reply, Reclaim, ClientArrival,
         ServerArrival, LosePacket, Rpc_Call, ClientProcess, AwaitInput, DoInput, DoTimeout, RpcChanFree,
         Rpc_Timeout, Reboot
<1>4. QED
  BY <1>1, <1>2, <1>3

LEMMA HonestKept ==
    ASSUME TypeInv, [Next]_vars, NEW c, NEW i, NEW of, Honest(c, i, of)
    PROVE  Honest(c, i, of)'
BY ExecsGrow DEF Honest

LEMMA RepliesKept ==
    ASSUME TypeInv, [Next]_vars, RepliesHonest, NEW d \in 0 .. 1, NEW x, Follows(toClient, toClient', d, x),
           x.type = "REPLY" => Honest(x.clt, x.id, x.of)'
    PROVE  RepliesHonest'
<1> SUFFICES ASSUME NEW n \in 1 .. Len(toClient'), toClient'[n].type = "REPLY"
             PROVE  Honest(toClient[n].clt, toClient[n].id, toClient[n].of)'
  BY DEF RepliesHonest
<1>1. PICK m : m = toClient'[n]
  OBVIOUS
<1>2. Honest(m.clt, m.id, m.of)'
  <2>1. CASE n + d \in 1 .. Len(toClient) /\ m = toClient[n + d]
    <3>1. Honest(m.clt, m.id, m.of)
      BY <1>1, <2>1 DEF RepliesHonest
    <3>2. QED
      BY <3>1, HonestKept
  <2>2. CASE m = x
    BY <1>1, <2>2
  <2>3. QED
    BY <1>1, <2>1, <2>2 DEF Follows
<1>3. QED
  BY <1>1, <1>2 DEF Honest

\* The processes of a client, with MaxReboots = 0.
LEMMA ClientResults ==
    ASSUME MaxReboots = 0, TypeInv, ResultsAgree, Next, NEW c \in Clients,
           Rpc_Call(c) \/ ClientProcess(c) \/ Rpc_Timeout(c) \/ Reboot(c)
    PROVE  ResultsAgree'
<1>0. ClientTypes /\ \A b \in Clients : ClientHonest(b)
  BY DEF TypeInv, ResultsAgree
<1>1. UNCHANGED <<reply, spc, doing, execs, toClient>>
  BY DEF svars, pvars, Rpc_Call, ClientProcess, AwaitInput, DoInput, DoTimeout, RpcChanFree, Rpc_Timeout, Reboot
<1>2. ~Reboot(c)
  BY <1>0 DEF Reboot, ClientTypes
<1>3. input' = input
  BY <1>2 DEF Rpc_Call, ClientProcess, AwaitInput, DoInput, DoTimeout, RpcChanFree, Rpc_Timeout
<1>4. ASSUME NEW b \in Clients PROVE ClientHonest(b)'
  <2>1. input[b].type = "REPLY" => Honest(b, input[b].id, input[b].of)'
    BY <1>0, <1>1, <1>3 DEF ClientHonest, Honest
  <2>2. CASE b # c
    <3>1. cstate'[b] = cstate[b] /\ cpc'[b] = cpc[b] /\ error'[b] = error[b] /\ request'[b] = request[b]
      BY <1>0, <1>2, <2>2
      DEF ClientTypes, Rpc_Call, ClientProcess, AwaitInput, DoInput, DoTimeout, Return, RpcChanFree, Rpc_Timeout
    <3>2. QED
      BY <1>0, <1>3, <2>1, <3>1 DEF ClientHonest
  <2>3. CASE b = c
    <3>1. CASE Rpc_Call(c)
      BY <1>0, <1>3, <2>1, <2>3, <3>1 DEF Rpc_Call, ClientTypes, ClientHonest
    <3>2. CASE AwaitInput(c)
      BY <1>0, <1>3, <2>1, <2>3, <3>2 DEF AwaitInput, ClientTypes, ClientHonest
    <3>3. CASE DoInput(c)
      BY <1>0, <1>3, <2>1, <2>3, <3>3 DEF DoInput, Return, ClientTypes, ClientHonest
    <3>4. CASE DoTimeout(c)
      <4>1. request[c] \in Requests
        BY <1>0 DEF ClientTypes
      <4>2. request'[c].id = request[c].id
        BY <1>0, <3>4, <4>1, PlsAckFacts DEF DoTimeout, ClientTypes
      <4>3. QED
        BY <1>0, <1>3, <2>1, <2>3, <3>4, <4>2 DEF DoTimeout, Return, ClientTypes, ClientHonest
    <3>5. CASE RpcChanFree(c)
      BY <1>0, <1>3, <2>1, <2>3, <3>5 DEF RpcChanFree, ClientTypes, ClientHonest
    <3>6. CASE Rpc_Timeout(c)
      BY <1>0, <1>3, <2>1, <2>3, <3>6 DEF Rpc_Timeout, ClientTypes, ClientHonest
    <3>7. QED
      BY <1>2, <3>1, <3>2, <3>3, <3>4, <3>5, <3>6 DEF ClientProcess
  <2>4. QED
    BY <2>2, <2>3
<1>5. RepliesHonest' /\ \A s \in ServerIDs : ServerHonest(s)'
  BY <1>1 DEF ResultsAgree, RepliesHonest, ServerHonest, Honest
<1>6. QED
  BY <1>4, <1>5 DEF ResultsAgree

LEMMA ClientArrivalResults ==
    ASSUME Orderly, TypeInv, ResultsAgree, Next, ClientArrival
    PROVE  ResultsAgree'
<1>0. ClientTypes /\ \A c \in Clients : ClientHonest(c) /\ ClientOK(c)
  BY DEF TypeInv, ResultsAgree, ClientTypes
<1>1. PICK n \in Arriving(toClient) :
        /\ toClient' = RemoveAt(toClient, n)
        /\ RpcClientDispatch(toClient[n])
        /\ UNCHANGED <<reply, spc, doing, execs, cpc, error, request>>
  BY DEF ClientArrival, svars, pvars
<1>2. n \in 1 .. Len(toClient) /\ Follows(toClient, toClient', 1, Nothing)
  BY <1>1, NetFollows DEF Orderly, Arriving
<1>3. RepliesHonest'
  BY <1>2, RepliesKept, NothingFacts DEF ResultsAgree
<1>4. \A s \in ServerIDs : ServerHonest(s)'
  BY <1>1 DEF ResultsAgree, ServerHonest, Honest
<1>5. PICK m \in Packets : m = toClient[n]
  BY <1>2, PacketFacts
<1>6. m.clt \in Clients /\ (m.type = "REPLY" => Honest(m.clt, m.id, m.of))
  BY <1>2, <1>5, PacketFacts DEF ResultsAgree, RepliesHonest
<1>7. ASSUME NEW c \in Clients PROVE ClientHonest(c)'
  <2>1. CASE cstate'[c] = cstate[c] /\ input'[c] = input[c]
    BY <1>0, <1>1, <2>1 DEF ClientHonest, Honest
  <2>2. CASE m.clt = c /\ m.id = request[c].id /\ "WAITING" \in cstate[c] /\ AcceptInput(m)
    <3>1. input'[c].type = m.type /\ input'[c].id = m.id /\ input'[c].of = m.of
      BY <1>0, <2>2 DEF AcceptInput, ClientTypes
    <3>2. cpc[c] # "done"
      BY <1>0, <2>2 DEF ClientOK, Pending
    <3>3. m.type = "REPLY" => Honest(m.clt, m.id, m.of)'
      BY <1>1, <1>6 DEF Honest
    <3>4. QED
      BY <1>1, <2>2, <3>1, <3>2, <3>3 DEF ClientHonest, Honest
  <2>3. QED
    BY <1>0, <1>1, <1>5, <1>6, <2>1, <2>2
    DEF RpcClientDispatch, RpcChanClose, ClientInput, AcceptInput, ClientTypes
<1>8. QED
  BY <1>3, <1>4, <1>7 DEF ResultsAgree

\* The servers.
LEMMA ServerResults ==
    ASSUME Orderly, MaxReboots = 0, ProbeInv, ResultsAgree, Next,
           \/ ServerArrival
           \/ \E s \in ServerIDs : ServerProcess(s) \/ \E maxed \in BOOLEAN : Reclaim(s, maxed)
    PROVE  ResultsAgree'
<1>0. /\ TypeInv /\ ServerTypes /\ RepliesHonest
      /\ \A s \in ServerIDs : ServerHonest(s) /\ StageOK(s) /\ ServerOK(s) /\ reply[s] \in Replies
  BY DEF ProbeInv, TypeInv, ResultsAgree, StagesAgree, ServerTypes
<1>1. UNCHANGED cvars
  BY DEF ServerArrival, ServerProcess, RpcServerInstall, ServerReady, ServerRun, Rpc_Reply, Reclaim
<1>2. ASSUME NEW c \in Clients PROVE ClientHonest(c)'
  <2>1. ClientHonest(c)
    BY DEF ResultsAgree
  <2>2. input[c].type = "REPLY" => Honest(c, input[c].id, input[c].of)'
    <3>1. PICK i, of : i = input[c].id /\ of = input[c].of
      OBVIOUS
    <3>2. input[c].type = "REPLY" => Honest(c, i, of)'
      BY <1>0, <2>1, <3>1, HonestKept DEF ClientHonest
    <3>3. QED
      BY <1>1, <3>1, <3>2 DEF Honest, cvars
  <2>3. QED
    BY <1>1, <2>1, <2>2 DEF ClientHonest, cvars
<1>3. ASSUME NEW t \in ServerIDs, reply'[t] = reply[t] \/ reply'[t].id = 0,
             spc'[t] = "exec" => spc[t] = "exec" /\ doing'[t] = doing[t]
      PROVE  ServerHonest(t)'
  <2>1. Honest(reply[t].clt, reply[t].id, reply[t].of)'
    <3>1. CASE reply'[t].id = 0
      BY <3>1 DEF Honest
    <3>2. CASE reply'[t] = reply[t]
      <4>1. PICK r : r = reply[t]
        OBVIOUS
      <4>2. Honest(r.clt, r.id, r.of)'
        BY <1>0, <4>1, HonestKept DEF ServerHonest
      <4>3. QED
        BY <3>2, <4>1, <4>2 DEF Honest
    <3>3. QED
      BY <1>3, <3>1, <3>2
  <2>2. spc'[t] = "exec" => execs'[doing'[t]] # 0
    <3>1. spc[t] = "exec" => doing[t] \in Calls
      BY <1>0 DEF StageOK, ServerOK
    <3>2. QED
      BY <1>0, <1>3, <3>1, ExecsGrow DEF ServerHonest
  <2>3. QED
    BY <2>1, <2>2 DEF ServerHonest
<1>4. CASE ServerArrival
  <2>1. PICK n \in Arriving(toServer) :
          /\ \/ NoServer(toServer[n])
             \/ \E s \in ServerIDs : RpcServerDispatch(s, toServer[n])
          /\ UNCHANGED pvars
    BY <1>4 DEF ServerArrival
  <2>2. PICK m \in ToServer : m = toServer[n]
    BY <1>0, PacketFacts DEF Arriving
  <2>3. \A t \in ServerIDs : reply'[t] = reply[t] \/ reply'[t].id = 0
    <3>1. ASSUME NEW s \in ServerIDs, reply' = [reply EXCEPT ![s].id = 0]
          PROVE  \A t \in ServerIDs : reply'[t] = reply[t] \/ reply'[t].id = 0
      <4>1. [reply[s] EXCEPT !.id = 0].id = 0
        BY <1>0 DEF Replies
      <4>2. QED
        BY <1>0, <3>1, <4>1 DEF ServerTypes
    <3>2. QED
      BY <2>1, <3>1 DEF NoServer, svars, RpcServerDispatch, NewRequest, Abandoned, CloseAcked, Resent
  <2>4. \A t \in ServerIDs : ServerHonest(t)'
    BY <1>3, <2>1, <2>3 DEF pvars
  <2>5. RepliesHonest'
    <3>1. CASE NoServer(m)
      <4>1. Ack(0, "NACK", Hdr(m)) \in Packets /\ Ack(0, "NACK", Hdr(m)).type = "NACK" /\ Nothing.type = "NONE"
        BY CallFacts, ServerPackets DEF Ack, Nothing
      <4>2. PICK x : Follows(toClient, toClient', 0, x) /\ x.type # "REPLY"
        BY <1>0, <3>1, <4>1, NetFollows DEF NoServer
      <4>3. QED
        BY <1>0, <4>2, RepliesKept
    <3>2. ASSUME NEW s \in ServerIDs, RpcServerDispatch(s, m) PROVE RepliesHonest'
      <4>1. PICK x : /\ Follows(toClient, toClient', 0, x)
                     /\ x.type = "REPLY" => x = ReplyPacket(s, reply[s])
        BY <1>0, <3>2, DispatchSends
      <4>2. x.type = "REPLY" => Honest(x.clt, x.id, x.of)
        BY <1>0, <4>1 DEF ReplyPacket, ServerHonest
      <4>3. x.type = "REPLY" => Honest(x.clt, x.id, x.of)'
        BY <1>0, <4>2, HonestKept
      <4>4. QED
        BY <1>0, <4>1, <4>3, RepliesKept
    <3>3. QED
      BY <2>1, <2>2, <3>1, <3>2
  <2>6. QED
    BY <1>2, <2>4, <2>5 DEF ResultsAgree
<1>5. ASSUME NEW s \in ServerIDs, NEW maxed \in BOOLEAN, Reclaim(s, maxed) PROVE ResultsAgree'
  <2>1. UNCHANGED <<reply, spc, doing>>
    BY <1>5 DEF Reclaim, pvars
  <2>2. PICK x : Follows(toClient, toClient', 0, x) /\ x.type # "REPLY"
    <3>1. CASE toClient' = toClient
      BY <1>0, <3>1, NetFollows, NothingFacts
    <3>2. CASE toClient' = Probed(s) /\ Idle(s)
      <4>1. requestHdr[s].call \in Calls /\ requestHdr[s].cmd \in Commands /\ requestHdr[s] \in Headers
        BY <1>0, <3>2, CallFacts DEF Idle, ServerTypes, ServerOK
      <4>2. Ack(s, "CLOSE", requestHdr[s]) \in Packets /\ Ack(s, "CLOSE", requestHdr[s]).type = "CLOSE"
        BY <4>1, ServerPackets DEF Ack
      <4>3. QED
        BY <1>0, <3>2, <4>2, NetFollows DEF Probed
    <3>3. QED
      BY <1>5, <3>1, <3>2 DEF Reclaim, StartAging, GrowOlder, Tidy
  <2>3. RepliesHonest'
    BY <1>0, <2>2, RepliesKept
  <2>4. QED
    BY <1>2, <1>3, <2>1, <2>3 DEF ResultsAgree
<1>6. ASSUME NEW s \in ServerIDs, RpcServerInstall(s) \/ ServerReady(s) PROVE ResultsAgree'
  <2>1. UNCHANGED <<reply, doing, toClient>> /\ \A t \in ServerIDs : spc'[t] = "exec" => spc[t] = "exec"
    BY <1>0, <1>6 DEF RpcServerInstall, ServerReady, ServerTypes
  <2>2. RepliesHonest'
    BY <1>0, <2>1, NetFollows, RepliesKept, NothingFacts
  <2>3. QED
    BY <1>2, <1>3, <2>1, <2>2 DEF ResultsAgree
<1>7. ASSUME NEW s \in ServerIDs, ServerRun(s) PROVE ResultsAgree'
  <2>1. UNCHANGED <<reply, toClient>>
    BY <1>7 DEF ServerRun
  <2>2. RepliesHonest'
    BY <1>0, <2>1, NetFollows, RepliesKept, NothingFacts
  <2>3. ASSUME NEW t \in ServerIDs PROVE ServerHonest(t)'
    <3>1. CASE t # s
      BY <1>0, <1>3, <1>7, <2>1, <3>1 DEF ServerRun, ServerTypes
    <3>2. CASE t = s
      <4>1. requestHdr[s].call \in Calls
        BY <1>0, <1>7 DEF ServerRun, ServerOK
      <4>2. execs'[doing'[s]] # 0
        BY <1>0, <1>7, <4>1 DEF ServerRun, ServerTypes
      <4>3. PICK r : r = reply[t]
        OBVIOUS
      <4>4. Honest(r.clt, r.id, r.of)'
        BY <1>0, <4>3, HonestKept DEF ServerHonest
      <4>5. QED
        BY <2>1, <3>2, <4>2, <4>3, <4>4 DEF ServerHonest, Honest
    <3>3. QED
      BY <3>1, <3>2
  <2>4. QED
    BY <1>2, <2>2, <2>3 DEF ResultsAgree
<1>8. ASSUME NEW s \in ServerIDs, NEW err \in BOOLEAN, Rpc_Reply(s, err) PROVE ResultsAgree'
  <2>1. PICK r : r = [clt |-> requestHdr[s].call.clt, id |-> requestHdr[s].call.id,
                      cmd |-> requestHdr[s].cmd, err |-> err, of |-> doing[s]]
    OBVIOUS
  <2>2. /\ requestHdr[s].call \in Calls /\ requestHdr[s].cmd \in Commands
        /\ doing[s] = requestHdr[s].call /\ execs[doing[s]] # 0
    BY <1>0, <1>8 DEF Rpc_Reply, ServerOK, StageOK, ServerHonest
  <2>3. requestHdr[s].call.boot = 0
    BY <2>2, CallFacts
  <2>4. /\ r \in Replies /\ r.clt \in Clients /\ r.cmd \in Commands
        /\ r.clt = doing[s].clt /\ r.id = doing[s].id /\ r.of = doing[s]
    BY <2>1, <2>2, CallFacts DEF Replies
  <2>5. Honest(r.clt, r.id, r.of)
    BY <2>2, <2>3, <2>4, CallFacts DEF Honest
  <2>6. Honest(r.clt, r.id, r.of)'
    BY <1>0, <2>5, HonestKept
  <2>7. reply' = [reply EXCEPT ![s] = r] /\ toClient' = Sent(toClient, ReplyPacket(s, r))
        /\ spc' = [spc EXCEPT ![s] = "top"] /\ UNCHANGED doing
    BY <1>8, <2>1 DEF Rpc_Reply
  <2>8. PICK x \in Packets : x = ReplyPacket(s, r)
    BY <2>4, ServerPackets, RpcAssumption
  <2>9. Honest(x.clt, x.id, x.of)'
    BY <2>6, <2>8 DEF ReplyPacket
  <2>10. RepliesHonest'
    BY <1>0, <2>7, <2>8, <2>9, NetFollows, RepliesKept
  <2>11. ASSUME NEW t \in ServerIDs PROVE ServerHonest(t)'
    <3>1. CASE t # s
      BY <1>0, <1>3, <2>7, <3>1 DEF ServerTypes
    <3>2. CASE t = s
      BY <1>0, <2>6, <2>7, <3>2 DEF ServerTypes, ServerHonest, Honest
    <3>3. QED
      BY <3>1, <3>2
  <2>12. QED
    BY <1>2, <2>10, <2>11 DEF ResultsAgree
<1>9. QED
  BY <1>4, <1>5, <1>6, <1>7, <1>8 DEF ServerProcess

LEMMA NextResults ==
    ASSUME Orderly, MaxReboots = 0, ProbeInv, ResultsAgree, [Next]_vars
    PROVE  ResultsAgree'
<1>0. TypeInv
  BY DEF ProbeInv
<1>1. CASE UNCHANGED vars
  BY <1>1 DEF vars, cvars, svars, pvars, ResultsAgree, ServerHonest, RepliesHonest, ClientHonest, Honest
<1>2. CASE LosePacket
  <2>1. UNCHANGED <<cvars, svars, pvars>>
    BY <1>2 DEF LosePacket
  <2>2. \E d \in 0 .. 1 : Follows(toClient, toClient', d, Nothing)
    BY <1>0, <1>2, NetFollows DEF LosePacket, Orderly
  <2>3. RepliesHonest'
    BY <1>0, <2>2, RepliesKept, NothingFacts DEF ResultsAgree
  <2>4. QED
    BY <2>1, <2>3 DEF cvars, svars, pvars, ResultsAgree, ServerHonest, ClientHonest, Honest
<1>3. QED
  BY <1>0, <1>1, <1>2, ClientResults, ClientArrivalResults, ServerResults DEF Next

LEMMA ResultsInvariant == ASSUME Orderly, MaxReboots = 0 PROVE Spec => []ResultsAgree
<1>1. Init => ResultsAgree
  BY RpcAssumption DEF Init, ResultsAgree, ServerHonest, RepliesHonest, ClientHonest, Honest
<1>2. ProbeInv /\ ResultsAgree /\ [Next]_vars => ResultsAgree'
  BY NextResults
<1>3. QED
  BY <1>1, <1>2, ProbeInvariant, PTL DEF Spec

\* A call that succeeds was given the result of its own execution, whichever clients
\* and servers there are, as long as no client reboots: a client that does begins again
\* with the same transaction IDs.
THEOREM RpcReplyIsForRequest == ASSUME Orderly, MaxReboots = 0 PROVE Spec => []ReplyIsForRequest
<1>1. ProbeInv /\ ResultsAgree => ReplyIsForRequest
  <2> SUFFICES ASSUME ProbeInv, ResultsAgree, NEW c \in Clients, cpc[c] = "done", error[c] = "SUCCESS"
               PROVE  input[c].of = CurrentCall(c)
    BY DEF ReplyIsForRequest
  <2>1. ClientHonest(c) /\ ClientOK(c) /\ bootID[c] = 0
    BY DEF ResultsAgree, ProbeInv, TypeInv, ClientTypes
  <2>2. QED
    BY <2>1 DEF ClientHonest, ClientOK, Honest, CurrentCall
<1>2. QED
  BY <1>1, ProbeInvariant, ResultsInvariant, PTL
-----------------------------------------------------------------------------
(***************************************************************************)
(* Calls run at most once.                                                 *)
(***************************************************************************)

\* One client and one server: the channel of a workstation to its file server.
Pair == NumServers = 1 /\ \E c \in Clients : Clients = {c}

\* No server was given up as stuck, or taken from a client that did not answer probes.
Calm == \A s \in ServerIDs : "STUCK" \notin state[s] /\ age[s] < MaxServerAge

\* The request of call k is under way, or may still be sent.
Underway(k) == \E n \in 1 .. Len(toServer) : toServer[n].type = "REQUEST" /\ toServer[n].call = k
Sendable(k) == (Pending(k.clt) /\ k = CurrentCall(k.clt)) \/ Underway(k)

\* A server has seen call k; the server of the client still has it.
Seen(k) == execs[k] # 0 \/ \E s \in ServerIDs : requestHdr[s].call = k
Remembered(k) == \E s \in ServerIDs : clientID[s] = k.clt /\ requestHdr[s].call = k

\* Requests come from the current boot of their client, and in the order of their IDs.
RequestsInOrder ==
    \A n \in 1 .. Len(toServer) :
        /\ toServer[n].call.boot = bootID[toServer[n].call.clt]
        /\ toServer[n].type = "REQUEST" =>
              /\ toServer[n].call.id <= request[toServer[n].call.clt].id
              /\ \A i \in 1 .. n - 1 :
                    toServer[i].type = "REQUEST" /\ toServer[i].call.clt = toServer[n].call.clt
                        => toServer[i].call.id <= toServer[n].call.id

\* A call of the current boot that was seen is not later than any request under way.
SeenAt(k) ==
    /\ k.boot <= bootID[k.clt]
    /\ k.boot = bootID[k.clt] =>
          /\ k.id <= request[k.clt].id
          /\ \A n \in 1 .. Len(toServer) :
                toServer[n].type = "REQUEST" /\ toServer[n].call.clt = k.clt => k.id <= toServer[n].call.id
SeenInOrder == \A k \in Calls : Seen(k) => SeenAt(k)

OneEach == \A s, t \in ServerIDs : clientID[s] = clientID[t] /\ clientID[s] # NoClient => s = t
SeenRemembered == \A k \in Calls : Sendable(k) /\ Seen(k) => Remembered(k)

\* The request of a server that was freed, or will be, is not sent again.
FreedUnsendable == \A s \in ServerIDs : "FREE" \in state[s] /\ ID[s] # 0 => ~Sendable(requestHdr[s].call)
AckedUnsendable ==
    \A n \in 1 .. Len(toServer) :
        toServer[n].type = "CLOSE_ACK" => ~Sendable(requestHdr[toServer[n].hint].call)

\* A request that waits for its process was not executed, nor was a later one.
Later(j, k) == j.clt = k.clt /\ (j.boot > k.boot \/ (j.boot = k.boot /\ j.id > k.id))
ToRunAt(s) ==
    spc[s] = "wait" /\ "BUSY" \in state[s] =>
        execs[requestHdr[s].call] = 0 /\ \A j \in Calls : Later(j, requestHdr[s].call) => ~Seen(j)
ToRun == \A s \in ServerIDs : ToRunAt(s)

OnceInv ==
    /\ RequestsInOrder /\ SeenInOrder
    /\ OneEach /\ SeenRemembered
    /\ Pair \/ (FreedUnsendable /\ AckedUnsendable)
    /\ ToRun /\ AtMostOnce
LEMMA IdFacts ==
    ASSUME TypeInv
    PROVE  /\ \A c \in Clients : /\ request[c].id \in Nat /\ rpcID[c] \in Nat /\ bootID[c] \in Nat
                                 /\ request[c].id < rpcID[c]
           /\ \A k \in Calls : k.id \in Nat /\ k.boot \in Nat /\ k.clt \in Clients /\ k.id # 0
           /\ \A s \in ServerIDs : ID[s] # 0 => requestHdr[s].call \in Calls
           /\ \A s \in ServerIDs : requestHdr[s].call \in Calls => ID[s] # 0 /\ requestHdr[s].call.id = ID[s]
<1>1. ClientTypes /\ ServerTypes
  BY DEF TypeInv
<1>2. \A k \in Calls : k.id \in Nat /\ k.boot \in Nat /\ k.clt \in Clients /\ k.id # 0
  BY CallFacts, RpcAssumption DEF IDs
<1>3. \A c \in Clients : request[c] \in Requests /\ ClientOK(c) /\ rpcID[c] \in Nat /\ bootID[c] \in Nat
  BY <1>1, RpcAssumption DEF ClientTypes
<1>4. \A c \in Clients : request[c].id \in Nat
  BY <1>3, RpcAssumption DEF Requests, IDs
<1>5. QED
  BY <1>1, <1>2, <1>3, <1>4 DEF ClientOK, ServerTypes, ServerOK

LEMMA NextFacts ==
    ASSUME TypeInv'
    PROVE  /\ Len(toServer') \in Nat
           /\ \A n \in 1 .. Len(toServer') : toServer'[n] \in ToServer
           /\ \A c \in Clients : request'[c].id \in Nat
<1>1. toServer' \in Seq(ToServer) /\ request' \in [Clients -> Requests]
  BY DEF TypeInv, NetTypes, ClientTypes
<1>2. \A r \in Requests : r.id \in Nat
  BY RpcAssumption DEF Requests, IDs
<1>3. QED
  BY <1>1, <1>2, ElementOfSeq

LEMMA UnderwayKept ==
    ASSUME NEW d \in 0 .. 1, NEW y, NEW k, Follows(toServer, toServer', d, y), Underway(k)'
    PROVE  Underway(k) \/ (y.type = "REQUEST" /\ y.call = k)
BY DEF Follows, Underway

\* A new request has the ID of the current call, or that of the next.
LEMMA OrderKept ==
    ASSUME TypeInv, TypeInv', NEW d \in 0 .. 1, NEW y, Follows(toServer, toServer', d, y), bootID' = bootID,
           \A c \in Clients : request'[c].id >= request[c].id,
           y \in ToServer => y.call.boot = bootID[y.call.clt],
           y \in ToServer /\ y.type = "REQUEST" => y.call.id = request'[y.call.clt].id,
           RequestsInOrder
    PROVE  /\ RequestsInOrder'
           /\ \A k \in Calls : SeenAt(k) => SeenAt(k)'
<1>1. /\ Len(toServer) \in Nat /\ Len(toServer') \in Nat
      /\ \A n \in 1 .. Len(toServer) : toServer[n] \in ToServer
      /\ \A n \in 1 .. Len(toServer') : toServer'[n] \in ToServer
      /\ \A m \in ToServer : m.call \in Calls /\ m.call.clt \in Clients /\ m.call.id \in Nat
  BY PacketFacts, NextFacts, IdFacts
<1>2. \A c \in Clients : request[c].id \in Nat /\ request'[c].id \in Nat
  BY IdFacts, NextFacts
<1>3. \A n \in 1 .. Len(toServer') :
         \/ n + d \in 1 .. Len(toServer) /\ toServer'[n] = toServer[n + d]
         \/ n + d = Len(toServer) + 1 /\ toServer'[n] = y /\ y \in ToServer
  BY <1>1 DEF Follows
<1>4. RequestsInOrder'
  <2> SUFFICES ASSUME NEW n \in 1 .. Len(toServer')
               PROVE  /\ toServer'[n].call.boot = bootID'[toServer'[n].call.clt]
                      /\ toServer'[n].type = "REQUEST" =>
                            /\ toServer'[n].call.id <= request'[toServer'[n].call.clt].id
                            /\ \A i \in 1 .. n - 1 :
                                  toServer'[i].type = "REQUEST" /\ toServer'[i].call.clt = toServer'[n].call.clt
                                      => toServer'[i].call.id <= toServer'[n].call.id
    BY DEF RequestsInOrder
  <2>1. \A i \in 1 .. n - 1 : i + d \in 1 .. Len(toServer) /\ i + d < n + d /\ toServer'[i] = toServer[i + d]
    BY <1>1, <1>3
  <2>2. CASE n + d \in 1 .. Len(toServer) /\ toServer'[n] = toServer[n + d]
    <3>1. PICK m \in ToServer : m = toServer[n + d]
      BY <1>1, <2>2
    <3>2. m.call.boot = bootID[m.call.clt] /\ (m.type = "REQUEST" => m.call.id <= request[m.call.clt].id)
      BY <2>2, <3>1 DEF RequestsInOrder
    <3>3. m.type = "REQUEST" => m.call.id <= request'[m.call.clt].id
      BY <1>1, <1>2, <3>2
    <3>4. ASSUME m.type = "REQUEST", NEW i \in 1 .. n - 1, toServer'[i].type = "REQUEST",
                 toServer'[i].call.clt = m.call.clt
          PROVE  toServer'[i].call.id <= m.call.id
      <4>1. i + d \in 1 .. (n + d) - 1
        BY <1>1, <2>1, <2>2
      <4>2. QED
        BY <2>1, <2>2, <3>1, <3>4, <4>1 DEF RequestsInOrder
    <3>5. QED
      BY <2>2, <3>1, <3>2, <3>3, <3>4
  <2>3. CASE n + d = Len(toServer) + 1 /\ toServer'[n] = y /\ y \in ToServer
    <3>1. ASSUME y.type = "REQUEST", NEW i \in 1 .. n - 1, toServer'[i].type = "REQUEST",
                 toServer'[i].call.clt = y.call.clt
          PROVE  toServer'[i].call.id <= y.call.id
      <4>1. PICK m \in ToServer : m = toServer[i + d]
        BY <1>1, <2>1
      <4>2. m.call.id <= request[m.call.clt].id
        BY <2>1, <3>1, <4>1 DEF RequestsInOrder
      <4>3. toServer'[i] = m /\ m.call.clt = y.call.clt /\ y.call.clt \in Clients /\ m.call.id \in Nat
        BY <1>1, <2>1, <2>3, <3>1, <4>1
      <4>4. y.call.id = request'[y.call.clt].id /\ request'[y.call.clt].id >= request[y.call.clt].id
        BY <2>3, <3>1, <4>3
      <4>5. QED
        BY <1>2, <4>2, <4>3, <4>4
    <3>2. QED
      BY <1>1, <1>2, <2>3, <3>1
  <2>4. QED
    BY <1>3, <2>2, <2>3
<1>5. ASSUME NEW k \in Calls, SeenAt(k) PROVE SeenAt(k)'
  <2>1. k.clt \in Clients /\ k.id \in Nat
    BY IdFacts
  <2>2. k.boot = bootID[k.clt] => k.id <= request'[k.clt].id
    BY <1>2, <1>5, <2>1 DEF SeenAt
  <2>3. ASSUME k.boot = bootID[k.clt], NEW n \in 1 .. Len(toServer'), toServer'[n].type = "REQUEST",
               toServer'[n].call.clt = k.clt
        PROVE  k.id <= toServer'[n].call.id
    BY <1>2, <1>3, <1>5, <2>1, <2>2, <2>3 DEF SeenAt
  <2>4. QED
    BY <1>5, <2>2, <2>3 DEF SeenAt
<1>6. QED
  BY <1>4, <1>5

\* A step that leaves the servers alone and makes no call sendable that was seen.
LEMMA ClientOnce ==
    ASSUME ProbeInv, TypeInv', OnceInv, UNCHANGED <<state, ID, clientID, requestHdr, spc, execs, bootID>>,
           NEW d \in 0 .. 1, NEW y, Follows(toServer, toServer', d, y),
           \A c \in Clients : request'[c].id >= request[c].id,
           y \in ToServer => y.call.boot = bootID[y.call.clt],
           y \in ToServer /\ y.type = "REQUEST" => y.call.id = request'[y.call.clt].id,
           \A k \in Calls : Sendable(k)' => Sendable(k) \/ ~Seen(k),
           y.type = "CLOSE_ACK" => /\ requestHdr[y.hint].call \in Calls
                                   /\ \A k \in Calls : k = requestHdr[y.hint].call => ~Sendable(k)'
    PROVE  OnceInv'
<1>0. TypeInv
  BY DEF ProbeInv
<1>1. \A k : (Seen(k) <=> Seen(k)') /\ (Remembered(k) <=> Remembered(k)')
  BY DEF Seen, Remembered
<1>2. RequestsInOrder' /\ \A k \in Calls : SeenAt(k) => SeenAt(k)'
  BY <1>0, OrderKept DEF OnceInv
<1>3. SeenInOrder'
  BY <1>1, <1>2 DEF OnceInv, SeenInOrder
<1>4. OneEach' /\ ToRun' /\ AtMostOnce'
  BY <1>1 DEF OnceInv, OneEach, ToRun, ToRunAt, AtMostOnce
<1>5. SeenRemembered'
  BY <1>1 DEF OnceInv, SeenRemembered
<1>6. ASSUME FreedUnsendable PROVE FreedUnsendable'
  <2> SUFFICES ASSUME NEW s \in ServerIDs, "FREE" \in state[s], ID[s] # 0
               PROVE  ~Sendable(requestHdr[s].call)'
    BY DEF FreedUnsendable
  <2>1. PICK k \in Calls : k = requestHdr[s].call
    BY <1>0, IdFacts
  <2>2. Seen(k) /\ ~Sendable(k)
    BY <1>6, <2>1 DEF Seen, FreedUnsendable
  <2>3. ~Sendable(k)'
    BY <2>2
  <2>4. QED
    BY <2>1, <2>3 DEF Sendable, Pending, CurrentCall, Underway
<1>7. ASSUME AckedUnsendable PROVE AckedUnsendable'
  <2> SUFFICES ASSUME NEW n \in 1 .. Len(toServer'), toServer'[n].type = "CLOSE_ACK"
               PROVE  ~Sendable(requestHdr[toServer[n].hint].call)'
    BY DEF AckedUnsendable
  <2>1. PICK m \in ToServer : m = toServer'[n]
    BY NextFacts
  <2>2. AnswersAgree
    BY DEF ProbeInv
  <2>3. CASE n + d \in 1 .. Len(toServer) /\ m = toServer[n + d]
    <3>1. ID[m.hint] # 0 /\ m.hint \in ServerIDs
      BY <1>0, <2>1, <2>2, <2>3, PacketFacts DEF AnswersAgree, Expected, StillIdle
    <3>2. PICK k \in Calls : k = requestHdr[m.hint].call
      BY <1>0, <3>1, IdFacts
    <3>3. Seen(k) /\ ~Sendable(k)
      BY <1>7, <2>1, <2>3, <3>1, <3>2 DEF Seen, AckedUnsendable
    <3>4. ~Sendable(k)'
      BY <3>3
    <3>5. QED
      BY <2>1, <3>2, <3>4 DEF Sendable, Pending, CurrentCall, Underway
  <2>4. CASE n + d = Len(toServer) + 1 /\ m = y
    <3>1. PICK k \in Calls : k = requestHdr[m.hint].call
      BY <2>1, <2>4
    <3>2. ~Sendable(k)'
      BY <2>1, <2>4, <3>1
    <3>3. QED
      BY <2>1, <3>1, <3>2 DEF Sendable, Pending, CurrentCall, Underway
  <2>5. QED
    BY <2>1, <2>3, <2>4 DEF Follows
<1>8. Pair \/ (FreedUnsendable' /\ AckedUnsendable')
  BY <1>6, <1>7 DEF OnceInv
<1>9. QED
  BY <1>2, <1>3, <1>4, <1>5, <1>8 DEF OnceInv, Pair
LEMMA SendFacts ==
    ASSUME TypeInv, NEW c \in Clients, NEW hdr \in Requests, hdr.id # 0, hdr.cmd \in Commands, SendRequest(c, hdr)
    PROVE  \E y \in ToServer : /\ Follows(toServer, toServer', 0, y)
                               /\ y.type = "REQUEST" /\ y.call = Call(c, bootID[c], hdr.id)
                               /\ y.call.clt = c /\ y.call.boot = bootID[c] /\ y.call.id = hdr.id
<1> DEFINE y == [type |-> "REQUEST", call |-> Call(c, bootID[c], hdr.id), cmd |-> hdr.cmd,
                 hint |-> input[c].hint, plsAck |-> hdr.plsAck]
<1>1. y \in ToServer /\ y.type = "REQUEST" /\ y.call = Call(c, bootID[c], hdr.id)
  BY CallFacts DEF TypeInv, ToServer, ClientTypes, Requests, Inputs
<1>2. y.call.clt = c /\ y.call.boot = bootID[c] /\ y.call.id = hdr.id
  BY DEF Call
<1>3. toServer' = Sent(toServer, y)
  BY DEF SendRequest
<1> HIDE DEF y
<1>4. Follows(toServer, toServer', 0, y)
  BY <1>1, <1>3, NetFollows
<1>5. QED
  BY <1>1, <1>2, <1>4

\* A client makes no call sendable but a new one.
LEMMA ClientStepsOnce ==
    ASSUME ProbeInv, TypeInv', OnceInv, NEW c \in Clients, Rpc_Call(c) \/ ClientProcess(c) \/ Rpc_Timeout(c)
    PROVE  OnceInv'
<1>0. TypeInv /\ ClientTypes /\ ClientOK(c) /\ request[c] \in Requests
  BY DEF ProbeInv, TypeInv, ClientTypes
<1>1. UNCHANGED <<state, ID, clientID, requestHdr, spc, execs, bootID>>
  BY DEF svars, pvars, Rpc_Call, ClientProcess, AwaitInput, DoInput, DoTimeout, RpcChanFree, Rpc_Timeout
<1>2. \A b \in Clients : b # c => cpc'[b] = cpc[b] /\ request'[b] = request[b]
  BY <1>0
  DEF ClientTypes, Rpc_Call, ClientProcess, AwaitInput, DoInput, DoTimeout, Return, RpcChanFree, Rpc_Timeout
<1>3. CASE Rpc_Call(c)
  <2>1. PICK a \in Commands : /\ SendRequest(c, [id |-> rpcID[c], cmd |-> a, plsAck |-> FALSE])
                              /\ request'[c] = [id |-> rpcID[c], cmd |-> a, plsAck |-> FALSE]
    BY <1>0, <1>3 DEF Rpc_Call, ClientTypes
  <2>2. PICK hdr \in Requests : hdr = [id |-> rpcID[c], cmd |-> a, plsAck |-> FALSE]
    <3>1. [id |-> rpcID[c], cmd |-> a, plsAck |-> FALSE] \in Requests
      BY <1>0, <1>3, RpcAssumption DEF Rpc_Call, ClientTypes, IDs, Requests
    <3>2. QED
      BY <3>1
  <2>3. /\ hdr.id = rpcID[c] /\ hdr.id # 0 /\ hdr.cmd \in Commands /\ SendRequest(c, hdr)
        /\ request'[c].id = rpcID[c] /\ request[c].id < rpcID[c]
    <3>1. hdr.id = rpcID[c] /\ hdr.cmd = a /\ SendRequest(c, hdr) /\ request'[c] = hdr
      BY <2>1, <2>2
    <3>2. rpcID[c] # 0 /\ request[c].id < rpcID[c]
      BY <1>0, RpcAssumption DEF ClientTypes, ClientOK
    <3>3. QED
      BY <3>1, <3>2
  <2>4. PICK y \in ToServer : /\ Follows(toServer, toServer', 0, y)
                              /\ y.type = "REQUEST" /\ y.call = Call(c, bootID[c], rpcID[c])
                              /\ y.call.clt = c /\ y.call.boot = bootID[c] /\ y.call.id = rpcID[c]
    BY <1>0, <2>3, SendFacts
  <2>5. ~Seen(y.call)
    <3>1. y.call \in Calls /\ request[c].id \in Nat /\ rpcID[c] \in Nat
      BY <1>0, <2>4, PacketFacts, IdFacts
    <3>2. ~SeenAt(y.call)
      BY <2>3, <2>4, <3>1 DEF SeenAt
    <3>3. QED
      BY <3>1, <3>2 DEF OnceInv, SeenInOrder
  <2>6. \A k \in Calls : Sendable(k)' => Sendable(k) \/ ~Seen(k)
    <3> SUFFICES ASSUME NEW k \in Calls, Sendable(k)', k # y.call PROVE Sendable(k)
      BY <2>5
    <3>1. CASE Underway(k)'
      BY <2>4, <3>1, UnderwayKept DEF Sendable
    <3>2. CASE Pending(k.clt)' /\ k = CurrentCall(k.clt)'
      <4>1. k.clt \in Clients
        BY <1>0, IdFacts
      <4>2. k.clt # c
        BY <1>1, <2>3, <2>4, <3>2 DEF CurrentCall
      <4>3. QED
        BY <1>1, <1>2, <3>2, <4>1, <4>2 DEF Sendable, Pending, CurrentCall
    <3>3. QED
      BY <3>1, <3>2 DEF Sendable
  <2>7. \A b \in Clients : request'[b].id >= request[b].id
    BY <1>0, <1>2, <2>3, IdFacts
  <2>8. QED
    BY <1>1, <2>3, <2>4, <2>6, <2>7, ClientOnce
<1>4. ASSUME ~Rpc_Call(c) PROVE OnceInv'
  <2>1. request'[c].id = request[c].id /\ (Pending(c)' => Pending(c))
    <3>1. [request[c] EXCEPT !.plsAck = TRUE].id = request[c].id
      BY <1>0, PlsAckFacts
    <3>2. QED
      BY <1>0, <1>4, <3>1
      DEF ClientTypes, ClientProcess, AwaitInput, DoInput, DoTimeout, Return, RpcChanFree, Rpc_Timeout, Pending
  <2>2. PICK y : /\ Follows(toServer, toServer', 0, y) /\ y.type # "CLOSE_ACK"
                 /\ y \in ToServer => /\ y.call = CurrentCall(c) /\ Pending(c) /\ y.call.clt = c
                                      /\ y.call.boot = bootID[c] /\ y.call.id = request[c].id
                 /\ y.type = "REQUEST" => y \in ToServer
    <3>1. CASE toServer' = toServer
      <4>1. Nothing \notin ToServer /\ Nothing.type \notin {"REQUEST", "CLOSE_ACK"}
        BY NothingFacts, PacketFacts, <1>0
      <4>2. QED
        BY <1>0, <3>1, <4>1, NetFollows
    <3>2. CASE DoTimeout(c) /\ SendRequest(c, [request[c] EXCEPT !.plsAck = TRUE])
      <4>1. PICK hdr \in Requests : hdr = [request[c] EXCEPT !.plsAck = TRUE]
        BY <1>0, PlsAckFacts
      <4>2. /\ hdr.id = request[c].id /\ hdr.id # 0 /\ hdr.cmd \in Commands /\ Pending(c) /\ SendRequest(c, hdr)
        BY <1>0, <3>2, <4>1, PlsAckFacts DEF DoTimeout, ClientOK, Pending
      <4>3. QED
        BY <1>0, <4>2, SendFacts DEF CurrentCall
    <3>3. QED
      BY <1>4, <3>1, <3>2 DEF ClientProcess, AwaitInput, DoInput, DoTimeout, RpcChanFree, Rpc_Timeout
  <2>3. \A k \in Calls : Sendable(k)' => Sendable(k)
    <3> SUFFICES ASSUME NEW k \in Calls, Sendable(k)' PROVE Sendable(k)
      OBVIOUS
    <3>1. CASE Underway(k)'
      BY <2>2, <3>1, UnderwayKept DEF Sendable
    <3>2. CASE Pending(k.clt)' /\ k = CurrentCall(k.clt)'
      <4>1. k.clt \in Clients
        BY <1>0, IdFacts
      <4>2. CASE k.clt = c
        BY <1>1, <2>1, <3>2, <4>2 DEF Sendable, CurrentCall
      <4>3. CASE k.clt # c
        BY <1>1, <1>2, <3>2, <4>1, <4>3 DEF Sendable, Pending, CurrentCall
      <4>4. QED
        BY <4>2, <4>3
    <3>3. QED
      BY <3>1, <3>2 DEF Sendable
  <2>4. \A b \in Clients : request'[b].id >= request[b].id
    BY <1>0, <1>2, <2>1, IdFacts
  <2>5. QED
    BY <1>1, <2>1, <2>2, <2>3, <2>4, ClientOnce
<1>5. QED
  BY <1>3, <1>4

\* What is in the network dies with its client, and the IDs begin again with the boot.
LEMMA RebootOnce ==
    ASSUME Orderly, ProbeInv, OnceInv, NEW c \in Clients, Reboot(c)
    PROVE  OnceInv'
<1>0. TypeInv /\ ClientTypes
  BY DEF ProbeInv, TypeInv
<1>1. UNCHANGED <<state, ID, clientID, requestHdr, spc, execs, toServer>>
  BY DEF Reboot, svars, pvars
<1>2. \A n \in 1 .. Len(toServer) : toServer[n].call.clt # c /\ toServer[n].call.clt \in Clients
  BY <1>0, PacketFacts DEF Reboot, Orderly, TimerMayExpire
<1>3. /\ \A b \in Clients : b # c => cpc'[b] = cpc[b] /\ request'[b] = request[b] /\ bootID'[b] = bootID[b]
      /\ bootID'[c] = bootID[c] + 1 /\ cpc'[c] = "idle"
  BY <1>0 DEF Reboot, ClientTypes
<1>4. \A k : (Seen(k) <=> Seen(k)') /\ (Remembered(k) <=> Remembered(k)')
  BY <1>1 DEF Seen, Remembered
<1>5. RequestsInOrder'
  BY <1>1, <1>2, <1>3 DEF OnceInv, RequestsInOrder
<1>6. SeenInOrder'
  <2> SUFFICES ASSUME NEW k \in Calls, Seen(k) PROVE SeenAt(k)'
    BY <1>4 DEF SeenInOrder
  <2>1. SeenAt(k) /\ k.clt \in Clients /\ k.boot \in Nat /\ bootID[k.clt] \in Nat
    BY <1>0, IdFacts DEF OnceInv, SeenInOrder
  <2>2. CASE k.clt = c
    BY <1>3, <2>1, <2>2 DEF SeenAt
  <2>3. CASE k.clt # c
    BY <1>1, <1>3, <2>1, <2>3 DEF SeenAt
  <2>4. QED
    BY <2>2, <2>3
<1>7. OneEach' /\ ToRun' /\ AtMostOnce'
  BY <1>1, <1>4 DEF OnceInv, OneEach, ToRun, ToRunAt, AtMostOnce
<1>8. ASSUME NEW k, k.clt \in Clients, Sendable(k)' PROVE Sendable(k)
  <2>1. CASE Underway(k)'
    BY <1>1, <2>1 DEF Underway, Sendable
  <2>2. CASE Pending(k.clt)' /\ k = CurrentCall(k.clt)'
    BY <1>3, <1>8, <2>2 DEF Sendable, Pending, CurrentCall
  <2>3. QED
    BY <1>8, <2>1, <2>2 DEF Sendable
<1>9. SeenRemembered'
  BY <1>0, <1>4, <1>8, IdFacts DEF OnceInv, SeenRemembered
<1>10. ASSUME FreedUnsendable PROVE FreedUnsendable'
  <2> SUFFICES ASSUME NEW s \in ServerIDs, "FREE" \in state[s], ID[s] # 0
               PROVE  ~Sendable(requestHdr[s].call)'
    BY <1>1 DEF FreedUnsendable
  <2>1. PICK k \in Calls : k = requestHdr[s].call
    BY <1>0, IdFacts
  <2>2. ~Sendable(k)'
    BY <1>0, <1>8, <1>10, <2>1, IdFacts DEF FreedUnsendable
  <2>3. QED
    BY <1>1, <2>1, <2>2 DEF Sendable, Pending, CurrentCall, Underway
<1>11. ASSUME AckedUnsendable PROVE AckedUnsendable'
  <2> SUFFICES ASSUME NEW n \in 1 .. Len(toServer), toServer[n].type = "CLOSE_ACK"
               PROVE  ~Sendable(requestHdr[toServer[n].hint].call)'
    BY <1>1 DEF AckedUnsendable
  <2>1. ID[toServer[n].hint] # 0 /\ toServer[n].hint \in ServerIDs
    BY <1>0, PacketFacts DEF ProbeInv, AnswersAgree, Expected, StillIdle
  <2>2. PICK k \in Calls : k = requestHdr[toServer[n].hint].call
    BY <1>0, <2>1, IdFacts
  <2>3. ~Sendable(k)'
    BY <1>0, <1>8, <1>11, <2>2, IdFacts DEF AckedUnsendable
  <2>4. QED
    BY <1>1, <2>2, <2>3 DEF Sendable, Pending, CurrentCall, Underway
<1>12. QED
  BY <1>5, <1>6, <1>7, <1>9, <1>10, <1>11 DEF OnceInv, Pair
LEMMA LoseOnce == ASSUME Orderly, ProbeInv, TypeInv', OnceInv, LosePacket PROVE OnceInv'
<1>0. TypeInv
  BY DEF ProbeInv
<1>1. UNCHANGED <<state, ID, clientID, requestHdr, spc, execs, bootID, cpc, request>>
  BY DEF LosePacket, cvars, svars, pvars
<1>2. PICK d \in 0 .. 1 : Follows(toServer, toServer', d, Nothing)
  BY <1>0, NetFollows DEF LosePacket, Orderly
<1>3. Nothing \notin ToServer /\ Nothing.type \notin {"REQUEST", "CLOSE_ACK"}
  BY <1>0, NothingFacts, PacketFacts
<1>4. \A k \in Calls : Sendable(k)' => Sendable(k)
  BY <1>1, <1>2, <1>3, UnderwayKept DEF Sendable, Pending, CurrentCall
<1>5. \A b \in Clients : request'[b].id >= request[b].id
  BY <1>0, <1>1, IdFacts
<1>6. QED
  BY <1>1, <1>2, <1>3, <1>4, <1>5, ClientOnce

\* A client answers a probe only when it has no call that it could send again.
LEMMA ClientArrivalOnce == ASSUME Orderly, ProbeInv, TypeInv', OnceInv, ClientArrival PROVE OnceInv'
<1>0. TypeInv /\ ClientTypes /\ ServerTypes /\ ProbesAgree
  BY DEF ProbeInv, TypeInv
<1>1. PICK n \in Arriving(toClient) :
        /\ RpcClientDispatch(toClient[n])
        /\ UNCHANGED <<state, ID, clientID, requestHdr, spc, execs, bootID, cpc, request>>
  BY DEF ClientArrival, svars, pvars
<1>2. n \in 1 .. Len(toClient)
  BY DEF Arriving
<1>3. PICK m \in Packets : m = toClient[n]
  BY <1>0, <1>2, PacketFacts
<1>4. \A b \in Clients : request'[b].id >= request[b].id
  BY <1>0, <1>1, IdFacts
<1>5. CASE toServer' = toServer
  <2>1. Follows(toServer, toServer', 0, Nothing) /\ Nothing \notin ToServer
        /\ Nothing.type \notin {"REQUEST", "CLOSE_ACK"}
    BY <1>0, <1>5, NetFollows, NothingFacts, PacketFacts
  <2>2. \A k \in Calls : Sendable(k)' => Sendable(k)
    BY <1>1, <1>5 DEF Sendable, Pending, CurrentCall, Underway
  <2>3. QED
    BY <1>1, <1>4, <2>1, <2>2, ClientOnce
<1>6. CASE m.type = "CLOSE" /\ "BUSY" \notin cstate[m.clt] /\ toServer' = Sent(toServer, CloseAck(m))
  <2>1. m.clt \in Clients /\ m.hint \in ServerIDs /\ m.id \in IDs /\ m.id # 0 /\ m.cmd \in Commands
    BY <1>0, <1>6, PacketFacts DEF Packets, ToClient
  <2>2. PICK y : y = CloseAck(m)
    OBVIOUS
  <2>3. /\ y \in ToServer /\ y.type = "CLOSE_ACK" /\ y.call.clt = m.clt /\ y.call.boot = bootID[m.clt]
        /\ y.hint = m.hint
    BY <1>0, <2>1, <2>2, CallFacts DEF CloseAck, ToServer, ClientTypes, Call
  <2>4. Follows(toServer, toServer', 0, y)
    BY <1>0, <1>6, <2>2, <2>3, NetFollows
  <2>5. ~Pending(m.clt)
    BY <1>0, <1>6, <2>1 DEF ClientTypes, ClientOK, Pending
  <2>6. StillIdle(m.hint, m.clt, m.id) /\ NoneOf(m.clt)
    BY <1>0, <1>2, <1>3, <1>6, <2>5 DEF ProbesAgree, Answerable, Committed
  <2>7. \A k \in Calls : Sendable(k)' => Sendable(k)
    BY <1>1, <2>3, <2>4, UnderwayKept DEF Sendable, Pending, CurrentCall
  <2>8. PICK k \in Calls : k = requestHdr[y.hint].call
    BY <1>0, <2>1, <2>3, <2>6, IdFacts DEF StillIdle
  <2>9. k.clt = m.clt
    BY <2>1, <2>3, <2>6, <2>8 DEF StillIdle, ProbeInv, StagesAgree, StageOK
  <2>10. ~Sendable(k)
    BY <2>5, <2>6, <2>9 DEF Sendable, Underway, NoneOf
  <2>11. /\ requestHdr[y.hint].call \in Calls
         /\ \A j \in Calls : j = requestHdr[y.hint].call => ~Sendable(j)'
    BY <2>7, <2>8, <2>10
  <2>12. QED
    BY <1>1, <1>4, <2>3, <2>4, <2>7, <2>11, ClientOnce
<1>7. QED
  BY <1>1, <1>3, <1>5, <1>6 DEF RpcClientDispatch, RpcChanClose, ClientInput

\* The calls that a server may run were not run, and it has them to itself.
LEMMA ServerProcessOnce ==
    ASSUME ProbeInv, OnceInv, NEW s \in ServerIDs, ServerProcess(s)
    PROVE  OnceInv'
<1>0. /\ TypeInv /\ ServerTypes
      /\ \A t \in ServerIDs : StageOK(t) /\ ServerOK(t) /\ ToRunAt(t)
  BY DEF ProbeInv, TypeInv, StagesAgree, ServerTypes, OnceInv, ToRun
<1>1. UNCHANGED <<cpc, bootID, request, toServer, ID, clientID, requestHdr>>
  BY DEF ServerProcess, RpcServerInstall, ServerReady, ServerRun, Rpc_Reply, cvars
<1>2. \A k : (Sendable(k)' <=> Sendable(k)) /\ (Remembered(k) <=> Remembered(k)') /\ (SeenAt(k) <=> SeenAt(k)')
  BY <1>1 DEF Sendable, Pending, CurrentCall, Underway, Remembered, SeenAt
<1>3. RequestsInOrder' /\ OneEach'
  BY <1>1 DEF OnceInv, RequestsInOrder, OneEach
<1>4. \A t \in ServerIDs : "FREE" \in state'[t] /\ ID[t] # 0 => "FREE" \in state[t]
  <2>1. CASE RpcServerInstall(s)
    BY <1>0, <2>1 DEF RpcServerInstall, ServerTypes, StageOK
  <2>2. CASE ServerReady(s)
    BY <1>0, <2>2 DEF ServerReady, ServerTypes
  <2>3. CASE ServerRun(s)
    BY <1>0, <2>3 DEF ServerRun, CrashCallBack, ServerTypes
  <2>4. QED
    BY <2>1, <2>2, <2>3 DEF ServerProcess, Rpc_Reply
<1>5. Pair \/ (FreedUnsendable' /\ AckedUnsendable')
  <2>1. ASSUME FreedUnsendable PROVE FreedUnsendable'
    <3> SUFFICES ASSUME NEW t \in ServerIDs, "FREE" \in state'[t], ID[t] # 0
                 PROVE  ~Sendable(requestHdr[t].call)'
      BY <1>1 DEF FreedUnsendable
    <3>1. ~Sendable(requestHdr[t].call)
      BY <1>4, <2>1 DEF FreedUnsendable
    <3>2. QED
      BY <1>1, <3>1 DEF Sendable, Pending, CurrentCall, Underway
  <2>2. ASSUME AckedUnsendable PROVE AckedUnsendable'
    BY <1>1, <2>2 DEF AckedUnsendable, Sendable, Pending, CurrentCall, Underway
  <2>3. QED
    BY <2>1, <2>2 DEF OnceInv
<1>6. /\ \A k \in Calls : Seen(k)' <=> Seen(k)
      /\ ToRun' /\ AtMostOnce'
  <2>1. CASE UNCHANGED execs
    <3>1. \A k : Seen(k)' <=> Seen(k)
      BY <1>1, <2>1 DEF Seen
    <3>2. ASSUME NEW t \in ServerIDs, spc'[t] = "wait", "BUSY" \in state'[t]
          PROVE  spc[t] = "wait" /\ "BUSY" \in state[t]
      <4>1. CASE RpcServerInstall(s)
        BY <1>0, <3>2, <4>1 DEF RpcServerInstall, ServerTypes
      <4>2. CASE ServerReady(s)
        BY <1>0, <3>2, <4>2 DEF ServerReady, ServerTypes
      <4>3. CASE \E err \in BOOLEAN : Rpc_Reply(s, err)
        BY <1>0, <3>2, <4>3 DEF Rpc_Reply, ServerTypes
      <4>4. CASE ServerRun(s)
        BY <1>0, <3>2, <4>4 DEF ServerRun, CrashCallBack, ServerTypes
      <4>5. QED
        BY <4>1, <4>2, <4>3, <4>4 DEF ServerProcess
    <3>3. ToRun'
      BY <1>0, <1>1, <2>1, <3>1, <3>2 DEF ToRun, ToRunAt
    <3>4. QED
      BY <2>1, <3>1, <3>3 DEF OnceInv, AtMostOnce
  <2>2. CASE ServerRun(s)
    <3>1. PICK k0 \in Calls : k0 = requestHdr[s].call
      BY <1>0, <2>2 DEF ServerRun, ServerOK
    <3>2. execs[k0] = 0 /\ clientID[s] = k0.clt /\ ID[s] # 0
      BY <1>0, <2>2, <3>1 DEF ServerRun, ToRunAt, StageOK, ServerOK
    <3>3. /\ execs' = [execs EXCEPT ![k0] = 1]
          /\ \A t \in ServerIDs : t # s => spc'[t] = spc[t]
          /\ spc'[s] = "exec"
          /\ \A t \in ServerIDs : "BUSY" \in state'[t] => "BUSY" \in state[t]
      BY <1>0, <2>2, <3>1, <3>2 DEF ServerRun, CrashCallBack, ServerTypes
    <3>4. \A k \in Calls : execs'[k] = IF k = k0 THEN 1 ELSE execs[k]
      BY <1>0, <3>3 DEF ServerTypes
    <3>5. \A k \in Calls : Seen(k)' <=> Seen(k)
      BY <1>1, <3>1, <3>4 DEF Seen
    <3>6. AtMostOnce'
      BY <3>4 DEF OnceInv, AtMostOnce
    <3>7. ASSUME NEW t \in ServerIDs, spc'[t] = "wait", "BUSY" \in state'[t]
          PROVE  execs'[requestHdr[t].call] = 0 /\ \A j \in Calls : Later(j, requestHdr[t].call) => ~Seen(j)'
      <4>1. t # s /\ spc[t] = "wait" /\ "BUSY" \in state[t]
        BY <3>3, <3>7
      <4>2. requestHdr[t].call \in Calls /\ clientID[t] = requestHdr[t].call.clt /\ ID[t] # 0
        BY <1>0, <4>1 DEF StageOK, ServerOK
      <4>3. requestHdr[t].call # k0
        BY <1>0, <3>1, <3>2, <4>1, <4>2 DEF OnceInv, OneEach, ServerOK
      <4>4. QED
        BY <1>0, <3>4, <3>5, <4>1, <4>2, <4>3 DEF ToRunAt
    <3>8. ToRun'
      BY <1>1, <3>7 DEF ToRun, ToRunAt, Later
    <3>9. QED
      BY <3>5, <3>6, <3>8
  <2>3. QED
    BY <2>1, <2>2 DEF ServerProcess, RpcServerInstall, ServerReady, Rpc_Reply
<1>7. SeenInOrder' /\ SeenRemembered'
  BY <1>2, <1>6 DEF OnceInv, SeenInOrder, SeenRemembered
<1>8. QED
  BY <1>3, <1>5, <1>6, <1>7 DEF OnceInv, Pair

LEMMA ReclaimOnce ==
    ASSUME ProbeInv, TypeInv', OnceInv, Pair \/ Calm', NEW s \in ServerIDs, NEW maxed \in BOOLEAN, Reclaim(s, maxed)
    PROVE  OnceInv'
<1>0. TypeInv /\ ServerTypes
  BY DEF ProbeInv, TypeInv
<1>1. UNCHANGED <<cpc, bootID, request, toServer, ID, clientID, requestHdr, spc, execs>>
  BY DEF Reclaim, cvars, pvars
<1>2. \A k : /\ (Sendable(k)' <=> Sendable(k)) /\ (Remembered(k) <=> Remembered(k)') /\ (SeenAt(k) <=> SeenAt(k)')
             /\ (Seen(k)' <=> Seen(k))
  BY <1>1 DEF Sendable, Pending, CurrentCall, Underway, Remembered, SeenAt, Seen
<1>3. RequestsInOrder' /\ OneEach' /\ SeenInOrder' /\ SeenRemembered' /\ AtMostOnce'
  BY <1>1, <1>2 DEF OnceInv, RequestsInOrder, OneEach, SeenInOrder, SeenRemembered, AtMostOnce
<1>4. \A t \in ServerIDs : "BUSY" \in state'[t] => "BUSY" \in state[t]
  BY <1>0 DEF Reclaim, StartAging, GrowOlder, Tidy, ServerTypes
<1>5. ToRun'
  BY <1>1, <1>2, <1>4 DEF OnceInv, ToRun, ToRunAt
<1>6. ASSUME Calm' PROVE \A t \in ServerIDs : "FREE" \in state'[t] => "FREE" \in state[t]
  <2>1. CASE StartAging(s, maxed) \/ Tidy(s)
    BY <1>0, <2>1 DEF StartAging, Tidy, ServerTypes
  <2>2. CASE GrowOlder(s)
    <3>1. age'[s] = age[s] + 1 /\ age[s] \in Int /\ MaxServerAge \in Int
      BY <1>0, <2>2, RpcAssumption DEF GrowOlder, ServerTypes
    <3>2. age'[s] < MaxServerAge
      BY <1>6 DEF Calm
    <3>3. ~(age[s] + 1 >= MaxServerAge)
      BY <3>1, <3>2
    <3>4. QED
      BY <2>2, <3>3 DEF GrowOlder
  <2>3. QED
    BY <2>1, <2>2 DEF Reclaim
<1>7. Pair \/ (FreedUnsendable' /\ AckedUnsendable')
  <2>1. ASSUME FreedUnsendable, Calm' PROVE FreedUnsendable'
    <3> SUFFICES ASSUME NEW t \in ServerIDs, "FREE" \in state'[t], ID[t] # 0
                 PROVE  ~Sendable(requestHdr[t].call)'
      BY <1>1 DEF FreedUnsendable
    <3>1. ~Sendable(requestHdr[t].call)
      BY <1>6, <2>1 DEF FreedUnsendable
    <3>2. QED
      BY <1>1, <3>1 DEF Sendable, Pending, CurrentCall, Underway
  <2>2. ASSUME AckedUnsendable PROVE AckedUnsendable'
    BY <1>1, <2>2 DEF AckedUnsendable, Sendable, Pending, CurrentCall, Underway
  <2>3. QED
    BY <2>1, <2>2 DEF OnceInv
<1>8. QED
  BY <1>3, <1>5, <1>7 DEF OnceInv, Pair
\* A request that a server takes was not seen before: the only server that works for
\* its client would have it.
LEMMA ArrivalOnce ==
    ASSUME ProbeInv, TypeInv', OnceInv, Pair \/ Calm,
           NEW s \in ServerIDs, NEW m \in ToServer, 1 \in 1 .. Len(toServer), m = toServer[1],
           Follows(toServer, toServer', 1, Nothing), RpcServerAlloc(s, m), RpcServerDispatch(s, m),
           UNCHANGED <<cvars, pvars>>
    PROVE  OnceInv'
<1>0. /\ TypeInv /\ ServerTypes /\ AnswersAgree
      /\ \A t \in ServerIDs : StageOK(t) /\ ServerOK(t) /\ ToRunAt(t) /\ state[t] \subseteq SrvBits
  BY DEF ProbeInv, TypeInv, StagesAgree, ServerTypes, OnceInv, ToRun
<1>1. UNCHANGED <<cpc, bootID, request, spc, execs>>
  BY DEF cvars, pvars
<1>2. /\ m.call \in Calls /\ m.call.clt \in Clients /\ m.call.id # 0 /\ m.call.id \in Nat /\ m.call.clt # NoClient
      /\ Nothing \notin ToServer /\ Nothing.type \notin {"REQUEST", "CLOSE_ACK"}
  BY <1>0, PacketFacts, NothingFacts, IdFacts, RpcAssumption
<1>3. /\ "STUCK" \notin state[s]
      /\ clientID[s] = m.call.clt \/ "FREE" \in state[s]
      /\ m.type = "CLOSE_ACK" => s = m.hint /\ StillIdle(s, m.call.clt, m.call.id) /\ FirstOf(1)
  BY <1>0, AllocFacts DEF AnswersAgree, Expected
<1>4. /\ clientID'[s] = m.call.clt
      /\ \A t \in ServerIDs : t # s => /\ state'[t] = state[t] /\ ID'[t] = ID[t] /\ clientID'[t] = clientID[t]
                                       /\ requestHdr'[t] = requestHdr[t]
  BY <1>0, DispatchFrame
<1>5. \A k : Sendable(k)' => Sendable(k)
  BY <1>1, <1>2, UnderwayKept DEF Sendable, Pending, CurrentCall
\* The server of a client is the one that was chosen.
<1>6. \A t \in ServerIDs : clientID[t] = m.call.clt => t = s /\ clientID[s] = m.call.clt
  <2>1. CASE Pair
    BY <2>1 DEF Pair, ServerIDs
  <2>2. CASE Calm
    <3> SUFFICES ASSUME NEW t \in ServerIDs, clientID[t] = m.call.clt
                 PROVE  t = s /\ clientID[s] = m.call.clt
      OBVIOUS
    <3>1. t \in Matching(m)
      BY <2>2 DEF Calm, Matching, NotStuck
    <3>2. s \in Matching(m)
      BY <3>1 DEF RpcServerAlloc, FirstFrom
    <3>3. QED
      BY <1>2, <3>2 DEF Matching, OnceInv, OneEach
  <2>3. QED
    BY <2>1, <2>2
<1>7. OneEach'
  BY <1>4, <1>6 DEF OnceInv, OneEach
<1>8. RequestsInOrder' /\ \A k \in Calls : SeenAt(k) => SeenAt(k)'
  <2>1. \A b \in Clients : request'[b].id >= request[b].id
    BY <1>0, <1>1, IdFacts
  <2>2. QED
    BY <1>0, <1>1, <1>2, <2>1, OrderKept DEF OnceInv
\* A server that loses its call had one that is not sent again.
<1>9. ASSUME NEW k \in Calls, k = requestHdr[s].call, clientID[s] = k.clt, Sendable(k)
      PROVE  clientID[s] = m.call.clt
  <2>1. CASE Pair
    <3>1. k.clt \in Clients /\ m.call.clt \in Clients
      BY <1>0, <1>2, IdFacts DEF Calls
    <3>2. QED
      BY <1>9, <2>1, <3>1 DEF Pair
  <2>2. CASE FreedUnsendable
    BY <1>0, <1>3, <1>9, <2>2, IdFacts DEF FreedUnsendable
  <2>3. QED
    BY <2>1, <2>2 DEF OnceInv
<1>10. CASE NewRequest(s, m)
  <2>1. /\ ID'[s] = m.call.id /\ requestHdr'[s].call = m.call /\ state'[s] = {"BUSY"}
        /\ "BUSY" \notin state[s] /\ m.call.id # ID[s] /\ m.type = "REQUEST"
    BY <1>0, <1>3, <1>10 DEF NewRequest, Hdr, ServerTypes, StillIdle, ToServer
  <2>2. \A k : Seen(k)' => Seen(k) \/ k = m.call
    BY <1>1, <1>4, <2>1 DEF Seen
  <2>3. /\ m.call.boot = bootID[m.call.clt] /\ m.call.id <= request[m.call.clt].id
        /\ \A k \in Calls : Seen(k) /\ k.clt = m.call.clt =>
              k.boot <= m.call.boot /\ (k.boot = m.call.boot => k.id <= m.call.id)
    BY <2>1 DEF OnceInv, RequestsInOrder, SeenInOrder, SeenAt
  <2>4. SeenAt(m.call)'
    <3>1. ASSUME NEW n \in 1 .. Len(toServer'), toServer'[n].type = "REQUEST", toServer'[n].call.clt = m.call.clt
          PROVE  m.call.id <= toServer'[n].call.id
      <4>1. n + 1 \in 1 .. Len(toServer) /\ toServer'[n] = toServer[n + 1] /\ 1 \in 1 .. (n + 1) - 1
        BY <1>2, <3>1 DEF Follows
      <4>2. QED
        BY <2>1, <3>1, <4>1 DEF OnceInv, RequestsInOrder
    <3>2. bootID[m.call.clt] \in Nat
      BY <1>0, <1>2, IdFacts
    <3>3. PICK k : k = m.call
      OBVIOUS
    <3>4. SeenAt(k)'
      BY <1>1, <2>3, <3>1, <3>2, <3>3 DEF SeenAt
    <3>5. QED
      BY <3>3, <3>4
  <2>5. SeenInOrder'
    BY <1>8, <2>2, <2>4 DEF OnceInv, SeenInOrder
  <2>6. ~Seen(m.call)
    <3>1. Sendable(m.call)
      BY <2>1 DEF Sendable, Underway
    <3>2. ASSUME Remembered(m.call) PROVE FALSE
      <4>1. PICK t \in ServerIDs : clientID[t] = m.call.clt /\ requestHdr[t].call = m.call
        BY <3>2 DEF Remembered
      <4>2. t = s
        BY <1>6, <4>1
      <4>3. QED
        BY <1>0, <2>1, <4>1, <4>2 DEF ServerOK
    <3>3. QED
      BY <1>2, <3>1, <3>2 DEF OnceInv, SeenRemembered
  <2>7. SeenRemembered'
    <3> SUFFICES ASSUME NEW k \in Calls, Sendable(k)', Seen(k)' PROVE Remembered(k)'
      BY DEF SeenRemembered
    <3>1. CASE k = m.call
      BY <1>4, <2>1, <3>1 DEF Remembered
    <3>2. CASE k # m.call
      <4>1. Sendable(k) /\ Seen(k)
        BY <1>5, <2>2, <3>2
      <4>2. PICK t \in ServerIDs : clientID[t] = k.clt /\ requestHdr[t].call = k
        BY <4>1 DEF OnceInv, SeenRemembered, Remembered
      <4>3. t # s
        <5> SUFFICES ASSUME t = s PROVE FALSE
          OBVIOUS
        <5>1. clientID[s] = m.call.clt /\ k.clt = m.call.clt /\ k.id = ID[s]
          BY <1>0, <1>9, <4>1, <4>2 DEF ServerOK
        <5>2. k.id \in Nat /\ k.boot \in Nat /\ m.call.boot \in Nat /\ request[k.clt].id \in Nat /\ k.clt \in Clients
          BY <1>0, <1>2, IdFacts
        <5>3. CASE Pending(k.clt)' /\ k = CurrentCall(k.clt)'
          <6>1. k.boot = bootID[k.clt] /\ k.id = request[k.clt].id
            BY <1>1, <5>3 DEF CurrentCall, Call
          <6>2. QED
            BY <1>2, <2>1, <2>3, <4>1, <5>1, <5>2, <6>1
        <5>4. CASE Underway(k)'
          <6>1. PICK n \in 1 .. Len(toServer') : toServer'[n].type = "REQUEST" /\ toServer'[n].call = k
            BY <5>4 DEF Underway
          <6>2. k.boot = bootID[k.clt] /\ m.call.id <= k.id
            <7>1. n + 1 \in 1 .. Len(toServer) /\ toServer'[n] = toServer[n + 1] /\ 1 \in 1 .. (n + 1) - 1
              BY <1>2, <6>1 DEF Follows
            <7>2. QED
              BY <2>1, <5>1, <6>1, <7>1 DEF OnceInv, RequestsInOrder
          <6>3. QED
            BY <1>2, <2>1, <2>3, <4>1, <5>1, <5>2, <6>2
        <5>5. QED
          BY <5>3, <5>4 DEF Sendable
      <4>4. QED
        BY <1>4, <4>2, <4>3 DEF Remembered
    <3>3. QED
      BY <3>1, <3>2
  <2>8. ToRun'
    <3> SUFFICES ASSUME NEW t \in ServerIDs, spc[t] = "wait", "BUSY" \in state'[t]
                 PROVE  /\ execs[requestHdr'[t].call] = 0
                        /\ \A j \in Calls : Later(j, requestHdr'[t].call) => ~Seen(j)'
      BY <1>1 DEF ToRun, ToRunAt, Later
    <3>1. CASE t = s
      <4>1. execs[m.call] = 0
        BY <2>6 DEF Seen
      <4>2. ASSUME NEW j \in Calls, Later(j, m.call), Seen(j)' PROVE FALSE
        <5>1. j # m.call /\ j.clt = m.call.clt /\ j.boot \in Nat /\ j.id \in Nat /\ m.call.boot \in Nat
          BY <1>0, <1>2, <4>2, IdFacts DEF Later
        <5>2. Seen(j)
          BY <2>2, <4>2, <5>1
        <5>3. QED
          BY <1>2, <2>3, <4>2, <5>1, <5>2 DEF Later
      <4>3. QED
        BY <2>1, <3>1, <4>1, <4>2
    <3>2. CASE t # s
      <4>1. /\ requestHdr'[t] = requestHdr[t] /\ "BUSY" \in state[t] /\ ID[t] # 0
            /\ clientID[t] = requestHdr[t].call.clt
        BY <1>0, <1>4, <3>2 DEF StageOK, ServerOK
      <4>2. requestHdr[t].call.clt # m.call.clt
        BY <1>6, <3>2, <4>1
      <4>3. ASSUME NEW j \in Calls, Later(j, requestHdr[t].call) PROVE ~Seen(j)'
        BY <1>0, <2>2, <4>1, <4>2, <4>3 DEF Later, ToRunAt
      <4>4. QED
        BY <1>0, <4>1, <4>3 DEF ToRunAt
    <3>3. QED
      BY <3>1, <3>2
  <2>9. ASSUME FreedUnsendable PROVE FreedUnsendable'
    <3> SUFFICES ASSUME NEW t \in ServerIDs, "FREE" \in state'[t], ID'[t] # 0
                 PROVE  ~Sendable(requestHdr[t].call)'
      BY DEF FreedUnsendable
    <3>1. t # s
      BY <2>1
    <3>2. PICK k : k = requestHdr[t].call /\ k = requestHdr'[t].call
      BY <1>4, <3>1
    <3>3. ~Sendable(k)
      BY <1>4, <2>9, <3>1, <3>2 DEF FreedUnsendable
    <3>4. ~Sendable(k)'
      BY <1>5, <3>3
    <3>5. QED
      BY <3>2, <3>4 DEF Sendable, Pending, CurrentCall, Underway
  <2>10. ASSUME AckedUnsendable PROVE AckedUnsendable'
    <3> SUFFICES ASSUME NEW n \in 1 .. Len(toServer'), toServer'[n].type = "CLOSE_ACK"
                 PROVE  ~Sendable(requestHdr[toServer[n].hint].call)'
      BY DEF AckedUnsendable
    <3>0. n + 1 \in 1 .. Len(toServer) /\ toServer'[n] = toServer[n + 1]
      BY <1>2 DEF Follows
    <3>1. n + 1 \in 1 .. Len(toServer) /\ toServer'[n] = toServer[n + 1] /\ 1 \in 1 .. (n + 1) - 1
      BY <3>0
    <3>2. PICK p \in ToServer : p = toServer'[n] /\ p = toServer[n + 1]
      BY <1>0, <3>1, PacketFacts
    <3>3. StillIdle(p.hint, p.call.clt, p.call.id) /\ p.call.clt # m.call.clt /\ p.hint \in ServerIDs /\ p.call.id # 0
      BY <1>0, <3>1, <3>2, PacketFacts DEF AnswersAgree, Expected, FirstOf
    <3>4. p.hint # s
      BY <3>3, AllocFacts
    <3>5. PICK k : k = requestHdr[p.hint].call /\ k = requestHdr'[p.hint].call
      BY <1>4, <3>3, <3>4
    <3>6. ~Sendable(k)
      BY <2>10, <3>1, <3>2, <3>5 DEF AckedUnsendable
    <3>7. ~Sendable(k)'
      BY <1>5, <3>6
    <3>8. QED
      BY <3>2, <3>5, <3>7 DEF Sendable, Pending, CurrentCall, Underway
  <2>11. AtMostOnce'
    BY <1>1 DEF OnceInv, AtMostOnce
  <2>12. QED
    BY <1>7, <1>8, <2>5, <2>7, <2>8, <2>9, <2>10, <2>11 DEF OnceInv, Pair
<1>11. CASE Abandoned(s, m) \/ CloseAcked(s, m) \/ Resent(s, m)
  <2>1. UNCHANGED <<ID, requestHdr>>
    BY <1>11 DEF Abandoned, CloseAcked, Resent
  <2>2. "BUSY" \in state'[s] => "BUSY" \in state[s]
    BY <1>0, <1>11 DEF Abandoned, CloseAcked, Resent, ServerTypes, Bits
  <2>3. "FREE" \in state'[s] => "FREE" \in state[s] \/ m.type = "CLOSE_ACK"
    <3>1. CASE Abandoned(s, m)
      BY <1>0, <3>1 DEF Abandoned, ServerTypes, Bits
    <3>2. CASE CloseAcked(s, m)
      BY <3>2 DEF CloseAcked
    <3>3. CASE Resent(s, m)
      <4>1. CASE state'[s] = Bits(s)
        BY <4>1 DEF Bits
      <4>2. CASE Bits(s) \notin {{"BUSY"}, {"WAITING"}}
        <5>1. ID[s] # 0
          BY <1>2, <3>3 DEF Resent
        <5>2. "BUSY" \notin state[s]
          BY <1>0, <1>3, <4>2 DEF StageOK, Bits
        <5>3. state[s] # {}
          BY <1>0, <5>1 DEF StageOK
        <5>4. CASE "WAITING" \in state[s]
          BY <1>0, <1>3, <4>2, <5>2, <5>4 DEF Bits, SrvBits
        <5>5. CASE "WAITING" \notin state[s]
          BY <1>0, <1>3, <5>2, <5>3, <5>5 DEF StageOK, SrvBits
        <5>6. QED
          BY <5>4, <5>5
      <4>3. QED
        BY <1>0, <3>3, <4>1, <4>2 DEF Resent, ServerTypes
    <3>4. QED
      BY <1>11, <3>1, <3>2, <3>3
  <2>4. \A k : Seen(k)' <=> Seen(k)
    BY <1>1, <2>1 DEF Seen
  <2>5. SeenInOrder'
    BY <1>8, <2>4 DEF OnceInv, SeenInOrder
  <2>6. SeenRemembered'
    <3> SUFFICES ASSUME NEW k \in Calls, Sendable(k)', Seen(k)' PROVE Remembered(k)'
      BY DEF SeenRemembered
    <3>1. Sendable(k) /\ Seen(k)
      BY <1>5, <2>4
    <3>2. PICK t \in ServerIDs : clientID[t] = k.clt /\ requestHdr[t].call = k
      BY <3>1 DEF OnceInv, SeenRemembered, Remembered
    <3>3. clientID'[t] = k.clt
      BY <1>4, <1>9, <3>1, <3>2
    <3>4. QED
      BY <2>1, <3>2, <3>3 DEF Remembered
  <2>7. ToRun'
    <3>1. \A t \in ServerIDs : "BUSY" \in state'[t] => "BUSY" \in state[t]
      BY <1>4, <2>2
    <3>2. QED
      BY <1>0, <1>1, <2>1, <2>4, <3>1 DEF ToRun, ToRunAt
  <2>8. ASSUME FreedUnsendable, AckedUnsendable PROVE FreedUnsendable'
    <3> SUFFICES ASSUME NEW t \in ServerIDs, "FREE" \in state'[t], ID'[t] # 0
                 PROVE  ~Sendable(requestHdr[t].call)'
      BY DEF FreedUnsendable
    <3>1. PICK k : k = requestHdr[t].call /\ k = requestHdr'[t].call
      BY <2>1
    <3>2. ~Sendable(k)
      <4>1. CASE "FREE" \in state[t]
        BY <2>1, <2>8, <3>1, <4>1 DEF FreedUnsendable
      <4>2. CASE t = s /\ m.type = "CLOSE_ACK"
        BY <1>3, <2>8, <3>1, <4>2 DEF AckedUnsendable
      <4>3. QED
        BY <1>4, <2>3, <4>1, <4>2
    <3>3. ~Sendable(k)'
      BY <1>5, <3>2
    <3>4. QED
      BY <3>1, <3>3 DEF Sendable, Pending, CurrentCall, Underway
  <2>9. ASSUME AckedUnsendable PROVE AckedUnsendable'
    <3> SUFFICES ASSUME NEW n \in 1 .. Len(toServer'), toServer'[n].type = "CLOSE_ACK"
                 PROVE  ~Sendable(requestHdr[toServer[n].hint].call)'
      BY DEF AckedUnsendable
    <3>1. n + 1 \in 1 .. Len(toServer) /\ toServer'[n] = toServer[n + 1]
      BY <1>2 DEF Follows
    <3>2. PICK k : k = requestHdr[toServer[n + 1].hint].call
      OBVIOUS
    <3>3. ~Sendable(k)
      BY <2>9, <3>1, <3>2 DEF AckedUnsendable
    <3>4. ~Sendable(k)'
      BY <1>5, <3>3
    <3>5. QED
      BY <2>1, <3>1, <3>2, <3>4 DEF Sendable, Pending, CurrentCall, Underway
  <2>10. AtMostOnce'
    BY <1>1 DEF OnceInv, AtMostOnce
  <2>11. QED
    BY <1>7, <1>8, <2>5, <2>6, <2>7, <2>8, <2>9, <2>10 DEF OnceInv, Pair
<1>12. QED
  BY <1>10, <1>11 DEF RpcServerDispatch
LEMMA ServerArrivalOnce ==
    ASSUME Orderly, ProbeInv, TypeInv', OnceInv, Pair \/ Calm, ServerArrival
    PROVE  OnceInv'
<1>0. TypeInv /\ Ordered
  BY DEF ProbeInv, Orderly
<1>1. PICK n \in Arriving(toServer) :
        /\ toServer' = RemoveAt(toServer, n)
        /\ \/ NoServer(toServer[n])
           \/ \E s \in ServerIDs : RpcServerAlloc(s, toServer[n]) /\ RpcServerDispatch(s, toServer[n])
        /\ UNCHANGED <<cvars, pvars>>
  BY DEF ServerArrival
<1>2. n = 1 /\ 1 \in 1 .. Len(toServer) /\ Follows(toServer, toServer', 1, Nothing)
  BY <1>0, <1>1, NetFollows DEF Arriving
<1>3. PICK m \in ToServer : m = toServer[1]
  BY <1>0, <1>2, PacketFacts
<1>4. CASE NoServer(m)
  <2>1. UNCHANGED <<state, ID, clientID, requestHdr, spc, execs, bootID, cpc, request>>
    BY <1>1, <1>4 DEF NoServer, svars, cvars, pvars
  <2>2. Nothing \notin ToServer /\ Nothing.type \notin {"REQUEST", "CLOSE_ACK"}
    BY <1>0, NothingFacts, PacketFacts
  <2>3. \A k \in Calls : Sendable(k)' => Sendable(k)
    BY <1>2, <2>1, <2>2, UnderwayKept DEF Sendable, Pending, CurrentCall
  <2>4. \A b \in Clients : request'[b].id >= request[b].id
    BY <1>0, <2>1, IdFacts
  <2>5. QED
    BY <1>2, <2>1, <2>2, <2>3, <2>4, ClientOnce
<1>5. ASSUME NEW s \in ServerIDs, RpcServerAlloc(s, m), RpcServerDispatch(s, m) PROVE OnceInv'
  BY <1>1, <1>2, <1>3, <1>5, ArrivalOnce
<1>6. QED
  BY <1>1, <1>2, <1>3, <1>4, <1>5

LEMMA InitOnce == Init => OnceInv
<1> SUFFICES ASSUME Init PROVE OnceInv
  OBVIOUS
<1>1. \A k \in Calls : ~Seen(k)
  BY RpcAssumption DEF Init, Seen, Calls, NoCall, Call
<1>2. RequestsInOrder /\ AckedUnsendable
  BY DEF Init, RequestsInOrder, AckedUnsendable
<1>3. OneEach /\ FreedUnsendable /\ ToRun
  BY DEF Init, OneEach, FreedUnsendable, ToRun, ToRunAt
<1>4. AtMostOnce
  BY DEF Init, AtMostOnce
<1>5. QED
  BY <1>1, <1>2, <1>3, <1>4 DEF OnceInv, SeenInOrder, SeenRemembered

LEMMA NextOnce ==
    ASSUME Orderly, ProbeInv, OnceInv, Pair \/ (Calm /\ Calm'), [Next]_vars
    PROVE  OnceInv'
<1>1. TypeInv'
  BY NextTypes DEF ProbeInv, Orderly
<1>2. CASE UNCHANGED vars
  <2>1. RequestsInOrder' /\ OneEach' /\ AtMostOnce'
    BY <1>2 DEF vars, cvars, svars, pvars, OnceInv, RequestsInOrder, OneEach, AtMostOnce
  <2>2. \A k : (Seen(k)' <=> Seen(k)) /\ (SeenAt(k)' <=> SeenAt(k)) /\ (Remembered(k)' <=> Remembered(k))
    BY <1>2 DEF vars, cvars, svars, pvars, SeenAt, Seen, Remembered
  <2>3. \A k : Sendable(k)' <=> Sendable(k)
    BY <1>2 DEF vars, cvars, Sendable, Underway, Pending, CurrentCall
  <2>4. SeenInOrder' /\ SeenRemembered'
    BY <2>2, <2>3 DEF OnceInv, SeenInOrder, SeenRemembered
  <2>5. ToRun'
    BY <1>2, <2>2 DEF vars, svars, pvars, OnceInv, ToRun, ToRunAt
  <2>6. ASSUME FreedUnsendable, AckedUnsendable PROVE FreedUnsendable' /\ AckedUnsendable'
    <3>1. \A s : ~Sendable(requestHdr[s].call) => ~Sendable(requestHdr[s].call)'
      BY <1>2 DEF vars, cvars, svars, Sendable, Underway, Pending, CurrentCall
    <3>2. FreedUnsendable'
      BY <1>2, <2>6, <3>1 DEF vars, svars, FreedUnsendable
    <3>3. AckedUnsendable'
      <4> SUFFICES ASSUME NEW n \in 1 .. Len(toServer'), toServer'[n].type = "CLOSE_ACK"
                   PROVE  ~Sendable(requestHdr[toServer[n].hint].call)'
        BY DEF AckedUnsendable
      <4>1. ~Sendable(requestHdr[toServer[n].hint].call) /\ toServer' = toServer
        BY <1>2, <2>6 DEF vars, AckedUnsendable
      <4>2. ~Sendable(requestHdr[toServer[n].hint].call)'
        BY <1>2, <4>1 DEF vars, cvars, svars, Sendable, Underway, Pending, CurrentCall
      <4>3. QED
        BY <4>2
    <3>4. QED
      BY <3>2, <3>3
  <2>7. QED
    BY <2>1, <2>4, <2>5, <2>6 DEF OnceInv, Pair
<1>3. ASSUME NEW c \in Clients, Rpc_Call(c) \/ ClientProcess(c) \/ Rpc_Timeout(c) \/ Reboot(c)
      PROVE  OnceInv'
  BY <1>1, <1>3, ClientStepsOnce, RebootOnce
<1>4. ASSUME NEW s \in ServerIDs, ServerProcess(s) \/ \E maxed \in BOOLEAN : Reclaim(s, maxed)
      PROVE  OnceInv'
  BY <1>1, <1>4, ServerProcessOnce, ReclaimOnce
<1>5. QED
  BY <1>1, <1>2, <1>3, <1>4, ClientArrivalOnce, ServerArrivalOnce, LoseOnce DEF Next

\* Between one client and one server no call is executed twice, however often its
\* request is resent, the client reboots, and the server is marked stuck or reclaimed:
\* srvPtr->ID keeps the last ID that RpcServerDispatch took from the client.
THEOREM RpcAtMostOncePair == ASSUME Orderly, Pair PROVE Spec => []AtMostOnce
<1>1. Init => OnceInv
  BY InitOnce
<1>2. ProbeInv /\ OnceInv /\ [Next]_vars => OnceInv'
  BY NextOnce
<1>3. OnceInv => AtMostOnce
  BY DEF OnceInv
<1>4. QED
  BY <1>1, <1>2, <1>3, ProbeInvariant, PTL DEF Spec

\* With any number of clients and servers no call is executed twice as long as no
\* server is marked SRV_STUCK and none is freed by RpcReclaimServers without an
\* acknowledgement of its probes: a server keeps the ID it has seen until the client
\* can no longer send it again.
THEOREM RpcAtMostOnceCalm == ASSUME Orderly PROVE Spec /\ []Calm => []AtMostOnce
<1>1. Init => OnceInv
  BY InitOnce
<1>2. ProbeInv /\ OnceInv /\ Calm /\ Calm' /\ [Next]_vars => OnceInv'
  BY NextOnce
<1>3. OnceInv => AtMostOnce
  BY DEF OnceInv
<1>4. QED
  BY <1>1, <1>2, <1>3, ProbeInvariant, PTL DEF Spec
-----------------------------------------------------------------------------
(***************************************************************************)
(* The service that the protocol implements, when no client reboots.       *)
(***************************************************************************)

\* The calls up to the current one were issued, and have ended unless they are
\* pending; a call that was answered was executed.
OutcomesAgree ==
    /\ \A c \in Clients : rpcID[c] = request[c].id + 1
    /\ \A k \in Calls :
          /\ outcome[k] # "none" <=> /\ k.id <= request[k.clt].id
                                     /\ Pending(k.clt) => k.id # request[k.clt].id
          /\ outcome[k] = "reply" => execs[k] # 0
\* What a step can do to the call of client c: nothing, issue one, or end it.
Unmoved(c) ==
    (Pending(c)' <=> Pending(c)) /\ request'[c].id = request[c].id /\ rpcID'[c] = rpcID[c]
Issues(c) ==
    /\ ~Pending(c) /\ Pending(c)'
    /\ rpcID[c] <= MaxID /\ request'[c].id = rpcID[c] /\ rpcID'[c] = rpcID[c] + 1
    /\ outcome' = outcome
Ends(c, how) ==
    /\ Pending(c) /\ ~Pending(c)'
    /\ request'[c].id = request[c].id /\ rpcID'[c] = rpcID[c]
    /\ outcome' = [outcome EXCEPT ![CurrentCall(c)] = how]
    /\ how \in {"reply", "timeout"}
    /\ how = "reply" => execs[CurrentCall(c)] # 0

\* Nobody reboots: a call is told apart by its client and its ID.
LEMMA BootFacts ==
    ASSUME MaxReboots = 0, TypeInv
    PROVE  /\ \A c \in Clients : bootID[c] = 0
           /\ \A k \in Calls : k.boot = 0 /\ k.clt \in Clients /\ k.id \in Nat
           /\ \A c \in Clients : \A k \in Calls : k = CurrentCall(c) <=> k.clt = c /\ k.id = request[c].id
           /\ \A c \in Clients : Pending(c) => CurrentCall(c) \in Calls
           /\ \A c \in Clients : request[c].id \in Nat
<1>1. \A c \in Clients : bootID[c] = 0 /\ ClientOK(c) /\ request[c] \in Requests
  BY DEF TypeInv, ClientTypes
<1>2. \A k \in Calls : k.boot = 0 /\ k.clt \in Clients /\ k.id \in Nat /\ k = Call(k.clt, k.boot, k.id)
  BY CallFacts, RpcAssumption DEF IDs
<1>3. \A c \in Clients : \A k \in Calls : k = CurrentCall(c) <=> k.clt = c /\ k.id = request[c].id
  BY <1>1, <1>2 DEF CurrentCall, Call
<1>4. \A c \in Clients : request[c].id \in IDs
  BY <1>1 DEF Requests
<1>5. \A c \in Clients : Pending(c) => request[c].id # 0
  BY <1>1 DEF ClientOK, Pending
<1>6. \A c \in Clients : Pending(c) => CurrentCall(c) \in Calls
  BY <1>1, <1>4, <1>5, CallFacts, RpcAssumption DEF CurrentCall
<1>7. QED
  BY <1>1, <1>2, <1>3, <1>4, <1>6, RpcAssumption DEF IDs

\* The steps of a client.
LEMMA ClientMoves ==
    ASSUME MaxReboots = 0, TypeInv, ResultsAgree, NEW c \in Clients,
           Rpc_Call(c) \/ ClientProcess(c) \/ Rpc_Timeout(c) \/ Reboot(c)
    PROVE  /\ \A b \in Clients \ {c} : Unmoved(b)
           /\ (Unmoved(c) /\ outcome' = outcome) \/ Issues(c) \/ \E how : Ends(c, how)
<1>0. ClientTypes /\ ClientHonest(c) /\ request[c] \in Requests
  BY DEF TypeInv, ClientTypes, ResultsAgree
<1>1. ~Reboot(c)
  BY <1>0 DEF Reboot, ClientTypes
<1>2. \A b \in Clients \ {c} : Unmoved(b)
  BY <1>0, <1>1
  DEF ClientTypes, Unmoved, Pending, Rpc_Call, ClientProcess, AwaitInput, DoInput, DoTimeout, Return, RpcChanFree,
      Rpc_Timeout
<1>3. CASE Rpc_Call(c)
  <2>1. PICK r \in [id : {rpcID[c]}, cmd : Commands, plsAck : {FALSE}] : request' = [request EXCEPT ![c] = r]
    BY <1>3 DEF Rpc_Call
  <2>2. request'[c].id = rpcID[c]
    BY <1>0, <2>1 DEF ClientTypes
  <2>3. ~Pending(c) /\ Pending(c)' /\ rpcID'[c] = rpcID[c] + 1
    BY <1>0, <1>3 DEF Rpc_Call, ClientTypes, Pending
  <2>4. QED
    BY <1>2, <1>3, <2>2, <2>3 DEF Rpc_Call, Issues
<1>4. CASE AwaitInput(c) \/ RpcChanFree(c) \/ Rpc_Timeout(c)
  BY <1>0, <1>4 DEF AwaitInput, RpcChanFree, Rpc_Timeout, ClientTypes, Unmoved, Pending
<1>5. CASE DoInput(c)
  <2>1. CASE Return(c, "SUCCESS") /\ input[c].type = "REPLY"
    <3>1. /\ outcome' = [outcome EXCEPT ![CurrentCall(c)] = "reply"]
          /\ cpc' = [cpc EXCEPT ![c] = "done"] /\ UNCHANGED <<request, rpcID>>
      BY <1>5, <2>1 DEF DoInput, Return
    <3>2. Pending(c) /\ ~Pending(c)'
      BY <1>0, <1>5, <3>1 DEF DoInput, ClientTypes, Pending
    <3>3. input[c].id = request[c].id /\ request[c].id # 0 /\ bootID[c] = 0
      BY <1>0, <1>5, <3>2 DEF DoInput, ClientHonest, ClientTypes, ClientOK, Pending
    <3>4. execs[CurrentCall(c)] # 0
      BY <1>0, <2>1, <3>3 DEF ClientHonest, Honest, CurrentCall
    <3>5. QED
      BY <1>2, <3>1, <3>2, <3>4 DEF Ends
  <2>2. CASE ~(Return(c, "SUCCESS") /\ input[c].type = "REPLY")
    BY <1>0, <1>2, <1>5, <2>2 DEF DoInput, ClientTypes, Unmoved, Pending
  <2>3. QED
    BY <2>1, <2>2
<1>6. CASE DoTimeout(c)
  <2>1. CASE numTries[c] + 1 < MaxTries
    <3>1. /\ outcome' = outcome /\ rpcID' = rpcID /\ cpc' = [cpc EXCEPT ![c] = "loop"]
          /\ request' = [request EXCEPT ![c] = [request[c] EXCEPT !.plsAck = TRUE]]
      BY <1>0, <1>6, <2>1, RpcAssumption DEF DoTimeout, ClientTypes
    <3>2. request'[c].id = request[c].id
      BY <1>0, <3>1, PlsAckFacts DEF ClientTypes
    <3>3. Pending(c) /\ Pending(c)'
      BY <1>0, <1>6, <3>1 DEF DoTimeout, ClientTypes, Pending
    <3>4. QED
      BY <1>2, <3>1, <3>2, <3>3 DEF Unmoved
  <2>2. CASE ~(numTries[c] + 1 < MaxTries)
    <3>1. /\ outcome' = [outcome EXCEPT ![CurrentCall(c)] = "timeout"]
          /\ cpc' = [cpc EXCEPT ![c] = "done"] /\ UNCHANGED <<request, rpcID>>
      BY <1>6, <2>2 DEF DoTimeout, Return
    <3>2. Pending(c) /\ ~Pending(c)'
      BY <1>0, <1>6, <3>1 DEF DoTimeout, ClientTypes, Pending
    <3>3. Ends(c, "timeout")
      BY <3>1, <3>2 DEF Ends
    <3>4. QED
      BY <1>2, <3>3
  <2>3. QED
    BY <2>1, <2>2
<1>7. QED
  BY <1>1, <1>2, <1>3, <1>4, <1>5, <1>6 DEF ClientProcess
\* The other steps leave the callers alone, and only ServerRun executes a call.
LEMMA OtherMoves ==
    ASSUME \/ UNCHANGED vars \/ ClientArrival \/ ServerArrival \/ LosePacket
           \/ \E s \in ServerIDs : ServerProcess(s) \/ \E maxed \in BOOLEAN : Reclaim(s, maxed)
    PROVE  /\ UNCHANGED <<cpc, request, rpcID, bootID, outcome>>
           /\ UNCHANGED execs \/ \E s \in ServerIDs : ServerRun(s)
BY DEF vars, cvars, svars, pvars, ClientArrival, ServerArrival, LosePacket, ServerProcess, RpcServerInstall,
       ServerReady, ServerRun, Rpc_Reply, Reclaim

LEMMA ClientExecs ==
    ASSUME NEW c \in Clients, Rpc_Call(c) \/ ClientProcess(c) \/ Rpc_Timeout(c) \/ Reboot(c)
    PROVE  UNCHANGED execs
BY DEF pvars, Rpc_Call, ClientProcess, AwaitInput, DoInput, DoTimeout, RpcChanFree, Rpc_Timeout, Reboot

\* A step of the client c.
LEMMA MovesOutcomes ==
    ASSUME MaxReboots = 0, TypeInv, OutcomesAgree, NEW c \in Clients, UNCHANGED execs,
           \A b \in Clients \ {c} : Unmoved(b),
           (Unmoved(c) /\ outcome' = outcome) \/ Issues(c) \/ \E how : Ends(c, how)
    PROVE  OutcomesAgree'
<1>0. /\ ClientTypes /\ outcome \in [Calls -> {"none", "reply", "timeout", "crash"}]
      /\ \A b \in Clients : rpcID[b] \in Nat
  BY RpcAssumption DEF TypeInv, ClientTypes
<1>1. CASE Unmoved(c) /\ outcome' = outcome
  BY <1>1, BootFacts DEF OutcomesAgree, Unmoved
<1>2. CASE Issues(c)
  <2>1. \A b \in Clients : rpcID'[b] = request'[b].id + 1
    BY <1>0, <1>2 DEF OutcomesAgree, Issues, Unmoved
  <2>2. ASSUME NEW k \in Calls
        PROVE  /\ outcome'[k] # "none" <=> /\ k.id <= request'[k.clt].id
                                           /\ Pending(k.clt)' => k.id # request'[k.clt].id
               /\ outcome'[k] = "reply" => execs'[k] # 0
    <3>1. CASE k.clt # c
      BY <1>2, <3>1, BootFacts DEF OutcomesAgree, Issues, Unmoved
    <3>2. CASE k.clt = c
      BY <1>0, <1>2, <3>2, BootFacts DEF OutcomesAgree, Issues
    <3>3. QED
      BY <3>1, <3>2
  <2>3. QED
    BY <2>1, <2>2 DEF OutcomesAgree, Pending
<1>3. ASSUME NEW how, Ends(c, how) PROVE OutcomesAgree'
  <2>1. \A b \in Clients : rpcID'[b] = request'[b].id + 1
    BY <1>3 DEF OutcomesAgree, Ends, Unmoved
  <2>2. ASSUME NEW k \in Calls
        PROVE  /\ outcome'[k] # "none" <=> /\ k.id <= request'[k.clt].id
                                           /\ Pending(k.clt)' => k.id # request'[k.clt].id
               /\ outcome'[k] = "reply" => execs'[k] # 0
    <3>1. CASE k = CurrentCall(c)
      BY <1>0, <1>3, <3>1, BootFacts DEF Ends
    <3>2. CASE k # CurrentCall(c) /\ k.clt = c
      BY <1>0, <1>3, <3>2, BootFacts DEF OutcomesAgree, Ends
    <3>3. CASE k.clt # c
      BY <1>0, <1>3, <3>3, BootFacts DEF OutcomesAgree, Ends, Unmoved
    <3>4. QED
      BY <3>1, <3>2, <3>3
  <2>3. QED
    BY <2>1, <2>2 DEF OutcomesAgree, Pending
<1>4. QED
  BY <1>1, <1>2, <1>3

LEMMA NextOutcomes ==
    ASSUME MaxReboots = 0, TypeInv, ResultsAgree, OutcomesAgree, [Next]_vars
    PROVE  OutcomesAgree'
<1>1. ASSUME NEW c \in Clients, Rpc_Call(c) \/ ClientProcess(c) \/ Rpc_Timeout(c) \/ Reboot(c)
      PROVE  OutcomesAgree'
  <2>1. UNCHANGED execs
    BY <1>1, ClientExecs
  <2>2. /\ \A b \in Clients \ {c} : Unmoved(b)
        /\ (Unmoved(c) /\ outcome' = outcome) \/ Issues(c) \/ \E how : Ends(c, how)
    BY <1>1, ClientMoves
  <2>3. QED
    BY <2>1, <2>2, MovesOutcomes
<1>2. CASE \/ UNCHANGED vars \/ ClientArrival \/ ServerArrival \/ LosePacket
           \/ \E s \in ServerIDs : ServerProcess(s) \/ \E maxed \in BOOLEAN : Reclaim(s, maxed)
  <2>1. UNCHANGED <<cpc, request, rpcID, bootID, outcome>>
    BY <1>2, OtherMoves
  <2>2. \A k \in Calls : execs[k] # 0 => execs'[k] # 0
    BY ExecsGrow
  <2>3. QED
    BY <2>1, <2>2 DEF OutcomesAgree, Pending
<1>3. QED
  BY <1>1, <1>2 DEF Next
\* The status of a call, in terms of what OutcomesAgree is about.
LEMMA StatusFacts ==
    ASSUME MaxReboots = 0, TypeInv
    PROVE  /\ callStatus = [k \in Calls |-> callStatus[k]]
           /\ \A k \in Calls :
                 /\ outcome[k] = "reply" => callStatus[k] = "answered"
                 /\ outcome[k] \in {"timeout", "crash"} => callStatus[k] = "aborted"
                 /\ outcome[k] = "none" => /\ Pending(k.clt) /\ k.id = request[k.clt].id => callStatus[k] = "pending"
                                           /\ ~(Pending(k.clt) /\ k.id = request[k.clt].id) => callStatus[k] = "new"
<1>1. \A k \in Calls : CurrentCall(k.clt) = k <=> k.id = request[k.clt].id
  BY BootFacts
<1>2. QED
  BY <1>1 DEF callStatus

LEMMA StatusFactsNext ==
    ASSUME MaxReboots = 0, TypeInv'
    PROVE  /\ callStatus' = [k \in Calls |-> callStatus'[k]]
           /\ \A k \in Calls :
                 /\ outcome'[k] = "reply" => callStatus'[k] = "answered"
                 /\ outcome'[k] \in {"timeout", "crash"} => callStatus'[k] = "aborted"
                 /\ outcome'[k] = "none" =>
                       /\ Pending(k.clt)' /\ k.id = request'[k.clt].id => callStatus'[k] = "pending"
                       /\ ~(Pending(k.clt)' /\ k.id = request'[k.clt].id) => callStatus'[k] = "new"
<1>1. \A c \in Clients : bootID'[c] = 0
  BY DEF TypeInv, ClientTypes
<1>2. \A k \in Calls : k.boot = 0 /\ k.clt \in Clients /\ k = Call(k.clt, k.boot, k.id)
  BY CallFacts
<1>3. \A k \in Calls : CurrentCall(k.clt)' = k <=> k.id = request'[k.clt].id
  BY <1>1, <1>2 DEF CurrentCall, Call
<1>4. QED
  BY <1>3 DEF callStatus

\* Rpc_Call issues a call, RpcDoCall answers or aborts it, and nothing else of a
\* client is visible.
LEMMA MovesService ==
    ASSUME MaxReboots = 0, TypeInv, TypeInv', OutcomesAgree, AtMostOnce, NEW c \in Clients, UNCHANGED execs,
           \A b \in Clients \ {c} : Unmoved(b),
           (Unmoved(c) /\ outcome' = outcome) \/ Issues(c) \/ \E how : Ends(c, how)
    PROVE  [Service!Next]_(Service!vars)
<1>0. /\ outcome \in [Calls -> {"none", "reply", "timeout", "crash"}]
      /\ \A b \in Clients : rpcID[b] \in 1 .. MaxID + 1
      /\ execs \in [Calls -> 0 .. 2]
  BY DEF TypeInv, ClientTypes, ServerTypes
<1>1. CASE Unmoved(c) /\ outcome' = outcome
  <2>1. \A k \in Calls : (Pending(k.clt)' <=> Pending(k.clt)) /\ request'[k.clt].id = request[k.clt].id
    BY <1>1, BootFacts DEF Unmoved
  <2>2. \A k \in Calls : callStatus'[k] = callStatus[k]
    BY <1>0, <1>1, <2>1, StatusFacts, StatusFactsNext
  <2>3. callStatus' = callStatus
    BY <2>2, StatusFacts, StatusFactsNext
  <2>4. QED
    BY <2>3 DEF Service!vars
<1>2. CASE Issues(c)
  <2>1. PICK k \in Calls : k = Call(c, 0, rpcID[c])
    <3>1. rpcID[c] \in IDs /\ rpcID[c] # 0 /\ 0 \in 0 .. MaxReboots
      BY <1>0, <1>2, RpcAssumption DEF Issues, IDs
    <3>2. QED
      BY <3>1, CallFacts
  <2>2. k.clt = c /\ k.id = rpcID[c] /\ \A j \in Calls : j.clt = c /\ j.id = k.id => j = k
    BY <2>1, CallFacts DEF Call
  <2>3. outcome[k] = "none" /\ outcome' = outcome /\ ~Pending(c) /\ Pending(c)' /\ request'[c].id = k.id
    BY <1>0, <1>2, <2>2, BootFacts DEF OutcomesAgree, Issues
  <2>4. callStatus[k] = "new" /\ callStatus'[k] = "pending"
    BY <2>2, <2>3, StatusFacts, StatusFactsNext
  <2>5. \A j \in Calls : j.clt = c => callStatus[j] # "pending"
    BY <1>0, <2>3, StatusFacts
  <2>6. \A j \in Calls : j # k => callStatus'[j] = callStatus[j]
    <3>1. \A j \in Calls : j.clt # c => callStatus'[j] = callStatus[j]
      <4>1. \A j \in Calls : j.clt # c =>
               (Pending(j.clt)' <=> Pending(j.clt)) /\ request'[j.clt].id = request[j.clt].id
        BY BootFacts DEF Unmoved
      <4>2. QED
        BY <1>0, <2>3, <4>1, StatusFacts, StatusFactsNext
    <3>2. \A j \in Calls : j.clt = c /\ j # k => callStatus'[j] = callStatus[j]
      BY <1>0, <2>2, <2>3, StatusFacts, StatusFactsNext
    <3>3. QED
      BY <3>1, <3>2
  <2>7. callStatus' = [callStatus EXCEPT ![k] = "pending"]
    BY <2>4, <2>6, StatusFacts, StatusFactsNext
  <2>8. Service!Issue(k)
    BY <2>2, <2>4, <2>5, <2>7 DEF Service!Issue
  <2>9. QED
    BY <2>8 DEF Service!Next
<1>3. ASSUME NEW how, Ends(c, how) PROVE [Service!Next]_(Service!vars)
  <2>1. PICK k \in Calls : k = CurrentCall(c)
    BY <1>3, BootFacts DEF Ends
  <2>2. k.clt = c /\ k.id = request[c].id /\ \A j \in Calls : j.clt = c /\ j.id = k.id => j = k
    BY <2>1, BootFacts
  <2>3. /\ outcome[k] = "none" /\ outcome'[k] = how /\ \A j \in Calls : j # k => outcome'[j] = outcome[j]
        /\ Pending(c) /\ ~Pending(c)'
    BY <1>0, <1>3, <2>1, <2>2, BootFacts DEF OutcomesAgree, Ends
  <2>4. /\ callStatus[k] = "pending"
        /\ how = "reply" => callStatus'[k] = "answered"
        /\ how = "timeout" => callStatus'[k] = "aborted"
    BY <2>2, <2>3, StatusFacts, StatusFactsNext
  <2>5. \A j \in Calls : j # k => callStatus'[j] = callStatus[j]
    <3>1. \A j \in Calls : j.clt # c => callStatus'[j] = callStatus[j]
      <4>1. \A j \in Calls : j.clt # c =>
               (Pending(j.clt)' <=> Pending(j.clt)) /\ request'[j.clt].id = request[j.clt].id
        BY BootFacts DEF Unmoved
      <4>2. \A j \in Calls : j.clt # c => outcome'[j] = outcome[j]
        BY <2>2, <2>3
      <4>3. QED
        BY <1>0, <4>1, <4>2, StatusFacts, StatusFactsNext
    <3>2. \A j \in Calls : j.clt = c /\ j # k => callStatus'[j] = callStatus[j]
      BY <1>0, <2>2, <2>3, StatusFacts, StatusFactsNext
    <3>3. QED
      BY <3>1, <3>2
  <2>6. callStatus' = [callStatus EXCEPT ![k] = callStatus'[k]]
    BY <2>5, StatusFacts, StatusFactsNext
  <2>7. CASE how = "reply"
    <3>1. execs[k] = 1
      BY <1>0, <1>3, <2>1, <2>7 DEF Ends, AtMostOnce
    <3>2. Service!Answer(k)
      BY <2>4, <2>6, <2>7, <3>1 DEF Service!Answer
    <3>3. QED
      BY <3>2 DEF Service!Next
  <2>8. CASE how = "timeout"
    <3>1. Service!Abort(k)
      BY <2>4, <2>6, <2>8 DEF Service!Abort
    <3>2. QED
      BY <3>1 DEF Service!Next
  <2>9. QED
    BY <1>3, <2>7, <2>8 DEF Ends
<1>4. QED
  BY <1>1, <1>2, <1>3
\* ServerRun executes a call that was issued and not answered, before any later one
\* of its client.
LEMMA RunService ==
    ASSUME MaxReboots = 0, TypeInv, ProbeInv, OnceInv, OutcomesAgree, NEW s \in ServerIDs, ServerRun(s),
           UNCHANGED <<cpc, request, bootID, outcome>>
    PROVE  Service!Next
<1>0. /\ outcome \in [Calls -> {"none", "reply", "timeout", "crash"}] /\ execs \in [Calls -> 0 .. 2]
      /\ ServerOK(s) /\ ToRunAt(s)
  BY DEF TypeInv, ClientTypes, ServerTypes, OnceInv, ToRun
<1>1. PICK k \in Calls : k = requestHdr[s].call
  BY <1>0 DEF ServerRun, ServerOK
<1>2. execs[k] = 0 /\ \A j \in Calls : Later(j, k) => ~Seen(j)
  BY <1>0, <1>1 DEF ServerRun, ToRunAt
<1>3. k.id <= request[k.clt].id
  BY <1>1, BootFacts DEF OnceInv, SeenInOrder, SeenAt, Seen
<1>4. callStatus[k] \in {"pending", "aborted"}
  <2>1. CASE outcome[k] = "none"
    BY <1>3, <2>1, StatusFacts DEF OutcomesAgree
  <2>2. CASE outcome[k] # "none"
    BY <1>0, <1>2, <2>2, StatusFacts DEF OutcomesAgree
  <2>3. QED
    BY <2>1, <2>2
<1>5. \A j \in Calls : Service!Earlier(k, j) => execs[j] = 0
  <2>1. \A j \in Calls : Service!Earlier(k, j) => Later(j, k)
    BY CallFacts, RpcAssumption DEF Service!Earlier, Later, IDs
  <2>2. QED
    BY <1>2, <2>1 DEF Seen
<1>6. execs' = [execs EXCEPT ![k] = 1]
  BY <1>0, <1>1, <1>2 DEF ServerRun
<1>7. callStatus' = callStatus
  BY DEF callStatus, Pending, CurrentCall
<1>8. Service!Execute(k)
  BY <1>2, <1>4, <1>5, <1>6, <1>7 DEF Service!Execute
<1>9. QED
  BY <1>8 DEF Service!Next

LEMMA NextService ==
    ASSUME MaxReboots = 0, ProbeInv, TypeInv', ResultsAgree, OnceInv, OutcomesAgree, [Next]_vars
    PROVE  [Service!Next]_(Service!vars)
<1>0. TypeInv /\ AtMostOnce
  BY DEF ProbeInv, OnceInv
<1>1. ASSUME NEW c \in Clients, Rpc_Call(c) \/ ClientProcess(c) \/ Rpc_Timeout(c) \/ Reboot(c)
      PROVE  [Service!Next]_(Service!vars)
  <2>1. UNCHANGED execs
    BY <1>1, ClientExecs
  <2>2. /\ \A b \in Clients \ {c} : Unmoved(b)
        /\ (Unmoved(c) /\ outcome' = outcome) \/ Issues(c) \/ \E how : Ends(c, how)
    BY <1>0, <1>1, ClientMoves
  <2>3. QED
    BY <1>0, <2>1, <2>2, MovesService
<1>2. CASE \/ UNCHANGED vars \/ ClientArrival \/ ServerArrival \/ LosePacket
           \/ \E s \in ServerIDs : ServerProcess(s) \/ \E maxed \in BOOLEAN : Reclaim(s, maxed)
  <2>1. /\ UNCHANGED <<cpc, request, rpcID, bootID, outcome>>
        /\ UNCHANGED execs \/ \E s \in ServerIDs : ServerRun(s)
    BY <1>2, OtherMoves
  <2>2. callStatus' = callStatus
    BY <2>1 DEF callStatus, Pending, CurrentCall
  <2>3. CASE UNCHANGED execs
    BY <2>2, <2>3 DEF Service!vars
  <2>4. CASE \E s \in ServerIDs : ServerRun(s)
    BY <1>0, <2>1, <2>4, RunService
  <2>5. QED
    BY <2>1, <2>3, <2>4
<1>3. QED
  BY <1>1, <1>2 DEF Next

\* The protocol takes no step that the service of RpcService does not allow: a call is
\* executed at most once and before the later calls of its channel, it is answered only
\* if it was executed, and the retransmissions, acknowledgements, probes and reclaimed
\* servers are invisible to its caller.  No client reboots, and either there are one
\* client and one server or no server is taken from its client.
THEOREM RpcImplementsService ==
    ASSUME Orderly, MaxReboots = 0
    PROVE  Spec /\ [](Pair \/ Calm) => Service!Init /\ [][Service!Next]_(Service!vars)
<1>1. Init => OnceInv /\ OutcomesAgree /\ Service!Init
  <2> SUFFICES ASSUME Init PROVE OnceInv /\ OutcomesAgree /\ Service!Init
    OBVIOUS
  <2>1. \A c \in Clients : ~Pending(c) /\ request[c].id = 0 /\ rpcID[c] = 1
    BY DEF Init, Pending
  <2>2. OutcomesAgree
    BY <2>1, CallFacts, RpcAssumption DEF Init, OutcomesAgree, IDs
  <2>3. Service!Init
    BY <2>1, CallFacts DEF Init, Service!Init, callStatus
  <2>4. QED
    BY <2>2, <2>3, InitOnce
<1>2. ProbeInv /\ OnceInv /\ (Pair \/ Calm) /\ (Pair \/ Calm)' /\ [Next]_vars => OnceInv'
  BY NextOnce DEF Pair
<1>3. ProbeInv /\ ResultsAgree /\ OutcomesAgree /\ [Next]_vars => OutcomesAgree'
  BY NextOutcomes DEF ProbeInv
<1>4. ProbeInv /\ ProbeInv' /\ ResultsAgree /\ OnceInv /\ OutcomesAgree /\ [Next]_vars
        => [Service!Next]_(Service!vars)
  BY NextService DEF ProbeInv
<1>5. QED
  BY <1>1, <1>2, <1>3, <1>4, ProbeInvariant, ResultsInvariant, PTL DEF Spec
=============================================================================
