--------------------------- MODULE RpcChannelProofs ---------------------------
(***************************************************************************)
(* Proofs about the client channel pool, for any number of processes,      *)
(* servers and channels.  Ramping channels down on a multiprocessor is     *)
(* excluded: there RpcChanAlloc may take an unused channel that            *)
(* RpcChanClose has borrowed, and the properties fail.                     *)
(***************************************************************************)
EXTENDS RpcChannel, FiniteSetTheorems, TLAPS

\* Each channel is in exactly one of three hands: free, held by a process, or
\* borrowed by RpcChanClose.
Partition ==
    /\ \A c \in closing : state[c] = {"FREE", "BUSY"}
    /\ \A c \in Channels :
           IsFree(c) \/ c \in closing \/ \E p \in Procs : pc[p] = "rpc" /\ mine[p] = c

\* What the two switches exclude, and the argument of a call under way.
Switches ==
    /\ ~Multiprocessor => closing = {}
    /\ ~ChannelNegAcks => /\ \A s \in Servers : unhappy[s] = "no"
                          /\ \A p \in Procs : pc[p] # "nacked"
    /\ \A p \in Procs : pc[p] # "idle" => target[p] \in Servers

ChannelInv == TypeOK /\ FreeCountExact /\ ChannelDedicated /\ Partition /\ Switches

Hypothesis == ~Multiprocessor \/ ~ChannelNegAcks
-----------------------------------------------------------------------------
\* The set of free channels of the table is finite, and so is countable.
LEMMA FreeFinite == IsFiniteSet(FreeChannels) /\ Cardinality(FreeChannels) \in 0 .. NumChannels
<1>1. IsFiniteSet(Channels) /\ Cardinality(Channels) = NumChannels
  BY FS_Interval, ChannelAssumption DEF Channels
<1>2. FreeChannels \in SUBSET Channels
  BY DEF FreeChannels
<1>3. QED
  BY <1>1, <1>2, FS_Subset, FS_CardinalityType, ChannelAssumption

\* Marking one free channel busy takes exactly one from the count.
LEMMA CountAcquire ==
    ASSUME NEW c \in FreeChannels, FreeCountExact, FreeChannels' = FreeChannels \ {c},
           numFreeChannels' = numFreeChannels - 1
    PROVE  FreeCountExact' /\ numFreeChannels' \in 0 .. NumChannels
<1>1. Cardinality(FreeChannels \ {c}) = Cardinality(FreeChannels) - 1
  BY FreeFinite, FS_RemoveElement
<1>2. Cardinality(FreeChannels \ {c}) \in Nat
  BY FreeFinite, FS_RemoveElement, FS_CardinalityType
<1>3. QED
  BY <1>1, <1>2, FreeFinite, ChannelAssumption DEF FreeCountExact

\* Giving one busy channel back adds exactly one to the count.
LEMMA CountRelease ==
    ASSUME NEW c \in Channels \ FreeChannels, FreeCountExact,
           FreeChannels' = FreeChannels \cup {c},
           numFreeChannels' = numFreeChannels + 1
    PROVE  FreeCountExact' /\ numFreeChannels' \in 0 .. NumChannels
<1>1. Cardinality(FreeChannels \cup {c}) = Cardinality(FreeChannels) + 1
  BY FreeFinite, FS_AddElement
<1>2. IsFiniteSet(Channels) /\ Cardinality(Channels) = NumChannels
  BY FS_Interval, ChannelAssumption DEF Channels
<1>3. FreeChannels \cup {c} \in SUBSET Channels
  BY DEF FreeChannels
<1>4. Cardinality(FreeChannels \cup {c}) <= NumChannels
  BY <1>2, <1>3, FS_Subset
<1>5. QED
  BY <1>1, <1>4, FreeFinite, ChannelAssumption DEF FreeCountExact

\* What RpcChanAlloc does at the label "found" with a channel that is free.
LEMMA TakePreserves ==
    ASSUME ChannelInv, NEW p \in Procs, NEW c \in FreeChannels, pc[p] = "alloc",
           Take(p, c, target[p]), UNCHANGED <<target, closing>>,
           \/ UNCHANGED unhappy
           \/ unhappy' = [unhappy EXCEPT ![target[p]] = "no"]
    PROVE  ChannelInv'
<1> USE DEF ChannelInv, Take
<1>0. c \in Channels /\ IsFree(c) /\ target[p] \in Servers /\ c \notin closing
  BY DEF FreeChannels, Switches, Partition, IsFree
<1>1. FreeChannels' = FreeChannels \ {c}
  BY <1>0 DEF FreeChannels, IsFree, TypeOK
<1>2. FreeCountExact' /\ numFreeChannels' \in 0 .. NumChannels
  BY <1>1, CountAcquire
<1>3. TypeOK'
  BY <1>0, <1>2 DEF TypeOK, ChanBits
<1>4. \A q \in Procs : pc[q] = "rpc" => mine[q] # c
  BY <1>0 DEF ChannelDedicated, IsFree
<1>5. ChannelDedicated'
  BY <1>0, <1>4 DEF ChannelDedicated, TypeOK
<1>6. Partition'
  BY <1>0 DEF Partition, TypeOK, IsFree
<1>7. Switches'
  BY <1>0 DEF Switches, TypeOK
<1>8. QED
  BY <1>2, <1>3, <1>5, <1>6, <1>7

\* A process that only falls asleep or panics disturbs nothing.
LEMMA ParkPreserves ==
    ASSUME ChannelInv, NEW p \in Procs, NEW next \in {"sleep", "panic"}, pc[p] = "alloc",
           pc' = [pc EXCEPT ![p] = next],
           UNCHANGED <<state, serverID, numFreeChannels, mine, target, closing>>,
           \/ UNCHANGED unhappy
           \/ unhappy' = [unhappy EXCEPT ![target[p]] = "no"]
    PROVE  ChannelInv'
<1> USE DEF ChannelInv
<1>1. target[p] \in Servers
  BY DEF Switches
<1>2. TypeOK'
  BY <1>1 DEF TypeOK
<1>3. FreeCountExact'
  BY DEF FreeCountExact, FreeChannels, IsFree
<1>4. ChannelDedicated'
  BY DEF ChannelDedicated, TypeOK
<1>5. Partition'
  BY DEF Partition, TypeOK, IsFree
<1>6. Switches'
  BY <1>1 DEF Switches, TypeOK
<1>7. QED
  BY <1>2, <1>3, <1>4, <1>5, <1>6

\* Under the hypothesis every candidate of RpcChanAlloc is a free channel.
LEMMA AllocPreserves ==
    ASSUME Hypothesis, ChannelInv, NEW p \in Procs, RpcChanAlloc(p)
    PROVE  ChannelInv'
<1> DEFINE s == target[p]
<1>1. s \in Servers /\ pc[p] = "alloc"
  BY DEF ChannelInv, Switches, RpcChanAlloc
<1>2. CASE numFreeChannels < 1 /\ Sleep(p) /\ UNCHANGED unhappy
  BY <1>1, <1>2, ParkPreserves DEF RpcChanAlloc, Sleep
<1>3. CASE numFreeChannels >= 1 /\ AllocCongested(p, s)
  <2>1. unhappy[s] = "recent" /\ UNCHANGED unhappy /\ UNCHANGED <<target, closing>>
    BY <1>3 DEF AllocCongested, RpcChanAlloc
  <2>2. closing = {}
    BY <2>1, <1>1 DEF Hypothesis, ChannelInv, Switches
  <2>3. Unused \subseteq FreeChannels
    BY <2>2, ChannelAssumption
       DEF Unused, FreeChannels, IsFree, ChannelInv, Partition, ChannelDedicated, Switches
  <2>4. FreeMatch(s) \subseteq FreeChannels /\ FreeOther(s) \subseteq FreeChannels
    BY DEF FreeMatch, FreeOther, FreeChannels
  <2>5. CASE \E c \in FreeChannels : Take(p, c, s)
    BY <1>1, <2>1, <2>5, TakePreserves
  <2>6. CASE Sleep(p)
    BY <1>1, <2>1, <2>6, ParkPreserves DEF Sleep
  <2>7. CASE pc' = [pc EXCEPT ![p] = "panic"] /\ UNCHANGED <<state, serverID, numFreeChannels, mine>>
    BY <1>1, <2>1, <2>7, ParkPreserves
  <2>8. QED
    BY <1>3, <2>3, <2>4, <2>5, <2>6, <2>7 DEF AllocCongested, TakeOther
<1>4. CASE numFreeChannels >= 1 /\ AllocRegular(p, s)
  <2>1. unhappy' = [unhappy EXCEPT ![s] = "no"] /\ UNCHANGED <<target, closing>>
    BY <1>4 DEF AllocRegular, RpcChanAlloc
  <2>2. /\ FreeUnused \subseteq FreeChannels
        /\ FreeMatch(s) \subseteq FreeChannels /\ FreeOther(s) \subseteq FreeChannels
    BY DEF FreeMatch, FreeOther, FreeUnused, FreeChannels
  <2>3. CASE \E c \in FreeChannels : Take(p, c, s)
    BY <1>1, <2>1, <2>3, TakePreserves
  <2>4. CASE pc' = [pc EXCEPT ![p] = "panic"] /\ UNCHANGED <<state, serverID, numFreeChannels, mine>>
    BY <1>1, <2>1, <2>4, ParkPreserves
  <2>5. QED
    BY <1>4, <2>2, <2>3, <2>4 DEF AllocRegular, TakeOther
<1>5. QED
  BY <1>2, <1>3, <1>4 DEF RpcChanAlloc

\* RpcChanFree gives back a channel nobody else has.
LEMMA FreePreserves ==
    ASSUME ChannelInv, NEW p \in Procs, RpcChanFree(p)
    PROVE  ChannelInv'
<1> USE DEF ChannelInv
<1> DEFINE c == mine[p]
<1>0. /\ pc[p] = "rpc" /\ c \in Channels \ closing
      /\ state[c] = {"BUSY"}
      /\ \A q \in Procs : pc[q] = "rpc" /\ mine[q] = c => q = p
  BY DEF RpcChanFree, ChannelDedicated
<1>1. c \notin FreeChannels
  BY <1>0 DEF FreeChannels, IsFree
<1>2. FreeChannels' = FreeChannels \cup {c}
  BY <1>0 DEF RpcChanFree, FreeChannels, IsFree, TypeOK
<1>3. FreeCountExact' /\ numFreeChannels' \in 0 .. NumChannels
  BY <1>0, <1>1, <1>2, CountRelease DEF RpcChanFree
<1>4. PICK next \in {"idle", "nacked"} :
        /\ next = "nacked" => ChannelNegAcks
        /\ pc' = BroadcastAnd(p, next) \/ pc' = [pc EXCEPT ![p] = next]
  BY DEF RpcChanFree
<1>5. /\ pc' \in [Procs -> {"idle", "alloc", "sleep", "rpc", "nacked", "panic"}]
      /\ pc'[p] = next
      /\ \A q \in Procs \ {p} : pc'[q] = pc[q] \/ (pc[q] = "sleep" /\ pc'[q] = "alloc")
  BY <1>4 DEF BroadcastAnd, TypeOK
<1>6. TypeOK'
  BY <1>0, <1>3, <1>5 DEF TypeOK, ChanBits, RpcChanFree
<1>7. ChannelDedicated'
  BY <1>0, <1>5 DEF ChannelDedicated, TypeOK, RpcChanFree
<1>8. Partition'
  BY <1>0, <1>5 DEF Partition, TypeOK, IsFree, RpcChanFree
<1>9. Switches'
  BY <1>0, <1>4, <1>5 DEF Switches, TypeOK, RpcChanFree
<1>10. QED
  BY <1>3, <1>6, <1>7, <1>8, <1>9

\* RpcChanClose and RpcChanCloseDone borrow and return a free channel.
LEMMA ClosePreserves ==
    ASSUME ChannelInv, NEW c \in Channels, RpcChanClose(c) \/ RpcChanCloseDone(c)
    PROVE  ChannelInv'
<1> USE DEF ChannelInv
<1>1. CASE RpcChanClose(c)
  <2>1. c \in FreeChannels
    BY <1>1 DEF RpcChanClose, FreeChannels, Partition, ChannelDedicated
  <2>2. FreeChannels' = FreeChannels \ {c} /\ state'[c] = {"FREE", "BUSY"}
    BY <1>1, <2>1 DEF RpcChanClose, FreeChannels, IsFree, TypeOK
  <2>3. FreeCountExact' /\ numFreeChannels' \in 0 .. NumChannels
    BY <1>1, <2>1, <2>2, CountAcquire DEF RpcChanClose
  <2>4. TypeOK'
    BY <1>1, <2>3 DEF TypeOK, ChanBits, RpcChanClose
  <2>5. ChannelDedicated'
    BY <1>1, <2>1 DEF ChannelDedicated, TypeOK, RpcChanClose, FreeChannels, IsFree
  <2>6. Partition'
    BY <1>1, <2>2 DEF Partition, TypeOK, IsFree, RpcChanClose
  <2>7. Switches'
    BY <1>1 DEF Switches, TypeOK, RpcChanClose
  <2>8. QED
    BY <2>3, <2>4, <2>5, <2>6, <2>7
<1>2. CASE RpcChanCloseDone(c)
  <2>1. c \in closing /\ state[c] = {"FREE", "BUSY"}
    BY <1>2 DEF RpcChanCloseDone, Partition
  <2>2. FreeChannels' = FreeChannels \cup {c} /\ c \notin FreeChannels
    BY <1>2, <2>1 DEF RpcChanCloseDone, FreeChannels, IsFree, TypeOK
  <2>3. FreeCountExact' /\ numFreeChannels' \in 0 .. NumChannels
    BY <1>2, <2>2, CountRelease DEF RpcChanCloseDone
  <2>4. TypeOK'
    BY <1>2, <2>3 DEF TypeOK, ChanBits, RpcChanCloseDone
  <2>5. ChannelDedicated'
    BY <1>2, <2>1 DEF ChannelDedicated, TypeOK, RpcChanCloseDone
  <2>6. Partition'
    BY <1>2, <2>1 DEF Partition, TypeOK, IsFree, RpcChanCloseDone
  <2>7. Switches'
    BY <1>2 DEF Switches, TypeOK, RpcChanCloseDone
  <2>8. QED
    BY <2>3, <2>4, <2>5, <2>6, <2>7
<1>3. QED
  BY <1>1, <1>2

\* The initial state satisfies the invariant: every channel is free.
LEMMA InitChannelInv == Init => ChannelInv
<1> SUFFICES ASSUME Init PROVE ChannelInv
  OBVIOUS
<1> USE DEF Init
<1>1. FreeChannels = Channels
  BY DEF FreeChannels, IsFree
<1>2. Cardinality(FreeChannels) = NumChannels
  BY <1>1, FS_Interval, ChannelAssumption DEF Channels
<1>3. QED
  BY <1>2, ChannelAssumption
     DEF ChannelInv, TypeOK, ChanBits, FreeCountExact, ChannelDedicated, Partition, Switches, IsFree

\* The remaining actions touch neither the table nor the count.
LEMMA OtherPreserves ==
    ASSUME ChannelInv, UNCHANGED <<state, serverID, numFreeChannels, mine, closing>>,
           \/ \E p \in Procs : Rpc_Call(p) \/ SetChannelAllocState(p)
           \/ \E s \in Servers : CongestionExpires(s)
           \/ UNCHANGED vars
    PROVE  ChannelInv'
<1> USE DEF ChannelInv
<1>1. FreeCountExact'
  BY DEF FreeCountExact, FreeChannels, IsFree
<1>2. CASE \E p \in Procs : Rpc_Call(p)
  <2>1. PICK p \in Procs : Rpc_Call(p)
    BY <1>2
  <2>2. TypeOK' /\ ChannelDedicated'
    BY <2>1 DEF Rpc_Call, TypeOK, ChannelDedicated
  <2>3. Partition' /\ Switches'
    BY <2>1 DEF Rpc_Call, TypeOK, Partition, Switches, IsFree
  <2>4. QED
    BY <1>1, <2>2, <2>3
<1>3. CASE \E p \in Procs : SetChannelAllocState(p)
  <2>1. PICK p \in Procs : SetChannelAllocState(p)
    BY <1>3
  <2>2. ChannelNegAcks /\ target[p] \in Servers
    BY <2>1, ChannelAssumption DEF SetChannelAllocState, Switches
  <2>3. unhappy' \in [Servers -> {"no", "recent", "old"}]
    BY <2>1, <2>2 DEF SetChannelAllocState, TypeOK
  <2>4. TypeOK' /\ ChannelDedicated'
    BY <2>1, <2>3 DEF SetChannelAllocState, TypeOK, ChannelDedicated
  <2>5. Partition' /\ Switches'
    BY <2>1, <2>2 DEF SetChannelAllocState, TypeOK, Partition, Switches, IsFree
  <2>6. QED
    BY <1>1, <2>4, <2>5
<1>4. CASE \E s \in Servers : CongestionExpires(s)
  BY <1>1, <1>4 DEF CongestionExpires, TypeOK, ChannelDedicated, Partition, Switches, IsFree
<1>5. CASE UNCHANGED vars
  BY <1>1, <1>5 DEF vars, TypeOK, ChannelDedicated, Partition, Switches, IsFree
<1>6. QED
  BY <1>2, <1>3, <1>4, <1>5

\* Every step of the pool preserves the invariant, action by action.
LEMMA NextChannelInv == Hypothesis /\ ChannelInv /\ [Next]_vars => ChannelInv'
<1> SUFFICES ASSUME Hypothesis, ChannelInv, [Next]_vars PROVE ChannelInv'
  OBVIOUS
<1>1. ASSUME NEW p \in Procs, Rpc_Call(p) PROVE ChannelInv'
  BY <1>1, OtherPreserves DEF Rpc_Call
<1>2. ASSUME NEW p \in Procs, RpcChanAlloc(p) PROVE ChannelInv'
  BY <1>2, AllocPreserves
<1>3. ASSUME NEW p \in Procs, RpcChanFree(p) PROVE ChannelInv'
  BY <1>3, FreePreserves
<1>4. ASSUME NEW p \in Procs, SetChannelAllocState(p) PROVE ChannelInv'
  BY <1>4, OtherPreserves DEF SetChannelAllocState
<1>5. ASSUME NEW s \in Servers, CongestionExpires(s) PROVE ChannelInv'
  BY <1>5, OtherPreserves DEF CongestionExpires
<1>6. ASSUME NEW c \in Channels, RpcChanClose(c) \/ RpcChanCloseDone(c) PROVE ChannelInv'
  BY <1>6, ClosePreserves
<1>7. CASE UNCHANGED vars
  BY <1>7, OtherPreserves DEF vars
<1>8. QED
  BY <1>1, <1>2, <1>3, <1>4, <1>5, <1>6, <1>7 DEF Next, Proc

\* The invariant holds throughout every behaviour allowed by the hypothesis,
\* which speaks of constants only.
LEMMA ChannelInvariant == Hypothesis /\ Spec => [](Hypothesis /\ ChannelInv)
<1>1. Hypothesis /\ Init => Hypothesis /\ ChannelInv
  BY InitChannelInv
<1>2. (Hypothesis /\ ChannelInv) /\ [Next]_vars => (Hypothesis /\ ChannelInv)'
  BY NextChannelInv DEF Hypothesis
<1>3. QED
  BY <1>1, <1>2, PTL DEF Spec

\* Type correctness of the pool: in particular the count of free channels
\* stays between zero and rpcNumChannels.
THEOREM ChannelTypeCorrect == Hypothesis /\ Spec => []TypeOK
<1>1. ChannelInv => TypeOK
  BY DEF ChannelInv
<1>2. QED
  BY <1>1, ChannelInvariant, PTL

\* The counter RpcChanAlloc relies on always equals the number of channels
\* whose state is CHAN_FREE.
THEOREM FreeCountCorrect == Hypothesis /\ Spec => []FreeCountExact
<1>1. ChannelInv => FreeCountExact
  BY DEF ChannelInv
<1>2. QED
  BY <1>1, ChannelInvariant, PTL

\* A channel handed out by RpcChanAlloc belongs to one call until RpcChanFree.
THEOREM ChannelsDedicated == Hypothesis /\ Spec => []ChannelDedicated
<1>1. ChannelInv => ChannelDedicated
  BY DEF ChannelInv
<1>2. QED
  BY <1>1, ChannelInvariant, PTL
-----------------------------------------------------------------------------
\* Only RpcChanAlloc puts a process to sleep or reaches the panic, and a
\* process that still sleeps after RpcChanFree was not broadcast to.
LEMMA OnlyAllocParks ==
    ASSUME ChannelInv, [Next]_vars, NEW p \in Procs, pc'[p] \in {"sleep", "panic"}
    PROVE  pc'[p] = pc[p] \/ RpcChanAlloc(p)
<1> USE DEF ChannelInv
<1>1. ASSUME NEW q \in Procs, RpcChanAlloc(q), q # p PROVE pc'[p] = pc[p]
  BY <1>1 DEF RpcChanAlloc, AllocCongested, AllocRegular, TakeOther, Take, Sleep, TypeOK
<1>2. ASSUME NEW q \in Procs, Rpc_Call(q) \/ SetChannelAllocState(q) PROVE pc'[p] = pc[p]
  BY <1>2 DEF Rpc_Call, SetChannelAllocState, TypeOK
<1>3. ASSUME NEW q \in Procs, RpcChanFree(q) PROVE pc'[p] = pc[p]
  BY <1>3 DEF RpcChanFree, BroadcastAnd, TypeOK
<1>4. ASSUME NEW s \in Servers, CongestionExpires(s) PROVE pc'[p] = pc[p]
  BY <1>4 DEF CongestionExpires
<1>5. ASSUME NEW c \in Channels, RpcChanClose(c) \/ RpcChanCloseDone(c) PROVE pc'[p] = pc[p]
  BY <1>5 DEF RpcChanClose, RpcChanCloseDone
<1>6. CASE UNCHANGED vars
  BY <1>6 DEF vars
<1>7. QED
  BY <1>1, <1>2, <1>3, <1>4, <1>5, <1>6 DEF Next, Proc

\* When the count admits a caller, the table has a channel for it: with no
\* congested server the search of RpcChanAlloc cannot fail.
LEMMA SearchSucceeds ==
    ASSUME ChannelInv, ~ChannelNegAcks, Running, [Next]_vars
    PROVE  Running'
<1> SUFFICES ASSUME NEW p \in Procs, pc'[p] = "panic" PROVE FALSE
  BY DEF Running
<1> USE DEF ChannelInv
<1>1. RpcChanAlloc(p) /\ pc[p] = "alloc"
  BY OnlyAllocParks DEF Running, RpcChanAlloc
<1>2. target[p] \in Servers /\ unhappy[target[p]] = "no"
  BY <1>1 DEF Switches
<1>3. /\ numFreeChannels >= 1
      /\ FreeMatch(target[p]) = {} /\ FreeUnused = {} /\ FreeOther(target[p]) = {}
  BY <1>1, <1>2 DEF RpcChanAlloc, AllocCongested, AllocRegular, TakeOther, Take, Sleep, TypeOK
<1>4. FreeChannels = {}
  BY <1>3 DEF FreeMatch, FreeUnused, FreeOther, FreeChannels
<1>5. QED
  BY <1>3, <1>4, FS_EmptySet DEF FreeCountExact

\* RpcChanAlloc never reaches its panic while channels are not ramped down, on
\* one processor or several.
THEOREM ChannelNeverPanics == ~ChannelNegAcks /\ Spec => []NeverPanics
<1>1. ~ChannelNegAcks /\ Init => ~ChannelNegAcks /\ ChannelInv /\ Running
  BY InitChannelInv DEF Init, Running
<1>2. (~ChannelNegAcks /\ ChannelInv /\ Running) /\ [Next]_vars
        => (~ChannelNegAcks /\ ChannelInv /\ Running)'
  BY NextChannelInv, SearchSucceeds DEF Hypothesis
<1>3. (~ChannelNegAcks /\ ChannelInv /\ Running) => NeverPanics
  BY DEF NeverPanics
<1>4. QED
  BY <1>1, <1>2, <1>3, PTL DEF Spec

\* While there is only one processor, an empty pool means that some process is
\* in an RPC.
LEMMA EmptyPoolIsHeld ==
    ASSUME ChannelInv, ~Multiprocessor, numFreeChannels = 0
    PROVE  \E q \in Procs : pc[q] = "rpc"
<1>1. FreeChannels = {}
  BY FreeFinite, FS_EmptySet DEF ChannelInv, FreeCountExact
<1>2. 0 \in Channels /\ ~IsFree(0)
  BY <1>1, ChannelAssumption DEF Channels, FreeChannels
<1>3. QED
  BY <1>2 DEF ChannelInv, Partition, Switches

\* A step never leaves a sleeper behind without a process bound to wake it.
LEMMA WakerPreserved ==
    ASSUME ChannelInv, ChannelInv', ~Multiprocessor, SleeperHasWaker, [Next]_vars
    PROVE  SleeperHasWaker'
<1> SUFFICES ASSUME NEW p \in Procs, pc'[p] = "sleep"
             PROVE  \E q \in Procs : /\ pc'[q] = "rpc"
                                    /\ \/ numFreeChannels' = 0
                                       \/ ChannelNegAcks /\ target'[q] = target'[p]
  BY DEF SleeperHasWaker
<1> USE DEF ChannelInv
<1>0. numFreeChannels' = 0 => \E q \in Procs : pc'[q] = "rpc"
  <2>1. (ChannelInv /\ ~Multiprocessor /\ numFreeChannels = 0 => \E q \in Procs : pc[q] = "rpc")'
    BY EmptyPoolIsHeld, PTL
  <2>2. QED
    BY <2>1
<1>1. CASE pc[p] = "sleep"
  <2>1. PICK q \in Procs : /\ pc[q] = "rpc"
                           /\ \/ numFreeChannels = 0
                              \/ ChannelNegAcks /\ target[q] = target[p]
    BY <1>1 DEF SleeperHasWaker
  <2>2. ASSUME NEW r \in Procs, RpcChanFree(r) PROVE FALSE
    BY <1>1, <2>1, <2>2 DEF RpcChanFree, BroadcastAnd, TypeOK
  <2>3. ASSUME NEW r \in Procs, RpcChanAlloc(r)
        PROVE  pc'[q] = "rpc" /\ target' = target /\ (numFreeChannels = 0 => numFreeChannels' = 0)
    BY <2>1, <2>3 DEF RpcChanAlloc, AllocCongested, AllocRegular, TakeOther, Take, Sleep, TypeOK
  <2>4. ASSUME NEW r \in Procs, Rpc_Call(r) \/ SetChannelAllocState(r)
        PROVE  /\ pc'[q] = "rpc" /\ numFreeChannels' = numFreeChannels
               /\ target'[q] = target[q] /\ target'[p] = target[p]
    BY <1>1, <2>1, <2>4 DEF Rpc_Call, SetChannelAllocState, TypeOK
  <2>5. ASSUME NEW c \in Channels, RpcChanClose(c) \/ RpcChanCloseDone(c) PROVE FALSE
    BY <2>5 DEF RpcChanClose, RpcChanCloseDone, Switches
  <2>6. CASE (\E s \in Servers : CongestionExpires(s)) \/ UNCHANGED vars
    BY <2>1, <2>6 DEF CongestionExpires, vars
  <2>7. QED
    BY <2>1, <2>2, <2>3, <2>4, <2>5, <2>6 DEF Next, Proc
<1>2. CASE pc[p] # "sleep"
  <2>1. RpcChanAlloc(p) /\ target' = target
    BY <1>2, OnlyAllocParks DEF RpcChanAlloc
  <2>2. CASE numFreeChannels < 1
    <3>1. numFreeChannels' = 0
      BY <2>1, <2>2 DEF RpcChanAlloc, Sleep, TypeOK
    <3>2. QED
      BY <1>0, <3>1
  <2>3. CASE numFreeChannels >= 1
    <3>1. /\ unhappy[target[p]] = "recent" /\ BusyMatch(target[p]) # {}
          /\ pc' = [pc EXCEPT ![p] = "sleep"]
      BY <2>1, <2>3 DEF RpcChanAlloc, AllocCongested, AllocRegular, TakeOther, Take, Sleep, TypeOK
    <3>2. ChannelNegAcks
      BY <2>1, <3>1, <1>2 DEF Switches, RpcChanAlloc
    <3>3. PICK c \in Channels : serverID[c] = target[p] /\ ~IsFree(c)
      BY <3>1 DEF BusyMatch
    <3>4. PICK q \in Procs : pc[q] = "rpc" /\ target[q] = target[p]
      BY <3>3 DEF Partition, Switches, ChannelDedicated
    <3>5. pc'[q] = "rpc"
      BY <2>1, <3>1, <3>4 DEF RpcChanAlloc, TypeOK
    <3>6. QED
      BY <2>1, <3>2, <3>4, <3>5
  <2>4. QED
    BY <2>2, <2>3 DEF TypeOK
<1>3. QED
  BY <1>1, <1>2

\* On one processor no process sleeps in RpcChanAlloc unless an RPC is under
\* way whose RpcChanFree will wake it: no wakeup is lost.
THEOREM NoLostWakeup == ~Multiprocessor /\ Spec => []SleeperHasWaker
<1> DEFINE I == ~Multiprocessor /\ ChannelInv /\ SleeperHasWaker
<1>1. ~Multiprocessor /\ Init => I
  BY InitChannelInv DEF Init, SleeperHasWaker
<1>2. I /\ [Next]_vars => I'
  BY NextChannelInv, WakerPreserved DEF Hypothesis
<1>3. I => SleeperHasWaker
  OBVIOUS
<1> HIDE DEF I
<1>4. ~Multiprocessor /\ Spec => []I
  BY <1>1, <1>2, PTL DEF Spec
<1>5. QED
  BY <1>3, <1>4, PTL
=============================================================================
