---------------------------- MODULE RpcNackProofs ----------------------------
(***************************************************************************)
(* Proofs about the negative acknowledgement buffers, for any number of    *)
(* buffers and of calls of NegAckFunc.                                     *)
(***************************************************************************)
EXTENDS RpcNack, FiniteSetTheorems, TLAPS

\* The type invariant and the three safety properties are inductive together.
NackInv == TypeOK /\ NackCountExact /\ WaitingCovered /\ OneSender

\* The set of free buffers is finite and no larger than the table.
LEMMA FreeBuffersFinite ==
    ASSUME NEW S \in SUBSET Buffers
    PROVE  IsFiniteSet(S) /\ Cardinality(S) \in 0 .. NumNackBuffers
<1>1. IsFiniteSet(Buffers) /\ Cardinality(Buffers) = NumNackBuffers
  BY FS_Interval, NackAssumption DEF Buffers
<1>2. QED
  BY <1>1, FS_Subset, FS_CardinalityType, NackAssumption

\* The table is set up by RpcSetNackBufs.
LEMMA InitNackInv == Init => NackInv
<1> SUFFICES ASSUME Init PROVE NackInv
  OBVIOUS
<1>1. InState("FREE") = Buffers /\ InState("WAITING") = {}
  BY DEF Init, InState
<1>2. Cardinality(Buffers) = NumNackBuffers
  BY FS_Interval, NackAssumption DEF Buffers
<1>3. QED
  BY <1>1, <1>2, NackAssumption
     DEF Init, NackInv, TypeOK, NackCountExact, WaitingCovered, OneSender, Buffers, Returned, NotBegun

\* RpcServerDispatch takes one buffer, and leaves it to a call that is still
\* before it or to a new one.
LEMMA DispatchPreserves ==
    ASSUME NackInv, RpcServerDispatch
    PROVE  NackInv'
<1> USE NackAssumption DEF NackInv, Buffers, NotBegun, Returned
<1>1. PICK k \in InState("FREE") :
        /\ hdrState' = [hdrState EXCEPT ![k] = "WAITING"]
        /\ numFree' = numFree - 1
        /\ \/ UNCHANGED at /\ FuncIsBefore(k)
           \/ CallFunc
  BY DEF RpcServerDispatch
<1>2. k \in Buffers /\ hdrState[k] = "FREE"
  BY DEF InState
<1>3. /\ InState("FREE")' = InState("FREE") \ {k}
      /\ InState("WAITING")' = InState("WAITING") \cup {k}
  BY <1>1, <1>2 DEF InState, TypeOK
<1>4. NackCountExact' /\ numFree' \in 0 .. NumNackBuffers
  <2>1. InState("FREE") \in SUBSET Buffers /\ InState("FREE") \ {k} \in SUBSET Buffers
    BY DEF InState
  <2>2. /\ Cardinality(InState("FREE") \ {k}) = Cardinality(InState("FREE")) - 1
        /\ Cardinality(InState("FREE") \ {k}) \in 0 .. NumNackBuffers
    BY <2>1, FreeBuffersFinite, FS_RemoveElement
  <2>3. QED
    BY <1>1, <1>3, <2>2 DEF NackCountExact
<1>5. at' \in [Funcs -> NotBegun .. Returned]
  BY <1>1 DEF TypeOK, CallFunc
<1>6. TypeOK'
  BY <1>1, <1>4, <1>5 DEF TypeOK
<1>7. OneSender'
  BY <1>1, <1>2, SMTT(60) DEF OneSender, TypeOK, CallFunc
<1>8. WaitingCovered'
  <2>1. CASE UNCHANGED at /\ FuncIsBefore(k)
    BY <1>2, <1>3, <2>1 DEF WaitingCovered, FuncIsBefore, InState, TypeOK
  <2>2. CASE CallFunc
    <3>1. \E f \in Funcs : at'[f] = -1
      BY <2>2 DEF CallFunc, TypeOK
    <3>2. QED
      BY <3>1 DEF WaitingCovered, InState
  <2>3. QED
    BY <1>1, <2>1, <2>2
<1>9. QED
  BY <1>4, <1>6, <1>7, <1>8

\* A call of NegAckFunc moves its loop to the next waiting buffer of the table
\* st, in which no waiting buffer differs from hdrState.
LEMMA ScanPreserves ==
    ASSUME NackInv, NEW f \in Funcs, at[f] # Returned,
           NEW st \in [Buffers -> {"FREE", "WAITING", "XMITTING"}],
           \A i \in Buffers : st[i] = IF i = at[f] THEN "FREE" ELSE hdrState[i],
           ScanOn(f, st)
    PROVE  /\ hdrState' \in [Buffers -> {"FREE", "WAITING", "XMITTING"}]
           /\ at' \in [Funcs -> NotBegun .. Returned]
           /\ InState("FREE")' = InState("FREE") \cup ({at[f]} \cap Buffers)
           /\ WaitingCovered' /\ OneSender'
<1> USE NackAssumption DEF NackInv, Buffers, NotBegun, Returned
<1> DEFINE waiting == {i \in Buffers : st[i] = "WAITING" /\ i > at[f]}
<1>0. at \in [Funcs -> NotBegun .. Returned] /\ at[f] \in -1 .. NumNackBuffers - 1
  BY DEF TypeOK
<1>1. \A i \in Buffers : st[i] = "WAITING" =>
        i \in waiting \/ \E g \in Funcs : g # f /\ at[g] < i
  BY <1>0 DEF WaitingCovered, InState, TypeOK
<1>2. \A i \in waiting : hdrState[i] = "WAITING" /\ \A g \in Funcs : at[g] # i
  BY DEF OneSender
<1>3. CASE \E i \in waiting : /\ First(i, waiting)
                              /\ hdrState' = [st EXCEPT ![i] = "XMITTING"]
                              /\ at' = [at EXCEPT ![f] = i]
  <2>1. PICK i \in waiting : /\ First(i, waiting)
                             /\ hdrState' = [st EXCEPT ![i] = "XMITTING"]
                             /\ at' = [at EXCEPT ![f] = i]
    BY <1>3
  <2>2. /\ hdrState' \in [Buffers -> {"FREE", "WAITING", "XMITTING"}]
        /\ at' \in [Funcs -> NotBegun .. Returned]
    BY <1>0, <2>1
  <2>3. InState("FREE")' = InState("FREE") \cup ({at[f]} \cap Buffers)
    BY <1>2, <2>1 DEF InState
  <2>4. WaitingCovered'
    <3>1. SUFFICES ASSUME NEW j \in Buffers, hdrState'[j] = "WAITING"
                   PROVE  \E g \in Funcs : at'[g] < j
      BY DEF WaitingCovered, InState
    <3>2. st[j] = "WAITING" /\ j # i
      BY <2>1, <3>1
    <3>3. CASE j \in waiting
      BY <1>0, <2>1, <3>2, <3>3 DEF First
    <3>4. CASE \E g \in Funcs : g # f /\ at[g] < j
      BY <1>0, <2>1, <3>4
    <3>5. QED
      BY <1>1, <3>2, <3>3, <3>4
  <2>5. OneSender'
    BY <1>0, <1>2, <2>1 DEF OneSender
  <2>6. QED
    BY <2>2, <2>3, <2>4, <2>5
<1>4. CASE waiting = {} /\ hdrState' = st /\ at' = [at EXCEPT ![f] = Returned]
  <2>1. /\ at' \in [Funcs -> NotBegun .. Returned]
        /\ InState("FREE")' = InState("FREE") \cup ({at[f]} \cap Buffers)
    BY <1>0, <1>4 DEF InState
  <2>2. WaitingCovered'
    BY <1>0, <1>1, <1>4 DEF WaitingCovered, InState
  <2>3. OneSender'
    BY <1>0, <1>4 DEF OneSender
  <2>4. QED
    BY <1>4, <2>1, <2>2, <2>3
<1>5. QED
  BY <1>3, <1>4 DEF ScanOn

\* The two steps of a call: its beginning, and the end of a transmission.
LEMMA NegAckPreserves ==
    ASSUME NackInv, NEW f \in Funcs, NegAckFunc(f) \/ NegAckSent(f)
    PROVE  NackInv'
<1> USE NackAssumption DEF NackInv
<1>1. CASE NegAckFunc(f)
  <2>1. at[f] = -1 /\ -1 \notin Buffers /\ at[f] # Returned
    BY <1>1 DEF NegAckFunc, NotBegun, Buffers, Returned
  <2>2. /\ hdrState' \in [Buffers -> {"FREE", "WAITING", "XMITTING"}]
        /\ at' \in [Funcs -> NotBegun .. Returned]
        /\ InState("FREE")' = InState("FREE") \cup ({at[f]} \cap Buffers)
        /\ WaitingCovered' /\ OneSender'
    BY <1>1, <2>1, ScanPreserves DEF NegAckFunc, TypeOK
  <2>3. InState("FREE")' = InState("FREE") /\ numFree' = numFree
    BY <1>1, <2>1, <2>2 DEF NegAckFunc
  <2>4. QED
    BY <2>2, <2>3 DEF TypeOK, NackCountExact
<1>2. CASE NegAckSent(f)
  <2>1. at[f] \in Buffers /\ at[f] # Returned /\ hdrState[at[f]] = "XMITTING"
    BY <1>2 DEF NegAckSent, Buffers, Returned, OneSender
  <2> DEFINE st == [hdrState EXCEPT ![at[f]] = "FREE"]
  <2>2. /\ st \in [Buffers -> {"FREE", "WAITING", "XMITTING"}]
        /\ \A i \in Buffers : st[i] = IF i = at[f] THEN "FREE" ELSE hdrState[i]
        /\ ScanOn(f, st)
    BY <1>2, <2>1 DEF NegAckSent, TypeOK
  <2> HIDE DEF st
  <2>3. /\ hdrState' \in [Buffers -> {"FREE", "WAITING", "XMITTING"}]
        /\ at' \in [Funcs -> NotBegun .. Returned]
        /\ InState("FREE")' = InState("FREE") \cup ({at[f]} \cap Buffers)
        /\ WaitingCovered' /\ OneSender'
    BY <2>1, <2>2, ScanPreserves
  <2>4. /\ InState("FREE") \cup {at[f]} \in SUBSET Buffers /\ at[f] \notin InState("FREE")
        /\ InState("FREE")' = InState("FREE") \cup {at[f]}
        /\ InState("FREE") \in SUBSET Buffers
    BY <2>1, <2>3 DEF InState
  <2>5. /\ Cardinality(InState("FREE") \cup {at[f]}) = Cardinality(InState("FREE")) + 1
        /\ Cardinality(InState("FREE") \cup {at[f]}) \in 0 .. NumNackBuffers
    BY <2>4, FreeBuffersFinite, FS_AddElement
  <2>6. numFree' = numFree + 1
    BY <1>2 DEF NegAckSent
  <2>7. QED
    BY <2>3, <2>4, <2>5, <2>6 DEF TypeOK, NackCountExact
<1>3. QED
  BY <1>1, <1>2

\* The invariant of the buffers holds in every behaviour.
LEMMA NackInvariant == Spec => []NackInv
<1>1. NackInv /\ [Next]_vars => NackInv'
  <2> SUFFICES ASSUME NackInv, [Next]_vars PROVE NackInv'
    OBVIOUS
  <2>1. CASE RpcServerDispatch
    BY <2>1, DispatchPreserves
  <2>2. CASE \E f \in Funcs : NegAckFunc(f) \/ NegAckSent(f)
    BY <2>2, NegAckPreserves
  <2>3. CASE UNCHANGED vars
    BY <2>3 DEF vars, NackInv, TypeOK, NackCountExact, WaitingCovered, OneSender, InState
  <2>4. QED
    BY <2>1, <2>2, <2>3 DEF Next
<1>2. QED
  BY <1>1, InitNackInv, PTL DEF Spec

\* The count that RpcServerDispatch tests equals the number of free buffers, so
\* that it finds a buffer whenever it looks for one.
THEOREM NackCountCorrect == Spec => []NackCountExact
<1>1. NackInv => NackCountExact
  BY DEF NackInv
<1>2. QED
  BY <1>1, NackInvariant, PTL

\* No waiting buffer is ever left behind by every call of NegAckFunc.
THEOREM NoStrandedNack == Spec => []WaitingCovered
<1>1. NackInv => WaitingCovered
  BY DEF NackInv
<1>2. QED
  BY <1>1, NackInvariant, PTL

\* Two calls of NegAckFunc never transmit the same buffer.
THEOREM SingleSender == Spec => []OneSender
<1>1. NackInv => OneSender
  BY DEF NackInv
<1>2. QED
  BY <1>1, NackInvariant, PTL


\* The number of free buffers stays between 0 and the size of the table however the
\* calls of NegAckFunc and the interrupts interleave, and no call runs past the table.
THEOREM NackTypeCorrect == Spec => []TypeOK
<1>1. NackInv => TypeOK
  BY DEF NackInv
<1>2. QED
  BY <1>1, NackInvariant, PTL
=============================================================================
