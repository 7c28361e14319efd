----------------------------- MODULE FsPipeProofs -----------------------------
(***************************************************************************)
(* Proofs about the pipe of FsStream, for any block size and any number of *)
(* hosts, readers and writers, with signals, crashes and lost wakeups, as  *)
(* long as firstByte and lastByte do not overflow; then about the wakeups  *)
(* of pipes and locks.                                                     *)
(***************************************************************************)
EXTENDS FsLockProofs

\* What all the processes can write in the life of the pipe fits in an int: the
\* indices start again at 0 only when the pipe becomes empty.
NoOverflow == Cardinality(Procs) * MaxBytes < IntRange \div 2

\* The indices of an empty pipe are -1, and otherwise they are the ends of an
\* interval of at most BlockSize bytes.
RingOK ==
    \/ firstByte = -1 /\ lastByte = -1
    \/ 0 <= firstByte /\ firstByte <= lastByte + 1 /\ lastByte < firstByte + BlockSize

\* The bytes that Fs_Write has accounted for, one by one.
Written == {b \in Procs \X (1 .. MaxBytes) : b[2] <= amount[b[1]]}

\* lastByte is bounded by what was written.
LastBounded == lastByte < Cardinality(Written)

\* What a call has still to write is within the bound.
CallsFit ==
    \A p \in Procs :
        amount[p] + (IF call[p].kind = "write" THEN call[p].len ELSE 0) <= MaxBytes

\* The operation in its notification loop moves no more bytes than there are, and
\* a write that was cut short fills the pipe.
OpFits ==
    /\ pipeOp \in PipeOps /\ pipeOp.kind = "read" =>
          firstByte # -1 /\ pipeOp.n <= InPipe
    /\ pipeOp \in PipeOps /\ pipeOp.kind = "write" =>
          /\ pipeOp.n <= Room /\ (pipeOp.more => pipeOp.n = Room)
          /\ amount[pipeOp.by] + pipeOp.n <= MaxBytes

\* The process in the notification loop of the pipe is in the call, or gone.
PipeServes(p) ==
    pipeOp \in PipeOps /\ pipeOp.by = p =>
        \/ pc[p] = "gone" /\ call[p] = NoCall
        \/ /\ pc[p] = "serve" /\ call[p].kind = pipeOp.kind
           /\ pipeOp.kind = "write" =>
                 pipeOp.n <= call[p].len /\ (pipeOp.more => pipeOp.n < call[p].len)

\* Likewise for the file.
FileServes(p) ==
    fileBy = p => \/ pc[p] = "gone"
                  \/ pc[p] = "serve" /\ call[p].kind \in {"unlock", "lockclose"}

ServersOK == \A p \in Procs : PipeServes(p) /\ FileServes(p)

\* handlePtr->use counts the ends of the client list.
HoldersOf(end) == {p \in Procs : end \in ends[p]}
UseCounts ==
    /\ use.write = Cardinality(HoldersOf("WRITE"))
    /\ use.ref = Cardinality(HoldersOf("READ")) + Cardinality(HoldersOf("WRITE"))

\* The ring holds a byte at every place between the indices, and after them
\* those that a write has copied and not yet accounted for.
Filled ==
    /\ \A i \in 0 .. InPipe - 1 : buffer[Masked(firstByte + i)] \in Procs \X Nat
    /\ pipeOp \in PipeOps /\ pipeOp.kind = "write" =>
          \A j \in 1 .. pipeOp.n :
              buffer[Masked(lastByte + j)] = <<pipeOp.by, amount[pipeOp.by] + j>>

PipeInv ==
    /\ TypeOK /\ RingOK /\ LastBounded /\ Filled /\ OpFits
    /\ CallsFit /\ ServersOK /\ UseCounts
-----------------------------------------------------------------------------
\* A value in the range of an int is itself.
LEMMA AsIntSmall ==
    ASSUME NEW x \in Int, -(IntRange \div 2) <= x, x < IntRange \div 2
    PROVE  AsInt(x) = x
<1> DEFINE H == IntRange \div 2
<1>1. IntRange \in Nat /\ IntRange > 0
  BY PipeAssumption
<1>2. H \in Nat /\ 2 * H <= IntRange
  BY <1>1
<1>3. x + H \in Nat /\ x + H < IntRange
  BY <1>1, <1>2
<1>4. (x + H) % IntRange = x + H
  BY <1>1, <1>3
<1>5. QED
  BY <1>2, <1>3, <1>4 DEF AsInt

\* Two bytes less than a block apart have different places in the ring.
LEMMA MaskedApart ==
    ASSUME NEW a \in Int, NEW b \in Int, a < b, b < a + BlockSize
    PROVE  Masked(a) # Masked(b)
<1>1. BlockSize \in Nat /\ BlockSize > 0
  BY PipeAssumption
<1>2. \A x \in Int : \E k \in Int : x = BlockSize * k + Masked(x) /\ Masked(x) \in Int
  BY <1>1 DEF Masked
<1>3. ASSUME NEW k \in Int, NEW l \in Int, BlockSize * l - BlockSize * k > 0,
             BlockSize * l - BlockSize * k < BlockSize
      PROVE  FALSE
  <2>1. BlockSize * (l - k) > 0 /\ BlockSize * (l - k) < BlockSize
    BY <1>1, <1>3
  <2>2. CASE l - k <= 0
    BY <1>1, <2>1, <2>2
  <2>3. CASE l - k >= 1
    BY <1>1, <2>1, <2>3
  <2>4. QED
    BY <2>2, <2>3
<1>4. PICK k \in Int : a = BlockSize * k + Masked(a) /\ Masked(a) \in Int
  BY <1>2
<1>5. PICK l \in Int : b = BlockSize * l + Masked(b) /\ Masked(b) \in Int
  BY <1>2
<1>6. BlockSize * k \in Int /\ BlockSize * l \in Int
  BY <1>1
<1>7. SUFFICES ASSUME Masked(a) = Masked(b) PROVE FALSE
  OBVIOUS
<1>8. BlockSize * l - BlockSize * k > 0 /\ BlockSize * l - BlockSize * k < BlockSize
  BY <1>1, <1>4, <1>5, <1>6, <1>7
<1>9. QED
  BY <1>3, <1>8

\* The place of a byte is in the ring.
LEMMA MaskedType ==
    ASSUME NEW a \in Int
    PROVE  Masked(a) \in 0 .. BlockSize - 1
BY PipeAssumption DEF Masked

\* A step that leaves the pipe alone leaves everything said of it alone.
LEMMA PipeFrame ==
    ASSUME PipeInv, UNCHANGED pipeVars
    PROVE  /\ (PipeTypeOK /\ RingOK /\ LastBounded /\ Filled /\ OpFits /\ UseCounts)'
           /\ (InPipe \in 0 .. BlockSize)'
<1> USE DEF pipeVars
<1>1. InPipe' = InPipe /\ Room' = Room
  BY DEF InPipe, Room
<1>2. Written' = Written /\ HoldersOf("READ")' = HoldersOf("READ")
      /\ HoldersOf("WRITE")' = HoldersOf("WRITE")
  BY DEF Written, HoldersOf
<1>3. PipeTypeOK' /\ RingOK'
  BY DEF PipeInv, TypeOK, PipeTypeOK, RingOK
<1>4. LastBounded' /\ UseCounts' /\ OpFits' /\ Filled'
  BY <1>1, <1>2 DEF PipeInv, LastBounded, UseCounts, OpFits, Filled
<1>5. QED
  BY <1>1, <1>3, <1>4 DEF PipeInv, TypeOK

\* A step that moves the actor q keeps what is said of the calls of the others.
LEMMA PipeCallStep ==
    ASSUME PipeInv, NEW q,
           \A p \in Procs \ {q} :
              pc'[p] = pc[p] /\ call'[p] = call[p] /\ amount'[p] = amount[p],
           fileBy' \in {fileBy, Nobody, q},
           pipeOp' \in {pipeOp, NoOp} \/ pipeOp'.by = q,
           q \in Procs =>
              /\ (PipeServes(q) /\ FileServes(q))'
              /\ amount'[q] + (IF call'[q].kind = "write" THEN call'[q].len ELSE 0) <= MaxBytes
    PROVE  CallsFit' /\ ServersOK'
<1>1. ASSUME NEW p \in Procs, p # q
      PROVE  /\ (PipeServes(p) /\ FileServes(p))'
             /\ amount'[p] + (IF call'[p].kind = "write" THEN call'[p].len ELSE 0) <= MaxBytes
  <2>1. /\ pc'[p] = pc[p] /\ call'[p] = call[p] /\ amount'[p] = amount[p]
        /\ PipeServes(p) /\ FileServes(p)
        /\ amount[p] + (IF call[p].kind = "write" THEN call[p].len ELSE 0) <= MaxBytes
    BY <1>1 DEF PipeInv, ServersOK, CallsFit
  <2>2. PipeServes(p)'
    BY <1>1, <2>1, NoOpAssumption DEF PipeServes
  <2>3. FileServes(p)'
    BY <1>1, <2>1, LockAssumption DEF FileServes
  <2>4. QED
    BY <2>1, <2>2, <2>3
<1>2. QED
  BY <1>1 DEF CallsFit, ServersOK

\* A process joins a wait list.
LEMMA InsertType ==
    ASSUME WaitTypeOK, NEW l \in Lists, NEW p \in Procs, Fsutil_FastWaitListInsert(l, p)
    PROVE  waitList' \in [Lists -> Seq(Procs)]
<1>1. waitList \in [Lists -> Seq(Procs)] /\ waitList[l] \in Seq(Procs)
  BY DEF WaitTypeOK
<1>2. Append(waitList[l], p) \in Seq(Procs)
  BY <1>1, AppendProperties
<1>3. QED
  BY <1>1, <1>2 DEF Fsutil_FastWaitListInsert

\* The fields of a call that a notification loop or a retry looks at.
LEMMA CallFields ==
    ASSUME NEW c \in Calls
    PROVE  /\ c.kind \in {"lock", "unlock", "lockclose", "read", "write", "select", "close"}
           /\ c.kind \in {"read", "write"} => c.len \in Nat /\ c.nb \in BOOLEAN
           /\ c.kind \in {"lock", "select"} => c.nb \in BOOLEAN
           /\ c.kind \in {"lock", "unlock"} => c.mode \in LockFlags
           /\ c.kind = "select" => c.dir \in Selects
           /\ c.kind = "close" => c.end \in {"READ", "WRITE"}
BY DEF Calls

\* A process makes a system call.
LEMMA EnterPipeInv ==
    ASSUME PipeInv, NEW p \in Procs,
           \/ EnterLock(p) \/ EnterUnlock(p) \/ EnterLockClose(p)
           \/ EnterRead(p) \/ EnterWrite(p) \/ EnterSelect(p) \/ EnterClose(p)
    PROVE  PipeInv'
<1>1. TypeOK /\ CallsFit /\ PipeServes(p) /\ FileServes(p) /\ amount[p] \in Nat
  BY DEF PipeInv, ServersOK, TypeOK, PipeTypeOK
<1>2. PICK c \in Calls : /\ Enter(p, c)
                         /\ amount[p] + (IF c.kind = "write" THEN c.len ELSE 0) <= MaxBytes
  <2> USE StreamAssumption DEF Calls
  <2>0. amount[p] <= MaxBytes
    <3>1. call[p].kind = "write" => call[p].len \in Nat
      BY <1>1, CallFields DEF TypeOK, NoCall
    <3>2. QED
      BY <1>1, <3>1 DEF CallsFit
  <2>1. CASE EnterLock(p)
    BY <2>0, <2>1, <1>1 DEF EnterLock
  <2>2. CASE EnterUnlock(p)
    BY <2>0, <2>2, <1>1 DEF EnterUnlock
  <2>3. CASE EnterLockClose(p)
    BY <2>0, <2>3, <1>1 DEF EnterLockClose
  <2>4. CASE EnterRead(p)
    BY <2>0, <2>4, <1>1 DEF EnterRead
  <2>5. CASE EnterWrite(p)
    BY <2>5, <1>1 DEF EnterWrite
  <2>6. CASE EnterSelect(p)
    BY <2>0, <2>6, <1>1 DEF EnterSelect
  <2>7. CASE EnterClose(p)
    <3>1. ends[p] \subseteq {"READ", "WRITE"}
      BY <1>1 DEF TypeOK, PipeTypeOK
    <3>2. QED
      BY <2>0, <2>7, <1>1, <3>1 DEF EnterClose
  <2>8. QED
    BY <2>1, <2>2, <2>3, <2>4, <2>5, <2>6, <2>7
<1>3. /\ pc[p] = "user" /\ pc' = [pc EXCEPT ![p] = "try"] /\ call' = [call EXCEPT ![p] = c]
      /\ UNCHANGED <<complete, sigs, signals, waitList, lost>>
      /\ UNCHANGED lockVars /\ UNCHANGED pipeVars /\ UNCHANGED <<down, fileKill, pipeKill>>
  BY <1>2 DEF Enter
<1>4. /\ pc' \in [Procs -> ProcStates] /\ call' \in [Procs -> Calls \cup {NoCall}]
      /\ \A q \in Procs \ {p} : pc'[q] = pc[q] /\ call'[q] = call[q]
      /\ pc'[p] = "try" /\ call'[p] = c
  BY <1>1, <1>3 DEF TypeOK, WaitTypeOK, ProcStates
<1>5. WaitTypeOK' /\ LockTypeOK'
  BY <1>1, <1>3, <1>4 DEF TypeOK, WaitTypeOK, LockTypeOK, lockVars
<1>6. PipeServes(p)' /\ FileServes(p)'
  BY <1>1, <1>3, <1>4 DEF PipeServes, FileServes, lockVars, pipeVars
<1>7. CallsFit' /\ ServersOK'
  BY <1>2, <1>3, <1>4, <1>6, PipeCallStep DEF lockVars, pipeVars
<1>8. QED
  BY <1>1, <1>3, <1>4, <1>5, <1>7, PipeFrame DEF PipeInv, TypeOK

\* Sync_ProcWait, and a signal.
LEMMA WaitPipeInv ==
    ASSUME PipeInv, NEW p \in Procs, Wait(p) \/ Sig_Send(p)
    PROVE  PipeInv'
<1>1. /\ TypeOK /\ CallsFit /\ PipeServes(p) /\ FileServes(p)
      /\ pc \in [Procs -> ProcStates] /\ call \in [Procs -> Calls \cup {NoCall}]
  BY DEF PipeInv, ServersOK, TypeOK, WaitTypeOK
<1>2. /\ UNCHANGED lockVars /\ UNCHANGED pipeVars /\ UNCHANGED <<down, fileKill, pipeKill>>
      /\ UNCHANGED <<waitList, lost>>
      /\ complete' \subseteq complete \cup {p} /\ sigs' \subseteq sigs \cup {p}
      /\ \/ UNCHANGED <<pc, call>>
         \/ UNCHANGED call /\ \E x \in {"asleep", "woken", "try"} : pc' = [pc EXCEPT ![p] = x]
         \/ Return(p)
      /\ pc[p] = "serve" => UNCHANGED <<pc, call>>
  <2>1. CASE Sig_Send(p)
    BY <2>1 DEF Sig_Send, Signal, ProcessWakeup, streamVars
  <2>2. CASE Wait(p)
    BY <2>2 DEF Wait, Sync_ProcWait, ProcWaitDone, Return, streamVars
  <2>3. QED
    BY <2>1, <2>2
<1>3. /\ pc' \in [Procs -> ProcStates] /\ call' \in [Procs -> Calls \cup {NoCall}]
      /\ \A q \in Procs \ {p} : pc'[q] = pc[q] /\ call'[q] = call[q]
      /\ call'[p] = call[p] \/ call'[p] = NoCall
      /\ pc[p] = "serve" => pc'[p] = pc[p] /\ call'[p] = call[p]
      /\ pc[p] = "gone" => pc'[p] = "gone"
  <2>1. pc[p] = "gone" => UNCHANGED pc
    BY DEF Wait, Sig_Send, Sync_ProcWait, ProcWaitDone, Signal
  <2>2. QED
    BY <1>1, <1>2, <2>1 DEF ProcStates, Return
<1>4. signals' \in 0 .. MaxUpsets
  <2>1. Cardinality(lost) \in Nat
    BY <1>1, WaitAssumption, FS_Subset, FS_CardinalityType DEF TypeOK, WaitTypeOK
  <2>2. signals \in 0 .. MaxUpsets /\ MaxUpsets \in Nat
    BY <1>1, WaitAssumption DEF TypeOK, WaitTypeOK
  <2>3. \/ UNCHANGED signals
        \/ signals + Cardinality(lost) < MaxUpsets /\ signals' = signals + 1
    BY DEF Wait, Sig_Send, Signal, Sync_ProcWait, ProcWaitDone
  <2>4. QED
    BY <2>1, <2>2, <2>3
<1>5. WaitTypeOK' /\ LockTypeOK'
  BY <1>1, <1>2, <1>3, <1>4 DEF TypeOK, WaitTypeOK, LockTypeOK, lockVars
<1>6. PipeServes(p)' /\ FileServes(p)'
  BY <1>1, <1>2, <1>3 DEF PipeServes, FileServes, lockVars, pipeVars
<1>7. amount'[p] + (IF call'[p].kind = "write" THEN call'[p].len ELSE 0) <= MaxBytes
  <2>1. amount[p] \in Nat /\ MaxBytes \in Nat /\ (call[p].kind = "write" => call[p].len \in Nat)
    BY <1>1, CallFields, StreamAssumption DEF TypeOK, PipeTypeOK, NoCall
  <2>2. QED
    BY <1>1, <1>2, <1>3, <2>1 DEF CallsFit, NoCall, pipeVars
<1>8. CallsFit' /\ ServersOK'
  BY <1>2, <1>3, <1>6, <1>7, PipeCallStep DEF lockVars, pipeVars
<1>9. QED
  BY <1>1, <1>2, <1>3, <1>5, <1>8, PipeFrame DEF PipeInv, TypeOK

\* A waiter is notified.
LEMMA NotifyPipeInv ==
    ASSUME PipeInv, NEW l \in Lists, NotifyFirst(l), UNCHANGED lockVars, UNCHANGED pipeVars,
           UNCHANGED streamVars
    PROVE  PipeInv'
<1>1. /\ TypeOK /\ CallsFit /\ waitList[l] \in Seq(Procs) /\ waitList[l] # <<>>
      /\ pc \in [Procs -> ProcStates] /\ call \in [Procs -> Calls \cup {NoCall}]
  BY DEF PipeInv, TypeOK, WaitTypeOK, NotifyFirst
<1>2. Head(waitList[l]) \in Procs /\ Tail(waitList[l]) \in Seq(Procs)
  BY <1>1, HeadTailProperties
<1>3. PICK q \in Procs : q = Head(waitList[l])
  BY <1>2
<1>4. /\ UNCHANGED <<call, sigs, signals>> /\ lost' \subseteq lost \cup {q}
      /\ complete' \subseteq complete \cup {q}
      /\ waitList' = [waitList EXCEPT ![l] = Tail(waitList[l])]
      /\ pc' = pc \/ pc' = [pc EXCEPT ![q] = IF pc[q] = "asleep" THEN "woken" ELSE pc[q]]
  BY <1>3 DEF NotifyFirst, ProcessWakeup
<1>5. /\ pc' \in [Procs -> ProcStates]
      /\ \A p \in Procs \ {q} : pc'[p] = pc[p] /\ call'[p] = call[p]
      /\ pc'[q] = pc[q] \/ (pc[q] = "asleep" /\ pc'[q] = "woken")
  BY <1>1, <1>4 DEF ProcStates
<1>6. WaitTypeOK' /\ LockTypeOK'
  BY <1>1, <1>2, <1>4, <1>5 DEF TypeOK, WaitTypeOK, LockTypeOK, lockVars
<1>7. PipeServes(q)' /\ FileServes(q)'
  <2>1. PipeServes(q) /\ FileServes(q)
    BY DEF PipeInv, ServersOK
  <2>2. QED
    BY <1>4, <1>5, <2>1 DEF PipeServes, FileServes, lockVars, pipeVars
<1>8. CallsFit' /\ ServersOK'
  BY <1>1, <1>4, <1>5, <1>7, PipeCallStep DEF lockVars, pipeVars, CallsFit
<1>9. QED
  BY <1>1, <1>4, <1>6, <1>8, PipeFrame DEF PipeInv, TypeOK, streamVars

\* The notification loop of the file.
LEMMA LockLoopPipeInv ==
    ASSUME PipeInv, LockLoop
    PROVE  PipeInv'
<1>0. UNCHANGED pipeVars /\ UNCHANGED streamVars
  BY DEF LockLoop
<1>1. CASE LockNotify
  BY <1>0, <1>1, StreamAssumption, NotifyPipeInv DEF LockNotify
<1>2. CASE LockNotified
  <2>1. /\ TypeOK /\ CallsFit /\ fileBy \in Procs \cup {Nobody, Recov}
        /\ pc \in [Procs -> ProcStates] /\ call \in [Procs -> Calls \cup {NoCall}]
    BY DEF PipeInv, TypeOK, WaitTypeOK, LockTypeOK
  <2>2. PICK p : p = fileBy
    OBVIOUS
  <2>3. /\ UNCHANGED <<lockFlags, numShared, ownerList, complete, signals, waitList, lost>>
        /\ fileBy' = Nobody
        /\ \/ UNCHANGED <<pc, call, sigs>>
           \/ p \in Procs /\ pc[p] = "serve" /\ Return(p)
    BY <1>2, <2>2 DEF LockNotified
  <2>4. /\ pc' \in [Procs -> ProcStates] /\ call' \in [Procs -> Calls \cup {NoCall}]
        /\ sigs' \subseteq sigs
        /\ \A q \in Procs \ {p} : pc'[q] = pc[q] /\ call'[q] = call[q]
        /\ p \in Procs => \/ pc'[p] = pc[p] /\ call'[p] = call[p]
                          \/ pc[p] = "serve" /\ pc'[p] = "user" /\ call'[p] = NoCall
    BY <2>1, <2>3 DEF ProcStates, Return
  <2>5. WaitTypeOK' /\ LockTypeOK'
    BY <2>1, <2>3, <2>4 DEF TypeOK, WaitTypeOK, LockTypeOK
  <2>6. ASSUME p \in Procs
        PROVE  /\ (PipeServes(p) /\ FileServes(p))'
               /\ amount'[p] + (IF call'[p].kind = "write" THEN call'[p].len ELSE 0) <= MaxBytes
    <3>1. /\ PipeServes(p) /\ FileServes(p) /\ amount[p] \in Nat /\ MaxBytes \in Nat
          /\ amount[p] + (IF call[p].kind = "write" THEN call[p].len ELSE 0) <= MaxBytes
      BY <2>1, <2>6, StreamAssumption DEF PipeInv, ServersOK, CallsFit, TypeOK, PipeTypeOK
    <3>2. call[p].kind = "write" => call[p].len \in Nat
      BY <2>1, <2>6, CallFields DEF NoCall
    <3>3. pipeOp \in PipeOps => pipeOp.kind \in {"read", "write", "close"}
      BY DEF PipeOps
    <3>4. PipeServes(p)' /\ FileServes(p)'
      BY <1>0, <2>2, <2>3, <2>4, <2>6, <3>1, <3>3, LockAssumption
         DEF PipeServes, FileServes, pipeVars
    <3>5. QED
      BY <1>0, <2>4, <2>6, <3>1, <3>2, <3>4 DEF pipeVars, NoCall
  <2>7. CallsFit' /\ ServersOK'
    BY <1>0, <2>3, <2>4, <2>6, PipeCallStep DEF pipeVars
  <2>8. QED
    BY <1>0, <2>1, <2>4, <2>5, <2>7, PipeFrame DEF PipeInv, TypeOK, streamVars
<1>3. QED
  BY <1>1, <1>2 DEF LockLoop

\* A host goes down.
LEMMA CrashPipeInv ==
    ASSUME PipeInv, NEW h \in Hosts, Crash(h)
    PROVE  PipeInv'
<1>1. /\ TypeOK /\ CallsFit /\ ServersOK
      /\ pc \in [Procs -> ProcStates] /\ call \in [Procs -> Calls \cup {NoCall}]
      /\ amount \in [Procs -> Nat]
  BY DEF PipeInv, TypeOK, WaitTypeOK, PipeTypeOK
<1>2. /\ UNCHANGED lockVars /\ UNCHANGED pipeVars /\ UNCHANGED <<signals, waitList, lost>>
      /\ down' = down \cup {h} /\ fileKill' = fileKill \cup {h} /\ pipeKill' = pipeKill \cup {h}
      /\ complete' \subseteq complete /\ sigs' \subseteq sigs
      /\ pc' = [p \in Procs |-> IF HostOf[p] = h THEN "gone" ELSE pc[p]]
      /\ call' = [p \in Procs |-> IF HostOf[p] = h THEN NoCall ELSE call[p]]
  BY DEF Crash
<1>3. /\ pc' \in [Procs -> ProcStates] /\ call' \in [Procs -> Calls \cup {NoCall}]
  BY <1>1, <1>2 DEF ProcStates
<1>4. WaitTypeOK' /\ LockTypeOK'
  BY <1>1, <1>2, <1>3 DEF TypeOK, WaitTypeOK, LockTypeOK, lockVars
<1>5. ServersOK'
  BY <1>1, <1>2 DEF ServersOK, PipeServes, FileServes, lockVars, pipeVars
<1>6. CallsFit'
  <2>1. \A p \in Procs : call[p].kind = "write" => call[p].len \in Nat
    BY <1>1, CallFields DEF NoCall
  <2>2. QED
    BY <1>1, <1>2, <2>1, StreamAssumption DEF CallsFit, NoCall, pipeVars
<1>7. down' \subseteq Hosts /\ fileKill' \subseteq down' /\ pipeKill' \subseteq down'
  BY <1>1, <1>2 DEF TypeOK
<1>8. QED
  BY <1>2, <1>3, <1>4, <1>5, <1>6, <1>7, PipeFrame DEF PipeInv, TypeOK

\* A lock operation leaves the owner list a list of owners.
LEMMA RemovedOwnerType ==
    ASSUME LockTypeOK, NEW i \in DOMAIN ownerList
    PROVE  RemoveAt(ownerList, i) \in Seq(Owners)
<1>1. ownerList \in Seq(Owners)
  BY DEF LockTypeOK, Owners
<1>2. i \in 1 .. Len(ownerList)
  BY <1>1, LenProperties
<1>3. QED
  BY <1>1, <1>2, RemoveAtProperties

\* A lock operation of p that is tried returns, waits, or begins to notify.
LEMMA LockTryPipeInv ==
    ASSUME PipeInv, NEW p \in Procs, TryLock(p) \/ TryUnlock(p) \/ TryLockClose(p)
    PROVE  PipeInv'
<1>1. /\ TypeOK /\ WaitTypeOK /\ LockTypeOK /\ CallsFit /\ PipeServes(p) /\ FileServes(p)
      /\ pc \in [Procs -> ProcStates] /\ call \in [Procs -> Calls \cup {NoCall}]
      /\ ownerList \in Seq(Owners)
  BY DEF PipeInv, ServersOK, TypeOK, WaitTypeOK, LockTypeOK, Owners
<1>2. UNCHANGED pipeVars /\ UNCHANGED streamVars /\ pc[p] = "try" /\ fileBy = Nobody
  BY DEF TryLock, TryUnlock, TryLockClose, Fsio_Lock, Fsio_Unlock, Fsio_LockClose
<1>3. /\ UNCHANGED <<complete, signals, lost>>
      /\ \/ Return(p) /\ UNCHANGED waitList /\ UNCHANGED fileBy
         \/ WouldBlock("lock", p, call[p]) /\ UNCHANGED fileBy
         \/ /\ Notifying(p) /\ call[p].kind \in {"unlock", "lockclose"}
            /\ UNCHANGED <<waitList, sigs>>
  BY DEF TryLock, TryUnlock, TryLockClose, Fsio_Lock, Fsio_Unlock, Fsio_LockClose, Notifying
<1>4. waitList' \in [Lists -> Seq(Procs)]
  BY <1>1, <1>3, InsertType, StreamAssumption DEF WouldBlock, WaitTypeOK
<1>5. /\ pc' \in [Procs -> ProcStates] /\ call' \in [Procs -> Calls \cup {NoCall}]
      /\ sigs' \subseteq sigs
      /\ \A q \in Procs \ {p} : pc'[q] = pc[q] /\ call'[q] = call[q]
      /\ \/ pc'[p] = "user" /\ call'[p] = NoCall /\ fileBy' = Nobody
         \/ pc'[p] = "block" /\ call'[p] = call[p] /\ fileBy' = Nobody
         \/ /\ pc'[p] = "serve" /\ call'[p] = call[p] /\ fileBy' = p
            /\ call[p].kind \in {"unlock", "lockclose"}
  BY <1>1, <1>2, <1>3 DEF ProcStates, Return, WouldBlock, Notifying
<1>6. WaitTypeOK'
  BY <1>1, <1>3, <1>4, <1>5 DEF WaitTypeOK
<1>7. LockTypeOK'
  <2>1. CASE TryLock(p)
    <3>1. call[p].mode \in LockFlags
      BY <1>1, <2>1, CallFields DEF TryLock, NoCall
    <3>2. PICK o \in Owners : o = [proc |-> p, flags |-> call[p].mode]
      BY <3>1 DEF Owners
    <3>3. Append(ownerList, o) \in Seq(Owners)
      BY <1>1, AppendProperties
    <3>4. /\ UNCHANGED fileBy
          /\ \/ UNCHANGED <<lockFlags, numShared, ownerList>>
             \/ /\ lockFlags' = lockFlags \cup {call[p].mode}
                /\ numShared' = numShared + 1 \/ UNCHANGED numShared
                /\ ownerList' = Append(ownerList, o)
      BY <2>1, <3>2 DEF TryLock, Fsio_Lock, LockGrant
    <3>5. lockFlags' \subseteq LockFlags /\ numShared' \in Int /\ fileBy' = fileBy
      BY <1>1, <3>1, <3>4 DEF LockTypeOK
    <3>6. ownerList' \in Seq(Owners)
      BY <1>1, <3>3, <3>4
    <3>7. QED
      BY <1>1, <3>5, <3>6 DEF LockTypeOK, Owners
  <2>2. CASE TryUnlock(p)
    BY <1>1, <1>5, <2>2, RemovedOwnerType
       DEF TryUnlock, Fsio_Unlock, UnlockExclusive, UnlockShared, LockTypeOK, Owners
  <2>3. CASE TryLockClose(p)
    BY <1>1, <1>5, <2>3, RemovedOwnerType DEF TryLockClose, Fsio_LockClose, LockTypeOK, Owners
  <2>4. QED
    BY <2>1, <2>2, <2>3
<1>8. PipeServes(p)' /\ FileServes(p)'
  BY <1>1, <1>2, <1>5, LockAssumption DEF PipeServes, FileServes, pipeVars
<1>9. amount'[p] + (IF call'[p].kind = "write" THEN call'[p].len ELSE 0) <= MaxBytes
  <2>1. amount[p] \in Nat /\ MaxBytes \in Nat /\ (call[p].kind = "write" => call[p].len \in Nat)
    BY <1>1, CallFields, StreamAssumption DEF TypeOK, PipeTypeOK, NoCall
  <2>2. QED
    BY <1>1, <1>2, <1>5, <2>1 DEF CallsFit, NoCall, pipeVars
<1>10. CallsFit' /\ ServersOK'
  BY <1>2, <1>5, <1>8, <1>9, PipeCallStep DEF pipeVars
<1>11. QED
  BY <1>1, <1>2, <1>5, <1>6, <1>7, <1>10, PipeFrame DEF PipeInv, TypeOK, streamVars

\* Fsio_LockClientKill.
LEMMA KillFilePipeInv ==
    ASSUME PipeInv, NEW h \in Hosts, KillFile(h)
    PROVE  PipeInv'
<1>1. /\ TypeOK /\ WaitTypeOK /\ LockTypeOK /\ ownerList \in Seq(Owners)
  BY DEF PipeInv, TypeOK, LockTypeOK, Owners
<1>2. /\ UNCHANGED pipeVars /\ UNCHANGED <<down, pipeKill>> /\ fileKill' \subseteq fileKill
      /\ UNCHANGED waitVars /\ fileBy' \in {Recov, fileBy} /\ UNCHANGED numShared
      /\ lockFlags' \subseteq lockFlags
  BY WaitAssumption DEF KillFile, Fsio_LockClientKill, Notifying, waitVars
<1>3. PICK n \in 0 .. Len(ownerList) : \E keep \in [1 .. n -> DOMAIN ownerList] :
        ownerList' = [a \in 1 .. n |-> ownerList[keep[a]]]
  BY DEF KillFile, Fsio_LockClientKill, RemoveOwnersOf
<1>4. ownerList' \in Seq(Owners)
  <2>1. /\ n \in Nat
        /\ \A i \in DOMAIN ownerList : ownerList[i] \in Owners
    BY <1>1, <1>3, LenProperties, ElementOfSeq
  <2>2. ownerList' \in [1 .. n -> Owners]
    BY <1>3, <2>1
  <2>3. QED
    BY <2>1, <2>2, SeqDef
<1>5. LockTypeOK' /\ WaitTypeOK'
  BY <1>1, <1>2, <1>4 DEF LockTypeOK, WaitTypeOK, waitVars, Owners
<1>6. CallsFit' /\ ServersOK'
  BY <1>2, WaitAssumption, PipeCallStep DEF waitVars, pipeVars
<1>7. QED
  BY <1>1, <1>2, <1>5, <1>6, PipeFrame DEF PipeInv, TypeOK, waitVars
-----------------------------------------------------------------------------
\* Less was written than an int can count.
LEMMA WrittenBound ==
    ASSUME NoOverflow
    PROVE  /\ IsFiniteSet(Written) /\ Cardinality(Written) \in Nat
           /\ Cardinality(Written) < IntRange \div 2
<1> DEFINE all == Procs \X (1 .. MaxBytes)
<1>1. IsFiniteSet(Procs) /\ Cardinality(Procs) \in Nat /\ MaxBytes \in Nat
  BY WaitAssumption, StreamAssumption, FS_CardinalityType
<1>2. IsFiniteSet(1 .. MaxBytes) /\ Cardinality(1 .. MaxBytes) = MaxBytes
  BY <1>1, FS_Interval, SMTT(60)
<1>3. IsFiniteSet(all) /\ Cardinality(all) = Cardinality(Procs) * MaxBytes
  BY <1>1, <1>2, FS_Product
<1>4. Written \in SUBSET all
  BY DEF Written
<1> HIDE DEF all
<1>5. /\ IsFiniteSet(Written) /\ Cardinality(Written) <= Cardinality(all)
      /\ Cardinality(Written) \in Nat /\ Cardinality(all) \in Nat
  BY <1>3, <1>4, FS_Subset, FS_CardinalityType
<1>6. IntRange \div 2 \in Nat
  BY PipeAssumption
<1>7. QED
  BY <1>3, <1>5, <1>6 DEF NoOverflow

\* The indices are integers of the C type, and their distance is what InPipe says.
LEMMA InPipeIs ==
    ASSUME NoOverflow
    PROVE  firstByte \in Int /\ lastByte \in Int /\ RingOK /\ LastBounded =>
              /\ lastByte < (IntRange \div 2) - 1 /\ IntRange \div 2 \in Nat
              /\ firstByte = -1 => InPipe = 0 /\ Room = BlockSize
              /\ firstByte # -1 => InPipe = lastByte - firstByte + 1
              /\ InPipe \in 0 .. BlockSize /\ Room = BlockSize - InPipe
              /\ Room \in 0 .. BlockSize
<1> SUFFICES ASSUME firstByte \in Int, lastByte \in Int, RingOK, LastBounded
             PROVE  /\ lastByte < (IntRange \div 2) - 1 /\ IntRange \div 2 \in Nat
                    /\ firstByte = -1 => InPipe = 0 /\ Room = BlockSize
                    /\ firstByte # -1 => InPipe = lastByte - firstByte + 1
                    /\ InPipe \in 0 .. BlockSize /\ Room = BlockSize - InPipe
                    /\ Room \in 0 .. BlockSize
  OBVIOUS
<1>1. BlockSize \in Nat /\ BlockSize > 0 /\ IntRange \div 2 \in Nat
  BY PipeAssumption
<1>2. lastByte < (IntRange \div 2) - 1
  BY <1>1, WrittenBound DEF LastBounded
<1>3. CASE firstByte = -1
  BY <1>1, <1>2, <1>3 DEF InPipe, Room
<1>4. CASE firstByte # -1
  <2>1. 0 <= firstByte /\ firstByte <= lastByte + 1 /\ lastByte < firstByte + BlockSize
    BY <1>4 DEF RingOK
  <2>2. AsInt(lastByte - firstByte + 1) = lastByte - firstByte + 1
    <3>1. /\ lastByte - firstByte + 1 \in Int /\ -(IntRange \div 2) <= lastByte - firstByte + 1
          /\ lastByte - firstByte + 1 < IntRange \div 2
      BY <1>1, <1>2, <2>1
    <3>2. QED
      BY <3>1, AsIntSmall
  <2>3. InPipe = lastByte - firstByte + 1
    BY <1>4, <2>2 DEF InPipe
  <2>4. QED
    BY <1>1, <1>2, <1>4, <2>1, <2>3 DEF Room
<1>5. QED
  BY <1>3, <1>4

\* The number of bytes that a read or a write moves.
LEMMA PipeOpFields ==
    ASSUME NEW o \in PipeOps
    PROVE  /\ o.kind \in {"read", "write", "close"} /\ o.n \in Nat
           /\ o.by \in Procs \cup {Recov} /\ (o.kind \in {"read", "write"} => o.by \in Procs)
           /\ o.list \in {"read", "write", "none"}
           /\ o.kind = "read" => o.list = "write"
           /\ o.kind = "write" => o.list = "read" /\ o.more \in BOOLEAN
BY DEF PipeOps

\* A call is answered: the process returns, or waits to try call c again.
LEMMA Answered ==
    ASSUME TypeOK, NEW p \in Procs, NEW l \in Lists, NEW c \in Calls,
           WouldBlock(l, p, c) \/ (Return(p) /\ UNCHANGED waitList),
           UNCHANGED <<complete, signals, lost>>
    PROVE  /\ WaitTypeOK' /\ call' \in [Procs -> Calls \cup {NoCall}]
           /\ \A q \in Procs \ {p} : pc'[q] = pc[q] /\ call'[q] = call[q]
           /\ \/ pc'[p] = "user" /\ call'[p] = NoCall
              \/ pc'[p] = "block" /\ call'[p] = c
<1>1. /\ WaitTypeOK /\ pc \in [Procs -> ProcStates] /\ call \in [Procs -> Calls \cup {NoCall}]
  BY DEF TypeOK, WaitTypeOK
<1>2. waitList' \in [Lists -> Seq(Procs)]
  BY <1>1, InsertType DEF WouldBlock, WaitTypeOK
<1>3. /\ pc' \in [Procs -> ProcStates] /\ call' \in [Procs -> Calls \cup {NoCall}]
      /\ sigs' \subseteq sigs
      /\ \A q \in Procs \ {p} : pc'[q] = pc[q] /\ call'[q] = call[q]
      /\ \/ pc'[p] = "user" /\ call'[p] = NoCall
         \/ pc'[p] = "block" /\ call'[p] = c
  BY <1>1 DEF WouldBlock, Return, ProcStates
<1>4. QED
  BY <1>1, <1>2, <1>3 DEF WaitTypeOK

\* An operation begins to notify.
LEMMA Begun ==
    ASSUME TypeOK, NEW by \in Procs \cup {Recov}, NEW o \in PipeOps, PipeNotifying(by, o)
    PROVE  /\ WaitTypeOK' /\ call' = call /\ pipeOp' = o
           /\ \A q \in Procs \ {by} : pc'[q] = pc[q]
           /\ by \in Procs => pc'[by] = "serve"
<1>1. WaitTypeOK /\ pc \in [Procs -> ProcStates]
  BY DEF TypeOK, WaitTypeOK
<1>2. /\ pc' \in [Procs -> ProcStates]
      /\ \A q \in Procs \ {by} : pc'[q] = pc[q]
      /\ by \in Procs => pc'[by] = "serve"
  BY <1>1 DEF PipeNotifying, ProcStates
<1>3. QED
  BY <1>1, <1>2 DEF PipeNotifying, WaitTypeOK

\* An answer that leaves the pipe alone.
LEMMA AnsweredPipeInv ==
    ASSUME PipeInv, NEW p \in Procs, NEW l \in Lists,
           call[p].kind \in {"read", "write", "select"}, pc[p] = "try",
           WouldBlock(l, p, call[p]) \/ (Return(p) /\ UNCHANGED waitList),
           UNCHANGED <<complete, signals, lost>>, UNCHANGED pipeVars,
           UNCHANGED lockVars, UNCHANGED streamVars
    PROVE  PipeInv'
<1>1. /\ TypeOK /\ CallsFit /\ PipeServes(p) /\ FileServes(p) /\ amount[p] \in Nat
      /\ call \in [Procs -> Calls \cup {NoCall}] /\ LockTypeOK
  BY DEF PipeInv, ServersOK, TypeOK, PipeTypeOK
<1>2. PICK c \in Calls : c = call[p]
  BY <1>1 DEF NoCall
<1>3. /\ WaitTypeOK' /\ call' \in [Procs -> Calls \cup {NoCall}]
      /\ \A q \in Procs \ {p} : pc'[q] = pc[q] /\ call'[q] = call[q]
      /\ \/ pc'[p] = "user" /\ call'[p] = NoCall
         \/ pc'[p] = "block" /\ call'[p] = c
  BY <1>1, <1>2, Answered
<1>4. PipeServes(p)' /\ FileServes(p)'
  BY <1>1 DEF PipeServes, FileServes, lockVars, pipeVars
<1>5. amount'[p] + (IF call'[p].kind = "write" THEN call'[p].len ELSE 0) <= MaxBytes
  <2>1. c.kind = "write" => c.len \in Nat
    BY CallFields
  <2>2. QED
    BY <1>1, <1>2, <1>3, <2>1, StreamAssumption DEF CallsFit, NoCall, pipeVars
<1>6. CallsFit' /\ ServersOK'
  BY <1>3, <1>4, <1>5, PipeCallStep DEF lockVars, pipeVars
<1>7. LockTypeOK'
  BY <1>1 DEF LockTypeOK, lockVars
<1>8. QED
  BY <1>1, <1>3, <1>6, <1>7, PipeFrame DEF PipeInv, TypeOK, streamVars

\* Fsio_PipeSelect.
LEMMA SelectPipeInv ==
    ASSUME PipeInv, NEW p \in Procs, TrySelect(p)
    PROVE  PipeInv'
<1>1. /\ call[p].kind = "select" /\ pc[p] = "try"
      /\ UNCHANGED <<complete, signals, lost>> /\ UNCHANGED pipeVars
      /\ UNCHANGED lockVars /\ UNCHANGED streamVars
      /\ \E l \in {"read", "write"} :
            WouldBlock(l, p, call[p]) \/ (Return(p) /\ UNCHANGED waitList)
  BY DEF TrySelect, Fsio_PipeSelect
<1>2. QED
  BY <1>1, AnsweredPipeInv, StreamAssumption

\* Fsio_PipeRead up to its notification loop.
LEMMA ReadPipeInv ==
    ASSUME PipeInv, NoOverflow, NEW p \in Procs, TryRead(p)
    PROVE  PipeInv'
<1>1. /\ call[p].kind = "read" /\ pc[p] = "try" /\ pipeOp = NoOp
      /\ UNCHANGED lockVars /\ UNCHANGED streamVars
      /\ UNCHANGED <<firstByte, lastByte, buffer, pipeFlags, use, ends, removed, amount>>
  BY DEF TryRead, Fsio_PipeRead
<1>2. CASE firstByte = -1
  <2>1. /\ UNCHANGED <<complete, signals, lost>> /\ UNCHANGED pipeVars
        /\ WouldBlock("read", p, call[p]) \/ (Return(p) /\ UNCHANGED waitList)
    BY <1>1, <1>2 DEF TryRead, Fsio_PipeRead, pipeVars
  <2>2. QED
    BY <1>1, <2>1, AnsweredPipeInv, StreamAssumption
<1>3. CASE firstByte # -1
  <2>1. /\ TypeOK /\ CallsFit /\ PipeServes(p) /\ FileServes(p) /\ amount[p] \in Nat
        /\ PipeTypeOK /\ RingOK /\ LastBounded /\ Filled
        /\ call \in [Procs -> Calls \cup {NoCall}] /\ LockTypeOK
    BY DEF PipeInv, ServersOK, TypeOK, PipeTypeOK
  <2>2. firstByte \in Int /\ lastByte \in Int /\ InPipe \in 0 .. BlockSize
    BY <2>1 DEF PipeTypeOK, TypeOK
  <2>3. call[p].len \in Nat
    BY <1>1, <2>1, CallFields DEF NoCall
  <2>4. PICK n : n = IF InPipe > call[p].len THEN call[p].len ELSE InPipe
    OBVIOUS
  <2>5. n \in Nat /\ n <= InPipe
    BY <2>2, <2>3, <2>4
  <2>6. /\ firstByte # -1 /\ got' = got \o BytesAfter(0, n)
        /\ PipeNotifying(p, [by |-> p, kind |-> "read", n |-> n, list |-> "write"])
    BY <1>3, <2>4 DEF TryRead, Fsio_PipeRead, ReadBlocks
  <2>7. PICK o \in PipeOps : o = [by |-> p, kind |-> "read", n |-> n, list |-> "write"]
    BY <2>5 DEF PipeOps
  <2>8. /\ WaitTypeOK' /\ call' = call /\ pipeOp' = o /\ pc'[p] = "serve"
        /\ \A q \in Procs \ {p} : pc'[q] = pc[q]
    BY <2>1, <2>6, <2>7, Begun
  <2>9. got' \in Seq(Procs \X Nat)
    <3>1. \A i \in 1 .. n : BytesAfter(0, n)[i] \in Procs \X Nat
      <4> SUFFICES ASSUME NEW i \in 1 .. n PROVE BytesAfter(0, n)[i] \in Procs \X Nat
        OBVIOUS
      <4>1. i - 1 \in 0 .. InPipe - 1 /\ firstByte + 0 + i - 1 = firstByte + (i - 1)
        BY <2>2, <2>5
      <4>2. buffer[Masked(firstByte + (i - 1))] \in Procs \X Nat
        BY <2>1, <4>1 DEF Filled
      <4>3. QED
        BY <4>1, <4>2 DEF BytesAfter
    <3>2. BytesAfter(0, n) \in [1 .. n -> Procs \X Nat]
      BY <3>1 DEF BytesAfter
    <3>3. BytesAfter(0, n) \in Seq(Procs \X Nat)
      BY <2>5, <3>2, SeqDef
    <3>4. got \in Seq(Procs \X Nat)
      BY <2>1 DEF PipeTypeOK
    <3>5. QED
      BY <2>6, <3>3, <3>4, ConcatProperties
  <2>10. InPipe' = InPipe /\ Written' = Written
         /\ HoldersOf("READ")' = HoldersOf("READ") /\ HoldersOf("WRITE")' = HoldersOf("WRITE")
    BY <1>1 DEF InPipe, Written, HoldersOf
  <2>11. PipeTypeOK'
    BY <1>1, <2>1, <2>8, <2>9 DEF PipeTypeOK
  <2>12. RingOK' /\ LastBounded' /\ UseCounts'
    BY <1>1, <2>1, <2>10 DEF PipeInv, RingOK, LastBounded, UseCounts
  <2>13. Filled' /\ OpFits'
    BY <1>1, <2>1, <2>5, <2>6, <2>7, <2>8, <2>10 DEF Filled, OpFits
  <2>14. PipeServes(p)' /\ FileServes(p)'
    BY <1>1, <2>1, <2>7, <2>8 DEF PipeServes, FileServes, lockVars
  <2>15. CallsFit' /\ ServersOK'
    BY <1>1, <2>1, <2>7, <2>8, <2>14, PipeCallStep DEF lockVars, CallsFit
  <2>16. LockTypeOK'
    BY <1>1, <2>1 DEF LockTypeOK, lockVars
  <2>17. QED
    BY <1>1, <2>1, <2>8, <2>10, <2>11, <2>12, <2>13, <2>15, <2>16
       DEF PipeInv, TypeOK, streamVars
<1>4. QED
  BY <1>2, <1>3

\* The bytes that a write copies are put after those of the pipe, over none of them.
LEMMA CopiedBytes ==
    ASSUME PipeInv, NoOverflow, NEW p \in Procs, NEW n \in Nat, n <= Room,
           buffer' = [i \in 0 .. BlockSize - 1 |->
                        IF \E j \in 1 .. n : Masked(lastByte + j) = i
                        THEN <<p, amount[p] + CHOOSE j \in 1 .. n : Masked(lastByte + j) = i>>
                        ELSE buffer[i]]
    PROVE  /\ buffer' \in [0 .. BlockSize - 1 -> (Procs \X Nat) \cup {NoByte}]
           /\ \A i \in 0 .. InPipe - 1 :
                 buffer'[Masked(firstByte + i)] = buffer[Masked(firstByte + i)]
           /\ \A j \in 1 .. n : buffer'[Masked(lastByte + j)] = <<p, amount[p] + j>>
<1>1. /\ firstByte \in Int /\ lastByte \in Int /\ RingOK /\ LastBounded /\ amount[p] \in Nat
      /\ buffer \in [0 .. BlockSize - 1 -> (Procs \X Nat) \cup {NoByte}]
  BY DEF PipeInv, TypeOK, PipeTypeOK
<1>2. /\ firstByte = -1 => InPipe = 0
      /\ firstByte # -1 => InPipe = lastByte - firstByte + 1
      /\ InPipe \in 0 .. BlockSize /\ Room = BlockSize - InPipe /\ BlockSize \in Nat
  BY <1>1, InPipeIs, PipeAssumption
<1>3. buffer' \in [0 .. BlockSize - 1 -> (Procs \X Nat) \cup {NoByte}]
  <2> SUFFICES ASSUME NEW i \in 0 .. BlockSize - 1,
                      \E j \in 1 .. n : Masked(lastByte + j) = i
               PROVE  <<p, amount[p] + CHOOSE j \in 1 .. n : Masked(lastByte + j) = i>>
                        \in Procs \X Nat
    BY <1>1
  <2>1. PICK k : k = CHOOSE j \in 1 .. n : Masked(lastByte + j) = i
    OBVIOUS
  <2>2. k \in 1 .. n
    BY <2>1
  <2>3. amount[p] + k \in Nat
    BY <1>1, <2>2
  <2>4. QED
    BY <2>1, <2>3
<1>4. ASSUME NEW i \in 0 .. InPipe - 1
      PROVE  buffer'[Masked(firstByte + i)] = buffer[Masked(firstByte + i)]
  <2>1. ASSUME NEW j \in 1 .. n PROVE Masked(lastByte + j) # Masked(firstByte + i)
    <3>1. /\ firstByte + i \in Int /\ lastByte + j \in Int /\ firstByte + i < lastByte + j
          /\ lastByte + j < firstByte + i + BlockSize
      BY <1>1, <1>2
    <3>2. QED
      BY <3>1, MaskedApart
  <2>2. Masked(firstByte + i) \in 0 .. BlockSize - 1
    BY <1>1, <1>2, MaskedType
  <2>3. QED
    BY <2>1, <2>2
<1>5. ASSUME NEW j \in 1 .. n
      PROVE  buffer'[Masked(lastByte + j)] = <<p, amount[p] + j>>
  <2>1. ASSUME NEW k \in 1 .. n, Masked(lastByte + k) = Masked(lastByte + j) PROVE k = j
    <3>1. n <= BlockSize
      BY <1>2
    <3>2. ASSUME NEW a \in 1 .. n, NEW b \in 1 .. n, a < b
          PROVE  Masked(lastByte + a) # Masked(lastByte + b)
      <4>1. /\ lastByte + a \in Int /\ lastByte + b \in Int /\ lastByte + a < lastByte + b
            /\ lastByte + b < lastByte + a + BlockSize
        BY <1>1, <1>2, <3>1, <3>2
      <4>2. QED
        BY <4>1, MaskedApart
    <3>3. ~(k < j) /\ ~(j < k)
      BY <2>1, <3>2
    <3>4. QED
      BY <3>3
  <2>2. PICK k : k = CHOOSE m \in 1 .. n : Masked(lastByte + m) = Masked(lastByte + j)
    OBVIOUS
  <2>3. k \in 1 .. n /\ Masked(lastByte + k) = Masked(lastByte + j)
    BY <2>2
  <2>4. k = j
    BY <2>1, <2>3
  <2>5. Masked(lastByte + j) \in 0 .. BlockSize - 1
    BY <1>1, MaskedType, SMTT(60)
  <2>6. QED
    BY <2>2, <2>4, <2>5
<1>6. QED
  BY <1>3, <1>4, <1>5

\* Fsio_PipeWrite up to its notification loop.
LEMMA WritePipeInv ==
    ASSUME PipeInv, NoOverflow, NEW p \in Procs, TryWrite(p)
    PROVE  PipeInv'
<1>1. /\ call[p].kind = "write" /\ pc[p] = "try" /\ pipeOp = NoOp
      /\ UNCHANGED lockVars /\ UNCHANGED streamVars
      /\ UNCHANGED <<firstByte, lastByte, pipeFlags, use, ends, removed, amount, got>>
  BY DEF TryWrite, Fsio_PipeWrite
<1>2. CASE "READER_GONE" \in pipeFlags \/ Room = 0
  <2>1. /\ UNCHANGED <<complete, signals, lost>> /\ UNCHANGED pipeVars
        /\ WouldBlock("write", p, call[p]) \/ (Return(p) /\ UNCHANGED waitList)
    BY <1>1, <1>2 DEF TryWrite, Fsio_PipeWrite, pipeVars
  <2>2. QED
    BY <1>1, <2>1, AnsweredPipeInv, StreamAssumption
<1>3. CASE "READER_GONE" \notin pipeFlags /\ Room # 0
  <2>1. /\ TypeOK /\ CallsFit /\ PipeServes(p) /\ FileServes(p) /\ amount[p] \in Nat
        /\ PipeTypeOK /\ RingOK /\ LastBounded /\ Filled
        /\ call \in [Procs -> Calls \cup {NoCall}] /\ LockTypeOK
    BY DEF PipeInv, ServersOK, TypeOK, PipeTypeOK
  <2>2. firstByte \in Int /\ lastByte \in Int /\ Room \in 0 .. BlockSize /\ BlockSize \in Nat
    BY <2>1, InPipeIs, PipeAssumption DEF PipeTypeOK
  <2>3. call[p].len \in Nat
    BY <1>1, <2>1, CallFields DEF NoCall
  <2>4. PICK n : n = IF Room > call[p].len THEN call[p].len ELSE Room
    OBVIOUS
  <2>5. n \in Nat /\ n <= Room /\ n <= call[p].len /\ (call[p].len > n => n = Room)
    BY <2>2, <2>3, <2>4
  <2>6. /\ buffer' = [i \in 0 .. BlockSize - 1 |->
                        IF \E j \in 1 .. n : Masked(lastByte + j) = i
                        THEN <<p, amount[p] + CHOOSE j \in 1 .. n : Masked(lastByte + j) = i>>
                        ELSE buffer[i]]
        /\ PipeNotifying(p, [by |-> p, kind |-> "write", n |-> n, list |-> "read",
                             more |-> call[p].len > n])
    BY <1>3, <2>4 DEF TryWrite, Fsio_PipeWrite, WriteBlocks
  <2>7. PICK o \in PipeOps : o = [by |-> p, kind |-> "write", n |-> n, list |-> "read",
                                  more |-> call[p].len > n]
    <3>0. (call[p].len > n) \in BOOLEAN
      <4>1. CASE call[p].len > n
        BY <4>1
      <4>2. CASE ~(call[p].len > n)
        BY <4>2
      <4>3. QED
        BY <4>1, <4>2
    <3>1. PICK b \in BOOLEAN : b = (call[p].len > n)
      BY <3>0, Zenon
    <3>2. [by |-> p, kind |-> "write", n |-> n, list |-> "read", more |-> b] \in PipeOps
      BY <2>5 DEF PipeOps
    <3>3. QED
      BY <3>1, <3>2
  <2>8. /\ WaitTypeOK' /\ call' = call /\ pipeOp' = o /\ pc'[p] = "serve"
        /\ \A q \in Procs \ {p} : pc'[q] = pc[q]
    BY <2>1, <2>6, <2>7, Begun
  <2>9. /\ buffer' \in [0 .. BlockSize - 1 -> (Procs \X Nat) \cup {NoByte}]
        /\ \A i \in 0 .. InPipe - 1 :
              buffer'[Masked(firstByte + i)] = buffer[Masked(firstByte + i)]
        /\ \A j \in 1 .. n : buffer'[Masked(lastByte + j)] = <<p, amount[p] + j>>
    BY <2>5, <2>6, CopiedBytes
  <2>10. InPipe' = InPipe /\ Room' = Room /\ Written' = Written
         /\ HoldersOf("READ")' = HoldersOf("READ") /\ HoldersOf("WRITE")' = HoldersOf("WRITE")
    BY <1>1 DEF InPipe, Room, Written, HoldersOf
  <2>11. PipeTypeOK'
    BY <1>1, <2>1, <2>8, <2>9 DEF PipeTypeOK
  <2>12. RingOK' /\ LastBounded' /\ UseCounts'
    BY <1>1, <2>1, <2>10 DEF PipeInv, RingOK, LastBounded, UseCounts
  <2>13. Filled'
    BY <1>1, <2>1, <2>7, <2>8, <2>9, <2>10 DEF Filled
  <2>14. amount[p] + call[p].len <= MaxBytes /\ amount[p] + n <= MaxBytes /\ MaxBytes \in Nat
    BY <1>1, <2>1, <2>3, <2>5, StreamAssumption DEF CallsFit
  <2>15. OpFits'
    BY <1>1, <2>5, <2>7, <2>8, <2>10, <2>14 DEF OpFits
  <2>16. PipeServes(p)' /\ FileServes(p)'
    BY <1>1, <2>1, <2>3, <2>5, <2>7, <2>8 DEF PipeServes, FileServes, lockVars
  <2>17. CallsFit' /\ ServersOK'
    BY <1>1, <2>1, <2>7, <2>8, <2>16, PipeCallStep DEF lockVars, CallsFit
  <2>18. LockTypeOK'
    BY <1>1, <2>1 DEF LockTypeOK, lockVars
  <2>19. QED
    BY <1>1, <2>1, <2>8, <2>10, <2>11, <2>12, <2>13, <2>15, <2>17, <2>18
       DEF PipeInv, TypeOK, streamVars
<1>4. QED
  BY <1>2, <1>3

\* The holders of an end can be counted.
LEMMA HoldersFinite ==
    ASSUME NEW end
    PROVE  IsFiniteSet(HoldersOf(end)) /\ Cardinality(HoldersOf(end)) \in Nat
<1>1. HoldersOf(end) \in SUBSET Procs
  BY DEF HoldersOf
<1>2. QED
  BY <1>1, WaitAssumption, FS_Subset, FS_CardinalityType

\* PipeCloseInt up to its notification loop, given the ends that are taken off the
\* client list.
LEMMA CloseIntPipeInv ==
    ASSUME PipeInv, NEW by \in Procs \cup {Recov}, NEW r, NEW w,
           PipeCloseInt(by, r, w), pipeOp = NoOp,
           by \in Procs => pc[by] = "try" /\ call[by].kind = "close",
           UNCHANGED <<firstByte, lastByte, buffer, removed, amount, got>>,
           UNCHANGED lockVars, UNCHANGED <<down, fileKill>>, pipeKill' \subseteq pipeKill,
           ends' \in [Procs -> SUBSET {"READ", "WRITE"}],
           use.write - w = Cardinality(HoldersOf("WRITE")'),
           use.ref - r = Cardinality(HoldersOf("READ")') + Cardinality(HoldersOf("WRITE")')
    PROVE  PipeInv'
<1>1. /\ TypeOK /\ CallsFit /\ ServersOK /\ PipeTypeOK /\ RingOK /\ LastBounded /\ Filled
      /\ call \in [Procs -> Calls \cup {NoCall}] /\ LockTypeOK
  BY DEF PipeInv, TypeOK
<1>2. PICK l \in {"read", "write", "none"} :
         /\ pipeFlags' \in {pipeFlags, pipeFlags \cup {"WRITER_GONE"}, pipeFlags \cup {"READER_GONE"}}
         /\ PipeNotifying(by, [by |-> by, kind |-> "close", n |-> 0, list |-> l])
  BY DEF PipeCloseInt
<1>3. use' = [ref |-> use.ref - r, write |-> use.write - w]
  BY DEF PipeCloseInt
<1>4. PICK o \in PipeOps : o = [by |-> by, kind |-> "close", n |-> 0, list |-> l]
  BY DEF PipeOps
<1>5. /\ WaitTypeOK' /\ call' = call /\ pipeOp' = o /\ (by \in Procs => pc'[by] = "serve")
      /\ \A q \in Procs \ {by} : pc'[q] = pc[q]
  BY <1>1, <1>2, <1>4, Begun
<1>6. /\ Cardinality(HoldersOf("WRITE"))' \in Nat /\ Cardinality(HoldersOf("READ"))' \in Nat
  <2>1. HoldersOf("WRITE")' \in SUBSET Procs /\ HoldersOf("READ")' \in SUBSET Procs
    BY DEF HoldersOf
  <2>2. QED
    BY <2>1, WaitAssumption, FS_Subset, FS_CardinalityType
<1>7. UseCounts' /\ use' \in [ref: Nat, write: Nat]
  BY <1>3, <1>6 DEF UseCounts
<1>8. PipeTypeOK'
  BY <1>1, <1>2, <1>5, <1>7 DEF PipeTypeOK
<1>9. InPipe' = InPipe /\ Written' = Written
  BY DEF InPipe, Written
<1>10. RingOK' /\ LastBounded' /\ Filled' /\ OpFits'
  BY <1>1, <1>4, <1>5, <1>9 DEF RingOK, LastBounded, Filled, OpFits
<1>11. CallsFit' /\ ServersOK'
  <2>1. ASSUME by \in Procs
        PROVE  /\ (PipeServes(by) /\ FileServes(by))'
               /\ amount'[by] + (IF call'[by].kind = "write" THEN call'[by].len ELSE 0) <= MaxBytes
    <3>1. FileServes(by) /\ amount[by] + (IF call[by].kind = "write" THEN call[by].len ELSE 0) <= MaxBytes
      BY <1>1, <2>1 DEF ServersOK, CallsFit
    <3>2. QED
      BY <1>4, <1>5, <2>1, <3>1 DEF PipeServes, FileServes, lockVars
  <2>2. QED
    BY <1>4, <1>5, <2>1, PipeCallStep DEF lockVars
<1>12. LockTypeOK'
  BY <1>1 DEF LockTypeOK, lockVars
<1>13. QED
  BY <1>1, <1>5, <1>7, <1>8, <1>9, <1>10, <1>11, <1>12 DEF PipeInv, TypeOK

\* Fsio_PipeClose takes one end off the client list and the counts.
LEMMA CloseHolders ==
    ASSUME ends \in [Procs -> SUBSET {"READ", "WRITE"}], UseCounts,
           NEW p \in Procs, NEW e, Fsio_PipeClose(p, e), NEW w, w = IF e = "WRITE" THEN 1 ELSE 0
    PROVE  /\ e \in {"READ", "WRITE"} /\ ends' \in [Procs -> SUBSET {"READ", "WRITE"}]
           /\ e = "WRITE" => HoldersOf("READ")' = HoldersOf("READ")
           /\ e = "READ" => HoldersOf("WRITE")' = HoldersOf("WRITE")
           /\ use.write - w = Cardinality(HoldersOf("WRITE")')
           /\ use.ref - 1 = Cardinality(HoldersOf("READ")') + Cardinality(HoldersOf("WRITE")')
<1>1. /\ e \in ends[p] /\ ends' = [ends EXCEPT ![p] = ends[p] \ {e}]
  BY DEF Fsio_PipeClose
<1>2. e \in {"READ", "WRITE"} /\ ends' \in [Procs -> SUBSET {"READ", "WRITE"}]
  BY <1>1
<1>3. /\ e = "WRITE" => /\ HoldersOf("WRITE")' = HoldersOf("WRITE") \ {p}
                        /\ HoldersOf("READ")' = HoldersOf("READ") /\ p \in HoldersOf("WRITE")
      /\ e = "READ" => /\ HoldersOf("READ")' = HoldersOf("READ") \ {p}
                       /\ HoldersOf("WRITE")' = HoldersOf("WRITE") /\ p \in HoldersOf("READ")
  BY <1>1 DEF HoldersOf
<1>4. /\ Cardinality(HoldersOf("WRITE")) \in Nat /\ Cardinality(HoldersOf("READ")) \in Nat
      /\ p \in HoldersOf("READ") =>
            Cardinality(HoldersOf("READ") \ {p}) = Cardinality(HoldersOf("READ")) - 1
      /\ p \in HoldersOf("WRITE") =>
            Cardinality(HoldersOf("WRITE") \ {p}) = Cardinality(HoldersOf("WRITE")) - 1
  BY HoldersFinite, FS_RemoveElement
<1>5. /\ use.write - w = Cardinality(HoldersOf("WRITE")')
      /\ use.ref - 1 = Cardinality(HoldersOf("READ")') + Cardinality(HoldersOf("WRITE")')
  <2>1. CASE e = "WRITE"
    <3>1. /\ Cardinality(HoldersOf("WRITE")') = Cardinality(HoldersOf("WRITE")) - 1
          /\ Cardinality(HoldersOf("READ")') = Cardinality(HoldersOf("READ"))
      BY <1>3, <1>4, <2>1
    <3>2. QED
      BY <1>4, <2>1, <3>1 DEF UseCounts
  <2>2. CASE e = "READ"
    <3>1. /\ Cardinality(HoldersOf("READ")') = Cardinality(HoldersOf("READ")) - 1
          /\ Cardinality(HoldersOf("WRITE")') = Cardinality(HoldersOf("WRITE"))
      BY <1>3, <1>4, <2>2
    <3>2. QED
      BY <1>4, <2>2, <3>1 DEF UseCounts
  <2>3. QED
    BY <1>2, <2>1, <2>2
<1>6. QED
  BY <1>2, <1>3, <1>5

\* Fsio_PipeClose up to its notification loop.
LEMMA ClosePipeInv ==
    ASSUME PipeInv, NEW p \in Procs, TryClose(p)
    PROVE  PipeInv'
<1>1. ends \in [Procs -> SUBSET {"READ", "WRITE"}] /\ UseCounts
  BY DEF PipeInv, TypeOK, PipeTypeOK
<1>2. /\ call[p].kind = "close" /\ pc[p] = "try" /\ pipeOp = NoOp
      /\ UNCHANGED lockVars /\ UNCHANGED streamVars
      /\ UNCHANGED <<firstByte, lastByte, buffer, removed, amount, got>>
  BY DEF TryClose, Fsio_PipeClose
<1>3. PICK e : e = call[p].end
  OBVIOUS
<1>4. PICK w : w = IF e = "WRITE" THEN 1 ELSE 0
  OBVIOUS
<1>5. Fsio_PipeClose(p, e) /\ PipeCloseInt(p, 1, w)
  BY <1>3, <1>4 DEF TryClose, Fsio_PipeClose
<1>6. /\ ends' \in [Procs -> SUBSET {"READ", "WRITE"}]
      /\ use.write - w = Cardinality(HoldersOf("WRITE")')
      /\ use.ref - 1 = Cardinality(HoldersOf("READ")') + Cardinality(HoldersOf("WRITE")')
  BY <1>1, <1>4, <1>5, CloseHolders
<1>7. QED
  BY <1>2, <1>5, <1>6, CloseIntPipeInv DEF streamVars

\* Fsio_PipeClientKill takes all the ends of a host off the list and the counts.
LEMMA KillHolders ==
    ASSUME ends \in [Procs -> SUBSET {"READ", "WRITE"}], UseCounts,
           NEW by, NEW h \in Hosts, Fsio_PipeClientKill(by, h)
    PROVE  \E r, w \in Nat :
              /\ PipeCloseInt(by, r, w) /\ ends' \in [Procs -> SUBSET {"READ", "WRITE"}]
              /\ w <= r /\ (r = w => HoldersOf("READ")' = HoldersOf("READ"))
              /\ w = 0 => HoldersOf("WRITE")' = HoldersOf("WRITE")
              /\ r # w => \E p \in Procs : HostOf[p] = h /\ "READ" \in ends[p]
              /\ w # 0 => \E p \in Procs : HostOf[p] = h /\ "WRITE" \in ends[p]
              /\ use.write - w = Cardinality(HoldersOf("WRITE")')
              /\ use.ref - r = Cardinality(HoldersOf("READ")') + Cardinality(HoldersOf("WRITE")')
<1> DEFINE Of(end) == {p \in Procs : HostOf[p] = h /\ end \in ends[p]}
<1>1. ends' = [p \in Procs |-> IF HostOf[p] = h THEN {} ELSE ends[p]]
  BY DEF Fsio_PipeClientKill
<1>2. ASSUME NEW end
      PROVE  /\ HoldersOf(end) \cap Of(end) = Of(end)
             /\ HoldersOf(end)' = HoldersOf(end) \ Of(end)
             /\ Cardinality(Of(end)) \in Nat /\ Cardinality(HoldersOf(end)) \in Nat
             /\ Cardinality(HoldersOf(end)') = Cardinality(HoldersOf(end)) - Cardinality(Of(end))
             /\ Cardinality(Of(end)) = 0 <=> Of(end) = {}
  <2>1. HoldersOf(end) \cap Of(end) = Of(end) /\ HoldersOf(end)' = HoldersOf(end) \ Of(end)
    BY <1>1 DEF HoldersOf
  <2>2. IsFiniteSet(Of(end))
    BY WaitAssumption, FS_Subset
  <2>3. QED
    <3>1. PICK T : T = Of(end)
      OBVIOUS
    <3>2. PICK H : H = HoldersOf(end)
      OBVIOUS
    <3>3. IsFiniteSet(T) /\ IsFiniteSet(H) /\ Cardinality(T) \in Nat /\ Cardinality(H) \in Nat
      BY <2>2, <3>1, <3>2, HoldersFinite, FS_CardinalityType
    <3>4. Cardinality(T) = 0 <=> T = {}
      BY <3>3, FS_EmptySet
    <3>5. Cardinality(H \ T) = Cardinality(H) - Cardinality(H \cap T)
      BY <3>3, FS_Difference
    <3>6. QED
      BY <2>1, <3>1, <3>2, <3>3, <3>4, <3>5
<1>3. PICK k \in Nat : k = Cardinality(Of("READ"))
  BY <1>2
<1>4. PICK w \in Nat : w = Cardinality(Of("WRITE"))
  BY <1>2
<1>5. PICK r \in Nat : r = k + w
  OBVIOUS
<1>6. PipeCloseInt(by, r, w)
  BY <1>3, <1>4, <1>5 DEF Fsio_PipeClientKill
<1>7. ends' \in [Procs -> SUBSET {"READ", "WRITE"}]
  BY <1>1
<1>8. /\ k # 0 => \E p \in Procs : HostOf[p] = h /\ "READ" \in ends[p]
      /\ w # 0 => \E p \in Procs : HostOf[p] = h /\ "WRITE" \in ends[p]
  <2>1. (k # 0 => Of("READ") # {}) /\ (w # 0 => Of("WRITE") # {})
    BY <1>2, <1>3, <1>4
  <2>2. QED
    BY <2>1
<1> HIDE DEF Of
<1>9. /\ k = 0 => HoldersOf("READ")' = HoldersOf("READ")
      /\ w = 0 => HoldersOf("WRITE")' = HoldersOf("WRITE")
  BY <1>2, <1>3, <1>4
<1>10. /\ use.write - w = Cardinality(HoldersOf("WRITE")')
       /\ use.ref - r = Cardinality(HoldersOf("READ")') + Cardinality(HoldersOf("WRITE")')
  BY <1>2, <1>3, <1>4, <1>5 DEF UseCounts
<1>11. w <= r /\ (r = w <=> k = 0)
  BY <1>5
<1>12. QED
  BY <1>6, <1>7, <1>8, <1>9, <1>10, <1>11

\* Fsio_PipeClientKill up to its notification loop.
LEMMA KillPipePipeInv ==
    ASSUME PipeInv, NEW h \in Hosts, KillPipe(h)
    PROVE  PipeInv'
<1>1. ends \in [Procs -> SUBSET {"READ", "WRITE"}] /\ UseCounts
  BY DEF PipeInv, TypeOK, PipeTypeOK
<1>2. /\ pipeOp = NoOp /\ UNCHANGED lockVars /\ UNCHANGED <<down, fileKill>>
      /\ UNCHANGED <<firstByte, lastByte, buffer, removed, amount, got>>
      /\ pipeKill' \subseteq pipeKill /\ Fsio_PipeClientKill(Recov, h)
  BY DEF KillPipe, Fsio_PipeClientKill
<1>3. PICK r, w \in Nat :
         /\ PipeCloseInt(Recov, r, w) /\ ends' \in [Procs -> SUBSET {"READ", "WRITE"}]
         /\ use.write - w = Cardinality(HoldersOf("WRITE")')
         /\ use.ref - r = Cardinality(HoldersOf("READ")') + Cardinality(HoldersOf("WRITE")')
  BY <1>1, <1>2, KillHolders
<1>4. QED
  BY <1>2, <1>3, CloseIntPipeInv, WaitAssumption

\* An operation of the pipe is over: its process, if it is still there, returns.
LEMMA FinishedCalls ==
    ASSUME PipeInv, NEW p, pipeOp \in PipeOps, p = pipeOp.by, pipeOp' = NoOp,
           \/ p \in Procs /\ pc[p] = "serve" /\ Return(p)
           \/ UNCHANGED <<pc, call, sigs>>,
           UNCHANGED <<complete, signals, lost>>, UNCHANGED amount, UNCHANGED lockVars,
           waitList' \in [Lists -> Seq(Procs)]
    PROVE  /\ WaitTypeOK' /\ LockTypeOK' /\ call' \in [Procs -> Calls \cup {NoCall}]
           /\ CallsFit' /\ ServersOK'
<1>1. /\ TypeOK /\ WaitTypeOK /\ LockTypeOK /\ CallsFit /\ ServersOK
      /\ pc \in [Procs -> ProcStates] /\ call \in [Procs -> Calls \cup {NoCall}]
  BY DEF PipeInv, TypeOK, WaitTypeOK
<1>2. /\ pc' \in [Procs -> ProcStates] /\ call' \in [Procs -> Calls \cup {NoCall}]
      /\ sigs' \subseteq sigs
      /\ \A q \in Procs \ {p} : pc'[q] = pc[q] /\ call'[q] = call[q]
      /\ p \in Procs => \/ pc'[p] = pc[p] /\ call'[p] = call[p]
                        \/ pc[p] = "serve" /\ pc'[p] = "user" /\ call'[p] = NoCall
  BY <1>1 DEF ProcStates, Return
<1>3. WaitTypeOK' /\ LockTypeOK'
  BY <1>1, <1>2 DEF WaitTypeOK, LockTypeOK, lockVars
<1>4. ASSUME p \in Procs
      PROVE  /\ (PipeServes(p) /\ FileServes(p))'
             /\ amount'[p] + (IF call'[p].kind = "write" THEN call'[p].len ELSE 0) <= MaxBytes
  <2>1. /\ PipeServes(p) /\ FileServes(p) /\ amount[p] \in Nat /\ MaxBytes \in Nat
        /\ amount[p] + (IF call[p].kind = "write" THEN call[p].len ELSE 0) <= MaxBytes
    BY <1>1, <1>4, StreamAssumption DEF ServersOK, CallsFit, TypeOK, PipeTypeOK
  <2>2. call[p].kind = "write" => call[p].len \in Nat
    BY <1>1, <1>4, CallFields DEF NoCall
  <2>3. pipeOp.kind \in {"read", "write", "close"}
    BY PipeOpFields
  <2>4. PipeServes(p)'
    BY NoOpAssumption DEF PipeServes
  <2>5. FileServes(p)'
    BY <1>2, <1>4, <2>1, <2>3 DEF PipeServes, FileServes, lockVars
  <2>6. QED
    BY <1>2, <1>4, <2>1, <2>2, <2>4, <2>5 DEF NoCall
<1>5. CallsFit' /\ ServersOK'
  BY <1>2, <1>4, PipeCallStep DEF lockVars
<1>6. QED
  BY <1>2, <1>3, <1>5

\* What is left of the pipe after a read.
LEMMA RingAfterRead ==
    ASSUME PipeInv, NoOverflow, PipeReadDone
    PROVE  /\ firstByte' \in Int /\ lastByte' \in Int /\ RingOK' /\ LastBounded'
           /\ InPipe' = InPipe - pipeOp.n /\ pipeOp.n \in 0 .. InPipe
           /\ buffer' \in [0 .. BlockSize - 1 -> (Procs \X Nat) \cup {NoByte}]
           /\ \A i \in 0 .. InPipe' - 1 :
                 buffer'[Masked(firstByte' + i)] = buffer[Masked(firstByte + pipeOp.n + i)]
<1>1. /\ firstByte \in Int /\ lastByte \in Int /\ RingOK /\ LastBounded /\ OpFits
      /\ buffer \in [0 .. BlockSize - 1 -> (Procs \X Nat) \cup {NoByte}]
      /\ pipeOp \in PipeOps /\ pipeOp.kind = "read" /\ UNCHANGED amount
  BY DEF PipeInv, TypeOK, PipeTypeOK, PipeReadDone
<1>2. PICK n \in Nat : n = pipeOp.n
  BY <1>1, PipeOpFields
<1>3. firstByte # -1 /\ n <= InPipe
  BY <1>1, <1>2 DEF OpFits
<1>4. /\ InPipe = lastByte - firstByte + 1 /\ lastByte < (IntRange \div 2) - 1
      /\ IntRange \div 2 \in Nat /\ InPipe \in 0 .. BlockSize /\ BlockSize \in Nat \ {0}
  BY <1>1, <1>3, InPipeIs, PipeAssumption
<1>5. 0 <= firstByte /\ firstByte <= lastByte + 1 /\ lastByte < firstByte + BlockSize
  BY <1>1, <1>3 DEF RingOK
<1>6. AsInt(firstByte + n) = firstByte + n
  <2>1. /\ firstByte + n \in Int /\ -(IntRange \div 2) <= firstByte + n
        /\ firstByte + n < IntRange \div 2
    BY <1>1, <1>3, <1>4, <1>5
  <2>2. QED
    BY <2>1, AsIntSmall
<1>7. /\ \/ firstByte + n > lastByte /\ firstByte' = -1 /\ lastByte' = -1
         \/ firstByte + n <= lastByte /\ firstByte' = firstByte + n /\ lastByte' = lastByte
      /\ buffer' = Without(n)
  BY <1>1, <1>2, <1>6 DEF PipeReadDone, Emptied
<1>8. firstByte' \in Int /\ lastByte' \in Int /\ RingOK'
  BY <1>1, <1>2, <1>4, <1>5, <1>7, SMTT(60) DEF RingOK
<1>9. Written' = Written /\ Cardinality(Written) \in Nat
  BY <1>1, WrittenBound DEF Written
<1>10. LastBounded'
  <2>1. PICK k \in Nat : k = Cardinality(Written)
    BY <1>9
  <2>2. lastByte < k /\ lastByte' < k
    BY <1>1, <1>7, <2>1 DEF LastBounded
  <2>3. QED
    BY <1>9, <2>1, <2>2 DEF LastBounded
<1>11. InPipe' = InPipe - n
  <2>1. /\ firstByte' = -1 => InPipe' = 0
        /\ firstByte' # -1 => InPipe' = lastByte' - firstByte' + 1
    <3>1. (firstByte \in Int /\ lastByte \in Int /\ RingOK /\ LastBounded =>
              /\ lastByte < (IntRange \div 2) - 1 /\ IntRange \div 2 \in Nat
              /\ firstByte = -1 => InPipe = 0 /\ Room = BlockSize
              /\ firstByte # -1 => InPipe = lastByte - firstByte + 1
              /\ InPipe \in 0 .. BlockSize /\ Room = BlockSize - InPipe
              /\ Room \in 0 .. BlockSize)'
      BY InPipeIs, PTL
    <3>2. QED
      BY <1>8, <1>10, <3>1
  <2>2. QED
    BY <1>1, <1>2, <1>3, <1>4, <1>5, <1>7, <2>1
<1>12. buffer' \in [0 .. BlockSize - 1 -> (Procs \X Nat) \cup {NoByte}]
  BY <1>1, <1>7 DEF Without
<1>13. ASSUME NEW i \in 0 .. InPipe' - 1
       PROVE  buffer'[Masked(firstByte' + i)] = buffer[Masked(firstByte + n + i)]
  <2>1. firstByte' = firstByte + n /\ i \in Nat /\ i + n < InPipe
    BY <1>1, <1>3, <1>4, <1>7, <1>11
  <2>2. ASSUME NEW j \in 1 .. n PROVE Masked(firstByte + j - 1) # Masked(firstByte + n + i)
    <3>1. /\ firstByte + j - 1 \in Int /\ firstByte + n + i \in Int
          /\ firstByte + j - 1 < firstByte + n + i
          /\ firstByte + n + i < firstByte + j - 1 + BlockSize
      BY <1>1, <1>4, <2>1
    <3>2. QED
      BY <3>1, MaskedApart
  <2>3. firstByte + n + i \in Int /\ Masked(firstByte + n + i) \in 0 .. BlockSize - 1
    BY <1>1, <2>1, MaskedType, SMTT(60)
  <2>4. QED
    BY <1>7, <2>1, <2>2, <2>3 DEF Without
<1>14. QED
  BY <1>2, <1>3, <1>4, <1>8, <1>10, <1>11, <1>12, <1>13

\* Fsio_PipeRead after its notification loop.
LEMMA ReadDonePipeInv ==
    ASSUME PipeInv, NoOverflow, PipeReadDone, UNCHANGED lockVars, UNCHANGED streamVars
    PROVE  PipeInv'
<1>1. /\ TypeOK /\ PipeTypeOK /\ Filled /\ UseCounts /\ LockTypeOK
      /\ pipeOp \in PipeOps /\ pipeOp.kind = "read" /\ pipeOp' = NoOp
      /\ UNCHANGED <<pipeFlags, use, ends, removed, amount, got>>
      /\ UNCHANGED <<complete, signals, waitList, lost>>
  BY DEF PipeInv, TypeOK, PipeTypeOK, PipeReadDone
<1>2. PICK p \in Procs : p = pipeOp.by
  BY <1>1, PipeOpFields
<1>3. /\ firstByte' \in Int /\ lastByte' \in Int /\ RingOK' /\ LastBounded'
      /\ InPipe' = InPipe - pipeOp.n /\ pipeOp.n \in 0 .. InPipe
      /\ buffer' \in [0 .. BlockSize - 1 -> (Procs \X Nat) \cup {NoByte}]
      /\ \A i \in 0 .. InPipe' - 1 :
            buffer'[Masked(firstByte' + i)] = buffer[Masked(firstByte + pipeOp.n + i)]
  BY RingAfterRead
<1>4. /\ WaitTypeOK' /\ LockTypeOK' /\ call' \in [Procs -> Calls \cup {NoCall}]
      /\ CallsFit' /\ ServersOK'
  <2>1. \/ p \in Procs /\ pc[p] = "serve" /\ Return(p)
        \/ UNCHANGED <<pc, call, sigs>>
    BY <1>2 DEF PipeReadDone
  <2>2. waitList' \in [Lists -> Seq(Procs)]
    BY <1>1 DEF TypeOK, WaitTypeOK
  <2>3. QED
    BY <1>1, <1>2, <2>1, <2>2, FinishedCalls
<1>5. PipeTypeOK'
  BY <1>1, <1>3 DEF PipeTypeOK
<1>6. UseCounts' /\ OpFits'
  BY <1>1, NoOpAssumption DEF UseCounts, HoldersOf, OpFits
<1>7. Filled'
  <2> SUFFICES ASSUME NEW i \in 0 .. InPipe' - 1
               PROVE  buffer'[Masked(firstByte' + i)] \in Procs \X Nat
    BY <1>1, NoOpAssumption DEF Filled
  <2>1. firstByte \in Int /\ InPipe \in Nat /\ pipeOp.n \in Nat
    BY <1>1, <1>3, PipeOpFields, PipeAssumption DEF PipeTypeOK, TypeOK
  <2>2. pipeOp.n + i \in 0 .. InPipe - 1 /\ firstByte + pipeOp.n + i = firstByte + (pipeOp.n + i)
    BY <1>3, <2>1
  <2>3. buffer[Masked(firstByte + (pipeOp.n + i))] \in Procs \X Nat
    BY <1>1, <2>2 DEF Filled
  <2>4. QED
    BY <1>3, <2>2, <2>3
<1>8. (InPipe \in 0 .. BlockSize)'
  BY <1>1, <1>3, PipeAssumption DEF TypeOK
<1>9. QED
  BY <1>1, <1>3, <1>4, <1>5, <1>6, <1>7, <1>8 DEF PipeInv, TypeOK, streamVars

\* A write that is accounted for adds its bytes to those written.
LEMMA WrittenGrows ==
    ASSUME PipeInv, NoOverflow, NEW p \in Procs, NEW n \in Nat, amount[p] + n <= MaxBytes,
           amount' = [amount EXCEPT ![p] = amount[p] + n]
    PROVE  /\ Cardinality(Written') = Cardinality(Written) + n
           /\ Cardinality(Written) \in Nat /\ Cardinality(Written') < IntRange \div 2
<1> DEFINE more == {p} \X (amount[p] + 1 .. amount[p] + n)
<1>1. amount \in [Procs -> Nat] /\ amount[p] \in Nat /\ MaxBytes \in Nat
  BY StreamAssumption DEF PipeInv, TypeOK, PipeTypeOK
<1>2. /\ IsFiniteSet(Written) /\ Cardinality(Written) \in Nat
  BY WrittenBound
<1>3. IsFiniteSet(more) /\ Cardinality(more) = n
  <2>1. IsFiniteSet({p}) /\ Cardinality({p}) = 1
    BY FS_Singleton
  <2>2. /\ IsFiniteSet(amount[p] + 1 .. amount[p] + n)
        /\ Cardinality(amount[p] + 1 .. amount[p] + n) = n
    <3>1. PICK a \in Int : a = amount[p] + 1
      BY <1>1
    <3>2. PICK b \in Int : b = amount[p] + n
      BY <1>1
    <3>3. IsFiniteSet(a .. b) /\ Cardinality(a .. b) = IF a > b THEN 0 ELSE b - a + 1
      BY FS_Interval
    <3>4. (IF a > b THEN 0 ELSE b - a + 1) = n
      BY <1>1, <3>1, <3>2
    <3>5. QED
      BY <3>1, <3>2, <3>3, <3>4
  <2>3. PICK T : T = amount[p] + 1 .. amount[p] + n
    OBVIOUS
  <2>4. IsFiniteSet({p} \X T) /\ Cardinality({p} \X T) = Cardinality({p}) * Cardinality(T)
    BY <2>1, <2>2, <2>3, FS_Product
  <2>5. QED
    BY <2>1, <2>2, <2>3, <2>4
<1>4. Written' = Written \cup more /\ Written \cap more = {}
  <2>1. ASSUME NEW q \in Procs, NEW k \in 1 .. MaxBytes
        PROVE  (<<q, k>> \in Written') <=> (<<q, k>> \in Written \/ <<q, k>> \in more)
    BY <1>1, <2>1 DEF Written
  <2>2. Written' \subseteq Procs \X (1 .. MaxBytes) /\ Written \subseteq Procs \X (1 .. MaxBytes)
    BY DEF Written
  <2>3. more \subseteq Procs \X (1 .. MaxBytes)
    BY <1>1
  <2>4. Written' = Written \cup more
    BY <2>1, <2>2, <2>3
  <2>5. Written \cap more = {}
    <3>1. \A b \in Written : b[2] <= amount[b[1]] /\ b[2] \in Nat
      BY DEF Written
    <3>2. \A b \in more : b[1] = p /\ b[2] >= amount[p] + 1
      OBVIOUS
    <3>3. QED
      BY <1>1, <3>1, <3>2
  <2>6. QED
    BY <2>4, <2>5
<1> HIDE DEF more
<1>5. Cardinality(Written') = Cardinality(Written) + n
  <2>1. Cardinality(Written \cup more) = Cardinality(Written) + Cardinality(more)
                                            - Cardinality(Written \cap more)
    BY <1>2, <1>3, FS_Union
  <2>2. QED
    <3>1. Cardinality(Written \cap more) = 0
      BY <1>4, FS_EmptySet
    <3>2. QED
      BY <1>2, <1>3, <1>4, <2>1, <3>1
<1>6. (/\ IsFiniteSet(Written) /\ Cardinality(Written) \in Nat
       /\ Cardinality(Written) < IntRange \div 2)'
  BY WrittenBound, PTL
<1>7. QED
  BY <1>2, <1>5, <1>6

\* What is in the pipe after a write.
LEMMA RingAfterWrite ==
    ASSUME PipeInv, NoOverflow, PipeWriteDone
    PROVE  /\ firstByte' \in Int /\ lastByte' \in Int /\ RingOK' /\ LastBounded'
           /\ InPipe' = InPipe + pipeOp.n /\ InPipe' \in 0 .. BlockSize
           /\ \A i \in 0 .. InPipe - 1 : firstByte' + i = firstByte + i
           /\ \A i \in InPipe .. InPipe' - 1 : firstByte' + i = lastByte + (i - InPipe + 1)
<1>1. /\ firstByte \in Int /\ lastByte \in Int /\ RingOK /\ LastBounded /\ OpFits
      /\ pipeOp \in PipeOps /\ pipeOp.kind = "write"
  BY DEF PipeInv, TypeOK, PipeTypeOK, PipeWriteDone
<1>2. PICK n \in Nat : n = pipeOp.n
  BY <1>1, PipeOpFields
<1>3. PICK p \in Procs : p = pipeOp.by
  BY <1>1, PipeOpFields
<1>4. n <= Room /\ amount[p] + n <= MaxBytes
  BY <1>1, <1>2, <1>3 DEF OpFits
<1>5. /\ amount' = [amount EXCEPT ![p] = amount[p] + n]
      /\ firstByte' = IF firstByte = -1 THEN 0 ELSE firstByte
      /\ lastByte' = AsInt(lastByte + n)
  BY <1>2, <1>3 DEF PipeWriteDone
<1>6. /\ Cardinality(Written') = Cardinality(Written) + n
      /\ Cardinality(Written) \in Nat /\ Cardinality(Written') < IntRange \div 2
  BY <1>4, <1>5, WrittenGrows
<1>7. /\ IntRange \div 2 \in Nat /\ BlockSize \in Nat \ {0} /\ InPipe \in 0 .. BlockSize
      /\ firstByte = -1 => InPipe = 0
      /\ firstByte # -1 => InPipe = lastByte - firstByte + 1
      /\ Room = BlockSize - InPipe
  BY <1>1, InPipeIs, PipeAssumption
<1>8. lastByte \in Int /\ lastByte >= -1
  BY <1>1 DEF RingOK
<1>9. lastByte + n < Cardinality(Written')
  BY <1>1, <1>6, <1>8 DEF LastBounded
<1>10. lastByte' = lastByte + n
  <2>1. /\ lastByte + n \in Int /\ -(IntRange \div 2) <= lastByte + n
        /\ lastByte + n < IntRange \div 2
    <3>1. Cardinality(Written') \in Nat
      BY <1>6
    <3>2. IntRange \div 2 > 0
      BY <1>6, <1>7, <3>1
    <3>3. QED
      BY <1>6, <1>7, <1>8, <1>9, <3>1, <3>2
  <2>2. QED
    BY <1>5, <2>1, AsIntSmall
<1>11. firstByte' \in Int /\ lastByte' \in Int
  BY <1>1, <1>5, <1>10
<1>12. RingOK'
  <2>1. CASE firstByte = -1
    <3>1. lastByte = -1 /\ InPipe = 0
      BY <1>1, <1>7, <2>1 DEF RingOK
    <3>2. QED
      BY <1>4, <1>5, <1>7, <1>10, <2>1, <3>1 DEF RingOK
  <2>2. CASE firstByte # -1
    <3>1. 0 <= firstByte /\ firstByte <= lastByte + 1 /\ InPipe = lastByte - firstByte + 1
      BY <1>1, <1>7, <2>2 DEF RingOK
    <3>2. QED
      BY <1>1, <1>4, <1>5, <1>7, <1>10, <2>2, <3>1 DEF RingOK
  <2>3. QED
    BY <2>1, <2>2
<1>13. LastBounded'
  BY <1>9, <1>10 DEF LastBounded
<1>14. firstByte' # -1 /\ InPipe' = lastByte' - firstByte' + 1 /\ InPipe' \in 0 .. BlockSize
  <2>1. (firstByte \in Int /\ lastByte \in Int /\ RingOK /\ LastBounded =>
              /\ lastByte < (IntRange \div 2) - 1 /\ IntRange \div 2 \in Nat
              /\ firstByte = -1 => InPipe = 0 /\ Room = BlockSize
              /\ firstByte # -1 => InPipe = lastByte - firstByte + 1
              /\ InPipe \in 0 .. BlockSize /\ Room = BlockSize - InPipe
              /\ Room \in 0 .. BlockSize)'
    BY InPipeIs, PTL
  <2>2. firstByte' # -1
    BY <1>1, <1>5
  <2>3. QED
    BY <1>11, <1>12, <1>13, <2>1, <2>2
<1>15. InPipe' = InPipe + n
  BY <1>1, <1>5, <1>7, <1>10, <1>14 DEF RingOK
<1>16. \A i \in 0 .. InPipe - 1 : firstByte' + i = firstByte + i
  BY <1>5, <1>7
<1>17. \A i \in InPipe .. InPipe' - 1 : firstByte' + i = lastByte + (i - InPipe + 1)
  BY <1>1, <1>5, <1>7, <1>10, <1>15 DEF RingOK
<1>18. QED
  BY <1>2, <1>11, <1>12, <1>13, <1>14, <1>15, <1>16, <1>17

\* Fsio_PipeWrite after its notification loop.
LEMMA WriteDonePipeInv ==
    ASSUME PipeInv, NoOverflow, PipeWriteDone, UNCHANGED lockVars, UNCHANGED streamVars
    PROVE  PipeInv'
<1>1. /\ TypeOK /\ PipeTypeOK /\ WaitTypeOK /\ Filled /\ UseCounts /\ LockTypeOK
      /\ pipeOp \in PipeOps /\ pipeOp.kind = "write" /\ pipeOp' = NoOp
      /\ UNCHANGED <<buffer, pipeFlags, use, ends, removed, got>>
      /\ UNCHANGED <<complete, signals, lost>>
      /\ pc \in [Procs -> ProcStates] /\ call \in [Procs -> Calls \cup {NoCall}]
      /\ amount \in [Procs -> Nat]
  BY DEF PipeInv, TypeOK, PipeTypeOK, WaitTypeOK, PipeWriteDone
<1>2. PICK p \in Procs : p = pipeOp.by
  BY <1>1, PipeOpFields
<1>3. PICK n \in Nat : n = pipeOp.n
  BY <1>1, PipeOpFields
<1>4. /\ amount[p] + n <= MaxBytes /\ MaxBytes \in Nat /\ amount[p] \in Nat
      /\ amount' = [amount EXCEPT ![p] = amount[p] + n]
  BY <1>1, <1>2, <1>3, StreamAssumption DEF PipeInv, OpFits, PipeWriteDone
<1>5. /\ firstByte' \in Int /\ lastByte' \in Int /\ RingOK' /\ LastBounded'
      /\ InPipe' = InPipe + n /\ InPipe' \in 0 .. BlockSize
      /\ \A i \in 0 .. InPipe - 1 : firstByte' + i = firstByte + i
      /\ \A i \in InPipe .. InPipe' - 1 : firstByte' + i = lastByte + (i - InPipe + 1)
  BY <1>3, RingAfterWrite
<1>6. PipeTypeOK'
  BY <1>1, <1>4, <1>5 DEF PipeTypeOK
<1>7. UseCounts' /\ OpFits'
  BY <1>1, NoOpAssumption DEF UseCounts, HoldersOf, OpFits
<1>8. Filled'
  <2> SUFFICES ASSUME NEW i \in 0 .. InPipe' - 1
               PROVE  buffer[Masked(firstByte' + i)] \in Procs \X Nat
    BY <1>1, NoOpAssumption DEF Filled
  <2>0. InPipe \in Nat
    BY <1>1, PipeAssumption DEF TypeOK
  <2>1. CASE i < InPipe
    <3>1. i \in 0 .. InPipe - 1
      BY <2>0, <2>1
    <3>2. buffer[Masked(firstByte + i)] \in Procs \X Nat
      BY <1>1, <3>1 DEF Filled
    <3>3. QED
      BY <1>5, <3>1, <3>2
  <2>2. CASE ~(i < InPipe)
    <3>1. i \in InPipe .. InPipe' - 1 /\ i - InPipe + 1 \in 1 .. n
      BY <1>5, <2>0, <2>2
    <3>2. buffer[Masked(lastByte + (i - InPipe + 1))] = <<p, amount[p] + (i - InPipe + 1)>>
      BY <1>1, <1>2, <1>3, <3>1 DEF Filled
    <3>3. amount[p] + (i - InPipe + 1) \in Nat
      BY <1>4, <3>1
    <3>4. <<p, amount[p] + (i - InPipe + 1)>> \in Procs \X Nat
      BY <3>3
    <3>5. firstByte' + i = lastByte + (i - InPipe + 1)
      BY <1>5, <3>1
    <3>6. QED
      BY <3>2, <3>4, <3>5
  <2>3. QED
    BY <2>1, <2>2
<1>9. /\ WaitTypeOK' /\ call' \in [Procs -> Calls \cup {NoCall}]
      /\ \A q \in Procs \ {p} : pc'[q] = pc[q] /\ call'[q] = call[q]
      /\ \/ call'[p] = NoCall
         \/ /\ call'[p].kind = "write" /\ call'[p].len = call[p].len - n
            /\ call[p].kind = "write" /\ call[p].len \in Nat
      /\ fileBy # p \/ (pc[p] = "gone" /\ pc'[p] = "gone")
  <2>1. PipeServes(p) /\ FileServes(p)
    BY DEF PipeInv, ServersOK
  <2>2. CASE pc[p] # "serve"
    <3>1. pc[p] = "gone" /\ call[p] = NoCall
      BY <1>1, <1>2, <2>1, <2>2 DEF PipeServes
    <3>2. /\ UNCHANGED <<pc, call, sigs>>
          /\ UNCHANGED waitList \/ Fsutil_FastWaitListInsert("write", p)
      BY <1>2, <2>2 DEF PipeWriteDone
    <3>3. waitList' \in [Lists -> Seq(Procs)]
      BY <1>1, <3>2, InsertType, StreamAssumption DEF WaitTypeOK
    <3>4. QED
      BY <1>1, <3>1, <3>2, <3>3 DEF WaitTypeOK
  <2>3. CASE pc[p] = "serve"
    <3>1. /\ call[p].kind = "write" /\ n <= call[p].len /\ (pipeOp.more => n < call[p].len)
          /\ fileBy # p
      BY <1>1, <1>2, <1>3, <2>1, <2>3 DEF PipeServes, FileServes
    <3>2. call[p].len \in Nat /\ call[p].nb \in BOOLEAN
      BY <1>1, <3>1, CallFields DEF NoCall
    <3>3. PICK c \in Calls : c = Rest(p)
      <4>1. call[p].len - pipeOp.n \in Nat
        BY <1>3, <3>1, <3>2
      <4>2. QED
        BY <3>2, <4>1 DEF Calls, Rest
    <3>4. WouldBlock("write", p, c) \/ (Return(p) /\ UNCHANGED waitList)
      BY <1>2, <2>3, <3>3 DEF PipeWriteDone
    <3>5. /\ WaitTypeOK' /\ call' \in [Procs -> Calls \cup {NoCall}]
          /\ \A q \in Procs \ {p} : pc'[q] = pc[q] /\ call'[q] = call[q]
          /\ call'[p] = NoCall \/ call'[p] = c
      BY <1>1, <3>4, Answered, StreamAssumption
    <3>6. QED
      BY <1>3, <3>1, <3>2, <3>3, <3>5 DEF Rest
  <2>4. QED
    BY <2>2, <2>3
<1>10. CallsFit' /\ ServersOK'
  <2>1. PipeServes(p)' /\ FileServes(p)'
    BY <1>1, <1>9, NoOpAssumption DEF PipeServes, FileServes, lockVars
  <2>2. amount'[p] + (IF call'[p].kind = "write" THEN call'[p].len ELSE 0) <= MaxBytes
    <3>1. amount'[p] = amount[p] + n
      BY <1>1, <1>4
    <3>2. amount[p] + (IF call[p].kind = "write" THEN call[p].len ELSE 0) <= MaxBytes
      BY DEF PipeInv, CallsFit
    <3>3. QED
      BY <1>4, <1>9, <3>1, <3>2 DEF NoCall
  <2>3. \A q \in Procs \ {p} : amount'[q] = amount[q]
    BY <1>1, <1>4
  <2>4. QED
    BY <1>1, <1>9, <2>1, <2>2, <2>3, PipeCallStep DEF lockVars
<1>11. LockTypeOK'
  BY <1>1 DEF LockTypeOK, lockVars
<1>12. QED
  BY <1>1, <1>5, <1>6, <1>7, <1>8, <1>9, <1>10, <1>11 DEF PipeInv, TypeOK, streamVars

\* The end of PipeCloseInt.
LEMMA CloseDonePipeInv ==
    ASSUME PipeInv, PipeCloseDone, UNCHANGED lockVars, UNCHANGED streamVars
    PROVE  PipeInv'
<1>1. /\ TypeOK /\ PipeTypeOK /\ RingOK /\ LastBounded /\ Filled /\ UseCounts
      /\ pipeOp \in PipeOps /\ pipeOp.kind = "close" /\ pipeOp' = NoOp
      /\ UNCHANGED <<firstByte, lastByte, buffer, pipeFlags, use, ends, amount, got>>
      /\ UNCHANGED <<complete, signals, lost>> /\ removed' \in {removed, TRUE}
      /\ waitList \in [Lists -> Seq(Procs)]
  BY DEF PipeInv, TypeOK, PipeTypeOK, WaitTypeOK, PipeCloseDone
<1>2. PICK p : p = pipeOp.by
  OBVIOUS
<1>3. waitList' \in [Lists -> Seq(Procs)]
  <2>1. /\ UNCHANGED waitList \/ waitList' = [waitList EXCEPT !["read"] = <<>>, !["write"] = <<>>]
        /\ <<>> \in Seq(Procs)
    BY EmptySeq DEF PipeCloseDone
  <2>2. QED
    BY <1>1, <2>1, StreamAssumption
<1>4. \/ p \in Procs /\ pc[p] = "serve" /\ Return(p)
      \/ UNCHANGED <<pc, call, sigs>>
  BY <1>2 DEF PipeCloseDone
<1>5. /\ WaitTypeOK' /\ LockTypeOK' /\ call' \in [Procs -> Calls \cup {NoCall}]
      /\ CallsFit' /\ ServersOK'
  BY <1>1, <1>2, <1>3, <1>4, FinishedCalls
<1>6. PipeTypeOK'
  BY <1>1 DEF PipeTypeOK
<1>7. InPipe' = InPipe /\ Written' = Written
  BY <1>1 DEF InPipe, Written
<1>8. RingOK' /\ LastBounded' /\ Filled' /\ OpFits' /\ UseCounts'
  BY <1>1, <1>7, NoOpAssumption DEF RingOK, LastBounded, Filled, OpFits, UseCounts, HoldersOf
<1>9. QED
  BY <1>1, <1>5, <1>6, <1>7, <1>8 DEF PipeInv, TypeOK, streamVars

\* PipeInv holds at first.
LEMMA InitPipeInv ==
    ASSUME Init
    PROVE  PipeInv
<1>1. WaitInit /\ LockInit /\ PipeInit /\ down = {} /\ fileKill = {} /\ pipeKill = {}
  BY DEF Init
<1>2. WaitTypeOK
  <2>1. <<>> \in Seq(Procs)
    BY EmptySeq
  <2>2. QED
    BY <1>1, <2>1, WaitAssumption DEF WaitInit, WaitTypeOK, ProcStates
<1>3. LockTypeOK
  <2>1. <<>> \in Seq(Owners)
    BY EmptySeq
  <2>2. QED
    BY <1>1, <2>1 DEF LockInit, LockTypeOK, Owners
<1>4. PipeTypeOK /\ UseCounts
  <2>1. <<>> \in Seq(Procs \X Nat)
    BY EmptySeq
  <2>2. HoldersOf("READ") = Readers /\ HoldersOf("WRITE") = Writers
    BY <1>1 DEF PipeInit, HoldersOf, Readers, Writers
  <2>3. Cardinality(Readers) \in Nat /\ Cardinality(Writers) \in Nat
    BY <2>2, HoldersFinite
  <2>4. QED
    <3>1. UseCounts /\ use \in [ref: Nat, write: Nat]
      BY <1>1, <2>2, <2>3 DEF PipeInit, UseCounts
    <3>2. /\ buffer \in [0 .. BlockSize - 1 -> (Procs \X Nat) \cup {NoByte}]
          /\ amount \in [Procs -> Nat]
      BY <1>1 DEF PipeInit
    <3>3. removed \in BOOLEAN /\ firstByte \in Int /\ lastByte \in Int /\ ends = EndsOf
      <4>1. removed = FALSE /\ firstByte = -1 /\ lastByte = -1 /\ ends = EndsOf
        BY <1>1 DEF PipeInit
      <4>2. removed \in BOOLEAN
        BY <4>1, Zenon
      <4>3. QED
        BY <4>1, <4>2
    <3>4. QED
      <4>1. pipeFlags = {} /\ pipeOp = NoOp /\ got = <<>>
        BY <1>1 DEF PipeInit
      <4>2. EndsOf \in [Procs -> SUBSET {"READ", "WRITE"}]
        BY PipeAssumption
      <4>3. pipeFlags \subseteq {"WRITER_GONE", "READER_GONE"} /\ pipeOp \in PipeOps \cup {NoOp}
        BY <4>1
      <4>4. got \in Seq(Procs \X Nat) /\ ends \in [Procs -> SUBSET {"READ", "WRITE"}]
        BY <2>1, <3>3, <4>1, <4>2
      <4>5. QED
        BY <3>1, <3>2, <3>3, <4>3, <4>4 DEF PipeTypeOK
<1>5. RingOK /\ InPipe = 0 /\ Filled /\ OpFits
  BY <1>1, NoOpAssumption DEF PipeInit, RingOK, InPipe, Filled, OpFits
<1>6. LastBounded
  <2>1. Written = {}
    <3>1. \A b \in Procs \X (1 .. MaxBytes) : b[1] \in Procs /\ b[2] >= 1 /\ b[2] \in Nat
      OBVIOUS
    <3>2. \A p \in Procs : amount[p] = 0
      BY <1>1 DEF PipeInit
    <3>3. QED
      BY <3>1, <3>2 DEF Written
  <2>2. QED
    BY <1>1, <2>1, FS_EmptySet DEF PipeInit, LastBounded
<1>7. CallsFit /\ ServersOK
  BY <1>1, StreamAssumption, NoOpAssumption, LockAssumption
     DEF WaitInit, LockInit, PipeInit, CallsFit, ServersOK, PipeServes, FileServes, NoCall
<1>8. QED
  BY <1>1, <1>2, <1>3, <1>4, <1>5, <1>6, <1>7, PipeAssumption
     DEF PipeInv, TypeOK, WaitInit, PipeInit, NoCall

\* Every step keeps PipeInv.
LEMMA NextPipeInv ==
    ASSUME PipeInv, NoOverflow, [Next]_vars
    PROVE  PipeInv'
<1>1. CASE UNCHANGED vars
  <2>1. UNCHANGED waitVars /\ UNCHANGED lockVars /\ UNCHANGED pipeVars /\ UNCHANGED streamVars
    BY <1>1 DEF vars
  <2>2. WaitTypeOK' /\ LockTypeOK' /\ call' \in [Procs -> Calls \cup {NoCall}]
    BY <2>1 DEF PipeInv, TypeOK, WaitTypeOK, LockTypeOK, waitVars, lockVars
  <2>3. CallsFit' /\ ServersOK'
    BY <2>1 DEF PipeInv, CallsFit, ServersOK, PipeServes, FileServes, waitVars, lockVars, pipeVars
  <2>4. QED
    BY <2>1, <2>2, <2>3, PipeFrame DEF PipeInv, TypeOK, streamVars
<1>2. ASSUME NEW p \in Procs,
             \/ EnterLock(p) \/ EnterUnlock(p) \/ EnterLockClose(p)
             \/ EnterRead(p) \/ EnterWrite(p) \/ EnterSelect(p) \/ EnterClose(p)
      PROVE  PipeInv'
  BY <1>2, EnterPipeInv
<1>3. ASSUME NEW p \in Procs, Kernel(p) \/ Sig_Send(p)
      PROVE  PipeInv'
  BY <1>3, LockTryPipeInv, ReadPipeInv, WritePipeInv, SelectPipeInv, ClosePipeInv, WaitPipeInv
     DEF Kernel, Try
<1>4. CASE LockLoop
  BY <1>4, LockLoopPipeInv
<1>5. CASE PipeLoop
  <2>1. UNCHANGED lockVars /\ UNCHANGED streamVars
    BY <1>5 DEF PipeLoop
  <2>2. CASE PipeNotify
    <3>1. PICK l \in Lists : l = pipeOp.list
      BY <2>2 DEF PipeNotify
    <3>2. QED
      BY <2>1, <2>2, <3>1, NotifyPipeInv DEF PipeNotify
  <2>3. QED
    BY <1>5, <2>1, <2>2, ReadDonePipeInv, WriteDonePipeInv, CloseDonePipeInv DEF PipeLoop
<1>6. ASSUME NEW h \in Hosts, Crash(h) \/ KillFile(h) \/ KillPipe(h)
      PROVE  PipeInv'
  BY <1>6, CrashPipeInv, KillFilePipeInv, KillPipePipeInv
<1>7. QED
  BY <1>1, <1>2, <1>3, <1>4, <1>5, <1>6 DEF Next

\* PipeInv is an invariant.
THEOREM PipeInvariant ==
    ASSUME NoOverflow
    PROVE  Spec => []PipeInv
<1>1. Init => PipeInv
  BY InitPipeInv
<1>2. PipeInv /\ [Next]_vars => PipeInv'
  BY NextPipeInv
<1>3. QED
  BY <1>1, <1>2, PTL DEF Spec

\* The variables of the model have their types in every behaviour; above all,
\* InPipe, which Fsio_PipeRead and Fsio_PipeWrite compute from the two floating
\* indices, never leaves 0 .. BlockSize, and no reference count goes below zero.
THEOREM StreamTypeCorrect ==
    ASSUME NoOverflow
    PROVE  Spec => []TypeOK
<1>1. PipeInv => TypeOK
  BY DEF PipeInv
<1>2. QED
  BY <1>1, PipeInvariant, PTL

-----------------------------------------------------------------------------
\* The bytes that a read in its notification loop has taken and not yet removed.
Taken == IF pipeOp # NoOp /\ pipeOp.kind = "read" THEN pipeOp.n ELSE 0

\* The stream, byte by byte: what was read, then what is in the ring.
StreamShape ==
    /\ Stream \in Seq(Procs \X Nat) /\ got \in Seq(Procs \X Nat)
    /\ Len(got) \in Nat /\ Taken \in 0 .. InPipe /\ InPipe \in Nat
    /\ Len(Stream) = Len(got) + InPipe - Taken
    /\ \A i \in 1 .. Len(got) : Stream[i] = got[i]
    /\ \A i \in 0 .. InPipe - Taken - 1 :
          Stream[Len(got) + 1 + i] = buffer[Masked(firstByte + Taken + i)]

\* The bytes of the ring are those of a sequence.
LEMMA BytesAfterType ==
    ASSUME PipeInv, NEW k \in Nat, NEW n \in Nat, k + n <= InPipe
    PROVE  /\ BytesAfter(k, n) \in Seq(Procs \X Nat) /\ Len(BytesAfter(k, n)) = n
           /\ \A i \in 1 .. n : BytesAfter(k, n)[i] = buffer[Masked(firstByte + k + (i - 1))]
<1>1. firstByte \in Int /\ InPipe \in Nat /\ Filled
  BY PipeAssumption DEF PipeInv, TypeOK, PipeTypeOK
<1>2. ASSUME NEW i \in 1 .. n
      PROVE  /\ BytesAfter(k, n)[i] = buffer[Masked(firstByte + k + (i - 1))]
             /\ BytesAfter(k, n)[i] \in Procs \X Nat
  <2>1. /\ k + (i - 1) \in 0 .. InPipe - 1
        /\ firstByte + k + i - 1 = firstByte + k + (i - 1)
        /\ firstByte + k + (i - 1) = firstByte + (k + (i - 1))
    BY <1>1
  <2>2. buffer[Masked(firstByte + (k + (i - 1)))] \in Procs \X Nat
    BY <1>1, <2>1 DEF Filled
  <2>3. QED
    BY <2>1, <2>2 DEF BytesAfter
<1>3. BytesAfter(k, n) \in [1 .. n -> Procs \X Nat]
  BY <1>2 DEF BytesAfter
<1>4. BytesAfter(k, n) \in Seq(Procs \X Nat)
  BY <1>3, SeqDef
<1>5. Len(BytesAfter(k, n)) = n
  <2>1. PICK s \in Seq(Procs \X Nat) : s = BytesAfter(k, n)
    BY <1>4
  <2>2. Len(s) \in Nat /\ DOMAIN s = 1 .. Len(s)
    BY LenProperties
  <2>3. DOMAIN s = 1 .. n
    BY <1>3, <2>1
  <2>4. \A a, b \in Nat : 1 .. a = 1 .. b => a = b
    <3>1. SUFFICES ASSUME NEW a \in Nat, NEW b \in Nat, 1 .. a = 1 .. b, a < b PROVE FALSE
      OBVIOUS
    <3>2. b \in 1 .. b /\ b \notin 1 .. a
      BY <3>1
    <3>3. QED
      BY <3>1, <3>2
  <2>5. QED
    BY <2>1, <2>2, <2>3, <2>4
<1>6. QED
  BY <1>2, <1>4, <1>5

LEMMA StreamIs == PipeInv => StreamShape
<1> SUFFICES ASSUME PipeInv PROVE StreamShape
  OBVIOUS
<1>1. got \in Seq(Procs \X Nat) /\ InPipe \in Nat /\ firstByte \in Int /\ OpFits
      /\ (pipeOp = NoOp \/ pipeOp \in PipeOps)
  BY PipeAssumption DEF PipeInv, TypeOK, PipeTypeOK
<1>2. PICK k : k = Taken
  OBVIOUS
<1>3. k \in 0 .. InPipe
  BY <1>1, <1>2, PipeOpFields DEF Taken, OpFits
<1>4. PICK n \in Nat : n = InPipe - k /\ k \in Nat /\ k + n <= InPipe
  BY <1>1, <1>3
<1>5. /\ BytesAfter(k, n) \in Seq(Procs \X Nat) /\ Len(BytesAfter(k, n)) = n
      /\ \A i \in 1 .. n : BytesAfter(k, n)[i] = buffer[Masked(firstByte + k + (i - 1))]
  BY <1>4, BytesAfterType
<1>6. Stream = got \o BytesAfter(k, n)
  BY <1>2, <1>4 DEF Stream, Taken
<1>7. PICK s2 \in Seq(Procs \X Nat) : s2 = BytesAfter(k, n)
  BY <1>5
<1>8. /\ Stream \in Seq(Procs \X Nat) /\ Len(Stream) = Len(got) + n
      /\ \A i \in 1 .. Len(got) + n : Stream[i] = IF i <= Len(got) THEN got[i] ELSE s2[i - Len(got)]
  BY <1>1, <1>5, <1>6, <1>7, ConcatProperties
<1>9. Len(got) \in Nat
  BY <1>1, LenProperties
<1>10. \A i \in 1 .. Len(got) : Stream[i] = got[i]
  BY <1>4, <1>8, <1>9
<1>11. ASSUME NEW i \in 0 .. InPipe - k - 1
       PROVE  Stream[Len(got) + 1 + i] = buffer[Masked(firstByte + k + i)]
  <2>1. /\ i + 1 \in 1 .. n /\ Len(got) + 1 + i \in 1 .. Len(got) + n
        /\ Len(got) + 1 + i - Len(got) = i + 1 /\ ~(Len(got) + 1 + i <= Len(got))
        /\ i + 1 - 1 = i
    BY <1>1, <1>3, <1>4, <1>9
  <2>2. Stream[Len(got) + 1 + i] = s2[i + 1]
    BY <1>8, <2>1
  <2>3. QED
    BY <1>5, <1>7, <2>1, <2>2
<1>12. QED
  BY <1>1, <1>2, <1>3, <1>4, <1>8, <1>9, <1>10, <1>11 DEF StreamShape

\* Two streams of the same bytes are the same.
LEMMA SameStream ==
    ASSUME StreamShape, StreamShape', Len(Stream') = Len(Stream),
           \A i \in 1 .. Len(Stream) : Stream'[i] = Stream[i]
    PROVE  Stream' = Stream
<1>1. PICK s \in Seq(Procs \X Nat) : s = Stream
  BY DEF StreamShape
<1>2. PICK t \in Seq(Procs \X Nat) : t = Stream'
  BY DEF StreamShape
<1>3. Len(s) = Len(t) /\ \A i \in 1 .. Len(s) : s[i] = t[i]
  BY <1>1, <1>2
<1>4. s = t
  BY <1>3, SeqEqual
<1>5. QED
  BY <1>1, <1>2, <1>4

\* A step that moves no byte to or from the stream.
LEMMA StreamKept ==
    ASSUME PipeInv, PipeInv', got' = got, InPipe' - Taken' = InPipe - Taken,
           \A i \in 0 .. InPipe - Taken - 1 :
              buffer'[Masked(firstByte' + Taken' + i)] = buffer[Masked(firstByte + Taken + i)]
    PROVE  Stream' = Stream
<1>1. StreamShape /\ StreamShape'
  <2>1. PipeInv' => StreamShape'
    BY StreamIs, PTL
  <2>2. QED
    BY <2>1, StreamIs
<1>2. PICK g \in Nat : g = Len(got)
  BY <1>1 DEF StreamShape
<1>3. PICK m \in Nat : m = InPipe - Taken
  BY <1>1 DEF StreamShape
<1>4. Len(Stream) = g + m /\ Len(Stream') = g + m
  BY <1>1, <1>2, <1>3 DEF StreamShape
<1>5. ASSUME NEW i \in 1 .. g + m
      PROVE  Stream'[i] = Stream[i]
  <2>1. CASE i <= g
    BY <1>1, <1>2, <2>1, SMTT(60) DEF StreamShape
  <2>2. CASE ~(i <= g)
    <3>1. PICK j \in 0 .. m - 1 : i = g + 1 + j
      <4>1. i - g - 1 \in 0 .. m - 1 /\ i = g + 1 + (i - g - 1)
        BY <2>2
      <4>2. QED
        BY <4>1
    <3>2. Stream[g + 1 + j] = buffer[Masked(firstByte + Taken + j)]
      BY <1>1, <1>2, <1>3 DEF StreamShape
    <3>3. Stream'[g + 1 + j] = buffer'[Masked(firstByte' + Taken' + j)]
      BY <1>1, <1>2, <1>3 DEF StreamShape
    <3>4. QED
      BY <1>3, <3>1, <3>2, <3>3
  <2>3. QED
    BY <2>1, <2>2
<1>6. QED
  BY <1>1, <1>4, <1>5, SameStream

\* Fsio_PipeRead takes the bytes at the front of the ring.
LEMMA ReadStream ==
    ASSUME PipeInv, PipeInv', NEW p \in Procs, TryRead(p)
    PROVE  Stream' = Stream
<1>1. /\ call[p].kind = "read" /\ pipeOp = NoOp
      /\ UNCHANGED <<firstByte, lastByte, buffer, amount>>
  BY DEF TryRead, Fsio_PipeRead
<1>2. CASE firstByte = -1
  <2>1. UNCHANGED <<got, pipeOp>>
    BY <1>2 DEF TryRead, Fsio_PipeRead
  <2>2. QED
    BY <1>1, <2>1 DEF Stream, BytesAfter, InPipe
<1>3. CASE firstByte # -1
  <2>1. StreamShape /\ StreamShape' /\ InPipe' = InPipe /\ firstByte \in Int
    <3>1. PipeInv' => StreamShape'
      BY StreamIs, PTL
    <3>2. QED
      BY <1>1, <3>1, StreamIs DEF InPipe, PipeInv, TypeOK, PipeTypeOK
  <2>2. PICK n : n = IF InPipe > call[p].len THEN call[p].len ELSE InPipe
    OBVIOUS
  <2>3. call[p].len \in Nat
    BY <1>1, CallFields DEF PipeInv, TypeOK, NoCall
  <2>4. n \in Nat /\ n <= InPipe /\ InPipe \in Nat
    BY <2>1, <2>2, <2>3, SMTT(60) DEF StreamShape
  <2>5. /\ got' = got \o BytesAfter(0, n)
        /\ pipeOp' = [by |-> p, kind |-> "read", n |-> n, list |-> "write"]
    BY <1>3, <2>2 DEF TryRead, Fsio_PipeRead, ReadBlocks, PipeNotifying
  <2>6. Taken = 0 /\ Taken' = n
    <3>1. pipeOp' \in PipeOps
      BY <2>4, <2>5 DEF PipeOps
    <3>2. QED
      BY <1>1, <2>5, <3>1, NoOpAssumption DEF Taken
  <2>7. PICK s2 : s2 = BytesAfter(0, n)
    OBVIOUS
  <2>8. /\ s2 \in Seq(Procs \X Nat) /\ Len(s2) = n
        /\ \A i \in 1 .. n : s2[i] = buffer[Masked(firstByte + 0 + (i - 1))]
    <3>1. PICK z \in Nat : z = 0 /\ z + n <= InPipe
      BY <2>4
    <3>2. /\ BytesAfter(z, n) \in Seq(Procs \X Nat) /\ Len(BytesAfter(z, n)) = n
          /\ \A i \in 1 .. n : BytesAfter(z, n)[i] = buffer[Masked(firstByte + z + (i - 1))]
      BY <2>4, <3>1, BytesAfterType
    <3>3. QED
      BY <2>7, <3>1, <3>2
  <2>9. PICK g \in Nat : g = Len(got)
    BY <2>1 DEF StreamShape
  <2>10. /\ Len(got') = g + n
         /\ \A i \in 1 .. g + n : got'[i] = IF i <= g THEN got[i] ELSE s2[i - g]
    <3>1. PICK s1 \in Seq(Procs \X Nat) : s1 = got
      BY <2>1 DEF StreamShape
    <3>2. /\ Len(s1 \o s2) = Len(s1) + Len(s2)
          /\ \A i \in 1 .. Len(s1) + Len(s2) :
                (s1 \o s2)[i] = IF i <= Len(s1) THEN s1[i] ELSE s2[i - Len(s1)]
      BY <2>8, <3>1, ConcatProperties
    <3>3. got' = s1 \o s2 /\ Len(s1) = g
      BY <2>5, <2>7, <2>9, <3>1
    <3>4. QED
      BY <2>8, <3>1, <3>2, <3>3
  <2>11. Len(Stream) = g + InPipe /\ Len(Stream') = g + InPipe
    BY <2>1, <2>4, <2>6, <2>9, <2>10 DEF StreamShape
  <2>12. ASSUME NEW i \in 1 .. g + InPipe
         PROVE  Stream'[i] = Stream[i]
    <3>1. CASE i <= g
      <4>1. i \in 1 .. g /\ i \in 1 .. g + n
        BY <2>4, <3>1
      <4>2. Stream[i] = got[i] /\ Stream'[i] = got'[i] /\ got'[i] = got[i]
        BY <2>1, <2>9, <2>10, <3>1, <4>1 DEF StreamShape
      <4>3. QED
        BY <4>2
    <3>2. CASE ~(i <= g) /\ i <= g + n
      <4>1. PICK j \in 1 .. n : i = g + j
        <5>1. i - g \in 1 .. n /\ i = g + (i - g)
          BY <2>4, <3>2
        <5>2. QED
          BY <5>1
      <4>2. /\ j - 1 \in 0 .. InPipe - Taken - 1 /\ i = g + 1 + (j - 1) /\ i - g = j
            /\ firstByte + 0 + (j - 1) = firstByte + Taken + (j - 1)
        BY <2>1, <2>4, <2>6, <4>1
      <4>3. Stream[i] = buffer[Masked(firstByte + Taken + (j - 1))]
        BY <2>1, <2>9, <4>2 DEF StreamShape
      <4>4. got'[i] = s2[j] /\ s2[j] = buffer[Masked(firstByte + 0 + (j - 1))]
        BY <2>8, <2>10, <3>2, <4>1, <4>2
      <4>5. Stream'[i] = got'[i]
        <5>1. i \in 1 .. Len(got')
          BY <2>10, <3>2
        <5>2. QED
          BY <2>1, <5>1 DEF StreamShape
      <4>6. QED
        BY <4>2, <4>3, <4>4, <4>5
    <3>3. CASE ~(i <= g + n)
      <4>1. PICK j \in 0 .. InPipe - n - 1 : i = g + n + 1 + j
        <5>1. i - g - n - 1 \in 0 .. InPipe - n - 1 /\ i = g + n + 1 + (i - g - n - 1)
          BY <2>4, <3>3
        <5>2. QED
          BY <5>1
      <4>2. /\ n + j \in 0 .. InPipe - Taken - 1 /\ i = g + 1 + (n + j)
            /\ firstByte + Taken + (n + j) = firstByte + n + j
        BY <2>1, <2>4, <2>6, <4>1
      <4>3. Stream[i] = buffer[Masked(firstByte + Taken + (n + j))]
        BY <2>1, <2>9, <4>2 DEF StreamShape
      <4>4. Stream'[Len(got') + 1 + j] = buffer'[Masked(firstByte' + Taken' + j)]
        BY <2>1, <2>6, <4>1 DEF StreamShape
      <4>5. QED
        BY <1>1, <2>6, <2>10, <4>1, <4>2, <4>3, <4>4
    <3>4. QED
      BY <3>1, <3>2, <3>3
  <2>13. QED
    BY <2>1, <2>11, <2>12, SameStream
<1>4. QED
  BY <1>2, <1>3

\* Of all the steps only the end of a write adds to the stream, and none takes
\* from it.
LEMMA StreamSteps ==
    ASSUME PipeInv, PipeInv', NoOverflow, [Next]_vars, ~PipeWriteDone
    PROVE  Stream' = Stream /\ amount' = amount
<1>0. firstByte \in Int /\ Filled
  BY DEF PipeInv, TypeOK, PipeTypeOK
<1>1. CASE UNCHANGED pipeVars
  BY <1>1 DEF Stream, BytesAfter, InPipe, pipeVars
<1>2. ASSUME NEW p \in Procs, TryRead(p)
      PROVE  Stream' = Stream /\ amount' = amount
  BY <1>2, ReadStream DEF TryRead, Fsio_PipeRead
<1>3. ASSUME NEW p \in Procs, TryWrite(p)
      PROVE  Stream' = Stream /\ amount' = amount
  <2>1. /\ call[p].kind = "write" /\ pipeOp = NoOp /\ UNCHANGED <<firstByte, lastByte, amount, got>>
    BY <1>3 DEF TryWrite, Fsio_PipeWrite
  <2>2. CASE "READER_GONE" \in pipeFlags \/ Room = 0
    <3>1. UNCHANGED pipeVars
      BY <1>3, <2>2 DEF TryWrite, Fsio_PipeWrite, pipeVars
    <3>2. QED
      BY <1>1, <3>1
  <2>3. CASE "READER_GONE" \notin pipeFlags /\ Room # 0
    <3>1. PICK n : n = IF Room > call[p].len THEN call[p].len ELSE Room
      OBVIOUS
    <3>2. n \in Nat /\ n <= Room
      <4>1. call[p].len \in Nat
        BY <2>1, CallFields DEF PipeInv, TypeOK, NoCall
      <4>2. Room \in 0 .. BlockSize /\ BlockSize \in Nat
        BY InPipeIs, PipeAssumption DEF PipeInv, TypeOK, PipeTypeOK
      <4>3. QED
        BY <3>1, <4>1, <4>2
    <3>3. /\ buffer' = [i \in 0 .. BlockSize - 1 |->
                        IF \E j \in 1 .. n : Masked(lastByte + j) = i
                        THEN <<p, amount[p] + CHOOSE j \in 1 .. n : Masked(lastByte + j) = i>>
                        ELSE buffer[i]]
          /\ \E more : pipeOp' = [by |-> p, kind |-> "write", n |-> n, list |-> "read", more |-> more]
      BY <1>3, <2>3, <3>1, SMTT(60) DEF TryWrite, Fsio_PipeWrite, WriteBlocks, PipeNotifying
    <3>4. /\ \A i \in 0 .. InPipe - 1 :
                buffer'[Masked(firstByte + i)] = buffer[Masked(firstByte + i)]
      BY <3>2, <3>3, CopiedBytes
    <3>5. Taken = 0 /\ Taken' = 0
      BY <2>1, <3>3 DEF Taken
    <3>6. InPipe' = InPipe /\ InPipe \in Nat
      BY <2>1, PipeAssumption DEF InPipe, PipeInv, TypeOK
    <3>7. QED
      BY <1>0, <2>1, <3>4, <3>5, <3>6, StreamKept
  <2>4. QED
    BY <2>2, <2>3
<1>4. ASSUME UNCHANGED <<firstByte, lastByte, buffer, amount, got>>,
             pipeOp = NoOp \/ pipeOp.kind = "close", pipeOp' = NoOp \/ pipeOp'.kind = "close"
      PROVE  Stream' = Stream /\ amount' = amount
  <2>1. Taken = 0 /\ Taken' = 0
    BY <1>4 DEF Taken
  <2>2. InPipe' = InPipe
    BY <1>4 DEF InPipe
  <2>3. QED
    BY <1>4, <2>1, <2>2, StreamKept
<1>5. ASSUME NEW p \in Procs, TryClose(p)
      PROVE  Stream' = Stream /\ amount' = amount
  <2>1. /\ UNCHANGED <<firstByte, lastByte, buffer, amount, got>> /\ pipeOp = NoOp
        /\ pipeOp'.kind = "close"
    BY <1>5 DEF TryClose, Fsio_PipeClose, PipeCloseInt, PipeNotifying
  <2>2. QED
    BY <1>4, <2>1
<1>6. ASSUME NEW h \in Hosts, KillPipe(h)
      PROVE  Stream' = Stream /\ amount' = amount
  <2>1. /\ UNCHANGED <<firstByte, lastByte, buffer, amount, got>> /\ pipeOp = NoOp
        /\ pipeOp'.kind = "close"
    BY <1>6 DEF KillPipe, Fsio_PipeClientKill, PipeCloseInt, PipeNotifying
  <2>2. QED
    BY <1>4, <2>1
<1>7. CASE PipeCloseDone
  <2>1. /\ UNCHANGED <<firstByte, lastByte, buffer, amount, got>> /\ pipeOp.kind = "close"
        /\ pipeOp' = NoOp
    BY <1>7 DEF PipeCloseDone
  <2>2. QED
    BY <1>4, <2>1
<1>8. CASE PipeReadDone
  <2>1. /\ InPipe' = InPipe - pipeOp.n /\ pipeOp.n \in 0 .. InPipe
        /\ \A i \in 0 .. InPipe' - 1 :
              buffer'[Masked(firstByte' + i)] = buffer[Masked(firstByte + pipeOp.n + i)]
        /\ firstByte' \in Int
    BY <1>8, RingAfterRead
  <2>2. Taken = pipeOp.n /\ Taken' = 0 /\ UNCHANGED <<got, amount>>
    BY <1>8 DEF Taken, PipeReadDone
  <2>3. InPipe \in Nat
    BY PipeAssumption DEF PipeInv, TypeOK
  <2>4. QED
    BY <2>1, <2>2, <2>3, StreamKept
<1>9. CASE UNCHANGED vars
  BY <1>1, <1>9 DEF vars
<1>10. CASE Next
  <2>1. ASSUME NEW p \in Procs,
               \/ EnterLock(p) \/ EnterUnlock(p) \/ EnterLockClose(p)
               \/ EnterRead(p) \/ EnterWrite(p) \/ EnterSelect(p) \/ EnterClose(p)
        PROVE  UNCHANGED pipeVars
    BY <2>1 DEF EnterLock, EnterUnlock, EnterLockClose, EnterRead, EnterWrite, EnterSelect,
                EnterClose, Enter
  <2>2. ASSUME NEW p \in Procs, TryLock(p) \/ TryUnlock(p) \/ TryLockClose(p) \/ TrySelect(p)
                                \/ Wait(p) \/ Sig_Send(p)
        PROVE  UNCHANGED pipeVars
    BY <2>2 DEF TryLock, TryUnlock, TryLockClose, TrySelect, Fsio_PipeSelect, Wait, Sig_Send
  <2>3. LockLoop \/ PipeNotify \/ (\E h \in Hosts : Crash(h) \/ KillFile(h)) => UNCHANGED pipeVars
    BY DEF LockLoop, PipeNotify, Crash, KillFile
  <2>4. QED
    BY <1>1, <1>2, <1>3, <1>5, <1>6, <1>7, <1>8, <1>10, <2>1, <2>2, <2>3
       DEF Next, Kernel, Try, PipeLoop
<1>11. QED
  BY <1>9, <1>10

\* The end of a write adds its bytes at the end.
LEMMA WriteStream ==
    ASSUME PipeInv, PipeInv', NoOverflow, PipeWriteDone, NEW p \in Procs, p = pipeOp.by,
           NEW n \in Nat, n = pipeOp.n
    PROVE  /\ StreamShape /\ StreamShape' /\ Len(Stream') = Len(Stream) + n
           /\ \A i \in 1 .. Len(Stream) : Stream'[i] = Stream[i]
           /\ \A j \in 1 .. n : Stream'[Len(Stream) + j] = <<p, amount[p] + j>>
<1>1. /\ firstByte \in Int /\ lastByte \in Int /\ Filled /\ UNCHANGED <<buffer, got>>
      /\ pipeOp \in PipeOps /\ pipeOp.kind = "write" /\ pipeOp' = NoOp
  BY DEF PipeInv, TypeOK, PipeTypeOK, PipeWriteDone
<1>2. StreamShape /\ StreamShape'
  <2>1. PipeInv' => StreamShape'
    BY StreamIs, PTL
  <2>2. QED
    BY <2>1, StreamIs
<1>3. Taken = 0 /\ Taken' = 0
  BY <1>1 DEF Taken
<1>4. /\ firstByte' \in Int /\ InPipe' = InPipe + n
      /\ \A i \in 0 .. InPipe - 1 : firstByte' + i = firstByte + i
      /\ \A i \in InPipe .. InPipe' - 1 : firstByte' + i = lastByte + (i - InPipe + 1)
  BY RingAfterWrite
<1>5. PICK g \in Nat : g = Len(got)
  BY <1>2 DEF StreamShape
<1>6. PICK m \in Nat : m = InPipe
  BY <1>2 DEF StreamShape
<1>7. Len(Stream) = g + m /\ Len(Stream') = g + m + n
  BY <1>1, <1>2, <1>3, <1>4, <1>5, <1>6 DEF StreamShape
<1>8. ASSUME NEW i \in 0 .. m + n - 1
      PROVE  Stream'[g + 1 + i] = buffer[Masked(firstByte' + i)]
  <2>1. i \in 0 .. InPipe' - Taken' - 1 /\ firstByte' + Taken' + i = firstByte' + i
    BY <1>3, <1>4, <1>6
  <2>2. Stream'[Len(got') + 1 + i] = buffer'[Masked(firstByte' + Taken' + i)]
    BY <1>2, <2>1 DEF StreamShape
  <2>3. QED
    BY <1>1, <1>5, <2>1, <2>2
<1>9. ASSUME NEW i \in 1 .. g + m
      PROVE  Stream'[i] = Stream[i]
  <2>1. CASE i <= g
    <3>1. Stream[i] = got[i] /\ Stream'[i] = got'[i]
      BY <1>1, <1>2, <1>5, <2>1, SMTT(60) DEF StreamShape
    <3>2. QED
      BY <1>1, <3>1
  <2>2. CASE ~(i <= g)
    <3>1. PICK j \in 0 .. m - 1 : i = g + 1 + j
      <4>1. i - g - 1 \in 0 .. m - 1 /\ i = g + 1 + (i - g - 1)
        BY <2>2
      <4>2. QED
        BY <4>1
    <3>2. j \in 0 .. InPipe - Taken - 1 /\ firstByte + Taken + j = firstByte + j
      BY <1>1, <1>3, <1>6
    <3>3. Stream[g + 1 + j] = buffer[Masked(firstByte + j)]
      BY <1>2, <1>5, <3>2 DEF StreamShape
    <3>4. Stream'[g + 1 + j] = buffer[Masked(firstByte' + j)] /\ firstByte' + j = firstByte + j
      BY <1>4, <1>6, <1>8, <3>1
    <3>5. QED
      BY <3>1, <3>3, <3>4
  <2>3. QED
    BY <2>1, <2>2
<1>10. ASSUME NEW j \in 1 .. n
       PROVE  Stream'[g + m + j] = <<p, amount[p] + j>>
  <2>1. PICK i \in 0 .. m + n - 1 : i = m + j - 1
    OBVIOUS
  <2>2. g + 1 + i = g + m + j /\ i \in InPipe .. InPipe' - 1 /\ i - InPipe + 1 = j
    BY <1>4, <1>6, <2>1
  <2>3. firstByte' + i = lastByte + j
    BY <1>4, <2>2
  <2>4. buffer[Masked(lastByte + j)] = <<p, amount[p] + j>>
    BY <1>1 DEF Filled
  <2>5. QED
    BY <1>8, <2>2, <2>3, <2>4
<1>11. QED
  BY <1>2, <1>7, <1>9, <1>10

\* The two halves of PipeFifo, of a sequence of bytes and the amounts written.
Ordered(s) ==
    \A i \in DOMAIN s : \E w \in Procs : s[i] = <<w, Cardinality(BytesOf(w, s, i - 1)) + 1>>
Counted(s, am) ==
    \A w \in Procs : Cardinality(BytesOf(w, s, Len(s))) = am[w]

\* t is s with the next n bytes of p.
Extended(s, t, p, n, am) ==
    /\ Len(t) = Len(s) + n
    /\ \A i \in 1 .. Len(s) : t[i] = s[i]
    /\ \A j \in 1 .. n : t[Len(s) + j] = <<p, am[p] + j>>

\* A stream in order stays in order when a writer adds its next bytes.
LEMMA InOrder ==
    ASSUME NEW s \in Seq(Procs \X Nat), NEW t \in Seq(Procs \X Nat), NEW am \in [Procs -> Nat],
           NEW p \in Procs, NEW n \in Nat,
           Extended(s, t, p, n, am), Ordered(s), Counted(s, am)
    PROVE  Ordered(t) /\ Counted(t, [am EXCEPT ![p] = am[p] + n])
<1>0. /\ Len(t) = Len(s) + n /\ \A i \in 1 .. Len(s) : t[i] = s[i]
      /\ \A j \in 1 .. n : t[Len(s) + j] = <<p, am[p] + j>>
      /\ \A i \in 1 .. Len(s) : \E w \in Procs :
            s[i] = <<w, Cardinality(BytesOf(w, s, i - 1)) + 1>>
      /\ \A w \in Procs : Cardinality(BytesOf(w, s, Len(s))) = am[w]
      /\ DOMAIN t = 1 .. Len(t)
  BY LenProperties DEF Extended, Ordered, Counted
<1>1. PICK l \in Nat : l = Len(s)
  BY LenProperties
<1>2. \A i \in 1 .. l + n : t[i] \in Procs \X Nat /\ t[i] # NoByte
  <2>1. \A i \in 1 .. l + n : t[i] \in Procs \X Nat
    BY <1>0, <1>1, LenProperties
  <2>2. \A b \in Procs \X Nat : b # NoByte
    <3>1. \A a, c : <<a, c>> # <<>>
      OBVIOUS
    <3>2. \A b \in Procs \X Nat : b = <<b[1], b[2]>>
      OBVIOUS
    <3>3. QED
      BY <3>1, <3>2, Zenon DEF NoByte
  <2>3. QED
    BY <2>1, <2>2
<1>3. ASSUME NEW w \in Procs, NEW k \in 0 .. l
      PROVE  BytesOf(w, t, k) = BytesOf(w, s, k)
  <2>1. \A j \in 1 .. k : t[j] = s[j]
    BY <1>0, <1>1
  <2>2. QED
    BY <2>1 DEF BytesOf
<1>4. ASSUME NEW w \in Procs, NEW k \in 0 .. n
      PROVE  Cardinality(BytesOf(w, t, l + k)) = IF w = p THEN am[p] + k ELSE am[w]
  <2>1. Cardinality(BytesOf(w, t, l)) = am[w] /\ IsFiniteSet(BytesOf(w, t, l)) /\ am[w] \in Nat
    <3>1. BytesOf(w, t, l) = BytesOf(w, s, l)
      BY <1>3
    <3>2. BytesOf(w, s, l) \in SUBSET (1 .. l)
      BY DEF BytesOf
    <3>3. IsFiniteSet(1 .. l)
      BY FS_Interval
    <3>4. QED
      BY <1>0, <1>1, <3>1, <3>2, <3>3, FS_Subset
  <2>2. \A j \in l + 1 .. l + k : t[j] # NoByte /\ t[j][1] = p
    <3> SUFFICES ASSUME NEW j \in l + 1 .. l + k PROVE t[j] # NoByte /\ t[j][1] = p
      OBVIOUS
    <3>1. PICK i \in 1 .. n : j = l + i
      <4>1. j - l \in 1 .. n /\ j = l + (j - l)
        OBVIOUS
      <4>2. QED
        BY <4>1
    <3>2. t[j] = <<p, am[p] + i>>
      BY <1>0, <1>1, <3>1
    <3>3. j \in 1 .. l + n
      BY <3>1
    <3>4. t[j][1] = p
      BY <3>2
    <3>5. QED
      BY <1>2, <3>3, <3>4
  <2>3. BytesOf(w, t, l + k) = BytesOf(w, t, l) \cup (IF w = p THEN l + 1 .. l + k ELSE {})
    <3>1. \A j : j \in 1 .. l + k <=> j \in 1 .. l \/ j \in l + 1 .. l + k
      OBVIOUS
    <3>2. QED
      BY <2>2, <3>1 DEF BytesOf
  <2>4. CASE w # p
    BY <2>1, <2>3, <2>4
  <2>5. CASE w = p
    <3>1. PICK B : B = BytesOf(w, t, l)
      OBVIOUS
    <3>2. IsFiniteSet(l + 1 .. l + k) /\ Cardinality(l + 1 .. l + k) = k
      <4>1. PICK a \in Int : a = l + 1
        OBVIOUS
      <4>2. PICK b \in Int : b = l + k
        OBVIOUS
      <4>3. IsFiniteSet(a .. b) /\ Cardinality(a .. b) = IF a > b THEN 0 ELSE b - a + 1
        BY FS_Interval
      <4>4. (IF a > b THEN 0 ELSE b - a + 1) = k
        BY <4>1, <4>2
      <4>5. QED
        BY <4>1, <4>2, <4>3, <4>4
    <3>3. PICK C : C = l + 1 .. l + k
      OBVIOUS
    <3>4. B \cap C = {}
      BY <3>1, <3>3 DEF BytesOf
    <3>5. Cardinality(B \cup C) = Cardinality(B) + Cardinality(C) - Cardinality(B \cap C)
      BY <2>1, <3>1, <3>2, <3>3, FS_Union
    <3>6. Cardinality(B \cap C) = 0
      BY <3>4, FS_EmptySet
    <3>7. Cardinality(B \cup C) = am[p] + k
      BY <2>1, <2>5, <3>1, <3>2, <3>3, <3>5, <3>6
    <3>8. QED
      BY <2>3, <2>5, <3>1, <3>3, <3>7
  <2>6. QED
    BY <2>4, <2>5
<1>5. ASSUME NEW i \in 1 .. l + n
      PROVE  \E w \in Procs : t[i] = <<w, Cardinality(BytesOf(w, t, i - 1)) + 1>>
  <2>1. CASE i <= l
    <3>1. i \in 1 .. l /\ i - 1 \in 0 .. l
      BY <2>1
    <3>2. PICK w \in Procs : s[i] = <<w, Cardinality(BytesOf(w, s, i - 1)) + 1>>
      BY <1>0, <1>1, <3>1
    <3>3. BytesOf(w, t, i - 1) = BytesOf(w, s, i - 1) /\ t[i] = s[i]
      BY <1>0, <1>1, <1>3, <3>1
    <3>4. QED
      BY <3>2, <3>3
  <2>2. CASE ~(i <= l)
    <3>1. PICK k \in 0 .. n - 1 : i = l + k + 1
      <4>1. i - l - 1 \in 0 .. n - 1 /\ i = l + (i - l - 1) + 1
        BY <2>2
      <4>2. QED
        BY <4>1
    <3>2. k + 1 \in 1 .. n /\ i = l + (k + 1) /\ i - 1 = l + k /\ k \in 0 .. n
      BY <3>1
    <3>3. t[i] = <<p, am[p] + (k + 1)>>
      BY <1>0, <1>1, <3>2
    <3>4. Cardinality(BytesOf(p, t, i - 1)) = am[p] + k
      BY <1>4, <3>2
    <3>5. am[p] + (k + 1) = Cardinality(BytesOf(p, t, i - 1)) + 1
      BY <3>1, <3>4
    <3>6. QED
      BY <3>3, <3>5
  <2>3. QED
    BY <2>1, <2>2
<1>6. Ordered(t)
  BY <1>0, <1>1, <1>5 DEF Ordered
<1>7. Counted(t, [am EXCEPT ![p] = am[p] + n])
  <2>1. n \in 0 .. n
    OBVIOUS
  <2>2. QED
    BY <1>0, <1>1, <1>4, <2>1 DEF Counted
<1>8. QED
  BY <1>6, <1>7

\* Every step keeps the stream in order.
LEMMA NextFifo ==
    ASSUME PipeInv, PipeInv', NoOverflow, PipeFifo, [Next]_vars
    PROVE  PipeFifo'
<1>0. /\ PipeFifo <=> Ordered(Stream) /\ Counted(Stream, amount)
      /\ PipeFifo' <=> Ordered(Stream') /\ Counted(Stream', amount')
  BY Zenon DEF PipeFifo, Ordered, Counted
<1>1. CASE ~PipeWriteDone
  BY <1>0, <1>1, StreamSteps
<1>2. CASE PipeWriteDone
  <2>1. pipeOp \in PipeOps /\ pipeOp.kind = "write" /\ amount \in [Procs -> Nat]
    BY <1>2 DEF PipeInv, TypeOK, PipeTypeOK, PipeWriteDone
  <2>2. PICK p \in Procs : p = pipeOp.by
    BY <2>1, PipeOpFields
  <2>3. PICK n \in Nat : n = pipeOp.n
    BY <2>1, PipeOpFields
  <2>4. StreamShape /\ StreamShape' /\ Extended(Stream, Stream', p, n, amount)
    BY <1>2, <2>2, <2>3, WriteStream DEF Extended
  <2>5. PICK s \in Seq(Procs \X Nat) : s = Stream
    BY <2>4 DEF StreamShape
  <2>6. PICK t \in Seq(Procs \X Nat) : t = Stream'
    BY <2>4 DEF StreamShape
  <2>7. PICK am \in [Procs -> Nat] : am = amount
    BY <2>1
  <2>8. Ordered(s) /\ Counted(s, am) /\ Extended(s, t, p, n, am)
    BY <1>0, <2>4, <2>5, <2>6, <2>7
  <2>9. Ordered(t) /\ Counted(t, [am EXCEPT ![p] = am[p] + n])
    BY <2>8, InOrder
  <2>10. amount' = [am EXCEPT ![p] = am[p] + n]
    BY <1>2, <2>2, <2>3, <2>7 DEF PipeWriteDone
  <2>11. QED
    BY <1>0, <2>6, <2>9, <2>10
<1>3. QED
  BY <1>1, <1>2

\* The bytes of every writer come out of the pipe in order, each of them once,
\* whatever the block size, the sizes of reads and writes and the number of readers
\* and writers: partial writes, waits, signals, the wrap-around of the ring, crashes
\* in the middle of an operation and lost wakeups included.
THEOREM PipeInOrder ==
    ASSUME NoOverflow
    PROVE  Spec => []PipeFifo
<1>1. Init => PipeFifo
  <2> SUFFICES ASSUME Init PROVE PipeFifo
    OBVIOUS
  <2>1. firstByte = -1 /\ got = <<>> /\ pipeOp = NoOp /\ amount = [p \in Procs |-> 0] /\ PipeInv
    BY InitPipeInv DEF Init, PipeInit
  <2>2. StreamShape /\ InPipe = 0 /\ Taken = 0
    BY <2>1, StreamIs DEF InPipe, Taken
  <2>3. PICK s \in Seq(Procs \X Nat) : s = Stream
    BY <2>2 DEF StreamShape
  <2>4. Len(s) = 0 /\ DOMAIN s = 1 .. Len(s)
    BY <2>1, <2>2, <2>3, LenProperties, EmptySeq DEF StreamShape
  <2>5. DOMAIN s = {} /\ \A w \in Procs : BytesOf(w, s, Len(s)) = {}
    BY <2>4 DEF BytesOf
  <2>6. QED
    BY <2>1, <2>3, <2>5, FS_EmptySet DEF PipeFifo, BytesOf
<1>2. PipeInv /\ PipeInv' /\ PipeFifo /\ [Next]_vars => PipeFifo'
  BY NextFifo
<1>3. QED
  BY <1>1, <1>2, PipeInvariant, PTL DEF Spec

-----------------------------------------------------------------------------
\* No client host has a reader and a writer: one call of Fsio_PipeClientKill would
\* then take both ends away, and PipeCloseInt sets one flag only.
EndsApart ==
    \A p, q \in Procs :
        HostOf[p] = HostOf[q] /\ HostOf[p] # Server =>
            "READ" \notin EndsOf[p] \/ "WRITE" \notin EndsOf[q]

\* Fs_CreatePipe makes a pipe with two ends.
BothEnds == Readers # {} /\ Writers # {}

\* The flags follow the client list, which only shrinks, also while an operation
\* notifies; the removal of the pipe may lag behind by the close in progress.
EndsInv ==
    /\ ends \in [Procs -> SUBSET {"READ", "WRITE"}] /\ removed \in BOOLEAN /\ UseCounts
    /\ \A p \in Procs : ends[p] \subseteq EndsOf[p]
    /\ Server \notin pipeKill
    /\ pipeFlags \subseteq {"WRITER_GONE", "READER_GONE"}
    /\ "READER_GONE" \in pipeFlags <=> HoldersOf("READ") = {}
    /\ "WRITER_GONE" \in pipeFlags <=> HoldersOf("WRITE") = {}
    /\ removed => HoldersOf("READ") = {} /\ HoldersOf("WRITE") = {}
    /\ HoldersOf("READ") = {} /\ HoldersOf("WRITE") = {} =>
          removed \/ (pipeOp # NoOp /\ pipeOp.kind = "close")

\* A step that leaves the client list alone.
LEMMA EndsFrame ==
    ASSUME EndsInv, UNCHANGED <<pipeFlags, use, ends, removed>>, Server \notin pipeKill',
           pipeOp = NoOp \/ pipeOp.kind # "close" \/ UNCHANGED pipeOp
    PROVE  EndsInv'
<1>1. HoldersOf("READ")' = HoldersOf("READ") /\ HoldersOf("WRITE")' = HoldersOf("WRITE")
  BY DEF HoldersOf
<1>2. QED
  BY <1>1 DEF EndsInv, UseCounts

\* PipeCloseInt sets the flag of the end that nobody holds any more.
LEMMA CloseIntEnds ==
    ASSUME EndsInv, NEW by \in Procs \cup {Recov}, NEW r \in Nat, NEW w \in Nat,
           PipeCloseInt(by, r, w), pipeOp = NoOp, UNCHANGED removed, Server \notin pipeKill',
           ends' \in [Procs -> SUBSET {"READ", "WRITE"}],
           \A p \in Procs : ends'[p] \subseteq ends[p],
           w <= r, r = w => HoldersOf("READ")' = HoldersOf("READ"),
           w = 0 => HoldersOf("WRITE")' = HoldersOf("WRITE"),
           w = 0 \/ HoldersOf("READ")' = HoldersOf("READ"),
           use.write - w = Cardinality(HoldersOf("WRITE")'),
           use.ref - r = Cardinality(HoldersOf("READ")') + Cardinality(HoldersOf("WRITE")')
    PROVE  EndsInv'
<1>1. use' = [ref |-> use.ref - r, write |-> use.write - w]
  BY DEF PipeCloseInt
<1>2. PICK R : R = HoldersOf("READ")'
  OBVIOUS
<1>3. PICK W : W = HoldersOf("WRITE")'
  OBVIOUS
<1>4. /\ Cardinality(R) \in Nat /\ Cardinality(W) \in Nat
      /\ Cardinality(R) = 0 <=> R = {}
      /\ Cardinality(W) = 0 <=> W = {}
  <2>1. R \in SUBSET Procs /\ W \in SUBSET Procs
    BY <1>2, <1>3 DEF HoldersOf
  <2>2. QED
    BY <2>1, WaitAssumption, FS_Subset, FS_CardinalityType, FS_EmptySet
<1>5. use'.write = Cardinality(W) /\ use'.ref = Cardinality(R) + Cardinality(W)
  BY <1>1, <1>2, <1>3
<1>6. (use'.write = 0 <=> W = {}) /\ (use'.ref = use'.write <=> R = {})
  BY <1>4, <1>5
<1>7. R \subseteq HoldersOf("READ") /\ W \subseteq HoldersOf("WRITE")
  BY <1>2, <1>3 DEF HoldersOf
<1>8. \/ w > 0 /\ W = {} /\ pipeFlags' = pipeFlags \cup {"WRITER_GONE"}
      \/ ~(w > 0 /\ W = {}) /\ r > 0 /\ R = {} /\ pipeFlags' = pipeFlags \cup {"READER_GONE"}
      \/ ~(w > 0 /\ W = {}) /\ ~(r > 0 /\ R = {}) /\ pipeFlags' = pipeFlags
  <2> DEFINE flag == IF w > 0 /\ use'.write = 0 THEN {"WRITER_GONE"}
                     ELSE IF r > 0 /\ use'.ref = use'.write THEN {"READER_GONE"}
                     ELSE {}
  <2>1. pipeFlags' = pipeFlags \cup flag
    BY DEF PipeCloseInt, ReadersGone
  <2>2. QED
    BY <1>6, <2>1
<1>9. /\ "READER_GONE" \in pipeFlags' <=> R = {}
      /\ "WRITER_GONE" \in pipeFlags' <=> W = {}
      /\ pipeFlags' \subseteq {"WRITER_GONE", "READER_GONE"}
  <2>1. /\ "READER_GONE" \in pipeFlags <=> HoldersOf("READ") = {}
        /\ "WRITER_GONE" \in pipeFlags <=> HoldersOf("WRITE") = {}
        /\ pipeFlags \subseteq {"WRITER_GONE", "READER_GONE"}
    BY DEF EndsInv
  <2>2. CASE w > 0
    <3>1. R = HoldersOf("READ")
      BY <1>2, <2>2
    <3>2. QED
      BY <1>7, <1>8, <2>1, <2>2, <3>1
  <2>3. CASE w = 0 /\ r > 0
    <3>1. W = HoldersOf("WRITE")
      BY <1>3, <2>3
    <3>2. CASE R = {}
      <4>1. pipeFlags' = pipeFlags \cup {"READER_GONE"}
        BY <1>8, <2>3, <3>2
      <4>2. "WRITER_GONE" \in pipeFlags' <=> "WRITER_GONE" \in pipeFlags
        BY <4>1
      <4>3. QED
        BY <2>1, <3>1, <3>2, <4>1, <4>2
    <3>3. CASE R # {}
      BY <1>7, <1>8, <2>1, <2>3, <3>1, <3>3
    <3>4. QED
      BY <3>2, <3>3
  <2>4. CASE w = 0 /\ r = 0
    <3>1. R = HoldersOf("READ") /\ W = HoldersOf("WRITE")
      BY <1>2, <1>3, <2>4
    <3>2. QED
      BY <1>8, <2>1, <2>4, <3>1
  <2>5. QED
    BY <2>2, <2>3, <2>4
<1>10. pipeOp' # NoOp /\ pipeOp'.kind = "close"
  <2>1. PICK l \in {"read", "write", "none"} :
           pipeOp' = [by |-> by, kind |-> "close", n |-> 0, list |-> l]
    BY DEF PipeCloseInt, PipeNotifying
  <2>2. pipeOp' \in PipeOps
    BY <2>1 DEF PipeOps
  <2>3. QED
    BY <2>1, <2>2, NoOpAssumption
<1>11. removed' => R = {} /\ W = {}
  BY <1>7 DEF EndsInv
<1>12. UseCounts'
  BY <1>2, <1>3, <1>5 DEF UseCounts
<1>13. \A p \in Procs : ends'[p] \subseteq EndsOf[p]
  BY DEF EndsInv
<1>14. removed' \in BOOLEAN
  BY Zenon DEF EndsInv
<1>15. QED
  BY <1>2, <1>3, <1>9, <1>10, <1>11, <1>12, <1>13, <1>14 DEF EndsInv

\* Fsio_PipeClose and the client list.
LEMMA CloseEnds ==
    ASSUME EndsInv, NEW p \in Procs, TryClose(p)
    PROVE  EndsInv'
<1>1. ends \in [Procs -> SUBSET {"READ", "WRITE"}] /\ UseCounts /\ Server \notin pipeKill
  BY DEF EndsInv
<1>2. pipeOp = NoOp /\ UNCHANGED streamVars /\ UNCHANGED removed
  BY DEF TryClose, Fsio_PipeClose
<1>3. PICK e : e = call[p].end
  OBVIOUS
<1>4. PICK w : w = IF e = "WRITE" THEN 1 ELSE 0
  OBVIOUS
<1>5. /\ Fsio_PipeClose(p, e) /\ PipeCloseInt(p, 1, w)
      /\ ends' = [ends EXCEPT ![p] = ends[p] \ {e}]
  BY <1>3, <1>4 DEF TryClose, Fsio_PipeClose
<1>6. /\ e \in {"READ", "WRITE"} /\ ends' \in [Procs -> SUBSET {"READ", "WRITE"}]
      /\ e = "WRITE" => HoldersOf("READ")' = HoldersOf("READ")
      /\ e = "READ" => HoldersOf("WRITE")' = HoldersOf("WRITE")
      /\ use.write - w = Cardinality(HoldersOf("WRITE")')
      /\ use.ref - 1 = Cardinality(HoldersOf("READ")') + Cardinality(HoldersOf("WRITE")')
  BY <1>1, <1>4, <1>5, CloseHolders
<1>7. \A q \in Procs : ends'[q] \subseteq ends[q]
  BY <1>1, <1>5
<1>8. PICK r \in Nat : r = 1
  OBVIOUS
<1>9. /\ w \in Nat /\ w <= r /\ (r = w => HoldersOf("READ")' = HoldersOf("READ"))
      /\ w = 0 => HoldersOf("WRITE")' = HoldersOf("WRITE")
      /\ w = 0 \/ HoldersOf("READ")' = HoldersOf("READ")
  BY <1>4, <1>6, <1>8
<1>10. PipeCloseInt(p, r, w)
      /\ use.ref - r = Cardinality(HoldersOf("READ")') + Cardinality(HoldersOf("WRITE")')
  BY <1>5, <1>6, <1>8
<1>11. Server \notin pipeKill'
  BY <1>1, <1>2 DEF streamVars
<1>12. QED
  BY <1>2, <1>6, <1>7, <1>9, <1>10, <1>11, CloseIntEnds

\* Fsio_PipeClientKill and the client list.
LEMMA KillEnds ==
    ASSUME EndsInv, EndsApart, NEW h \in Hosts, KillPipe(h)
    PROVE  EndsInv'
<1>1. /\ ends \in [Procs -> SUBSET {"READ", "WRITE"}] /\ UseCounts /\ Server \notin pipeKill
      /\ \A p \in Procs : ends[p] \subseteq EndsOf[p]
  BY DEF EndsInv
<1>2. /\ pipeOp = NoOp /\ UNCHANGED removed /\ pipeKill' \subseteq pipeKill /\ h \in pipeKill
      /\ Fsio_PipeClientKill(Recov, h)
      /\ ends' = [p \in Procs |-> IF HostOf[p] = h THEN {} ELSE ends[p]]
  BY DEF KillPipe, Fsio_PipeClientKill
<1>3. PICK r, w \in Nat :
         /\ PipeCloseInt(Recov, r, w) /\ ends' \in [Procs -> SUBSET {"READ", "WRITE"}]
         /\ w <= r /\ (r = w => HoldersOf("READ")' = HoldersOf("READ"))
         /\ w = 0 => HoldersOf("WRITE")' = HoldersOf("WRITE")
         /\ r # w => \E p \in Procs : HostOf[p] = h /\ "READ" \in ends[p]
         /\ w # 0 => \E p \in Procs : HostOf[p] = h /\ "WRITE" \in ends[p]
         /\ use.write - w = Cardinality(HoldersOf("WRITE")')
         /\ use.ref - r = Cardinality(HoldersOf("READ")') + Cardinality(HoldersOf("WRITE")')
  BY <1>1, <1>2, KillHolders
<1>4. w = 0 \/ r = w
  <2>1. SUFFICES ASSUME w # 0, r # w PROVE FALSE
    OBVIOUS
  <2>2. PICK p \in Procs : HostOf[p] = h /\ "READ" \in EndsOf[p]
    BY <1>1, <1>3, <2>1
  <2>3. PICK q \in Procs : HostOf[q] = h /\ "WRITE" \in EndsOf[q]
    BY <1>1, <1>3, <2>1
  <2>4. h # Server
    BY <1>1, <1>2
  <2>5. QED
    BY <2>2, <2>3, <2>4 DEF EndsApart
<1>5. w = 0 \/ HoldersOf("READ")' = HoldersOf("READ")
  BY <1>3, <1>4
<1>6. (\A p \in Procs : ends'[p] \subseteq ends[p]) /\ Server \notin pipeKill'
  BY <1>1, <1>2
<1>7. QED
  BY <1>2, <1>3, <1>5, <1>6, CloseIntEnds

\* Every step keeps EndsInv.
LEMMA NextEnds ==
    ASSUME EndsInv, EndsApart, [Next]_vars
    PROVE  EndsInv'
<1>0. Server \notin pipeKill
  BY DEF EndsInv
<1>1. CASE UNCHANGED pipeVars /\ Server \notin pipeKill'
  BY <1>1, EndsFrame DEF pipeVars
<1>2. CASE UNCHANGED <<pipeVars, pipeKill>>
  BY <1>0, <1>1, <1>2
<1>3. ASSUME NEW p \in Procs, TryRead(p) \/ TryWrite(p)
      PROVE  EndsInv'
  <2>1. pipeOp = NoOp /\ UNCHANGED <<pipeFlags, use, ends, removed>> /\ UNCHANGED pipeKill
    BY <1>3 DEF TryRead, TryWrite, Fsio_PipeRead, Fsio_PipeWrite, streamVars
  <2>2. QED
    BY <1>0, <2>1, EndsFrame
<1>4. CASE PipeLoop
  <2>1. UNCHANGED pipeKill
    BY <1>4 DEF PipeLoop, streamVars
  <2>2. CASE PipeNotify
    BY <1>2, <2>1, <2>2 DEF PipeNotify
  <2>3. CASE PipeReadDone \/ PipeWriteDone
    <3>1. pipeOp.kind # "close" /\ UNCHANGED <<pipeFlags, use, ends, removed>>
      BY <2>3 DEF PipeReadDone, PipeWriteDone
    <3>2. QED
      BY <1>0, <2>1, <3>1, EndsFrame
  <2>4. CASE PipeCloseDone
    <3>1. /\ UNCHANGED <<pipeFlags, use, ends>> /\ pipeOp' = NoOp
          /\ IF pipeFlags = {"WRITER_GONE", "READER_GONE"} THEN removed' = TRUE ELSE UNCHANGED removed
      BY <2>4 DEF PipeCloseDone
    <3>2. HoldersOf("READ")' = HoldersOf("READ") /\ HoldersOf("WRITE")' = HoldersOf("WRITE")
      BY <3>1 DEF HoldersOf
    <3>3. HoldersOf("READ") = {} /\ HoldersOf("WRITE") = {} <=> pipeFlags = {"WRITER_GONE", "READER_GONE"}
      BY DEF EndsInv
    <3>4. removed' <=> HoldersOf("READ") = {} /\ HoldersOf("WRITE") = {}
      BY <3>1, <3>3 DEF EndsInv
    <3>5. removed' \in BOOLEAN
      BY <3>1, Zenon DEF EndsInv
    <3>6. QED
      BY <1>0, <2>1, <3>1, <3>2, <3>4, <3>5 DEF EndsInv, UseCounts
  <2>5. QED
    BY <1>4, <2>2, <2>3, <2>4 DEF PipeLoop
<1>5. ASSUME NEW h \in Hosts, Crash(h) \/ KillFile(h)
      PROVE  EndsInv'
  <2>1. UNCHANGED pipeVars /\ Server \notin pipeKill'
    BY <1>0, <1>5 DEF Crash, KillFile
  <2>2. QED
    BY <1>1, <2>1
<1>6. ASSUME NEW p \in Procs,
             \/ EnterLock(p) \/ EnterUnlock(p) \/ EnterLockClose(p)
             \/ EnterRead(p) \/ EnterWrite(p) \/ EnterSelect(p) \/ EnterClose(p)
      PROVE  UNCHANGED <<pipeVars, pipeKill>>
  BY <1>6 DEF EnterLock, EnterUnlock, EnterLockClose, EnterRead, EnterWrite, EnterSelect,
              EnterClose, Enter
<1>7. ASSUME NEW p \in Procs, TryLock(p) \/ TryUnlock(p) \/ TryLockClose(p) \/ TrySelect(p)
                              \/ Wait(p) \/ Sig_Send(p)
      PROVE  UNCHANGED <<pipeVars, pipeKill>>
  BY <1>7 DEF TryLock, TryUnlock, TryLockClose, TrySelect, Fsio_PipeSelect, Wait, Sig_Send, streamVars
<1>8. LockLoop \/ UNCHANGED vars => UNCHANGED <<pipeVars, pipeKill>>
  BY DEF LockLoop, vars, streamVars
<1>9. CASE UNCHANGED vars
  BY <1>2, <1>8, <1>9
<1>10. CASE Next
  BY <1>2, <1>3, <1>4, <1>5, <1>6, <1>7, <1>8, <1>10, CloseEnds, KillEnds DEF Next, Kernel, Try
<1>11. QED
  BY <1>9, <1>10

\* Neither a close nor the clean-up after a crash is miscounted: whenever nobody has
\* the pipe's handle locked, the flags say which end nobody holds any more, and the
\* pipe is removed exactly when nobody holds either.
THEOREM FlagsFollowEnds ==
    ASSUME EndsApart, BothEnds
    PROVE  Spec => []EndsAgree
<1>1. Init => EndsInv
  <2> SUFFICES ASSUME Init PROVE EndsInv
    OBVIOUS
  <2>1. /\ ends = EndsOf /\ pipeFlags = {} /\ removed = FALSE /\ pipeKill = {} /\ UseCounts
        /\ ends \in [Procs -> SUBSET {"READ", "WRITE"}]
    BY InitPipeInv DEF Init, PipeInit, PipeInv, TypeOK, PipeTypeOK
  <2>2. HoldersOf("READ") # {} /\ HoldersOf("WRITE") # {}
    BY <2>1 DEF HoldersOf, BothEnds, Readers, Writers
  <2>3. removed \in BOOLEAN
    BY <2>1, Zenon
  <2>4. QED
    BY <2>1, <2>2, <2>3 DEF EndsInv
<1>2. EndsInv /\ [Next]_vars => EndsInv'
  BY NextEnds
<1>3. EndsInv => EndsAgree
  <2> SUFFICES ASSUME EndsInv, pipeOp = NoOp
               PROVE  /\ "READER_GONE" \in pipeFlags <=> \A p \in Procs : "READ" \notin ends[p]
                      /\ "WRITER_GONE" \in pipeFlags <=> \A p \in Procs : "WRITE" \notin ends[p]
                      /\ removed <=> \A p \in Procs : ends[p] = {}
    BY Zenon DEF EndsAgree
  <2>1. /\ HoldersOf("READ") = {} <=> \A p \in Procs : "READ" \notin ends[p]
        /\ HoldersOf("WRITE") = {} <=> \A p \in Procs : "WRITE" \notin ends[p]
    BY DEF HoldersOf
  <2>2. /\ "READER_GONE" \in pipeFlags <=> HoldersOf("READ") = {}
        /\ "WRITER_GONE" \in pipeFlags <=> HoldersOf("WRITE") = {}
        /\ removed <=> HoldersOf("READ") = {} /\ HoldersOf("WRITE") = {}
    BY DEF EndsInv
  <2>3. removed <=> \A p \in Procs : ends[p] = {}
    <3>1. ends \in [Procs -> SUBSET {"READ", "WRITE"}]
      BY DEF EndsInv
    <3>2. \A p \in Procs : ends[p] = {} <=> "READ" \notin ends[p] /\ "WRITE" \notin ends[p]
      BY <3>1
    <3>3. QED
      BY <2>1, <2>2, <3>2, Zenon
  <2>4. QED
    BY <2>1, <2>2, <2>3, Zenon
<1>4. QED
  BY <1>1, <1>2, <1>3, PTL DEF Spec
-----------------------------------------------------------------------------
(***************************************************************************)
(* No wakeup is lost in the kernel: proof of SleeperMustWait of FsStream,  *)
(* for any number of processes and hosts, with locks, pipes, signals and   *)
(* crashes together.                                                       *)
(***************************************************************************)

\* Fsio_PipeSelect for writing has its own idea of a full pipe, and the property
\* does not hold for it.
ReadSelects == Selects \subseteq {"READ"}

\* In Sync_ProcWait or on the way there, and not notified.
Sleeps(p) == p \notin lost /\ p \notin complete /\ pc[p] \in {"block", "asleep"}

\* An operation of the pipe is in its notification loop for this list.
Notifies(l) == pipeOp # NoOp /\ pipeOp.list = l

\* The process is on the list of its object, which is still in the state that made
\* it wait, or else the list is being notified.
MustWait(p) ==
    \/ /\ call[p].kind = "lock" /\ Contains(waitList["lock"], p)
       /\ LockBlocks(call[p].mode) \/ fileBy # Nobody
    \/ /\ call[p].kind \in {"read", "select"} /\ Contains(waitList["read"], p)
       /\ ReadBlocks \/ Notifies("read")
    \/ /\ call[p].kind = "write" /\ Contains(waitList["write"], p)
       /\ WriteBlocks \/ Notifies("write")

\* A write is in its notification loop only while there are readers.
WriteHasReaders ==
    pipeOp # NoOp /\ pipeOp.kind = "write" => "READER_GONE" \notin pipeFlags

SleepInv ==
    /\ WriteHasReaders
    /\ \A p \in Procs : Sleeps(p) => MustWait(p)

-----------------------------------------------------------------------------
\* A wait list keeps a process when another joins it, and gets the one that joins.
LEMMA InsertContains ==
    ASSUME waitList \in [Lists -> Seq(Procs)], NEW l \in Lists, NEW p \in Procs,
           Fsutil_FastWaitListInsert(l, p)
    PROVE  /\ Contains(waitList'[l], p)
           /\ \A k \in Lists : \A q : Contains(waitList[k], q) => Contains(waitList'[k], q)
<1>1. CASE Contains(waitList[l], p)
  BY <1>1 DEF Fsutil_FastWaitListInsert
<1>2. CASE ~Contains(waitList[l], p)
  <2>1. waitList' = [waitList EXCEPT ![l] = Append(waitList[l], p)]
    BY <1>2 DEF Fsutil_FastWaitListInsert
  <2>2. PICK s \in Seq(Procs) : s = waitList[l]
    OBVIOUS
  <2>3. /\ Len(Append(s, p)) = Len(s) + 1 /\ Append(s, p)[Len(s) + 1] = p /\ Len(s) \in Nat
        /\ \A i \in 1 .. Len(s) : Append(s, p)[i] = s[i]
    BY AppendProperties, LenProperties
  <2>4. Contains(Append(s, p), p) /\ \A q : Contains(s, q) => Contains(Append(s, p), q)
    BY <2>3 DEF Contains
  <2>5. /\ waitList'[l] = Append(s, p)
        /\ \A k \in Lists : k # l => waitList'[k] = waitList[k]
    BY <2>1, <2>2
  <2>6. QED
    BY <2>2, <2>4, <2>5
<1>3. QED
  BY <1>1, <1>2

\* What is in a list other than at its head is in its tail.
LEMMA TailContains ==
    ASSUME NEW s \in Seq(Procs), s # <<>>, NEW q, Contains(s, q), q # Head(s)
    PROVE  Contains(Tail(s), q)
<1>1. PICK i \in 1 .. Len(s) : s[i] = q
  BY DEF Contains
<1>2. /\ Len(s) \in Nat /\ Len(Tail(s)) = Len(s) - 1
      /\ \A j \in 1 .. Len(Tail(s)) : Tail(s)[j] = s[j + 1]
  BY HeadTailProperties, LenProperties
<1>3. i # 1
  BY <1>1
<1>4. i - 1 \in 1 .. Len(Tail(s)) /\ i - 1 + 1 = i
  BY <1>2, <1>3
<1>5. Tail(s)[i - 1] = q
  BY <1>1, <1>2, <1>4
<1>6. QED
  BY <1>4, <1>5 DEF Contains

\* A list that contains a process is not empty.
LEMMA NotEmpty ==
    ASSUME NEW s, NEW q, Contains(s, q)
    PROVE  s # <<>>
<1>1. SUFFICES ASSUME s = <<>> PROVE FALSE
  OBVIOUS
<1>2. PICK i \in 1 .. Len(s) : s[i] = q
  BY DEF Contains
<1>3. Len(<<>>) = 0
  OBVIOUS
<1>4. QED
  BY <1>1, <1>2, <1>3

\* What a step has to keep for the processes that sleep.  A condition need not be
\* kept when its list is empty.
LEMMA SleepStep ==
    ASSUME SleepInv, WriteHasReaders',
           \A m : waitList["lock"] # <<>> /\ (LockBlocks(m) \/ fileBy # Nobody) =>
                     (LockBlocks(m) \/ fileBy # Nobody)',
           waitList["read"] # <<>> /\ (ReadBlocks \/ Notifies("read")) =>
              (ReadBlocks \/ Notifies("read"))',
           waitList["write"] # <<>> /\ (WriteBlocks \/ Notifies("write")) =>
              (WriteBlocks \/ Notifies("write"))',
           \A q \in Procs : Sleeps(q)' =>
              \/ MustWait(q)'
              \/ /\ Sleeps(q) /\ call'[q] = call[q]
                 /\ \A l \in Lists : Contains(waitList[l], q) => Contains(waitList'[l], q)
    PROVE  SleepInv'
<1> SUFFICES ASSUME NEW q \in Procs, Sleeps(q)', ~MustWait(q)'
             PROVE  FALSE
  BY DEF SleepInv
<1>1. /\ Sleeps(q) /\ call'[q] = call[q]
      /\ \A l \in Lists : Contains(waitList[l], q) => Contains(waitList'[l], q)
      /\ MustWait(q)
  BY DEF SleepInv
<1>2. "lock" \in Lists /\ "read" \in Lists /\ "write" \in Lists
  BY StreamAssumption
<1>3. CASE /\ call[q].kind = "lock" /\ Contains(waitList["lock"], q)
           /\ LockBlocks(call[q].mode) \/ fileBy # Nobody
  <2>1. waitList["lock"] # <<>> /\ Contains(waitList'["lock"], q)
    BY <1>1, <1>2, <1>3, NotEmpty
  <2>2. PICK m : m = call[q].mode
    OBVIOUS
  <2>3. (LockBlocks(m) \/ fileBy # Nobody)'
    BY <1>3, <2>1, <2>2
  <2>4. LockBlocks(call[q].mode)' \/ (fileBy # Nobody)'
    BY <1>1, <2>2, <2>3 DEF LockBlocks
  <2>5. QED
    BY <1>1, <1>3, <2>1, <2>4 DEF MustWait
<1>4. CASE /\ call[q].kind \in {"read", "select"} /\ Contains(waitList["read"], q)
           /\ ReadBlocks \/ Notifies("read")
  <2>1. waitList["read"] # <<>> /\ Contains(waitList'["read"], q)
    BY <1>1, <1>2, <1>4, NotEmpty
  <2>2. QED
    BY <1>1, <1>4, <2>1 DEF MustWait
<1>5. CASE /\ call[q].kind = "write" /\ Contains(waitList["write"], q)
           /\ WriteBlocks \/ Notifies("write")
  <2>1. waitList["write"] # <<>> /\ Contains(waitList'["write"], q)
    BY <1>1, <1>2, <1>5, NotEmpty
  <2>2. QED
    BY <1>1, <1>5, <2>1 DEF MustWait
<1>6. QED
  BY <1>1, <1>3, <1>4, <1>5 DEF MustWait

\* A step that leaves the file and the pipe alone keeps all of these conditions.
LEMMA SleepFrame ==
    ASSUME SleepInv, UNCHANGED lockVars, UNCHANGED pipeVars,
           \A q \in Procs : Sleeps(q)' =>
              \/ MustWait(q)'
              \/ /\ Sleeps(q) /\ call'[q] = call[q]
                 /\ \A l \in Lists : Contains(waitList[l], q) => Contains(waitList'[l], q)
    PROVE  SleepInv'
<1>1. WriteHasReaders'
  BY DEF SleepInv, WriteHasReaders, pipeVars
<1>2. \A m : LockBlocks(m)' <=> LockBlocks(m)
  BY DEF LockBlocks, lockVars
<1>3. /\ ReadBlocks' <=> ReadBlocks
      /\ WriteBlocks' <=> WriteBlocks
      /\ Notifies("read")' <=> Notifies("read")
      /\ Notifies("write")' <=> Notifies("write")
      /\ fileBy' = fileBy
  BY DEF ReadBlocks, WriteBlocks, Room, InPipe, Notifies, pipeVars, lockVars
<1>4. QED
  BY <1>1, <1>2, <1>3, SleepStep

\* A process makes a system call.
LEMMA EnterSleepInv ==
    ASSUME PipeInv, SleepInv, NEW p \in Procs,
           \/ EnterLock(p) \/ EnterUnlock(p) \/ EnterLockClose(p)
           \/ EnterRead(p) \/ EnterWrite(p) \/ EnterSelect(p) \/ EnterClose(p)
    PROVE  SleepInv'
<1>1. pc \in [Procs -> ProcStates] /\ call \in [Procs -> Calls \cup {NoCall}]
  BY DEF PipeInv, TypeOK, WaitTypeOK
<1>2. \E c : Enter(p, c)
  BY DEF EnterLock, EnterUnlock, EnterLockClose, EnterRead, EnterWrite, EnterSelect, EnterClose
<1>3. /\ pc' = [pc EXCEPT ![p] = "try"] /\ \A q \in Procs \ {p} : call'[q] = call[q]
      /\ UNCHANGED <<complete, waitList, lost>> /\ UNCHANGED lockVars /\ UNCHANGED pipeVars
  BY <1>1, <1>2 DEF Enter
<1>4. ASSUME NEW q \in Procs, Sleeps(q)'
      PROVE  Sleeps(q) /\ call'[q] = call[q]
  BY <1>1, <1>3, <1>4 DEF Sleeps
<1>5. QED
  BY <1>3, <1>4, SleepFrame

\* Sync_ProcWait, and a signal: a process falls asleep only if it was not notified.
LEMMA WaitSleepInv ==
    ASSUME PipeInv, SleepInv, NEW p \in Procs, Wait(p) \/ Sig_Send(p)
    PROVE  SleepInv'
<1>1. pc \in [Procs -> ProcStates] /\ call \in [Procs -> Calls \cup {NoCall}]
  BY DEF PipeInv, TypeOK, WaitTypeOK
<1>2. UNCHANGED lockVars /\ UNCHANGED pipeVars /\ UNCHANGED <<waitList, lost>>
  BY DEF Wait, Sync_ProcWait, ProcWaitDone, Sig_Send, Signal
<1>3. ASSUME NEW q \in Procs, Sleeps(q)'
      PROVE  Sleeps(q) /\ call'[q] = call[q]
  <2>1. CASE Sig_Send(p)
    BY <1>1, <1>3, <2>1 DEF Sig_Send, Signal, ProcessWakeup, Sleeps
  <2>2. CASE Wait(p) /\ Sync_ProcWait(p)
    <3>1. CASE q # p
      BY <1>1, <1>3, <2>2, <3>1 DEF Sync_ProcWait, Return, Sleeps
    <3>2. CASE q = p
      BY <1>1, <1>3, <2>2, <3>2 DEF Sync_ProcWait, Return, Sleeps
    <3>3. QED
      BY <3>1, <3>2
  <2>3. CASE Wait(p) /\ ProcWaitDone(p)
    BY <1>1, <1>3, <2>3 DEF ProcWaitDone, Return, Sleeps
  <2>4. QED
    BY <2>1, <2>2, <2>3 DEF Wait
<1>4. QED
  BY <1>2, <1>3, SleepFrame

\* A waiter is notified: it is off the list, and does not sleep any more.
LEMMA NotifySleepInv ==
    ASSUME PipeInv, SleepInv, NEW l \in Lists, NotifyFirst(l),
           UNCHANGED lockVars, UNCHANGED pipeVars
    PROVE  SleepInv'
<1>1. /\ pc \in [Procs -> ProcStates] /\ waitList \in [Lists -> Seq(Procs)]
      /\ waitList[l] # <<>>
  BY DEF PipeInv, TypeOK, WaitTypeOK, NotifyFirst
<1>2. PICK s \in Seq(Procs) : s = waitList[l]
  BY <1>1
<1>3. PICK p \in Procs : p = Head(s)
  BY <1>1, <1>2, HeadTailProperties
<1>4. /\ UNCHANGED call /\ waitList' = [waitList EXCEPT ![l] = Tail(s)]
      /\ \/ ProcessWakeup(p) /\ UNCHANGED lost
         \/ lost' = lost \cup {p} /\ UNCHANGED <<pc, complete>>
  BY <1>2, <1>3 DEF NotifyFirst
<1>5. ~Sleeps(p)' /\ \A q \in Procs \ {p} : Sleeps(q)' => Sleeps(q)
  BY <1>1, <1>4 DEF ProcessWakeup, Sleeps
<1>6. ASSUME NEW q \in Procs, Sleeps(q)', NEW k \in Lists, Contains(waitList[k], q)
      PROVE  Contains(waitList'[k], q)
  <2>1. CASE k # l
    BY <1>1, <1>4, <1>6, <2>1
  <2>2. CASE k = l
    <3>1. Contains(Tail(s), q)
      BY <1>1, <1>2, <1>3, <1>5, <1>6, <2>2, TailContains
    <3>2. QED
      BY <1>1, <1>4, <2>2, <3>1
  <2>3. QED
    BY <2>1, <2>2
<1>7. QED
  BY <1>4, <1>5, <1>6, SleepFrame


\* A step on the file: locks are only added, or the list is notified or empty.
LEMMA SleepLockStep ==
    ASSUME SleepInv, UNCHANGED pipeVars,
           \/ lockFlags \subseteq lockFlags' /\ UNCHANGED fileBy
           \/ fileBy' # Nobody
           \/ waitList["lock"] = <<>>,
           \A q \in Procs : Sleeps(q)' =>
              \/ MustWait(q)'
              \/ /\ Sleeps(q) /\ call'[q] = call[q]
                 /\ \A l \in Lists : Contains(waitList[l], q) => Contains(waitList'[l], q)
    PROVE  SleepInv'
<1>1. WriteHasReaders'
  BY DEF SleepInv, WriteHasReaders, pipeVars
<1>2. \A m : waitList["lock"] # <<>> /\ (LockBlocks(m) \/ fileBy # Nobody) =>
                (LockBlocks(m) \/ fileBy # Nobody)'
  BY DEF LockBlocks
<1>3. /\ ReadBlocks' <=> ReadBlocks
      /\ WriteBlocks' <=> WriteBlocks
      /\ Notifies("read")' <=> Notifies("read")
      /\ Notifies("write")' <=> Notifies("write")
  BY DEF ReadBlocks, WriteBlocks, Room, InPipe, Notifies, pipeVars
<1>4. QED
  BY <1>1, <1>2, <1>3, SleepStep

\* A step on the pipe.
LEMMA SleepPipeStep ==
    ASSUME SleepInv, UNCHANGED lockVars, WriteHasReaders',
           waitList["read"] # <<>> /\ (ReadBlocks \/ Notifies("read")) =>
              (ReadBlocks \/ Notifies("read"))',
           waitList["write"] # <<>> /\ (WriteBlocks \/ Notifies("write")) =>
              (WriteBlocks \/ Notifies("write"))',
           \A q \in Procs : Sleeps(q)' =>
              \/ MustWait(q)'
              \/ /\ Sleeps(q) /\ call'[q] = call[q]
                 /\ \A l \in Lists : Contains(waitList[l], q) => Contains(waitList'[l], q)
    PROVE  SleepInv'
<1>1. \A m : LockBlocks(m)' <=> LockBlocks(m)
  BY DEF LockBlocks, lockVars
<1>2. fileBy' = fileBy
  BY DEF lockVars
<1>3. QED
  BY <1>1, <1>2, SleepStep

\* Who sleeps after a call was answered: the caller if it is to wait, with its list
\* and its call, and those that slept before.
LEMMA AnswerSleeps ==
    ASSUME TypeOK, NEW p \in Procs, NEW l \in Lists, NEW c,
           WouldBlock(l, p, c) \/ (Return(p) /\ UNCHANGED waitList),
           UNCHANGED <<complete, lost>>, NEW q \in Procs, Sleeps(q)'
    PROVE  \/ q = p /\ call'[p] = c /\ Contains(waitList'[l], p) /\ WouldBlock(l, p, c)
           \/ /\ q # p /\ Sleeps(q) /\ call'[q] = call[q]
              /\ \A k \in Lists : Contains(waitList[k], q) => Contains(waitList'[k], q)
<1>1. /\ pc \in [Procs -> ProcStates] /\ call \in [Procs -> Calls \cup {NoCall}]
      /\ waitList \in [Lists -> Seq(Procs)]
  BY DEF TypeOK, WaitTypeOK
<1>2. CASE Return(p) /\ UNCHANGED waitList
  BY <1>1, <1>2 DEF Return, Sleeps
<1>3. CASE WouldBlock(l, p, c)
  <2>1. Fsutil_FastWaitListInsert(l, p)
    BY <1>3 DEF WouldBlock
  <2>2. /\ Contains(waitList'[l], p)
        /\ \A k \in Lists : \A r : Contains(waitList[k], r) => Contains(waitList'[k], r)
    BY <1>1, <2>1, InsertContains
  <2>3. \/ Return(p)
        \/ pc' = [pc EXCEPT ![p] = "block"] /\ call' = [call EXCEPT ![p] = c]
    BY <1>3 DEF WouldBlock
  <2>4. CASE q # p
    BY <1>1, <2>2, <2>3, <2>4 DEF Return, Sleeps
  <2>5. CASE q = p
    BY <1>1, <1>3, <2>2, <2>3, <2>5 DEF Return, Sleeps
  <2>6. QED
    BY <2>4, <2>5
<1>4. QED
  BY <1>2, <1>3

\* Who sleeps after an operation has begun to notify, on the file or on the pipe.
LEMMA BegunSleeps ==
    ASSUME TypeOK, NEW by, pc' = IF by \in Procs THEN [pc EXCEPT ![by] = "serve"] ELSE pc,
           UNCHANGED <<call, complete, waitList, lost>>, NEW q \in Procs, Sleeps(q)'
    PROVE  /\ Sleeps(q) /\ call'[q] = call[q]
           /\ \A k \in Lists : Contains(waitList[k], q) => Contains(waitList'[k], q)
<1>1. pc \in [Procs -> ProcStates]
  BY DEF TypeOK, WaitTypeOK
<1>2. QED
  BY <1>1 DEF Sleeps

\* Fsio_Lock, Fsio_Unlock and Fsio_LockClose.
LEMMA LockTrySleepInv ==
    ASSUME PipeInv, SleepInv, NEW p \in Procs, TryLock(p) \/ TryUnlock(p) \/ TryLockClose(p)
    PROVE  SleepInv'
<1>1. TypeOK /\ UNCHANGED pipeVars /\ fileBy = Nobody /\ p # Nobody /\ "lock" \in Lists
  BY LockAssumption, StreamAssumption
     DEF PipeInv, TryLock, TryUnlock, TryLockClose, Fsio_Lock, Fsio_Unlock, Fsio_LockClose
<1>2. CASE TryLock(p)
  <2>1. /\ UNCHANGED <<complete, lost, fileBy>> /\ lockFlags \subseteq lockFlags'
        /\ \/ Return(p) /\ UNCHANGED waitList
           \/ WouldBlock("lock", p, call[p]) /\ UNCHANGED lockFlags
        /\ call[p].kind = "lock"
    BY <1>2 DEF TryLock, Fsio_Lock, LockGrant
  <2>2. WouldBlock("lock", p, call[p]) => LockBlocks(call[p].mode) \/ pc'[p] = "user"
    <3>1. CASE LockBlocks(call[p].mode)
      BY <3>1
    <3>2. CASE ~LockBlocks(call[p].mode)
      <4>1. Return(p)
        BY <1>2, <3>2 DEF TryLock, Fsio_Lock
      <4>2. QED
        BY <1>1, <4>1 DEF Return, TypeOK, WaitTypeOK
    <3>3. QED
      BY <3>1, <3>2
  <2>3. ASSUME NEW q \in Procs, Sleeps(q)'
        PROVE  \/ MustWait(q)'
               \/ /\ Sleeps(q) /\ call'[q] = call[q]
                  /\ \A l \in Lists : Contains(waitList[l], q) => Contains(waitList'[l], q)
    <3>1. PICK c : c = call[p]
      OBVIOUS
    <3>2. \/ q = p /\ call'[p] = c /\ Contains(waitList'["lock"], p) /\ WouldBlock("lock", p, c)
          \/ /\ q # p /\ Sleeps(q) /\ call'[q] = call[q]
             /\ \A k \in Lists : Contains(waitList[k], q) => Contains(waitList'[k], q)
      BY <1>1, <2>1, <2>3, <3>1, AnswerSleeps
    <3>3. CASE q = p
      <4>1. call'[p] = c /\ Contains(waitList'["lock"], p) /\ LockBlocks(c.mode)
        BY <2>2, <2>3, <3>1, <3>2, <3>3 DEF Sleeps
      <4>2. LockBlocks(call[p].mode)'
        BY <2>1, <4>1 DEF LockBlocks
      <4>3. QED
        BY <2>1, <3>1, <3>3, <4>1, <4>2 DEF MustWait
    <3>4. QED
      BY <3>2, <3>3
  <2>4. QED
    BY <1>1, <2>1, <2>3, SleepLockStep
<1>3. CASE TryUnlock(p) \/ TryLockClose(p)
  <2>1. \/ Notifying(p)
        \/ Return(p) /\ UNCHANGED <<lockFlags, fileBy, complete, waitList, lost>>
    BY <1>3 DEF TryUnlock, TryLockClose, Fsio_Unlock, Fsio_LockClose
  <2>2. CASE Notifying(p)
    <3>1. \A q \in Procs : Sleeps(q)' =>
             /\ Sleeps(q) /\ call'[q] = call[q]
             /\ \A l \in Lists : Contains(waitList[l], q) => Contains(waitList'[l], q)
      BY <1>1, <2>2, BegunSleeps DEF Notifying
    <3>2. fileBy' # Nobody
      BY <1>1, <2>2 DEF Notifying
    <3>3. QED
      BY <1>1, <3>1, <3>2, SleepLockStep
  <2>3. CASE Return(p) /\ UNCHANGED <<lockFlags, fileBy, complete, waitList, lost>>
    <3>1. \A q \in Procs : Sleeps(q)' => Sleeps(q) /\ call'[q] = call[q]
      BY <1>1, <2>3 DEF Return, Sleeps, TypeOK, WaitTypeOK
    <3>2. QED
      BY <1>1, <2>3, <3>1, SleepLockStep
  <2>4. QED
    BY <2>1, <2>2, <2>3
<1>4. QED
  BY <1>2, <1>3


\* The notification loop of the file.
LEMMA LockLoopSleepInv ==
    ASSUME PipeInv, SleepInv, LockLoop
    PROVE  SleepInv'
<1>1. TypeOK /\ UNCHANGED pipeVars /\ "lock" \in Lists
  BY StreamAssumption DEF PipeInv, LockLoop
<1>2. CASE LockNotify
  BY <1>1, <1>2, NotifySleepInv DEF LockNotify
<1>3. CASE LockNotified
  <2>1. PICK p : p = fileBy
    OBVIOUS
  <2>2. /\ waitList["lock"] = <<>> /\ UNCHANGED <<complete, waitList, lost>>
        /\ (p \in Procs /\ Return(p)) \/ UNCHANGED <<pc, call, sigs>>
    BY <1>3, <2>1 DEF LockNotified
  <2>3. \A q \in Procs : Sleeps(q)' => Sleeps(q) /\ call'[q] = call[q]
    BY <1>1, <2>2 DEF Return, Sleeps, TypeOK, WaitTypeOK
  <2>4. QED
    BY <1>1, <2>2, <2>3, SleepLockStep
<1>4. QED
  BY <1>2, <1>3 DEF LockLoop

\* Fsio_LockClientKill notifies the waiters if it removed a lock.
LEMMA KillFileSleepInv ==
    ASSUME PipeInv, SleepInv, NEW h \in Hosts, KillFile(h)
    PROVE  SleepInv'
<1> DEFINE dead == {i \in DOMAIN ownerList : HostOf[ownerList[i].proc] = h}
<1>1. UNCHANGED pipeVars /\ UNCHANGED waitVars
  BY WaitAssumption DEF KillFile, Fsio_LockClientKill, Notifying, waitVars
<1>2. CASE dead = {}
  <2>1. lockFlags' = lockFlags \ {ownerList[i].flags : i \in dead} /\ UNCHANGED fileBy
    BY <1>2 DEF KillFile, Fsio_LockClientKill
  <2>2. lockFlags' = lockFlags
    BY <1>2, <2>1
  <2>3. QED
    BY <1>1, <2>1, <2>2, SleepLockStep DEF waitVars, Sleeps
<1>3. CASE dead # {}
  <2>1. fileBy' = Recov
    BY <1>3 DEF KillFile, Fsio_LockClientKill, Notifying
  <2>2. QED
    BY <1>1, <2>1, LockAssumption, SleepLockStep DEF waitVars, Sleeps
<1>4. QED
  BY <1>2, <1>3

\* The processes of a host that crashes do not sleep any more.
LEMMA CrashSleepInv ==
    ASSUME PipeInv, SleepInv, NEW h \in Hosts, Crash(h)
    PROVE  SleepInv'
<1>1. /\ UNCHANGED lockVars /\ UNCHANGED pipeVars /\ UNCHANGED <<waitList, lost>>
      /\ pc' = [p \in Procs |-> IF HostOf[p] = h THEN "gone" ELSE pc[p]]
      /\ complete' = {p \in complete : HostOf[p] # h}
      /\ call' = [p \in Procs |-> IF HostOf[p] = h THEN NoCall ELSE call[p]]
  BY DEF Crash
<1>2. ASSUME NEW q \in Procs, Sleeps(q)'
      PROVE  Sleeps(q) /\ call'[q] = call[q]
  <2>1. HostOf[q] # h
    BY <1>1, <1>2 DEF Sleeps
  <2>2. QED
    BY <1>1, <1>2, <2>1 DEF Sleeps
<1>3. QED
  BY <1>1, <1>2, SleepFrame

\* An answer to a read or a select that leaves the pipe alone.
LEMMA ReadBlocked ==
    ASSUME PipeInv, SleepInv, NEW p \in Procs, call[p].kind \in {"read", "select"},
           \/ ReadBlocks /\ WouldBlock("read", p, call[p])
           \/ Return(p) /\ UNCHANGED waitList,
           UNCHANGED <<complete, lost>>, UNCHANGED pipeVars, UNCHANGED lockVars
    PROVE  SleepInv'
<1>1. TypeOK /\ "read" \in Lists /\ pc \in [Procs -> ProcStates]
  BY StreamAssumption DEF PipeInv, TypeOK, WaitTypeOK
<1>2. PICK c : c = call[p]
  OBVIOUS
<1>3. ASSUME NEW q \in Procs, Sleeps(q)'
      PROVE  \/ MustWait(q)'
             \/ /\ Sleeps(q) /\ call'[q] = call[q]
                /\ \A l \in Lists : Contains(waitList[l], q) => Contains(waitList'[l], q)
  <2>1. \/ q = p /\ call'[p] = c /\ Contains(waitList'["read"], p)
        \/ /\ q # p /\ Sleeps(q) /\ call'[q] = call[q]
           /\ \A k \in Lists : Contains(waitList[k], q) => Contains(waitList'[k], q)
    BY <1>1, <1>2, <1>3, AnswerSleeps
  <2>2. CASE q = p
    <3>1. ~Return(p)
      BY <1>1, <1>3, <2>2 DEF Return, Sleeps
    <3>2. ReadBlocks'
      BY <3>1 DEF ReadBlocks, pipeVars
    <3>3. QED
      BY <1>2, <2>1, <2>2, <3>2 DEF MustWait
  <2>3. QED
    BY <2>1, <2>2
<1>4. QED
  BY <1>3, SleepFrame

\* Fsio_PipeSelect for reading.
LEMMA SelectSleepInv ==
    ASSUME PipeInv, SleepInv, ReadSelects, NEW p \in Procs, TrySelect(p)
    PROVE  SleepInv'
<1>1. /\ call[p].kind = "select" /\ UNCHANGED lockVars /\ UNCHANGED pipeVars
      /\ UNCHANGED <<complete, lost>>
  BY DEF TrySelect, Fsio_PipeSelect
<1>2. call[p] \in Calls
  BY <1>1 DEF PipeInv, TypeOK, NoCall
<1>3. call[p].dir = "READ"
  BY <1>1, <1>2, CallFields DEF ReadSelects
<1>4. \/ ReadBlocks /\ WouldBlock("read", p, call[p])
      \/ Return(p) /\ UNCHANGED waitList
  BY <1>3 DEF TrySelect, Fsio_PipeSelect
<1>5. QED
  BY <1>1, <1>4, ReadBlocked

\* An operation of the pipe begins to notify a list.
LEMMA BegunNotifies ==
    ASSUME NEW by, NEW o \in PipeOps, PipeNotifying(by, o)
    PROVE  /\ pipeOp' = o /\ pipeOp' # NoOp /\ Notifies(o.list)'
           /\ UNCHANGED <<call, complete, waitList, lost>>
           /\ pc' = IF by \in Procs THEN [pc EXCEPT ![by] = "serve"] ELSE pc
BY NoOpAssumption DEF PipeNotifying, Notifies

\* Fsio_PipeRead up to its notification loop, which is for the writers.
LEMMA ReadSleepInv ==
    ASSUME PipeInv, SleepInv, NEW p \in Procs, TryRead(p)
    PROVE  SleepInv'
<1>1. /\ call[p].kind = "read" /\ pipeOp = NoOp /\ UNCHANGED lockVars /\ TypeOK
      /\ UNCHANGED <<firstByte, lastByte, buffer, pipeFlags, use, ends, removed, amount>>
      /\ call \in [Procs -> Calls \cup {NoCall}]
  BY DEF TryRead, Fsio_PipeRead, PipeInv, TypeOK
<1>2. CASE firstByte = -1
  <2>1. /\ UNCHANGED <<complete, lost>> /\ UNCHANGED pipeVars
        /\ \/ ReadBlocks /\ WouldBlock("read", p, call[p])
           \/ Return(p) /\ UNCHANGED waitList
    BY <1>1, <1>2 DEF TryRead, Fsio_PipeRead, pipeVars
  <2>2. QED
    BY <1>1, <2>1, ReadBlocked
<1>3. CASE firstByte # -1
  <2>1. call[p].len \in Nat /\ InPipe \in Nat
    BY <1>1, CallFields, PipeAssumption DEF TypeOK, NoCall
  <2>2. PICK n \in Nat : PipeNotifying(p, [by |-> p, kind |-> "read", n |-> n, list |-> "write"])
    BY <1>3, <2>1 DEF TryRead, Fsio_PipeRead, ReadBlocks
  <2>3. PICK o \in PipeOps : o = [by |-> p, kind |-> "read", n |-> n, list |-> "write"]
    BY <2>2 DEF PipeOps
  <2>4. /\ pipeOp' = o /\ Notifies("write")' /\ UNCHANGED <<call, complete, waitList, lost>>
        /\ pc' = IF p \in Procs THEN [pc EXCEPT ![p] = "serve"] ELSE pc
    BY <2>2, <2>3, BegunNotifies
  <2>5. WriteHasReaders'
    BY <2>3, <2>4 DEF WriteHasReaders
  <2>6. ~ReadBlocks /\ ~Notifies("read")
    BY <1>1, <1>3 DEF ReadBlocks, Notifies
  <2>7. \A q \in Procs : Sleeps(q)' =>
             /\ Sleeps(q) /\ call'[q] = call[q]
             /\ \A l \in Lists : Contains(waitList[l], q) => Contains(waitList'[l], q)
    BY <1>1, <2>4, BegunSleeps
  <2>8. QED
    BY <1>1, <2>4, <2>5, <2>6, <2>7, SleepPipeStep
<1>4. QED
  BY <1>2, <1>3


\* Fsio_PipeWrite up to its notification loop, which is for the readers.
LEMMA WriteSleepInv ==
    ASSUME PipeInv, SleepInv, NEW p \in Procs, TryWrite(p)
    PROVE  SleepInv'
<1>1. /\ call[p].kind = "write" /\ pipeOp = NoOp /\ UNCHANGED lockVars /\ TypeOK
      /\ UNCHANGED <<firstByte, lastByte, pipeFlags, use, ends, removed, amount, got>>
      /\ call \in [Procs -> Calls \cup {NoCall}] /\ pc \in [Procs -> ProcStates]
      /\ "write" \in Lists
  BY StreamAssumption DEF TryWrite, Fsio_PipeWrite, PipeInv, TypeOK, WaitTypeOK
<1>2. CASE "READER_GONE" \in pipeFlags \/ Room = 0
  <2>1. /\ UNCHANGED <<complete, lost>> /\ UNCHANGED pipeVars
        /\ \/ WriteBlocks /\ WouldBlock("write", p, call[p])
           \/ Return(p) /\ UNCHANGED waitList
    BY <1>1, <1>2 DEF TryWrite, Fsio_PipeWrite, pipeVars
  <2>2. PICK c : c = call[p]
    OBVIOUS
  <2>3. ASSUME NEW q \in Procs, Sleeps(q)'
        PROVE  \/ MustWait(q)'
               \/ /\ Sleeps(q) /\ call'[q] = call[q]
                  /\ \A l \in Lists : Contains(waitList[l], q) => Contains(waitList'[l], q)
    <3>1. \/ q = p /\ call'[p] = c /\ Contains(waitList'["write"], p)
          \/ /\ q # p /\ Sleeps(q) /\ call'[q] = call[q]
             /\ \A k \in Lists : Contains(waitList[k], q) => Contains(waitList'[k], q)
      BY <1>1, <2>1, <2>2, <2>3, AnswerSleeps
    <3>2. CASE q = p
      <4>1. ~Return(p)
        BY <1>1, <2>3, <3>2 DEF Return, Sleeps
      <4>2. WriteBlocks'
        BY <2>1, <4>1 DEF WriteBlocks, Room, InPipe, pipeVars
      <4>3. QED
        BY <1>1, <2>2, <3>1, <3>2, <4>2 DEF MustWait
    <3>3. QED
      BY <3>1, <3>2
  <2>4. QED
    BY <1>1, <2>1, <2>3, SleepFrame
<1>3. CASE "READER_GONE" \notin pipeFlags /\ Room # 0
  <2>1. call[p].len \in Nat /\ Room \in Nat
    BY <1>1, CallFields, PipeAssumption DEF TypeOK, NoCall, Room
  <2>2. PICK n : n = IF Room > call[p].len THEN call[p].len ELSE Room
    OBVIOUS
  <2>3. PICK m \in BOOLEAN : m = (call[p].len > n)
    <3>1. (call[p].len > n) \in BOOLEAN
      <4>1. CASE call[p].len > n
        BY <4>1
      <4>2. CASE ~(call[p].len > n)
        BY <4>2
      <4>3. QED
        BY <4>1, <4>2
    <3>2. QED
      BY <3>1, Zenon
  <2>4. n \in Nat
    BY <2>1, <2>2
  <2>5. PipeNotifying(p, [by |-> p, kind |-> "write", n |-> n, list |-> "read", more |-> m])
    BY <1>3, <2>2, <2>3 DEF TryWrite, Fsio_PipeWrite, WriteBlocks
  <2>6. PICK o \in PipeOps :
           o = [by |-> p, kind |-> "write", n |-> n, list |-> "read", more |-> m]
    BY <2>3, <2>4 DEF PipeOps
  <2>7. /\ pipeOp' = o /\ Notifies("read")' /\ UNCHANGED <<call, complete, waitList, lost>>
        /\ pc' = IF p \in Procs THEN [pc EXCEPT ![p] = "serve"] ELSE pc
    BY <2>5, <2>6, BegunNotifies
  <2>8. WriteHasReaders'
    BY <1>1, <1>3 DEF WriteHasReaders
  <2>9. ~WriteBlocks /\ ~Notifies("write")
    BY <1>1, <1>3 DEF WriteBlocks, Notifies
  <2>10. \A q \in Procs : Sleeps(q)' =>
             /\ Sleeps(q) /\ call'[q] = call[q]
             /\ \A l \in Lists : Contains(waitList[l], q) => Contains(waitList'[l], q)
    BY <1>1, <2>7, BegunSleeps
  <2>11. QED
    BY <1>1, <2>7, <2>8, <2>9, <2>10, SleepPipeStep
<1>4. QED
  BY <1>2, <1>3

\* PipeCloseInt notifies the list of those who have to see the flag that it sets.
LEMMA CloseIntSleepInv ==
    ASSUME PipeInv, SleepInv, NEW by \in Procs \cup {Recov}, NEW r, NEW w,
           PipeCloseInt(by, r, w), pipeOp = NoOp, UNCHANGED <<firstByte, lastByte>>,
           UNCHANGED lockVars
    PROVE  SleepInv'
<1>1. PICK l \in {"read", "write", "none"} :
         /\ PipeNotifying(by, [by |-> by, kind |-> "close", n |-> 0, list |-> l])
         /\ pipeFlags' = pipeFlags \cup (IF l = "read" THEN {"WRITER_GONE"}
                                         ELSE IF l = "write" THEN {"READER_GONE"} ELSE {})
  <2>1. PICK flag \in {{"WRITER_GONE"}, {"READER_GONE"}, {}} :
           /\ pipeFlags' = pipeFlags \cup flag
           /\ PipeNotifying(by, [by |-> by, kind |-> "close", n |-> 0,
                                 list |-> IF flag = {"WRITER_GONE"} THEN "read"
                                          ELSE IF flag = {"READER_GONE"} THEN "write"
                                          ELSE "none"])
    BY DEF PipeCloseInt
  <2>2. {"WRITER_GONE"} # {"READER_GONE"} /\ {} # {"WRITER_GONE"} /\ {} # {"READER_GONE"}
    OBVIOUS
  <2>3. CASE flag = {"WRITER_GONE"}
    <3>1. PipeNotifying(by, [by |-> by, kind |-> "close", n |-> 0, list |-> "read"])
      BY <2>1, <2>3
    <3>2. QED
      BY <2>1, <2>3, <3>1
  <2>4. CASE flag = {"READER_GONE"}
    <3>1. PipeNotifying(by, [by |-> by, kind |-> "close", n |-> 0, list |-> "write"])
      BY <2>1, <2>2, <2>4
    <3>2. QED
      BY <2>1, <2>4, <3>1
  <2>5. CASE flag = {}
    <3>1. PipeNotifying(by, [by |-> by, kind |-> "close", n |-> 0, list |-> "none"])
      BY <2>1, <2>2, <2>5
    <3>2. QED
      BY <2>1, <2>5, <3>1
  <2>6. QED
    BY <2>3, <2>4, <2>5
<1>2. PICK o \in PipeOps : o = [by |-> by, kind |-> "close", n |-> 0, list |-> l]
  BY DEF PipeOps
<1>3. /\ pipeOp' = o /\ Notifies(l)' /\ UNCHANGED <<call, complete, waitList, lost>>
      /\ pc' = IF by \in Procs THEN [pc EXCEPT ![by] = "serve"] ELSE pc
  BY <1>1, <1>2, BegunNotifies
<1>4. WriteHasReaders'
  BY <1>2, <1>3 DEF WriteHasReaders
<1>5. ReadBlocks \/ Notifies("read") => (ReadBlocks \/ Notifies("read"))'
  <2>1. CASE l = "read"
    BY <1>3, <2>1
  <2>2. CASE l # "read"
    BY <1>1, <2>2 DEF ReadBlocks, Notifies
  <2>3. QED
    BY <2>1, <2>2
<1>6. WriteBlocks \/ Notifies("write") => (WriteBlocks \/ Notifies("write"))'
  <2>1. CASE l = "write"
    BY <1>3, <2>1
  <2>2. CASE l # "write"
    BY <1>1, <2>2 DEF WriteBlocks, Room, InPipe, Notifies
  <2>3. QED
    BY <2>1, <2>2
<1>7. \A q \in Procs : Sleeps(q)' =>
             /\ Sleeps(q) /\ call'[q] = call[q]
             /\ \A k \in Lists : Contains(waitList[k], q) => Contains(waitList'[k], q)
  BY <1>3, BegunSleeps DEF PipeInv
<1>8. QED
  BY <1>4, <1>5, <1>6, <1>7, SleepPipeStep

\* Fsio_PipeClose and Fsio_PipeClientKill.
LEMMA CloseSleepInv ==
    ASSUME PipeInv, SleepInv,
           (\E p \in Procs : TryClose(p)) \/ (\E h \in Hosts : KillPipe(h))
    PROVE  SleepInv'
<1>1. \E by \in Procs \cup {Recov} : \E r, w : PipeCloseInt(by, r, w)
  BY Zenon DEF TryClose, KillPipe, Fsio_PipeClose, Fsio_PipeClientKill
<1>2. pipeOp = NoOp /\ UNCHANGED <<firstByte, lastByte>> /\ UNCHANGED lockVars
  BY Zenon DEF TryClose, KillPipe, Fsio_PipeClose, Fsio_PipeClientKill
<1>3. QED
  BY <1>1, <1>2, CloseIntSleepInv

\* The notification loop of the pipe.
LEMMA PipeNotifySleepInv ==
    ASSUME PipeInv, SleepInv, PipeNotify, UNCHANGED lockVars
    PROVE  SleepInv'
<1>1. PICK l \in Lists : l = pipeOp.list
  BY DEF PipeNotify
<1>2. QED
  BY <1>1, NotifySleepInv DEF PipeNotify


\* Fsio_PipeRead after its notification loop: the list of the writers is empty, and
\* no reader sleeps, for the pipe was not empty.
LEMMA ReadDoneSleepInv ==
    ASSUME PipeInv, SleepInv, PipeReadDone, UNCHANGED lockVars
    PROVE  SleepInv'
<1>1. /\ TypeOK /\ OpFits /\ pipeOp \in PipeOps /\ pipeOp.kind = "read" /\ pipeOp' = NoOp
      /\ waitList["write"] = <<>> /\ UNCHANGED <<complete, waitList, lost>>
  BY DEF PipeInv, TypeOK, PipeTypeOK, PipeReadDone
<1>2. PICK p : p = pipeOp.by
  OBVIOUS
<1>3. ~ReadBlocks /\ ~Notifies("read")
  BY <1>1, PipeOpFields DEF OpFits, ReadBlocks, Notifies
<1>4. WriteHasReaders'
  BY <1>1 DEF WriteHasReaders
<1>5. p \in Procs
  BY <1>1, <1>2, PipeOpFields
<1>6. Return(p) \/ UNCHANGED <<pc, call, sigs>>
  BY <1>2 DEF PipeReadDone
<1>7. \A q \in Procs : Sleeps(q)' => Sleeps(q) /\ call'[q] = call[q]
  BY <1>1, <1>5, <1>6 DEF Return, Sleeps, TypeOK, WaitTypeOK
<1>8. QED
  BY <1>1, <1>3, <1>4, <1>7, SleepPipeStep

\* Fsio_PipeWrite after its notification loop: the list of the readers is empty, and
\* a write waits for the rest only if it has filled the pipe.
LEMMA WriteDoneSleepInv ==
    ASSUME PipeInv, NoOverflow, SleepInv, PipeWriteDone, UNCHANGED lockVars
    PROVE  SleepInv'
<1>1. /\ TypeOK /\ OpFits /\ pipeOp \in PipeOps /\ pipeOp.kind = "write" /\ pipeOp' = NoOp
      /\ waitList["read"] = <<>> /\ UNCHANGED <<complete, lost, pipeFlags>>
      /\ pipeOp # NoOp /\ "READER_GONE" \notin pipeFlags /\ "write" \in Lists
      /\ waitList \in [Lists -> Seq(Procs)] /\ pc \in [Procs -> ProcStates]
  BY StreamAssumption, NoOpAssumption
     DEF PipeInv, SleepInv, WriteHasReaders, TypeOK, WaitTypeOK, PipeTypeOK, PipeWriteDone
<1>2. PICK p \in Procs : p = pipeOp.by
  BY <1>1, PipeOpFields
<1>3. PICK n \in Nat : n = pipeOp.n
  BY <1>1, PipeOpFields
<1>4. /\ InPipe' = InPipe + n /\ InPipe \in 0 .. BlockSize /\ BlockSize \in Nat
      /\ Room = BlockSize - InPipe /\ Room' = BlockSize - InPipe'
      /\ n <= Room /\ (pipeOp.more => n = Room)
  BY <1>1, <1>3, RingAfterWrite, PipeAssumption DEF OpFits, TypeOK, Room
<1>5. WriteHasReaders'
  BY <1>1 DEF WriteHasReaders
<1>6. WriteBlocks \/ Notifies("write") => (WriteBlocks \/ Notifies("write"))'
  BY <1>1, <1>4, PipeOpFields DEF WriteBlocks, Notifies
<1>7. pipeOp.more => WriteBlocks'
  BY <1>1, <1>4 DEF WriteBlocks
<1>8. ASSUME NEW q \in Procs, Sleeps(q)'
      PROVE  \/ MustWait(q)'
             \/ /\ Sleeps(q) /\ call'[q] = call[q]
                /\ \A l \in Lists : Contains(waitList[l], q) => Contains(waitList'[l], q)
  <2>1. CASE pc[p] = "serve"
    <3>1. PICK c : c = Rest(p)
      OBVIOUS
    <3>2. \/ pipeOp.more /\ WouldBlock("write", p, c)
          \/ ~pipeOp.more /\ Return(p) /\ UNCHANGED waitList
      BY <1>2, <2>1, <3>1 DEF PipeWriteDone
    <3>3. \/ /\ q = p /\ call'[p] = c /\ Contains(waitList'["write"], p)
             /\ WouldBlock("write", p, c)
          \/ /\ q # p /\ Sleeps(q) /\ call'[q] = call[q]
             /\ \A k \in Lists : Contains(waitList[k], q) => Contains(waitList'[k], q)
      BY <1>1, <1>8, <3>2, AnswerSleeps
    <3>4. CASE q = p
      <4>1. ~Return(p)
        BY <1>1, <1>8, <3>4 DEF Return, Sleeps
      <4>2. WriteBlocks' /\ call'[p].kind = "write"
        BY <1>7, <3>1, <3>2, <3>3, <3>4, <4>1 DEF Rest
      <4>3. QED
        BY <3>3, <3>4, <4>2 DEF MustWait
    <3>5. QED
      BY <3>3, <3>4
  <2>2. CASE pc[p] # "serve"
    <3>1. /\ UNCHANGED <<pc, call, sigs>>
          /\ UNCHANGED waitList \/ Fsutil_FastWaitListInsert("write", p)
      BY <1>2, <2>2 DEF PipeWriteDone
    <3>2. \A l \in Lists : Contains(waitList[l], q) => Contains(waitList'[l], q)
      BY <1>1, <3>1, InsertContains
    <3>3. QED
      BY <1>1, <1>8, <3>1, <3>2 DEF Sleeps
  <2>3. QED
    BY <2>1, <2>2
<1>9. QED
  BY <1>1, <1>5, <1>6, <1>8, SleepPipeStep

\* The end of PipeCloseInt: when both ends are gone nobody sleeps on the pipe, and
\* its lists can be dropped.
LEMMA CloseDoneSleepInv ==
    ASSUME PipeInv, SleepInv, PipeCloseDone, UNCHANGED lockVars
    PROVE  SleepInv'
<1>1. /\ TypeOK /\ pipeOp \in PipeOps /\ pipeOp.kind = "close" /\ pipeOp' = NoOp
      /\ UNCHANGED <<complete, lost, pipeFlags, firstByte, lastByte>>
      /\ waitList \in [Lists -> Seq(Procs)] /\ Lists = {"lock", "read", "write"}
      /\ pipeOp.list \in Lists => waitList[pipeOp.list] = <<>>
      /\ pc \in [Procs -> ProcStates] /\ call \in [Procs -> Calls \cup {NoCall}]
  BY StreamAssumption DEF PipeInv, TypeOK, PipeTypeOK, WaitTypeOK, PipeCloseDone
<1>2. PICK p : p = pipeOp.by
  OBVIOUS
<1>3. (p \in Procs /\ Return(p)) \/ UNCHANGED <<pc, call, sigs>>
  BY <1>2 DEF PipeCloseDone
<1>4. \A q \in Procs : Sleeps(q)' => Sleeps(q) /\ call'[q] = call[q]
  BY <1>1, <1>3 DEF Return, Sleeps
<1>5. WriteHasReaders'
  BY <1>1 DEF WriteHasReaders
<1>6. /\ Notifies("read") => waitList["read"] = <<>>
      /\ Notifies("write") => waitList["write"] = <<>>
  BY <1>1 DEF Notifies
<1>7. /\ ReadBlocks' <=> ReadBlocks
      /\ WriteBlocks' <=> WriteBlocks
  BY <1>1 DEF ReadBlocks, WriteBlocks, Room, InPipe
<1>8. CASE pipeFlags = {"WRITER_GONE", "READER_GONE"}
  <2>1. waitList' = [waitList EXCEPT !["read"] = <<>>, !["write"] = <<>>]
    BY <1>8 DEF PipeCloseDone
  <2>2. waitList'["lock"] = waitList["lock"]
    BY <1>1, <2>1
  <2>3. ~ReadBlocks /\ ~WriteBlocks
    BY <1>8 DEF ReadBlocks, WriteBlocks
  <2>4. ASSUME NEW q \in Procs, Sleeps(q)'
        PROVE  MustWait(q)'
    <3>1. Sleeps(q) /\ call'[q] = call[q] /\ MustWait(q)
      BY <1>4, <2>4 DEF SleepInv
    <3>2. /\ call[q].kind = "lock" /\ Contains(waitList["lock"], q)
          /\ LockBlocks(call[q].mode) \/ fileBy # Nobody
      BY <1>6, <2>3, <3>1, NotEmpty DEF MustWait
    <3>3. LockBlocks(call[q].mode)' \/ (fileBy # Nobody)'
      BY <3>1, <3>2 DEF LockBlocks, lockVars
    <3>4. QED
      BY <2>2, <3>1, <3>2, <3>3 DEF MustWait
  <2>5. QED
    BY <1>5, <2>4 DEF SleepInv
<1>9. CASE pipeFlags # {"WRITER_GONE", "READER_GONE"}
  <2>1. UNCHANGED waitList
    BY <1>9 DEF PipeCloseDone
  <2>2. QED
    BY <1>4, <1>5, <1>6, <1>7, <2>1, SleepPipeStep
<1>10. QED
  BY <1>8, <1>9

\* Every step keeps SleepInv.
LEMMA NextSleepInv ==
    ASSUME PipeInv, NoOverflow, ReadSelects, SleepInv, [Next]_vars
    PROVE  SleepInv'
<1>1. CASE UNCHANGED vars
  BY <1>1, SleepFrame DEF vars, waitVars, Sleeps
<1>2. ASSUME NEW p \in Procs,
             \/ EnterLock(p) \/ EnterUnlock(p) \/ EnterLockClose(p)
             \/ EnterRead(p) \/ EnterWrite(p) \/ EnterSelect(p) \/ EnterClose(p)
      PROVE  SleepInv'
  BY <1>2, EnterSleepInv
<1>3. ASSUME NEW p \in Procs, Kernel(p) \/ Sig_Send(p)
      PROVE  SleepInv'
  BY <1>3, LockTrySleepInv, ReadSleepInv, WriteSleepInv, SelectSleepInv, CloseSleepInv,
     WaitSleepInv DEF Kernel, Try
<1>4. CASE LockLoop
  BY <1>4, LockLoopSleepInv
<1>5. CASE PipeLoop
  BY <1>5, PipeNotifySleepInv, ReadDoneSleepInv, WriteDoneSleepInv, CloseDoneSleepInv
     DEF PipeLoop
<1>6. ASSUME NEW h \in Hosts, Crash(h) \/ KillFile(h) \/ KillPipe(h)
      PROVE  SleepInv'
  BY <1>6, CrashSleepInv, KillFileSleepInv, CloseSleepInv
<1>7. QED
  BY <1>1, <1>2, <1>3, <1>4, <1>5, <1>6 DEF Next

\* No wakeup is lost in the kernel (Fsutil_FastWaitListInsert, Sync_ProcWait,
\* ProcessWakeup and the notification loops of fsioLock.c and fsioPipe.c): a process
\* that sleeps, or is about to, and was not notified is on the wait list of its
\* object, and what it waits for has not happened.
THEOREM NoWakeupLost ==
    ASSUME NoOverflow, ReadSelects
    PROVE  Spec => []SleeperMustWait
<1>1. Init => SleepInv
  BY DEF Init, WaitInit, PipeInit, SleepInv, WriteHasReaders, Sleeps
<1>2. PipeInv /\ SleepInv /\ [Next]_vars => SleepInv'
  BY NextSleepInv
<1>3. PipeInv /\ SleepInv => SleeperMustWait
  <2> SUFFICES ASSUME PipeInv, SleepInv, NEW p \in Procs, Sleeps(p), Quiet(WaitsOn(p))
               PROVE  Contains(waitList[WaitsOn(p)], p) /\ Blocks(p)
    BY DEF SleeperMustWait, Sleeps
  <2>1. MustWait(p) /\ call[p] \in Calls \cup {NoCall}
    BY DEF SleepInv, PipeInv, TypeOK
  <2>2. ASSUME call[p].kind = "select" PROVE call[p].dir = "READ"
    <3>1. call[p] \in Calls
      BY <2>1, <2>2 DEF NoCall
    <3>2. call[p].dir \in Selects
      BY <2>2, <3>1, CallFields
    <3>3. QED
      BY <3>2 DEF ReadSelects
  <2>3. CASE call[p].kind = "lock"
    BY <2>1, <2>3 DEF MustWait, WaitsOn, Blocks, Quiet
  <2>4. CASE call[p].kind = "read"
    BY <2>1, <2>4 DEF MustWait, WaitsOn, Blocks, Quiet, Notifies
  <2>5. CASE call[p].kind = "select"
    BY <2>1, <2>2, <2>5 DEF MustWait, WaitsOn, Blocks, Quiet, Notifies
  <2>6. CASE call[p].kind = "write"
    BY <2>1, <2>6 DEF MustWait, WaitsOn, Blocks, Quiet, Notifies
  <2>7. QED
    BY <2>1, <2>3, <2>4, <2>5, <2>6 DEF MustWait
<1>4. QED
  BY <1>1, <1>2, <1>3, PipeInvariant, PTL DEF Spec
=============================================================================
