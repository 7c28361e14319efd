----------------------------- MODULE FsLockProofs -----------------------------
(***************************************************************************)
(* Proofs about the advisory locks of FsStream, for any number of hosts    *)
(* and processes, any mix of lock, unlock, close, pipe operations, signals *)
(* and crashes, and processes that are disciplined.                        *)
(***************************************************************************)
EXTENDS FsStream, SequenceTheorems, FiniteSetTheorems, TLAPS

Owners == [proc: Procs, flags: LockFlags]

\* The calls that can answer FS_WOULD_BLOCK.
WaitKinds == {"lock", "read", "write", "select"}

\* The types that the argument needs.
LockTypes ==
    /\ pc \in [Procs -> ProcStates]
    /\ call = [p \in Procs |-> call[p]]
    /\ lockFlags \subseteq LockFlags
    /\ numShared \in Int
    /\ ownerList \in Seq(Owners)
    /\ fileKill \subseteq down

\* lockPtr->flags and lockPtr->numShared are what the owner list says.
FlagsAgree == lockFlags = {ownerList[i].flags : i \in DOMAIN ownerList}
SharedCounted == numShared = IF "SHARED" \in lockFlags THEN Len(ownerList) ELSE 0

\* A process owns one lock at a time.
OwnsOnce ==
    \A i, j \in DOMAIN ownerList : ownerList[i].proc = ownerList[j].proc => i = j

\* An owner whose host is down has an exclusive lock, and the clean-up of its
\* host is still to come.
DeadOwners ==
    \A i \in DOMAIN ownerList :
        HostOf[ownerList[i].proc] \in down =>
            HostOf[ownerList[i].proc] \in fileKill /\ ownerList[i].flags = "EXCLUSIVE"

\* A call that may wait is made by a process that owns nothing; the lock that an
\* unlock or a close is about to release is still the caller's.
CallHolds(p) ==
    /\ HostOf[p] \in down => pc[p] = "gone"
    /\ call[p].kind \in WaitKinds => OwnedBy(p) = {}
    /\ call[p].kind = "lock" => call[p].mode \in LockFlags
    /\ pc[p] \in {"block", "asleep", "woken"} => call[p].kind \in WaitKinds
    /\ pc[p] = "try" /\ call[p].kind = "unlock" => Holds(p, call[p].mode)
    /\ pc[p] = "try" /\ call[p].kind = "lockclose" => Holds(p, "EXCLUSIVE")

\* Who is in a notification loop, and in which call.
Serves(p) ==
    /\ fileBy = p => \/ pc[p] = "gone"
                     \/ pc[p] = "serve" /\ call[p].kind \in {"unlock", "lockclose"}
    /\ pipeOp # NoOp /\ pipeOp.by = p =>
          \/ pc[p] = "gone"
          \/ /\ pc[p] = "serve" /\ call[p].kind = pipeOp.kind
             /\ call[p].kind \in {"read", "write", "close"}

CallsAgree == \A p \in Procs : CallHolds(p) /\ Serves(p)

LockInv ==
    /\ LockTypes /\ FlagsAgree /\ SharedCounted /\ OwnsOnce
    /\ LockExclusion /\ DeadOwners /\ CallsAgree
-----------------------------------------------------------------------------
\* The owner list without its i-th entry, as List_Remove leaves it.
LEMMA RemoveAtProperties ==
    ASSUME NEW S, NEW s \in Seq(S), NEW i \in 1 .. Len(s)
    PROVE  /\ RemoveAt(s, i) \in Seq(S)
           /\ Len(RemoveAt(s, i)) = Len(s) - 1
           /\ \A j \in 1 .. Len(s) - 1 :
                 RemoveAt(s, i)[j] = IF j < i THEN s[j] ELSE s[j + 1]
<1> DEFINE left == SubSeq(s, 1, i - 1)
           right == SubSeq(s, i + 1, Len(s))
<1>1. Len(s) \in Nat /\ \A j \in 1 .. Len(s) : s[j] \in S
  BY LenProperties, ElementOfSeq
<1>2. /\ left \in Seq(S) /\ Len(left) = i - 1
      /\ \A j \in 1 .. i - 1 : left[j] = s[j]
  BY <1>1, SubSeqProperties
<1>3. /\ right \in Seq(S) /\ Len(right) = Len(s) - i
      /\ \A j \in 1 .. Len(s) - i : right[j] = s[i + j]
  <2>1. \A j \in i + 1 .. Len(s) : s[j] \in S
    BY <1>1
  <2>2. /\ right \in Seq(S)
        /\ Len(right) = IF i + 1 <= Len(s) THEN Len(s) - (i + 1) + 1 ELSE 0
        /\ \A j \in 1 .. Len(s) - (i + 1) + 1 : right[j] = s[i + 1 + j - 1]
    BY <1>1, <2>1, SubSeqProperties
  <2>3. QED
    BY <1>1, <2>2
<1>4. RemoveAt(s, i) = left \o right
  BY DEF RemoveAt
<1> HIDE DEF left, right
<1>5. /\ left \o right \in Seq(S) /\ Len(left \o right) = Len(left) + Len(right)
      /\ \A j \in 1 .. Len(left) + Len(right) :
            (left \o right)[j] = IF j <= Len(left) THEN left[j] ELSE right[j - Len(left)]
  BY <1>2, <1>3, ConcatProperties
<1>6. ASSUME NEW j \in 1 .. Len(s) - 1
      PROVE  (left \o right)[j] = IF j < i THEN s[j] ELSE s[j + 1]
  <2>1. CASE j < i
    <3>1. j \in 1 .. i - 1 /\ j \in 1 .. Len(left) + Len(right) /\ j <= Len(left)
      BY <1>1, <1>2, <1>3, <2>1
    <3>2. QED
      BY <1>2, <1>5, <2>1, <3>1
  <2>2. CASE ~(j < i)
    <3>1. j - (i - 1) \in 1 .. Len(s) - i /\ i + (j - (i - 1)) = j + 1
      BY <1>1, <2>2
    <3>2. (left \o right)[j] = right[j - (i - 1)]
      BY <1>1, <1>2, <1>3, <1>5, <2>2
    <3>3. QED
      BY <1>1, <1>3, <2>2, <3>1, <3>2
  <2>3. QED
    BY <1>1, <2>1, <2>2
<1>7. QED
  BY <1>1, <1>2, <1>3, <1>4, <1>5, <1>6

\* A step that leaves the lock itself alone and moves one actor q keeps the
\* invariant if it keeps what the invariant says about q.
LEMMA CallStep ==
    ASSUME LockInv, UNCHANGED <<lockFlags, numShared, ownerList, down, fileKill>>,
           NEW q,
           pc' \in [Procs -> ProcStates], call' = [p \in Procs |-> call'[p]],
           \A p \in Procs \ {q} : pc'[p] = pc[p] /\ call'[p] = call[p],
           fileBy' \in {fileBy, Nobody, q},
           pipeOp' \in {pipeOp, NoOp} \/ pipeOp'.by = q,
           q \in Procs => (CallHolds(q) /\ Serves(q))'
    PROVE  LockInv'
<1>1. (LockTypes /\ FlagsAgree /\ SharedCounted /\ OwnsOnce /\ LockExclusion /\ DeadOwners)'
  BY DEF LockInv, LockTypes, FlagsAgree, SharedCounted, OwnsOnce, LockExclusion, DeadOwners
<1>2. \A p \in Procs : OwnedBy(p)' = OwnedBy(p) /\ \A m : Holds(p, m)' = Holds(p, m)
  BY DEF OwnedBy, Holds
<1>3. ASSUME NEW p \in Procs, p # q PROVE CallHolds(p)' /\ Serves(p)'
  <2>1. pc'[p] = pc[p] /\ call'[p] = call[p] /\ CallHolds(p) /\ Serves(p)
    BY <1>3 DEF LockInv, CallsAgree
  <2>2. CallHolds(p)'
    BY <1>2, <2>1 DEF CallHolds
  <2>3. Serves(p)'
    BY <1>3, <2>1, LockAssumption DEF Serves
  <2>4. QED
    BY <2>2, <2>3
<1>4. QED
  BY <1>1, <1>3 DEF LockInv, CallsAgree

\* OwnedBy and Holds depend on the owner list alone.
LEMMA SameOwners ==
    ASSUME UNCHANGED ownerList
    PROVE  \A p : OwnedBy(p)' = OwnedBy(p) /\ \A m : Holds(p, m)' = Holds(p, m)
BY DEF OwnedBy, Holds

\* A process that owns something owns an exclusive lock or a shared one.
LEMMA OwnerHolds ==
    ASSUME LockTypes, NEW p \in Procs, OwnedBy(p) # {}, ~Holds(p, "SHARED")
    PROVE  Holds(p, "EXCLUSIVE")
<1>1. PICK i \in DOMAIN ownerList : i \in OwnedBy(p)
  BY DEF OwnedBy
<1>2. ownerList[i].flags \in LockFlags
  <2>1. ownerList \in Seq(Owners)
    BY DEF LockTypes
  <2>2. ownerList[i] \in Owners
    BY <2>1, ElementOfSeq, LenProperties
  <2>3. QED
    BY <2>2 DEF Owners
<1>3. QED
  BY <1>1, <1>2 DEF Holds, LockFlags

\* A disciplined process makes a system call.
LEMMA EnterPreserves ==
    ASSUME LockInv, Disciplined, NEW p \in Procs,
           \/ EnterLock(p) \/ EnterUnlock(p) \/ EnterLockClose(p)
           \/ EnterRead(p) \/ EnterWrite(p) \/ EnterSelect(p) \/ EnterClose(p)
    PROVE  LockInv'
<1>1. PICK c : /\ Enter(p, c)
               /\ \/ /\ c.kind \in WaitKinds /\ OwnedBy(p) = {}
                     /\ c.kind = "lock" => c.mode \in LockFlags
                  \/ c.kind = "unlock" /\ Holds(p, c.mode)
                  \/ c.kind = "lockclose" /\ Holds(p, "EXCLUSIVE")
                  \/ c.kind = "close"
  <2>1. CASE EnterLock(p)
    BY <2>1, StreamAssumption DEF EnterLock, MayWait, WaitKinds
  <2>2. CASE EnterUnlock(p)
    BY <2>2 DEF EnterUnlock, MayUnlock
  <2>3. CASE EnterLockClose(p)
    BY <2>3, OwnerHolds DEF EnterLockClose, MayClose, LockInv
  <2>4. CASE EnterRead(p)
    BY <2>4 DEF EnterRead, MayWait, WaitKinds
  <2>5. CASE EnterWrite(p)
    BY <2>5 DEF EnterWrite, MayWait, WaitKinds
  <2>6. CASE EnterSelect(p)
    BY <2>6 DEF EnterSelect, MayWait, WaitKinds
  <2>7. CASE EnterClose(p)
    BY <2>7 DEF EnterClose
  <2>8. QED
    BY <2>1, <2>2, <2>3, <2>4, <2>5, <2>6, <2>7
<1>2. /\ pc[p] = "user" /\ pc' = [pc EXCEPT ![p] = "try"] /\ call' = [call EXCEPT ![p] = c]
      /\ UNCHANGED <<lockFlags, numShared, ownerList, down, fileKill, fileBy, pipeOp>>
  BY <1>1 DEF Enter, lockVars, pipeVars
<1>3. LockTypes /\ CallHolds(p) /\ Serves(p)
  BY DEF LockInv, CallsAgree
<1>4. /\ pc' \in [Procs -> ProcStates] /\ call' = [q \in Procs |-> call'[q]]
      /\ \A q \in Procs \ {p} : pc'[q] = pc[q] /\ call'[q] = call[q]
      /\ pc'[p] = "try" /\ call'[p] = c
  BY <1>2, <1>3 DEF LockTypes, ProcStates
<1>5. CallHolds(p)' /\ Serves(p)'
  BY <1>1, <1>2, <1>3, <1>4, SameOwners DEF CallHolds, Serves, WaitKinds
<1>6. QED
  BY <1>2, <1>4, <1>5, CallStep

\* A waiter is notified: it may turn from asleep to woken.
LEMMA NotifyPreserves ==
    ASSUME LockInv, NEW l, NotifyFirst(l),
           UNCHANGED <<lockFlags, numShared, ownerList, fileBy, pipeOp, down, fileKill>>
    PROVE  LockInv'
<1>1. PICK q : /\ UNCHANGED call
               /\ \/ UNCHANGED pc
                  \/ pc' = [pc EXCEPT ![q] = IF @ = "asleep" THEN "woken" ELSE @]
  BY DEF NotifyFirst, ProcessWakeup
<1>2. LockTypes /\ CallsAgree
  BY DEF LockInv
<1>3. /\ pc' \in [Procs -> ProcStates] /\ call' = [p \in Procs |-> call'[p]]
      /\ \A p \in Procs \ {q} : pc'[p] = pc[p] /\ call'[p] = call[p]
      /\ q \in Procs => \/ pc'[q] = pc[q]
                        \/ pc[q] = "asleep" /\ pc'[q] = "woken"
  BY <1>1, <1>2 DEF LockTypes, ProcStates
<1>4. q \in Procs => CallHolds(q)' /\ Serves(q)'
  BY <1>1, <1>2, <1>3, SameOwners, ZenonT(60) DEF CallsAgree, CallHolds, Serves
<1>5. QED
  BY <1>3, <1>4, CallStep

\* Sync_ProcWait, and a signal.
LEMMA WaitPreserves ==
    ASSUME LockInv, NEW p \in Procs, Wait(p) \/ Sig_Send(p)
    PROVE  LockInv'
<1>1. /\ UNCHANGED <<lockFlags, numShared, ownerList, fileBy, pipeOp, down, fileKill>>
      /\ \/ UNCHANGED <<pc, call>>
         \/ /\ UNCHANGED call
            /\ pc[p] \in {"block", "asleep", "woken"}
            /\ \E x \in {"asleep", "woken", "try"} : pc' = [pc EXCEPT ![p] = x]
         \/ pc[p] \in {"block", "woken"} /\ Return(p)
  <2>1. CASE Sig_Send(p)
    BY <2>1 DEF Sig_Send, Signal, ProcessWakeup, lockVars, pipeVars, streamVars
  <2>2. CASE Wait(p)
    BY <2>2 DEF Wait, Sync_ProcWait, ProcWaitDone, Return, lockVars, pipeVars, streamVars
  <2>3. QED
    BY <2>1, <2>2
<1>2. LockTypes /\ CallHolds(p) /\ Serves(p)
  BY DEF LockInv, CallsAgree
<1>3. /\ pc' \in [Procs -> ProcStates] /\ call' = [q \in Procs |-> call'[q]]
      /\ \A q \in Procs \ {p} : pc'[q] = pc[q] /\ call'[q] = call[q]
      /\ \/ pc'[p] = pc[p] /\ call'[p] = call[p]
         \/ /\ call'[p] = call[p] /\ pc[p] \in {"block", "asleep", "woken"}
            /\ pc'[p] \in {"asleep", "woken", "try"}
         \/ pc[p] \in {"block", "woken"} /\ pc'[p] = "user" /\ call'[p] = NoCall
  BY <1>1, <1>2 DEF LockTypes, ProcStates, Return
<1>4. CallHolds(p)' /\ Serves(p)'
  BY <1>1, <1>2, <1>3, SameOwners DEF CallHolds, Serves, WaitKinds, NoCall
<1>5. QED
  BY <1>1, <1>3, <1>4, CallStep

\* An operation on the pipe returns, waits, or goes into its notification loop.
LEMMA PipeTryPreserves ==
    ASSUME LockInv, NEW p \in Procs,
           TryRead(p) \/ TryWrite(p) \/ TrySelect(p) \/ TryClose(p)
    PROVE  LockInv'
<1>1. /\ UNCHANGED <<lockFlags, numShared, ownerList, fileBy, down, fileKill>>
      /\ pc[p] = "try" /\ pipeOp = NoOp
      /\ \/ Return(p) /\ UNCHANGED pipeOp
         \/ /\ call[p].kind \in WaitKinds /\ UNCHANGED <<call, pipeOp>>
            /\ pc' = [pc EXCEPT ![p] = "block"]
         \/ /\ pipeOp'.by = p /\ call[p].kind = pipeOp'.kind
            /\ call[p].kind \in {"read", "write", "close"}
            /\ UNCHANGED call /\ pc' = [pc EXCEPT ![p] = "serve"]
  <2> USE DEF lockVars, streamVars, pipeVars, WaitKinds
  <2>1. call = [call EXCEPT ![p] = call[p]]
    BY DEF LockInv, LockTypes
  <2>2. CASE TryRead(p)
    <3>1. /\ pc[p] = "try" /\ pipeOp = NoOp /\ call[p].kind = "read"
          /\ UNCHANGED <<lockFlags, numShared, ownerList, fileBy, down, fileKill>>
          /\ \/ WouldBlock("read", p, call[p]) /\ UNCHANGED pipeOp
             \/ Return(p) /\ UNCHANGED pipeOp
             \/ \E n : PipeNotifying(p, [by |-> p, kind |-> "read", n |-> n, list |-> "write"])
      BY <2>2, Zenon DEF TryRead, Fsio_PipeRead
    <3>2. QED
      BY <2>1, <3>1 DEF WouldBlock, PipeNotifying
  <2>3. CASE TryWrite(p)
    BY <2>1, <2>3 DEF TryWrite, Fsio_PipeWrite, WouldBlock, PipeNotifying
  <2>4. CASE TrySelect(p)
    BY <2>1, <2>4 DEF TrySelect, Fsio_PipeSelect, WouldBlock
  <2>5. CASE TryClose(p)
    BY <2>1, <2>5 DEF TryClose, Fsio_PipeClose, PipeCloseInt, PipeNotifying
  <2>6. QED
    BY <2>2, <2>3, <2>4, <2>5
<1>2. LockTypes /\ CallHolds(p) /\ Serves(p)
  BY DEF LockInv, CallsAgree
<1>3. /\ pc' \in [Procs -> ProcStates] /\ call' = [q \in Procs |-> call'[q]]
      /\ \A q \in Procs \ {p} : pc'[q] = pc[q] /\ call'[q] = call[q]
      /\ \/ pc'[p] = "user" /\ call'[p] = NoCall /\ pipeOp' = NoOp
         \/ pc'[p] = "block" /\ call'[p] = call[p] /\ call[p].kind \in WaitKinds /\ pipeOp' = NoOp
         \/ /\ pc'[p] = "serve" /\ call'[p] = call[p]
            /\ pipeOp'.by = p /\ call[p].kind = pipeOp'.kind
            /\ call[p].kind \in {"read", "write", "close"}
  BY <1>1, <1>2 DEF LockTypes, ProcStates, Return
<1>4. CallHolds(p)' /\ Serves(p)'
  BY <1>1, <1>2, <1>3, SameOwners DEF CallHolds, Serves, WaitKinds, NoCall
<1>5. QED
  BY <1>1, <1>3, <1>4, CallStep

\* The notification loop of the pipe, and what the operation does after it.
LEMMA PipeLoopPreserves ==
    ASSUME LockInv, PipeLoop
    PROVE  LockInv'
<1>1. UNCHANGED <<lockFlags, numShared, ownerList, fileBy, down, fileKill>>
  BY DEF PipeLoop, lockVars, streamVars
<1>2. CASE PipeNotify
  BY <1>1, <1>2, NotifyPreserves DEF PipeNotify, pipeVars
<1>3. CASE PipeReadDone \/ PipeWriteDone \/ PipeCloseDone
  <2>1. PICK p : p = pipeOp.by
    OBVIOUS
  <2>2. /\ pipeOp # NoOp /\ pipeOp' = NoOp
        /\ \/ UNCHANGED <<pc, call>>
           \/ pc[p] = "serve" /\ Return(p)
           \/ /\ pc[p] = "serve" /\ pipeOp.kind = "write"
              /\ pc' = [pc EXCEPT ![p] = "block"]
              /\ \E c : c.kind = "write" /\ call' = [call EXCEPT ![p] = c]
    <3>1. CASE PipeReadDone
      BY <2>1, <3>1 DEF PipeReadDone
    <3>2. CASE PipeCloseDone
      BY <2>1, <3>2 DEF PipeCloseDone
    <3>3. CASE PipeWriteDone
      <4>1. Rest(p).kind = "write"
        BY DEF Rest
      <4>2. QED
        BY <2>1, <3>3, <4>1 DEF PipeWriteDone, WouldBlock
    <3>4. QED
      BY <1>3, <3>1, <3>2, <3>3
  <2>3. LockTypes /\ (p \in Procs => CallHolds(p) /\ Serves(p))
    BY DEF LockInv, CallsAgree
  <2>4. /\ pc' \in [Procs -> ProcStates] /\ call' = [q \in Procs |-> call'[q]]
        /\ \A q \in Procs \ {p} : pc'[q] = pc[q] /\ call'[q] = call[q]
    BY <2>2, <2>3 DEF LockTypes, ProcStates, Return
  <2>5. ASSUME p \in Procs
        PROVE  \/ pc'[p] = pc[p] /\ call'[p] = call[p]
               \/ pc'[p] = "user" /\ call'[p] = NoCall /\ pc[p] = "serve"
               \/ /\ pc'[p] = "block" /\ call'[p].kind = "write" /\ pc[p] = "serve"
                  /\ call[p].kind = "write"
    BY <2>1, <2>2, <2>3, <2>5 DEF LockTypes, Return, Serves
  <2>6. ASSUME p \in Procs PROVE CallHolds(p)'
    BY <1>1, <2>2, <2>3, <2>5, <2>6, SameOwners DEF CallHolds, WaitKinds, NoCall
  <2>7. ASSUME p \in Procs, fileBy = p PROVE pc[p] = "gone"
    BY <2>1, <2>2, <2>3, <2>5, <2>7 DEF Serves
  <2>8. QED
    BY <1>1, <2>2, <2>4, <2>6, <2>7, CallStep DEF Serves
<1>4. QED
  BY <1>2, <1>3 DEF PipeLoop

\* Fsio_PipeClientKill closes the ends of a host that is down.
LEMMA KillPipePreserves ==
    ASSUME LockInv, NEW h \in Hosts, KillPipe(h)
    PROVE  LockInv'
<1>1. /\ UNCHANGED <<lockFlags, numShared, ownerList, fileBy, down, fileKill, pc, call>>
      /\ pipeOp'.by = Recov
  BY WaitAssumption
     DEF KillPipe, Fsio_PipeClientKill, PipeCloseInt, PipeNotifying, lockVars
<1>2. pc' \in [Procs -> ProcStates] /\ call' = [q \in Procs |-> call'[q]]
  BY <1>1 DEF LockInv, LockTypes
<1>3. QED
  BY <1>1, <1>2, WaitAssumption, CallStep
-----------------------------------------------------------------------------
\* The entries of the owner list are owners.
LEMMA OwnerType ==
    ASSUME LockTypes
    PROVE  /\ Len(ownerList) \in Nat /\ DOMAIN ownerList = 1 .. Len(ownerList)
           /\ \A i \in DOMAIN ownerList :
                 ownerList[i] \in Owners /\ ownerList[i].proc \in Procs
                 /\ ownerList[i].flags \in LockFlags
<1>1. ownerList \in Seq(Owners)
  BY DEF LockTypes
<1>2. \A i \in DOMAIN ownerList : ownerList[i] \in Owners
  BY <1>1, ElementOfSeq, LenProperties
<1>3. QED
  BY <1>1, <1>2, LenProperties DEF Owners

\* An exclusive lock is the only entry of the list.
LEMMA ExclusiveAlone ==
    ASSUME LockInv, NEW i \in DOMAIN ownerList, ownerList[i].flags = "EXCLUSIVE"
    PROVE  /\ i = 1 /\ DOMAIN ownerList = {1} /\ Len(ownerList) = 1
           /\ lockFlags = {"EXCLUSIVE"} /\ numShared = 0
<1>1. LockTypes
  BY DEF LockInv
<1>2. \A j \in DOMAIN ownerList : j = i
  BY DEF LockInv, LockExclusion
<1>3. i = 1 /\ DOMAIN ownerList = {1} /\ Len(ownerList) = 1
  <2>1. Len(ownerList) \in Nat /\ DOMAIN ownerList = 1 .. Len(ownerList)
    BY <1>1, OwnerType
  <2>2. 1 \in DOMAIN ownerList /\ Len(ownerList) \in DOMAIN ownerList
    BY <2>1
  <2>3. QED
    BY <1>2, <2>1, <2>2
<1>4. lockFlags = {"EXCLUSIVE"}
  BY <1>2, <1>3 DEF LockInv, FlagsAgree
<1>5. QED
  BY <1>3, <1>4 DEF LockInv, SharedCounted

\* A shared lock is in the list with shared ones only.
LEMMA SharedTogether ==
    ASSUME LockInv, "SHARED" \in lockFlags
    PROVE  /\ \A i \in DOMAIN ownerList : ownerList[i].flags = "SHARED"
           /\ lockFlags = {"SHARED"} /\ numShared = Len(ownerList)
<1>1. LockTypes
  BY DEF LockInv
<1>2. PICK j \in DOMAIN ownerList : ownerList[j].flags = "SHARED"
  BY DEF LockInv, FlagsAgree
<1>3. \A i \in DOMAIN ownerList : ownerList[i].flags = "SHARED"
  BY <1>2 DEF LockInv, LockExclusion
<1>4. lockFlags = {"SHARED"}
  BY <1>2, <1>3 DEF LockInv, FlagsAgree
<1>5. QED
  BY <1>3, <1>4 DEF LockInv, SharedCounted

\* Owners leave the list: keep says where the others were.
LEMMA FewerOwners ==
    ASSUME LockTypes, OwnsOnce, LockExclusion, NEW n \in Nat,
           NEW keep \in [1 .. n -> DOMAIN ownerList],
           \A a, b \in 1 .. n : keep[a] = keep[b] => a = b,
           ownerList' = [a \in 1 .. n |-> ownerList[keep[a]]]
    PROVE  /\ ownerList' \in Seq(Owners) /\ Len(ownerList') = n
           /\ DOMAIN ownerList' = 1 .. n
           /\ \A a \in 1 .. n : ownerList'[a] = ownerList[keep[a]]
           /\ OwnsOnce' /\ LockExclusion'
           /\ \A q : OwnedBy(q) = {} => OwnedBy(q)' = {}
           /\ \A q, m : /\ Holds(q, m)
                        /\ \A i \in OwnedBy(q) : \E a \in 1 .. n : keep[a] = i
                        => Holds(q, m)'
<1>1. \A a \in 1 .. n : ownerList[keep[a]] \in Owners
  BY OwnerType
<1>2. ownerList' \in [1 .. n -> Owners]
  BY <1>1
<1>3. ownerList' \in Seq(Owners) /\ Len(ownerList') = n /\ DOMAIN ownerList' = 1 .. n
  <2>1. ownerList' \in Seq(Owners) /\ DOMAIN ownerList' = 1 .. n
    BY <1>2, SeqDef
  <2>2. QED
    BY <2>1, LenProperties
<1>4. \A a \in 1 .. n : ownerList'[a] = ownerList[keep[a]]
  OBVIOUS
<1>5. OwnsOnce' /\ LockExclusion'
  BY <1>3, <1>4 DEF OwnsOnce, LockExclusion
<1>6. \A q : OwnedBy(q) = {} => OwnedBy(q)' = {}
  BY <1>3, <1>4 DEF OwnedBy
<1>7. ASSUME NEW q, NEW m, Holds(q, m),
             \A i \in OwnedBy(q) : \E a \in 1 .. n : keep[a] = i
      PROVE  Holds(q, m)'
  <2>1. PICK i \in OwnedBy(q) : ownerList[i].flags = m
    BY <1>7 DEF Holds
  <2>2. PICK a \in 1 .. n : keep[a] = i
    BY <1>7, <2>1
  <2>3. QED
    BY <1>3, <1>4, <2>1, <2>2 DEF Holds, OwnedBy
<1>8. QED
  BY <1>3, <1>4, <1>5, <1>6, <1>7

\* One owner leaves the list.
LEMMA OneOwnerLess ==
    ASSUME LockTypes, OwnsOnce, LockExclusion, NEW p \in Procs, NEW i \in OwnedBy(p),
           ownerList' = RemoveAt(ownerList, i)
    PROVE  /\ ownerList' \in Seq(Owners) /\ Len(ownerList') = Len(ownerList) - 1
           /\ DOMAIN ownerList' = 1 .. Len(ownerList) - 1
           /\ \A a \in DOMAIN ownerList' : \E j \in DOMAIN ownerList : ownerList'[a] = ownerList[j]
           /\ OwnsOnce' /\ LockExclusion'
           /\ \A q : OwnedBy(q) = {} => OwnedBy(q)' = {}
           /\ \A q, m : q # p /\ Holds(q, m) => Holds(q, m)'
<1> DEFINE n == Len(ownerList) - 1
           keep == [a \in 1 .. n |-> IF a < i THEN a ELSE a + 1]
<1>1. /\ Len(ownerList) \in Nat /\ DOMAIN ownerList = 1 .. Len(ownerList)
      /\ i \in 1 .. Len(ownerList) /\ n \in Nat
  BY OwnerType DEF OwnedBy
<1>2. /\ keep \in [1 .. n -> DOMAIN ownerList]
      /\ \A a, b \in 1 .. n : keep[a] = keep[b] => a = b
      /\ \A j \in 1 .. Len(ownerList) : j # i => \E a \in 1 .. n : keep[a] = j
  <2>1. \A a \in 1 .. n : keep[a] \in 1 .. Len(ownerList)
    BY <1>1
  <2>2. \A a, b \in 1 .. n : keep[a] = keep[b] => a = b
    BY <1>1
  <2>3. ASSUME NEW j \in 1 .. Len(ownerList), j # i PROVE \E a \in 1 .. n : keep[a] = j
    <3>1. CASE j < i
      BY <1>1, <3>1
    <3>2. CASE j > i
      <4>1. j - 1 \in 1 .. n /\ keep[j - 1] = j
        BY <1>1, <3>2
      <4>2. QED
        BY <4>1
    <3>3. QED
      BY <1>1, <2>3, <3>1, <3>2
  <2>4. QED
    BY <1>1, <2>1, <2>2, <2>3
<1>3. ownerList' = [a \in 1 .. n |-> ownerList[keep[a]]]
  <2>1. ownerList \in Seq(Owners)
    BY DEF LockTypes
  <2>2. /\ RemoveAt(ownerList, i) \in Seq(Owners) /\ Len(RemoveAt(ownerList, i)) = n
        /\ \A j \in 1 .. n : RemoveAt(ownerList, i)[j] = ownerList[keep[j]]
    BY <1>1, <2>1, RemoveAtProperties
  <2>3. ownerList' \in Seq(Owners) /\ DOMAIN ownerList' = 1 .. n
    BY <2>2, LenProperties
  <2> HIDE DEF n, keep
  <2>4. QED
    BY <2>2, <2>3, LenProperties
<1>4. \A j \in OwnedBy(p) : j = i
  BY DEF OwnsOnce, OwnedBy
<1> HIDE DEF n, keep
<1>5. /\ ownerList' \in Seq(Owners) /\ Len(ownerList') = n
      /\ DOMAIN ownerList' = 1 .. n
      /\ \A a \in 1 .. n : ownerList'[a] = ownerList[keep[a]]
      /\ OwnsOnce' /\ LockExclusion'
      /\ \A q : OwnedBy(q) = {} => OwnedBy(q)' = {}
      /\ \A q, m : /\ Holds(q, m)
                   /\ \A j \in OwnedBy(q) : \E a \in 1 .. n : keep[a] = j
                   => Holds(q, m)'
  BY <1>1, <1>2, <1>3, FewerOwners
<1>6. ASSUME NEW q, q # p PROVE \A j \in OwnedBy(q) : \E a \in 1 .. n : keep[a] = j
  BY <1>1, <1>2, <1>6 DEF OwnedBy
<1>7. \A a \in DOMAIN ownerList' : \E j \in DOMAIN ownerList : ownerList'[a] = ownerList[j]
  BY <1>2, <1>5
<1>8. QED
  BY <1>5, <1>6, <1>7 DEF n

\* After a step of p that changed the owner list, the calls of the others still
\* agree with it.
LEMMA OthersAgree ==
    ASSUME LockInv, NEW p,
           pc' \in [Procs -> ProcStates], call' = [q \in Procs |-> call'[q]],
           \A q \in Procs \ {p} : pc'[q] = pc[q] /\ call'[q] = call[q],
           UNCHANGED <<down, pipeOp>>, fileBy' \in {fileBy, Nobody, p},
           \A q \in Procs \ {p} : OwnedBy(q) = {} => OwnedBy(q)' = {},
           \A q \in Procs \ {p} : \A m : pc[q] # "gone" /\ Holds(q, m) => Holds(q, m)',
           p \in Procs => (CallHolds(p) /\ Serves(p))'
    PROVE  CallsAgree'
<1>1. ASSUME NEW q \in Procs, q # p PROVE CallHolds(q)' /\ Serves(q)'
  <2>1. pc'[q] = pc[q] /\ call'[q] = call[q] /\ CallHolds(q) /\ Serves(q)
    BY <1>1 DEF LockInv, CallsAgree
  <2>2. CallHolds(q)'
    BY <1>1, <2>1 DEF CallHolds
  <2>3. Serves(q)'
    BY <1>1, <2>1, LockAssumption DEF Serves
  <2>4. QED
    BY <2>2, <2>3
<1>2. QED
  BY <1>1 DEF CallsAgree

\* Fsio_Lock grants the lock.
LEMMA GrantPreserves ==
    ASSUME LockInv, NEW p \in Procs, NEW m \in LockFlags, pc[p] = "try",
           call[p].kind = "lock",
           LockGrant(p, m), Return(p), UNCHANGED <<fileBy, pipeOp, down, fileKill>>
    PROVE  LockInv'
<1> DEFINE o == [proc |-> p, flags |-> m]
           n == Len(ownerList) + 1
<1>1. LockTypes /\ CallHolds(p) /\ Serves(p)
  BY DEF LockInv, CallsAgree
<1>2. /\ n \in Nat /\ n = Len(ownerList) + 1 /\ ownerList' \in Seq(Owners) /\ Len(ownerList') = n
      /\ DOMAIN ownerList' = 1 .. n /\ DOMAIN ownerList = 1 .. n - 1
      /\ \A i \in 1 .. n - 1 : ownerList'[i] = ownerList[i]
      /\ ownerList'[n] = o /\ o \in Owners /\ o.proc = p /\ o.flags = m
  <2>1. o \in Owners /\ ownerList \in Seq(Owners) /\ ownerList' = Append(ownerList, o)
    BY <1>1 DEF Owners, LockTypes, LockGrant
  <2>2. Len(ownerList) \in Nat /\ DOMAIN ownerList = 1 .. Len(ownerList)
    BY <1>1, OwnerType
  <2>3. /\ ownerList' \in Seq(Owners) /\ Len(ownerList') = Len(ownerList) + 1
        /\ \A i \in 1 .. Len(ownerList) : ownerList'[i] = ownerList[i]
        /\ ownerList'[Len(ownerList) + 1] = o
    BY <2>1, AppendProperties
  <2>4. DOMAIN ownerList' = 1 .. Len(ownerList) + 1
    BY <2>3, LenProperties
  <2>5. QED
    BY <2>1, <2>2, <2>3, <2>4
<1> HIDE DEF n, o
<1>3. /\ OwnedBy(p) = {} /\ \A i \in 1 .. n - 1 : ownerList[i].proc # p
  BY <1>1, <1>2 DEF CallHolds, WaitKinds, OwnedBy
<1>4. \/ m = "EXCLUSIVE" /\ lockFlags = {} /\ n = 1
      \/ m = "SHARED" /\ \A i \in 1 .. n - 1 : ownerList[i].flags = "SHARED"
  <2>1. \A i \in 1 .. n - 1 : ownerList[i].flags \in lockFlags
    BY <1>2 DEF LockInv, FlagsAgree
  <2>2. CASE m = "EXCLUSIVE"
    <3>1. lockFlags = {}
      BY <2>2 DEF LockGrant, LockBlocks
    <3>2. ~(1 \in 1 .. n - 1)
      BY <2>1, <3>1
    <3>3. QED
      BY <1>1, <1>2, <2>2, <3>1, <3>2, OwnerType
  <2>3. CASE m = "SHARED"
    BY <1>1, <2>1, <2>3 DEF LockGrant, LockBlocks, LockTypes, LockFlags
  <2>4. QED
    BY <2>2, <2>3 DEF LockFlags
<1>5. lockFlags' = lockFlags \cup {m} /\ lockFlags' \subseteq LockFlags
  BY <1>1 DEF LockGrant, LockTypes
<1>6. FlagsAgree'
  <2>1. lockFlags = {ownerList[i].flags : i \in 1 .. n - 1}
    BY <1>2 DEF LockInv, FlagsAgree
  <2>2. \A i \in 1 .. n : i = n \/ i \in 1 .. n - 1
    BY <1>2
  <2>3. n \in 1 .. n /\ \A i \in 1 .. n - 1 : i \in 1 .. n
    BY <1>2, <1>1, OwnerType
  <2>4. {ownerList'[i].flags : i \in 1 .. n} = {ownerList[i].flags : i \in 1 .. n - 1} \cup {m}
    BY <1>2, <2>2, <2>3
  <2>5. QED
    BY <1>2, <1>5, <2>1, <2>4 DEF FlagsAgree
<1>7. SharedCounted' /\ numShared' \in Int
  <2>1. SharedCounted /\ numShared' = IF m = "SHARED" THEN numShared + 1 ELSE numShared
    BY DEF LockInv, LockGrant
  <2>2. CASE m = "EXCLUSIVE"
    BY <1>2, <1>4, <1>5, <2>1, <2>2 DEF SharedCounted
  <2>3. CASE m = "SHARED"
    <3>1. CASE "SHARED" \in lockFlags
      BY <1>2, <1>5, <2>1, <2>3, <3>1 DEF SharedCounted
    <3>2. CASE "SHARED" \notin lockFlags
      <4>1. \A i \in 1 .. n - 1 : ownerList[i].flags \in lockFlags
        BY <1>2 DEF LockInv, FlagsAgree
      <4>2. ~(1 \in 1 .. n - 1)
        BY <1>4, <2>3, <3>2, <4>1
      <4>3. n = 1
        BY <1>1, <1>2, <4>2, OwnerType
      <4>4. QED
        BY <1>2, <1>5, <2>1, <2>3, <3>2, <4>3 DEF SharedCounted
    <3>3. QED
      BY <3>1, <3>2
  <2>4. QED
    BY <2>2, <2>3 DEF LockFlags
<1>8. OwnsOnce' /\ LockExclusion'
  <2>1. \A i \in 1 .. n : i = n \/ i \in 1 .. n - 1
    BY <1>2
  <2>2. OwnsOnce'
    BY <1>2, <1>3, <2>1 DEF OwnsOnce, LockInv
  <2>3. LockExclusion'
    BY <1>2, <1>4, <2>1 DEF LockExclusion, LockInv
  <2>4. QED
    BY <2>2, <2>3
<1>9. DeadOwners'
  <2>1. \A i \in 1 .. n : i = n \/ i \in 1 .. n - 1
    BY <1>2
  <2>2. HostOf[p] \notin down
    BY <1>1 DEF CallHolds
  <2>3. QED
    BY <1>2, <2>1, <2>2 DEF DeadOwners, LockInv
<1>10. /\ pc' \in [Procs -> ProcStates] /\ call' = [q \in Procs |-> call'[q]]
       /\ \A q \in Procs \ {p} : pc'[q] = pc[q] /\ call'[q] = call[q]
       /\ pc'[p] = "user" /\ call'[p] = NoCall
  BY <1>1 DEF LockTypes, ProcStates, Return
<1>11. CallsAgree'
  <2>1. \A q \in Procs \ {p} : OwnedBy(q) = {} => OwnedBy(q)' = {}
    <3>1. \A i \in 1 .. n : i = n \/ i \in 1 .. n - 1
      BY <1>2
    <3>2. QED
      BY <1>2, <3>1 DEF OwnedBy
  <2>2. \A q \in Procs \ {p} : \A k : Holds(q, k) => Holds(q, k)'
    <3>1. \A i \in 1 .. n - 1 : i \in 1 .. n
      BY <1>2, <1>1, OwnerType
    <3>2. QED
      BY <1>2, <3>1 DEF OwnedBy, Holds
  <2>3. CallHolds(p)' /\ Serves(p)'
    BY <1>1, <1>10 DEF CallHolds, Serves, WaitKinds, NoCall
  <2>4. QED
    BY <1>10, <2>1, <2>2, <2>3, OthersAgree
<1>12. QED
  BY <1>1, <1>2, <1>5, <1>6, <1>7, <1>8, <1>9, <1>10, <1>11 DEF LockInv, LockTypes

\* A lock leaves the list with its owner, and the notification begins.
LEMMA ReleasePreserves ==
    ASSUME LockInv, NEW p \in Procs, NEW i \in OwnedBy(p), pc[p] = "try",
           call[p].kind \in {"unlock", "lockclose"},
           ownerList' = RemoveAt(ownerList, i), Notifying(p),
           UNCHANGED <<pipeOp, down, fileKill>>,
           \/ /\ ownerList[i].flags = "EXCLUSIVE"
              /\ lockFlags' = lockFlags \ {"EXCLUSIVE"} /\ UNCHANGED numShared
           \/ /\ ownerList[i].flags = "SHARED" /\ numShared' = numShared - 1
              /\ lockFlags' = IF numShared' = 0 THEN lockFlags \ {"SHARED"} ELSE lockFlags
    PROVE  LockInv'
<1>1. LockTypes /\ OwnsOnce /\ LockExclusion /\ CallHolds(p) /\ Serves(p)
  BY DEF LockInv, CallsAgree
<1>2. i \in DOMAIN ownerList /\ Len(ownerList) \in Nat /\ DOMAIN ownerList = 1 .. Len(ownerList)
  BY <1>1, OwnerType DEF OwnedBy
<1>3. /\ ownerList' \in Seq(Owners) /\ Len(ownerList') = Len(ownerList) - 1
      /\ DOMAIN ownerList' = 1 .. Len(ownerList) - 1
      /\ \A a \in DOMAIN ownerList' : \E j \in DOMAIN ownerList : ownerList'[a] = ownerList[j]
      /\ OwnsOnce' /\ LockExclusion'
      /\ \A q : OwnedBy(q) = {} => OwnedBy(q)' = {}
      /\ \A q, m : q # p /\ Holds(q, m) => Holds(q, m)'
  BY <1>1, OneOwnerLess
<1>4. lockFlags' \subseteq LockFlags /\ numShared' \in Int /\ FlagsAgree' /\ SharedCounted'
  <2>1. CASE ownerList[i].flags = "EXCLUSIVE"
    <3>1. Len(ownerList) = 1 /\ lockFlags' = {} /\ numShared' = 0
      BY <1>2, <2>1, ExclusiveAlone
    <3>2. DOMAIN ownerList' = {}
      BY <1>3, <3>1
    <3>3. QED
      BY <3>1, <3>2 DEF FlagsAgree, SharedCounted
  <2>2. CASE ownerList[i].flags = "SHARED"
    <3>1. "SHARED" \in lockFlags
      BY <1>2, <2>2 DEF LockInv, FlagsAgree
    <3>2. /\ \A j \in DOMAIN ownerList : ownerList[j].flags = "SHARED"
          /\ lockFlags = {"SHARED"} /\ numShared = Len(ownerList)
      BY <3>1, SharedTogether
    <3>3. /\ numShared' = Len(ownerList) - 1
          /\ lockFlags' = IF Len(ownerList) = 1 THEN {} ELSE {"SHARED"}
      BY <1>2, <2>2, <3>2
    <3>4. \A a \in DOMAIN ownerList' : ownerList'[a].flags = "SHARED"
      BY <1>3, <3>2
    <3>5. FlagsAgree'
      <4>1. CASE Len(ownerList) = 1
        <5>1. DOMAIN ownerList' = {}
          BY <1>3, <4>1
        <5>2. QED
          BY <3>3, <4>1, <5>1 DEF FlagsAgree
      <4>2. CASE Len(ownerList) # 1
        <5>1. 1 \in DOMAIN ownerList'
          BY <1>2, <1>3, <4>2
        <5>2. QED
          BY <3>3, <3>4, <4>2, <5>1 DEF FlagsAgree
      <4>3. QED
        BY <4>1, <4>2
    <3>6. QED
      BY <1>2, <1>3, <3>3, <3>5 DEF SharedCounted, LockFlags
  <2>3. QED
    BY <2>1, <2>2
<1>5. DeadOwners'
  BY <1>3 DEF LockInv, DeadOwners
<1>6. /\ pc' \in [Procs -> ProcStates] /\ call' = [q \in Procs |-> call'[q]]
      /\ \A q \in Procs \ {p} : pc'[q] = pc[q] /\ call'[q] = call[q]
      /\ pc'[p] = "serve" /\ call'[p] = call[p] /\ fileBy' = p
  BY <1>1 DEF LockTypes, ProcStates, Notifying
<1>7. CallHolds(p)' /\ Serves(p)'
  BY <1>1, <1>6 DEF CallHolds, Serves, WaitKinds
<1>8. CallsAgree'
  BY <1>3, <1>6, <1>7, OthersAgree
<1>9. QED
  BY <1>1, <1>3, <1>4, <1>5, <1>6, <1>8 DEF LockInv, LockTypes

\* Fsio_Lock, Fsio_Unlock and Fsio_LockClose.
LEMMA LockTryPreserves ==
    ASSUME LockInv, NEW p \in Procs,
           TryLock(p) \/ TryUnlock(p) \/ TryLockClose(p)
    PROVE  LockInv'
<1> USE DEF pipeVars, streamVars
<1>1. LockTypes /\ OwnsOnce /\ CallHolds(p) /\ Serves(p)
  BY DEF LockInv, CallsAgree
<1>2. ASSUME pc[p] = "try", fileBy' = fileBy, fileBy = Nobody,
             UNCHANGED <<lockFlags, numShared, ownerList, pipeOp, down, fileKill>>,
             \/ Return(p)
             \/ pc' = [pc EXCEPT ![p] = "block"] /\ UNCHANGED call /\ call[p].kind \in WaitKinds
      PROVE  LockInv'
  <2>1. /\ pc' \in [Procs -> ProcStates] /\ call' = [q \in Procs |-> call'[q]]
        /\ \A q \in Procs \ {p} : pc'[q] = pc[q] /\ call'[q] = call[q]
        /\ \/ pc'[p] = "user" /\ call'[p] = NoCall
           \/ pc'[p] = "block" /\ call'[p] = call[p] /\ call[p].kind \in WaitKinds
    BY <1>1, <1>2 DEF LockTypes, ProcStates, Return
  <2>2. CallHolds(p)' /\ Serves(p)'
    BY <1>1, <1>2, <2>1, SameOwners, LockAssumption DEF CallHolds, Serves, WaitKinds, NoCall
  <2>3. QED
    BY <1>2, <2>1, <2>2, CallStep
<1>3. CASE TryLock(p)
  <2>1. call = [call EXCEPT ![p] = call[p]]
    BY <1>1 DEF LockTypes
  <2>2. /\ pc[p] = "try" /\ fileBy = Nobody /\ call[p].kind = "lock"
        /\ UNCHANGED <<fileBy, pipeOp, down, fileKill>>
        /\ \/ LockGrant(p, call[p].mode) /\ Return(p)
           \/ WouldBlock("lock", p, call[p]) /\ UNCHANGED <<lockFlags, numShared, ownerList>>
    BY <1>3 DEF TryLock, Fsio_Lock
  <2>3. CASE WouldBlock("lock", p, call[p]) /\ UNCHANGED <<lockFlags, numShared, ownerList>>
    BY <1>2, <2>1, <2>2, <2>3 DEF WouldBlock, WaitKinds
  <2>4. CASE LockGrant(p, call[p].mode) /\ Return(p)
    <3>1. call[p].mode \in LockFlags
      BY <1>1, <2>2 DEF CallHolds
    <3>2. QED
      BY <2>2, <2>4, <3>1, GrantPreserves
  <2>5. QED
    BY <2>2, <2>3, <2>4
<1>4. CASE TryUnlock(p)
  <2>1. /\ pc[p] = "try" /\ fileBy = Nobody /\ call[p].kind = "unlock"
        /\ Holds(p, call[p].mode) /\ UNCHANGED <<pipeOp, down, fileKill>>
        /\ \/ call[p].mode = "EXCLUSIVE" /\ UnlockExclusive(p) /\ Notifying(p)
           \/ call[p].mode = "SHARED" /\ UnlockShared(p) /\ Notifying(p)
           \/ Return(p) /\ UNCHANGED <<lockFlags, numShared, ownerList, fileBy>>
    BY <1>1, <1>4 DEF TryUnlock, Fsio_Unlock, CallHolds
  <2>2. PICK i \in OwnedBy(p) : ownerList[i].flags = call[p].mode /\ \A j \in OwnedBy(p) : j = i
    BY <1>1, <2>1 DEF Holds, OwnedBy, OwnsOnce
  <2>3. CASE call[p].mode = "EXCLUSIVE" /\ UnlockExclusive(p) /\ Notifying(p)
    <3>1. i \in DOMAIN ownerList /\ ownerList # <<>>
      BY <2>2 DEF OwnedBy
    <3>2. ownerList' = RemoveAt(ownerList, i)
      BY <2>2, <2>3, <3>1 DEF UnlockExclusive, IsFirst
    <3>3. lockFlags' = lockFlags \ {"EXCLUSIVE"} /\ UNCHANGED numShared
      BY <2>3 DEF UnlockExclusive
    <3>4. QED
      BY <2>1, <2>2, <2>3, <3>2, <3>3, ReleasePreserves
  <2>4. CASE call[p].mode = "SHARED" /\ UnlockShared(p) /\ Notifying(p)
    <3>1. ownerList' = RemoveAt(ownerList, i)
      BY <2>2, <2>4 DEF UnlockShared, IsFirst
    <3>2. /\ numShared' = numShared - 1
          /\ lockFlags' = IF numShared' = 0 THEN lockFlags \ {"SHARED"} ELSE lockFlags
      BY <2>4 DEF UnlockShared
    <3>3. QED
      BY <2>1, <2>2, <2>4, <3>1, <3>2, ReleasePreserves
  <2>5. CASE Return(p) /\ UNCHANGED <<lockFlags, numShared, ownerList, fileBy>>
    BY <1>2, <2>1, <2>5
  <2>6. QED
    BY <2>1, <2>3, <2>4, <2>5
<1>5. CASE TryLockClose(p)
  <2>1. /\ pc[p] = "try" /\ fileBy = Nobody /\ call[p].kind = "lockclose"
        /\ Holds(p, "EXCLUSIVE") /\ UNCHANGED <<pipeOp, down, fileKill>>
    BY <1>1, <1>5 DEF TryLockClose, Fsio_LockClose, CallHolds
  <2>2. PICK i \in OwnedBy(p) : ownerList[i].flags = "EXCLUSIVE" /\ \A j \in OwnedBy(p) : j = i
    BY <1>1, <2>1 DEF Holds, OwnedBy, OwnsOnce
  <2>3. /\ ownerList' = RemoveAt(ownerList, i) /\ lockFlags' = lockFlags \ {"EXCLUSIVE"}
        /\ UNCHANGED numShared /\ Notifying(p)
    BY <1>5, <2>2 DEF TryLockClose, Fsio_LockClose, IsFirst
  <2>4. QED
    BY <2>1, <2>2, <2>3, ReleasePreserves
<1>6. QED
  BY <1>3, <1>4, <1>5

\* The notification loop of the file.
LEMMA LockLoopPreserves ==
    ASSUME LockInv, LockLoop
    PROVE  LockInv'
<1> USE DEF lockVars, pipeVars, streamVars
<1>1. CASE LockNotify
  BY <1>1, NotifyPreserves DEF LockNotify, LockLoop
<1>2. CASE LockNotified
  <2>1. PICK p : p = fileBy
    OBVIOUS
  <2>2. /\ UNCHANGED <<lockFlags, numShared, ownerList, pipeOp, down, fileKill>>
        /\ fileBy' = Nobody
        /\ \/ UNCHANGED <<pc, call>>
           \/ pc[p] = "serve" /\ Return(p)
    BY <1>2, <2>1 DEF LockNotified, LockLoop
  <2>3. LockTypes /\ (p \in Procs => CallHolds(p) /\ Serves(p))
    BY DEF LockInv, CallsAgree
  <2>4. /\ pc' \in [Procs -> ProcStates] /\ call' = [q \in Procs |-> call'[q]]
        /\ \A q \in Procs \ {p} : pc'[q] = pc[q] /\ call'[q] = call[q]
        /\ p \in Procs => \/ pc'[p] = pc[p] /\ call'[p] = call[p]
                          \/ pc[p] = "serve" /\ pc'[p] = "user" /\ call'[p] = NoCall
    BY <2>2, <2>3 DEF LockTypes, ProcStates, Return
  <2>5. p \in Procs => CallHolds(p)' /\ Serves(p)'
    BY <2>1, <2>2, <2>3, <2>4, SameOwners, LockAssumption
       DEF CallHolds, Serves, WaitKinds, NoCall
  <2>6. QED
    BY <2>2, <2>4, <2>5, CallStep
<1>3. QED
  BY <1>1, <1>2 DEF LockLoop

\* A host goes down; its owners have exclusive locks.
LEMMA CrashPreserves ==
    ASSUME LockInv, Disciplined, NEW h \in Hosts, Crash(h)
    PROVE  LockInv'
<1> USE DEF lockVars, pipeVars, streamVars
<1>1. LockTypes /\ CallsAgree /\ DeadOwners
  BY DEF LockInv
<1>2. /\ UNCHANGED <<lockFlags, numShared, ownerList, fileBy, pipeOp>>
      /\ down' = down \cup {h} /\ fileKill' = fileKill \cup {h}
      /\ \A p \in Procs : HostOf[p] = h => ~Holds(p, "SHARED")
  BY DEF Crash, MayClose
<1>3. /\ pc' = [p \in Procs |-> IF HostOf[p] = h THEN "gone" ELSE pc[p]]
      /\ call' = [p \in Procs |-> IF HostOf[p] = h THEN NoCall ELSE call[p]]
  BY DEF Crash
<1>4. LockTypes'
  BY <1>1, <1>2, <1>3 DEF LockTypes, ProcStates
<1>5. (FlagsAgree /\ SharedCounted /\ OwnsOnce /\ LockExclusion)'
  BY <1>2 DEF LockInv, FlagsAgree, SharedCounted, OwnsOnce, LockExclusion
<1>6. DeadOwners'
  <2>1. \A i \in DOMAIN ownerList : HostOf[ownerList[i].proc] = h => ownerList[i].flags = "EXCLUSIVE"
    BY <1>1, <1>2, OwnerType DEF Holds, OwnedBy, LockFlags
  <2>2. QED
    BY <1>1, <1>2, <2>1 DEF DeadOwners
<1>7. CallsAgree'
  <2>1. ASSUME NEW p \in Procs PROVE CallHolds(p)' /\ Serves(p)'
    <3>1. CASE HostOf[p] = h
      <4>1. pc'[p] = "gone" /\ call'[p] = NoCall
        BY <1>3, <3>1
      <4>2. QED
        BY <4>1 DEF CallHolds, Serves, WaitKinds, NoCall
    <3>2. CASE HostOf[p] # h
      <4>1. pc'[p] = pc[p] /\ call'[p] = call[p]
        BY <1>3, <3>2
      <4>2. CallHolds(p)'
        BY <1>1, <1>2, <3>2, <4>1, SameOwners DEF CallsAgree, CallHolds
      <4>3. Serves(p)'
        BY <1>1, <1>2, <4>1 DEF CallsAgree, Serves
      <4>4. QED
        BY <4>2, <4>3
    <3>3. QED
      BY <3>1, <3>2
  <2>2. QED
    BY <2>1 DEF CallsAgree
<1>8. QED
  BY <1>4, <1>5, <1>6, <1>7 DEF LockInv

\* Fsio_LockClientKill breaks the locks of a host that is down.
LEMMA KillFilePreserves ==
    ASSUME LockInv, NEW h \in Hosts, KillFile(h)
    PROVE  LockInv'
<1> USE DEF lockVars, pipeVars, streamVars, waitVars
<1> DEFINE dead == {i \in DOMAIN ownerList : HostOf[ownerList[i].proc] = h}
           live == {i \in DOMAIN ownerList : HostOf[ownerList[i].proc] # h}
<1>1. LockTypes /\ CallsAgree /\ DeadOwners /\ OwnsOnce /\ LockExclusion
  BY DEF LockInv
<1>2. /\ fileBy = Nobody /\ h \in fileKill /\ fileKill' = fileKill \ {h} /\ h \in down
      /\ UNCHANGED <<pc, call, numShared, down, pipeOp>>
      /\ lockFlags' = lockFlags \ {ownerList[i].flags : i \in dead}
      /\ fileBy' \in {Recov, Nobody}
  BY <1>1, WaitAssumption DEF KillFile, Fsio_LockClientKill, Notifying, LockTypes
<1>a. PICK n \in 0 .. Len(ownerList) : \E keep \in [1 .. n -> live] :
        /\ Range(keep) = live
        /\ \A a, b \in 1 .. n : a < b => keep[a] < keep[b]
        /\ ownerList' = [a \in 1 .. n |-> ownerList[keep[a]]]
  BY DEF KillFile, Fsio_LockClientKill, RemoveOwnersOf
<1>3. PICK keep \in [1 .. n -> live] :
        /\ Range(keep) = live
        /\ \A a, b \in 1 .. n : a < b => keep[a] < keep[b]
        /\ ownerList' = [a \in 1 .. n |-> ownerList[keep[a]]]
  BY <1>a
<1>4. /\ Len(ownerList) \in Nat /\ DOMAIN ownerList = 1 .. Len(ownerList) /\ n \in Nat
      /\ keep \in [1 .. n -> DOMAIN ownerList]
      /\ \A i \in live : \E a \in 1 .. n : keep[a] = i
      /\ \A a \in 1 .. n : keep[a] \in live
  <2>1. Len(ownerList) \in Nat /\ DOMAIN ownerList = 1 .. Len(ownerList)
    BY <1>1, OwnerType
  <2>2. live \subseteq DOMAIN ownerList
    OBVIOUS
  <2>3. n \in Nat
    BY <1>a, <2>1
  <2>4. \A i \in live : \E a \in 1 .. n : keep[a] = i
    <3> HIDE DEF live
    <3> QED
      BY <1>3 DEF Range
  <2>5. \A a \in 1 .. n : keep[a] \in live
    <3> HIDE DEF live
    <3> QED
      BY <1>3
  <2>6. keep \in [1 .. n -> DOMAIN ownerList]
    <3> HIDE DEF live
    <3> QED
      BY <2>2, <2>5, <1>3
  <2>7. QED
    BY <2>1, <2>3, <2>4, <2>5, <2>6
<1>5. \A a, b \in 1 .. n : keep[a] = keep[b] => a = b
  <2>1. \A a \in 1 .. n : keep[a] \in Int
    BY <1>4
  <2>2. QED
    BY <1>3, <1>4, <2>1
<1>6. /\ ownerList' \in Seq(Owners) /\ Len(ownerList') = n
      /\ DOMAIN ownerList' = 1 .. n
      /\ \A a \in 1 .. n : ownerList'[a] = ownerList[keep[a]]
      /\ OwnsOnce' /\ LockExclusion'
      /\ \A q : OwnedBy(q) = {} => OwnedBy(q)' = {}
      /\ \A q, m : /\ Holds(q, m)
                   /\ \A i \in OwnedBy(q) : \E a \in 1 .. n : keep[a] = i
                   => Holds(q, m)'
  BY <1>1, <1>3, <1>4, <1>5, FewerOwners, ZenonT(60)
<1>7. FlagsAgree' /\ SharedCounted'
  <2>1. CASE dead = {}
    <3>1. live = DOMAIN ownerList /\ lockFlags' = lockFlags
      BY <1>2, <2>1
    <3>2. {ownerList'[a].flags : a \in 1 .. n} = {ownerList[i].flags : i \in DOMAIN ownerList}
      <4>1. ASSUME NEW a \in 1 .. n
            PROVE  \E i \in DOMAIN ownerList : ownerList[i].flags = ownerList'[a].flags
        BY <1>4, <1>6
      <4>2. ASSUME NEW i \in DOMAIN ownerList
            PROVE  \E a \in 1 .. n : ownerList'[a].flags = ownerList[i].flags
        <5>1. PICK a \in 1 .. n : keep[a] = i
          BY <1>4, <3>1
        <5>2. QED
          BY <1>6, <5>1
      <4>3. ASSUME NEW f PROVE f \in {ownerList'[a].flags : a \in 1 .. n} <=>
                               f \in {ownerList[i].flags : i \in DOMAIN ownerList}
        <5> HIDE DEF live, dead
        <5>1. f \in {ownerList'[a].flags : a \in 1 .. n}
                <=> \E a \in 1 .. n : f = ownerList'[a].flags
          OBVIOUS
        <5>2. f \in {ownerList[i].flags : i \in DOMAIN ownerList}
                <=> \E i \in DOMAIN ownerList : f = ownerList[i].flags
          OBVIOUS
        <5>3. QED
          BY <4>1, <4>2, <5>1, <5>2
      <4>4. QED
        BY <4>3
    <3>3. n = Len(ownerList)
      <4>1. \A k \in Nat : IsFiniteSet(1 .. k)
        BY FS_Interval
      <4>2. \A k \in Nat : Cardinality(1 .. k) = k
        BY FS_Interval
      <4>3. keep \in Surjection(1 .. n, 1 .. Len(ownerList))
        BY <1>4, <3>1 DEF Surjection
      <4>4. Cardinality(1 .. Len(ownerList)) <= Cardinality(1 .. n)
        <5>1. IsFiniteSet(1 .. n)
          BY <1>4, <4>1
        <5>2. QED
          BY <4>3, <5>1, FS_Surjection
      <4>5. QED
        <5>1. Cardinality(1 .. Len(ownerList)) = Len(ownerList) /\ Cardinality(1 .. n) = n
          BY <1>4, <4>2
        <5>2. n \in Nat /\ Len(ownerList) \in Nat /\ n <= Len(ownerList) /\ Len(ownerList) <= n
          BY <1>a, <1>4, <4>4, <5>1
        <5>3. \A a, b \in Nat : a <= b /\ b <= a => a = b
          OBVIOUS
        <5>4. QED
          BY <5>2, <5>3
    <3>4. QED
      BY <1>2, <1>6, <3>1, <3>2, <3>3 DEF LockInv, FlagsAgree, SharedCounted
  <2>2. CASE dead # {}
    <3>1. PICK i \in dead : TRUE
      BY <2>2
    <3>2. ownerList[i].flags = "EXCLUSIVE" /\ i \in DOMAIN ownerList
      BY <1>1, <1>2, <3>1 DEF DeadOwners
    <3>3. /\ DOMAIN ownerList = {1} /\ i = 1
          /\ lockFlags = {"EXCLUSIVE"} /\ numShared = 0
      BY <3>2, ExclusiveAlone
    <3>4. live = {} /\ dead = {1} /\ lockFlags' = {}
      BY <1>2, <3>1, <3>2, <3>3
    <3>5. 1 .. n = {}
      BY <1>4, <3>4
    <3>6. QED
      BY <1>2, <1>6, <3>3, <3>4, <3>5 DEF FlagsAgree, SharedCounted
  <2>3. QED
    BY <2>1, <2>2
<1>8. DeadOwners'
  BY <1>1, <1>2, <1>4, <1>6 DEF DeadOwners
<1>9. LockTypes'
  BY <1>1, <1>2, <1>6 DEF LockTypes
<1>10. CallsAgree'
  <2>1. ASSUME NEW q \in Procs, NEW m, pc[q] # "gone", Holds(q, m) PROVE Holds(q, m)'
    <3>1. HostOf[q] # h
      BY <1>1, <1>2, <2>1 DEF CallsAgree, CallHolds
    <3>2. \A i \in OwnedBy(q) : i \in live
      BY <3>1 DEF OwnedBy
    <3>3. QED
      BY <1>4, <1>6, <2>1, <3>2
  <2>2. pc' \in [Procs -> ProcStates] /\ call' = [q \in Procs |-> call'[q]]
    BY <1>9 DEF LockTypes
  <2>3. Recov \notin Procs
    BY WaitAssumption
  <2>4. QED
    BY <1>2, <1>6, <2>1, <2>2, <2>3, OthersAgree
<1>11. QED
  BY <1>6, <1>7, <1>8, <1>9, <1>10 DEF LockInv
-----------------------------------------------------------------------------
\* Nothing is locked at first and nobody is in a call.
LEMMA InitLockInv == Init => LockInv
<1> SUFFICES ASSUME Init PROVE LockInv
  OBVIOUS
<1> USE DEF Init, WaitInit, LockInit, PipeInit, NoCall
<1>1. LockTypes
  BY EmptySeq DEF LockTypes, ProcStates
<1>2. DOMAIN ownerList = {} /\ lockFlags = {} /\ numShared = 0
  BY EmptySeq
<1>3. CallsAgree
  BY LockAssumption DEF CallsAgree, CallHolds, Serves, WaitKinds
<1>4. QED
  BY <1>1, <1>2, <1>3
     DEF LockInv, FlagsAgree, SharedCounted, OwnsOnce, LockExclusion, DeadOwners

\* Every step of disciplined processes keeps the invariant.
LEMMA NextLockInv ==
    ASSUME LockInv, Disciplined, [Next]_vars
    PROVE  LockInv'
<1>1. ASSUME NEW p \in Procs,
             \/ EnterLock(p) \/ EnterUnlock(p) \/ EnterLockClose(p)
             \/ EnterRead(p) \/ EnterWrite(p) \/ EnterSelect(p) \/ EnterClose(p)
             \/ Kernel(p) \/ Sig_Send(p)
      PROVE  LockInv'
  BY <1>1, EnterPreserves, LockTryPreserves, PipeTryPreserves, WaitPreserves DEF Kernel, Try
<1>2. ASSUME NEW h \in Hosts, Crash(h) \/ KillFile(h) \/ KillPipe(h) PROVE LockInv'
  BY <1>2, CrashPreserves, KillFilePreserves, KillPipePreserves
<1>3. CASE UNCHANGED vars
  <2>1. /\ UNCHANGED <<lockFlags, numShared, ownerList, down, fileKill, pc, call, fileBy, pipeOp>>
    BY <1>3 DEF vars, waitVars, lockVars, pipeVars, streamVars
  <2>2. /\ pc' \in [Procs -> ProcStates] /\ call' = [p \in Procs |-> call'[p]]
    BY <2>1 DEF LockInv, LockTypes
  <2>3. Nobody \notin Procs
    BY LockAssumption
  <2>4. QED
    BY <2>1, <2>2, <2>3, CallStep
<1>4. QED
  BY <1>1, <1>2, <1>3, LockLoopPreserves, PipeLoopPreserves DEF Next

LEMMA LockInvariant ==
    ASSUME Disciplined
    PROVE  Spec => []LockInv
<1>1. LockInv /\ [Next]_vars => LockInv'
  BY NextLockInv
<1>2. QED
  BY <1>1, InitLockInv, PTL DEF Spec

\* While processes unlock what they locked and no shared lock goes with its
\* stream or its host, an exclusive lock excludes every other lock, whatever is
\* closed, broken after a crash or retried in between.
THEOREM LocksExclude ==
    ASSUME Disciplined
    PROVE  Spec => []LockExclusion
<1>1. LockInv => LockExclusion
  BY DEF LockInv
<1>2. QED
  BY <1>1, LockInvariant, PTL

\* Under the same discipline a file never looks locked without an owner who can
\* unlock it or whose host is about to be cleaned up after.
THEOREM LocksHaveOwners ==
    ASSUME Disciplined
    PROVE  Spec => []NoPhantomLock
<1>1. LockInv => NoPhantomLock
  BY DEF LockInv, FlagsAgree, DeadOwners, NoPhantomLock
<1>2. QED
  BY <1>1, LockInvariant, PTL
=============================================================================
