------------------------------- MODULE FsioLock -------------------------------
(***************************************************************************)
(* Advisory locks on a file or device, kept by its server (fsio/           *)
(* fsioLock.c) and taken with the I/O controls IOC_LOCK and IOC_UNLOCK.    *)
(*                                                                         *)
(* A lock operation runs with the handle of the file locked.  When it      *)
(* notifies waiters the RPCs are made with the handle still locked: fileBy *)
(* is then the actor that holds it.                                        *)
(***************************************************************************)
EXTENDS SyncWait

CONSTANTS
    Nobody,      \* the handle is not locked
    Disciplined  \* processes release what they locked, before the stream goes

ASSUME LockAssumption ==
    /\ Nobody \notin Procs \cup {Recov}
    /\ Disciplined \in BOOLEAN

VARIABLES
    lockFlags,   \* lockPtr->flags: a subset of {"EXCLUSIVE", "SHARED"}
    numShared,   \* lockPtr->numShared
    ownerList,   \* lockPtr->ownerList: who locked the file, and how
    fileBy       \* who is in the notification loop with the handle locked

lockVars == <<lockFlags, numShared, ownerList, fileBy>>

LockFlags == {"EXCLUSIVE", "SHARED"}

LockTypeOK ==
    /\ lockFlags \subseteq LockFlags
    /\ numShared \in Int
    /\ ownerList \in Seq([proc: Procs, flags: LockFlags])
    /\ fileBy \in Procs \cup {Nobody, Recov}

LockInit ==
    /\ lockFlags = {}
    /\ numShared = 0
    /\ ownerList = <<>>
    /\ fileBy = Nobody
-----------------------------------------------------------------------------
\* The owners, as a set of indices into ownerList.
OwnedBy(p) == {i \in DOMAIN ownerList : ownerList[i].proc = p}

\* The first index of a set of indices.
IsFirst(i, I) == i \in I /\ \A j \in I : i <= j

Holds(p, mode) == \E i \in OwnedBy(p) : ownerList[i].flags = mode

\* The condition under which Fsio_Lock answers FS_WOULD_BLOCK.
LockBlocks(mode) ==
    IF mode = "EXCLUSIVE" THEN lockFlags # {} ELSE "EXCLUSIVE" \in lockFlags

\* Mutant: a shared lock only looks for room among the shared ones.
LockGrantBlind(p, mode) ==
    /\ mode = "SHARED" \/ ~LockBlocks(mode)
    /\ lockFlags' = lockFlags \cup {mode}
    /\ numShared' = IF mode = "SHARED" THEN numShared + 1 ELSE numShared
    /\ ownerList' = Append(ownerList, [proc |-> p, flags |-> mode])

\* Fsio_Lock, the lock is available.
LockGrant(p, mode) ==
    /\ ~LockBlocks(mode)
    /\ lockFlags' = lockFlags \cup {mode}
    /\ numShared' = IF mode = "SHARED" THEN numShared + 1 ELSE numShared
    /\ ownerList' = Append(ownerList, [proc |-> p, flags |-> mode])

\* Fsio_Lock: the lock is taken, or the caller goes on the wait list.
Fsio_Lock(p, mode) ==
    /\ pc[p] = "try" /\ fileBy = Nobody
    /\ \/ LockGrant(p, mode) /\ Return(p) /\ UNCHANGED waitList
       \/ /\ LockBlocks(mode)
          /\ WouldBlock("lock", p, call[p])
          /\ UNCHANGED <<lockFlags, numShared, ownerList>>
    /\ UNCHANGED <<complete, signals, lost, fileBy>>

\* Fsutil_FastWaitListNotify(&lockPtr->waitList) begins, the handle locked.
Notifying(by) ==
    /\ fileBy' = by
    /\ pc' = IF by \in Procs THEN [pc EXCEPT ![by] = "serve"] ELSE pc
    /\ UNCHANGED <<call, complete, sigs, signals, waitList, lost>>

\* Fsio_Unlock of an exclusive lock.  When the process owns nothing the first
\* owner loses its lock.
UnlockExclusive(p) ==
    /\ "EXCLUSIVE" \in lockFlags
    /\ \/ \E i \in DOMAIN ownerList :
             /\ IF OwnedBy(p) # {} THEN IsFirst(i, OwnedBy(p)) ELSE i = 1
             /\ ownerList' = RemoveAt(ownerList, i)
       \/ ownerList = <<>> /\ UNCHANGED ownerList
    /\ lockFlags' = lockFlags \ {"EXCLUSIVE"}
    /\ UNCHANGED numShared

\* Mutant: the last shared lock is not recognised.
UnlockSharedLate(p) ==
    /\ "SHARED" \in lockFlags
    /\ numShared' = numShared - 1
    /\ \/ \E i \in DOMAIN ownerList :
             IsFirst(i, OwnedBy(p)) /\ ownerList' = RemoveAt(ownerList, i)
       \/ OwnedBy(p) = {} /\ UNCHANGED ownerList
    /\ lockFlags' = IF numShared = 0 THEN lockFlags \ {"SHARED"} ELSE lockFlags

\* Fsio_Unlock of a shared lock.  The count goes down whoever calls; an owner
\* is removed only if it is the caller.
UnlockShared(p) ==
    /\ "SHARED" \in lockFlags
    /\ numShared' = numShared - 1
    /\ \/ \E i \in DOMAIN ownerList :
             IsFirst(i, OwnedBy(p)) /\ ownerList' = RemoveAt(ownerList, i)
       \/ OwnedBy(p) = {} /\ UNCHANGED ownerList
    /\ lockFlags' = IF numShared' = 0 THEN lockFlags \ {"SHARED"} ELSE lockFlags

\* Fsio_Unlock.
Fsio_Unlock(p, mode) ==
    /\ pc[p] = "try" /\ fileBy = Nobody
    /\ \/ /\ mode = "EXCLUSIVE" /\ UnlockExclusive(p)
          /\ Notifying(p)
       \/ /\ mode = "SHARED" /\ UnlockShared(p)
          /\ Notifying(p)
       \/ /\ mode \notin lockFlags      \* FS_NO_EXCLUSIVE_LOCK, FS_NO_SHARED_LOCK
          /\ Return(p)
          /\ UNCHANGED <<lockFlags, numShared, ownerList, fileBy>>
          /\ UNCHANGED <<complete, signals, waitList, lost>>

\* Fsio_LockClose: the first lock of the stream is broken.  numShared stays.
Fsio_LockClose(p) ==
    /\ pc[p] = "try" /\ fileBy = Nobody
    /\ \/ \E i \in DOMAIN ownerList :
             /\ IsFirst(i, OwnedBy(p))
             /\ lockFlags' = lockFlags \ {ownerList[i].flags}
             /\ ownerList' = RemoveAt(ownerList, i)
             /\ Notifying(p)
             /\ UNCHANGED numShared
       \/ /\ OwnedBy(p) = {}
          /\ Return(p)
          /\ UNCHANGED <<lockFlags, numShared, ownerList, fileBy>>
          /\ UNCHANGED <<complete, signals, waitList, lost>>

\* The owners of the other hosts stay on the list, in their order: keep counts
\* off their indices.
RemoveOwnersOf(h) ==
    LET live == {i \in DOMAIN ownerList : HostOf[ownerList[i].proc] # h} IN
    \E n \in 0 .. Len(ownerList) : \E keep \in [1 .. n -> live] :
        /\ Range(keep) = live
        /\ \A a, b \in 1 .. n : a < b => keep[a] < keep[b]
        /\ ownerList' = [a \in 1 .. n |-> ownerList[keep[a]]]

\* Fsio_LockClientKill, from Fsio_FileClientKill: every lock of the host is
\* broken and, if there was one, the waiters are told.
Fsio_LockClientKill(h) ==
    /\ fileBy = Nobody
    /\ LET dead == {i \in DOMAIN ownerList : HostOf[ownerList[i].proc] = h} IN
       /\ lockFlags' = lockFlags \ {ownerList[i].flags : i \in dead}
       /\ RemoveOwnersOf(h)
       /\ IF dead # {} THEN Notifying(Recov) ELSE UNCHANGED <<fileBy, waitVars>>
    /\ UNCHANGED numShared

\* One waiter of the file's list is notified.
LockNotify ==
    /\ fileBy # Nobody
    /\ NotifyFirst("lock")
    /\ UNCHANGED lockVars

\* The list is empty: the handle is unlocked and the call returns.
LockNotified ==
    /\ fileBy # Nobody
    /\ waitList["lock"] = <<>>
    /\ fileBy' = Nobody
    /\ IF fileBy \in Procs /\ pc[fileBy] = "serve"
       THEN Return(fileBy)
       ELSE UNCHANGED <<pc, call, sigs>>
    /\ UNCHANGED <<lockFlags, numShared, ownerList>>
    /\ UNCHANGED <<complete, signals, waitList, lost>>

\* A disciplined process does not wait while it holds a lock, unlocks what it
\* holds, and unlocks a shared lock before it closes the stream.
MayWait(p) == Disciplined => OwnedBy(p) = {}
MayUnlock(p, mode) == Disciplined => Holds(p, mode)
MayClose(p) == Disciplined => ~Holds(p, "SHARED")
=============================================================================
