------------------------------- MODULE FsStream -------------------------------
(***************************************************************************)
(* Blocking operations on streams, top to bottom: the retry loops of       *)
(* Fs_Read, Fs_Write, Fs_IOControl and Fs_Select (fs/fsStreamOps.c,        *)
(* fs/fsSelect.c) over a file that is locked (FsioLock) and a pipe         *)
(* (FsioPipe), both kept by one server, used by processes of several hosts *)
(* that wait as SyncWait says.                                             *)
(*                                                                         *)
(* The operation that an RPC carries out on the server, from clientVerify  *)
(* to the notification loop, is one step: a host that crashes does so      *)
(* before the server looks at the request, or after it has the handle.     *)
(***************************************************************************)
EXTENDS FsioLock, FsioPipe

CONSTANTS
    Modes,        \* for each process, the locks it asks for
    ReadSizes,    \* the sizes of reads
    WriteSizes,   \* the sizes of writes
    Selects,      \* the directions that are selected for
    NonBlocking,  \* for each process, whether its calls may and may not block:
                  \* FS_NON_BLOCKING, IOC_LOCK_NO_BLOCK
    MaxBytes,     \* bound: bytes a process writes
    MaxCrashes    \* bound: hosts that crash

ASSUME StreamAssumption ==
    /\ Lists = {"lock", "read", "write"}
    /\ Modes \in [Procs -> SUBSET LockFlags]
    /\ ReadSizes \subseteq Nat /\ WriteSizes \subseteq Nat
    /\ Selects \subseteq {"READ", "WRITE"}
    /\ NonBlocking \in [Procs -> SUBSET BOOLEAN]
    /\ MaxBytes \in Nat /\ MaxCrashes \in Nat

VARIABLES
    down,         \* hosts that have crashed
    fileKill,     \* crashed hosts that Fsio_FileClientKill has to deal with
    pipeKill      \* crashed hosts that Fsio_PipeClientKill has to deal with

streamVars == <<down, fileKill, pipeKill>>
vars == <<waitVars, lockVars, pipeVars, streamVars>>

Calls ==
    [kind: {"lock"}, mode: LockFlags, nb: BOOLEAN]
        \cup [kind: {"unlock"}, mode: LockFlags]
        \cup [kind: {"lockclose"}]
        \cup [kind: {"read", "write"}, len: Nat, nb: BOOLEAN]
        \cup [kind: {"select"}, dir: Selects, nb: BOOLEAN]
        \cup [kind: {"close"}, end: {"READ", "WRITE"}]

\* The variables have their types, and the buffer is bounded by the block.
TypeOK ==
    /\ WaitTypeOK /\ LockTypeOK /\ PipeTypeOK
    /\ call \in [Procs -> Calls \cup {NoCall}]
    /\ down \subseteq Hosts /\ fileKill \subseteq down /\ pipeKill \subseteq down
    /\ InPipe \in 0 .. BlockSize

Init ==
    /\ WaitInit /\ LockInit /\ PipeInit
    /\ down = {} /\ fileKill = {} /\ pipeKill = {}
-----------------------------------------------------------------------------
\* A process makes a system call.
Enter(p, c) ==
    /\ pc[p] = "user"
    /\ pc' = [pc EXCEPT ![p] = "try"]
    /\ call' = [call EXCEPT ![p] = c]
    /\ UNCHANGED <<complete, sigs, signals, waitList, lost>>
    /\ UNCHANGED <<lockVars, pipeVars, down, fileKill, pipeKill>>

EnterLock(p) ==
    \E m \in Modes[p], nb \in NonBlocking[p] :
        MayWait(p) /\ Enter(p, [kind |-> "lock", mode |-> m, nb |-> nb])

EnterUnlock(p) ==
    \E m \in Modes[p] :
        MayUnlock(p, m) /\ Enter(p, [kind |-> "unlock", mode |-> m])

\* Fs_Close of the stream to the file; the process may open it again.
EnterLockClose(p) ==
    OwnedBy(p) # {} /\ MayClose(p) /\ Enter(p, [kind |-> "lockclose"])

EnterRead(p) ==
    \E n \in ReadSizes, nb \in NonBlocking[p] :
        /\ "READ" \in ends[p] /\ MayWait(p)
        /\ Enter(p, [kind |-> "read", len |-> n, nb |-> nb])

EnterWrite(p) ==
    \E n \in WriteSizes, nb \in NonBlocking[p] :
        /\ "WRITE" \in ends[p] /\ MayWait(p) /\ amount[p] + n <= MaxBytes
        /\ Enter(p, [kind |-> "write", len |-> n, nb |-> nb])

EnterSelect(p) ==
    \E d \in Selects \cap ends[p], nb \in NonBlocking[p] :
        MayWait(p) /\ Enter(p, [kind |-> "select", dir |-> d, nb |-> nb])

EnterClose(p) ==
    \E e \in ends[p] : Enter(p, [kind |-> "close", end |-> e])
-----------------------------------------------------------------------------
\* The operation of the call is tried on the server.
TryLock(p) ==
    /\ call[p].kind = "lock" /\ Fsio_Lock(p, call[p].mode)
    /\ UNCHANGED <<pipeVars, streamVars>>

TryUnlock(p) ==
    /\ call[p].kind = "unlock" /\ Fsio_Unlock(p, call[p].mode)
    /\ UNCHANGED <<pipeVars, streamVars>>

TryLockClose(p) ==
    /\ call[p].kind = "lockclose" /\ Fsio_LockClose(p)
    /\ UNCHANGED <<pipeVars, streamVars>>

TryRead(p) ==
    /\ call[p].kind = "read" /\ Fsio_PipeRead(p, call[p].len)
    /\ UNCHANGED <<lockVars, streamVars>>

TryWrite(p) ==
    /\ call[p].kind = "write" /\ Fsio_PipeWrite(p, call[p].len)
    /\ UNCHANGED <<lockVars, streamVars>>

TrySelect(p) ==
    /\ call[p].kind = "select" /\ Fsio_PipeSelect(p, call[p].dir)
    /\ UNCHANGED <<lockVars, streamVars>>

TryClose(p) ==
    /\ call[p].kind = "close" /\ Fsio_PipeClose(p, call[p].end)
    /\ UNCHANGED <<lockVars, streamVars>>

Try(p) ==
    \/ TryLock(p) \/ TryUnlock(p) \/ TryLockClose(p)
    \/ TryRead(p) \/ TryWrite(p) \/ TrySelect(p) \/ TryClose(p)

\* The process waits.
Wait(p) ==
    /\ Sync_ProcWait(p) \/ ProcWaitDone(p)
    /\ UNCHANGED <<lockVars, pipeVars, streamVars>>

Sig_Send(p) == Signal(p) /\ UNCHANGED <<lockVars, pipeVars, streamVars>>
-----------------------------------------------------------------------------
\* The notification loops, and what follows them.
LockLoop == (LockNotify \/ LockNotified) /\ UNCHANGED <<pipeVars, streamVars>>

PipeLoop ==
    (PipeNotify \/ PipeReadDone \/ PipeWriteDone \/ PipeCloseDone) /\ UNCHANGED <<lockVars, streamVars>>

-----------------------------------------------------------------------------
\* A client host goes down, its processes with it.
Crash(h) ==
    /\ h # Server /\ h \notin down /\ Cardinality(down) < MaxCrashes
    /\ \A p \in Procs : HostOf[p] = h => MayClose(p)
    /\ down' = down \cup {h} /\ fileKill' = fileKill \cup {h}
    /\ pipeKill' = pipeKill \cup {h}
    /\ pc' = [p \in Procs |-> IF HostOf[p] = h THEN "gone" ELSE pc[p]]
    /\ complete' = {p \in complete : HostOf[p] # h}
    /\ sigs' = {p \in sigs : HostOf[p] # h}
    /\ call' = [p \in Procs |-> IF HostOf[p] = h THEN NoCall ELSE call[p]]
    /\ UNCHANGED <<signals, waitList, lost, lockVars, pipeVars>>

\* The server finds out and cleans up, one handle after the other.
Cleaning == fileBy = Recov \/ (pipeOp # NoOp /\ pipeOp.by = Recov)

KillFile(h) ==
    /\ ~Cleaning /\ h \in fileKill /\ fileKill' = fileKill \ {h}
    /\ Fsio_LockClientKill(h)
    /\ UNCHANGED <<pipeVars, down, pipeKill>>

KillPipe(h) ==
    /\ ~Cleaning /\ h \in pipeKill /\ pipeKill' = pipeKill \ {h}
    /\ Fsio_PipeClientKill(Recov, h)
    /\ UNCHANGED <<lockVars, down, fileKill>>

Kernel(p) == Try(p) \/ Wait(p)

Next ==
    \/ \E p \in Procs :
          \/ EnterLock(p) \/ EnterUnlock(p) \/ EnterLockClose(p)
          \/ EnterRead(p) \/ EnterWrite(p) \/ EnterSelect(p) \/ EnterClose(p)
          \/ Kernel(p) \/ Sig_Send(p)
    \/ LockLoop \/ PipeLoop
    \/ \E h \in Hosts : Crash(h) \/ KillFile(h) \/ KillPipe(h)

Spec == Init /\ [][Next]_vars
-----------------------------------------------------------------------------
\* Nobody is notifying: the handles are unlocked.
Quiet(list) == IF list = "lock" THEN fileBy = Nobody ELSE pipeOp = NoOp

WaitsOn(p) ==
    CASE call[p].kind = "lock" -> "lock"
      [] call[p].kind = "read" -> "read"
      [] call[p].kind = "write" -> "write"
      [] call[p].kind = "select" -> IF call[p].dir = "READ" THEN "read" ELSE "write"

Blocks(p) ==
    CASE call[p].kind = "lock" -> LockBlocks(call[p].mode)
      [] call[p].kind = "read" -> ReadBlocks
      [] call[p].kind = "write" -> WriteBlocks
      [] call[p].kind = "select" -> IF call[p].dir = "READ" THEN ReadBlocks ELSE WriteBlocks

\* No wakeup is lost in the kernel: a process that waits in Sync_ProcWait, or is
\* on its way there, and has not been notified is on the wait list of its object
\* and the object is still in the state that made it wait.  This is what
\* SYNC_WAIT_COMPLETE and the notification under the handle lock are for.
SleeperMustWait ==
    \A p \in Procs \ (lost \cup complete) :
        pc[p] \in {"block", "asleep"} /\ Quiet(WaitsOn(p))
            => Contains(waitList[WaitsOn(p)], p) /\ Blocks(p)

\* Two processes own locks on the file at a time only if both locks are shared
\* ("Exclusive locks can't co-exist with any locks", Fsio_Lock), whatever was
\* closed, broken after a crash or retried in between.
LockExclusion ==
    \A i, j \in DOMAIN ownerList :
        i # j => ownerList[i].flags = "SHARED" /\ ownerList[j].flags = "SHARED"

\* A file that looks locked has an owner that can unlock it, or whose host is
\* being cleaned up after: otherwise every later lock call waits for ever.
NoPhantomLock ==
    \A m \in lockFlags : \E i \in DOMAIN ownerList :
        /\ ownerList[i].flags = m
        /\ HostOf[ownerList[i].proc] \notin down \ fileKill

\* The bytes that went into the pipe, in order: those that were read and those
\* that a read has not yet taken.
Stream ==
    LET taken == IF pipeOp # NoOp /\ pipeOp.kind = "read" THEN pipeOp.n ELSE 0
    IN  got \o BytesAfter(taken, InPipe - taken)

\* The bytes of process w among the first n of a stream.
BytesOf(w, s, n) == {j \in 1 .. n : s[j] # NoByte /\ s[j][1] = w}

\* The bytes of every writer come out of the pipe in the order in which it wrote
\* them, each of them once, across partial writes, waits and the wrap-around
\* of the ring: the byte that comes after k others of its writer is the writer's
\* byte k + 1, and all that Fs_Write has accounted for is there.
PipeFifo ==
    /\ \A i \in DOMAIN Stream : \E w \in Procs :
          Stream[i] = <<w, Cardinality(BytesOf(w, Stream, i - 1)) + 1>>
    /\ \A w \in Procs : Cardinality(BytesOf(w, Stream, Len(Stream))) = amount[w]

\* The flags say which end nobody holds any more, and the pipe is removed when
\* nobody holds either: neither a close nor the clean-up after a crash is
\* miscounted.
EndsAgree ==
    pipeOp = NoOp =>
        /\ "READER_GONE" \in pipeFlags <=> \A p \in Procs : "READ" \notin ends[p]
        /\ "WRITER_GONE" \in pipeFlags <=> \A p \in Procs : "WRITE" \notin ends[p]
        /\ removed <=> \A p \in Procs : ends[p] = {}
=============================================================================
