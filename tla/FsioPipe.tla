------------------------------- MODULE FsioPipe -------------------------------
(***************************************************************************)
(* A pipe, kept by the host where it was created (fsio/fsioPipe.c).        *)
(*                                                                         *)
(* The pipe is one block used as a ring.  firstByte and lastByte float out *)
(* past its size and are masked when the ring is addressed; both are -1    *)
(* when the pipe is empty.  Every operation runs with the handle of the    *)
(* pipe locked, and the waiters are notified, by RPC if they are remote,   *)
(* before firstByte or lastByte is updated.                                *)
(*                                                                         *)
(* The k-th byte that process p passes to Fs_Write is <<p, k>>.            *)
(***************************************************************************)
EXTENDS SyncWait

CONSTANTS
    BlockSize,   \* FS_BLOCK_SIZE, a power of two
    IntRange,    \* number of values of an int, a multiple of BlockSize
    EndsOf,      \* the ends of the pipe each process has at first
    NoOp         \* no operation is in its notification loop

ASSUME PipeAssumption ==
    /\ BlockSize \in Nat \ {0}
    /\ IntRange \in Nat \ {0} /\ IntRange % (2 * BlockSize) = 0
    /\ EndsOf \in [Procs -> SUBSET {"READ", "WRITE"}]

VARIABLES
    firstByte, lastByte,
    buffer,      \* the ring
    pipeFlags,   \* a subset of {"WRITER_GONE", "READER_GONE"}
    use,         \* handlePtr->use: number of references and of writers
    ends,        \* the client list: the ends the server knows of, per process
    removed,     \* Fsutil_HandleRemove was called
    pipeOp,      \* the operation that has the handle locked and notifies
    amount,      \* bytes of each process that Fs_Write has advanced over
    got          \* history: the bytes that were read, in order

pipeVars == <<firstByte, lastByte, buffer, pipeFlags, use, ends, removed,
              pipeOp, amount, got>>

Readers == {p \in Procs : "READ" \in EndsOf[p]}
Writers == {p \in Procs : "WRITE" \in EndsOf[p]}

NoByte == <<>>

\* An operation in its notification loop: who, what, how many bytes, which list,
\* and for a write whether it was cut short.
PipeOps ==
    [by: Procs, kind: {"read"}, n: Nat, list: {"write"}]
        \cup [by: Procs, kind: {"write"}, n: Nat, list: {"read"}, more: BOOLEAN]
        \cup [by: Procs \cup {Recov}, kind: {"close"}, n: {0}, list: {"read", "write", "none"}]

ASSUME NoOpAssumption == NoOp \notin PipeOps

PipeTypeOK ==
    /\ firstByte \in Int /\ lastByte \in Int
    /\ buffer \in [0 .. BlockSize - 1 -> (Procs \X Nat) \cup {NoByte}]
    /\ pipeFlags \subseteq {"WRITER_GONE", "READER_GONE"}
    /\ use \in [ref: Nat, write: Nat]
    /\ ends \in [Procs -> SUBSET {"READ", "WRITE"}]
    /\ removed \in BOOLEAN
    /\ pipeOp \in PipeOps \cup {NoOp}
    /\ amount \in [Procs -> Nat]
    /\ got \in Seq(Procs \X Nat)

PipeInit ==
    /\ firstByte = -1 /\ lastByte = -1
    /\ buffer = [i \in 0 .. BlockSize - 1 |-> NoByte]
    /\ pipeFlags = {}
    /\ use = [ref |-> Cardinality(Readers) + Cardinality(Writers),
              write |-> Cardinality(Writers)]
    /\ ends = EndsOf
    /\ removed = FALSE
    /\ pipeOp = NoOp
    /\ amount = [p \in Procs |-> 0]
    /\ got = <<>>
-----------------------------------------------------------------------------
\* Arithmetic on an int that wraps around.
AsInt(x) == ((x + IntRange \div 2) % IntRange) - IntRange \div 2

\* x & FS_BLOCK_OFFSET_MASK
Masked(x) == x % BlockSize

InPipe == IF firstByte = -1 THEN 0 ELSE AsInt(lastByte - firstByte + 1)

\* Mutant: the last byte is not counted.
RoomPlusOne == IF firstByte = -1 THEN BlockSize ELSE BlockSize - InPipe + 1

\* Fsio_PipeWrite: the number of bytes that will fit in the pipe.
Room == BlockSize - InPipe

\* When Fsio_PipeRead, Fsio_PipeWrite and Fsio_PipeSelect answer
\* FS_WOULD_BLOCK or clear the bit.  Fsio_PipeSelect has its own idea of full.
ReadBlocks == firstByte = -1 /\ "WRITER_GONE" \notin pipeFlags
WriteBlocks == Room = 0 /\ "READER_GONE" \notin pipeFlags
SelectWriteBlocks ==
    Masked(firstByte + 1) = lastByte /\ "READER_GONE" \notin pipeFlags

\* The operation waits in its notification loop with the handle locked.
PipeNotifying(p, o) ==
    /\ pipeOp' = o
    /\ pc' = IF p \in Procs THEN [pc EXCEPT ![p] = "serve"] ELSE pc
    /\ UNCHANGED <<call, complete, sigs, signals, waitList, lost>>

\* The n bytes of the ring after the first k of the pipe, in order.
BytesAfter(k, n) == [i \in 1 .. n |-> buffer[Masked(firstByte + k + i - 1)]]

\* The ring without its first n bytes.
Without(n) ==
    [i \in 0 .. BlockSize - 1 |->
        IF \E j \in 1 .. n : Masked(firstByte + j - 1) = i THEN NoByte ELSE buffer[i]]

\* Fsio_PipeRead of at most len bytes.  An empty pipe without a writer is the end
\* of the file.
Fsio_PipeRead(p, len) ==
    /\ pc[p] = "try" /\ pipeOp = NoOp
    /\ \/ /\ ReadBlocks
          /\ WouldBlock("read", p, call[p])
          /\ UNCHANGED <<complete, signals, lost, got, pipeOp>>
       \/ /\ firstByte = -1 /\ "WRITER_GONE" \in pipeFlags
          /\ Return(p)
          /\ UNCHANGED <<complete, signals, waitList, lost, got, pipeOp>>
       \/ /\ firstByte # -1
          /\ LET n == IF InPipe > len THEN len ELSE InPipe IN
             /\ got' = got \o BytesAfter(0, n)
             /\ PipeNotifying(p, [by |-> p, kind |-> "read", n |-> n, list |-> "write"])
    /\ UNCHANGED <<firstByte, lastByte, buffer, pipeFlags, use, ends, removed, amount>>

\* Mutant: the pipe is emptied as soon as the indices meet.
EmptiedEarly(f) == f >= lastByte

\* Fsio_PipeRead has taken the last byte: firstByte went past it.
Emptied(f) == f > lastByte

\* Fsio_PipeRead after the notification: the indices are updated.
PipeReadDone ==
    /\ pipeOp # NoOp /\ pipeOp.kind = "read" /\ waitList["write"] = <<>>
    /\ LET f == AsInt(firstByte + pipeOp.n) IN
       IF Emptied(f)
       THEN firstByte' = -1 /\ lastByte' = -1
       ELSE firstByte' = f /\ UNCHANGED lastByte
    /\ pipeOp' = NoOp
    /\ IF pc[pipeOp.by] = "serve" THEN Return(pipeOp.by) ELSE UNCHANGED <<pc, call, sigs>>
    /\ UNCHANGED <<complete, signals, waitList, lost>>
    /\ buffer' = Without(pipeOp.n)
    /\ UNCHANGED <<pipeFlags, use, ends, removed, amount, got>>

\* Fsio_PipeWrite of len bytes: what fits is copied into the ring.
Fsio_PipeWrite(p, len) ==
    /\ pc[p] = "try" /\ pipeOp = NoOp
    /\ \/ /\ "READER_GONE" \in pipeFlags      \* FS_BROKEN_PIPE
          /\ Return(p)
          /\ UNCHANGED <<complete, signals, waitList, lost, buffer, pipeOp>>
       \/ /\ WriteBlocks
          /\ WouldBlock("write", p, call[p])
          /\ UNCHANGED <<complete, signals, lost, buffer, pipeOp>>
       \/ /\ "READER_GONE" \notin pipeFlags /\ Room # 0
          /\ LET n == IF Room > len THEN len ELSE Room
                 At(j) == Masked(lastByte + j)
             IN
             /\ buffer' = [i \in 0 .. BlockSize - 1 |->
                             IF \E j \in 1 .. n : At(j) = i
                             THEN <<p, amount[p] + CHOOSE j \in 1 .. n : At(j) = i>>
                             ELSE buffer[i]]
             /\ PipeNotifying(p, [by |-> p, kind |-> "write", n |-> n, list |-> "read",
                                  more |-> len > n])
    /\ UNCHANGED <<firstByte, lastByte, pipeFlags, use, ends, removed, amount, got>>

\* Fs_Write: toWrite -= reply.length.
Rest(p) == [kind |-> "write", len |-> call[p].len - pipeOp.n, nb |-> call[p].nb]

\* Fsio_PipeWrite after the notification, and Fs_Write's account of it: when
\* some data is left the process waits for room.
PipeWriteDone ==
    /\ pipeOp # NoOp /\ pipeOp.kind = "write" /\ waitList["read"] = <<>>
    /\ firstByte' = IF firstByte = -1 THEN 0 ELSE firstByte
    /\ lastByte' = AsInt(lastByte + pipeOp.n)
    /\ pipeOp' = NoOp
    /\ LET p == pipeOp.by IN
       /\ amount' = [amount EXCEPT ![p] = @ + pipeOp.n]
       /\ \/ pc[p] # "serve" /\ ~pipeOp.more /\ UNCHANGED <<pc, call, sigs, waitList>>
          \/ /\ pc[p] # "serve" /\ pipeOp.more
             /\ Fsutil_FastWaitListInsert("write", p) /\ UNCHANGED <<pc, call, sigs>>
          \/ pc[p] = "serve" /\ pipeOp.more /\ WouldBlock("write", p, Rest(p))
          \/ pc[p] = "serve" /\ ~pipeOp.more /\ Return(p) /\ UNCHANGED waitList
    /\ UNCHANGED <<complete, signals, lost>>
    /\ UNCHANGED <<buffer, pipeFlags, use, ends, removed, got>>

\* Fsio_PipeSelect, called by Fs_Select for one direction.
Fsio_PipeSelect(p, dir) ==
    /\ pc[p] = "try" /\ pipeOp = NoOp
    /\ LET blocks == IF dir = "READ" THEN ReadBlocks ELSE SelectWriteBlocks
           list == IF dir = "READ" THEN "read" ELSE "write"
       IN \/ blocks /\ WouldBlock(list, p, call[p])
          \/ ~blocks /\ Return(p) /\ UNCHANGED waitList
    /\ UNCHANGED <<complete, signals, lost, pipeVars>>
-----------------------------------------------------------------------------
\* Mutant: the readers are gone only when nobody is left.
ReadersGoneLate(u) == u.ref = 0

\* The references that are left are all writers.
ReadersGone(u) == u.ref = u.write

\* PipeCloseInt up to the notification.  The two ends are told apart by the
\* counts alone, and at most one flag is set by a call.
PipeCloseInt(by, ref, write) ==
    /\ use' = [ref |-> use.ref - ref, write |-> use.write - write]
    /\ LET flag == IF write > 0 /\ use'.write = 0 THEN {"WRITER_GONE"}
                   ELSE IF ref > 0 /\ ReadersGone(use') THEN {"READER_GONE"}
                   ELSE {}
       IN
       /\ pipeFlags' = pipeFlags \cup flag
       /\ PipeNotifying(by, [by |-> by, kind |-> "close", n |-> 0,
                             list |-> IF flag = {"WRITER_GONE"} THEN "read"
                                      ELSE IF flag = {"READER_GONE"} THEN "write"
                                      ELSE "none"])

\* Fsio_PipeClose of one end of the process.
Fsio_PipeClose(p, end) ==
    /\ pc[p] = "try" /\ pipeOp = NoOp
    /\ end \in ends[p]
    /\ ends' = [ends EXCEPT ![p] = @ \ {end}]
    /\ PipeCloseInt(p, 1, IF end = "WRITE" THEN 1 ELSE 0)
    /\ UNCHANGED <<firstByte, lastByte, buffer, removed, amount, got>>

\* Fsio_PipeClientKill: all the ends of a host are closed in one call.
Fsio_PipeClientKill(by, h) ==
    /\ pipeOp = NoOp
    /\ LET ofHost(end) == {p \in Procs : HostOf[p] = h /\ end \in ends[p]} IN
       PipeCloseInt(by, Cardinality(ofHost("READ")) + Cardinality(ofHost("WRITE")),
                        Cardinality(ofHost("WRITE")))
    /\ ends' = [p \in Procs |-> IF HostOf[p] = h THEN {} ELSE ends[p]]
    /\ UNCHANGED <<firstByte, lastByte, buffer, removed, amount, got>>

\* The end of PipeCloseInt: without readers and writers the pipe is removed.
PipeCloseDone ==
    /\ pipeOp # NoOp /\ pipeOp.kind = "close"
    /\ pipeOp.list \in Lists => waitList[pipeOp.list] = <<>>
    /\ IF pipeFlags = {"WRITER_GONE", "READER_GONE"}
       THEN /\ removed' = TRUE
            /\ waitList' = [waitList EXCEPT !["read"] = <<>>, !["write"] = <<>>]
       ELSE UNCHANGED <<removed, waitList>>
    /\ pipeOp' = NoOp
    /\ IF pipeOp.by \in Procs /\ pc[pipeOp.by] = "serve"
       THEN Return(pipeOp.by)
       ELSE UNCHANGED <<pc, call, sigs>>
    /\ UNCHANGED <<complete, signals, lost>>
    /\ UNCHANGED <<firstByte, lastByte, buffer, pipeFlags, use, ends, amount, got>>

\* One waiter of the list of the operation is notified.
PipeNotify ==
    /\ pipeOp # NoOp /\ pipeOp.list \in Lists
    /\ NotifyFirst(pipeOp.list)
    /\ UNCHANGED pipeVars
=============================================================================
