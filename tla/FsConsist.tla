------------------------------ MODULE FsConsist ------------------------------
(***************************************************************************)
(* Cache consistency for one file (fsconsist/fsconsistCache.c), with the   *)
(* parts of the file system it protects: the open and close of a remote    *)
(* file (fsio/fsioFile.c, fsrmt/fsrmtFile.c) and the client's cached block *)
(* (fscache/fscacheOps.c).                                                 *)
(*                                                                         *)
(* The server keeps a list of the clients of the file.  An open walks down *)
(* the list and calls back the clients that must write back or stop        *)
(* caching; it gives up the monitor during each call-back and then waits   *)
(* for the clients to report that the work is done.  A call-back can       *)
(* overtake the reply to an earlier open; time stamps and version numbers  *)
(* are there to notice it.                                                 *)
(*                                                                         *)
(* The contents of a block are abstracted to whether they are the most     *)
(* recently written data of the file.                                      *)
(***************************************************************************)
EXTENDS Integers, Sequences, FiniteSets, SequencesExt

CONSTANTS
    Clients,      \* the hosts that use the file
    Slots,        \* the processes of one host
    Modes,        \* what a process may do: "read", "write", "exec", "stat"
    MaxOpens,     \* bound on the opens of a behaviour
    MaxTimeouts,  \* bound on the calls of ConsistTimeout that are queued at once
    DiskFull,     \* a write-back may fail for lack of disk space
    Scavenge,     \* clients reclaim the handles of files they do not use
    CleanReaders, \* a file is opened for reading only on hosts that have no
                  \* dirty blocks of it
    Overlap,      \* an open may come while another open of the file is under way
    Preempt       \* another process may run while a kernel routine is
                  \* between two monitors: it is FALSE if no malloc and no
                  \* monitor entry there ever blocks

NoClient == "none"

ASSUME ConsistAssumption ==
    /\ NoClient \notin Clients
    /\ Modes \subseteq {"read", "write", "exec", "stat"}
    /\ MaxOpens \in Nat
    /\ MaxTimeouts \in Nat
    /\ {DiskFull, Scavenge, CleanReaders, Overlap, Preempt} \subseteq BOOLEAN

Procs == Clients \X Slots
Host(p) == p[1]
NoProc == <<NoClient, NoClient>>

VARIABLES
    \* The processes that open the file.
    pc,          \* how far each of them is
    mode,        \* what it opens the file for
    opened,      \* what the server answered to its open
    opens,       \* number of opens so far
    \* The file handle on the server.
    use,         \* handlePtr->use
    version,     \* cacheInfo.version
    stamp,       \* openTimeStamp, the global time stamp
    diskFresh,   \* the server has the most recently written data
    \* Fsconsist_Info.
    clientList,  \* the clients in the list
    cltUse,      \* clientPtr->use
    cltCached,   \* clientPtr->cached
    cltStamp,    \* clientPtr->openTimeStamp
    lastWriter,  \* consistPtr->lastWriter
    msgList,     \* what each client has been told and has not reported yet
    holder,      \* the process that set FS_CONSIST_IN_PROGRESS
    error,       \* FS_CONSIST_ERROR
    timer,       \* FS_CONSIST_TIMEOUT
    timeouts,    \* calls of ConsistTimeout that have been queued, and are due
    \* Local to the loop of StartConsistency or Fsconsist_GetClientAttrs.
    next,        \* nextClientPtr, whose entry is locked
    cacheable,
    call,        \* the arguments of ClientCommand's RPC
    \* The clients.
    handle,      \* version, time stamp and cacheability in the client's handle
    block,       \* its cached block
    fresh,       \* the block is the most recently written data
    work,        \* calls of ProcessConsist that are queued
    reports      \* RPC_FS_CONSIST_REPLYs on their way

procVars == <<pc, mode, opened, opens>>
fileVars == <<use, version, stamp>>
listVars == <<clientList, cltUse, cltCached, cltStamp>>
infoVars == <<lastWriter, msgList, error>>
opVars == <<holder, timer, next, cacheable, call>>
cltVars == <<handle, block, fresh, diskFresh>>
msgVars == <<work, reports, timeouts>>
vars == <<procVars, fileVars, listVars, infoVars, opVars, cltVars, msgVars>>

-----------------------------------------------------------------------------
\* Use counts: references, writers and executers.
Kinds == {"ref", "write", "exec"}
NoUse == [k \in Kinds |-> 0]
UseOf(m) == [k \in Kinds |-> IF k \in {"ref", m} THEN 1 ELSE 0]
Plus(u, v) == [k \in Kinds |-> u[k] + v[k]]
Minus(u, v) == [k \in Kinds |-> u[k] - v[k]]

Flags == {"writeBack", "invalidate", "attrs"}
Messages == [to : Clients, flags : SUBSET Flags, stamp : 0 .. MaxOpens,
             version : 1 .. MaxOpens + 1]
NoCall == [to |-> NoClient, flags |-> {}, stamp |-> 0, version |-> 0]
NoHandle == [valid |-> FALSE, version |-> 0, stamp |-> 0, cacheable |-> FALSE]
NotOpened == [ok |-> FALSE, version |-> 0, stamp |-> 0, cacheable |-> FALSE]

TypeOK ==
    /\ pc \in [Procs -> {"idle", "sent", "named", "asleep", "awake", "calling",
                         "resume", "ending", "replies", "failed", "replied",
                         "returned", "open"}]
    /\ mode \in [Procs -> Modes \cup {"none"}]
    /\ opened \in [Procs -> [ok : BOOLEAN, version : 0 .. MaxOpens + 1,
                             stamp : 0 .. MaxOpens, cacheable : BOOLEAN]]
    /\ opens \in 0 .. MaxOpens
    /\ use \in [Kinds -> 0 .. MaxOpens]
    /\ version \in 1 .. MaxOpens + 1
    /\ stamp \in 0 .. MaxOpens
    /\ clientList \in Seq(Clients) /\ IsInjective(clientList)
    /\ cltUse \in [Clients -> [Kinds -> 0 .. MaxOpens]]
    /\ cltCached \in [Clients -> BOOLEAN]
    /\ cltStamp \in [Clients -> 0 .. MaxOpens]
    /\ lastWriter \in Clients \cup {NoClient}
    /\ msgList \in [Clients -> SUBSET Flags]
    /\ holder \in Procs \cup {NoProc}
    /\ {error, timer, cacheable, diskFresh} \subseteq BOOLEAN
    /\ timeouts \in 0 .. MaxTimeouts
    /\ next \in Clients \cup {NoClient}
    /\ call \in Messages \cup {NoCall}
    /\ handle \in [Clients -> [valid : BOOLEAN, version : 0 .. MaxOpens + 1,
                               stamp : 0 .. MaxOpens, cacheable : BOOLEAN]]
    /\ block \in [Clients -> {"none", "clean", "dirty"}]
    /\ fresh \in [Clients -> BOOLEAN]
    /\ work \subseteq Messages
    /\ reports \subseteq [from : Clients, stamp : 0 .. MaxOpens, ok : BOOLEAN]

\* Fsconsist_Init; no client knows the file.
Init ==
    /\ pc = [p \in Procs |-> "idle"]
    /\ mode = [p \in Procs |-> "none"]
    /\ opened = [p \in Procs |-> NotOpened]
    /\ opens = 0
    /\ use = NoUse /\ version = 1 /\ stamp = 0
    /\ clientList = <<>>
    /\ cltUse = [c \in Clients |-> NoUse]
    /\ cltCached = [c \in Clients |-> FALSE]
    /\ cltStamp = [c \in Clients |-> 0]
    /\ lastWriter = NoClient
    /\ msgList = [c \in Clients |-> {}]
    /\ holder = NoProc /\ error = FALSE /\ timer = FALSE /\ timeouts = 0
    /\ next = NoClient /\ cacheable = FALSE /\ call = NoCall
    /\ handle = [c \in Clients |-> NoHandle]
    /\ block = [c \in Clients |-> "none"]
    /\ fresh = [c \in Clients |-> FALSE]
    /\ diskFresh = TRUE
    /\ work = {} /\ reports = {}
-----------------------------------------------------------------------------
Listed(c) == c \in Range(clientList)

\* The loop over the list locks the entry it will look at next.
Locked(c) == next = c

AllReported == \A c \in Clients : msgList[c] = {}

\* List_Remove for the clients of S: the others stay, in their order; keep counts
\* off their places.
RemoveClients(S) ==
    LET left == {i \in DOMAIN clientList : clientList[i] \notin S} IN
    \E n \in 0 .. Len(clientList) : \E keep \in [1 .. n -> left] :
        /\ Range(keep) = left
        /\ \A a, b \in 1 .. n : a < b => keep[a] < keep[b]
        /\ clientList' = [a \in 1 .. n |-> clientList[keep[a]]]

\* REMOVE_CLIENT for the clients of S.
Unlist(S) ==
    /\ RemoveClients(S)
    /\ cltCached' = [c \in Clients |-> cltCached[c] /\ c \notin S]
    /\ cltStamp' = [c \in Clients |-> IF c \in S THEN 0 ELSE cltStamp[c]]

\* Fsconsist_IOClientKill for the clients of S: a locked entry stays, unused.
IOClientKill(S) ==
    /\ Unlist({c \in S : ~Locked(c)})
    /\ cltUse' = [c \in Clients |-> IF c \in S THEN NoUse ELSE cltUse[c]]

\* Fsconsist_Kill, and the loop of ConsistTimeout: the clients of S are
\* forgotten, with what they have not reported.
Kill(S) ==
    /\ IOClientKill(S)
    /\ lastWriter' = IF lastWriter \in S THEN NoClient ELSE lastWriter
    /\ msgList' = [c \in Clients |-> IF c \in S THEN {} ELSE msgList[c]]
-----------------------------------------------------------------------------
(***************************************************************************)
(* The server's side of an open.                                           *)
(***************************************************************************)

\* Some open has not given its process a stream yet.
Opening == \E p \in Procs : mode[p] # "stat" /\ pc[p] \notin {"idle", "open"}

\* FsrmtOpen up to the RPC, or the RPC to get the attributes of the file.
FsrmtOpen(p) ==
    /\ pc[p] = "idle" /\ opens < MaxOpens
    /\ \E m \in Modes :
          /\ Overlap \/ m = "stat" \/ ~Opening
          /\ CleanReaders => m \in {"write", "stat"} \/ block[Host(p)] # "dirty"
          /\ mode' = [mode EXCEPT ![p] = m]
    /\ opens' = opens + 1
    /\ pc' = [pc EXCEPT ![p] = "sent"]
    /\ UNCHANGED <<opened, fileVars, listVars, infoVars, opVars, cltVars, msgVars>>

\* FS_FILE_BUSY: a file is not executed and written at the same time.
FileBusy(m) ==
    \/ m = "exec" /\ use["write"] > 0
    \/ m = "write" /\ use["exec"] > 0

OpenBusy(p) ==
    /\ pc[p] = "sent" /\ FileBusy(mode[p])
    /\ pc' = [pc EXCEPT ![p] = "replied"]
    /\ opened' = [opened EXCEPT ![p] = NotOpened]
    /\ UNCHANGED <<mode, opens, fileVars, listVars, infoVars, opVars, cltVars, msgVars>>

\* Fsio_FileNameOpen before it unlocks the handle: the use counts and the
\* version change before the other clients are told.
Fsio_FileNameOpen(p) ==
    /\ pc[p] = "sent" /\ ~FileBusy(mode[p])
    /\ use' = IF mode[p] = "stat" THEN use ELSE Plus(use, UseOf(mode[p]))
    /\ version' = IF mode[p] = "write" THEN version + 1 ELSE version
    /\ pc' = [pc EXCEPT ![p] = "named"]
    /\ UNCHANGED <<mode, opened, opens, stamp, listVars, infoVars, opVars, cltVars, msgVars>>

\* Another client writes the file, or uses it while this one will write it.
Conflict(p, c) ==
    /\ c # Host(p)
    /\ \/ cltUse[c]["write"] > 0
       \/ cltUse[c]["ref"] > 0 /\ mode[p] = "write"

CacheableBy(p) == \A c \in Range(clientList) : ~Conflict(p, c)

\* Mutant: case 5 is missing, readers keep caching.
OpenCommandWriters(p, c, ok) ==
    IF c = Host(p) \/ ~cltCached[c] THEN {}
    ELSE IF ok
         THEN IF lastWriter # c THEN {}
              ELSE {"writeBack"} \cup (IF mode[p] = "write" THEN {"invalidate"} ELSE {})
         ELSE IF cltUse[c]["write"] > 0 THEN {"writeBack", "invalidate"} ELSE {}

\* What the loop of StartConsistency has for the client c, cases 1 to 6.
OpenCommand(p, c, ok) ==
    IF c = Host(p) \/ ~cltCached[c] THEN {}
    ELSE IF ok
         THEN IF lastWriter # c THEN {}
              ELSE {"writeBack"} \cup (IF mode[p] = "write" THEN {"invalidate"} ELSE {})
         ELSE IF cltUse[c]["write"] > 0 THEN {"writeBack", "invalidate"}
              ELSE IF cltUse[c]["ref"] > 0 THEN {"invalidate"} ELSE {}

\* What the loop of Fsconsist_GetClientAttrs has for it.
StatCommand(p, c) ==
    IF c # Host(p) /\ cltCached[c] /\ cltUse[c]["ref"] > 0 /\ cltUse[c]["exec"] = 0
    THEN {"attrs"} ELSE {}

Command(p, c, ok) ==
    IF mode[p] = "stat" THEN StatCommand(p, c) ELSE OpenCommand(p, c, ok)

\* Mutant: the list is not searched for an entry of the client.
UpdateListTwice(p, ok) ==
    LET c == Host(p) IN
    /\ clientList' = <<c>> \o clientList
    /\ cltUse' = [cltUse EXCEPT ![c] = Plus(@, UseOf(mode[p]))]
    /\ cltCached' = [cltCached EXCEPT ![c] = ok]
    /\ lastWriter' = IF ok /\ mode[p] = "write" THEN c ELSE lastWriter
    /\ stamp' = stamp + 1
    /\ cltStamp' = [cltStamp EXCEPT ![c] = stamp']

\* Mutant: the use of an earlier open is overwritten.
UpdateListFirstUse(p, ok) ==
    LET c == Host(p) IN
    /\ clientList' = IF Listed(c) THEN clientList ELSE <<c>> \o clientList
    /\ cltUse' = [cltUse EXCEPT ![c] = UseOf(mode[p])]
    /\ cltCached' = [cltCached EXCEPT ![c] = ok]
    /\ lastWriter' = IF ok /\ mode[p] = "write" THEN c ELSE lastWriter
    /\ stamp' = stamp + 1
    /\ cltStamp' = [cltStamp EXCEPT ![c] = stamp']

\* UpdateList: the client joins the list with the use of this open.
UpdateList(p, ok) ==
    LET c == Host(p) IN
    /\ clientList' = IF Listed(c) THEN clientList ELSE <<c>> \o clientList
    /\ cltUse' = [cltUse EXCEPT ![c] = Plus(@, UseOf(mode[p]))]
    /\ cltCached' = [cltCached EXCEPT ![c] = ok]
    /\ lastWriter' = IF ok /\ mode[p] = "write" THEN c ELSE lastWriter
    /\ stamp' = stamp + 1
    /\ cltStamp' = [cltStamp EXCEPT ![c] = stamp']

\* The entries from that of n to the end of the list.
From(n) == {i \in DOMAIN clientList :
                n # NoClient /\ \E j \in 1 .. i : clientList[j] = n}

\* The rest of the loop, as far as the next client that must be called back.
NextCommand(p, n, ok) ==
    \E i \in From(n) :
        LET c == clientList[i] IN
        /\ Command(p, c, ok) # {}
        /\ \A j \in From(n) : j < i => Command(p, clientList[j], ok) = {}
        /\ next' = IF i < Len(clientList) THEN clientList[i + 1] ELSE NoClient
        /\ call' = [to |-> c, flags |-> Command(p, c, ok), stamp |-> cltStamp[c],
                    version |-> version]
        /\ msgList' = [msgList EXCEPT ![c] = Command(p, c, ok)]
        /\ pc' = [pc EXCEPT ![p] = "calling"]
        /\ UNCHANGED <<listVars, lastWriter, stamp, timer>>

\* The loop ends: UpdateList, and EndConsistency up to its wait.
LastCommand(p, n, ok) ==
    /\ \A i \in From(n) : Command(p, clientList[i], ok) = {}
    /\ next' = NoClient
    /\ call' = NoCall
    /\ IF mode[p] = "stat" THEN UNCHANGED <<listVars, lastWriter, stamp>>
                            ELSE UpdateList(p, ok)
    /\ timer' = TRUE
    /\ pc' = [pc EXCEPT ![p] = "ending"]
    /\ UNCHANGED msgList

Continue(p, n, ok) == NextCommand(p, n, ok) \/ LastCommand(p, n, ok)

\* One operation at a time: the others sleep on consistDone.
AwaitConsistDone(p) ==
    /\ pc[p] \in {"named", "awake"} /\ holder # NoProc
    /\ pc' = [pc EXCEPT ![p] = "asleep"]
    /\ UNCHANGED <<mode, opened, opens, fileVars, listVars, infoVars, opVars, cltVars, msgVars>>

\* StartConsistency, or Fsconsist_GetClientAttrs, up to the first call-back.
StartConsistency(p) ==
    /\ pc[p] \in {"named", "awake"} /\ holder = NoProc
    /\ holder' = p
    /\ cacheable' = CacheableBy(p)
    /\ error' = FALSE
    /\ Continue(p, IF clientList = <<>> THEN NoClient ELSE Head(clientList), CacheableBy(p))
    /\ UNCHANGED <<mode, opened, opens, use, version, cltVars, msgVars>>

\* ClientCommand has its answer and has locked the monitor again.
ResumeConsistency(p) ==
    /\ pc[p] = "resume"
    /\ Continue(p, next, cacheable)
    /\ UNCHANGED <<mode, opened, opens, use, version, error, holder, cacheable, cltVars, msgVars>>

\* EndConsistency waits on repliesIn.
AwaitReplies(p) ==
    /\ pc[p] = "ending" /\ ~AllReported
    /\ pc' = [pc EXCEPT ![p] = "replies"]
    /\ UNCHANGED <<mode, opened, opens, fileVars, listVars, infoVars, opVars, cltVars, msgVars>>

\* The Fsio_FileState that a successful open returns: the version is read
\* now, the time stamp and the cacheability are those of UpdateList.
OpenReply ==
    [ok |-> TRUE, version |-> version, stamp |-> stamp, cacheable |-> cacheable]

\* Mutant: nobody is told that the operation is over.
EndConsistencySilent(p) ==
    /\ pc[p] \in {"ending", "replies"} /\ AllReported
    /\ holder' = NoProc
    /\ timer' = FALSE
    /\ error' = FALSE
    /\ cacheable' = FALSE
    /\ pc' = [pc EXCEPT ![p] = IF mode[p] = "stat" THEN "idle"
                               ELSE IF error THEN "failed" ELSE "replied"]
    /\ opened' = [opened EXCEPT ![p] =
                    IF mode[p] = "stat" \/ error THEN NotOpened
                    ELSE OpenReply]
    /\ UNCHANGED <<mode, opens, fileVars, listVars, lastWriter, msgList, next, call, cltVars, msgVars>>

\* The rest of EndConsistency, Fscache_GetCachedAttr and the reply.  The
\* version returned is that of now, not of Fsio_FileNameOpen.
EndConsistency(p) ==
    /\ pc[p] \in {"ending", "replies"} /\ AllReported
    /\ holder' = NoProc
    /\ timer' = FALSE
    /\ error' = FALSE
    /\ cacheable' = FALSE
    /\ pc' = [q \in Procs |->
                 IF q = p THEN IF mode[p] = "stat" THEN "idle"
                               ELSE IF error THEN "failed" ELSE "replied"
                 ELSE IF pc[q] = "asleep" THEN "awake" ELSE pc[q]]
    /\ opened' = [opened EXCEPT ![p] =
                    IF mode[p] = "stat" \/ error THEN NotOpened
                    ELSE OpenReply]
    /\ UNCHANGED <<mode, opens, fileVars, listVars, lastWriter, msgList, next, call, cltVars, msgVars>>

\* Fsio_FileNameOpen after FS_NO_DISK_SPACE: everything the client had open
\* is forgotten.
OpenFailed(p) ==
    /\ pc[p] = "failed"
    /\ Kill({Host(p)})
    /\ use' = Minus(use, cltUse[Host(p)])
    /\ pc' = [pc EXCEPT ![p] = "replied"]
    /\ UNCHANGED <<mode, opened, opens, version, stamp, error, opVars, cltVars, msgVars>>
-----------------------------------------------------------------------------
(***************************************************************************)
(* The call-back.                                                          *)
(***************************************************************************)

\* Fsprefix_OpenInProgress: FsrmtOpen of some process has not returned.
OpenInProgress(c) ==
    \E p \in Procs : /\ Host(p) = c /\ mode[p] # "stat"
                     /\ pc[p] \notin {"idle", "returned", "open"}

\* The message is about the state of the file that the client knows.
IsCurrent(c) ==
    /\ handle[c].valid
    /\ \/ handle[c].stamp = call.stamp
       \/ handle[c].version = call.version /\ "writeBack" \notin call.flags

\* Fsconsist_RpcConsist accepts the message.
ConsistAccepted(p) ==
    /\ pc[p] = "calling" /\ IsCurrent(call.to)
    /\ work' = work \cup {call}
    /\ pc' = [pc EXCEPT ![p] = "resume"]
    /\ UNCHANGED <<mode, opened, opens, fileVars, listVars, infoVars, opVars, cltVars, reports, timeouts>>

\* It returns FS_STALE_HANDLE, and ClientCommand forgets the client without
\* giving its references back to handlePtr->use.  (It returns FAILURE while
\* an open is in progress, and ClientCommand tries again.)
ConsistStale(p) ==
    /\ pc[p] = "calling" /\ ~IsCurrent(call.to) /\ ~OpenInProgress(call.to)
    /\ Kill({call.to})
    /\ pc' = [pc EXCEPT ![p] = "resume"]
    /\ UNCHANGED <<mode, opened, opens, fileVars, error, opVars, cltVars, msgVars>>

\* The write RPCs of a client that the server does not know are refused.
WriteBackFails(c) == block[c] = "dirty" /\ (DiskFull \/ ~Listed(c))
WriteBackWorks(c) == block[c] = "dirty" => Listed(c)

\* Fscache_Consist: the dirty block goes to the server, or is thrown away.
Fscache_Consist(c, flags) ==
    LET written == "writeBack" \in flags /\ block[c] = "dirty" IN
    /\ diskFresh' = IF written THEN fresh[c] ELSE diskFresh
    /\ IF "invalidate" \in flags
       THEN /\ block' = [block EXCEPT ![c] = "none"]
            /\ fresh' = [fresh EXCEPT ![c] = FALSE]
            /\ handle' = [handle EXCEPT ![c] = [@ EXCEPT !.cacheable = FALSE]]
       ELSE /\ block' = IF written THEN [block EXCEPT ![c] = "clean"] ELSE block
            /\ UNCHANGED <<fresh, handle>>

\* ProcessConsist does what the message says, and reports.
ProcessConsist(m) ==
    /\ m \in work /\ handle[m.to].valid
    /\ "writeBack" \in m.flags => WriteBackWorks(m.to)
    /\ Fscache_Consist(m.to, m.flags)
    /\ work' = work \ {m}
    /\ reports' = reports \cup {[from |-> m.to, stamp |-> m.stamp, ok |-> TRUE]}
    /\ UNCHANGED <<procVars, fileVars, listVars, infoVars, opVars, timeouts>>

\* The write-back fails; the blocks stay dirty.
ProcessConsistFails(m) ==
    LET c == m.to IN
    /\ m \in work /\ handle[c].valid
    /\ "writeBack" \in m.flags /\ WriteBackFails(c)
    /\ work' = work \ {m}
    /\ reports' = reports \cup {[from |-> c, stamp |-> m.stamp, ok |-> FALSE]}
    /\ handle' = IF "invalidate" \in m.flags
                 THEN [handle EXCEPT ![c] = [@ EXCEPT !.cacheable = FALSE]] ELSE handle
    /\ UNCHANGED <<procVars, fileVars, listVars, infoVars, opVars, block, fresh, diskFresh, timeouts>>

\* The handle has been scavenged meanwhile: nothing is done or reported.
ProcessConsistNoHandle(m) ==
    /\ m \in work /\ ~handle[m.to].valid
    /\ work' = work \ {m}
    /\ UNCHANGED <<procVars, fileVars, listVars, infoVars, opVars, cltVars, reports, timeouts>>

\* ProcessConsistReply for a report that is not expected.
ReportUnknown(r) ==
    /\ r \in reports /\ msgList[r.from] = {}
    /\ reports' = reports \ {r}
    /\ UNCHANGED <<procVars, fileVars, listVars, infoVars, opVars, cltVars, work, timeouts>>

ReportError(r) ==
    /\ r \in reports /\ msgList[r.from] # {} /\ ~r.ok
    /\ reports' = reports \ {r}
    /\ msgList' = [msgList EXCEPT ![r.from] = {}]
    /\ error' = TRUE
    /\ UNCHANGED <<procVars, fileVars, listVars, lastWriter, opVars, cltVars, work, timeouts>>

\* The client is done: it no longer has dirty blocks, or no longer caches.
ProcessConsistReply(r) ==
    LET c == r.from IN
    /\ r \in reports /\ msgList[c] # {} /\ r.ok
    /\ reports' = reports \ {r}
    /\ msgList' = [msgList EXCEPT ![c] = {}]
    /\ lastWriter' = IF "writeBack" \in msgList[c] /\ lastWriter = c
                     THEN NoClient ELSE lastWriter
    /\ IF Listed(c) /\ cltUse[c]["ref"] = 0 /\ lastWriter' # c
       THEN Unlist({c})
       ELSE /\ cltCached' = IF "invalidate" \in msgList[c]
                            THEN [cltCached EXCEPT ![c] = FALSE] ELSE cltCached
            /\ UNCHANGED <<clientList, cltStamp>>
    /\ UNCHANGED <<procVars, fileVars, cltUse, error, opVars, cltVars, work, timeouts>>

\* ConsistTimeoutIntr, a minute after EndConsistency began to wait.
ConsistTimeoutIntr ==
    /\ timer /\ timeouts < MaxTimeouts
    /\ timer' = FALSE
    /\ timeouts' = timeouts + 1
    /\ UNCHANGED <<procVars, fileVars, listVars, infoVars, holder, next, cacheable, call, cltVars, work, reports>>

\* ConsistTimeout forgets every client that has not reported.
ConsistTimeout ==
    /\ timeouts > 0
    /\ timeouts' = timeouts - 1
    /\ Kill({c \in Clients : msgList[c] # {}})
    /\ UNCHANGED <<procVars, fileVars, error, opVars, cltVars, work, reports>>

\* Fsconsist_NumClients, when Fsio_FileScavenge looks at the server's handle:
\* entries of clients without references are dropped.
Fsconsist_NumClients ==
    LET unused == {c \in Range(clientList) : cltUse[c]["ref"] = 0 /\ c # lastWriter}
    IN  /\ use["ref"] = 0 /\ holder = NoProc /\ unused # {}
        /\ Unlist(unused)
        /\ UNCHANGED <<procVars, fileVars, cltUse, infoVars, opVars, cltVars, msgVars>>
-----------------------------------------------------------------------------
(***************************************************************************)
(* The client's side of an open, its cache, and close.                     *)
(***************************************************************************)

\* FsrmtOpen returns (Fsprefix_OpenDone).
OpenReturned(p) ==
    /\ pc[p] = "replied"
    /\ pc' = [pc EXCEPT ![p] = IF opened[p].ok THEN "returned" ELSE "idle"]
    /\ UNCHANGED <<mode, opened, opens, fileVars, listVars, infoVars, opVars, cltVars, msgVars>>

OutOfDate(p) ==
    handle[Host(p)].version <
        (IF mode[p] = "write" THEN opened[p].version - 1 ELSE opened[p].version)

\* FsRmtFileHandleInit, with Fscache_UpdateFile for a handle that exists.
FsRmtFileHandleInit(p) ==
    LET c == Host(p) IN
    /\ pc[p] = "returned"
    /\ handle' = [handle EXCEPT ![c] =
                    [valid |-> TRUE, cacheable |-> opened[p].cacheable,
                     version |-> IF opened[p].version > @.version
                                 THEN opened[p].version ELSE @.version,
                     stamp |-> IF opened[p].stamp > @.stamp
                               THEN opened[p].stamp ELSE @.stamp]]
    /\ IF ~opened[p].cacheable \/ OutOfDate(p)
       THEN /\ block' = [block EXCEPT ![c] = "none"]
            /\ fresh' = [fresh EXCEPT ![c] = FALSE]
       ELSE UNCHANGED <<block, fresh>>
    /\ pc' = [pc EXCEPT ![p] = "open"]
    /\ opened' = [opened EXCEPT ![p] = NotOpened]
    /\ UNCHANGED <<mode, opens, fileVars, listVars, infoVars, opVars, diskFresh, msgVars>>

\* Fscache_Read of a block that is not in the cache.
Read(p) ==
    LET c == Host(p) IN
    /\ pc[p] = "open" /\ handle[c].cacheable /\ block[c] = "none" /\ Listed(c)
    /\ block' = [block EXCEPT ![c] = "clean"]
    /\ fresh' = [fresh EXCEPT ![c] = diskFresh]
    /\ UNCHANGED <<procVars, fileVars, listVars, infoVars, opVars, handle, diskFresh, msgVars>>

\* Fscache_Write into the cache, or a write RPC if the file is not cacheable.
Write(p) ==
    LET c == Host(p) IN
    /\ pc[p] = "open" /\ mode[p] = "write"
    /\ IF handle[c].cacheable
       THEN /\ block' = [block EXCEPT ![c] = "dirty"]
            /\ fresh' = [x \in Clients |-> x = c]
            /\ diskFresh' = FALSE
       ELSE /\ Listed(c)
            /\ fresh' = [x \in Clients |-> FALSE]
            /\ diskFresh' = TRUE
            /\ UNCHANGED block
    /\ UNCHANGED <<procVars, fileVars, listVars, infoVars, opVars, handle, msgVars>>

\* The block cleaner writes the block back after its delay.
DelayedWrite(c) ==
    /\ block[c] = "dirty" /\ Listed(c)
    /\ block' = [block EXCEPT ![c] = "clean"]
    /\ diskFresh' = fresh[c]
    /\ UNCHANGED <<procVars, fileVars, listVars, infoVars, opVars, handle, fresh, msgVars>>

\* A clean block gives way to another file.
Evict(c) ==
    /\ block[c] = "clean"
    /\ block' = [block EXCEPT ![c] = "none"]
    /\ fresh' = [fresh EXCEPT ![c] = FALSE]
    /\ UNCHANGED <<procVars, fileVars, listVars, infoVars, opVars, handle, diskFresh, msgVars>>

\* FsrmtFileScavenge: no users and nothing in the cache.
FsrmtFileScavenge(c) ==
    /\ Scavenge
    /\ handle[c].valid /\ block[c] = "none"
    /\ \A p \in Procs : Host(p) = c => pc[p] # "open"
    /\ handle' = [handle EXCEPT ![c] = NoHandle]
    /\ UNCHANGED <<procVars, fileVars, listVars, infoVars, opVars, block, fresh, diskFresh, msgVars>>

\* Mutant: a locked entry is removed.
IOClientCloseUnlocked(c, m, keep) ==
    LET left == Minus(cltUse[c], UseOf(m)) IN
    /\ cltUse' = [cltUse EXCEPT ![c] = left]
    /\ IF left["ref"] = 0 /\ (~keep \/ ~cltCached[c])
       THEN Unlist({c})
       ELSE UNCHANGED <<clientList, cltCached, cltStamp>>

\* Fsconsist_IOClientClose: an entry without users goes, unless it is locked
\* or is to be kept for what the client has in its cache.
IOClientClose(c, m, keep) ==
    LET left == Minus(cltUse[c], UseOf(m)) IN
    /\ cltUse' = [cltUse EXCEPT ![c] = left]
    /\ IF left["ref"] = 0 /\ (~keep \/ ~cltCached[c]) /\ ~Locked(c)
       THEN Unlist({c})
       ELSE UNCHANGED <<clientList, cltCached, cltStamp>>

\* Mutant: the entry of the last writer is removed as well.
Fsconsist_CloseForgets(c, m) == IOClientClose(c, m, FALSE)

\* The entry of the last writer is kept for its dirty blocks.
Fsconsist_Close(c, m) == IOClientClose(c, m, lastWriter = c)

\* Fsio_FileClose on the server; it fails for a client that it does not know
\* and on a bad close of a file that is not being executed.
Fsio_FileClose(c, m) ==
    IF Listed(c) /\ (m = "exec" => cltUse[c]["exec"] > 0)
    THEN Fsconsist_Close(c, m) /\ use' = Minus(use, UseOf(m))
    ELSE UNCHANGED <<listVars, use>>

\* FsrmtFileClose.  The client's handle is locked throughout, so that no
\* call-back comes between it and the server's part.
FsrmtFileClose(p) ==
    /\ pc[p] = "open"
    /\ pc' = [pc EXCEPT ![p] = "idle"]
    /\ Fsio_FileClose(Host(p), mode[p])
    /\ UNCHANGED <<mode, opened, opens, version, stamp, infoVars, opVars, cltVars, msgVars>>
-----------------------------------------------------------------------------
\* Between two monitors a kernel routine keeps the processor unless Preempt;
\* inside one it does not let go of the monitor.
Unfinished(p) ==
    \/ pc[p] = "ending"
    \/ ~Preempt /\ pc[p] \in {"named", "returned"}

Finish(p) ==
    \/ AwaitConsistDone(p) \/ StartConsistency(p) \/ AwaitReplies(p)
    \/ EndConsistency(p) \/ FsRmtFileHandleInit(p)

Server(p) ==
    \/ OpenBusy(p) \/ Fsio_FileNameOpen(p) \/ ResumeConsistency(p) \/ OpenFailed(p)
    \/ ConsistAccepted(p) \/ ConsistStale(p) \/ OpenReturned(p) \/ Finish(p)

Callback ==
    \/ \E m \in work : ProcessConsist(m) \/ ProcessConsistFails(m) \/ ProcessConsistNoHandle(m)
    \/ \E r \in reports : ReportUnknown(r) \/ ReportError(r) \/ ProcessConsistReply(r)

Client(c) == DelayedWrite(c) \/ Evict(c) \/ FsrmtFileScavenge(c)

User(p) == FsrmtOpen(p) \/ Read(p) \/ Write(p) \/ FsrmtFileClose(p)

Next ==
    \/ \E p \in Procs : Unfinished(p) /\ Finish(p)
    \/ /\ \A p \in Procs : ~Unfinished(p)
       /\ \/ \E p \in Procs : Server(p) \/ User(p)
          \/ Callback
          \/ ConsistTimeoutIntr \/ ConsistTimeout \/ Fsconsist_NumClients
          \/ \E c \in Clients : Client(c)

Spec == Init /\ [][Next]_vars

\* The kernel processes run, and the timer expires.
Fairness ==
    /\ \A p \in Procs : WF_vars(Server(p))
    /\ WF_vars(Callback)
    /\ WF_vars(ConsistTimeoutIntr) /\ WF_vars(ConsistTimeout)

FairSpec == Spec /\ Fairness
-----------------------------------------------------------------------------
(***************************************************************************)
(* Properties.                                                             *)
(***************************************************************************)

\* What a read on the client c returns.
ReadsFresh(c) ==
    IF handle[c].cacheable /\ block[c] # "none" THEN fresh[c] ELSE diskFresh

\* "Sprite guarantees that whenever a process reads data from a file, it
\* receives the most recently written data": a process that has the file open
\* sees every write, wherever it was made.
FreshReads == \A p \in Procs : pc[p] = "open" => ReadsFresh(Host(p))

\* The server knows whom to ask for dirty blocks: whoever has some is the last
\* writer, or has been told to write them back.
DirtyIsKnown ==
    \A c \in Clients :
        block[c] = "dirty" =>
            Listed(c) /\ (lastWriter = c \/ "writeBack" \in msgList[c])

\* The pointer to the next entry that the loops keep while ClientCommand has
\* released the monitor does not dangle.
NextIsListed == next # NoClient => Listed(next)

\* Opens that are counted in the handle and not yet in the client list.
Arriving == {p \in Procs : /\ mode[p] # "stat"
                           /\ pc[p] \in {"named", "asleep", "awake", "calling", "resume"}}

\* The uses of a kind that the entries of the clients count, one by one: the first
\* to the last of each client.
ClientUses(k) == {u \in Clients \X (1 .. MaxOpens) : u[2] <= cltUse[u[1]][k]}

\* The summary use counts of the handle, on which FS_FILE_BUSY and the deletion
\* of the file depend, are the sum of those of the clients.
UseCountsAgree ==
    \A k \in Kinds :
        use[k] = Cardinality(ClientUses(k))
                 + Cardinality({p \in Arriving : UseOf(mode[p])[k] = 1})

\* An open gets its answer.
OpenReturns == \A p \in Procs : pc[p] = "sent" ~> pc[p] \in {"open", "idle"}
=============================================================================
