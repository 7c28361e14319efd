------------------------------- MODULE FsRecov -------------------------------
(***************************************************************************)
(* Crash recovery between a file server and one of its clients: the host   *)
(* tables of both (RecovHost), the re-open protocol of                     *)
(* fsutil/fsutilRecovery.c on the client and its server stubs, the         *)
(* processes that wait for recovery, and the opens that the prefix table   *)
(* keeps apart from re-opens (fsprefix/fsprefixOps.c).                     *)
(*                                                                         *)
(* The kernel does not preempt a process in kernel mode, so a step goes    *)
(* from one wait (for a reply, on a condition) to the next; a reply that   *)
(* has arrived may still have to wait for its process to run.  The client  *)
(* stays up.  Its prefix keeps its handle, so Fsprefix_Reopen does         *)
(* nothing.  Every handle carries one stream and has users, and no handle  *)
(* is locked while the table is scanned.                                   *)
(***************************************************************************)
EXTENDS RecovHost, Sequences, SequencesExt

CONSTANTS
    Readers,      \* processes of the client that read through the handles
    Openers,      \* processes of the client that open files
    Handles,      \* I/O handles of the client on files of the server
    Removable,    \* the handles whose file may be gone after a reboot
    MaxReboots,   \* bound: crashes of the server
    MaxCuts       \* bound: partitions of the network

Procs == Readers \cup Openers
CallBack == "callback"    \* the kernel process that runs the reboot call-backs
Reopen == "reopen"        \* the RPCs of the re-open in progress
Callers == Procs \cup {Reopen}

ASSUME RecovAssumption ==
    /\ {CallBack, Reopen} \cap Procs = {} /\ IsFiniteSet(Procs)
    /\ Handles # {} /\ Removable \subseteq Handles
    /\ MaxReboots \in Nat /\ MaxCuts \in Nat

VARIABLES
    link, cuts,   \* the network is whole; partitions so far
    up, boot,     \* state and boot time stamp of the server
    sv,           \* the server's entry for the client
    have,         \* I/O handles and streams the server keeps for the client
    cltRecov,     \* CLT_RECOV_IN_PROGRESS in the server's entry
    kills,        \* calls of Fsutil_RemoveClient that are running on the server
    cv,           \* the client's entry for the server
    rec,          \* the re-open in progress: SRV_RECOV_IN_PROGRESS
    cb,           \* what the reboot call-back is doing
    flags,        \* Fsutil_RecoveryInfo.flags of a handle
    invalid,      \* I/O handles and streams that are FS_HANDLE_INVALID
    pc, want,     \* what a process is doing, and with which handle
    why,          \* the status that sent a process to RecoveryWait
    opens, delay, \* activeOpens and delayOpens of the prefix
    rpc,          \* the RPC a caller waits for
    missed        \* history: see RecoveredIsOpen

netVars == <<link, cuts>>
srvVars == <<up, boot, sv, have, cltRecov, kills>>
prefixVars == <<opens, delay>>
procVars == <<pc, want, why>>
handleVars == <<flags, invalid>>
vars == <<netVars, srvVars, cv, rec, cb, handleVars, procVars, prefixVars, rpc, missed>>

Objects == Handles \X {"io", "stream"}
NoCall == [op |-> "none"]
NoReply == [status |-> "none"]
Call(op, h) == [op |-> op, h |-> h, reply |-> NoReply]
NoRec == [pass |-> "none"]
Statuses == {"SUCCESS", "TIMEOUT", "DISABLED", "STALE", "REMOVED", "FAILURE"}
Unserved == {"TIMEOUT", "DISABLED"}

\* The variables have their types, and the flags of the two protocols that say
\* that somebody is at work are set only while somebody is.
TypeOK ==
    /\ link \in BOOLEAN /\ cuts \in 0 .. MaxCuts
    /\ up \in {"down", "booting", "up"} /\ boot \in 1 .. MaxReboots + 1
    /\ IsEntry(sv) /\ IsEntry(cv) /\ Len(kills) <= sv.crashes
    /\ have \subseteq Objects /\ invalid \subseteq Objects
    /\ cltRecov \in BOOLEAN /\ delay \in BOOLEAN /\ missed \in BOOLEAN
    /\ \A i \in DOMAIN kills : kills[i] \subseteq Objects
    /\ flags \in [Handles -> SUBSET {"NEEDED", "COMPLETE", "FAILED"}]
    /\ pc \in [Procs -> {"idle", "call", "reopen", "wake", "wait", "openwait", "openok"}]
    /\ want \in [Procs -> Handles]
    /\ why \in [Procs -> {"none"} \cup Statuses]
    /\ opens = Cardinality({p \in Procs : rpc[p].op = "open"})
    /\ rec = NoRec \/ /\ rec.by \in Procs \cup {CallBack}
                      /\ rec.pass \in {"check", "io", "stream", "done"}
                      /\ rec.todo \subseteq Handles
    /\ cb \in {"none", "reopen", "wake", "done"}
    /\ (cb # "none") => "REBOOT_CALLBACKS" \in cv.state
    /\ \A a \in Callers : rpc[a] = NoCall \/ rpc[a].reply.status \in {"none"} \cup Statuses

Init ==
    /\ link = TRUE /\ cuts = 0 /\ up = "up" /\ boot = 1
    /\ sv = Entry({"ALIVE"}, 1, 0) /\ cv = Entry({"ALIVE"}, 1, 0)
    /\ have = Objects /\ cltRecov = FALSE /\ kills = <<>>
    /\ rec = NoRec /\ cb = "none"
    /\ flags = [h \in Handles |-> {}] /\ invalid = {}
    /\ pc = [p \in Procs |-> "idle"] /\ want \in [Procs -> Handles]
    /\ why = [p \in Procs |-> "none"]
    /\ opens = 0 /\ delay = FALSE
    /\ rpc = [a \in Callers |-> NoCall] /\ missed = FALSE
-----------------------------------------------------------------------------
(* The server.                                                             *)

Reachable == link /\ up # "down"

\* The server process may go past Recov_HostAlive: no crash call-back runs.
Admits == Reachable /\ "CRASH_CALLBACKS" \notin sv.state

Answer(a, status) ==
    rpc' = [rpc EXCEPT ![a].reply =
        [status |-> status, boot |-> boot, notActive |-> up = "booting"]]

Asked(a, op) == Admits /\ rpc[a] # NoCall /\ rpc[a].op = op /\ rpc[a].reply = NoReply

\* RpcServerDispatch's process: every request tells that the client is alive.
Heard == sv' = Recov_HostAlive(sv, 1, FALSE)

\* The service is off until the server has booted.
SrvDisabled(a) ==
    /\ Admits /\ up = "booting" /\ rpc[a] # NoCall /\ rpc[a].reply = NoReply
    /\ Heard /\ Answer(a, "DISABLED")
    /\ UNCHANGED <<up, boot, have, cltRecov, kills>>

\* Fsrmt_RpcRead: clientVerify of the I/O handle and of the stream.
SrvRead(a) ==
    /\ up = "up" /\ Asked(a, "read")
    /\ Heard
    /\ Answer(a, IF {<<rpc[a].h, "io">>, <<rpc[a].h, "stream">>} \subseteq have
                 THEN "SUCCESS" ELSE "STALE")
    /\ UNCHANGED <<up, boot, have, cltRecov, kills>>

\* Fsrmt_RpcReopen of an I/O handle.
SrvReopenIO(a) ==
    /\ up = "up" /\ Asked(a, "io")
    /\ Heard /\ cltRecov' = TRUE
    /\ \/ Answer(a, "SUCCESS") /\ have' = have \cup {<<rpc[a].h, "io">>}
       \/ rpc[a].h \in Removable /\ boot > 1 /\ Answer(a, "REMOVED") /\ UNCHANGED have
    /\ UNCHANGED <<up, boot, kills>>

\* Fsrmt_RpcReopen of a stream: Fsio_StreamReopen wants the I/O handle.
SrvReopenStream(a) ==
    /\ up = "up" /\ Asked(a, "stream")
    /\ Heard /\ cltRecov' = TRUE
    /\ IF <<rpc[a].h, "io">> \in have
       THEN Answer(a, "SUCCESS") /\ have' = have \cup {<<rpc[a].h, "stream">>}
       ELSE Answer(a, "FAILURE") /\ UNCHANGED have
    /\ UNCHANGED <<up, boot, kills>>

\* Fsutil_RpcRecovery.
SrvRecoveryDone(a) ==
    /\ up = "up" /\ Asked(a, "done")
    /\ Heard /\ cltRecov' = FALSE /\ Answer(a, "SUCCESS")
    /\ UNCHANGED <<up, boot, have, kills>>

\* Fsrmt_RpcOpen: no opens while the client recovers; clientVerify of the prefix.
SrvOpen(a) ==
    /\ up = "up" /\ Asked(a, "open")
    /\ Heard
    /\ Answer(a, IF cltRecov THEN "DISABLED"
                 ELSE IF <<rpc[a].h, "io">> \in have THEN "SUCCESS" ELSE "STALE")
    /\ UNCHANGED <<up, boot, have, cltRecov, kills>>

Serve(a) ==
    /\ \/ SrvDisabled(a) \/ SrvRead(a) \/ SrvReopenIO(a) \/ SrvReopenStream(a)
       \/ SrvRecoveryDone(a) \/ SrvOpen(a)
    /\ UNCHANGED <<netVars, cv, rec, cb, handleVars, procVars, prefixVars, missed>>

\* A call of the server to its client gets no answer: Recov_HostDead.
SrvCallTimesOut ==
    /\ up = "up" /\ ~link /\ "DEAD" \notin sv.state
    /\ sv' = Recov_HostDead(sv)
    /\ UNCHANGED <<netVars, up, boot, have, cltRecov, kills>>
    /\ UNCHANGED <<cv, rec, cb, handleVars, procVars, prefixVars, rpc, missed>>

\* A call of the server to its client succeeds: Recov_HostAlive, asynchronous.
SrvCallSucceeds ==
    /\ up = "up" /\ link
    /\ sv' = Recov_HostAlive(sv, 1, FALSE) /\ sv' # sv
    /\ UNCHANGED <<netVars, up, boot, have, cltRecov, kills>>
    /\ UNCHANGED <<cv, rec, cb, handleVars, procVars, prefixVars, rpc, missed>>

\* Fsutil_ClientCrashed begins; Fsutil_RemoveClient then scans the handles.
SrvClientCrashed ==
    /\ up = "up" /\ Len(kills) < sv.crashes
    /\ cltRecov' = FALSE /\ kills' = Append(kills, Objects)
    /\ UNCHANGED <<netVars, up, boot, sv, have>>
    /\ UNCHANGED <<cv, rec, cb, handleVars, procVars, prefixVars, rpc, missed>>

\* The clientKill procedure of one handle.
SrvClientKill(i) ==
    /\ up = "up" /\ \E o \in kills[i] :
          /\ kills' = [kills EXCEPT ![i] = @ \ {o}]
          /\ have' = have \ {o} /\ missed' = TRUE
    /\ UNCHANGED <<netVars, up, boot, sv, cltRecov>>
    /\ UNCHANGED <<cv, rec, cb, handleVars, procVars, prefixVars, rpc>>

\* The end of CrashCallBacks.
SrvCrashCallBacksDone(i) ==
    /\ up = "up" /\ kills[i] = {}
    /\ kills' = RemoveAt(kills, i)
    /\ sv' = MarkRecoveryComplete(sv)
    /\ UNCHANGED <<netVars, up, boot, have, cltRecov>>
    /\ UNCHANGED <<cv, rec, cb, handleVars, procVars, prefixVars, rpc, missed>>

\* Nobody on the server wants the call-backs when the client is back.
SrvRebootCallBacks ==
    /\ up # "down" /\ "REBOOT_CALLBACKS" \in sv.state
    /\ sv' = CallBacksDone(sv)
    /\ UNCHANGED <<netVars, up, boot, have, cltRecov, kills>>
    /\ UNCHANGED <<cv, rec, cb, handleVars, procVars, prefixVars, rpc, missed>>

\* The server crashes and loses what it knew.
SrvCrash ==
    /\ up # "down" /\ boot <= MaxReboots
    /\ up' = "down" /\ sv' = NoHost /\ have' = {} /\ cltRecov' = FALSE /\ kills' = <<>>
    /\ UNCHANGED <<netVars, boot>>
    /\ UNCHANGED <<cv, rec, cb, handleVars, procVars, prefixVars, rpc, missed>>

SrvBoot ==
    /\ up # "up"
    /\ IF up = "down" THEN up' = "booting" /\ boot' = boot + 1
                      ELSE up' = "up" /\ UNCHANGED boot
    /\ UNCHANGED <<netVars, sv, have, cltRecov, kills>>
    /\ UNCHANGED <<cv, rec, cb, handleVars, procVars, prefixVars, rpc, missed>>

Cut ==
    /\ link /\ cuts < MaxCuts /\ link' = FALSE /\ cuts' = cuts + 1
    /\ UNCHANGED <<srvVars, cv, rec, cb, handleVars, procVars, prefixVars, rpc, missed>>

Heal ==
    /\ ~link /\ link' = TRUE
    /\ UNCHANGED <<cuts, srvVars, cv, rec, cb, handleVars, procVars, prefixVars, rpc, missed>>
-----------------------------------------------------------------------------
(* The client: RPCs and the host table.                                    *)

\* Rpc_Call gives up.
RpcTimesOut(a) ==
    /\ ~Reachable /\ rpc[a] # NoCall /\ rpc[a].reply = NoReply
    /\ rpc' = [rpc EXCEPT ![a].reply = [status |-> "TIMEOUT"]]
    /\ UNCHANGED <<netVars, srvVars, cv, rec, cb, handleVars, procVars, prefixVars, missed>>

\* A reply is lost: the call is sent again, and may time out.
RpcLost(a) ==
    /\ ~Reachable /\ rpc[a] # NoCall /\ rpc[a].reply.status \notin {"none", "TIMEOUT"}
    /\ rpc' = [rpc EXCEPT ![a].reply = NoReply]
    /\ UNCHANGED <<netVars, srvVars, cv, rec, cb, handleVars, procVars, prefixVars, missed>>

Replied(a) == rpc[a] # NoCall /\ rpc[a].reply # NoReply
Status(a) == rpc[a].reply.status

\* The end of Rpc_Call.
Rpc_Call(a) ==
    IF Status(a) = "TIMEOUT" THEN Recov_HostDead(cv)
    ELSE Recov_HostAlive(cv, rpc[a].reply.boot, rpc[a].reply.notActive)

\* Recov_Proc pings the server; shown when it makes a difference.
Ping ==
    /\ \/ ~Reachable /\ cv' = Recov_HostDead(cv) /\ UNCHANGED sv
       \/ Admits /\ cv' = Recov_HostAlive(cv, boot, up = "booting") /\ Heard
    /\ cv' # cv
    /\ UNCHANGED <<netVars, up, boot, have, cltRecov, kills>>
    /\ UNCHANGED <<rec, cb, handleVars, procVars, prefixVars, rpc, missed>>

\* CrashCallBacks of the client for the server, which has no files of ours open.
CltCrashCallBacks ==
    /\ cv.crashes > 0 /\ cv' = MarkRecoveryComplete(cv)
    /\ UNCHANGED <<netVars, srvVars, rec, cb, handleVars, procVars, prefixVars, rpc, missed>>
-----------------------------------------------------------------------------
(* The client: Fsutil_Reopen.                                              *)

\* Fsutil_Reopen up to the wait of Fsprefix_RecoveryCheck.
Fsutil_Reopen(by) ==
    rec' = [by |-> by, pass |-> "check", todo |-> {}] /\ missed' = FALSE

CallNext(pass, todo, h) ==
    /\ rec' = [rec EXCEPT !.pass = pass, !.todo = todo]
    /\ rpc' = [rpc EXCEPT ![Reopen] = Call(pass, h)]

\* RecoveryDone, with the handles as they are.
RecoveryDone(f, bad) ==
    /\ flags' = f /\ invalid' = bad
    /\ CallNext("done", {}, CHOOSE h \in Handles : TRUE)

\* RecoveryNotify for one handle.
RecoveryNotify(fl) ==
    IF "COMPLETE" \in fl THEN fl \ {"COMPLETE", "NEEDED"} ELSE fl

\* The third pass of ReopenHandles.
NotifyPass(f, bad) ==
    RecoveryDone([h \in Handles |-> IF <<h, "io">> \in bad THEN f[h] ELSE RecoveryNotify(f[h])],
                 bad \cup {<<h, "io">> : h \in {x \in Handles : "FAILED" \in f[x]}})

\* The second pass goes on.
StreamPass(todo, f, bad) ==
    IF todo = {} THEN NotifyPass(f, bad)
    ELSE /\ flags' = f /\ invalid' = bad
         /\ \E h \in todo : CallNext("stream", todo \ {h}, h)

\* The first pass goes on, or the second begins: the streams of I/O handles that
\* could not be recovered are invalidated.
IOPass(todo, f, bad) ==
    LET failed == {h \in Handles : "FAILED" \in f[h]} IN
    IF todo = {} THEN StreamPass({h \in Handles \ failed : <<h, "stream">> \notin bad}, f,
                                 bad \cup {<<h, "stream">> : h \in failed})
    ELSE /\ flags' = f /\ invalid' = bad
         /\ \E h \in todo : CallNext("io", todo \ {h}, h)

\* RecoveryComplete.
RecoveryComplete(fl, status) ==
    fl \cup CASE status \in Unserved -> {}
              [] status = "SUCCESS" -> {"COMPLETE"}
              [] OTHER -> {"COMPLETE", "FAILED"}

\* Fsprefix_RecoveryCheck: the opens are over, and new ones are kept out.
Fsprefix_RecoveryCheck ==
    /\ rec # NoRec /\ rec.pass = "check" /\ opens = 0
    /\ delay' = TRUE
    /\ IOPass({h \in Handles : <<h, "io">> \notin invalid}, flags, invalid)
    /\ UNCHANGED <<netVars, srvVars, cv, cb, procVars, opens, missed>>

\* The reply to a re-open of an I/O handle.
IOReopened ==
    LET h == rpc[Reopen].h
        f == [flags EXCEPT ![h] = RecoveryComplete(@, Status(Reopen))] IN
    /\ rec # NoRec /\ rec.pass = "io" /\ Replied(Reopen)
    /\ cv' = Rpc_Call(Reopen)
    /\ IF Status(Reopen) \in Unserved THEN RecoveryDone(f, invalid)
       ELSE IOPass(rec.todo, f, invalid)
    /\ UNCHANGED <<netVars, srvVars, cb, procVars, prefixVars, missed>>

\* The reply to a re-open of a stream.
StreamReopened ==
    /\ rec # NoRec /\ rec.pass = "stream" /\ Replied(Reopen)
    /\ cv' = Rpc_Call(Reopen)
    /\ CASE Status(Reopen) = "SUCCESS" -> StreamPass(rec.todo, flags, invalid)
         [] Status(Reopen) \in Unserved -> RecoveryDone(flags, invalid)
         [] OTHER -> StreamPass(rec.todo, flags, invalid \cup {<<rpc[Reopen].h, "stream">>})
    /\ UNCHANGED <<netVars, srvVars, cb, procVars, prefixVars, missed>>

\* RecoveryDone returns; Fsprefix_AllowOpens; Recov_ClearClientState.
ReopenEnds ==
    /\ rec # NoRec /\ rec.pass = "done" /\ Replied(Reopen)
    /\ cv' = Rpc_Call(Reopen)
    /\ delay' = FALSE /\ rec' = NoRec /\ rpc' = [rpc EXCEPT ![Reopen] = NoCall]
    /\ cb' = IF rec.by = CallBack THEN "wake" ELSE cb
    /\ pc' = [p \in Procs |-> CASE p = rec.by -> "wake"
                                [] pc[p] = "openwait" -> "openok"
                                [] OTHER -> pc[p]]
    /\ UNCHANGED <<netVars, srvVars, handleVars, want, why, opens, missed>>

\* Proc_WakeupAllProcesses, then back to the call-back or to the process.
WakeupAllProcesses(by) ==
    /\ IF by = CallBack THEN cb = "wake" /\ cb' = "done"
                        ELSE pc[by] = "wake" /\ UNCHANGED cb
    /\ pc' = [p \in Procs |-> CASE p = by -> "wait"
                                [] pc[p] = "openwait" -> "openok"
                                [] OTHER -> pc[p]]
    /\ UNCHANGED <<netVars, srvVars, cv, rec, handleVars, want, why, prefixVars, rpc, missed>>

\* RecovRebootCallBacks calls Fsutil_Reopen, which does nothing if it is running.
RebootCallBack ==
    /\ cb = "none" /\ "REBOOT_CALLBACKS" \in cv.state
    /\ IF rec = NoRec THEN cb' = "reopen" /\ Fsutil_Reopen(CallBack)
       ELSE cb' = "done" /\ missed' = TRUE /\ UNCHANGED rec
    /\ UNCHANGED <<netVars, srvVars, cv, handleVars, procVars, prefixVars, rpc>>

RebootCallBacksDone ==
    /\ cb = "done" /\ cb' = "none"
    /\ cv' = CallBacksDone(cv)
    /\ UNCHANGED <<netVars, srvVars, rec, handleVars, procVars, prefixVars, rpc, missed>>
-----------------------------------------------------------------------------
(* The client: processes.                                                  *)

\* Fs_Read down to the RPC.
Fs_Read(p, h) ==
    /\ p \in Readers /\ pc[p] = "idle" /\ <<h, "io">> \notin invalid
    /\ pc' = [pc EXCEPT ![p] = "call"] /\ want' = [want EXCEPT ![p] = h]
    /\ rpc' = [rpc EXCEPT ![p] = Call("read", h)]
    /\ UNCHANGED <<netVars, srvVars, cv, rec, cb, handleVars, why, prefixVars, missed>>

\* The RPC of Fs_Read or FsrmtOpen returns: the process is done, or it has to
\* wait for recovery; on a stale handle it tries to recover itself.
Returns(p) ==
    LET h == want[p]
        seen == Rpc_Call(p)
        recovers == Status(p) = "STALE" /\ "DEAD" \notin seen.state /\ rec = NoRec IN
    /\ pc[p] = "call" /\ Replied(p)
    /\ cv' = seen /\ rpc' = [rpc EXCEPT ![p] = NoCall]
    /\ IF Status(p) = "SUCCESS"
       THEN /\ pc' = [pc EXCEPT ![p] = "idle"]
            /\ UNCHANGED <<flags, why, rec, missed>>
       ELSE /\ flags' = [flags EXCEPT ![h] = @ \cup {"NEEDED"}]
            /\ IF <<h, "io">> \in invalid
               THEN pc' = [pc EXCEPT ![p] = "idle"] /\ UNCHANGED <<why, rec, missed>>
               ELSE /\ why' = [why EXCEPT ![p] = Status(p)]
                    /\ IF recovers
                       THEN pc' = [pc EXCEPT ![p] = "reopen"] /\ Fsutil_Reopen(p)
                       ELSE pc' = [pc EXCEPT ![p] = "wait"] /\ UNCHANGED <<rec, missed>>
    /\ UNCHANGED <<netVars, srvVars, cb, invalid, want, delay>>

ReadReturns(p) == rpc[p].op = "read" /\ Returns(p) /\ UNCHANGED opens

\* RecoveryWait ends, and Fs_Read tries again.
RecoveryWait(p) ==
    /\ pc[p] = "wait" /\ "NEEDED" \notin flags[want[p]]
    /\ pc' = [pc EXCEPT ![p] = "idle"] /\ why' = [why EXCEPT ![p] = "none"]
    /\ UNCHANGED <<netVars, srvVars, cv, rec, cb, handleVars, want, prefixVars, rpc, missed>>

\* A signal ends the wait.
Interrupted(p) ==
    /\ pc[p] \in {"wait", "openwait"}
    /\ pc' = [pc EXCEPT ![p] = "idle"] /\ why' = [why EXCEPT ![p] = "none"]
    /\ UNCHANGED <<netVars, srvVars, cv, rec, cb, handleVars, want, prefixVars, rpc, missed>>

\* FsrmtOpen: Fsprefix_OpenCheck lets the open through, at once or after one wait.
Fsprefix_OpenCheck(p, h) ==
    /\ p \in Openers /\ <<h, "io">> \notin invalid
    /\ want' = [want EXCEPT ![p] = h]
    /\ \/ /\ pc[p] = "idle" /\ delay
          /\ pc' = [pc EXCEPT ![p] = "openwait"] /\ UNCHANGED <<opens, rpc>>
       \/ /\ (pc[p] = "openok" /\ h = want[p]) \/ (pc[p] = "idle" /\ ~delay)
          /\ pc' = [pc EXCEPT ![p] = "call"] /\ opens' = opens + 1
          /\ rpc' = [rpc EXCEPT ![p] = Call("open", h)]
    /\ UNCHANGED <<netVars, srvVars, cv, rec, cb, handleVars, why, delay, missed>>

\* Mutant: an open that fails is not taken back.
Fsprefix_OpenDoneLeaks(p) ==
    /\ rpc[p].op = "open" /\ Returns(p)
    /\ opens' = IF Status(p) = "SUCCESS" THEN opens - 1 ELSE opens

\* The end of FsrmtOpen, and what Fsprefix_LookupOperation makes of it.
Fsprefix_OpenDone(p) == rpc[p].op = "open" /\ Returns(p) /\ opens' = opens - 1

-----------------------------------------------------------------------------
Server ==
    \/ SrvClientCrashed \/ SrvRebootCallBacks
    \/ \E i \in DOMAIN kills : SrvClientKill(i) \/ SrvCrashCallBacksDone(i)
    \/ SrvBoot

Recovery ==
    \/ Ping \/ CltCrashCallBacks \/ RebootCallBack \/ RebootCallBacksDone
    \/ Fsprefix_RecoveryCheck \/ IOReopened \/ StreamReopened \/ ReopenEnds
    \/ \E by \in Procs \cup {CallBack} : WakeupAllProcesses(by)

Process(p) ==
    \/ ReadReturns(p) \/ RecoveryWait(p) \/ Fsprefix_OpenDone(p)
    \/ pc[p] = "openok" /\ Fsprefix_OpenCheck(p, want[p])

Faults == SrvCrash \/ Cut \/ SrvCallTimesOut

Next ==
    \/ Server \/ Recovery \/ Faults \/ Heal \/ SrvCallSucceeds
    \/ \E a \in Callers : Serve(a) \/ RpcTimesOut(a) \/ RpcLost(a)
    \/ \E p \in Procs :
          \/ Process(p) \/ Interrupted(p)
          \/ \E h \in Handles : Fs_Read(p, h) \/ Fsprefix_OpenCheck(p, h)

\* Processes that can run do so, the server boots, the network heals, RPCs are
\* answered or time out, and Recov_Proc goes on pinging.
Fairness ==
    /\ WF_vars(SrvClientCrashed) /\ WF_vars(SrvRebootCallBacks)
    /\ WF_vars(\E i \in DOMAIN kills : SrvClientKill(i) \/ SrvCrashCallBacksDone(i))
    /\ WF_vars(SrvBoot) /\ WF_vars(Heal)
    /\ WF_vars(Ping) /\ WF_vars(CltCrashCallBacks)
    /\ WF_vars(RebootCallBack \/ RebootCallBacksDone \/ WakeupAllProcesses(CallBack))
    /\ SF_vars(Fsprefix_RecoveryCheck)
    /\ WF_vars(IOReopened \/ StreamReopened \/ ReopenEnds)
    /\ \A a \in Callers : WF_vars(Serve(a)) /\ WF_vars(RpcTimesOut(a))
    /\ \A p \in Procs : WF_vars(Process(p)) /\ WF_vars(WakeupAllProcesses(p))

Spec == Init /\ [][Next]_vars

FairSpec == Spec /\ Fairness
-----------------------------------------------------------------------------
(* Properties.                                                             *)

\* Another round of call-backs is under way or will be.
WillRecover ==
    \/ "ALIVE" \notin cv.state
    \/ cv.state \cap {"WANT_RECOVERY", "REBOOT_CALLBACKS"} # {}

\* A process that waits for recovery because its RPC timed out can count on it:
\* the server is not yet up again, call-backs are due, or a re-open runs, which
\* notifies the handles it has passed (recovery.c, Recov_HostDead and CallBacksDone:
\* RECOV_FAILURE; fsutilRecovery.c, Fsutil_WaitForRecovery: "we depend on a
\* reboot callback to invoke Fsutil_Reopen").
TimeoutWaiterRecovers ==
    \A p \in Procs :
        (pc[p] = "wait" /\ "NEEDED" \in flags[want[p]] /\ why[p] = "TIMEOUT")
            => WillRecover \/ rec # NoRec

\* A client that holds the server to be up, knows its last reboot and has no
\* recovery to do has all its valid handles open on it.  Excepted are the two
\* cases a later stale handle has to reveal: the server dropped the client
\* without a crash of either, and the call-backs for a reboot found a re-open
\* running (fsutilRecovery.c, ReopenHandles; recovery.c, Recov_HostAlive).
RecoveredIsOpen ==
    (~missed /\ ~WillRecover /\ rec = NoRec /\ cv.bootID = boot /\ up = "up")
        => Objects \ invalid \subseteq have

\* The server turns the client's opens away only while the client still has a
\* message to send that ends it, or is going to recover once more: the flag
\* CLT_RECOV_IN_PROGRESS outlives no re-open (fsutilRecovery.c, RecoveryDone,
\* whose failure nobody looks at).
OpensShutOutBacked == cltRecov => rec # NoRec \/ WillRecover

\* Opens and re-opens do not overlap (fsprefixOps.c, Fsprefix_RecoveryCheck: "so
\* that opens and re-opens don't race").  Does not hold with an opener: an open
\* that has waited once is not held up again.
OpensDontRace ==
    opens > 0 => (rec = NoRec \/ rec.pass = "check")

\* A process that waits for recovery is woken in the end (fsutilRecovery.c,
\* Fsutil_WaitForRecovery: "Wait until recovery actions have completed").  Does
\* not hold: see the README.
WaitEnds == \A p \in Procs : pc[p] = "wait" ~> pc[p] # "wait"
=============================================================================
