------------------------------- MODULE SyncWait -------------------------------
(***************************************************************************)
(* Remote waiting: how a process waits for an object that another host     *)
(* keeps (sync/syncLock.c, fsutil/fsutilNotify.c).                         *)
(*                                                                         *)
(* An operation that cannot proceed puts the process on a wait list of the *)
(* object and answers FS_WOULD_BLOCK; the process then calls Sync_ProcWait *)
(* and, once woken, tries again.  Whoever changes the object notifies      *)
(* every process of the list, over the network if need be, and empties it. *)
(* The wakeup can arrive before the process sleeps: SYNC_WAIT_COMPLETE     *)
(* remembers it.  The wait token is passed around but ProcessWakeup        *)
(* ignores it, so it is not part of the model.                             *)
(*                                                                         *)
(* Everything between MASTER_LOCK(sched_MutexPtr) and MASTER_UNLOCK is one *)
(* atomic action.                                                          *)
(***************************************************************************)
EXTENDS Integers, Sequences, FiniteSets, SequencesExt

CONSTANTS
    Procs,       \* processes
    Hosts,       \* hosts
    HostOf,      \* the host of each process
    Server,      \* the host that keeps the objects (rpc_SpriteID there)
    Recov,       \* its recovery module: the actor that cleans up after a crash
    Lists,       \* names of the wait lists
    MaxUpsets    \* bound: signals sent, plus RPC_REMOTE_WAKEUPs that are lost

ASSUME WaitAssumption ==
    /\ HostOf \in [Procs -> Hosts]
    /\ Server \in Hosts
    /\ IsFiniteSet(Procs) /\ Recov \notin Procs
    /\ MaxUpsets \in Nat

VARIABLES
    pc,        \* where each process is, see ProcStates
    call,      \* the system call it is in, and the arguments
    complete,  \* processes with SYNC_WAIT_COMPLETE set
    sigs,      \* processes with a signal pending
    signals,   \* signals sent so far
    waitList,  \* the Sync_RemoteWaiter lists of the objects
    lost       \* history: processes whose wakeup was lost on the network

waitVars == <<pc, call, complete, sigs, signals, waitList, lost>>

\* "user": not in a system call; "try": about to try the operation; "serve":
\* the server is in the operation and notifies a wait list; "block": the answer
\* was FS_WOULD_BLOCK; "asleep": PROC_WAITING in Sync_ProcWait; "woken":
\* PROC_READY there; "gone": the host has crashed.
ProcStates == {"user", "try", "serve", "block", "asleep", "woken", "gone"}

NoCall == [kind |-> "none"]

WaitTypeOK ==
    /\ pc \in [Procs -> ProcStates]
    /\ complete \subseteq Procs
    /\ sigs \subseteq Procs
    /\ signals \in 0 .. MaxUpsets
    /\ waitList \in [Lists -> Seq(Procs)]
    /\ lost \subseteq Procs

WaitInit ==
    /\ pc = [p \in Procs |-> "user"]
    /\ call = [p \in Procs |-> NoCall]
    /\ complete = {}
    /\ sigs = {}
    /\ signals = 0
    /\ waitList = [l \in Lists |-> <<>>]
    /\ lost = {}
-----------------------------------------------------------------------------
\* Back in the user process: a pending signal is handled on the way out.
Return(p) ==
    /\ pc' = [pc EXCEPT ![p] = "user"]
    /\ call' = [call EXCEPT ![p] = NoCall]
    /\ sigs' = sigs \ {p}

\* A process is on a list once; its entry is reused.
Fsutil_FastWaitListInsert(l, p) ==
    waitList' = IF Contains(waitList[l], p)
                THEN waitList
                ELSE [waitList EXCEPT ![l] = Append(@, p)]

\* FS_WOULD_BLOCK: the waiter is on the list and call c is tried again later.  A
\* non-blocking call returns and leaves its entry there.
WouldBlock(l, p, c) ==
    /\ Fsutil_FastWaitListInsert(l, p)
    /\ \/ c.nb /\ Return(p)
       \/ /\ ~c.nb
          /\ pc' = [pc EXCEPT ![p] = "block"]
          /\ call' = [call EXCEPT ![p] = c]
          /\ UNCHANGED sigs

\* Mutant: only a process that sleeps already is told.
ProcessWakeupSleepers(p) ==
    /\ complete' = IF pc[p] = "asleep" THEN complete \cup {p} ELSE complete
    /\ pc' = [pc EXCEPT ![p] = IF @ = "asleep" THEN "woken" ELSE @]

\* The wakeup is remembered in the flag whether or not the process sleeps.
ProcessWakeup(p) ==
    /\ complete' = IF pc[p] = "gone" THEN complete ELSE complete \cup {p}
    /\ pc' = [pc EXCEPT ![p] = IF @ = "asleep" THEN "woken" ELSE @]

\* The first waiter of list l is notified and its entry freed.  For a process of
\* another host this is an RPC, whose return code nobody looks at.
NotifyFirst(l) ==
    /\ waitList[l] # <<>>
    /\ LET p == Head(waitList[l]) IN
       \/ ProcessWakeup(p) /\ UNCHANGED lost
       \/ /\ HostOf[p] # Server /\ pc[p] # "gone"
          /\ signals + Cardinality(lost) < MaxUpsets
          /\ lost' = lost \cup {p}
          /\ UNCHANGED <<pc, complete>>
    /\ waitList' = [waitList EXCEPT ![l] = Tail(@)]
    /\ UNCHANGED <<call, sigs, signals>>

\* Sync_ProcWait up to the context switch: the flag is looked at before the
\* signals, and cleared when the process does not sleep.
Sync_ProcWait(p) ==
    /\ pc[p] = "block"
    /\ complete' = complete \ {p}
    /\ \/ /\ p \in complete
          /\ pc' = [pc EXCEPT ![p] = "try"] /\ UNCHANGED <<call, sigs>>
       \/ /\ p \notin complete /\ p \in sigs
          /\ Return(p)
       \/ /\ p \notin complete /\ p \notin sigs
          /\ pc' = [pc EXCEPT ![p] = "asleep"] /\ UNCHANGED <<call, sigs>>
    /\ UNCHANGED <<signals, waitList, lost>>

\* Sync_ProcWait after the context switch: GEN_ABORTED_BY_SIGNAL or a retry.
ProcWaitDone(p) ==
    /\ pc[p] = "woken"
    /\ complete' = complete \ {p}
    /\ IF p \in sigs THEN Return(p)
                     ELSE pc' = [pc EXCEPT ![p] = "try"] /\ UNCHANGED <<call, sigs>>
    /\ UNCHANGED <<signals, waitList, lost>>

\* Sig_Send to a process in a system call: Sync_WakeWaitingProcess uses
\* ProcessWakeup, so the flag is set as if the notification had come.
Signal(p) ==
    /\ signals + Cardinality(lost) < MaxUpsets
    /\ pc[p] \notin {"user", "gone"}
    /\ signals' = signals + 1
    /\ sigs' = sigs \cup {p}
    /\ IF pc[p] = "asleep" THEN ProcessWakeup(p) ELSE UNCHANGED <<pc, complete>>
    /\ UNCHANGED <<call, waitList, lost>>
=============================================================================
