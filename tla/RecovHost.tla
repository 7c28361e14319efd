------------------------------ MODULE RecovHost ------------------------------
(***************************************************************************)
(* What one host knows about another: an entry of the host table of        *)
(* recov/recovery.c and the operations on it, each of which runs under the *)
(* monitor lock of the table.                                              *)
(*                                                                         *)
(* The kernel is built without dying_state, so RECOV_HOST_DYING is never   *)
(* set.  An entry also counts the calls of CrashCallBacks that Proc_       *)
(* CallFunc has yet to finish; RECOV_REBOOT_CALLBACKS itself stands for    *)
(* the one call of RecovRebootCallBacks.                                   *)
(***************************************************************************)
EXTENDS Integers, FiniteSets

HostStates == {"ALIVE", "BOOTING", "DEAD"}
HostFlags == {"CRASH_CALLBACKS", "WANT_RECOVERY", "REBOOT_CALLBACKS", "FAILURE"}

Entry(state, bootID, crashes) ==
    [state |-> state, bootID |-> bootID, crashes |-> crashes]

\* Hash_Find finds no entry for the host.
NoHost == Entry({"NIL"}, 0, 0)

IsEntry(e) ==
    \/ e = NoHost
    \/ /\ e.state \subseteq HostStates \cup HostFlags
       /\ Cardinality(e.state \cap HostStates) <= 1
       /\ e.bootID \in Nat /\ e.crashes \in Nat
-----------------------------------------------------------------------------
\* The first half of Recov_HostAlive, for a packet with boot time stamp b: a
\* crash that nobody has noticed shows in a new time stamp.
Noticed(e, b) ==
    IF e = NoHost THEN Entry({"ALIVE"}, b, 0)
    ELSE IF e.bootID = b THEN e
    ELSE IF e.state \cap {"ALIVE", "BOOTING"} = {} THEN Entry(e.state, b, e.crashes)
    ELSE Entry((e.state \ {"ALIVE", "DEAD"}) \cup {"BOOTING", "CRASH_CALLBACKS"}, b,
               IF "CRASH_CALLBACKS" \in e.state THEN e.crashes ELSE e.crashes + 1)

\* The host is up as far as we know, and there is nothing to be done.
FastPath(e, b) ==
    \/ e = NoHost
    \/ e.bootID = b /\ "ALIVE" \in e.state
       /\ e.state \cap {"CRASH_CALLBACKS", "WANT_RECOVERY"} = {}

\* Mutant: a host that was out of reach and did not reboot needs no recovery.
NewlyUpAgain(state, notActive) ==
    LET now == state \cap HostStates IN
    CASE now \in {{}, {"DEAD"}} ->
            (state \ {"DEAD"}) \cup {IF notActive THEN "BOOTING" ELSE "ALIVE"}
      [] now = {"BOOTING"} /\ ~notActive ->
            (state \ {"BOOTING"}) \cup {"ALIVE", "WANT_RECOVERY"}
      [] OTHER -> state

\* The switch of Recov_HostAlive.  notActive: the packet says that the host does
\* not serve RPCs yet.
NewlyUp(state, notActive) ==
    LET now == state \cap HostStates IN
    CASE now = {} -> state \cup {IF notActive THEN "BOOTING" ELSE "ALIVE"}
      [] now = {"BOOTING"} /\ ~notActive ->
            (state \ {"BOOTING"}) \cup {"ALIVE", "WANT_RECOVERY"}
      [] now = {"DEAD"} ->
            (state \ {"DEAD"}) \cup (IF notActive THEN {"BOOTING"}
                                     ELSE {"ALIVE", "WANT_RECOVERY"})
      [] OTHER -> state

\* The end of Recov_HostAlive: RecovRebootCallBacks is called in the background
\* unless it is running already; then the wish is kept for the next packet.
WithCallBacks(state) ==
    IF {"WANT_RECOVERY", "ALIVE"} \subseteq state /\ "REBOOT_CALLBACKS" \notin state
    THEN (state \ {"WANT_RECOVERY"}) \cup {"REBOOT_CALLBACKS"}
    ELSE state

\* Mutant: the wish for recovery is forgotten when the call-backs are running.
Recov_HostAliveForgets(e, b, notActive) ==
    LET n == Noticed(e, b) IN
    IF FastPath(e, b) THEN n
    ELSE Entry(WithCallBacks(NewlyUp(n.state, notActive)) \ {"WANT_RECOVERY"},
               n.bootID, n.crashes)

\* Recov_HostAlive.  A server process waits until the crash call-backs are over
\* before the second half; see Serve in FsRecov.
Recov_HostAlive(e, b, notActive) ==
    LET n == Noticed(e, b) IN
    IF FastPath(e, b) THEN n
    ELSE Entry(WithCallBacks(NewlyUp(n.state, notActive)), n.bootID, n.crashes)

\* Recov_HostDead, after an RPC has timed out.
Recov_HostDead(e) ==
    IF e = NoHost THEN Entry({"DEAD"}, 0, 0)
    ELSE IF "DEAD" \in e.state THEN e
    ELSE Entry((e.state \ {"ALIVE", "BOOTING"}) \cup {"DEAD", "CRASH_CALLBACKS"}
                 \cup (IF "REBOOT_CALLBACKS" \in e.state THEN {"FAILURE"} ELSE {}),
               e.bootID, e.crashes + 1)

\* The end of RecovRebootCallBacks: a failure in between means another round.
CallBacksDone(e) ==
    Entry((e.state \ {"REBOOT_CALLBACKS", "FAILURE"})
             \cup (IF "FAILURE" \in e.state THEN {"WANT_RECOVERY"} ELSE {}),
          e.bootID, e.crashes)

\* The end of CrashCallBacks.
MarkRecoveryComplete(e) ==
    Entry(e.state \ {"CRASH_CALLBACKS"}, e.bootID, e.crashes - 1)
=============================================================================
