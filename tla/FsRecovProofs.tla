---------------------------- MODULE FsRecovProofs ----------------------------
(***************************************************************************)
(* Proofs about crash recovery in FsRecov, for any number of processes,    *)
(* handles, crashes of the server and partitions of the network.           *)
(***************************************************************************)
EXTENDS FsRecov, SequenceTheorems, FiniteSetTheorems, TLAPS

(* Entries of the host table.                                              *)

\* An entry that Hash_Find finds: exactly one of the three states is set.
Known(e) ==
    /\ e = Entry(e.state, e.bootID, e.crashes)
    /\ e.state \subseteq HostStates \cup HostFlags
    /\ \E s \in HostStates : e.state \cap HostStates = {s}
    /\ e.bootID \in Nat /\ e.crashes \in Nat

IsHost(e) == e = NoHost \/ Known(e)

\* The states of a known host, one by one.
LEMMA KnownStates ==
    ASSUME NEW e, Known(e)
    PROVE  /\ e # NoHost
           /\ \/ /\ e.state \cap HostStates = {"ALIVE"}
                 /\ "ALIVE" \in e.state /\ "BOOTING" \notin e.state /\ "DEAD" \notin e.state
              \/ /\ e.state \cap HostStates = {"BOOTING"}
                 /\ "ALIVE" \notin e.state /\ "BOOTING" \in e.state /\ "DEAD" \notin e.state
              \/ /\ e.state \cap HostStates = {"DEAD"}
                 /\ "ALIVE" \notin e.state /\ "BOOTING" \notin e.state /\ "DEAD" \in e.state
<1>1. PICK s \in HostStates : e.state \cap HostStates = {s}
  BY DEF Known
<1>2. \A t \in HostStates : t \in e.state <=> t = s
  BY <1>1
<1>3. "ALIVE" \in HostStates /\ "BOOTING" \in HostStates /\ "DEAD" \in HostStates
  BY DEF HostStates
<1>4. s = "ALIVE" \/ s = "BOOTING" \/ s = "DEAD"
  BY DEF HostStates
<1>5. e # NoHost
  <2>1. s \in e.state
    BY <1>2
  <2>2. ASSUME e = NoHost PROVE FALSE
    <3>1. e.state = {"NIL"}
      BY <2>2 DEF NoHost, Entry
    <3> QED BY <2>1, <3>1, <1>4
  <2> QED BY <2>2
<1> QED BY <1>1, <1>2, <1>3, <1>4, <1>5

\* A known host is an entry as the type invariant wants it.
LEMMA HostIsEntry == ASSUME NEW e, IsHost(e) PROVE IsEntry(e)
<1>1. CASE e = NoHost
  BY <1>1 DEF IsEntry
<1>2. CASE Known(e)
  <2>1. PICK s \in HostStates : e.state \cap HostStates = {s}
    BY <1>2 DEF Known
  <2>2. Cardinality({s}) = 1
    BY FS_Singleton
  <2> QED BY <1>2, <2>1, <2>2 DEF IsEntry, Known
<1> QED BY <1>1, <1>2 DEF IsHost

\* To show that a host is known it is enough to name its state.
LEMMA StateKnown ==
    ASSUME NEW st \in SUBSET (HostStates \cup HostFlags), NEW b \in Nat, NEW n \in Nat,
           NEW s \in HostStates, \A t \in HostStates : t \in st <=> t = s
    PROVE  Known(Entry(st, b, n))
<1>1. st \cap HostStates = {s}
  OBVIOUS
<1> QED BY <1>1 DEF Known, Entry

\* The first half of Recov_HostAlive.
LEMMA NoticedKnown ==
    ASSUME NEW e, IsHost(e), NEW b \in Nat
    PROVE  LET n == Noticed(e, b) IN
           /\ Known(n) /\ n.bootID = b /\ e.crashes <= n.crashes
           /\ Known(e) => /\ \A f \in HostFlags \ {"CRASH_CALLBACKS"} :
                                f \in e.state <=> f \in n.state
                          /\ "ALIVE" \in n.state => n = e /\ e.bootID = b
<1> DEFINE n == Noticed(e, b)
<1> USE DEF HostStates, HostFlags
<1>1. CASE e = NoHost
  <2>1. n = Entry({"ALIVE"}, b, 0) /\ e.crashes = 0
    BY <1>1 DEF Noticed, NoHost, Entry
  <2>2. Known(Entry({"ALIVE"}, b, 0))
    BY StateKnown
  <2>3. n.bootID = b /\ n.crashes = 0
    BY <2>1 DEF Entry
  <2>4. ~Known(e)
    BY <1>1, KnownStates
  <2> QED BY <2>1, <2>2, <2>3, <2>4
<1>2. CASE Known(e) /\ e.bootID = b
  <2>1. n = e
    BY <1>2, KnownStates DEF Noticed
  <2> QED BY <1>2, <2>1 DEF Known
<1>3. CASE Known(e) /\ e.bootID # b /\ e.state \cap {"ALIVE", "BOOTING"} = {}
  <2>1. n = Entry(e.state, b, e.crashes)
    BY <1>3, KnownStates DEF Noticed
  <2>2. n.state = e.state /\ n.bootID = b /\ n.crashes = e.crashes
    BY <2>1 DEF Entry
  <2>3. Known(n)
    BY <1>3, <2>1, <2>2 DEF Known
  <2>4. "ALIVE" \notin n.state
    BY <1>3, <2>2
  <2> QED BY <1>3, <2>2, <2>3, <2>4 DEF Known
<1>4. CASE Known(e) /\ e.bootID # b /\ e.state \cap {"ALIVE", "BOOTING"} # {}
  <2> DEFINE st == (e.state \ {"ALIVE", "DEAD"}) \cup {"BOOTING", "CRASH_CALLBACKS"}
             c == IF "CRASH_CALLBACKS" \in e.state THEN e.crashes ELSE e.crashes + 1
  <2>1. n = Entry(st, b, c)
    BY <1>4, KnownStates DEF Noticed
  <2>2. st \subseteq HostStates \cup HostFlags /\ c \in Nat /\ e.crashes <= c
    BY <1>4 DEF Known
  <2>3. \A t \in HostStates : t \in st <=> t = "BOOTING"
    OBVIOUS
  <2>4. Known(Entry(st, b, c))
    <3> HIDE DEF st, c
    <3> QED BY <2>2, <2>3, StateKnown
  <2>5. n.state = st /\ n.bootID = b /\ n.crashes = c
    BY <2>1 DEF Entry
  <2> QED BY <2>1, <2>2, <2>4, <2>5
<1> QED BY <1>1, <1>2, <1>3, <1>4 DEF IsHost

\* The switch of Recov_HostAlive, applied to an entry.
LEMMA NewlyUpKnown ==
    ASSUME NEW e, Known(e), NEW na \in BOOLEAN
    PROVE  LET st == NewlyUp(e.state, na) IN
           /\ Known(Entry(st, e.bootID, e.crashes))
           /\ \A f \in HostFlags \ {"WANT_RECOVERY"} : f \in e.state <=> f \in st
           /\ "WANT_RECOVERY" \in e.state => "WANT_RECOVERY" \in st
           /\ "ALIVE" \in st /\ "ALIVE" \notin e.state => "WANT_RECOVERY" \in st /\ ~na
<1> DEFINE st == NewlyUp(e.state, na)
<1> USE DEF HostStates, HostFlags
<1>0. e.state \subseteq HostStates \cup HostFlags /\ e.bootID \in Nat /\ e.crashes \in Nat
      /\ e = Entry(e.state, e.bootID, e.crashes)
  BY DEF Known
<1>1. CASE e.state \cap HostStates = {"ALIVE"} \/ (e.state \cap HostStates = {"BOOTING"} /\ na)
  <2>1. st = e.state
    BY <1>1 DEF NewlyUp
  <2> QED BY <2>1, <1>0
<1>2. CASE e.state \cap HostStates = {"BOOTING"} /\ ~na
  <2>1. st = (e.state \ {"BOOTING"}) \cup {"ALIVE", "WANT_RECOVERY"}
    BY <1>2 DEF NewlyUp
  <2>2. \A t \in HostStates : t \in st <=> t = "ALIVE"
    BY <2>1, <1>2, KnownStates
  <2>3. st \subseteq HostStates \cup HostFlags
    BY <2>1, <1>0
  <2>4. Known(Entry(st, e.bootID, e.crashes))
    <3> HIDE DEF st
    <3> QED BY <2>2, <2>3, <1>0, StateKnown
  <2> QED BY <1>2, <2>1, <2>4
<1>3. CASE e.state \cap HostStates = {"DEAD"}
  <2> DEFINE s == IF na THEN "BOOTING" ELSE "ALIVE"
  <2>1. st = (e.state \ {"DEAD"}) \cup (IF na THEN {"BOOTING"} ELSE {"ALIVE", "WANT_RECOVERY"})
    BY <1>3 DEF NewlyUp
  <2>2. \A t \in HostStates : t \in st <=> t = s
    BY <2>1, <1>3, KnownStates
  <2>3. st \subseteq HostStates \cup HostFlags
    BY <2>1, <1>0
  <2>4. Known(Entry(st, e.bootID, e.crashes))
    <3> s \in HostStates
      OBVIOUS
    <3> HIDE DEF st, s
    <3> QED BY <2>2, <2>3, <1>0, StateKnown
  <2> QED BY <2>1, <2>4
<1> QED BY <1>1, <1>2, <1>3, KnownStates

\* Recov_HostAlive keeps what is known and due, and makes a recovery due when it
\* makes the host alive.
LEMMA HostAlive ==
    ASSUME NEW e, IsHost(e), NEW b \in Nat, NEW na \in BOOLEAN
    PROVE  LET q == Recov_HostAlive(e, b, na)
               due == \/ "WANT_RECOVERY" \in q.state
                      \/ "REBOOT_CALLBACKS" \in q.state \ e.state IN
           /\ Known(q) /\ q.bootID = b /\ e.crashes <= q.crashes
           /\ Known(e) =>
                 /\ "FAILURE" \in e.state <=> "FAILURE" \in q.state
                 /\ "REBOOT_CALLBACKS" \in e.state => "REBOOT_CALLBACKS" \in q.state
                 /\ "WANT_RECOVERY" \in e.state => due
                 /\ ("ALIVE" \in q.state /\ ~(e.bootID = b /\ "ALIVE" \in e.state)) => due /\ ~na
<1> DEFINE n == Noticed(e, b)
           q == Recov_HostAlive(e, b, na)
           st == NewlyUp(n.state, na)
           ws == WithCallBacks(st)
<1> USE DEF HostStates, HostFlags
<1>0. /\ Known(n) /\ n.bootID = b /\ e.crashes <= n.crashes
      /\ Known(e) => /\ \A f \in HostFlags \ {"CRASH_CALLBACKS"} :
                                f \in e.state <=> f \in n.state
                     /\ "ALIVE" \in n.state => n = e /\ e.bootID = b
  BY NoticedKnown
<1>1. CASE FastPath(e, b)
  <2>1. q = n
    BY <1>1 DEF Recov_HostAlive
  <2>2. Known(e) => e.bootID = b /\ "ALIVE" \in e.state
    BY <1>1, KnownStates DEF FastPath
  <2>3. Known(e) => "WANT_RECOVERY" \notin e.state
    BY <1>1, KnownStates DEF FastPath
  <2> QED BY <1>0, <2>1, <2>2, <2>3
<1>2. CASE ~FastPath(e, b)
  <2>1. q = Entry(ws, n.bootID, n.crashes)
    BY <1>2 DEF Recov_HostAlive
  <2>2. PICK m : m = n
    OBVIOUS
  <2>3. Known(m)
    BY <1>0, <2>2
  <2>4. /\ Known(Entry(st, n.bootID, n.crashes))
        /\ \A f \in HostFlags \ {"WANT_RECOVERY"} : f \in n.state <=> f \in st
        /\ "WANT_RECOVERY" \in n.state => "WANT_RECOVERY" \in st
        /\ "ALIVE" \in st /\ "ALIVE" \notin n.state => "WANT_RECOVERY" \in st /\ ~na
    <3> HIDE DEF n
    <3> QED BY <2>2, <2>3, NewlyUpKnown
  <2>5. /\ \A f \in (HostStates \cup HostFlags) \ {"WANT_RECOVERY", "REBOOT_CALLBACKS"} :
              f \in st <=> f \in ws
        /\ "REBOOT_CALLBACKS" \in st => "REBOOT_CALLBACKS" \in ws
        /\ "WANT_RECOVERY" \in st =>
              \/ "WANT_RECOVERY" \in ws
              \/ "REBOOT_CALLBACKS" \in ws /\ "REBOOT_CALLBACKS" \notin st
    <3> HIDE DEF st
    <3> QED BY DEF WithCallBacks
  <2>6. st \subseteq HostStates \cup HostFlags /\ n.bootID \in Nat /\ n.crashes \in Nat
    <3> HIDE DEF st, n
    <3> QED BY <2>4 DEF Known, Entry
  <2>7. ws \subseteq HostStates \cup HostFlags
    <3> HIDE DEF st
    <3> QED BY <2>6 DEF WithCallBacks
  <2>8. Known(q)
    <3>1. PICK s \in HostStates : st \cap HostStates = {s}
      <4> HIDE DEF st, n
      <4> QED BY <2>4 DEF Known, Entry
    <3>2. \A t \in HostStates : t \in ws <=> t = s
      <4> HIDE DEF st, ws
      <4> QED BY <3>1, <2>5
    <3> HIDE DEF st, ws, n, q
    <3> QED BY <2>1, <2>6, <2>7, <3>2, StateKnown
  <2>9. q.state = ws /\ q.bootID = b /\ q.crashes = n.crashes
    <3> HIDE DEF ws, n
    <3> QED BY <2>1, <1>0 DEF Entry
  <2>10. Known(e) =>
                 /\ "FAILURE" \in e.state <=> "FAILURE" \in q.state
                 /\ "REBOOT_CALLBACKS" \in e.state <=> "REBOOT_CALLBACKS" \in st
                 /\ "REBOOT_CALLBACKS" \in e.state => "REBOOT_CALLBACKS" \in q.state
                 /\ "WANT_RECOVERY" \in e.state => "WANT_RECOVERY" \in st
                 /\ "ALIVE" \in q.state => "ALIVE" \in st
    <3> HIDE DEF st, ws, n, q
    <3> QED BY <2>9, <2>4, <2>5, <1>0
  <2>11. Known(e) => (("ALIVE" \in q.state /\ ~(e.bootID = b /\ "ALIVE" \in e.state))
                        => "WANT_RECOVERY" \in st /\ ~na)
    <3> HIDE DEF st, ws, n, q
    <3> QED BY <2>10, <2>4, <1>0
  <2> HIDE DEF st, ws, n, q
  <2> QED BY <2>5, <2>8, <2>9, <2>10, <2>11, <1>0 DEF q
<1> QED BY <1>1, <1>2

\* Recov_HostDead.
LEMMA HostDead ==
    ASSUME NEW e, IsHost(e)
    PROVE  LET q == Recov_HostDead(e) IN
           /\ Known(q) /\ "ALIVE" \notin q.state /\ e.crashes <= q.crashes
           /\ Known(e) =>
                 /\ q.bootID = e.bootID
                 /\ \A f \in {"REBOOT_CALLBACKS", "WANT_RECOVERY"} :
                       f \in e.state <=> f \in q.state
                 /\ "FAILURE" \in e.state => "FAILURE" \in q.state
<1> DEFINE q == Recov_HostDead(e)
<1> USE DEF HostStates, HostFlags
<1>1. CASE e = NoHost
  <2>1. q = Entry({"DEAD"}, 0, 0) /\ e.crashes = 0
    BY <1>1 DEF Recov_HostDead, NoHost, Entry
  <2>2. Known(Entry({"DEAD"}, 0, 0))
    BY StateKnown
  <2>3. q.state = {"DEAD"} /\ q.crashes = 0
    BY <2>1 DEF Entry
  <2>4. ~Known(e)
    BY <1>1, KnownStates
  <2> QED BY <2>1, <2>2, <2>3, <2>4
<1>2. CASE Known(e) /\ "DEAD" \in e.state
  <2>1. q = e
    BY <1>2, KnownStates DEF Recov_HostDead
  <2>2. "ALIVE" \notin e.state
    BY <1>2, KnownStates
  <2> QED BY <1>2, <2>1, <2>2 DEF Known
<1>3. CASE Known(e) /\ "DEAD" \notin e.state
  <2> DEFINE st == (e.state \ {"ALIVE", "BOOTING"}) \cup {"DEAD", "CRASH_CALLBACKS"}
                     \cup (IF "REBOOT_CALLBACKS" \in e.state THEN {"FAILURE"} ELSE {})
  <2>1. q = Entry(st, e.bootID, e.crashes + 1)
    BY <1>3, KnownStates DEF Recov_HostDead
  <2>2. st \subseteq HostStates \cup HostFlags /\ e.bootID \in Nat /\ e.crashes \in Nat
    BY <1>3 DEF Known
  <2>3. \A t \in HostStates : t \in st <=> t = "DEAD"
    OBVIOUS
  <2>4. Known(q)
    <3> HIDE DEF st
    <3> QED BY <2>1, <2>2, <2>3, StateKnown
  <2>5. q.state = st /\ q.bootID = e.bootID /\ q.crashes = e.crashes + 1
    BY <2>1 DEF Entry
  <2> QED BY <2>2, <2>4, <2>5
<1> QED BY <1>1, <1>2, <1>3 DEF IsHost

\* The end of RecovRebootCallBacks.
LEMMA CallBacksOver ==
    ASSUME NEW e, Known(e)
    PROVE  LET q == CallBacksDone(e) IN
           /\ Known(q) /\ q.bootID = e.bootID /\ q.crashes = e.crashes
           /\ "ALIVE" \in q.state <=> "ALIVE" \in e.state
           /\ "REBOOT_CALLBACKS" \notin q.state
           /\ "WANT_RECOVERY" \in q.state <=> e.state \cap {"FAILURE", "WANT_RECOVERY"} # {}
<1> DEFINE q == CallBacksDone(e)
           st == (e.state \ {"REBOOT_CALLBACKS", "FAILURE"})
                    \cup (IF "FAILURE" \in e.state THEN {"WANT_RECOVERY"} ELSE {})
<1> USE DEF HostStates, HostFlags
<1>1. q = Entry(st, e.bootID, e.crashes)
  BY DEF CallBacksDone
<1>2. q.state = st /\ q.bootID = e.bootID /\ q.crashes = e.crashes
  BY <1>1 DEF Entry
<1>3. st \subseteq HostStates \cup HostFlags /\ e.bootID \in Nat /\ e.crashes \in Nat
  BY DEF Known
<1>4. PICK s \in HostStates : e.state \cap HostStates = {s}
  BY DEF Known
<1>5. \A t \in HostStates : t \in st <=> t = s
  BY <1>4
<1>6. Known(q)
  <2> HIDE DEF st
  <2> QED BY <1>1, <1>3, <1>5, StateKnown
<1> QED BY <1>2, <1>6

\* The end of CrashCallBacks.
LEMMA CrashOver ==
    ASSUME NEW e, Known(e), e.crashes > 0
    PROVE  LET q == MarkRecoveryComplete(e) IN
           /\ Known(q) /\ q.bootID = e.bootID /\ q.crashes = e.crashes - 1
           /\ \A f \in (HostStates \cup HostFlags) \ {"CRASH_CALLBACKS"} :
                 f \in q.state <=> f \in e.state
<1> DEFINE q == MarkRecoveryComplete(e)
           st == e.state \ {"CRASH_CALLBACKS"}
<1> USE DEF HostStates, HostFlags
<1>1. q = Entry(st, e.bootID, e.crashes - 1)
  BY DEF MarkRecoveryComplete
<1>2. q.state = st /\ q.bootID = e.bootID /\ q.crashes = e.crashes - 1
  BY <1>1 DEF Entry
<1>3. st \subseteq HostStates \cup HostFlags /\ e.bootID \in Nat /\ e.crashes - 1 \in Nat
  BY DEF Known
<1>4. PICK s \in HostStates : e.state \cap HostStates = {s}
  BY DEF Known
<1>5. \A t \in HostStates : t \in st <=> t = s
  BY <1>4
<1>6. Known(q)
  <2> HIDE DEF st
  <2> QED BY <1>1, <1>3, <1>5, StateKnown
<1> QED BY <1>2, <1>6
-----------------------------------------------------------------------------
(* The types, and who is doing what.                                       *)

Replies ==
    {NoReply, [status |-> "TIMEOUT"]}
       \cup [status: Statuses \ {"TIMEOUT"}, boot: Nat, notActive: BOOLEAN]
Calls ==
    [op: {"read", "open", "io", "stream", "done"}, h: Handles, reply: Replies]
ProcStates == {"idle", "call", "reopen", "wake", "wait", "openwait", "openok"}
Recoveries ==
    [by: Procs \cup {CallBack}, pass: {"check", "io", "stream", "done"}, todo: SUBSET Handles]

ServerTypes ==
    /\ link \in BOOLEAN /\ cuts \in 0 .. MaxCuts
    /\ up \in {"down", "booting", "up"} /\ boot \in 1 .. MaxReboots + 1
    /\ up = "down" => boot <= MaxReboots
    /\ IsHost(sv) /\ kills \in Seq(SUBSET Objects) /\ Len(kills) <= sv.crashes
    /\ have \subseteq Objects /\ cltRecov \in BOOLEAN

ClientTypes ==
    /\ invalid \subseteq Objects
    /\ delay \in BOOLEAN /\ missed \in BOOLEAN
    /\ flags \in [Handles -> SUBSET {"NEEDED", "COMPLETE", "FAILED"}]
    /\ pc \in [Procs -> ProcStates] /\ want \in [Procs -> Handles]
    /\ why \in [Procs -> {"none"} \cup Statuses]

CallTypes == rpc \in [Callers -> Calls \cup {NoCall}]

\* A process is in a call exactly while it has an RPC, which reads or opens.
ProcsCall ==
    \A p \in Procs : /\ pc[p] = "call" <=> rpc[p] # NoCall
                     /\ rpc[p].op \in {"none", "read", "open"}

OpensCounted == opens = Cardinality({p \in Procs : rpc[p].op = "open"})

\* Who runs the re-open in progress, and which RPC it waits for.
ReopenAgrees ==
    /\ rec \in Recoveries \cup {NoRec}
    /\ rec # NoRec /\ rec.by = CallBack => cb = "reopen"
    /\ \A p \in Procs : rec # NoRec /\ rec.by = p => pc[p] = "reopen"
    /\ rec = NoRec \/ rec.pass = "check" => rpc[Reopen] = NoCall
    /\ rec # NoRec /\ rec.pass # "check" => rpc[Reopen].op = rec.pass

\* The call-back runs only while the entry says so.
EntryAgrees ==
    /\ Known(cv) /\ cb \in {"none", "reopen", "wake", "done"}
    /\ cb # "none" => "REBOOT_CALLBACKS" \in cv.state

WhoInv ==
    /\ ServerTypes /\ ClientTypes /\ CallTypes /\ ProcsCall /\ OpensCounted
    /\ ReopenAgrees /\ EntryAgrees

\* The invariant has what the type invariant asks for.
LEMMA WhoTypes == WhoInv => TypeOK
<1> SUFFICES ASSUME WhoInv PROVE TypeOK
  OBVIOUS
<1>1. IsEntry(sv) /\ IsEntry(cv)
  <2>1. PICK e : e = sv
    OBVIOUS
  <2>2. PICK c : c = cv
    OBVIOUS
  <2>3. IsHost(e) /\ IsHost(c)
    BY <2>1, <2>2 DEF WhoInv, ServerTypes, EntryAgrees, IsHost
  <2> QED BY <2>1, <2>2, <2>3, HostIsEntry
<1>2. \A i \in DOMAIN kills : kills[i] \subseteq Objects
  BY DEF WhoInv, ServerTypes
<1>3. rec = NoRec \/ /\ rec.by \in Procs \cup {CallBack}
                     /\ rec.pass \in {"check", "io", "stream", "done"}
                     /\ rec.todo \subseteq Handles
  BY DEF WhoInv, ReopenAgrees, Recoveries
<1>4. \A a \in Callers : rpc[a] = NoCall \/ rpc[a].reply.status \in {"none"} \cup Statuses
  <2> SUFFICES ASSUME NEW a \in Callers, rpc[a] # NoCall
               PROVE  rpc[a].reply.status \in {"none"} \cup Statuses
    OBVIOUS
  <2>1. rpc[a].reply \in Replies
    BY DEF WhoInv, CallTypes, Calls
  <2> QED BY <2>1 DEF Replies, NoReply, Statuses
<1> QED BY <1>1, <1>2, <1>3, <1>4
        DEF WhoInv, ServerTypes, ClientTypes, OpensCounted, EntryAgrees, TypeOK, ProcStates

\* A reply is filled in.
LEMMA ReplySet ==
    ASSUME NEW f \in [Callers -> Calls \cup {NoCall}], NEW a \in Callers, f[a] # NoCall,
           NEW r \in Replies, NEW g, g = [f EXCEPT ![a].reply = r]
    PROVE  /\ g \in [Callers -> Calls \cup {NoCall}]
           /\ g[a] # NoCall /\ g[a].op = f[a].op /\ g[a].h = f[a].h /\ g[a].reply = r
           /\ \A b \in Callers : b # a => g[b] = f[b]
           /\ \A b \in Callers : g[b].op = f[b].op /\ (g[b] = NoCall <=> f[b] = NoCall)
<1>1. f[a] \in Calls
  OBVIOUS
<1>2. PICK c : c = f[a]
  OBVIOUS
<1>3. [c EXCEPT !.reply = r] = [op |-> c.op, h |-> c.h, reply |-> r]
  BY <1>1, <1>2 DEF Calls
<1>4. g[a] = [op |-> c.op, h |-> c.h, reply |-> r]
  BY <1>2, <1>3
<1>5. c.op \in {"read", "open", "io", "stream", "done"} /\ c.h \in Handles
  BY <1>1, <1>2 DEF Calls
<1>6. g[a] \in Calls
  BY <1>4, <1>5 DEF Calls
<1>7. g[a].op = f[a].op /\ g[a].h = f[a].h /\ g[a].reply = r
  BY <1>2, <1>4
<1>8. g[a] # NoCall
  BY <1>7, <1>5, <1>2 DEF NoCall
<1>9. \A b \in Callers : b # a => g[b] = f[b]
  OBVIOUS
<1>10. g \in [Callers -> Calls \cup {NoCall}]
  <2>1. DOMAIN g = Callers /\ g = [b \in Callers |-> g[b]]
    OBVIOUS
  <2>2. \A b \in Callers : g[b] \in Calls \cup {NoCall}
    BY <1>6, <1>9
  <2> QED BY <2>1, <2>2
<1> QED BY <1>7, <1>8, <1>9, <1>10

\* What the answers of the server have to be.
LEMMA AnswerIsReply ==
    ASSUME NEW st \in Statuses \ {"TIMEOUT"}, NEW b \in Nat, NEW na \in BOOLEAN
    PROVE  /\ [status |-> st, boot |-> b, notActive |-> na] \in Replies
           /\ [status |-> st, boot |-> b, notActive |-> na] # NoReply
<1>1. st # "none"
  BY DEF Statuses
<1> QED BY <1>1 DEF Replies, NoReply

\* Who is doing what does not depend on the replies.
LEMMA ReplyKeeps ==
    ASSUME WhoInv, NEW a \in Callers, rpc[a] # NoCall, NEW r \in Replies,
           rpc' = [rpc EXCEPT ![a].reply = r], UNCHANGED <<pc, rec, cb, opens>>
    PROVE  CallTypes' /\ ProcsCall' /\ OpensCounted' /\ ReopenAgrees'
<1>0. Reopen \in Callers /\ Procs \subseteq Callers
  BY DEF Callers
<1>1. /\ rpc' \in [Callers -> Calls \cup {NoCall}]
      /\ \A b \in Callers : rpc'[b].op = rpc[b].op /\ (rpc'[b] = NoCall <=> rpc[b] = NoCall)
  <2>1. rpc \in [Callers -> Calls \cup {NoCall}]
    BY DEF WhoInv, CallTypes
  <2>2. PICK f : f = rpc
    OBVIOUS
  <2>3. PICK g : g = rpc'
    OBVIOUS
  <2> QED BY <2>1, <2>2, <2>3, ReplySet
<1>2. CallTypes'
  BY <1>1 DEF CallTypes
<1>3. ProcsCall'
  BY <1>0, <1>1 DEF WhoInv, ProcsCall
<1>4. OpensCounted'
  <2>1. {p \in Procs : rpc'[p].op = "open"} = {p \in Procs : rpc[p].op = "open"}
    BY <1>0, <1>1
  <2> QED BY <2>1 DEF WhoInv, OpensCounted
<1>5. ReopenAgrees'
  BY <1>0, <1>1 DEF WhoInv, ReopenAgrees
<1> QED BY <1>2, <1>3, <1>4, <1>5

LEMMA HeardKeeps ==
    ASSUME WhoInv, Heard
    PROVE  IsHost(sv') /\ Len(kills) <= sv'.crashes
<1>1. PICK e : e = sv
  OBVIOUS
<1>2. IsHost(e)
  BY <1>1 DEF WhoInv, ServerTypes
<1>3. Known(sv') /\ e.crashes <= sv'.crashes
  BY <1>1, <1>2, HostAlive DEF Heard
<1>4. Len(kills) <= e.crashes /\ Len(kills) \in Nat /\ e.crashes \in Int
  BY <1>1, <1>2 DEF WhoInv, ServerTypes, IsHost, Known, NoHost, Entry
<1> QED BY <1>3, <1>4 DEF IsHost, Known

\* The frame of the server's actions.
LEMMA ServerFrame ==
    ASSUME WhoInv, UNCHANGED <<cv, rec, cb, handleVars, procVars, prefixVars, missed>>
    PROVE  ClientTypes' /\ EntryAgrees'
BY DEF WhoInv, ClientTypes, EntryAgrees, handleVars, procVars, prefixVars

LEMMA ServerFrameRpc ==
    ASSUME WhoInv, UNCHANGED <<cv, rec, cb, handleVars, procVars, prefixVars, rpc, missed>>
    PROVE  ClientTypes' /\ EntryAgrees' /\ CallTypes' /\ ProcsCall' /\ OpensCounted' /\ ReopenAgrees'
<1>1. ClientTypes' /\ EntryAgrees'
  BY ServerFrame
<1> QED BY <1>1 DEF WhoInv, CallTypes, ProcsCall, OpensCounted, ReopenAgrees, procVars, prefixVars

\* What a server process does to a call: the types hold, and the flag
\* CLT_RECOV_IN_PROGRESS is set by a re-open and cleared at its end.
LEMMA ServeAnswers ==
    ASSUME WhoInv, NEW a \in Callers, Serve(a)
    PROVE  /\ rpc[a] # NoCall /\ rpc[a].reply = NoReply
           /\ \E r \in Replies : r # NoReply /\ r.status # "TIMEOUT" /\ rpc' = [rpc EXCEPT ![a].reply = r]
           /\ Heard /\ have' \subseteq Objects
           /\ UNCHANGED <<up, boot, kills>>
           /\ \/ up = "booting" /\ cltRecov' = cltRecov
              \/ /\ up = "up"
                 /\ \/ cltRecov' = cltRecov /\ rpc[a].op \in {"read", "open"}
                    \/ cltRecov' = TRUE /\ rpc[a].op \in {"io", "stream"}
                    \/ cltRecov' = FALSE /\ rpc[a].op = "done"
<1> USE DEF Asked, Statuses
<1>0. /\ boot \in Nat /\ (up = "booting") \in BOOLEAN /\ have \subseteq Objects
      /\ rpc \in [Callers -> Calls \cup {NoCall}]
  <2>1. boot \in 1 .. MaxReboots + 1 /\ MaxReboots \in Nat
    BY RecovAssumption DEF WhoInv, ServerTypes
  <2> QED BY <2>1 DEF WhoInv, ServerTypes, CallTypes
<1>1. ASSUME NEW st \in Statuses \ {"TIMEOUT"}, Answer(a, st)
      PROVE  \E r \in Replies : r # NoReply /\ r.status # "TIMEOUT" /\ rpc' = [rpc EXCEPT ![a].reply = r]
  <2>1. PICK b : b = boot
    OBVIOUS
  <2>2. PICK na \in BOOLEAN : na = (up = "booting")
    BY <1>0
  <2>3. PICK r : r = [status |-> st, boot |-> b, notActive |-> na]
    OBVIOUS
  <2>4. r \in Replies /\ r # NoReply
    BY <2>1, <2>3, <1>0, AnswerIsReply
  <2>5. rpc' = [rpc EXCEPT ![a].reply = r]
    BY <1>1, <2>1, <2>2, <2>3 DEF Answer
  <2>6. r.status # "TIMEOUT"
    BY <2>3
  <2> QED BY <2>4, <2>5, <2>6
<1>2. ASSUME rpc[a] # NoCall PROVE rpc[a].h \in Handles
  BY <1>0, <1>2 DEF Calls
<1>3. CASE SrvDisabled(a)
  <2>1. "DISABLED" \in Statuses \ {"TIMEOUT"}
    BY DEF Statuses
  <2>2. Answer(a, "DISABLED")
    BY <1>3 DEF SrvDisabled
  <2> QED BY <1>0, <1>1, <1>3, <2>1, <2>2 DEF SrvDisabled
<1>4. CASE SrvRead(a)
  <2>1. PICK st \in {"SUCCESS", "STALE"} : Answer(a, st)
    BY <1>4 DEF SrvRead
  <2> QED BY <1>0, <1>1, <1>4, <2>1 DEF SrvRead
<1>5. CASE SrvOpen(a)
  <2>1. PICK st \in {"DISABLED", "SUCCESS", "STALE"} : Answer(a, st)
    BY <1>5 DEF SrvOpen
  <2> QED BY <1>0, <1>1, <1>5, <2>1 DEF SrvOpen
<1>6. CASE SrvReopenIO(a)
  <2>1. PICK st \in {"SUCCESS", "REMOVED"} : Answer(a, st)
    BY <1>6 DEF SrvReopenIO
  <2>2. have' \subseteq Objects
    BY <1>0, <1>2, <1>6 DEF SrvReopenIO, Objects
  <2> QED BY <1>0, <1>1, <1>6, <2>1, <2>2 DEF SrvReopenIO
<1>7. CASE SrvReopenStream(a)
  <2>1. PICK st \in {"SUCCESS", "FAILURE"} : Answer(a, st)
    BY <1>7 DEF SrvReopenStream
  <2>2. have' \subseteq Objects
    BY <1>0, <1>2, <1>7 DEF SrvReopenStream, Objects
  <2> QED BY <1>0, <1>1, <1>7, <2>1, <2>2 DEF SrvReopenStream
<1>8. CASE SrvRecoveryDone(a)
  <2>1. "SUCCESS" \in Statuses \ {"TIMEOUT"}
    BY DEF Statuses
  <2>2. Answer(a, "SUCCESS")
    BY <1>8 DEF SrvRecoveryDone
  <2> QED BY <1>0, <1>1, <1>8, <2>1, <2>2 DEF SrvRecoveryDone
<1> QED BY <1>3, <1>4, <1>5, <1>6, <1>7, <1>8 DEF Serve

LEMMA ServeWho == ASSUME WhoInv, NEW a \in Callers, Serve(a) PROVE WhoInv'
<1>1. /\ rpc[a] # NoCall /\ Heard /\ have' \subseteq Objects
      /\ UNCHANGED <<up, boot, kills>> /\ cltRecov' \in BOOLEAN
  BY ServeAnswers DEF WhoInv, ServerTypes
<1>2. PICK r \in Replies : rpc' = [rpc EXCEPT ![a].reply = r]
  BY ServeAnswers
<1>3. UNCHANGED <<netVars, cv, rec, cb, handleVars, procVars, prefixVars, missed>>
  BY DEF Serve
<1>4. CallTypes' /\ ProcsCall' /\ OpensCounted' /\ ReopenAgrees'
  BY <1>1, <1>2, <1>3, ReplyKeeps DEF procVars, prefixVars
<1>5. ClientTypes' /\ EntryAgrees'
  BY <1>3, ServerFrame
<1>6. ServerTypes'
  BY <1>1, <1>3, HeardKeeps DEF WhoInv, ServerTypes, netVars
<1> QED BY <1>4, <1>5, <1>6 DEF WhoInv

LEMMA RpcFateWho ==
    ASSUME WhoInv, NEW a \in Callers, RpcTimesOut(a) \/ RpcLost(a)
    PROVE  WhoInv'
<1>1. rpc[a] # NoCall
  BY DEF RpcTimesOut, RpcLost
<1>2. PICK r \in Replies : rpc' = [rpc EXCEPT ![a].reply = r]
  BY DEF RpcTimesOut, RpcLost, Replies
<1>3. UNCHANGED <<netVars, srvVars, cv, rec, cb, handleVars, procVars, prefixVars, missed>>
  BY DEF RpcTimesOut, RpcLost
<1>4. CallTypes' /\ ProcsCall' /\ OpensCounted' /\ ReopenAgrees'
  BY <1>1, <1>2, <1>3, ReplyKeeps DEF procVars, prefixVars
<1>5. ClientTypes' /\ EntryAgrees'
  BY <1>3, ServerFrame
<1>6. ServerTypes'
  BY <1>3 DEF WhoInv, ServerTypes, netVars, srvVars
<1> QED BY <1>4, <1>5, <1>6 DEF WhoInv

\* The other steps of the server and of the network.
LEMMA ServerWho ==
    ASSUME WhoInv,
           \/ Server \/ Faults \/ Heal \/ SrvCallSucceeds
    PROVE  WhoInv'
<1> DEFINE Rest == UNCHANGED <<cv, rec, cb, handleVars, procVars, prefixVars, rpc, missed>>
<1>0. /\ IsHost(sv) /\ kills \in Seq(SUBSET Objects) /\ Len(kills) \in Nat
      /\ Len(kills) <= sv.crashes /\ sv.crashes \in Nat
      /\ boot \in 1 .. MaxReboots + 1 /\ MaxReboots \in Nat /\ cuts \in 0 .. MaxCuts /\ MaxCuts \in Nat
  BY RecovAssumption DEF WhoInv, ServerTypes, IsHost, Known, NoHost, Entry
<1>1. ASSUME ServerTypes', Rest PROVE WhoInv'
  BY <1>1, ServerFrameRpc DEF WhoInv
<1>2. CASE SrvClientCrashed
  <2>1. kills' \in Seq(SUBSET Objects) /\ Len(kills') = Len(kills) + 1
    <3>1. Objects \in SUBSET Objects /\ kills' = Append(kills, Objects)
      BY <1>2 DEF SrvClientCrashed
    <3> QED BY <3>1, <1>0, AppendProperties
  <2>3. cltRecov' \in BOOLEAN
    BY <1>2, Zenon DEF SrvClientCrashed
  <2>2. ServerTypes'
    <3>1. Len(kills') <= sv'.crashes /\ UNCHANGED <<link, cuts, up, boot, sv, have>>
      BY <1>2, <1>0, <2>1 DEF SrvClientCrashed, netVars
    <3> QED BY <2>1, <2>3, <3>1 DEF WhoInv, ServerTypes
  <2> QED BY <1>1, <1>2, <2>2 DEF SrvClientCrashed
<1>3. CASE SrvRebootCallBacks
  <2>1. PICK e : e = sv
    OBVIOUS
  <2>2. Known(e)
    BY <1>0, <1>3, <2>1 DEF SrvRebootCallBacks, IsHost, NoHost, Entry
  <2>3. Known(sv') /\ sv'.crashes = sv.crashes
    BY <1>3, <2>1, <2>2, CallBacksOver DEF SrvRebootCallBacks
  <2>4. ServerTypes'
    BY <1>3, <1>0, <2>3 DEF WhoInv, ServerTypes, SrvRebootCallBacks, netVars, IsHost
  <2> QED BY <1>1, <1>3, <2>4 DEF SrvRebootCallBacks
<1>4. ASSUME NEW i \in DOMAIN kills, SrvClientKill(i) PROVE WhoInv'
  <2>1. PICK o \in kills[i] : /\ kills' = [kills EXCEPT ![i] = @ \ {o}]
                              /\ have' = have \ {o} /\ missed' = TRUE
    BY <1>4 DEF SrvClientKill
  <2>2. kills' \in Seq(SUBSET Objects) /\ Len(kills') = Len(kills)
    <3>1. kills[i] \ {o} \in SUBSET Objects
      BY <1>0, ElementOfSeq
    <3>2. i \in 1 .. Len(kills)
      BY <1>0
    <3> QED BY <2>1, <3>1, <3>2, <1>0, ExceptSeq
  <2>3. ServerTypes'
    BY <1>4, <1>0, <2>1, <2>2 DEF WhoInv, ServerTypes, SrvClientKill, netVars
  <2>4. ClientTypes' /\ EntryAgrees' /\ CallTypes' /\ ProcsCall' /\ OpensCounted' /\ ReopenAgrees'
    BY <1>4, <2>1 DEF WhoInv, ClientTypes, EntryAgrees, CallTypes, ProcsCall, OpensCounted,
       ReopenAgrees, SrvClientKill, handleVars, procVars, prefixVars
  <2> QED BY <2>3, <2>4 DEF WhoInv
<1>5. ASSUME NEW i \in DOMAIN kills, SrvCrashCallBacksDone(i) PROVE WhoInv'
  <2>0. i \in 1 .. Len(kills)
    BY <1>0
  <2>1. kills' \in Seq(SUBSET Objects) /\ Len(kills') = Len(kills) - 1
    <3>1. kills' = SubSeq(kills, 1, i-1) \o SubSeq(kills, i+1, Len(kills))
      BY <1>5 DEF SrvCrashCallBacksDone, RemoveAt
    <3>2. SubSeq(kills, 1, i-1) \in Seq(SUBSET Objects) /\ Len(SubSeq(kills, 1, i-1)) = i - 1
      <4>1. PICK k \in Seq(SUBSET Objects) : k = kills
        BY <1>0
      <4>2. \A j \in 1 .. i-1 : k[j] \in SUBSET Objects
        BY <2>0, <4>1
      <4> QED BY <2>0, <4>1, <4>2, <1>0, SubSeqProperties
    <3>3. SubSeq(kills, i+1, Len(kills)) \in Seq(SUBSET Objects)
          /\ Len(SubSeq(kills, i+1, Len(kills))) = Len(kills) - i
      <4>1. PICK k \in Seq(SUBSET Objects) : k = kills
        BY <1>0
      <4> QED BY <2>0, <4>1, <1>0, SubSeqProperties
    <3>4. PICK s1 \in Seq(SUBSET Objects) : s1 = SubSeq(kills, 1, i-1) /\ Len(s1) = i - 1
      BY <3>2
    <3>5. PICK s2 \in Seq(SUBSET Objects) :
             s2 = SubSeq(kills, i+1, Len(kills)) /\ Len(s2) = Len(kills) - i
      BY <3>3
    <3>6. s1 \o s2 \in Seq(SUBSET Objects) /\ Len(s1 \o s2) = Len(s1) + Len(s2)
      BY ConcatProperties
    <3>7. kills' = s1 \o s2
      BY <3>1, <3>4, <3>5
    <3>8. kills' \in Seq(SUBSET Objects) /\ Len(kills') = Len(s1) + Len(s2)
      BY <3>6, <3>7, Zenon
    <3>9. Len(s1) + Len(s2) = Len(kills) - 1
      <4>1. PICK n \in Nat : n = Len(kills)
        BY <1>0
      <4>2. i \in Int /\ Len(s1) = i - 1 /\ Len(s2) = n - i
        BY <4>1, <3>4, <3>5, <2>0
      <4>3. (i - 1) + (n - i) = n - 1
        BY <4>2
      <4> QED BY <4>1, <4>2, <4>3
    <3> QED BY <3>8, <3>9
  <2>2. PICK e : e = sv
    OBVIOUS
  <2>3. Known(e) /\ e.crashes > 0
    BY <1>0, <2>0, <2>2 DEF IsHost, NoHost, Entry
  <2>4. Known(sv') /\ sv'.crashes = sv.crashes - 1
    BY <1>5, <2>2, <2>3, CrashOver DEF SrvCrashCallBacksDone
  <2>5. ServerTypes'
    BY <1>5, <1>0, <2>1, <2>4 DEF WhoInv, ServerTypes, SrvCrashCallBacksDone, netVars, IsHost
  <2> QED BY <1>1, <1>5, <2>5 DEF SrvCrashCallBacksDone
<1>6. CASE SrvBoot
  <2>1. ServerTypes'
    BY <1>6, <1>0 DEF WhoInv, ServerTypes, SrvBoot, netVars
  <2> QED BY <1>1, <1>6, <2>1 DEF SrvBoot
<1>7. CASE SrvCrash
  <2>1. kills' = <<>> /\ sv'.crashes = 0 /\ IsHost(sv') /\ have' = {} /\ cltRecov' = FALSE
    BY <1>7 DEF SrvCrash, IsHost, NoHost, Entry
  <2>2. kills' \in Seq(SUBSET Objects) /\ Len(kills') = 0
    BY <2>1
  <2>3. ServerTypes'
    <3>1. cltRecov' \in BOOLEAN
      BY <2>1, Zenon
    <3>2. up' = "down" /\ boot <= MaxReboots /\ UNCHANGED <<link, cuts, boot>>
      BY <1>7 DEF SrvCrash, netVars
    <3> QED BY <2>1, <2>2, <3>1, <3>2 DEF WhoInv, ServerTypes
  <2> QED BY <1>1, <1>7, <2>3 DEF SrvCrash
<1>8. CASE Cut
  <2>1. link' \in BOOLEAN
    BY <1>8, Zenon DEF Cut
  <2>2. cuts' \in 0 .. MaxCuts
    BY <1>8, <1>0 DEF Cut
  <2>3. ServerTypes'
    BY <1>8, <2>1, <2>2 DEF WhoInv, ServerTypes, Cut, srvVars
  <2> QED BY <1>1, <1>8, <2>3 DEF Cut
<1>9. CASE Heal
  <2>1. ServerTypes'
    BY <1>9, <1>0 DEF WhoInv, ServerTypes, Heal, srvVars
  <2> QED BY <1>1, <1>9, <2>1 DEF Heal
<1>10. CASE SrvCallTimesOut
  <2>1. PICK e : e = sv
    OBVIOUS
  <2>2. Known(sv') /\ sv.crashes <= sv'.crashes
    BY <1>10, <1>0, <2>1, HostDead DEF SrvCallTimesOut
  <2>3. ServerTypes'
    BY <1>10, <1>0, <2>2 DEF WhoInv, ServerTypes, SrvCallTimesOut, netVars, IsHost, Known
  <2> QED BY <1>1, <1>10, <2>3 DEF SrvCallTimesOut
<1>11. CASE SrvCallSucceeds
  <2>1. Heard
    BY <1>11 DEF SrvCallSucceeds, Heard
  <2>2. ServerTypes'
    BY <1>11, <2>1, HeardKeeps DEF WhoInv, ServerTypes, SrvCallSucceeds, netVars
  <2> QED BY <1>1, <1>11, <2>2 DEF SrvCallSucceeds
<1> QED BY <1>2, <1>3, <1>4, <1>5, <1>6, <1>7, <1>8, <1>9, <1>10, <1>11 DEF Server, Faults

-----------------------------------------------------------------------------
(* The client's entry for the server.                                      *)

\* A recovery is newly due, or still.
Due(e, q) ==
    \/ "WANT_RECOVERY" \in q.state
    \/ "REBOOT_CALLBACKS" \in q.state /\ "REBOOT_CALLBACKS" \notin e.state

\* What becomes of an entry, except at the end of the call-backs.
Stays(e, q) ==
    /\ Known(q)
    /\ "FAILURE" \in e.state => "FAILURE" \in q.state
    /\ "REBOOT_CALLBACKS" \in e.state => "REBOOT_CALLBACKS" \in q.state
    /\ "WANT_RECOVERY" \in e.state => Due(e, q)
    /\ ("ALIVE" \in q.state /\ ~(e.bootID = q.bootID /\ "ALIVE" \in e.state)) => Due(e, q)

LEMMA AliveStays ==
    ASSUME NEW e, Known(e), NEW b \in Nat, NEW na \in BOOLEAN
    PROVE  LET q == Recov_HostAlive(e, b, na) IN
           /\ Stays(e, q) /\ q.bootID = b
           /\ na /\ "ALIVE" \in q.state => e.bootID = b /\ "ALIVE" \in e.state
<1>1. IsHost(e)
  BY DEF IsHost
<1>2. PICK q : q = Recov_HostAlive(e, b, na)
  OBVIOUS
<1>3. /\ Known(q) /\ q.bootID = b
      /\ "FAILURE" \in e.state <=> "FAILURE" \in q.state
      /\ "REBOOT_CALLBACKS" \in e.state => "REBOOT_CALLBACKS" \in q.state
      /\ "WANT_RECOVERY" \in e.state => Due(e, q)
      /\ ("ALIVE" \in q.state /\ ~(e.bootID = b /\ "ALIVE" \in e.state)) => Due(e, q) /\ ~na
  BY <1>1, <1>2, HostAlive DEF Due
<1>4. Stays(e, q) /\ q.bootID = b
  BY <1>3 DEF Stays
<1> QED BY <1>2, <1>3, <1>4

LEMMA DeadStays ==
    ASSUME NEW e, Known(e)
    PROVE  /\ Stays(e, Recov_HostDead(e)) /\ Recov_HostDead(e).bootID = e.bootID
           /\ "ALIVE" \notin Recov_HostDead(e).state
<1>1. IsHost(e)
  BY DEF IsHost
<1>2. PICK q : q = Recov_HostDead(e)
  OBVIOUS
<1>3. /\ Known(q) /\ "ALIVE" \notin q.state /\ q.bootID = e.bootID
      /\ \A f \in {"REBOOT_CALLBACKS", "WANT_RECOVERY"} : f \in e.state <=> f \in q.state
      /\ "FAILURE" \in e.state => "FAILURE" \in q.state
  BY <1>1, <1>2, HostDead
<1>4. Stays(e, q)
  BY <1>3 DEF Stays, Due
<1> QED BY <1>2, <1>3, <1>4

LEMMA CrashStays ==
    ASSUME NEW e, Known(e), e.crashes > 0
    PROVE  /\ Stays(e, MarkRecoveryComplete(e))
           /\ MarkRecoveryComplete(e).bootID = e.bootID
           /\ "ALIVE" \in MarkRecoveryComplete(e).state => "ALIVE" \in e.state
<1>2. PICK q : q = MarkRecoveryComplete(e)
  OBVIOUS
<1>3. /\ Known(q) /\ q.bootID = e.bootID
      /\ \A f \in (HostStates \cup HostFlags) \ {"CRASH_CALLBACKS"} :
            f \in q.state <=> f \in e.state
  BY <1>2, CrashOver
<1>4. Stays(e, q) /\ ("ALIVE" \in q.state => "ALIVE" \in e.state)
  BY <1>3 DEF Stays, Due, HostStates, HostFlags
<1> QED BY <1>2, <1>3, <1>4

\* The end of an RPC.
LEMMA CallStays ==
    ASSUME WhoInv, NEW a \in Callers, Replied(a)
    PROVE  /\ Stays(cv, Rpc_Call(a))
           /\ IF Status(a) = "TIMEOUT"
              THEN "ALIVE" \notin Rpc_Call(a).state /\ Rpc_Call(a).bootID = cv.bootID
              ELSE /\ Rpc_Call(a).bootID = rpc[a].reply.boot
                   /\ rpc[a].reply \in [status: Statuses \ {"TIMEOUT"}, boot: Nat, notActive: BOOLEAN]
                   /\ rpc[a].reply.notActive /\ "ALIVE" \in Rpc_Call(a).state
                         => cv.bootID = rpc[a].reply.boot /\ "ALIVE" \in cv.state
<1>0. PICK e : e = cv
  OBVIOUS
<1>1. Known(e)
  BY <1>0 DEF WhoInv, EntryAgrees
<1>2. rpc[a].reply \in Replies /\ rpc[a].reply # NoReply
  BY DEF WhoInv, CallTypes, Calls, Replied
<1>3. CASE Status(a) = "TIMEOUT"
  <2>1. Rpc_Call(a) = Recov_HostDead(e)
    BY <1>0, <1>3 DEF Rpc_Call
  <2> QED BY <1>0, <1>1, <1>3, <2>1, DeadStays
<1>4. CASE Status(a) # "TIMEOUT"
  <2>1. PICK r \in [status: Statuses \ {"TIMEOUT"}, boot: Nat, notActive: BOOLEAN] :
           r = rpc[a].reply
    BY <1>2, <1>4 DEF Replies, Status
  <2>2. PICK b \in Nat : b = r.boot
    OBVIOUS
  <2>3. PICK na \in BOOLEAN : na = r.notActive
    OBVIOUS
  <2>4. Rpc_Call(a) = Recov_HostAlive(e, b, na)
    BY <1>0, <1>4, <2>1, <2>2, <2>3 DEF Rpc_Call
  <2>5. PICK q : q = Recov_HostAlive(e, b, na)
    OBVIOUS
  <2>6. /\ Stays(e, q) /\ q.bootID = b
        /\ na /\ "ALIVE" \in q.state => e.bootID = b /\ "ALIVE" \in e.state
    BY <1>1, <2>5, AliveStays
  <2>7. Rpc_Call(a) = q
    BY <2>4, <2>5
  <2>8. Stays(cv, Rpc_Call(a)) /\ Rpc_Call(a).bootID = rpc[a].reply.boot
    BY <1>0, <2>1, <2>2, <2>6, <2>7
  <2>9. rpc[a].reply.notActive /\ "ALIVE" \in Rpc_Call(a).state
           => cv.bootID = rpc[a].reply.boot /\ "ALIVE" \in cv.state
    BY <1>0, <2>1, <2>2, <2>3, <2>6, <2>7
  <2> QED BY <1>4, <2>1, <2>8, <2>9
<1> QED BY <1>3, <1>4

LEMMA StaysAgrees ==
    ASSUME WhoInv, Stays(cv, cv'), UNCHANGED cb
    PROVE  EntryAgrees'
BY DEF WhoInv, EntryAgrees, Stays

LEMMA HostWho ==
    ASSUME WhoInv, Ping \/ CltCrashCallBacks
    PROVE  WhoInv' /\ Stays(cv, cv')
<1>0. PICK e : e = cv
  OBVIOUS
<1>1. Known(e)
  BY <1>0 DEF WhoInv, EntryAgrees
<1>2. /\ UNCHANGED <<netVars, up, boot, have, cltRecov, kills>>
      /\ UNCHANGED <<rec, cb, handleVars, procVars, prefixVars, rpc, missed>>
  BY DEF Ping, CltCrashCallBacks, srvVars
<1>3. /\ boot \in Nat
      /\ (up = "booting") \in BOOLEAN
  <2>1. boot \in 1 .. MaxReboots + 1 /\ MaxReboots \in Nat
    BY RecovAssumption DEF WhoInv, ServerTypes
  <2> QED BY <2>1
<1>4. Stays(cv, cv')
  <2>1. CASE CltCrashCallBacks
    BY <1>0, <1>1, <2>1, CrashStays DEF CltCrashCallBacks
  <2>2. CASE Ping /\ cv' = Recov_HostDead(cv)
    BY <1>0, <1>1, <2>2, DeadStays
  <2>3. CASE Ping /\ cv' = Recov_HostAlive(cv, boot, up = "booting")
    <3>1. PICK b \in Nat : b = boot
      BY <1>3
    <3>2. PICK na \in BOOLEAN : na = (up = "booting")
      BY <1>3
    <3>3. cv' = Recov_HostAlive(e, b, na)
      BY <1>0, <2>3, <3>1, <3>2
    <3> QED BY <1>0, <1>1, <3>3, AliveStays
  <2> QED BY <2>1, <2>2, <2>3 DEF Ping
<1>5. ServerTypes'
  <2>1. CASE Heard
    BY <1>2, <2>1, HeardKeeps DEF WhoInv, ServerTypes, netVars
  <2>2. CASE UNCHANGED sv
    BY <1>2, <2>2 DEF WhoInv, ServerTypes, netVars
  <2> QED BY <2>1, <2>2 DEF Ping, CltCrashCallBacks, srvVars
<1>6. EntryAgrees'
  BY <1>2, <1>4, StaysAgrees
<1>7. ClientTypes' /\ CallTypes' /\ ProcsCall' /\ OpensCounted' /\ ReopenAgrees'
  BY <1>2 DEF WhoInv, ClientTypes, CallTypes, ProcsCall, OpensCounted,
     ReopenAgrees, handleVars, procVars, prefixVars
<1> QED BY <1>4, <1>5, <1>6, <1>7 DEF WhoInv

\* The re-open sends its next RPC.
LEMMA NextKeeps ==
    ASSUME WhoInv, rec # NoRec, NEW pass \in {"io", "stream", "done"},
           NEW todo \in SUBSET Handles, NEW h \in Handles,
           CallNext(pass, todo, h), UNCHANGED <<pc, cb, opens>>
    PROVE  CallTypes' /\ ProcsCall' /\ OpensCounted' /\ ReopenAgrees'
<1>0. /\ Reopen \in Callers /\ Procs \subseteq Callers /\ Reopen \notin Procs
      /\ rpc \in [Callers -> Calls \cup {NoCall}]
  BY RecovAssumption DEF Callers, WhoInv, CallTypes
<1>1. PICK c : c = Call(pass, h)
  OBVIOUS
<1>2. c \in Calls /\ c # NoCall /\ c.op = pass
  <2>1. NoReply \in Replies
    BY DEF Replies
  <2>2. c = [op |-> pass, h |-> h, reply |-> NoReply]
    BY <1>1 DEF Call
  <2> QED BY <2>1, <2>2 DEF Calls, NoCall
<1>3. rpc' = [rpc EXCEPT ![Reopen] = c]
  BY <1>1 DEF CallNext
<1>4. /\ rpc' \in [Callers -> Calls \cup {NoCall}]
      /\ rpc'[Reopen] = c /\ \A p \in Procs : rpc'[p] = rpc[p]
  BY <1>0, <1>2, <1>3
<1>5. CallTypes' /\ ProcsCall'
  BY <1>4 DEF WhoInv, CallTypes, ProcsCall
<1>6. OpensCounted'
  <2>1. {p \in Procs : rpc'[p].op = "open"} = {p \in Procs : rpc[p].op = "open"}
    BY <1>4
  <2> QED BY <2>1 DEF WhoInv, OpensCounted
<1>7. ReopenAgrees'
  <2>1. rec \in Recoveries
    BY DEF WhoInv, ReopenAgrees
  <2>2. PICK r \in Recoveries : r = rec
    BY <2>1
  <2>3. rec' = [by |-> r.by, pass |-> pass, todo |-> todo]
    BY <2>2 DEF CallNext, Recoveries
  <2>4. rec' \in Recoveries /\ rec'.pass = pass /\ rec'.by = rec.by
    BY <2>2, <2>3 DEF Recoveries
  <2>5. rec' # NoRec
    BY <2>4 DEF NoRec
  <2> QED BY <1>2, <1>4, <2>4, <2>5 DEF WhoInv, ReopenAgrees
<1> QED BY <1>5, <1>6, <1>7

FlagTypes == [Handles -> SUBSET {"NEEDED", "COMPLETE", "FAILED"}]

\* What the passes leave behind, and that they send an RPC.
PassEnds ==
    /\ flags' \in FlagTypes /\ invalid' \subseteq Objects
    /\ \E pass \in {"io", "stream", "done"}, todo \in SUBSET Handles, h \in Handles :
          CallNext(pass, todo, h)

LEMMA DonePass ==
    ASSUME NEW f \in FlagTypes, NEW bad \in SUBSET Objects, RecoveryDone(f, bad)
    PROVE  PassEnds
<1>1. (CHOOSE h \in Handles : TRUE) \in Handles
  BY RecovAssumption
<1> QED BY <1>1 DEF RecoveryDone, PassEnds

LEMMA NotifyPassEnds ==
    ASSUME NEW f \in FlagTypes, NEW bad \in SUBSET Objects, NotifyPass(f, bad)
    PROVE  PassEnds
<1>1. PICK g : g = [h \in Handles |-> IF <<h, "io">> \in bad THEN f[h] ELSE RecoveryNotify(f[h])]
  OBVIOUS
<1>2. g \in FlagTypes
  BY <1>1 DEF FlagTypes, RecoveryNotify
<1>3. PICK b : b = bad \cup {<<h, "io">> : h \in {x \in Handles : "FAILED" \in f[x]}}
  OBVIOUS
<1>4. b \subseteq Objects
  BY <1>3 DEF Objects
<1>5. RecoveryDone(g, b)
  BY <1>1, <1>3 DEF NotifyPass
<1> QED BY <1>2, <1>4, <1>5, DonePass

LEMMA StreamPassEnds ==
    ASSUME NEW todo \in SUBSET Handles, NEW f \in FlagTypes, NEW bad \in SUBSET Objects,
           StreamPass(todo, f, bad)
    PROVE  PassEnds
<1>1. CASE todo = {}
  BY <1>1, NotifyPassEnds DEF StreamPass
<1>2. CASE todo # {}
  <2>1. flags' = f /\ invalid' = bad
    BY <1>2 DEF StreamPass
  <2>2. PICK h \in todo : CallNext("stream", todo \ {h}, h)
    BY <1>2 DEF StreamPass
  <2>3. todo \ {h} \in SUBSET Handles /\ h \in Handles
    OBVIOUS
  <2> QED BY <2>1, <2>2, <2>3 DEF PassEnds
<1> QED BY <1>1, <1>2

LEMMA IOPassEnds ==
    ASSUME NEW todo \in SUBSET Handles, NEW f \in FlagTypes, NEW bad \in SUBSET Objects,
           IOPass(todo, f, bad)
    PROVE  PassEnds
<1>1. CASE todo = {}
  <2>1. PICK td : td = {h \in Handles \ {x \in Handles : "FAILED" \in f[x]} : <<h, "stream">> \notin bad}
    OBVIOUS
  <2>2. PICK b : b = bad \cup {<<h, "stream">> : h \in {x \in Handles : "FAILED" \in f[x]}}
    OBVIOUS
  <2>3. td \in SUBSET Handles /\ b \in SUBSET Objects
    BY <2>1, <2>2 DEF Objects
  <2>4. StreamPass(td, f, b)
    BY <1>1, <2>1, <2>2 DEF IOPass
  <2> QED BY <2>3, <2>4, StreamPassEnds
<1>2. CASE todo # {}
  <2>1. flags' = f /\ invalid' = bad
    BY <1>2 DEF IOPass
  <2>2. PICK h \in todo : CallNext("io", todo \ {h}, h)
    BY <1>2 DEF IOPass
  <2>3. todo \ {h} \in SUBSET Handles /\ h \in Handles
    OBVIOUS
  <2> QED BY <2>1, <2>2, <2>3 DEF PassEnds
<1> QED BY <1>1, <1>2

\* A step from one RPC of the re-open to the next.
LEMMA PassWho ==
    ASSUME WhoInv, rec # NoRec, PassEnds, Stays(cv, cv'), delay' \in BOOLEAN,
           UNCHANGED <<netVars, srvVars, cb, procVars, opens, missed>>
    PROVE  WhoInv'
<1>1. PICK pass \in {"io", "stream", "done"}, todo \in SUBSET Handles, h \in Handles :
         CallNext(pass, todo, h)
  BY DEF PassEnds
<1>2. CallTypes' /\ ProcsCall' /\ OpensCounted' /\ ReopenAgrees'
  BY <1>1, NextKeeps DEF procVars
<1>3. EntryAgrees'
  BY StaysAgrees
<1>4. ServerTypes'
  BY DEF WhoInv, ServerTypes, netVars, srvVars
<1>5. ClientTypes'
  BY DEF WhoInv, ClientTypes, PassEnds, FlagTypes, procVars
<1> QED BY <1>2, <1>3, <1>4, <1>5 DEF WhoInv

LEMMA KnownStays == ASSUME NEW e, Known(e) PROVE Stays(e, e)
BY DEF Stays, Due, Known

LEMMA RecoveryCheckWho == ASSUME WhoInv, Fsprefix_RecoveryCheck PROVE WhoInv' /\ Stays(cv, cv') /\ PassEnds
<1>1. /\ rec # NoRec /\ UNCHANGED <<netVars, srvVars, cv, cb, procVars, opens, missed>>
  BY DEF Fsprefix_RecoveryCheck
<1>2. delay' \in BOOLEAN
  BY Zenon DEF Fsprefix_RecoveryCheck
<1>3. Stays(cv, cv')
  <2>1. PICK e : e = cv
    OBVIOUS
  <2>2. Known(e)
    BY <2>1 DEF WhoInv, EntryAgrees
  <2>3. cv' = e
    BY <1>1, <2>1
  <2> QED BY <2>1, <2>2, <2>3, KnownStays
<1>4. PassEnds
  <2>1. PICK td : td = {h \in Handles : <<h, "io">> \notin invalid}
    OBVIOUS
  <2>2. PICK f : f = flags
    OBVIOUS
  <2>3. PICK b : b = invalid
    OBVIOUS
  <2>4. td \in SUBSET Handles /\ f \in FlagTypes /\ b \in SUBSET Objects
    BY <2>1, <2>2, <2>3 DEF WhoInv, ClientTypes, FlagTypes
  <2>5. IOPass(td, f, b)
    BY <2>1, <2>2, <2>3 DEF Fsprefix_RecoveryCheck
  <2> QED BY <2>4, <2>5, IOPassEnds
<1> QED BY <1>1, <1>2, <1>3, <1>4, PassWho

LEMMA IOReopenedWho == ASSUME WhoInv, IOReopened PROVE WhoInv' /\ Stays(cv, cv') /\ PassEnds
<1>0. Reopen \in Callers
  BY DEF Callers
<1>1. /\ rec # NoRec /\ Replied(Reopen) /\ cv' = Rpc_Call(Reopen)
      /\ UNCHANGED <<netVars, srvVars, cb, procVars, prefixVars, missed>>
  BY DEF IOReopened
<1>2. Stays(cv, cv')
  BY <1>0, <1>1, CallStays
<1>3. PassEnds
  <2>1. PICK f : f = [flags EXCEPT ![rpc[Reopen].h] = RecoveryComplete(@, Status(Reopen))]
    OBVIOUS
  <2>2. f \in FlagTypes
    BY <2>1 DEF WhoInv, ClientTypes, FlagTypes, RecoveryComplete
  <2>3. PICK b : b = invalid
    OBVIOUS
  <2>4. PICK td : td = rec.todo
    OBVIOUS
  <2>5. b \in SUBSET Objects /\ td \in SUBSET Handles
    BY <1>1, <2>3, <2>4 DEF WhoInv, ClientTypes, ReopenAgrees, Recoveries
  <2>6. RecoveryDone(f, b) \/ IOPass(td, f, b)
    BY <2>1, <2>3, <2>4 DEF IOReopened
  <2> QED BY <2>2, <2>5, <2>6, IOPassEnds, DonePass
<1>4. delay' \in BOOLEAN /\ UNCHANGED opens
  BY <1>1 DEF WhoInv, ClientTypes, prefixVars
<1> QED BY <1>1, <1>2, <1>3, <1>4, PassWho

LEMMA StreamReopenedWho == ASSUME WhoInv, StreamReopened PROVE WhoInv' /\ Stays(cv, cv') /\ PassEnds
<1>0. Reopen \in Callers
  BY DEF Callers
<1>1. /\ rec # NoRec /\ Replied(Reopen) /\ cv' = Rpc_Call(Reopen)
      /\ UNCHANGED <<netVars, srvVars, cb, procVars, prefixVars, missed>>
  BY DEF StreamReopened
<1>2. Stays(cv, cv')
  BY <1>0, <1>1, CallStays
<1>3. PassEnds
  <2>1. PICK f : f = flags
    OBVIOUS
  <2>2. PICK b : b = invalid
    OBVIOUS
  <2>3. PICK c : c = invalid \cup {<<rpc[Reopen].h, "stream">>}
    OBVIOUS
  <2>4. PICK td : td = rec.todo
    OBVIOUS
  <2>5. f \in FlagTypes /\ b \in SUBSET Objects /\ td \in SUBSET Handles
    BY <1>1, <2>1, <2>2, <2>4 DEF WhoInv, ClientTypes, ReopenAgrees, Recoveries, FlagTypes
  <2>6. c \in SUBSET Objects
    <3>1. rpc[Reopen].h \in Handles
      BY <1>0, <1>1 DEF WhoInv, CallTypes, Calls, Replied
    <3> QED BY <2>2, <2>3, <2>5, <3>1 DEF Objects
  <2>7. RecoveryDone(f, b) \/ StreamPass(td, f, b) \/ StreamPass(td, f, c)
    BY <2>1, <2>2, <2>3, <2>4 DEF StreamReopened
  <2> QED BY <2>5, <2>6, <2>7, StreamPassEnds, DonePass
<1>4. delay' \in BOOLEAN /\ UNCHANGED opens
  BY <1>1 DEF WhoInv, ClientTypes, prefixVars
<1> QED BY <1>1, <1>2, <1>3, <1>4, PassWho

LEMMA ReopenEndsWho == ASSUME WhoInv, ReopenEnds PROVE WhoInv' /\ Stays(cv, cv')
<1>0. /\ Reopen \in Callers /\ Procs \subseteq Callers /\ Reopen \notin Procs /\ CallBack \notin Procs
      /\ rpc \in [Callers -> Calls \cup {NoCall}]
  BY RecovAssumption DEF Callers, WhoInv, CallTypes
<1>1. /\ rec # NoRec /\ Replied(Reopen) /\ cv' = Rpc_Call(Reopen) /\ rec' = NoRec
      /\ rpc' = [rpc EXCEPT ![Reopen] = NoCall]
      /\ cb' = IF rec.by = CallBack THEN "wake" ELSE cb
      /\ pc' = [p \in Procs |-> CASE p = rec.by -> "wake"
                                  [] pc[p] = "openwait" -> "openok"
                                  [] OTHER -> pc[p]]
      /\ UNCHANGED <<netVars, srvVars, handleVars, want, why, opens, missed>>
  BY DEF ReopenEnds
<1>2. Stays(cv, cv')
  BY <1>0, <1>1, CallStays
<1>3. /\ rpc' \in [Callers -> Calls \cup {NoCall}]
      /\ rpc'[Reopen] = NoCall /\ \A p \in Procs : rpc'[p] = rpc[p]
  BY <1>0, <1>1
<1>4. \A p \in Procs : pc[p] \in ProcStates /\ (p = rec.by => pc[p] = "reopen")
  BY <1>1 DEF WhoInv, ClientTypes, ReopenAgrees
<1>5. pc' \in [Procs -> ProcStates] /\ \A p \in Procs : pc'[p] = "call" <=> pc[p] = "call"
  <2>1. \A p \in Procs : pc'[p] = CASE p = rec.by -> "wake"
                                    [] pc[p] = "openwait" -> "openok"
                                    [] OTHER -> pc[p]
    BY <1>1
  <2>2. \A p \in Procs : pc'[p] \in ProcStates /\ (pc'[p] = "call" <=> pc[p] = "call")
    BY <1>4, <2>1 DEF ProcStates
  <2>3. pc' = [p \in Procs |-> pc'[p]]
    BY <1>1
  <2> QED BY <2>2, <2>3
<1>6. CallTypes' /\ ProcsCall'
  BY <1>3, <1>5 DEF WhoInv, CallTypes, ProcsCall
<1>7. OpensCounted'
  <2>1. {p \in Procs : rpc'[p].op = "open"} = {p \in Procs : rpc[p].op = "open"}
    BY <1>3
  <2> QED BY <1>1, <2>1 DEF WhoInv, OpensCounted
<1>8. ReopenAgrees'
  BY <1>1, <1>3 DEF ReopenAgrees
<1>9. EntryAgrees'
  BY <1>1, <1>2 DEF WhoInv, EntryAgrees, ReopenAgrees, Stays
<1>10. ServerTypes'
  BY <1>1 DEF WhoInv, ServerTypes, netVars, srvVars
<1>11. ClientTypes'
  <2>1. delay' \in BOOLEAN
    BY Zenon DEF ReopenEnds
  <2> QED BY <1>1, <1>5, <2>1 DEF WhoInv, ClientTypes, handleVars
<1> QED BY <1>2, <1>6, <1>7, <1>8, <1>9, <1>10, <1>11 DEF WhoInv

LEMMA WakeupWho ==
    ASSUME WhoInv, NEW by \in Procs \cup {CallBack}, WakeupAllProcesses(by)
    PROVE  WhoInv'
<1>0. CallBack \notin Procs
  BY RecovAssumption
<1>1. /\ IF by = CallBack THEN cb = "wake" /\ cb' = "done"
                          ELSE pc[by] = "wake" /\ UNCHANGED cb
      /\ pc' = [p \in Procs |-> CASE p = by -> "wait"
                                  [] pc[p] = "openwait" -> "openok"
                                  [] OTHER -> pc[p]]
      /\ UNCHANGED <<netVars, srvVars, cv, rec, handleVars, want, why, prefixVars, rpc, missed>>
  BY DEF WakeupAllProcesses
<1>2. \A p \in Procs : pc'[p] = CASE p = by -> "wait"
                                  [] pc[p] = "openwait" -> "openok"
                                  [] OTHER -> pc[p]
  BY <1>1
<1>3. \A p \in Procs : /\ pc'[p] \in ProcStates
                       /\ pc'[p] = "call" <=> pc[p] = "call"
                       /\ pc[p] = "reopen" => pc'[p] = "reopen"
  <2>1. \A p \in Procs : pc[p] \in ProcStates /\ (p = by => pc[p] = "wake")
    BY <1>0, <1>1 DEF WhoInv, ClientTypes
  <2> QED BY <1>2, <2>1 DEF ProcStates
<1>4. pc' \in [Procs -> ProcStates]
  <2>1. pc' = [p \in Procs |-> pc'[p]]
    BY <1>1
  <2> QED BY <1>3, <2>1
<1>5. cb' \in {"none", "reopen", "wake", "done"} /\ (cb' # "none" => cb # "none")
      /\ (cb = "reopen" => cb' = "reopen")
  BY <1>1 DEF WhoInv, EntryAgrees
<1>6. ServerTypes' /\ CallTypes' /\ OpensCounted' /\ EntryAgrees'
  BY <1>1, <1>5 DEF WhoInv, ServerTypes, CallTypes, OpensCounted, EntryAgrees,
     netVars, srvVars, prefixVars
<1>7. ClientTypes'
  BY <1>1, <1>4 DEF WhoInv, ClientTypes, handleVars, prefixVars
<1>8. ProcsCall' /\ ReopenAgrees'
  BY <1>1, <1>3, <1>5 DEF WhoInv, ProcsCall, ReopenAgrees
<1> QED BY <1>6, <1>7, <1>8 DEF WhoInv

\* Fsutil_Reopen begins.
LEMMA BeginsReopen ==
    ASSUME NEW by \in Procs \cup {CallBack}, Fsutil_Reopen(by)
    PROVE  /\ rec' \in Recoveries /\ rec' # NoRec /\ rec'.by = by /\ rec'.pass = "check"
           /\ rec'.todo = {} /\ missed' \in BOOLEAN /\ ~missed'
<1>1. rec' = [by |-> by, pass |-> "check", todo |-> {}]
  BY DEF Fsutil_Reopen
<1>2. rec' \in Recoveries /\ rec'.by = by /\ rec'.pass = "check" /\ rec'.todo = {}
  BY <1>1 DEF Recoveries
<1>3. rec' # NoRec
  BY <1>2 DEF NoRec
<1>4. missed' \in BOOLEAN /\ ~missed'
  BY Zenon DEF Fsutil_Reopen
<1> QED BY <1>2, <1>3, <1>4

LEMMA RebootWho ==
    ASSUME WhoInv, RebootCallBack
    PROVE  WhoInv' /\ UNCHANGED cv
<1>0. CallBack \notin Procs
  BY RecovAssumption
<1>1. /\ cb = "none" /\ "REBOOT_CALLBACKS" \in cv.state
      /\ UNCHANGED <<netVars, srvVars, cv, handleVars, procVars, prefixVars, rpc>>
  BY DEF RebootCallBack
<1>2. ServerTypes' /\ CallTypes' /\ OpensCounted' /\ ProcsCall'
  BY <1>1 DEF WhoInv, ServerTypes, CallTypes, OpensCounted, ProcsCall,
     netVars, srvVars, prefixVars, procVars
<1>3. CASE rec = NoRec
  <2>1. cb' = "reopen" /\ Fsutil_Reopen(CallBack)
    BY <1>3 DEF RebootCallBack
  <2>2. /\ rec' \in Recoveries /\ rec' # NoRec /\ rec'.by = CallBack /\ rec'.pass = "check"
        /\ missed' \in BOOLEAN
    BY <2>1, BeginsReopen
  <2>3. ClientTypes' /\ EntryAgrees'
    BY <1>1, <2>1, <2>2 DEF WhoInv, ClientTypes, EntryAgrees, handleVars, procVars, prefixVars
  <2>4. ReopenAgrees'
    BY <1>0, <1>1, <1>3, <2>1, <2>2 DEF WhoInv, ReopenAgrees
  <2> QED BY <1>1, <1>2, <2>3, <2>4 DEF WhoInv
<1>4. CASE rec # NoRec
  <2>1. cb' = "done" /\ UNCHANGED rec
    BY <1>4 DEF RebootCallBack
  <2>2. missed' \in BOOLEAN
    BY <1>4, Zenon DEF RebootCallBack
  <2>3. ClientTypes' /\ EntryAgrees'
    BY <1>1, <2>1, <2>2 DEF WhoInv, ClientTypes, EntryAgrees, handleVars, procVars, prefixVars
  <2>4. ReopenAgrees'
    BY <1>1, <1>4, <2>1 DEF WhoInv, ReopenAgrees, procVars
  <2> QED BY <1>1, <1>2, <2>3, <2>4 DEF WhoInv
<1> QED BY <1>3, <1>4

LEMMA RebootDoneWho ==
    ASSUME WhoInv, RebootCallBacksDone
    PROVE  WhoInv'
<1>1. /\ cb = "done" /\ cb' = "none" /\ cv' = CallBacksDone(cv)
      /\ UNCHANGED <<netVars, srvVars, rec, handleVars, procVars, prefixVars, rpc, missed>>
  BY DEF RebootCallBacksDone
<1>2. Known(cv')
  <2>1. PICK e : e = cv
    OBVIOUS
  <2>2. Known(e)
    BY <2>1 DEF WhoInv, EntryAgrees
  <2> QED BY <1>1, <2>1, <2>2, CallBacksOver
<1>3. ServerTypes' /\ CallTypes' /\ OpensCounted' /\ ProcsCall' /\ ClientTypes'
  BY <1>1 DEF WhoInv, ServerTypes, CallTypes, OpensCounted, ProcsCall, ClientTypes,
     netVars, srvVars, prefixVars, procVars, handleVars
<1>4. EntryAgrees' /\ ReopenAgrees'
  BY <1>1, <1>2 DEF WhoInv, EntryAgrees, ReopenAgrees, procVars
<1> QED BY <1>3, <1>4 DEF WhoInv

LEMMA WaitWho ==
    ASSUME WhoInv, NEW p \in Procs, RecoveryWait(p) \/ Interrupted(p)
    PROVE  WhoInv'
<1>1. /\ pc[p] \in {"wait", "openwait"}
      /\ pc' = [pc EXCEPT ![p] = "idle"] /\ why' = [why EXCEPT ![p] = "none"]
      /\ UNCHANGED <<netVars, srvVars, cv, rec, cb, handleVars, want, prefixVars, rpc, missed>>
  BY DEF RecoveryWait, Interrupted
<1>2. ServerTypes' /\ CallTypes' /\ OpensCounted' /\ EntryAgrees'
  BY <1>1 DEF WhoInv, ServerTypes, CallTypes, OpensCounted, EntryAgrees,
     netVars, srvVars, prefixVars
<1>3. ClientTypes'
  BY <1>1 DEF WhoInv, ClientTypes, ProcStates, handleVars, prefixVars
<1>4. \A q \in Procs : (pc'[q] = "call" <=> pc[q] = "call") /\ (pc[q] = "reopen" => pc'[q] = "reopen")
  BY <1>1 DEF WhoInv, ClientTypes
<1>5. ProcsCall' /\ ReopenAgrees'
  BY <1>1, <1>4 DEF WhoInv, ProcsCall, ReopenAgrees
<1> QED BY <1>2, <1>3, <1>5 DEF WhoInv

\* A process gets an RPC.
LEMMA ProcCalls ==
    ASSUME WhoInv, NEW p \in Procs, NEW h \in Handles, NEW op \in {"read", "open"},
           pc[p] \in {"idle", "openok"},
           pc' = [pc EXCEPT ![p] = "call"], rpc' = [rpc EXCEPT ![p] = Call(op, h)],
           UNCHANGED <<rec, cb>>
    PROVE  /\ CallTypes' /\ ProcsCall' /\ ReopenAgrees' /\ pc' \in [Procs -> ProcStates]
           /\ IF op = "read"
              THEN Cardinality({q \in Procs : rpc'[q].op = "open"}) = opens
              ELSE Cardinality({q \in Procs : rpc'[q].op = "open"}) = opens + 1
<1>0. /\ Reopen \in Callers /\ Procs \subseteq Callers /\ Reopen \notin Procs
      /\ rpc \in [Callers -> Calls \cup {NoCall}] /\ pc \in [Procs -> ProcStates]
  BY RecovAssumption DEF Callers, WhoInv, CallTypes, ClientTypes
<1>1. PICK c : c = Call(op, h)
  OBVIOUS
<1>2. c \in Calls /\ c # NoCall /\ c.op = op
  <2>1. NoReply \in Replies
    BY DEF Replies
  <2>2. c = [op |-> op, h |-> h, reply |-> NoReply]
    BY <1>1 DEF Call
  <2> QED BY <2>1, <2>2 DEF Calls, NoCall
<1>3. /\ rpc' \in [Callers -> Calls \cup {NoCall}]
      /\ rpc'[p] = c /\ rpc'[Reopen] = rpc[Reopen]
      /\ \A q \in Procs \ {p} : rpc'[q] = rpc[q]
  BY <1>0, <1>1, <1>2
<1>4. /\ pc' \in [Procs -> ProcStates] /\ pc'[p] = "call"
      /\ \A q \in Procs \ {p} : pc'[q] = pc[q]
  BY <1>0 DEF ProcStates
<1>5. CallTypes' /\ ProcsCall'
  BY <1>2, <1>3, <1>4 DEF WhoInv, CallTypes, ProcsCall
<1>6. ReopenAgrees'
  <2>1. \A q \in Procs : pc[q] = "reopen" => pc'[q] = "reopen"
    BY <1>4
  <2> QED BY <1>3, <2>1 DEF WhoInv, ReopenAgrees
<1>7. rpc[p] = NoCall /\ rpc[p].op # "open"
  BY DEF WhoInv, ProcsCall, NoCall
<1> DEFINE S == {q \in Procs : rpc[q].op = "open"}
           T == {q \in Procs : rpc'[q].op = "open"}
<1>8. IsFiniteSet(S) /\ p \notin S /\ opens = Cardinality(S)
  <2>1. S \subseteq Procs
    OBVIOUS
  <2> QED BY <1>7, <2>1, RecovAssumption, FS_Subset DEF WhoInv, OpensCounted
<1>9. op = "read" => T = S
  BY <1>2, <1>3, <1>7
<1>10. op = "open" => T = S \cup {p}
  BY <1>2, <1>3, <1>7
<1>11. Cardinality(S \cup {p}) = Cardinality(S) + 1
  <2> HIDE DEF S
  <2> QED BY <1>8, FS_AddElement
<1> QED BY <1>4, <1>5, <1>6, <1>8, <1>9, <1>10, <1>11

LEMMA ReadWho == ASSUME WhoInv, NEW p \in Procs, NEW h \in Handles, Fs_Read(p, h) PROVE WhoInv'
<1>1. /\ pc[p] = "idle" /\ pc' = [pc EXCEPT ![p] = "call"] /\ want' = [want EXCEPT ![p] = h]
      /\ rpc' = [rpc EXCEPT ![p] = Call("read", h)]
      /\ UNCHANGED <<netVars, srvVars, cv, rec, cb, handleVars, why, prefixVars, missed>>
  BY DEF Fs_Read
<1>2. /\ CallTypes' /\ ProcsCall' /\ ReopenAgrees' /\ pc' \in [Procs -> ProcStates]
      /\ Cardinality({q \in Procs : rpc'[q].op = "open"}) = opens
  BY <1>1, ProcCalls
<1>3. OpensCounted'
  BY <1>1, <1>2 DEF OpensCounted, prefixVars
<1>4. ServerTypes' /\ EntryAgrees'
  BY <1>1 DEF WhoInv, ServerTypes, EntryAgrees, netVars, srvVars
<1>5. ClientTypes'
  BY <1>1, <1>2 DEF WhoInv, ClientTypes, handleVars, prefixVars
<1> QED BY <1>2, <1>3, <1>4, <1>5 DEF WhoInv

LEMMA OpenCheckWho ==
    ASSUME WhoInv, NEW p \in Procs, NEW h \in Handles, Fsprefix_OpenCheck(p, h)
    PROVE  WhoInv'
<1>1. /\ want' = [want EXCEPT ![p] = h]
      /\ UNCHANGED <<netVars, srvVars, cv, rec, cb, handleVars, why, delay, missed>>
  BY DEF Fsprefix_OpenCheck
<1>2. ServerTypes' /\ EntryAgrees'
  BY <1>1 DEF WhoInv, ServerTypes, EntryAgrees, netVars, srvVars
<1>3. want' \in [Procs -> Handles]
  BY <1>1 DEF WhoInv, ClientTypes
<1>4. CASE pc[p] = "idle" /\ pc' = [pc EXCEPT ![p] = "openwait"] /\ UNCHANGED <<opens, rpc>>
  <2>1. CallTypes' /\ OpensCounted'
    BY <1>4 DEF WhoInv, CallTypes, OpensCounted
  <2>2. \A q \in Procs : (pc'[q] = "call" <=> pc[q] = "call") /\ (pc[q] = "reopen" => pc'[q] = "reopen")
    BY <1>4 DEF WhoInv, ClientTypes
  <2>3. ProcsCall' /\ ReopenAgrees'
    BY <1>1, <1>4, <2>2 DEF WhoInv, ProcsCall, ReopenAgrees
  <2>4. ClientTypes'
    BY <1>1, <1>3, <1>4 DEF WhoInv, ClientTypes, ProcStates, handleVars
  <2> QED BY <1>2, <2>1, <2>3, <2>4 DEF WhoInv
<1>5. CASE /\ pc[p] \in {"idle", "openok"}
           /\ pc' = [pc EXCEPT ![p] = "call"] /\ opens' = opens + 1
           /\ rpc' = [rpc EXCEPT ![p] = Call("open", h)]
  <2>1. /\ CallTypes' /\ ProcsCall' /\ ReopenAgrees' /\ pc' \in [Procs -> ProcStates]
        /\ Cardinality({q \in Procs : rpc'[q].op = "open"}) = opens + 1
    BY <1>1, <1>5, ProcCalls
  <2>2. OpensCounted'
    BY <1>5, <2>1 DEF OpensCounted
  <2>3. ClientTypes'
    BY <1>1, <1>3, <2>1 DEF WhoInv, ClientTypes, handleVars
  <2> QED BY <1>2, <2>1, <2>2, <2>3 DEF WhoInv
<1> QED BY <1>4, <1>5 DEF Fsprefix_OpenCheck

\* The RPC of a process returns, for a read or for an open.
LEMMA ReturnsWho ==
    ASSUME WhoInv, NEW p \in Procs, ReadReturns(p) \/ Fsprefix_OpenDone(p)
    PROVE  WhoInv' /\ Stays(cv, cv')
<1>0. /\ Reopen \in Callers /\ p \in Callers /\ Procs \subseteq Callers /\ Reopen \notin Procs
      /\ CallBack \notin Procs
      /\ rpc \in [Callers -> Calls \cup {NoCall}] /\ pc \in [Procs -> ProcStates]
  BY RecovAssumption DEF Callers, WhoInv, CallTypes, ClientTypes
<1>1. /\ pc[p] = "call" /\ Replied(p) /\ cv' = Rpc_Call(p)
      /\ rpc' = [rpc EXCEPT ![p] = NoCall]
      /\ UNCHANGED <<netVars, srvVars, cb, invalid, want, delay>>
  BY DEF ReadReturns, Fsprefix_OpenDone, Returns
<1>2. Stays(cv, cv')
  BY <1>0, <1>1, CallStays
<1>3. /\ rpc' \in [Callers -> Calls \cup {NoCall}]
      /\ rpc'[p] = NoCall /\ rpc'[Reopen] = rpc[Reopen]
      /\ \A q \in Procs \ {p} : rpc'[q] = rpc[q]
  BY <1>0, <1>1
<1>4. /\ \E s \in {"idle", "reopen", "wait"} : pc' = [pc EXCEPT ![p] = s]
      /\ flags' \in FlagTypes /\ why' \in [Procs -> {"none"} \cup Statuses]
      /\ missed' \in BOOLEAN
      /\ \/ UNCHANGED <<rec, missed>>
         \/ rec = NoRec /\ pc' = [pc EXCEPT ![p] = "reopen"] /\ Fsutil_Reopen(p)
  <2>0. flags \in FlagTypes /\ why \in [Procs -> {"none"} \cup Statuses] /\ missed \in BOOLEAN
    BY DEF WhoInv, ClientTypes, FlagTypes
  <2>1. Status(p) \in Statuses
    <3>1. rpc[p].reply \in Replies /\ rpc[p].reply # NoReply
      BY <1>0, <1>1 DEF Calls, Replied
    <3> QED BY <3>1 DEF Status, Replies, Statuses
  <2>2. Returns(p)
    BY DEF ReadReturns, Fsprefix_OpenDone
  <2>3. CASE Status(p) = "SUCCESS"
    <3>1. pc' = [pc EXCEPT ![p] = "idle"] /\ UNCHANGED <<flags, why, rec, missed>>
      BY <2>2, <2>3 DEF Returns
    <3> QED BY <3>1, <2>0
  <2>4. CASE Status(p) # "SUCCESS"
    <3>1. flags' = [flags EXCEPT ![want[p]] = @ \cup {"NEEDED"}]
      BY <2>2, <2>4 DEF Returns
    <3>2. flags' \in FlagTypes
      BY <2>0, <3>1 DEF FlagTypes
    <3>3. CASE pc' = [pc EXCEPT ![p] = "idle"] /\ UNCHANGED <<why, rec, missed>>
      BY <3>2, <3>3, <2>0
    <3>4. CASE why' = [why EXCEPT ![p] = Status(p)] /\ rec = NoRec
               /\ pc' = [pc EXCEPT ![p] = "reopen"] /\ Fsutil_Reopen(p)
      <4>1. missed' \in BOOLEAN
        BY <3>4, BeginsReopen
      <4> QED BY <3>2, <3>4, <2>0, <2>1, <4>1
    <3>5. CASE why' = [why EXCEPT ![p] = Status(p)]
               /\ pc' = [pc EXCEPT ![p] = "wait"] /\ UNCHANGED <<rec, missed>>
      BY <3>2, <3>5, <2>0, <2>1
    <3>6. \/ pc' = [pc EXCEPT ![p] = "idle"] /\ UNCHANGED <<why, rec, missed>>
          \/ /\ why' = [why EXCEPT ![p] = Status(p)] /\ rec = NoRec
             /\ pc' = [pc EXCEPT ![p] = "reopen"] /\ Fsutil_Reopen(p)
          \/ /\ why' = [why EXCEPT ![p] = Status(p)]
             /\ pc' = [pc EXCEPT ![p] = "wait"] /\ UNCHANGED <<rec, missed>>
      BY <2>2, <2>4 DEF Returns
    <3> QED BY <3>3, <3>4, <3>5, <3>6
  <2> QED BY <2>3, <2>4
<1>5. PICK s \in {"idle", "reopen", "wait"} : pc' = [pc EXCEPT ![p] = s]
  BY <1>4
<1>6. /\ pc' \in [Procs -> ProcStates] /\ pc'[p] = s
      /\ \A q \in Procs \ {p} : pc'[q] = pc[q]
  BY <1>0, <1>5 DEF ProcStates
<1>7. CallTypes' /\ ProcsCall'
  <2>1. NoCall.op = "none"
    BY DEF NoCall
  <2> QED BY <1>3, <1>6, <2>1 DEF WhoInv, CallTypes, ProcsCall
<1>8. ReopenAgrees'
  <2>1. CASE UNCHANGED <<rec, missed>>
    <3>1. \A q \in Procs : pc[q] = "reopen" => pc'[q] = "reopen"
      BY <1>1, <1>6
    <3> QED BY <1>1, <1>3, <2>1, <3>1 DEF WhoInv, ReopenAgrees
  <2>2. CASE rec = NoRec /\ pc' = [pc EXCEPT ![p] = "reopen"] /\ Fsutil_Reopen(p)
    <3>1. /\ rec' \in Recoveries /\ rec' # NoRec /\ rec'.by = p /\ rec'.pass = "check"
      BY <2>2, BeginsReopen
    <3>2. pc'[p] = "reopen"
      BY <1>0, <2>2
    <3>3. rpc'[Reopen] = NoCall
      BY <1>3, <2>2 DEF WhoInv, ReopenAgrees
    <3> QED BY <1>0, <3>1, <3>2, <3>3 DEF ReopenAgrees
  <2> QED BY <1>4, <2>1, <2>2
<1>9. OpensCounted'
  <2> DEFINE S == {q \in Procs : rpc[q].op = "open"}
             T == {q \in Procs : rpc'[q].op = "open"}
  <2>1. NoCall.op = "none"
    BY DEF NoCall
  <2>2. IsFiniteSet(S) /\ opens = Cardinality(S)
    <3>1. S \subseteq Procs
      OBVIOUS
    <3> QED BY <3>1, RecovAssumption, FS_Subset DEF WhoInv, OpensCounted
  <2>3. T = S \ {p}
    BY <1>3, <2>1
  <2>4. CASE ReadReturns(p)
    <3>1. p \notin S /\ UNCHANGED opens
      BY <2>4 DEF ReadReturns
    <3>2. T = S
      BY <2>3, <3>1
    <3> QED BY <2>2, <3>1, <3>2 DEF OpensCounted
  <2>5. CASE Fsprefix_OpenDone(p)
    <3>1. p \in S /\ opens' = opens - 1
      BY <2>5 DEF Fsprefix_OpenDone
    <3>2. Cardinality(S \ {p}) = Cardinality(S) - 1
      <4> HIDE DEF S
      <4> QED BY <2>2, <3>1, FS_RemoveElement
    <3> QED BY <2>2, <2>3, <3>1, <3>2 DEF OpensCounted
  <2> QED BY <2>4, <2>5
<1>10. EntryAgrees'
  BY <1>1, <1>2, StaysAgrees
<1>11. ServerTypes'
  BY <1>1 DEF WhoInv, ServerTypes, netVars, srvVars
<1>12. ClientTypes'
  BY <1>1, <1>4, <1>6 DEF WhoInv, ClientTypes, FlagTypes
<1> QED BY <1>2, <1>7, <1>8, <1>9, <1>10, <1>11, <1>12 DEF WhoInv

LEMMA WhoInit == Init => WhoInv
<1> SUFFICES ASSUME Init PROVE WhoInv
  OBVIOUS
<1>0. MaxReboots \in Nat /\ MaxCuts \in Nat
  BY RecovAssumption
<1>1. Known(Entry({"ALIVE"}, 1, 0))
  BY StateKnown DEF HostStates, HostFlags
<1>2. ServerTypes
  <2>1. sv = Entry({"ALIVE"}, 1, 0) /\ sv.crashes = 0 /\ kills = <<>>
    BY DEF Init, Entry
  <2>2. kills \in Seq(SUBSET Objects) /\ Len(kills) = 0
    BY <2>1
  <2>3. link \in BOOLEAN /\ cltRecov \in BOOLEAN
    BY Zenon DEF Init
  <2>4. IsHost(sv)
    BY <1>1, <2>1 DEF IsHost
  <2>5. cuts \in 0 .. MaxCuts /\ up = "up" /\ boot \in 1 .. MaxReboots + 1 /\ have \subseteq Objects
    BY <1>0 DEF Init
  <2> QED BY <2>1, <2>2, <2>3, <2>4, <2>5 DEF ServerTypes
<1>3. ClientTypes
  <2>1. delay \in BOOLEAN /\ missed \in BOOLEAN
    BY Zenon DEF Init
  <2> QED BY <2>1 DEF Init, ClientTypes, ProcStates
<1>4. CallTypes
  BY DEF Init, CallTypes
<1>5. ProcsCall
  <2>1. \A p \in Procs : pc[p] = "idle" /\ rpc[p] = NoCall
    BY DEF Init, Callers
  <2> QED BY <2>1 DEF ProcsCall, NoCall
<1>6. OpensCounted
  <2>1. {p \in Procs : rpc[p].op = "open"} = {}
    BY DEF Init, Callers, NoCall
  <2> QED BY <2>1, FS_EmptySet DEF Init, OpensCounted
<1>7. ReopenAgrees
  BY DEF Init, ReopenAgrees, Callers
<1>8. EntryAgrees
  BY <1>1 DEF Init, EntryAgrees
<1> QED BY <1>2, <1>3, <1>4, <1>5, <1>6, <1>7, <1>8 DEF WhoInv

LEMMA WhoStep == WhoInv /\ [Next]_vars => WhoInv'
<1> SUFFICES ASSUME WhoInv, [Next]_vars PROVE WhoInv'
  OBVIOUS
<1>1. CASE Server \/ Faults \/ Heal \/ SrvCallSucceeds
  BY <1>1, ServerWho
<1>2. CASE Recovery
  BY <1>2, HostWho, RebootWho, RebootDoneWho, RecoveryCheckWho, IOReopenedWho,
     StreamReopenedWho, ReopenEndsWho, WakeupWho DEF Recovery
<1>3. ASSUME NEW a \in Callers, Serve(a) \/ RpcTimesOut(a) \/ RpcLost(a) PROVE WhoInv'
  BY <1>3, ServeWho, RpcFateWho
<1>4. ASSUME NEW p \in Procs, Process(p) \/ Interrupted(p) PROVE WhoInv'
  <2>1. PICK h \in Handles : h = want[p]
    BY DEF WhoInv, ClientTypes
  <2>2. CASE pc[p] = "openok" /\ Fsprefix_OpenCheck(p, want[p])
    <3>1. Fsprefix_OpenCheck(p, h)
      BY <2>1, <2>2
    <3> QED BY <3>1, OpenCheckWho
  <2> QED BY <1>4, <2>2, ReturnsWho, WaitWho DEF Process
<1>5. ASSUME NEW p \in Procs, NEW h \in Handles, Fs_Read(p, h) \/ Fsprefix_OpenCheck(p, h)
      PROVE  WhoInv'
  BY <1>5, ReadWho, OpenCheckWho
<1>6. CASE UNCHANGED vars
  BY <1>6 DEF vars, WhoInv, ServerTypes, ClientTypes, CallTypes, ProcsCall, OpensCounted,
     ReopenAgrees, EntryAgrees, netVars, srvVars, prefixVars, procVars, handleVars
<1> QED BY <1>1, <1>2, <1>3, <1>4, <1>5, <1>6 DEF Next

\* The variables keep their types, activeOpens counts the opens, and the call-back
\* runs only while the host table says so.
THEOREM RecovTypeCorrect == Spec => []TypeOK
<1>1. Spec => []WhoInv
  BY WhoInit, WhoStep, PTL DEF Spec
<1> QED BY <1>1, WhoTypes, PTL

-----------------------------------------------------------------------------
(* CLT_RECOV_IN_PROGRESS: opens that are turned away.                      *)

\* A recovery is to come: the call-backs that are running do not count unless
\* they have yet to begin or a failure makes them start again.
ToCome(e, c) ==
    \/ "ALIVE" \notin e.state \/ "WANT_RECOVERY" \in e.state
    \/ "REBOOT_CALLBACKS" \in e.state /\ (c = "none" \/ "FAILURE" \in e.state)

\* The flag is lost with the server, and is off once the server has answered the
\* message that ends a re-open.
ShutInv ==
    /\ up # "up" => ~cltRecov
    /\ (rpc[Reopen].op = "done" /\ Status(Reopen) \notin {"none", "TIMEOUT"}) => ~cltRecov
    /\ cltRecov => rec # NoRec \/ ToCome(cv, cb)

LEMMA ToComeStays ==
    ASSUME NEW e, NEW q, NEW c, NEW d, ToCome(e, c), Stays(e, q),
           c # "none" => "REBOOT_CALLBACKS" \in e.state, d = "none" <=> c = "none"
    PROVE  ToCome(q, d)
BY DEF ToCome, Stays, Due

\* The steps that leave the server's flag alone and end no re-open.
LEMMA ShutKeeps ==
    ASSUME WhoInv, ShutInv, UNCHANGED <<up, cltRecov>>, Stays(cv, cv'),
           cb' = "none" <=> cb = "none", rec # NoRec => rec' # NoRec,
           rpc'[Reopen] = rpc[Reopen] \/ rpc'[Reopen].reply = NoReply
    PROVE  ShutInv'
<1>1. (up # "up" => ~cltRecov)'
  BY DEF ShutInv
<1>2. ((rpc[Reopen].op = "done" /\ Status(Reopen) \notin {"none", "TIMEOUT"}) => ~cltRecov)'
  BY DEF ShutInv, Status, NoReply
<1>3. ToCome(cv, cb) => ToCome(cv', cb')
  <2> SUFFICES ASSUME ToCome(cv, cb) PROVE ToCome(cv', cb')
    OBVIOUS
  <2>1. PICK e : e = cv
    OBVIOUS
  <2>2. PICK q : q = cv'
    OBVIOUS
  <2>3. PICK c : c = cb
    OBVIOUS
  <2>4. PICK d : d = cb'
    OBVIOUS
  <2>5. c # "none" => "REBOOT_CALLBACKS" \in e.state
    BY <2>1, <2>3 DEF WhoInv, EntryAgrees
  <2>6. ToCome(e, c) /\ Stays(e, q) /\ (d = "none" <=> c = "none")
    BY <2>1, <2>2, <2>3, <2>4
  <2>7. ToCome(q, d)
    BY <2>5, <2>6, ToComeStays
  <2> QED BY <2>2, <2>4, <2>7
<1>4. (cltRecov => rec # NoRec \/ ToCome(cv, cb))'
  BY <1>3 DEF ShutInv
<1> QED BY <1>1, <1>2, <1>4 DEF ShutInv

LEMMA ServeShut == ASSUME WhoInv, ShutInv, NEW a \in Callers, Serve(a) PROVE ShutInv'
<1>0. /\ Reopen \in Callers /\ UNCHANGED <<cv, rec, cb>>
      /\ \A p \in Procs : rpc[p].op \in {"none", "read", "open"}
  BY DEF Serve, Callers, WhoInv, ProcsCall
<1>1. /\ rpc[a] # NoCall /\ UNCHANGED up
      /\ \/ up = "booting" /\ cltRecov' = cltRecov
         \/ /\ up = "up"
            /\ \/ cltRecov' = cltRecov /\ rpc[a].op \in {"read", "open"}
               \/ cltRecov' = TRUE /\ rpc[a].op \in {"io", "stream"}
               \/ cltRecov' = FALSE /\ rpc[a].op = "done"
  BY ServeAnswers
<1>2. PICK r \in Replies : rpc' = [rpc EXCEPT ![a].reply = r]
  BY ServeAnswers
<1>3. /\ rpc'[Reopen].op = rpc[Reopen].op
      /\ a # Reopen => rpc'[Reopen] = rpc[Reopen]
  <2>1. PICK f \in [Callers -> Calls \cup {NoCall}] : f = rpc
    BY DEF WhoInv, CallTypes
  <2>2. PICK g : g = rpc'
    OBVIOUS
  <2>3. g = [f EXCEPT ![a].reply = r] /\ f[a] # NoCall
    BY <1>1, <1>2, <2>1, <2>2
  <2> QED BY <1>0, <2>1, <2>2, <2>3, ReplySet
<1>4. CASE up = "booting" /\ cltRecov' = cltRecov
  BY <1>0, <1>1, <1>4 DEF ShutInv
<1>5. CASE up = "up" /\ cltRecov' = cltRecov /\ rpc[a].op \in {"read", "open"}
  BY <1>0, <1>1, <1>3, <1>5 DEF ShutInv, Status
<1>6. CASE up = "up" /\ rpc[a].op \in {"io", "stream"}
  <2>1. a = Reopen
    BY <1>0, <1>6 DEF Callers
  <2>2. rec # NoRec
    BY <1>1, <2>1 DEF WhoInv, ReopenAgrees
  <2>3. up' = "up" /\ rpc'[Reopen].op # "done" /\ rec' # NoRec
    BY <1>0, <1>1, <1>3, <1>6, <2>1, <2>2
  <2> QED BY <2>3 DEF ShutInv
<1>7. CASE cltRecov' = FALSE
  BY <1>7, Zenon DEF ShutInv
<1> QED BY <1>1, <1>4, <1>5, <1>6, <1>7

LEMMA RpcFateShut ==
    ASSUME WhoInv, ShutInv, NEW a \in Callers, RpcTimesOut(a) \/ RpcLost(a)
    PROVE  ShutInv'
<1>0. Reopen \in Callers
  BY DEF Callers
<1>1. rpc[a] # NoCall /\ UNCHANGED <<up, cltRecov, cv, rec, cb>>
  BY DEF RpcTimesOut, RpcLost, srvVars
<1>2. PICK r \in {NoReply, [status |-> "TIMEOUT"]} : rpc' = [rpc EXCEPT ![a].reply = r]
  BY DEF RpcTimesOut, RpcLost
<1>3. r \in Replies /\ r.status \in {"none", "TIMEOUT"}
  BY DEF Replies, NoReply
<1>4. /\ a # Reopen => rpc'[Reopen] = rpc[Reopen]
      /\ a = Reopen => rpc'[Reopen].reply = r
  <2>1. PICK f \in [Callers -> Calls \cup {NoCall}] : f = rpc
    BY DEF WhoInv, CallTypes
  <2>2. PICK g : g = rpc'
    OBVIOUS
  <2>3. g = [f EXCEPT ![a].reply = r] /\ f[a] # NoCall
    BY <1>1, <1>2, <2>1, <2>2
  <2> QED BY <1>0, <1>3, <2>1, <2>2, <2>3, ReplySet
<1>5. CASE a = Reopen
  <2>1. Status(Reopen)' \in {"none", "TIMEOUT"}
    BY <1>3, <1>4, <1>5 DEF Status
  <2> QED BY <1>1, <2>1 DEF ShutInv
<1>6. CASE a # Reopen
  <2>1. Status(Reopen)' = Status(Reopen) /\ rpc'[Reopen] = rpc[Reopen]
    BY <1>4, <1>6 DEF Status
  <2> QED BY <1>1, <2>1 DEF ShutInv
<1> QED BY <1>5, <1>6

LEMMA ServerShut ==
    ASSUME WhoInv, ShutInv, Server \/ Faults \/ Heal \/ SrvCallSucceeds
    PROVE  ShutInv'
<1>1. UNCHANGED <<cv, rec, cb, rpc>>
  <2>1. CASE Server
    BY <2>1 DEF Server, SrvClientCrashed, SrvRebootCallBacks, SrvClientKill,
       SrvCrashCallBacksDone, SrvBoot
  <2>2. CASE Faults
    BY <2>2 DEF Faults, SrvCrash, Cut, SrvCallTimesOut
  <2>3. CASE Heal \/ SrvCallSucceeds
    BY <2>3 DEF Heal, SrvCallSucceeds
  <2> QED BY <2>1, <2>2, <2>3
<1>2. CASE SrvClientCrashed \/ SrvCrash
  <2>1. ~cltRecov'
    BY <1>2, Zenon DEF SrvClientCrashed, SrvCrash
  <2> QED BY <2>1 DEF ShutInv
<1>3. CASE SrvBoot
  <2>1. up # "up" /\ UNCHANGED cltRecov
    BY <1>3 DEF SrvBoot
  <2> QED BY <1>1, <2>1 DEF ShutInv
<1>4. CASE UNCHANGED <<up, cltRecov>>
  <2>1. Status(Reopen)' = Status(Reopen)
    BY <1>1 DEF Status
  <2> QED BY <1>1, <1>4, <2>1 DEF ShutInv
<1>5. SrvClientCrashed \/ SrvCrash \/ SrvBoot \/ UNCHANGED <<up, cltRecov>>
  <2>1. CASE Server
    BY <2>1 DEF Server, SrvRebootCallBacks, SrvClientKill, SrvCrashCallBacksDone
  <2>2. CASE Faults
    BY <2>2 DEF Faults, Cut, SrvCallTimesOut, srvVars
  <2>3. CASE Heal \/ SrvCallSucceeds
    BY <2>3 DEF Heal, SrvCallSucceeds, srvVars
  <2> QED BY <2>1, <2>2, <2>3
<1> QED BY <1>2, <1>3, <1>4, <1>5

LEMMA PassShut ==
    ASSUME WhoInv, ShutInv, Fsprefix_RecoveryCheck \/ IOReopened \/ StreamReopened
    PROVE  ShutInv'
<1>1. Stays(cv, cv') /\ PassEnds
  BY RecoveryCheckWho, IOReopenedWho, StreamReopenedWho
<1>2. rec # NoRec /\ UNCHANGED <<up, cltRecov, cb>>
  BY DEF Fsprefix_RecoveryCheck, IOReopened, StreamReopened, srvVars
<1>3. PICK pass \in {"io", "stream", "done"}, todo \in SUBSET Handles, h \in Handles :
         CallNext(pass, todo, h)
  BY <1>1 DEF PassEnds
<1>4. rpc'[Reopen].reply = NoReply
  <2>1. Reopen \in DOMAIN rpc
    BY DEF WhoInv, CallTypes, Callers
  <2> QED BY <1>3, <2>1 DEF CallNext, Call
<1>5. rec' # NoRec
  <2>1. PICK r \in Recoveries : r = rec
    BY <1>2 DEF WhoInv, ReopenAgrees
  <2>2. rec' = [r EXCEPT !.pass = pass, !.todo = todo]
    BY <1>3, <2>1 DEF CallNext
  <2>3. rec'.pass = pass
    BY <2>2 DEF Recoveries
  <2> QED BY <2>3 DEF NoRec
<1> QED BY <1>1, <1>2, <1>4, <1>5, ShutKeeps

LEMMA ReopenEndsShut == ASSUME WhoInv, ShutInv, ReopenEnds PROVE ShutInv'
<1>0. Reopen \in Callers
  BY DEF Callers
<1>1. /\ rec # NoRec /\ rec.pass = "done" /\ Replied(Reopen) /\ cv' = Rpc_Call(Reopen)
      /\ rpc' = [rpc EXCEPT ![Reopen] = NoCall] /\ UNCHANGED <<up, cltRecov>>
  BY DEF ReopenEnds, srvVars
<1>2. rpc'[Reopen].op # "done"
  <2>1. rpc'[Reopen] = NoCall
    BY <1>0, <1>1 DEF WhoInv, CallTypes
  <2> QED BY <2>1 DEF NoCall
<1>3. rpc[Reopen].op = "done"
  BY <1>1 DEF WhoInv, ReopenAgrees
<1>4. CASE Status(Reopen) = "TIMEOUT"
  <2>1. "ALIVE" \notin cv'.state
    BY <1>0, <1>1, <1>4, CallStays
  <2> QED BY <1>1, <1>2, <2>1 DEF ShutInv, ToCome
<1>5. CASE Status(Reopen) # "TIMEOUT"
  <2>1. rpc[Reopen].reply \in [status: Statuses \ {"TIMEOUT"}, boot: Nat, notActive: BOOLEAN]
    BY <1>0, <1>1, <1>5, CallStays
  <2>2. Status(Reopen) # "none"
    BY <2>1 DEF Status, Statuses
  <2>3. ~cltRecov
    BY <1>3, <1>5, <2>2 DEF ShutInv
  <2> QED BY <1>1, <2>3 DEF ShutInv
<1> QED BY <1>4, <1>5

LEMMA CallBackShut ==
    ASSUME WhoInv, ShutInv, RebootCallBack \/ RebootCallBacksDone
    PROVE  ShutInv'
<1>1. UNCHANGED <<up, cltRecov, rpc>>
  BY DEF RebootCallBack, RebootCallBacksDone, srvVars
<1>2. (up # "up" => ~cltRecov)'
  BY <1>1 DEF ShutInv
<1>3. ((rpc[Reopen].op = "done" /\ Status(Reopen) \notin {"none", "TIMEOUT"}) => ~cltRecov)'
  BY <1>1 DEF ShutInv, Status
<1>4. CASE RebootCallBack
  <2>1. CASE rec = NoRec
    <3>1. Fsutil_Reopen(CallBack)
      BY <1>4, <2>1 DEF RebootCallBack
    <3>2. rec' # NoRec
      BY <3>1, BeginsReopen
    <3> QED BY <1>2, <1>3, <3>2 DEF ShutInv
  <2>2. CASE rec # NoRec
    <3>1. UNCHANGED rec
      BY <1>4, <2>2 DEF RebootCallBack
    <3> QED BY <1>2, <1>3, <2>2, <3>1 DEF ShutInv
  <2> QED BY <2>1, <2>2
<1>5. CASE RebootCallBacksDone
  <2>1. cb = "done" /\ cv' = CallBacksDone(cv) /\ UNCHANGED rec
    BY <1>5 DEF RebootCallBacksDone
  <2>2. PICK e : e = cv
    OBVIOUS
  <2>3. Known(e)
    BY <2>2 DEF WhoInv, EntryAgrees
  <2>4. /\ "ALIVE" \in cv'.state <=> "ALIVE" \in cv.state
        /\ "WANT_RECOVERY" \in cv'.state <=> cv.state \cap {"FAILURE", "WANT_RECOVERY"} # {}
    BY <2>1, <2>2, <2>3, CallBacksOver
  <2>5. ToCome(cv, cb) => ToCome(cv', cb')
    BY <2>1, <2>4 DEF ToCome
  <2> QED BY <1>1, <1>2, <1>3, <2>1, <2>5 DEF ShutInv
<1> QED BY <1>4, <1>5

\* The steps of the processes, and the others of the client.
LEMMA ClientShut ==
    ASSUME WhoInv, ShutInv,
           \/ Ping \/ CltCrashCallBacks
           \/ \E by \in Procs \cup {CallBack} : WakeupAllProcesses(by)
           \/ \E p \in Procs : \/ Process(p) \/ Interrupted(p)
                               \/ \E h \in Handles : Fs_Read(p, h) \/ Fsprefix_OpenCheck(p, h)
    PROVE  ShutInv'
<1>0. /\ Reopen \in Callers /\ Reopen \notin Procs /\ CallBack \notin Procs
      /\ rpc \in [Callers -> Calls \cup {NoCall}]
  BY RecovAssumption DEF Callers, WhoInv, CallTypes
<1>1. ASSUME UNCHANGED cv PROVE Stays(cv, cv')
  <2>1. PICK e : e = cv
    OBVIOUS
  <2>2. Known(e)
    BY <2>1 DEF WhoInv, EntryAgrees
  <2>3. cv' = e
    BY <1>1, <2>1
  <2> QED BY <2>1, <2>2, <2>3, KnownStays
<1>2. CASE Ping \/ CltCrashCallBacks
  <2>1. Stays(cv, cv')
    BY <1>2, HostWho
  <2>2. UNCHANGED <<up, cltRecov, cb, rec, rpc>>
    BY <1>2 DEF Ping, CltCrashCallBacks, srvVars
  <2> QED BY <2>1, <2>2, ShutKeeps
<1>3. ASSUME NEW by \in Procs \cup {CallBack}, WakeupAllProcesses(by) PROVE ShutInv'
  <2>1. UNCHANGED <<up, cltRecov, rec, rpc, cv>> /\ (cb' = "none" <=> cb = "none")
    BY <1>3 DEF WakeupAllProcesses, srvVars
  <2> QED BY <1>1, <2>1, ShutKeeps
<1>4. ASSUME NEW p \in Procs, ReadReturns(p) \/ Fsprefix_OpenDone(p) PROVE ShutInv'
  <2>0. Returns(p)
    BY <1>4 DEF ReadReturns, Fsprefix_OpenDone
  <2>1. UNCHANGED <<up, cltRecov, cb>> /\ rpc' = [rpc EXCEPT ![p] = NoCall]
    BY <2>0 DEF Returns, srvVars
  <2>2. rpc'[Reopen] = rpc[Reopen]
    BY <1>0, <2>1
  <2>3. rec # NoRec => rec' # NoRec
    BY <2>0 DEF Returns
  <2>4. Stays(cv, cv')
    BY <1>4, ReturnsWho
  <2> QED BY <2>1, <2>2, <2>3, <2>4, ShutKeeps
<1>5. ASSUME NEW p \in Procs, RecoveryWait(p) \/ Interrupted(p) PROVE ShutInv'
  <2>1. UNCHANGED <<up, cltRecov, cb, rec, rpc, cv>>
    BY <1>5 DEF RecoveryWait, Interrupted, srvVars
  <2> QED BY <1>1, <2>1, ShutKeeps
<1>6. ASSUME NEW p \in Procs, NEW h, Fs_Read(p, h) \/ Fsprefix_OpenCheck(p, h) PROVE ShutInv'
  <2>1. UNCHANGED <<up, cltRecov, cb, rec, cv>>
    BY <1>6 DEF Fs_Read, Fsprefix_OpenCheck, srvVars
  <2>2. rpc'[Reopen] = rpc[Reopen]
    BY <1>0, <1>6 DEF Fs_Read, Fsprefix_OpenCheck
  <2> QED BY <1>1, <2>1, <2>2, ShutKeeps
<1>7. ASSUME NEW p \in Procs, Process(p) \/ Interrupted(p) PROVE ShutInv'
  <2>1. PICK h : h = want[p]
    OBVIOUS
  <2>2. CASE pc[p] = "openok" /\ Fsprefix_OpenCheck(p, want[p])
    <3>1. Fsprefix_OpenCheck(p, h)
      BY <2>1, <2>2
    <3> QED BY <3>1, <1>6
  <2> QED BY <1>4, <1>5, <1>7, <2>2 DEF Process
<1> QED BY <1>2, <1>3, <1>6, <1>7

LEMMA ShutStep == WhoInv /\ ShutInv /\ [Next]_vars => ShutInv'
<1> SUFFICES ASSUME WhoInv, ShutInv, [Next]_vars PROVE ShutInv'
  OBVIOUS
<1>1. CASE Server \/ Faults \/ Heal \/ SrvCallSucceeds
  BY <1>1, ServerShut
<1>2. CASE Recovery
  BY <1>2, ClientShut, CallBackShut, PassShut, ReopenEndsShut DEF Recovery
<1>3. ASSUME NEW a \in Callers, Serve(a) \/ RpcTimesOut(a) \/ RpcLost(a) PROVE ShutInv'
  BY <1>3, ServeShut, RpcFateShut
<1>4. ASSUME NEW p \in Procs,
             \/ Process(p) \/ Interrupted(p)
             \/ \E h \in Handles : Fs_Read(p, h) \/ Fsprefix_OpenCheck(p, h)
      PROVE  ShutInv'
  BY <1>4, ClientShut
<1>5. CASE UNCHANGED vars
  <2>1. UNCHANGED <<up, cltRecov, cv, cb, rec, rpc>>
    BY <1>5 DEF vars, srvVars
  <2> QED BY <2>1 DEF ShutInv, Status
<1> QED BY <1>1, <1>2, <1>3, <1>4, <1>5 DEF Next

\* The server turns the opens of a client away only while the client has a re-open
\* under way or is going to recover once more, whatever crashes, partitions, lost
\* replies and failed messages there are (fsutilRecovery.c, RecoveryDone).
THEOREM OpensLetInAgain == Spec => []OpensShutOutBacked
<1>1. Init => ShutInv
  <2>1. ASSUME Init PROVE ~cltRecov
    BY <2>1, Zenon DEF Init
  <2> QED BY <2>1 DEF ShutInv
<1>2. Spec => [](WhoInv /\ ShutInv)
  BY <1>1, WhoInit, WhoStep, ShutStep, PTL DEF Spec
<1>3. WhoInv /\ ShutInv => OpensShutOutBacked
  BY DEF ShutInv, OpensShutOutBacked, ToCome, WillRecover
<1> QED BY <1>2, <1>3, PTL
-----------------------------------------------------------------------------
(***************************************************************************)
(* What a re-open achieves: a client which has recovered has its handles   *)
(* open on the server.                                                     *)
(***************************************************************************)

\* Boot time stamps only get older, and nothing from a server that is still
\* booting says that it is up.
OldReply(r) ==
    \/ r.status \in {"none", "TIMEOUT"}
    \/ r.boot <= boot /\ (up = "booting" /\ r.boot = boot => r.notActive)
OldEntry(e) ==
    e.bootID <= boot /\ (up = "booting" /\ e.bootID = boot => "ALIVE" \notin e.state)
BootsKnown ==
    /\ OldEntry(cv)
    /\ \A a \in Callers : rpc[a] # NoCall => OldReply(rpc[a].reply)

\* A re-open that a booting server has turned away comes from a client that does
\* not take that server to be up, or has learnt so and will recover again.
TurnedAway ==
    (rpc[Reopen] # NoCall /\ Status(Reopen) = "DISABLED") =>
        /\ rpc[Reopen].reply.notActive
        /\ (cv.bootID = rpc[Reopen].reply.boot /\ "ALIVE" \in cv.state)
              => missed \/ ToCome(cv, cb)

\* What has been re-opened at this boot of the server, which was up, is open.
ReopenedIsOpen ==
    (/\ rpc[Reopen] # NoCall /\ rpc[Reopen].op \in {"io", "stream"}
     /\ Status(Reopen) = "SUCCESS") =>
        /\ ~rpc[Reopen].reply.notActive
        /\ (rpc[Reopen].reply.boot = boot /\ up = "up" /\ ~missed)
              => <<rpc[Reopen].h, rpc[Reopen].op>> \in have

\* The client has nothing to learn and nothing to recover from.
Current == ~missed /\ up = "up" /\ cv.bootID = boot /\ ~ToCome(cv, cb)

\* The I/O handles, and the streams, other than those still to be re-opened are
\* open on the server, or known not to be.
IOOpen(rest) ==
    \A h \in Handles \ rest : "FAILED" \in flags[h] \/ <<h, "io">> \in invalid \cup have
StreamsOpen(rest) == \A h \in Handles \ rest : <<h, "stream">> \in invalid \cup have
AllOpen == Objects \ invalid \subseteq have

\* What the re-open has achieved, pass by pass.
PassOK ==
    CASE rec = NoRec -> AllOpen
      [] rec # NoRec /\ rec.pass = "done" -> AllOpen
      [] rec # NoRec /\ rec.pass = "stream" ->
            IOOpen({}) /\ StreamsOpen(rec.todo \cup {rpc[Reopen].h})
      [] rec # NoRec /\ rec.pass = "io" -> IOOpen(rec.todo \cup {rpc[Reopen].h})
      [] OTHER -> TRUE

PassedOpen == Current => PassOK

OpenInv == BootsKnown /\ TurnedAway /\ ReopenedIsOpen /\ PassedOpen
-----------------------------------------------------------------------------
\* A client that has nothing to recover from had nothing to recover from before.
LEMMA ToComeBefore ==
    ASSUME WhoInv, Stays(cv, cv'), cb' = "none" <=> cb = "none", ToCome(cv, cb)
    PROVE  ToCome(cv', cb')
<1>1. PICK e : e = cv
  OBVIOUS
<1>2. PICK q : q = cv'
  OBVIOUS
<1>3. PICK c : c = cb
  OBVIOUS
<1>4. PICK d : d = cb'
  OBVIOUS
<1>5. c # "none" => "REBOOT_CALLBACKS" \in e.state
  BY <1>1, <1>3 DEF WhoInv, EntryAgrees
<1>6. ToCome(e, c) /\ Stays(e, q) /\ (d = "none" <=> c = "none")
  BY <1>1, <1>2, <1>3, <1>4
<1>7. ToCome(q, d)
  BY <1>5, <1>6, ToComeStays
<1> QED BY <1>2, <1>4, <1>7

\* A client that takes the server to be up did so before, or will recover.
LEMMA AliveBefore ==
    ASSUME WhoInv, Stays(cv, cv'), cb' = "none" <=> cb = "none",
           "ALIVE" \in cv'.state, ~ToCome(cv', cb')
    PROVE  cv'.bootID = cv.bootID /\ "ALIVE" \in cv.state
<1>1. ~Due(cv, cv')
  BY DEF Due, ToCome, WhoInv, EntryAgrees
<1> QED BY <1>1 DEF Stays

LEMMA CurrentBefore ==
    ASSUME WhoInv, Stays(cv, cv'), UNCHANGED <<up, boot, missed>>,
           cb' = "none" <=> cb = "none", Current'
    PROVE  Current
<1>1. "ALIVE" \in cv'.state /\ ~ToCome(cv', cb')
  BY DEF Current, ToCome
<1>2. cv.bootID = boot
  BY <1>1, AliveBefore DEF Current
<1>3. ~ToCome(cv, cb)
  BY <1>1, ToComeBefore
<1> QED BY <1>2, <1>3 DEF Current

\* The steps that leave the re-open, the handles and the server alone.
LEMMA OpenKeeps ==
    ASSUME WhoInv, OpenInv, UNCHANGED <<up, boot, have, missed, rec, invalid>>,
           rpc'[Reopen] = rpc[Reopen], Stays(cv, cv'), cb' = "none" <=> cb = "none",
           \A h \in Handles : "FAILED" \in flags'[h] <=> "FAILED" \in flags[h]
    PROVE  TurnedAway' /\ ReopenedIsOpen' /\ PassedOpen'
<1>1. Status(Reopen)' = Status(Reopen)
  BY DEF Status
<1>2. ReopenedIsOpen'
  BY <1>1 DEF OpenInv, ReopenedIsOpen
<1>3. TurnedAway'
  <2> SUFFICES ASSUME rpc'[Reopen] # NoCall, Status(Reopen)' = "DISABLED"
               PROVE  /\ rpc'[Reopen].reply.notActive
                      /\ (cv'.bootID = rpc'[Reopen].reply.boot /\ "ALIVE" \in cv'.state)
                            => missed' \/ ToCome(cv', cb')
    BY DEF TurnedAway
  <2>1. /\ rpc[Reopen].reply.notActive
        /\ (cv.bootID = rpc[Reopen].reply.boot /\ "ALIVE" \in cv.state)
              => missed \/ ToCome(cv, cb)
    BY <1>1 DEF OpenInv, TurnedAway
  <2>2. ASSUME cv'.bootID = rpc[Reopen].reply.boot, "ALIVE" \in cv'.state, ~ToCome(cv', cb')
        PROVE  missed
    <3>1. cv'.bootID = cv.bootID /\ "ALIVE" \in cv.state
      BY <2>2, AliveBefore
    <3>2. ~ToCome(cv, cb)
      BY <2>2, ToComeBefore
    <3> QED BY <2>1, <2>2, <3>1, <3>2
  <2> QED BY <2>1, <2>2
<1>4. PassedOpen'
  <2> SUFFICES ASSUME Current' PROVE PassOK'
    BY DEF PassedOpen
  <2>1. PassOK
    BY CurrentBefore DEF OpenInv, PassedOpen
  <2>2. AllOpen => AllOpen'
    BY DEF AllOpen
  <2>3. \A rest : StreamsOpen(rest) => StreamsOpen(rest)'
    BY DEF StreamsOpen
  <2>4. \A rest : IOOpen(rest) => IOOpen(rest)'
    BY DEF IOOpen
  <2> QED BY <2>1, <2>2, <2>3, <2>4 DEF PassOK
<1> QED BY <1>2, <1>3, <1>4

-----------------------------------------------------------------------------
(* Boot time stamps.                                                       *)

LEMMA BootTypes ==
    ASSUME WhoInv
    PROVE  /\ boot \in Nat /\ cv.bootID \in Nat /\ up \in {"down", "booting", "up"}
           /\ \A a \in Callers : rpc[a] # NoCall =>
                 /\ rpc[a].reply \in Replies
                 /\ rpc[a].reply.status \notin {"none", "TIMEOUT"} => rpc[a].reply.boot \in Nat
<1>1. boot \in 1 .. MaxReboots + 1 /\ MaxReboots \in Nat /\ up \in {"down", "booting", "up"}
  BY RecovAssumption DEF WhoInv, ServerTypes
<1>2. cv.bootID \in Nat
  BY DEF WhoInv, EntryAgrees, Known
<1>3. \A a \in Callers : rpc[a] # NoCall => rpc[a].reply \in Replies
  BY DEF WhoInv, CallTypes, Calls
<1>4. ASSUME NEW r \in Replies, r.status \notin {"none", "TIMEOUT"} PROVE r.boot \in Nat
  BY <1>4 DEF Replies, NoReply
<1> QED BY <1>1, <1>2, <1>3, <1>4

\* The steps that change what the client knows, and not what the server is.
LEMMA BootsKeep ==
    ASSUME WhoInv, BootsKnown, UNCHANGED <<up, boot>>, OldEntry(cv'),
           \A a \in Callers : \/ rpc'[a] \in {rpc[a], NoCall}
                              \/ OldReply(rpc'[a].reply)
    PROVE  BootsKnown'
<1>1. \A r : OldReply(r) => OldReply(r)'
  BY DEF OldReply
<1>2. \A e : OldEntry(e) => OldEntry(e)'
  BY DEF OldEntry
<1>3. \A a \in Callers : rpc'[a] # NoCall => OldReply(rpc'[a].reply)
  BY DEF BootsKnown
<1>4. \A a \in Callers : rpc'[a] # NoCall => OldReply(rpc[a].reply)'
  <2> SUFFICES ASSUME NEW a \in Callers, rpc'[a] # NoCall PROVE OldReply(rpc[a].reply)'
    OBVIOUS
  <2>1. OldReply(rpc'[a].reply)
    BY <1>3
  <2> QED BY <2>1 DEF OldReply
<1>5. OldEntry(cv)'
  BY DEF OldEntry
<1> QED BY <1>4, <1>5 DEF BootsKnown

\* The client hears of the server in the reply to a call.
LEMMA CallOld ==
    ASSUME WhoInv, BootsKnown, NEW a \in Callers, Replied(a), cv' = Rpc_Call(a)
    PROVE  OldEntry(cv') /\ Stays(cv, cv')
<1>1. rpc[a] # NoCall /\ OldReply(rpc[a].reply) /\ OldEntry(cv)
  BY DEF BootsKnown, Replied
<1>2. CASE Status(a) = "TIMEOUT"
  <2>1. "ALIVE" \notin cv'.state /\ cv'.bootID = cv.bootID /\ Stays(cv, cv')
    BY <1>2, CallStays
  <2> QED BY <1>1, <2>1 DEF OldEntry
<1>3. CASE Status(a) # "TIMEOUT"
  <2>1. /\ cv'.bootID = rpc[a].reply.boot /\ Stays(cv, cv')
        /\ rpc[a].reply \in [status: Statuses \ {"TIMEOUT"}, boot: Nat, notActive: BOOLEAN]
        /\ rpc[a].reply.notActive /\ "ALIVE" \in cv'.state
              => cv.bootID = rpc[a].reply.boot /\ "ALIVE" \in cv.state
    BY <1>3, CallStays
  <2>2. rpc[a].reply.status \notin {"none", "TIMEOUT"}
    BY <2>1 DEF Statuses
  <2>3. rpc[a].reply.boot <= boot /\ (up = "booting" /\ rpc[a].reply.boot = boot => rpc[a].reply.notActive)
    BY <1>1, <2>2 DEF OldReply
  <2> QED BY <1>1, <2>1, <2>3 DEF OldEntry
<1> QED BY <1>2, <1>3

\* The steps of the client's host table.
LEMMA HostOld ==
    ASSUME WhoInv, BootsKnown, Ping \/ CltCrashCallBacks
    PROVE  OldEntry(cv')
<1>0. PICK e : e = cv
  OBVIOUS
<1>1. Known(e) /\ OldEntry(e) /\ boot \in Nat
  BY <1>0, BootTypes DEF WhoInv, EntryAgrees, BootsKnown
<1>2. CASE CltCrashCallBacks
  <2>1. cv'.bootID = e.bootID /\ ("ALIVE" \in cv'.state => "ALIVE" \in e.state)
    BY <1>0, <1>1, <1>2, CrashStays DEF CltCrashCallBacks
  <2> QED BY <1>1, <2>1 DEF OldEntry
<1>3. CASE Ping /\ cv' = Recov_HostDead(cv)
  <2>1. cv'.bootID = e.bootID /\ "ALIVE" \notin cv'.state
    BY <1>0, <1>1, <1>3, DeadStays
  <2> QED BY <1>1, <2>1 DEF OldEntry
<1>4. CASE Ping /\ cv' = Recov_HostAlive(cv, boot, up = "booting")
  <2>1. PICK b \in Nat : b = boot
    BY <1>1
  <2>2. PICK na \in BOOLEAN : na = (up = "booting")
    OBVIOUS
  <2>3. cv' = Recov_HostAlive(e, b, na)
    BY <1>0, <1>4, <2>1, <2>2
  <2>4. cv'.bootID = b /\ (na /\ "ALIVE" \in cv'.state => e.bootID = b /\ "ALIVE" \in e.state)
    BY <1>1, <2>3, AliveStays
  <2>5. up = "booting" => na
    BY <2>2, Zenon
  <2>6. up = "booting" /\ "ALIVE" \in cv'.state => FALSE
    BY <1>1, <2>1, <2>4, <2>5 DEF OldEntry
  <2> QED BY <1>1, <2>1, <2>4, <2>6 DEF OldEntry
<1> QED BY <1>2, <1>3, <1>4 DEF Ping

-----------------------------------------------------------------------------
(* The steps of the server.                                                *)

\* What the server answers, and what it has then.
LEMMA ServeStatus ==
    ASSUME WhoInv, NEW a \in Callers, Serve(a)
    PROVE  /\ have \subseteq have'
           /\ \E st \in Statuses \ {"TIMEOUT"} :
                 /\ Answer(a, st)
                 /\ st = "DISABLED" /\ rpc[a].op # "open" => up = "booting"
                 /\ st = "SUCCESS" /\ rpc[a].op \in {"io", "stream"}
                       => up = "up" /\ <<rpc[a].h, rpc[a].op>> \in have'
<1> USE DEF Asked, Statuses
<1>1. CASE SrvDisabled(a)
  <2>1. Answer(a, "DISABLED") /\ up = "booting" /\ UNCHANGED have
    BY <1>1 DEF SrvDisabled
  <2> QED BY <2>1
<1>2. CASE SrvRead(a)
  <2>1. PICK st \in {"SUCCESS", "STALE"} : Answer(a, st)
    BY <1>2 DEF SrvRead
  <2>2. UNCHANGED have /\ rpc[a].op = "read"
    BY <1>2 DEF SrvRead
  <2> QED BY <2>1, <2>2
<1>3. CASE SrvOpen(a)
  <2>1. PICK st \in {"DISABLED", "SUCCESS", "STALE"} : Answer(a, st)
    BY <1>3 DEF SrvOpen
  <2>2. UNCHANGED have /\ rpc[a].op = "open"
    BY <1>3 DEF SrvOpen
  <2> QED BY <2>1, <2>2
<1>4. CASE SrvReopenIO(a)
  <2>1. rpc[a].op = "io" /\ up = "up"
    BY <1>4 DEF SrvReopenIO
  <2>2. \/ Answer(a, "SUCCESS") /\ have' = have \cup {<<rpc[a].h, "io">>}
        \/ Answer(a, "REMOVED") /\ UNCHANGED have
    BY <1>4 DEF SrvReopenIO
  <2> QED BY <2>1, <2>2
<1>5. CASE SrvReopenStream(a)
  <2>1. rpc[a].op = "stream" /\ up = "up"
    BY <1>5 DEF SrvReopenStream
  <2>2. \/ Answer(a, "SUCCESS") /\ have' = have \cup {<<rpc[a].h, "stream">>}
        \/ Answer(a, "FAILURE") /\ UNCHANGED have
    BY <1>5 DEF SrvReopenStream
  <2> QED BY <2>1, <2>2
<1>6. CASE SrvRecoveryDone(a)
  <2>1. Answer(a, "SUCCESS") /\ rpc[a].op = "done" /\ UNCHANGED have
    BY <1>6 DEF SrvRecoveryDone
  <2> QED BY <2>1
<1> QED BY <1>1, <1>2, <1>3, <1>4, <1>5, <1>6 DEF Serve

\* More may be open on the server.
LEMMA PassGrows ==
    ASSUME PassOK, have \subseteq have', UNCHANGED <<rec, flags, invalid>>,
           rpc'[Reopen].h = rpc[Reopen].h
    PROVE  PassOK'
<1>1. AllOpen => AllOpen'
  BY DEF AllOpen
<1>2. \A rest : StreamsOpen(rest) => StreamsOpen(rest)'
  BY DEF StreamsOpen
<1>3. \A rest : IOOpen(rest) => IOOpen(rest)'
  BY DEF IOOpen
<1> QED BY <1>1, <1>2, <1>3 DEF PassOK

LEMMA ServeOpen == ASSUME WhoInv, OpenInv, NEW a \in Callers, Serve(a) PROVE OpenInv'
<1>0. /\ Reopen \in Callers /\ UNCHANGED <<up, boot, cv, rec, cb, flags, invalid, missed>>
      /\ rpc[a] # NoCall /\ have \subseteq have' /\ boot \in Nat
  BY ServeAnswers, ServeStatus, BootTypes DEF Serve, Callers, handleVars
<1>1. PICK st \in Statuses \ {"TIMEOUT"} :
         /\ Answer(a, st)
         /\ st = "DISABLED" /\ rpc[a].op # "open" => up = "booting"
         /\ st = "SUCCESS" /\ rpc[a].op \in {"io", "stream"}
               => up = "up" /\ <<rpc[a].h, rpc[a].op>> \in have'
  BY ServeStatus
<1>2. PICK na \in BOOLEAN : na = (up = "booting")
  OBVIOUS
<1>3. up = "booting" <=> na
  BY <1>2, Zenon
<1>4. PICK r \in Replies : r = [status |-> st, boot |-> boot, notActive |-> na]
  BY <1>0, AnswerIsReply
<1>5. rpc' = [rpc EXCEPT ![a].reply = r]
  BY <1>1, <1>2, <1>4 DEF Answer
<1>6. /\ rpc'[a].reply = r /\ rpc'[a].h = rpc[a].h /\ rpc'[a].op = rpc[a].op
      /\ \A b \in Callers : b # a => rpc'[b] = rpc[b]
  <2>1. PICK f \in [Callers -> Calls \cup {NoCall}] : f = rpc
    BY DEF WhoInv, CallTypes
  <2>2. PICK g : g = rpc'
    OBVIOUS
  <2>3. g = [f EXCEPT ![a].reply = r] /\ f[a] # NoCall
    BY <1>0, <1>5, <2>1, <2>2
  <2> QED BY <2>1, <2>2, <2>3, ReplySet
<1>7. r.status = st /\ r.boot = boot /\ (up = "booting" <=> r.notActive)
  BY <1>3, <1>4
<1>8. BootsKnown'
  <2>1. OldReply(r)
    BY <1>0, <1>7 DEF OldReply
  <2>2. OldEntry(cv')
    BY <1>0 DEF OpenInv, BootsKnown
  <2> QED BY <1>0, <1>6, <2>1, <2>2, BootsKeep DEF OpenInv
<1>9. CASE a # Reopen
  <2>1. rpc'[Reopen] = rpc[Reopen] /\ Status(Reopen)' = Status(Reopen)
    BY <1>0, <1>6, <1>9 DEF Status
  <2>2. TurnedAway' /\ ReopenedIsOpen'
    BY <1>0, <2>1 DEF OpenInv, TurnedAway, ReopenedIsOpen
  <2>3. PassedOpen'
    BY <1>0, <2>1, PassGrows DEF OpenInv, PassedOpen, Current
  <2> QED BY <1>8, <2>2, <2>3 DEF OpenInv
<1>10. CASE a = Reopen
  <2>0. rpc[Reopen].op # "open"
    BY <1>0, <1>10 DEF WhoInv, ReopenAgrees, Recoveries
  <2>1. Status(Reopen)' = st
    BY <1>6, <1>7, <1>10 DEF Status
  <2>2. TurnedAway'
    <3> SUFFICES ASSUME st = "DISABLED"
                 PROVE  r.notActive /\ ~(cv.bootID = r.boot /\ "ALIVE" \in cv.state)
      BY <1>0, <1>6, <1>10, <2>1 DEF TurnedAway
    <3>1. up = "booting"
      BY <1>1, <1>10, <2>0
    <3> QED BY <3>1, <1>7 DEF OpenInv, BootsKnown, OldEntry
  <2>3. ReopenedIsOpen'
    BY <1>1, <1>6, <1>7, <1>10, <2>1 DEF ReopenedIsOpen
  <2>4. PassedOpen'
    BY <1>0, <1>6, <1>10, PassGrows DEF OpenInv, PassedOpen, Current
  <2> QED BY <1>8, <2>2, <2>3, <2>4 DEF OpenInv
<1> QED BY <1>9, <1>10

LEMMA RpcFateOpen ==
    ASSUME WhoInv, OpenInv, NEW a \in Callers, RpcTimesOut(a) \/ RpcLost(a)
    PROVE  OpenInv'
<1>0. /\ Reopen \in Callers /\ UNCHANGED <<up, boot, have, cv, rec, cb, flags, invalid, missed>>
      /\ rpc[a] # NoCall
  BY DEF RpcTimesOut, RpcLost, Callers, handleVars, srvVars
<1>2. PICK r \in {NoReply, [status |-> "TIMEOUT"]} : rpc' = [rpc EXCEPT ![a].reply = r]
  BY DEF RpcTimesOut, RpcLost
<1>3. r \in Replies /\ r.status \in {"none", "TIMEOUT"}
  BY DEF Replies, NoReply
<1>6. /\ rpc'[a].reply = r /\ rpc'[a].h = rpc[a].h /\ rpc'[a].op = rpc[a].op
      /\ \A b \in Callers : b # a => rpc'[b] = rpc[b]
  <2>1. PICK f \in [Callers -> Calls \cup {NoCall}] : f = rpc
    BY DEF WhoInv, CallTypes
  <2>2. PICK g : g = rpc'
    OBVIOUS
  <2>3. g = [f EXCEPT ![a].reply = r] /\ f[a] # NoCall
    BY <1>0, <1>2, <2>1, <2>2
  <2> QED BY <1>3, <2>1, <2>2, <2>3, ReplySet
<1>8. BootsKnown'
  <2>1. OldReply(r)
    BY <1>3 DEF OldReply
  <2>2. OldEntry(cv')
    BY <1>0 DEF OpenInv, BootsKnown
  <2> QED BY <1>0, <1>6, <2>1, <2>2, BootsKeep DEF OpenInv
<1>9. CASE a # Reopen
  <2>1. rpc'[Reopen] = rpc[Reopen] /\ Status(Reopen)' = Status(Reopen)
    BY <1>0, <1>6, <1>9 DEF Status
  <2>2. TurnedAway' /\ ReopenedIsOpen'
    BY <1>0, <2>1 DEF OpenInv, TurnedAway, ReopenedIsOpen
  <2>3. PassedOpen'
    BY <1>0, <2>1, PassGrows DEF OpenInv, PassedOpen, Current
  <2> QED BY <1>8, <2>2, <2>3 DEF OpenInv
<1>10. CASE a = Reopen
  <2>1. Status(Reopen)' \in {"none", "TIMEOUT"}
    BY <1>3, <1>6, <1>10 DEF Status
  <2>2. TurnedAway' /\ ReopenedIsOpen'
    BY <2>1 DEF TurnedAway, ReopenedIsOpen
  <2>4. PassedOpen'
    BY <1>0, <1>6, <1>10, PassGrows DEF OpenInv, PassedOpen, Current
  <2> QED BY <1>8, <2>2, <2>4 DEF OpenInv
<1> QED BY <1>9, <1>10

LEMMA OpenFrame ==
    ASSUME OpenInv, UNCHANGED <<up, boot, have, missed, rec, flags, invalid, rpc, cv, cb>>
    PROVE  OpenInv'
<1>1. BootsKnown'
  BY DEF OpenInv, BootsKnown, OldEntry, OldReply
<1>2. TurnedAway' /\ ReopenedIsOpen'
  BY DEF OpenInv, TurnedAway, ReopenedIsOpen, Status
<1>3. PassOK => PassOK'
  BY PassGrows
<1>4. PassedOpen'
  BY <1>3 DEF OpenInv, PassedOpen, Current
<1> QED BY <1>1, <1>2, <1>4 DEF OpenInv

LEMMA ServerOpen ==
    ASSUME WhoInv, OpenInv, Server \/ Faults \/ Heal \/ SrvCallSucceeds
    PROVE  OpenInv'
<1>0. boot \in Nat /\ cv.bootID \in Nat /\ up \in {"down", "booting", "up"}
  BY BootTypes
<1>1. UNCHANGED <<rec, flags, invalid, rpc, cv, cb>>
  <2>1. CASE Server
    BY <2>1 DEF Server, SrvClientCrashed, SrvRebootCallBacks, SrvClientKill,
       SrvCrashCallBacksDone, SrvBoot, handleVars
  <2>2. CASE Faults
    BY <2>2 DEF Faults, SrvCrash, Cut, SrvCallTimesOut, handleVars
  <2>3. CASE Heal \/ SrvCallSucceeds
    BY <2>3 DEF Heal, SrvCallSucceeds, handleVars
  <2> QED BY <2>1, <2>2, <2>3
<1>2. CASE UNCHANGED <<up, boot, have, missed>>
  BY <1>1, <1>2, OpenFrame
<1>3. ASSUME NEW i \in DOMAIN kills, SrvClientKill(i) PROVE OpenInv'
  <2>1. missed' /\ UNCHANGED <<up, boot>>
    BY <1>3, Zenon DEF SrvClientKill
  <2>2. BootsKnown'
    BY <1>1, <2>1 DEF OpenInv, BootsKnown, OldEntry, OldReply
  <2>3. TurnedAway' /\ ReopenedIsOpen'
    BY <1>1, <2>1 DEF OpenInv, TurnedAway, ReopenedIsOpen, Status
  <2>4. PassedOpen'
    BY <2>1 DEF PassedOpen, Current
  <2> QED BY <2>2, <2>3, <2>4 DEF OpenInv
<1>4. CASE SrvCrash
  <2>1. up' = "down" /\ UNCHANGED <<boot, missed>>
    BY <1>4 DEF SrvCrash
  <2>2. BootsKnown'
    BY <1>1, <2>1 DEF OpenInv, BootsKnown, OldEntry, OldReply
  <2>3. TurnedAway' /\ ReopenedIsOpen'
    BY <1>1, <2>1 DEF OpenInv, TurnedAway, ReopenedIsOpen, Status
  <2>4. PassedOpen'
    BY <2>1 DEF PassedOpen, Current
  <2> QED BY <2>2, <2>3, <2>4 DEF OpenInv
<1>5. CASE SrvBoot /\ up = "down"
  <2>1. up' = "booting" /\ boot' = boot + 1 /\ UNCHANGED missed
    BY <1>5 DEF SrvBoot
  <2>2. BootsKnown'
    <3>1. OldEntry(cv)'
      BY <1>0, <1>1, <2>1 DEF OpenInv, BootsKnown, OldEntry
    <3>2. ASSUME NEW a \in Callers, rpc[a] # NoCall PROVE OldReply(rpc[a].reply)'
      <4>1. OldReply(rpc[a].reply)
        BY <3>2 DEF OpenInv, BootsKnown
      <4>2. rpc[a].reply.status \notin {"none", "TIMEOUT"} => rpc[a].reply.boot \in Nat
        BY <3>2, BootTypes
      <4> QED BY <1>0, <1>1, <2>1, <4>1, <4>2 DEF OldReply
    <3> QED BY <1>1, <3>1, <3>2 DEF BootsKnown
  <2>3. TurnedAway' /\ ReopenedIsOpen'
    BY <1>1, <2>1 DEF OpenInv, TurnedAway, ReopenedIsOpen, Status
  <2>4. PassedOpen'
    BY <2>1 DEF PassedOpen, Current
  <2> QED BY <2>2, <2>3, <2>4 DEF OpenInv
<1>6. CASE SrvBoot /\ up = "booting"
  <2>1. up' = "up" /\ UNCHANGED <<boot, missed, have>>
    BY <1>6 DEF SrvBoot
  <2>2. BootsKnown'
    BY <1>1, <2>1 DEF OpenInv, BootsKnown, OldEntry, OldReply
  <2>3. TurnedAway'
    BY <1>1, <2>1 DEF OpenInv, TurnedAway, Status
  <2>4. ~Current'
    BY <1>1, <1>6, <2>1 DEF OpenInv, BootsKnown, OldEntry, Current, ToCome
  <2>5. ReopenedIsOpen'
    <3> SUFFICES ASSUME rpc[Reopen] # NoCall, rpc[Reopen].op \in {"io", "stream"},
                        Status(Reopen) = "SUCCESS"
                 PROVE  ~rpc[Reopen].reply.notActive /\ rpc[Reopen].reply.boot # boot
      BY <1>1, <2>1 DEF ReopenedIsOpen, Status
    <3>1. OldReply(rpc[Reopen].reply)
      BY DEF OpenInv, BootsKnown, Callers
    <3>2. ~rpc[Reopen].reply.notActive
      BY DEF OpenInv, ReopenedIsOpen
    <3> QED BY <1>6, <3>1, <3>2 DEF OldReply, Status
  <2> QED BY <2>2, <2>3, <2>4, <2>5 DEF OpenInv, PassedOpen
<1>7. \/ UNCHANGED <<up, boot, have, missed>> \/ SrvCrash \/ SrvBoot
      \/ \E i \in DOMAIN kills : SrvClientKill(i)
  <2>1. CASE Server
    BY <2>1 DEF Server, SrvClientCrashed, SrvRebootCallBacks, SrvCrashCallBacksDone
  <2>2. CASE Faults
    BY <2>2 DEF Faults, Cut, SrvCallTimesOut, srvVars
  <2>3. CASE Heal \/ SrvCallSucceeds
    BY <2>3 DEF Heal, SrvCallSucceeds, srvVars
  <2> QED BY <2>1, <2>2, <2>3
<1>8. SrvBoot => up = "down" \/ up = "booting"
  BY <1>0 DEF SrvBoot
<1> QED BY <1>2, <1>3, <1>4, <1>5, <1>6, <1>7, <1>8

-----------------------------------------------------------------------------
(* The passes of a re-open.                                                *)

LEMMA NextRec ==
    ASSUME WhoInv, rec # NoRec, NEW pass \in {"io", "stream", "done"}, NEW todo, NEW h,
           CallNext(pass, todo, h)
    PROVE  /\ rec' # NoRec /\ rec'.pass = pass /\ rec'.todo = todo
           /\ rpc'[Reopen].h = h /\ rpc'[Reopen].reply = NoReply
           /\ \A a \in Callers : a # Reopen => rpc'[a] = rpc[a]
<1>1. PICK r \in Recoveries : r = rec
  BY DEF WhoInv, ReopenAgrees
<1>2. rec' = [r EXCEPT !.pass = pass, !.todo = todo]
  BY <1>1 DEF CallNext
<1>3. rec'.pass = pass /\ rec'.todo = todo
  BY <1>2 DEF Recoveries
<1>4. rec' # NoRec
  BY <1>3 DEF NoRec
<1>5. rpc \in [Callers -> Calls \cup {NoCall}] /\ Reopen \in Callers
  BY DEF WhoInv, CallTypes, Callers
<1>6. PICK c : c = Call(pass, h)
  OBVIOUS
<1>7. c.h = h /\ c.reply = NoReply
  BY <1>6 DEF Call
<1>8. rpc'[Reopen] = c /\ \A a \in Callers : a # Reopen => rpc'[a] = rpc[a]
  BY <1>5, <1>6 DEF CallNext
<1> QED BY <1>3, <1>4, <1>7, <1>8

LEMMA DoneOpen ==
    ASSUME WhoInv, rec # NoRec, NEW f, NEW bad, RecoveryDone(f, bad),
           UNCHANGED have, Objects \ bad \subseteq have
    PROVE  PassOK'
<1>1. PICK h : CallNext("done", {}, h)
  BY DEF RecoveryDone
<1>2. rec' # NoRec /\ rec'.pass = "done"
  BY <1>1, NextRec
<1>3. AllOpen'
  BY DEF AllOpen, RecoveryDone
<1> QED BY <1>2, <1>3 DEF PassOK

LEMMA NotifyOpen ==
    ASSUME WhoInv, rec # NoRec, NEW f, NEW bad, NotifyPass(f, bad), UNCHANGED have,
           \A h \in Handles : "FAILED" \in f[h] \/ <<h, "io">> \in bad \cup have,
           \A h \in Handles : <<h, "stream">> \in bad \cup have
    PROVE  PassOK'
<1>1. PICK g : g = [h \in Handles |-> IF <<h, "io">> \in bad THEN f[h] ELSE RecoveryNotify(f[h])]
  OBVIOUS
<1>2. PICK b : b = bad \cup {<<h, "io">> : h \in {x \in Handles : "FAILED" \in f[x]}}
  OBVIOUS
<1>3. RecoveryDone(g, b)
  BY <1>1, <1>2 DEF NotifyPass
<1>4. Objects \ b \subseteq have
  <2> SUFFICES ASSUME NEW o \in Objects, o \notin b PROVE o \in have
    OBVIOUS
  <2>1. PICK h \in Handles, k \in {"io", "stream"} : o = <<h, k>>
    BY DEF Objects
  <2>2. CASE k = "io"
    <3>1. "FAILED" \notin f[h]
      BY <1>2, <2>1, <2>2
    <3>2. <<h, "io">> \in bad \cup have
      BY <3>1
    <3> QED BY <1>2, <2>1, <2>2, <3>2
  <2>3. CASE k = "stream"
    <3>1. <<h, "stream">> \in bad \cup have
      OBVIOUS
    <3> QED BY <1>2, <2>1, <2>3, <3>1
  <2> QED BY <2>2, <2>3
<1> QED BY <1>3, <1>4, DoneOpen

LEMMA StreamOpen ==
    ASSUME WhoInv, rec # NoRec, NEW todo \in SUBSET Handles, NEW f, NEW bad,
           StreamPass(todo, f, bad), UNCHANGED have,
           \A h \in Handles : "FAILED" \in f[h] \/ <<h, "io">> \in bad \cup have,
           \A h \in Handles \ todo : <<h, "stream">> \in bad \cup have
    PROVE  PassOK'
<1>1. CASE todo = {}
  BY <1>1, NotifyOpen DEF StreamPass
<1>2. CASE todo # {}
  <2>1. flags' = f /\ invalid' = bad
    BY <1>2 DEF StreamPass
  <2>2. PICK h \in todo : CallNext("stream", todo \ {h}, h)
    BY <1>2 DEF StreamPass
  <2>3. rec' # NoRec /\ rec'.pass = "stream" /\ rec'.todo \cup {rpc'[Reopen].h} = todo
    BY <2>2, NextRec
  <2>4. IOOpen({})'
    BY <2>1 DEF IOOpen
  <2>5. StreamsOpen(todo)'
    BY <2>1 DEF StreamsOpen
  <2> QED BY <2>3, <2>4, <2>5 DEF PassOK
<1> QED BY <1>1, <1>2

LEMMA IOPassOpen ==
    ASSUME WhoInv, rec # NoRec, NEW todo \in SUBSET Handles, NEW f, NEW bad,
           IOPass(todo, f, bad), UNCHANGED have,
           \A h \in Handles \ todo : "FAILED" \in f[h] \/ <<h, "io">> \in bad \cup have
    PROVE  PassOK'
<1>1. CASE todo = {}
  <2> DEFINE failed == {x \in Handles : "FAILED" \in f[x]}
  <2>1. PICK td : td = {h \in Handles \ failed : <<h, "stream">> \notin bad}
    OBVIOUS
  <2>2. PICK b : b = bad \cup {<<h, "stream">> : h \in failed}
    OBVIOUS
  <2>3. StreamPass(td, f, b)
    BY <1>1, <2>1, <2>2 DEF IOPass
  <2>4. \A h \in Handles : "FAILED" \in f[h] \/ <<h, "io">> \in b \cup have
    BY <1>1, <2>2
  <2>5. \A h \in Handles \ td : <<h, "stream">> \in b \cup have
    <3> SUFFICES ASSUME NEW h \in Handles, h \notin td PROVE <<h, "stream">> \in b
      OBVIOUS
    <3>1. h \in failed \/ <<h, "stream">> \in bad
      BY <2>1
    <3> QED BY <2>2, <3>1
  <2>6. td \in SUBSET Handles
    BY <2>1
  <2> QED BY <2>3, <2>4, <2>5, <2>6, StreamOpen
<1>2. CASE todo # {}
  <2>1. flags' = f /\ invalid' = bad
    BY <1>2 DEF IOPass
  <2>2. PICK h \in todo : CallNext("io", todo \ {h}, h)
    BY <1>2 DEF IOPass
  <2>3. rec' # NoRec /\ rec'.pass = "io" /\ rec'.todo \cup {rpc'[Reopen].h} = todo
    BY <2>2, NextRec
  <2>4. IOOpen(todo)'
    BY <2>1 DEF IOOpen
  <2> QED BY <2>3, <2>4 DEF PassOK
<1> QED BY <1>1, <1>2

\* What any step of the passes does to the rest of the invariant.
LEMMA PassRest ==
    ASSUME WhoInv, OpenInv, rec # NoRec, PassEnds, OldEntry(cv'), UNCHANGED <<up, boot>>
    PROVE  BootsKnown' /\ TurnedAway' /\ ReopenedIsOpen'
<1>1. PICK pass \in {"io", "stream", "done"}, todo \in SUBSET Handles, h \in Handles :
         CallNext(pass, todo, h)
  BY DEF PassEnds
<1>2. rpc'[Reopen].reply = NoReply /\ \A a \in Callers : a # Reopen => rpc'[a] = rpc[a]
  BY <1>1, NextRec
<1>3. Status(Reopen)' = "none"
  BY <1>2 DEF Status, NoReply
<1>4. TurnedAway' /\ ReopenedIsOpen'
  BY <1>3 DEF TurnedAway, ReopenedIsOpen
<1>5. OldReply(NoReply)
  BY DEF OldReply, NoReply
<1>6. BootsKnown'
  BY <1>2, <1>5, BootsKeep DEF OpenInv
<1> QED BY <1>4, <1>6

\* A reply that the service was off, or no reply, ends a re-open that has to be
\* done again.
LEMMA UnservedAgain ==
    ASSUME WhoInv, OpenInv, Replied(Reopen), Status(Reopen) \in Unserved,
           cv' = Rpc_Call(Reopen), UNCHANGED <<up, boot, missed, cb>>
    PROVE  ~Current'
<1>0. Reopen \in Callers
  BY DEF Callers
<1>1. CASE Status(Reopen) = "TIMEOUT"
  <2>1. "ALIVE" \notin cv'.state
    BY <1>0, <1>1, CallStays
  <2> QED BY <2>1 DEF Current, ToCome
<1>2. CASE Status(Reopen) = "DISABLED"
  <2> SUFFICES ASSUME Current' PROVE FALSE
    OBVIOUS
  <2>1. Stays(cv, cv') /\ cv'.bootID = rpc[Reopen].reply.boot
    BY <1>0, <1>2, CallStays
  <2>2. "ALIVE" \in cv'.state /\ ~ToCome(cv', cb')
    BY DEF Current, ToCome
  <2>3. cv.bootID = rpc[Reopen].reply.boot /\ "ALIVE" \in cv.state
    BY <2>1, <2>2, AliveBefore
  <2>4. missed \/ ToCome(cv, cb)
    BY <1>2, <2>3 DEF OpenInv, TurnedAway, Replied
  <2>5. ~ToCome(cv, cb)
    BY <2>1, <2>2, ToComeBefore
  <2> QED BY <2>4, <2>5 DEF Current
<1> QED BY <1>1, <1>2 DEF Unserved

\* A successful reply that leaves the client current is about this boot.
LEMMA SuccessOpen ==
    ASSUME WhoInv, OpenInv, Replied(Reopen), Status(Reopen) = "SUCCESS",
           rpc[Reopen].op \in {"io", "stream"},
           cv' = Rpc_Call(Reopen), UNCHANGED <<up, boot, missed>>, Current'
    PROVE  <<rpc[Reopen].h, rpc[Reopen].op>> \in have
<1>1. cv'.bootID = rpc[Reopen].reply.boot
  BY CallStays DEF Callers
<1>2. ~missed /\ up = "up" /\ rpc[Reopen].reply.boot = boot
  BY <1>1 DEF Current
<1> QED BY <1>2 DEF OpenInv, ReopenedIsOpen, Replied

LEMMA RecoveryCheckOpen ==
    ASSUME WhoInv, OpenInv, Fsprefix_RecoveryCheck PROVE OpenInv'
<1>1. rec # NoRec /\ UNCHANGED <<up, boot, have, cv>>
  BY DEF Fsprefix_RecoveryCheck, srvVars
<1>2. PassEnds
  BY RecoveryCheckWho
<1>3. OldEntry(cv')
  BY <1>1 DEF OpenInv, BootsKnown
<1>4. BootsKnown' /\ TurnedAway' /\ ReopenedIsOpen'
  BY <1>1, <1>2, <1>3, PassRest
<1>5. PassOK'
  <2>1. PICK td : td = {h \in Handles : <<h, "io">> \notin invalid}
    OBVIOUS
  <2>2. PICK f : f = flags
    OBVIOUS
  <2>3. PICK b : b = invalid
    OBVIOUS
  <2>4. IOPass(td, f, b)
    BY <2>1, <2>2, <2>3 DEF Fsprefix_RecoveryCheck
  <2>5. td \in SUBSET Handles /\ \A h \in Handles \ td : <<h, "io">> \in b \cup have
    BY <2>1, <2>3
  <2> QED BY <1>1, <2>4, <2>5, IOPassOpen
<1> QED BY <1>4, <1>5 DEF OpenInv, PassedOpen

LEMMA IOReopenedOpen ==
    ASSUME WhoInv, OpenInv, IOReopened PROVE OpenInv'
<1>0. Reopen \in Callers
  BY DEF Callers
<1>1. /\ rec # NoRec /\ rec.pass = "io" /\ Replied(Reopen) /\ cv' = Rpc_Call(Reopen)
      /\ UNCHANGED <<up, boot, have, missed, cb>>
  BY DEF IOReopened, srvVars
<1>2. PassEnds
  BY IOReopenedWho
<1>3. OldEntry(cv') /\ Stays(cv, cv')
  BY <1>0, <1>1, CallOld DEF OpenInv
<1>4. BootsKnown' /\ TurnedAway' /\ ReopenedIsOpen'
  BY <1>1, <1>2, <1>3, PassRest
<1>5. CASE Status(Reopen) \in Unserved
  BY <1>1, <1>4, <1>5, UnservedAgain DEF OpenInv, PassedOpen
<1>6. CASE Status(Reopen) \notin Unserved
  <2> SUFFICES ASSUME Current' PROVE PassOK'
    BY <1>4 DEF OpenInv, PassedOpen
  <2>1. PICK h : h = rpc[Reopen].h
    OBVIOUS
  <2>2. PICK f : f = [flags EXCEPT ![h] = RecoveryComplete(@, Status(Reopen))]
    OBVIOUS
  <2>3. PICK b : b = invalid
    OBVIOUS
  <2>4. PICK td : td = rec.todo
    OBVIOUS
  <2>5. IOPass(td, f, b)
    BY <1>6, <2>1, <2>2, <2>3, <2>4 DEF IOReopened
  <2>6. td \in SUBSET Handles
    BY <1>1, <2>4 DEF WhoInv, ReopenAgrees, Recoveries
  <2>7. IOOpen(td \cup {h})
    BY <1>1, <1>3, <2>1, <2>4, CurrentBefore DEF OpenInv, PassedOpen, PassOK
  <2>8. \A x \in Handles \ td : "FAILED" \in f[x] \/ <<x, "io">> \in b \cup have
    <3> SUFFICES ASSUME NEW x \in Handles, x \notin td
                 PROVE  "FAILED" \in f[x] \/ <<x, "io">> \in b \cup have
      OBVIOUS
    <3>0. DOMAIN flags = Handles
      BY DEF WhoInv, ClientTypes
    <3>1. CASE x # h
      <4>1. f[x] = flags[x]
        BY <2>2, <3>0, <3>1
      <4> QED BY <2>3, <2>7, <3>1, <4>1 DEF IOOpen
    <3>2. CASE x = h /\ Status(Reopen) = "SUCCESS"
      <4>1. rpc[Reopen].op = "io"
        BY <1>1 DEF WhoInv, ReopenAgrees
      <4>2. <<rpc[Reopen].h, rpc[Reopen].op>> \in have
        BY <1>1, <3>2, <4>1, SuccessOpen
      <4> QED BY <2>1, <3>2, <4>1, <4>2
    <3>3. CASE x = h /\ Status(Reopen) # "SUCCESS"
      <4>1. f[x] = RecoveryComplete(flags[x], Status(Reopen))
        BY <2>2, <3>0, <3>3
      <4> QED BY <1>6, <3>3, <4>1 DEF RecoveryComplete
    <3> QED BY <3>1, <3>2, <3>3
  <2> QED BY <1>1, <2>5, <2>6, <2>8, IOPassOpen
<1> QED BY <1>5, <1>6

LEMMA StreamReopenedOpen ==
    ASSUME WhoInv, OpenInv, StreamReopened PROVE OpenInv'
<1>0. Reopen \in Callers
  BY DEF Callers
<1>1. /\ rec # NoRec /\ rec.pass = "stream" /\ Replied(Reopen) /\ cv' = Rpc_Call(Reopen)
      /\ UNCHANGED <<up, boot, have, missed, cb>>
  BY DEF StreamReopened, srvVars
<1>2. PassEnds
  BY StreamReopenedWho
<1>3. OldEntry(cv') /\ Stays(cv, cv')
  BY <1>0, <1>1, CallOld DEF OpenInv
<1>4. BootsKnown' /\ TurnedAway' /\ ReopenedIsOpen'
  BY <1>1, <1>2, <1>3, PassRest
<1>5. CASE Status(Reopen) \in Unserved
  BY <1>1, <1>4, <1>5, UnservedAgain DEF OpenInv, PassedOpen
<1>6. CASE Status(Reopen) \notin Unserved
  <2> SUFFICES ASSUME Current' PROVE PassOK'
    BY <1>4 DEF OpenInv, PassedOpen
  <2>1. PICK h : h = rpc[Reopen].h
    OBVIOUS
  <2>2. PICK f : f = flags
    OBVIOUS
  <2>3. PICK b : b = IF Status(Reopen) = "SUCCESS" THEN invalid
                     ELSE invalid \cup {<<h, "stream">>}
    OBVIOUS
  <2>4. PICK td : td = rec.todo
    OBVIOUS
  <2>5. StreamPass(td, f, b)
    BY <1>6, <2>1, <2>2, <2>3, <2>4 DEF StreamReopened
  <2>6. td \in SUBSET Handles
    BY <1>1, <2>4 DEF WhoInv, ReopenAgrees, Recoveries
  <2>7. IOOpen({}) /\ StreamsOpen(td \cup {h})
    BY <1>1, <1>3, <2>1, <2>4, CurrentBefore DEF OpenInv, PassedOpen, PassOK
  <2>8. \A x \in Handles : "FAILED" \in f[x] \/ <<x, "io">> \in b \cup have
    BY <2>2, <2>3, <2>7 DEF IOOpen
  <2>9. \A x \in Handles \ td : <<x, "stream">> \in b \cup have
    <3> SUFFICES ASSUME NEW x \in Handles, x \notin td PROVE <<x, "stream">> \in b \cup have
      OBVIOUS
    <3>1. CASE x # h
      BY <2>3, <2>7, <3>1 DEF StreamsOpen
    <3>2. CASE x = h /\ Status(Reopen) = "SUCCESS"
      <4>1. rpc[Reopen].op = "stream"
        BY <1>1 DEF WhoInv, ReopenAgrees
      <4>2. <<rpc[Reopen].h, rpc[Reopen].op>> \in have
        BY <1>1, <3>2, <4>1, SuccessOpen
      <4> QED BY <2>1, <3>2, <4>1, <4>2
    <3>3. CASE x = h /\ Status(Reopen) # "SUCCESS"
      BY <2>3, <3>3
    <3> QED BY <3>1, <3>2, <3>3
  <2> QED BY <1>1, <2>5, <2>6, <2>8, <2>9, StreamOpen
<1> QED BY <1>5, <1>6

LEMMA ReopenEndsOpen ==
    ASSUME WhoInv, OpenInv, ReopenEnds PROVE OpenInv'
<1>0. Reopen \in Callers /\ rpc \in [Callers -> Calls \cup {NoCall}]
  BY DEF Callers, WhoInv, CallTypes
<1>1. /\ rec # NoRec /\ rec.pass = "done" /\ Replied(Reopen) /\ cv' = Rpc_Call(Reopen)
      /\ rec' = NoRec /\ rpc' = [rpc EXCEPT ![Reopen] = NoCall]
      /\ UNCHANGED <<up, boot, have, missed, invalid>>
      /\ cb' = IF rec.by = CallBack THEN "wake" ELSE cb
  BY DEF ReopenEnds, srvVars, handleVars
<1>2. cb' = "none" <=> cb = "none"
  BY <1>1 DEF WhoInv, ReopenAgrees
<1>3. OldEntry(cv') /\ Stays(cv, cv')
  BY <1>0, <1>1, CallOld DEF OpenInv
<1>4. rpc'[Reopen] = NoCall /\ \A a \in Callers : a # Reopen => rpc'[a] = rpc[a]
  BY <1>0, <1>1
<1>5. TurnedAway' /\ ReopenedIsOpen'
  BY <1>4 DEF TurnedAway, ReopenedIsOpen
<1>6. BootsKnown'
  BY <1>1, <1>3, <1>4, BootsKeep DEF OpenInv
<1>7. PassedOpen'
  <2> SUFFICES ASSUME Current' PROVE PassOK'
    BY DEF PassedOpen
  <2>1. AllOpen
    BY <1>1, <1>2, <1>3, CurrentBefore DEF OpenInv, PassedOpen, PassOK
  <2>2. AllOpen'
    BY <1>1, <2>1 DEF AllOpen
  <2> QED BY <1>1, <2>2 DEF PassOK
<1> QED BY <1>5, <1>6, <1>7 DEF OpenInv

\* A re-open begins.
LEMMA BeginOpen ==
    ASSUME WhoInv, BootsKnown', rpc'[Reopen] = rpc[Reopen], rec = NoRec,
           NEW by \in Procs \cup {CallBack}, Fsutil_Reopen(by)
    PROVE  OpenInv'
<1>1. rpc'[Reopen] = NoCall
  BY DEF WhoInv, ReopenAgrees
<1>2. rec' # NoRec /\ rec'.pass = "check"
  BY BeginsReopen
<1>3. TurnedAway' /\ ReopenedIsOpen'
  BY <1>1 DEF TurnedAway, ReopenedIsOpen
<1>4. PassOK'
  BY <1>2 DEF PassOK
<1> QED BY <1>3, <1>4 DEF OpenInv, PassedOpen

LEMMA CallBackOpen ==
    ASSUME WhoInv, OpenInv, RebootCallBack \/ RebootCallBacksDone PROVE OpenInv'
<1>1. UNCHANGED <<up, boot, have, invalid, flags, rpc>>
  BY DEF RebootCallBack, RebootCallBacksDone, srvVars, handleVars
<1>2. CASE RebootCallBack
  <2>0. UNCHANGED cv
    BY <1>2 DEF RebootCallBack
  <2>1. BootsKnown'
    BY <1>1, <2>0, BootsKeep DEF OpenInv, BootsKnown
  <2>2. CASE rec = NoRec
    <3>1. Fsutil_Reopen(CallBack)
      BY <1>2, <2>2 DEF RebootCallBack
    <3> QED BY <1>1, <2>1, <2>2, <3>1, BeginOpen
  <2>3. CASE rec # NoRec
    <3>1. missed'
      BY <1>2, <2>3, Zenon DEF RebootCallBack
    <3>2. TurnedAway' /\ ReopenedIsOpen'
      BY <1>1, <3>1 DEF OpenInv, TurnedAway, ReopenedIsOpen, Status
    <3> QED BY <2>1, <3>1, <3>2 DEF OpenInv, PassedOpen, Current
  <2> QED BY <2>2, <2>3
<1>3. CASE RebootCallBacksDone
  <2>1. cb = "done" /\ cb' = "none" /\ cv' = CallBacksDone(cv) /\ UNCHANGED <<rec, missed>>
    BY <1>3 DEF RebootCallBacksDone
  <2>2. PICK e : e = cv
    OBVIOUS
  <2>3. Known(e)
    BY <2>2 DEF WhoInv, EntryAgrees
  <2>4. /\ cv'.bootID = cv.bootID
        /\ "ALIVE" \in cv'.state <=> "ALIVE" \in cv.state
        /\ "WANT_RECOVERY" \in cv'.state <=> cv.state \cap {"FAILURE", "WANT_RECOVERY"} # {}
    BY <2>1, <2>2, <2>3, CallBacksOver
  <2>5. ToCome(cv, cb) => ToCome(cv', cb')
    BY <2>1, <2>4 DEF ToCome
  <2>6. BootsKnown'
    <3>1. OldEntry(cv')
      BY <2>4 DEF OpenInv, BootsKnown, OldEntry
    <3> QED BY <1>1, <3>1, BootsKeep DEF OpenInv
  <2>7. TurnedAway' /\ ReopenedIsOpen'
    BY <1>1, <2>1, <2>4, <2>5 DEF OpenInv, TurnedAway, ReopenedIsOpen, Status
  <2>8. Current' => Current
    BY <1>1, <2>1, <2>4, <2>5 DEF Current
  <2>9. PassOK => PassOK'
    BY <1>1, <2>1, PassGrows
  <2> QED BY <2>6, <2>7, <2>8, <2>9 DEF OpenInv, PassedOpen
<1> QED BY <1>2, <1>3

-----------------------------------------------------------------------------
(* The other steps of the client, and the theorem.                         *)

LEMMA ClientOpen ==
    ASSUME WhoInv, OpenInv,
           \/ Ping \/ CltCrashCallBacks
           \/ \E by \in Procs \cup {CallBack} : WakeupAllProcesses(by)
           \/ \E p \in Procs : \/ Process(p) \/ Interrupted(p)
                               \/ \E h \in Handles : Fs_Read(p, h) \/ Fsprefix_OpenCheck(p, h)
    PROVE  OpenInv'
<1>0. /\ Reopen \in Callers /\ Reopen \notin Procs /\ Procs \subseteq Callers
      /\ rpc \in [Callers -> Calls \cup {NoCall}] /\ OldEntry(cv)
  BY RecovAssumption DEF Callers, WhoInv, CallTypes, OpenInv, BootsKnown
<1>1. ASSUME UNCHANGED cv PROVE Stays(cv, cv') /\ OldEntry(cv')
  <2>1. PICK e : e = cv
    OBVIOUS
  <2>2. Known(e)
    BY <2>1 DEF WhoInv, EntryAgrees
  <2>3. cv' = e
    BY <1>1, <2>1
  <2> QED BY <1>0, <2>1, <2>2, <2>3, KnownStays
<1>2. CASE Ping \/ CltCrashCallBacks
  <2>1. Stays(cv, cv') /\ OldEntry(cv')
    BY <1>2, HostWho, HostOld DEF OpenInv
  <2>2. UNCHANGED <<up, boot, have, missed, rec, flags, invalid, cb, rpc>>
    BY <1>2 DEF Ping, CltCrashCallBacks, srvVars, handleVars
  <2>3. BootsKnown'
    BY <2>1, <2>2, BootsKeep DEF OpenInv
  <2> QED BY <2>1, <2>2, <2>3, OpenKeeps DEF OpenInv
<1>3. ASSUME NEW by \in Procs \cup {CallBack}, WakeupAllProcesses(by) PROVE OpenInv'
  <2>1. /\ UNCHANGED <<up, boot, have, missed, rec, flags, invalid, cv, rpc>>
        /\ cb' = "none" <=> cb = "none"
    BY <1>3 DEF WakeupAllProcesses, srvVars, handleVars
  <2>2. BootsKnown'
    BY <1>1, <2>1, BootsKeep DEF OpenInv
  <2> QED BY <1>1, <2>1, <2>2, OpenKeeps DEF OpenInv
<1>4. ASSUME NEW p \in Procs, ReadReturns(p) \/ Fsprefix_OpenDone(p) PROVE OpenInv'
  <2>0. Returns(p)
    BY <1>4 DEF ReadReturns, Fsprefix_OpenDone
  <2>1. /\ UNCHANGED <<up, boot, have, invalid, cb>> /\ rpc' = [rpc EXCEPT ![p] = NoCall]
        /\ Replied(p) /\ cv' = Rpc_Call(p)
    BY <2>0 DEF Returns, srvVars
  <2>2. \A a \in Callers : rpc'[a] \in {rpc[a], NoCall} /\ (a # p => rpc'[a] = rpc[a])
    BY <1>0, <2>1
  <2>3. OldEntry(cv') /\ Stays(cv, cv')
    BY <1>0, <2>1, CallOld DEF OpenInv
  <2>4. BootsKnown'
    BY <2>1, <2>2, <2>3, BootsKeep DEF OpenInv
  <2>5. rpc'[Reopen] = rpc[Reopen]
    BY <1>0, <2>2
  <2>6. CASE rec = NoRec /\ Fsutil_Reopen(p)
    BY <2>4, <2>5, <2>6, BeginOpen
  <2>7. CASE UNCHANGED <<rec, missed>>
    <3>1. \A h \in Handles : "FAILED" \in flags'[h] <=> "FAILED" \in flags[h]
      <4>1. flags \in [Handles -> SUBSET {"NEEDED", "COMPLETE", "FAILED"}]
        BY DEF WhoInv, ClientTypes
      <4>2. flags' = flags \/ flags' = [flags EXCEPT ![want[p]] = @ \cup {"NEEDED"}]
        BY <2>0 DEF Returns
      <4> QED BY <4>1, <4>2
    <3> QED BY <2>1, <2>3, <2>4, <2>5, <2>7, <3>1, OpenKeeps DEF OpenInv
  <2>8. UNCHANGED <<rec, missed>> \/ (rec = NoRec /\ Fsutil_Reopen(p))
    BY <2>0 DEF Returns
  <2> QED BY <2>6, <2>7, <2>8
<1>5. ASSUME NEW p \in Procs, RecoveryWait(p) \/ Interrupted(p) PROVE OpenInv'
  <2>1. UNCHANGED <<up, boot, have, missed, rec, flags, invalid, cv, cb, rpc>>
    BY <1>5 DEF RecoveryWait, Interrupted, srvVars, handleVars
  <2> QED BY <2>1, OpenFrame
<1>6. ASSUME NEW p \in Procs, NEW h, Fs_Read(p, h) \/ Fsprefix_OpenCheck(p, h) PROVE OpenInv'
  <2>1. UNCHANGED <<up, boot, have, missed, rec, flags, invalid, cv, cb>>
    BY <1>6 DEF Fs_Read, Fsprefix_OpenCheck, srvVars, handleVars
  <2>2. rpc' = rpc \/ \E op \in {"read", "open"} : rpc' = [rpc EXCEPT ![p] = Call(op, h)]
    BY <1>6 DEF Fs_Read, Fsprefix_OpenCheck
  <2>3. \A a \in Callers : a # p => rpc'[a] = rpc[a]
    BY <1>0, <2>2
  <2>4. rpc'[p] = rpc[p] \/ rpc'[p].reply = NoReply
    BY <1>0, <2>2 DEF Call
  <2>5. OldReply(NoReply)
    BY DEF OldReply, NoReply
  <2>6. BootsKnown'
    BY <1>1, <2>1, <2>3, <2>4, <2>5, BootsKeep DEF OpenInv
  <2>7. rpc'[Reopen] = rpc[Reopen]
    BY <1>0, <2>3
  <2> QED BY <1>1, <2>1, <2>6, <2>7, OpenKeeps DEF OpenInv
<1>7. ASSUME NEW p \in Procs, Process(p) \/ Interrupted(p) PROVE OpenInv'
  <2>1. PICK h : h = want[p]
    OBVIOUS
  <2>2. CASE pc[p] = "openok" /\ Fsprefix_OpenCheck(p, want[p])
    <3>1. Fsprefix_OpenCheck(p, h)
      BY <2>1, <2>2
    <3> QED BY <3>1, <1>6
  <2> QED BY <1>4, <1>5, <1>7, <2>2 DEF Process
<1> QED BY <1>2, <1>3, <1>6, <1>7

LEMMA OpenInit == Init => OpenInv
<1> SUFFICES ASSUME Init PROVE OpenInv
  OBVIOUS
<1>1. \A a \in Callers : rpc[a] = NoCall
  BY DEF Init
<1>2. rpc[Reopen] = NoCall
  BY <1>1 DEF Callers
<1>3. BootsKnown
  <2>1. OldEntry(cv)
    BY DEF Init, OldEntry, Entry
  <2> QED BY <1>1, <2>1 DEF BootsKnown
<1>4. TurnedAway /\ ReopenedIsOpen
  BY <1>2 DEF TurnedAway, ReopenedIsOpen
<1>5. PassOK
  BY DEF Init, PassOK, AllOpen
<1> QED BY <1>3, <1>4, <1>5 DEF OpenInv, PassedOpen

LEMMA OpenStep == WhoInv /\ OpenInv /\ [Next]_vars => OpenInv'
<1> SUFFICES ASSUME WhoInv, OpenInv, [Next]_vars PROVE OpenInv'
  OBVIOUS
<1>1. CASE Server \/ Faults \/ Heal \/ SrvCallSucceeds
  BY <1>1, ServerOpen
<1>2. CASE Recovery
  BY <1>2, ClientOpen, CallBackOpen, RecoveryCheckOpen, IOReopenedOpen, StreamReopenedOpen,
     ReopenEndsOpen DEF Recovery
<1>3. ASSUME NEW a \in Callers, Serve(a) \/ RpcTimesOut(a) \/ RpcLost(a) PROVE OpenInv'
  BY <1>3, ServeOpen, RpcFateOpen
<1>4. ASSUME NEW p \in Procs,
             \/ Process(p) \/ Interrupted(p)
             \/ \E h \in Handles : Fs_Read(p, h) \/ Fsprefix_OpenCheck(p, h)
      PROVE  OpenInv'
  BY <1>4, ClientOpen
<1>5. CASE UNCHANGED vars
  <2>1. UNCHANGED <<up, boot, have, missed, rec, flags, invalid, rpc, cv, cb>>
    BY <1>5 DEF vars, srvVars, handleVars
  <2> QED BY <2>1, OpenFrame
<1> QED BY <1>1, <1>2, <1>3, <1>4, <1>5 DEF Next

\* A client that takes the server to be up, knows its last reboot and has no
\* recovery to do has all its valid handles open there, but for what the server
\* dropped on its own and for a reboot that fell into a re-open (fsutilRecovery.c,
\* ReopenHandles; recovery.c, Recov_HostAlive).
THEOREM RecoveredHasHandles == Spec => []RecoveredIsOpen
<1>1. Spec => [](WhoInv /\ OpenInv)
  BY WhoInit, WhoStep, OpenInit, OpenStep, PTL DEF Spec
<1>2. WhoInv /\ OpenInv => RecoveredIsOpen
  <2> SUFFICES ASSUME WhoInv, OpenInv,
                      ~missed /\ ~WillRecover /\ rec = NoRec /\ cv.bootID = boot /\ up = "up"
               PROVE  Objects \ invalid \subseteq have
    BY DEF RecoveredIsOpen
  <2>1. Current
    BY DEF Current, ToCome, WillRecover
  <2> QED BY <2>1 DEF OpenInv, PassedOpen, PassOK, AllOpen
<1> QED BY <1>1, <1>2, PTL
=============================================================================
