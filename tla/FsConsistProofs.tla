--------------------------- MODULE FsConsistProofs ---------------------------
(***************************************************************************)
(* Proofs about cache consistency in FsConsist.  The first part, on the    *)
(* list of clients and the loops that walk down it with the monitor given  *)
(* up, is for any number of hosts, processes, opens, timeouts and failures.*)
(* The second part shows for any number of hosts that reads see the latest *)
(* write, where opens come one at a time and nothing fails.  The third     *)
(* part shows that the use counts of the server and of its list of clients *)
(* agree, and with them that every count stays in its range, also where    *)
(* opens overlap, as long as no write-back fails.                          *)
(***************************************************************************)
EXTENDS FsConsist, SequenceTheorems, FunctionTheorems, FiniteSetTheorems, TLAPS

Stages == {"idle", "sent", "named", "asleep", "awake", "calling", "resume", "ending",
           "replies", "failed", "replied", "returned", "open"}

\* The stages of the process that has set FS_CONSIST_IN_PROGRESS: first it walks
\* down the list.
Walking == {"calling", "resume"}
Holding == {"calling", "resume", "ending", "replies"}

ListTypes ==
    /\ pc \in [Procs -> Stages]
    /\ mode \in [Procs -> Modes \cup {"none"}]
    /\ clientList \in Seq(Clients) /\ IsInjective(clientList)
    /\ msgList \in [Clients -> SUBSET Flags]
    /\ next \in Clients \cup {NoClient}
    /\ holder \in Procs \cup {NoProc}

\* FS_CONSIST_IN_PROGRESS is set by one process at a time.
HolderAgrees == \A p \in Procs : pc[p] \in Holding <=> p = holder

\* The loop's pointer is in use only during the loop.
NextAgrees == next # NoClient => \E p \in Procs : pc[p] \in Walking

\* When no operation is under way all clients have reported.
ReportedBefore == holder = NoProc => AllReported

\* The clients that the loop has not come to.
Ahead(n) == {clientList[i] : i \in From(n)}

\* They have been told nothing.
AheadUntold == \A c \in Ahead(next) : msgList[c] = {}

ListInv ==
    /\ ListTypes /\ HolderAgrees /\ NextAgrees /\ ReportedBefore
    /\ AheadUntold /\ NextIsListed
-----------------------------------------------------------------------------
LEMMA NoProcNoProc == NoProc \notin Procs
BY ConsistAssumption DEF NoProc, Procs

\* The clients from one place of the list on.
LEMMA FromPlace ==
    ASSUME ListTypes, NEW i \in DOMAIN clientList
    PROVE  From(clientList[i]) = {j \in DOMAIN clientList : i <= j}
<1>1. /\ DOMAIN clientList = 1 .. Len(clientList) /\ Len(clientList) \in Nat
      /\ clientList[i] \in Clients
  BY DEF ListTypes
<1>2. \A j \in DOMAIN clientList : clientList[j] = clientList[i] => j = i
  BY DEF ListTypes, IsInjective
<1>3. clientList[i] # NoClient
  BY <1>1, ConsistAssumption
<1>4. ASSUME NEW j \in DOMAIN clientList
      PROVE  (\E k \in 1 .. j : clientList[k] = clientList[i]) <=> i <= j
  <2>1. ASSUME NEW k \in 1 .. j, clientList[k] = clientList[i] PROVE i <= j
    <3>1. k \in DOMAIN clientList
      BY <1>1
    <3>2. k = i
      BY <1>2, <2>1, <3>1
    <3>3. QED
      BY <1>1, <3>2
  <2>2. i <= j => i \in 1 .. j
    BY <1>1
  <2>3. QED
    BY <2>1, <2>2
<1>5. QED
  BY <1>3, <1>4 DEF From

LEMMA AheadOf ==
    ASSUME ListTypes, NEW n \in Clients, Listed(n)
    PROVE  n \in Ahead(n) /\ Ahead(n) \subseteq Clients
<1>1. PICK i \in DOMAIN clientList : clientList[i] = n
  BY DEF Listed, Range
<1>2. From(n) = {j \in DOMAIN clientList : i <= j}
  BY <1>1, FromPlace
<1>3. i \in Int /\ \A j \in DOMAIN clientList : clientList[j] \in Clients
  BY DEF ListTypes
<1>4. i \in From(n)
  BY <1>2, <1>3
<1>5. QED
  BY <1>1, <1>2, <1>3, <1>4 DEF Ahead

\* Clients are removed from the list: the others stay, and those that were ahead of
\* the loop are ahead of it, if its next one stays.
LEMMA Removed ==
    ASSUME ListTypes, NEW S, RemoveClients(S)
    PROVE  /\ clientList' \in Seq(Clients) /\ IsInjective(clientList')
           /\ \A c : Listed(c)' <=> Listed(c) /\ c \notin S
           /\ \A n : n \notin S => Ahead(n)' = Ahead(n) \ S
<1> DEFINE left == {i \in DOMAIN clientList : clientList[i] \notin S}
           L == Len(clientList)
<1>1. PICK n \in 0 .. L : \E keep \in [1 .. n -> left] :
        /\ Range(keep) = left
        /\ \A a, b \in 1 .. n : a < b => keep[a] < keep[b]
        /\ clientList' = [a \in 1 .. n |-> clientList[keep[a]]]
  BY DEF RemoveClients
<1>2. PICK keep \in [1 .. n -> left] :
        /\ Range(keep) = left
        /\ \A a, b \in 1 .. n : a < b => keep[a] < keep[b]
        /\ clientList' = [a \in 1 .. n |-> clientList[keep[a]]]
  BY <1>1
<1>3. /\ L \in Nat /\ DOMAIN clientList = 1 .. L
      /\ \A i \in 1 .. L : clientList[i] \in Clients
  BY DEF ListTypes
<1>4. n \in Nat
  BY <1>1, <1>3
<1>5. \A i \in 1 .. L : clientList[i] \notin S => \E a \in 1 .. n : keep[a] = i
  <2>1. \A i \in left : \E a \in 1 .. n : keep[a] = i
    <3> HIDE DEF left
    <3> QED
      BY <1>2 DEF Range
  <2>2. QED
    BY <1>3, <2>1
<1>6. \A a \in 1 .. n : keep[a] \in 1 .. L /\ clientList[keep[a]] \notin S
  <2>1. \A a \in 1 .. n : keep[a] \in left
    <3> HIDE DEF left
    <3> QED
      BY <1>2
  <2>2. QED
    BY <1>3, <2>1
<1>7. \A a, b \in 1 .. n : keep[a] <= keep[b] <=> a <= b
  <2> HIDE DEF left, L
  <2> TAKE a, b \in 1 .. n
  <2>1. a \in Int /\ b \in Int /\ keep[a] \in Int /\ keep[b] \in Int
    BY <1>3, <1>4, <1>6
  <2>2. /\ a < b => keep[a] < keep[b]
        /\ b < a => keep[b] < keep[a]
        /\ a = b => keep[a] = keep[b]
    BY <1>2
  <2>3. QED
    BY <2>1, <2>2
<1> HIDE DEF left
<1>8. /\ DOMAIN clientList' = 1 .. n
      /\ \A a \in 1 .. n : clientList'[a] = clientList[keep[a]]
  BY <1>2
<1>9. clientList' \in Seq(Clients) /\ Len(clientList') = n
  <2>1. clientList' \in [1 .. n -> Clients]
    BY <1>2, <1>3, <1>6
  <2>2. QED
    BY <1>4, <2>1
<1>10. IsInjective(clientList')
  <2> SUFFICES ASSUME NEW a \in 1 .. n, NEW b \in 1 .. n, clientList'[a] = clientList'[b]
               PROVE  a = b
    BY <1>8 DEF IsInjective
  <2>1. clientList[keep[a]] = clientList[keep[b]]
    BY <1>8
  <2>2. keep[a] = keep[b]
    BY <1>3, <1>6, <2>1 DEF ListTypes, IsInjective
  <2>3. keep[a] \in Int /\ keep[b] \in Int /\ a \in Int /\ b \in Int
    BY <1>3, <1>4, <1>6
  <2>4. QED
    BY <1>7, <2>2, <2>3
<1>11. ASSUME NEW c PROVE Listed(c)' <=> Listed(c) /\ c \notin S
  <2>1. Listed(c) <=> \E i \in 1 .. L : clientList[i] = c
    BY <1>3 DEF Listed, Range
  <2>2. Listed(c)' <=> \E a \in 1 .. n : clientList[keep[a]] = c
    BY <1>8 DEF Listed, Range
  <2> HIDE DEF L
  <2>3. QED
    BY <1>5, <1>6, <2>1, <2>2
<1>12. ASSUME NEW m, m \notin S PROVE Ahead(m)' = Ahead(m) \ S
  <2>1. ASSUME NEW i \in 1 .. L
        PROVE  i \in From(m) <=> m # NoClient /\ \E j \in 1 .. i : clientList[j] = m
    BY <1>3 DEF From
  <2>2. ASSUME NEW a \in 1 .. n
        PROVE  a \in From(m)' <=> m # NoClient /\ \E b \in 1 .. a : clientList[keep[b]] = m
    BY <1>4, <1>8 DEF From
  <2>3. ASSUME NEW a \in 1 .. n PROVE a \in From(m)' <=> keep[a] \in From(m)
    <3>1. ASSUME NEW b \in 1 .. a, clientList[keep[b]] = m
          PROVE  \E j \in 1 .. keep[a] : clientList[j] = m
      <4>1. b \in 1 .. n /\ b <= a
        BY <1>4
      <4>2. keep[b] \in 1 .. L /\ keep[a] \in 1 .. L /\ keep[b] <= keep[a]
        BY <1>6, <1>7, <4>1
      <4>3. keep[b] \in 1 .. keep[a]
        BY <1>3, <4>2
      <4>4. QED
        BY <3>1, <4>3
    <3>2. ASSUME NEW j \in 1 .. keep[a], clientList[j] = m
          PROVE  \E b \in 1 .. a : clientList[keep[b]] = m
      <4>1. keep[a] \in 1 .. L
        BY <1>6
      <4>2. j \in 1 .. L /\ j <= keep[a]
        BY <1>3, <4>1
      <4>3. PICK b \in 1 .. n : keep[b] = j
        BY <1>5, <2>1, <3>2, <4>2, <1>12
      <4>4. b <= a
        BY <1>7, <4>2, <4>3
      <4>5. b \in 1 .. a
        BY <1>4, <4>4
      <4>6. QED
        BY <3>2, <4>3, <4>5
    <3>3. keep[a] \in 1 .. L
      BY <1>6
    <3>4. QED
      BY <2>1, <2>2, <3>1, <3>2, <3>3
  <2>4. ASSUME NEW c PROVE c \in Ahead(m)' <=> c \in Ahead(m) /\ c \notin S
    <3>1. c \in Ahead(m) <=> \E i \in 1 .. L : i \in From(m) /\ clientList[i] = c
      BY <1>3 DEF Ahead, From
    <3>2. c \in Ahead(m)' <=> \E a \in 1 .. n : a \in From(m)' /\ clientList[keep[a]] = c
      BY <1>8 DEF Ahead, From
    <3> HIDE DEF L
    <3>3. c \in Ahead(m)' => c \in Ahead(m) /\ c \notin S
      BY <1>6, <2>3, <3>1, <3>2
    <3>4. ASSUME c \in Ahead(m), c \notin S PROVE c \in Ahead(m)'
      <4>1. PICK i \in 1 .. L : i \in From(m) /\ clientList[i] = c
        BY <3>1, <3>4
      <4>2. PICK a \in 1 .. n : keep[a] = i
        BY <1>5, <3>4, <4>1
      <4>3. QED
        BY <2>3, <3>2, <4>1, <4>2
    <3>5. QED
      BY <3>3, <3>4
  <2>5. QED
    BY <2>4
<1>13. QED
  BY <1>9, <1>10, <1>11, <1>12

-----------------------------------------------------------------------------
\* What a step does to the list while the loop is suspended: clients other than
\* the next one are removed.
Shortens == clientList' = clientList \/ \E S : next \notin S /\ RemoveClients(S)

LEMMA ListKeeps ==
    ASSUME ListInv, UNCHANGED <<holder, next>>, Shortens,
           msgList' \in [Clients -> SUBSET Flags],
           \A c \in Clients : msgList'[c] \in {msgList[c], {}},
           mode' \in [Procs -> Modes \cup {"none"}],
           pc' \in [Procs -> Stages],
           \A p \in Procs : /\ pc'[p] \in Holding <=> pc[p] \in Holding
                            /\ pc'[p] \in Walking <=> pc[p] \in Walking
    PROVE  ListInv'
<1>1. ListTypes
  BY DEF ListInv
<1>2. PICK n : n = next
  OBVIOUS
<1>3. /\ clientList' \in Seq(Clients) /\ IsInjective(clientList')
      /\ Listed(n) => Listed(n)'
      /\ Ahead(n)' \subseteq Ahead(n)
  <2>1. CASE clientList' = clientList
    BY <1>1, <2>1 DEF ListTypes, IsInjective, Listed, Range, Ahead, From
  <2>2. CASE \E S : next \notin S /\ RemoveClients(S)
    <3>1. PICK S : next \notin S /\ RemoveClients(S)
      BY <2>2
    <3>2. QED
      BY <1>1, <1>2, <3>1, Removed
  <2>3. QED
    BY <2>1, <2>2 DEF Shortens
<1>4. ListTypes'
  BY <1>1, <1>3 DEF ListTypes
<1>5. HolderAgrees' /\ NextAgrees'
  BY DEF ListInv, HolderAgrees, NextAgrees
<1>6. ReportedBefore'
  BY DEF ListInv, ReportedBefore, AllReported
<1>7. NextIsListed'
  BY <1>2, <1>3 DEF ListInv, NextIsListed, Listed
<1>8. AheadUntold'
  <2>1. Ahead(next)' = Ahead(n)' /\ Ahead(next) = Ahead(n)
    BY <1>2 DEF Ahead, From
  <2>2. Ahead(n) \subseteq Clients
    BY <1>1 DEF Ahead, From, ListTypes
  <2>3. QED
    BY <1>3, <2>1, <2>2 DEF ListInv, AheadUntold
<1>9. QED
  BY <1>4, <1>5, <1>6, <1>7, <1>8 DEF ListInv

\* A process that is not in the operation, or stays in it, goes on.
LEMMA StageKept ==
    ASSUME ListTypes, NEW p \in Procs, NEW s \in Stages, pc' = [pc EXCEPT ![p] = s],
           s \in Holding <=> pc[p] \in Holding, s \in Walking <=> pc[p] \in Walking
    PROVE  /\ pc' \in [Procs -> Stages]
           /\ \A q \in Procs : /\ pc'[q] \in Holding <=> pc[q] \in Holding
                               /\ pc'[q] \in Walking <=> pc[q] \in Walking
BY DEF ListTypes

\* Fsconsist_Kill and ConsistTimeout leave the locked entry where it is.
LEMMA KillShortens ==
    ASSUME ListTypes, NEW S, Kill(S)
    PROVE  /\ Shortens
           /\ msgList' \in [Clients -> SUBSET Flags]
           /\ \A c \in Clients : msgList'[c] \in {msgList[c], {}}
<1>1. next \notin {c \in S : ~Locked(c)}
  BY DEF Locked
<1>2. RemoveClients({c \in S : ~Locked(c)})
  BY DEF Kill, IOClientKill, Unlist
<1>3. Shortens
  BY <1>1, <1>2 DEF Shortens
<1>4. QED
  BY <1>3 DEF Kill, ListTypes

\* Where the loop has something to say, the message is about flags.
LEMMA CommandFlags ==
    ASSUME NEW p, NEW c, NEW ok PROVE Command(p, c, ok) \in SUBSET Flags
BY DEF Command, StatCommand, OpenCommand, Flags

\* The loop goes on from n, where no client from n on has been told anything.
LEMMA ContinueList ==
    ASSUME ListTypes, NEW p \in Procs, NEW n, NEW ok, Continue(p, n, ok),
           n # NoClient => n \in Clients /\ Listed(n),
           \A c \in Ahead(n) : msgList[c] = {},
           \A q \in Procs \ {p} : pc[q] \notin Holding
    PROVE  /\ clientList' \in Seq(Clients) /\ IsInjective(clientList')
           /\ msgList' \in [Clients -> SUBSET Flags]
           /\ next' \in Clients \cup {NoClient}
           /\ pc' \in [Procs -> Stages]
           /\ \A q \in Procs : pc'[q] \in Holding <=> q = p
           /\ next' # NoClient => pc'[p] \in Walking
           /\ AheadUntold' /\ NextIsListed'
<1>1. /\ DOMAIN clientList = 1 .. Len(clientList) /\ Len(clientList) \in Nat
      /\ \A i \in DOMAIN clientList : clientList[i] \in Clients
  BY DEF ListTypes
<1>2. CASE NextCommand(p, n, ok)
  <2>1. PICK i \in From(n) :
          LET c == clientList[i] IN
          /\ next' = IF i < Len(clientList) THEN clientList[i + 1] ELSE NoClient
          /\ msgList' = [msgList EXCEPT ![c] = Command(p, c, ok)]
          /\ pc' = [pc EXCEPT ![p] = "calling"]
          /\ UNCHANGED listVars
    BY <1>2 DEF NextCommand
  <2>2. clientList' = clientList
    BY <2>1 DEF listVars
  <2>3. i \in DOMAIN clientList /\ n # NoClient
    BY <2>1 DEF From
  <2>4. msgList' \in [Clients -> SUBSET Flags]
    <3>1. PICK f : f = Command(p, clientList[i], ok)
      OBVIOUS
    <3>2. PICK c : c = clientList[i]
      OBVIOUS
    <3>3. f \in SUBSET Flags
      BY <3>1, <3>2, CommandFlags
    <3>4. msgList' = [msgList EXCEPT ![c] = f]
      BY <2>1, <3>1, <3>2
    <3>5. QED
      BY <3>3, <3>4 DEF ListTypes
  <2>5. /\ pc' \in [Procs -> Stages]
        /\ \A q \in Procs : pc'[q] \in Holding <=> q = p
        /\ pc'[p] \in Walking
    <3>1. /\ pc' \in [Procs -> Stages] /\ pc'[p] = "calling"
          /\ \A q \in Procs \ {p} : pc'[q] = pc[q]
      BY <2>1 DEF ListTypes, Stages
    <3>2. QED
      BY <3>1 DEF Holding, Walking
  <2>6. next' \in Clients \cup {NoClient}
    BY <1>1, <2>1, <2>3
  <2>7. PICK k \in DOMAIN clientList : clientList[k] = n
    BY <2>3 DEF Listed, Range
  <2>8. From(n) = {j \in DOMAIN clientList : k <= j}
    BY <2>7, FromPlace
  <2>9. AheadUntold' /\ NextIsListed'
    <3>1. CASE i < Len(clientList)
      <4>1. i + 1 \in DOMAIN clientList /\ next' = clientList[i + 1]
        BY <1>1, <2>1, <2>3, <3>1
      <4>2. PICK m : m = clientList[i + 1]
        OBVIOUS
      <4>3. From(m) = {j \in DOMAIN clientList : i + 1 <= j}
        BY <4>1, <4>2, FromPlace
      <4>4. Ahead(next)' = {clientList[j] : j \in {j \in DOMAIN clientList : i + 1 <= j}}
        BY <2>2, <4>1, <4>2, <4>3 DEF Ahead, From
      <4>5. ASSUME NEW j \in DOMAIN clientList, i + 1 <= j
            PROVE  msgList'[clientList[j]] = {}
        <5>1. j \in From(n) /\ j # i
          BY <1>1, <2>1, <2>3, <2>7, <2>8, <4>5
        <5>2. clientList[j] # clientList[i]
          BY <2>3, <5>1 DEF ListTypes, IsInjective
        <5>3. msgList[clientList[j]] = {}
          BY <5>1 DEF Ahead
        <5>4. QED
          BY <1>1, <2>1, <5>2, <5>3 DEF ListTypes
      <4>6. AheadUntold'
        BY <4>4, <4>5 DEF AheadUntold
      <4>7. QED
        BY <2>2, <4>1, <4>6 DEF NextIsListed, Listed, Range
    <3>2. CASE ~(i < Len(clientList))
      <4>1. next' = NoClient
        BY <2>1, <3>2
      <4>2. QED
        BY <4>1 DEF NextIsListed, AheadUntold, Ahead, From
    <3>3. QED
      BY <3>1, <3>2
  <2>10. QED
    BY <2>2, <2>4, <2>5, <2>6, <2>9 DEF ListTypes
<1>3. CASE LastCommand(p, n, ok)
  <2>1. /\ next' = NoClient /\ msgList' = msgList /\ pc' = [pc EXCEPT ![p] = "ending"]
        /\ clientList' = clientList \/ UpdateList(p, ok)
    BY <1>3 DEF LastCommand, listVars
  <2>2. clientList' \in Seq(Clients) /\ IsInjective(clientList')
    <3>1. CASE clientList' = clientList
      BY <3>1 DEF ListTypes, IsInjective
    <3>2. CASE clientList' = <<Host(p)>> \o clientList /\ ~Listed(Host(p))
      <4>1. Host(p) \in Clients
        BY DEF Host, Procs
      <4>2. /\ clientList' \in Seq(Clients)
            /\ DOMAIN clientList' = 1 .. Len(clientList) + 1
            /\ clientList'[1] = Host(p)
            /\ \A i \in 2 .. Len(clientList) + 1 : clientList'[i] = clientList[i - 1]
        BY <1>1, <3>2, <4>1 DEF ListTypes
      <4>3. \A i \in DOMAIN clientList : clientList[i] # Host(p)
        BY <3>2 DEF Listed, Range
      <4>4. ASSUME NEW a \in DOMAIN clientList', NEW b \in DOMAIN clientList',
                   clientList'[a] = clientList'[b]
            PROVE  a = b
        <5>1. CASE a # 1 /\ b # 1
          <6>1. a - 1 \in DOMAIN clientList /\ b - 1 \in DOMAIN clientList
            BY <1>1, <4>2, <5>1
          <6>2. a \in 2 .. Len(clientList) + 1 /\ b \in 2 .. Len(clientList) + 1
            BY <1>1, <4>2, <5>1
          <6>3. clientList[a - 1] = clientList[b - 1]
            BY <4>2, <4>4, <6>2
          <6>4. a - 1 = b - 1
            BY <6>1, <6>3 DEF ListTypes, IsInjective
          <6>5. QED
            BY <6>2, <6>4
        <5>2. CASE a = 1 /\ b # 1
          <6>1. b \in 2 .. Len(clientList) + 1 /\ b - 1 \in DOMAIN clientList
            BY <1>1, <4>2, <5>2
          <6>2. QED
            BY <4>2, <4>3, <4>4, <5>2, <6>1
        <5>3. CASE a # 1 /\ b = 1
          <6>1. a \in 2 .. Len(clientList) + 1 /\ a - 1 \in DOMAIN clientList
            BY <1>1, <4>2, <5>3
          <6>2. QED
            BY <4>2, <4>3, <4>4, <5>3, <6>1
        <5>4. QED
          BY <5>1, <5>2, <5>3
      <4>5. QED
        BY <4>2, <4>4 DEF IsInjective
    <3>3. QED
      BY <2>1, <3>1, <3>2 DEF UpdateList
  <2>3. /\ pc' \in [Procs -> Stages]
        /\ \A q \in Procs : pc'[q] \in Holding <=> q = p
    <3>1. /\ pc' \in [Procs -> Stages] /\ pc'[p] = "ending"
          /\ \A q \in Procs \ {p} : pc'[q] = pc[q]
      BY <2>1 DEF ListTypes, Stages
    <3>2. QED
      BY <3>1 DEF Holding
  <2>4. QED
    <3>1. NextIsListed' /\ AheadUntold'
      BY <2>1 DEF NextIsListed, AheadUntold, Ahead, From
    <3>2. QED
      BY <2>1, <2>2, <2>3, <3>1 DEF ListTypes
<1>4. QED
  BY <1>2, <1>3 DEF Continue


\* StartConsistency and ResumeConsistency.
LEMMA WalkList ==
    ASSUME ListInv, NEW p \in Procs, StartConsistency(p) \/ ResumeConsistency(p)
    PROVE  ListInv'
<1>1. ListTypes /\ HolderAgrees /\ NextAgrees /\ ReportedBefore /\ AheadUntold /\ NextIsListed
  BY DEF ListInv
<1>2. /\ holder' = p /\ mode' = mode
      /\ \E n, ok : /\ Continue(p, n, ok)
                    /\ n # NoClient => n \in Clients /\ Listed(n)
                    /\ \A c \in Ahead(n) : msgList[c] = {}
      /\ \A q \in Procs \ {p} : pc[q] \notin Holding
  <2>1. CASE StartConsistency(p)
    <3>1. PICK n : n = IF clientList = <<>> THEN NoClient ELSE Head(clientList)
      OBVIOUS
    <3>2. PICK ok : ok = CacheableBy(p)
      OBVIOUS
    <3>3. Continue(p, n, ok) /\ holder' = p /\ mode' = mode /\ holder = NoProc
      BY <2>1, <3>1, <3>2 DEF StartConsistency
    <3>4. n # NoClient => n \in Clients /\ Listed(n)
      <4>1. CASE clientList = <<>>
        BY <3>1, <4>1
      <4>2. CASE clientList # <<>>
        <5>1. 1 \in DOMAIN clientList /\ n = clientList[1] /\ clientList[1] \in Clients
          BY <1>1, <3>1, <4>2 DEF ListTypes
        <5>2. QED
          BY <5>1 DEF Listed, Range
      <4>3. QED
        BY <4>1, <4>2
    <3>5. Ahead(n) \subseteq Clients
      BY <1>1 DEF Ahead, From, ListTypes
    <3>6. \A c \in Clients : msgList[c] = {}
      BY <1>1, <3>3 DEF ReportedBefore, AllReported
    <3>7. \A q \in Procs : pc[q] \notin Holding
      BY <1>1, <3>3, NoProcNoProc DEF HolderAgrees
    <3>8. QED
      BY <3>3, <3>4, <3>5, <3>6, <3>7
  <2>2. CASE ResumeConsistency(p)
    <3>1. PICK n : n = next
      OBVIOUS
    <3>2. PICK ok : ok = cacheable
      OBVIOUS
    <3>3. Continue(p, n, ok) /\ holder' = holder /\ mode' = mode /\ pc[p] = "resume"
      BY <2>2, <3>1, <3>2 DEF ResumeConsistency
    <3>4. n # NoClient => n \in Clients /\ Listed(n)
      BY <1>1, <3>1 DEF NextIsListed, ListTypes
    <3>5. \A c \in Ahead(n) : msgList[c] = {}
      BY <1>1, <3>1 DEF AheadUntold
    <3>6. holder = p
      BY <1>1, <3>3 DEF HolderAgrees, Holding
    <3>7. \A q \in Procs \ {p} : pc[q] \notin Holding
      BY <1>1, <3>6 DEF HolderAgrees
    <3>8. QED
      BY <3>3, <3>4, <3>5, <3>6, <3>7
  <2>3. QED
    BY <2>1, <2>2
<1>3. /\ clientList' \in Seq(Clients) /\ IsInjective(clientList')
      /\ msgList' \in [Clients -> SUBSET Flags]
      /\ next' \in Clients \cup {NoClient}
      /\ pc' \in [Procs -> Stages]
      /\ \A q \in Procs : pc'[q] \in Holding <=> q = p
      /\ next' # NoClient => pc'[p] \in Walking
      /\ AheadUntold' /\ NextIsListed'
  BY <1>1, <1>2, ContinueList
<1>4. ListTypes'
  BY <1>1, <1>2, <1>3 DEF ListTypes
<1>5. HolderAgrees' /\ NextAgrees' /\ ReportedBefore'
  BY <1>2, <1>3, NoProcNoProc DEF HolderAgrees, NextAgrees, ReportedBefore
<1>6. QED
  BY <1>3, <1>4, <1>5 DEF ListInv

\* The end of EndConsistency.
LEMMA EndList ==
    ASSUME ListInv, NEW p \in Procs, EndConsistency(p)
    PROVE  ListInv'
<1>1. ListTypes /\ HolderAgrees /\ NextAgrees /\ ReportedBefore /\ AheadUntold /\ NextIsListed
  BY DEF ListInv
<1>2. /\ pc[p] \in {"ending", "replies"} /\ AllReported /\ holder' = NoProc
      /\ UNCHANGED <<clientList, msgList, next, mode>>
  BY DEF EndConsistency, listVars
<1>3. \A q \in Procs : pc'[q] = IF q = p THEN IF mode[p] = "stat" THEN "idle"
                                              ELSE IF error THEN "failed" ELSE "replied"
                                ELSE IF pc[q] = "asleep" THEN "awake" ELSE pc[q]
  BY DEF EndConsistency
<1>4. pc' \in [Procs -> Stages]
  <2>1. pc' = [q \in Procs |-> pc'[q]]
    BY DEF EndConsistency
  <2>2. \A q \in Procs : pc'[q] \in Stages
    BY <1>1, <1>3 DEF ListTypes, Stages
  <2>3. QED
    BY <2>1, <2>2
<1>5. holder = p
  BY <1>1, <1>2 DEF HolderAgrees, Holding
<1>6. \A q \in Procs : pc'[q] \notin Holding
  BY <1>1, <1>3, <1>5 DEF HolderAgrees, Holding
<1>7. next = NoClient
  BY <1>1, <1>2, <1>5 DEF HolderAgrees, NextAgrees, Holding, Walking
<1>8. ListTypes'
  BY <1>1, <1>2, <1>4 DEF ListTypes
<1>9. HolderAgrees'
  BY <1>2, <1>6, NoProcNoProc DEF HolderAgrees
<1>10. NextAgrees' /\ NextIsListed' /\ AheadUntold'
  BY <1>2, <1>7 DEF NextAgrees, NextIsListed, AheadUntold, Ahead, From
<1>11. ReportedBefore'
  BY <1>2 DEF ReportedBefore, AllReported
<1>12. QED
  BY <1>8, <1>9, <1>10, <1>11 DEF ListInv

\* The other steps of an open and its call-backs.
LEMMA OpenList ==
    ASSUME ListInv, NEW p \in Procs,
           \/ FsrmtOpen(p) \/ OpenBusy(p) \/ Fsio_FileNameOpen(p) \/ AwaitConsistDone(p)
           \/ AwaitReplies(p) \/ ConsistAccepted(p) \/ OpenReturned(p)
           \/ FsRmtFileHandleInit(p)
    PROVE  ListInv'
<1>1. ListTypes
  BY DEF ListInv
<1>2. UNCHANGED <<holder, next, clientList, msgList>>
  BY DEF FsrmtOpen, OpenBusy, Fsio_FileNameOpen, AwaitConsistDone, AwaitReplies,
         ConsistAccepted, OpenReturned, FsRmtFileHandleInit, listVars, infoVars, opVars
<1>3. mode' \in [Procs -> Modes \cup {"none"}]
  <2>1. CASE FsrmtOpen(p)
    BY <1>1, <2>1 DEF ListTypes, FsrmtOpen
  <2>2. mode' = mode \/ FsrmtOpen(p)
    BY DEF OpenBusy, Fsio_FileNameOpen, AwaitConsistDone, AwaitReplies,
           ConsistAccepted, OpenReturned, FsRmtFileHandleInit
  <2>3. QED
    BY <1>1, <2>1, <2>2 DEF ListTypes
<1>4. \E s \in Stages : /\ pc' = [pc EXCEPT ![p] = s]
                        /\ s \in Holding <=> pc[p] \in Holding
                        /\ s \in Walking <=> pc[p] \in Walking
  <2> USE DEF Stages, Holding, Walking
  <2>1. CASE FsrmtOpen(p)
    BY <2>1 DEF FsrmtOpen
  <2>2. CASE OpenBusy(p)
    BY <2>2 DEF OpenBusy
  <2>3. CASE Fsio_FileNameOpen(p)
    BY <2>3 DEF Fsio_FileNameOpen
  <2>4. CASE AwaitConsistDone(p)
    BY <2>4 DEF AwaitConsistDone
  <2>5. CASE AwaitReplies(p)
    BY <2>5 DEF AwaitReplies
  <2>6. CASE ConsistAccepted(p)
    BY <2>6 DEF ConsistAccepted
  <2>7. CASE OpenReturned(p)
    BY <2>7 DEF OpenReturned
  <2>8. CASE FsRmtFileHandleInit(p)
    BY <2>8 DEF FsRmtFileHandleInit
  <2>9. QED
    BY <2>1, <2>2, <2>3, <2>4, <2>5, <2>6, <2>7, <2>8
<1>5. /\ pc' \in [Procs -> Stages]
      /\ \A q \in Procs : /\ pc'[q] \in Holding <=> pc[q] \in Holding
                          /\ pc'[q] \in Walking <=> pc[q] \in Walking
  BY <1>1, <1>4, StageKept
<1>6. Shortens
  BY <1>2 DEF Shortens
<1>7. /\ msgList' \in [Clients -> SUBSET Flags]
      /\ \A c \in Clients : msgList'[c] \in {msgList[c], {}}
  BY <1>1, <1>2 DEF ListTypes
<1>8. QED
  BY <1>2, <1>3, <1>5, <1>6, <1>7, ListKeeps

\* A client is forgotten.
LEMMA KillList ==
    ASSUME ListInv, NEW p, (p \in Procs /\ (OpenFailed(p) \/ ConsistStale(p))) \/ ConsistTimeout
    PROVE  ListInv'
<1>1. ListTypes
  BY DEF ListInv
<1>2. UNCHANGED <<holder, next, mode>> /\ \E S : Kill(S)
  BY DEF OpenFailed, ConsistStale, ConsistTimeout, opVars, procVars
<1>3. \/ pc' = pc
      \/ p \in Procs /\ \E s \in Stages : /\ pc' = [pc EXCEPT ![p] = s]
                                          /\ s \in Holding <=> pc[p] \in Holding
                                          /\ s \in Walking <=> pc[p] \in Walking
  BY DEF OpenFailed, ConsistStale, ConsistTimeout, procVars, Stages, Holding, Walking
<1>4. /\ pc' \in [Procs -> Stages]
      /\ \A q \in Procs : /\ pc'[q] \in Holding <=> pc[q] \in Holding
                          /\ pc'[q] \in Walking <=> pc[q] \in Walking
  <2>1. CASE pc' = pc
    BY <1>1, <2>1 DEF ListTypes
  <2>2. QED
    BY <1>1, <1>3, <2>1, StageKept
<1>5. /\ Shortens
      /\ msgList' \in [Clients -> SUBSET Flags]
      /\ \A c \in Clients : msgList'[c] \in {msgList[c], {}}
  BY <1>1, <1>2, KillShortens
<1>6. QED
  BY <1>1, <1>2, <1>4, <1>5, ListKeeps DEF ListTypes

\* A report comes in; only an entry that the loop has passed is removed.
LEMMA ReportList ==
    ASSUME ListInv, NEW r, ReportUnknown(r) \/ ReportError(r) \/ ProcessConsistReply(r)
    PROVE  ListInv'
<1>1. ListTypes /\ AheadUntold /\ NextIsListed
  BY DEF ListInv
<1>2. UNCHANGED <<holder, next, pc, mode>>
  BY DEF ReportUnknown, ReportError, ProcessConsistReply, opVars, procVars
<1>3. /\ msgList' \in [Clients -> SUBSET Flags]
      /\ \A c \in Clients : msgList'[c] \in {msgList[c], {}}
  BY <1>1 DEF ListTypes, ReportUnknown, ReportError, ProcessConsistReply, infoVars
<1>4. Shortens
  <2>1. CASE clientList' = clientList
    BY <2>1 DEF Shortens
  <2>2. CASE ProcessConsistReply(r) /\ Listed(r.from) /\ Unlist({r.from})
    <3>1. msgList[r.from] # {} /\ RemoveClients({r.from}) /\ r.from \in Clients
      BY <1>1, <2>2 DEF ProcessConsistReply, Unlist, Listed, Range, ListTypes
    <3>2. next # r.from
      <4>1. PICK n : n = next
        OBVIOUS
      <4>2. CASE n \in Clients
        <5>1. Listed(n)
          BY <1>1, <4>1, <4>2, ConsistAssumption DEF NextIsListed
        <5>2. n \in Ahead(n)
          BY <1>1, <4>2, <5>1, AheadOf
        <5>3. msgList[n] = {}
          BY <1>1, <4>1, <5>2 DEF AheadUntold
        <5>4. QED
          BY <3>1, <4>1, <5>3
      <4>3. CASE n = NoClient
        BY <3>1, <4>1, <4>3, ConsistAssumption
      <4>4. QED
        BY <1>1, <4>1, <4>2, <4>3 DEF ListTypes
    <3>3. QED
      BY <3>1, <3>2 DEF Shortens
  <2>3. QED
    BY <2>1, <2>2 DEF ReportUnknown, ReportError, ProcessConsistReply, listVars
<1>5. QED
  BY <1>1, <1>2, <1>3, <1>4, ListKeeps DEF ListTypes

\* A close, and the scavenger on the server.
LEMMA CloseList ==
    ASSUME ListInv, NEW p, (p \in Procs /\ FsrmtFileClose(p)) \/ Fsconsist_NumClients
    PROVE  ListInv'
<1>1. ListTypes /\ HolderAgrees /\ NextAgrees
  BY DEF ListInv
<1>2. UNCHANGED <<holder, next, mode, msgList>>
  BY DEF FsrmtFileClose, Fsconsist_NumClients, opVars, procVars, infoVars
<1>3. Shortens
  <2>1. CASE clientList' = clientList
    BY <2>1 DEF Shortens
  <2>2. CASE ~Locked(Host(p)) /\ Unlist({Host(p)})
    <3>1. next \notin {Host(p)} /\ RemoveClients({Host(p)})
      BY <2>2 DEF Locked, Unlist
    <3>2. QED
      BY <3>1 DEF Shortens
  <2>3. CASE Fsconsist_NumClients
    <3>1. PICK S : S = {c \in Range(clientList) : cltUse[c]["ref"] = 0 /\ c # lastWriter}
      OBVIOUS
    <3>2. RemoveClients(S) /\ holder = NoProc
      BY <2>3, <3>1 DEF Fsconsist_NumClients, Unlist
    <3>3. next = NoClient
      BY <1>1, <3>2, NoProcNoProc DEF HolderAgrees, NextAgrees, Holding, Walking
    <3>4. S \subseteq Clients
      BY <1>1, <3>1 DEF Range, ListTypes
    <3>5. next \notin S
      BY <3>3, <3>4, ConsistAssumption
    <3>6. QED
      BY <3>2, <3>5 DEF Shortens
  <2>4. FsrmtFileClose(p) => \/ clientList' = clientList
                             \/ ~Locked(Host(p)) /\ Unlist({Host(p)})
    BY DEF FsrmtFileClose, Fsio_FileClose, Fsconsist_Close, IOClientClose, listVars
  <2>5. QED
    BY <2>1, <2>2, <2>3, <2>4
<1>4. /\ pc' \in [Procs -> Stages]
      /\ \A q \in Procs : /\ pc'[q] \in Holding <=> pc[q] \in Holding
                          /\ pc'[q] \in Walking <=> pc[q] \in Walking
  BY <1>1 DEF FsrmtFileClose, Fsconsist_NumClients, procVars, ListTypes, Stages, Holding, Walking
<1>5. QED
  BY <1>1, <1>2, <1>3, <1>4, ListKeeps DEF ListTypes

\* The steps that have nothing to do with the list.
LEMMA OtherList ==
    ASSUME ListInv, UNCHANGED <<pc, mode, clientList, msgList, next, holder>>
    PROVE  ListInv'
<1>1. Shortens
  BY DEF Shortens
<1>2. QED
  BY <1>1, ListKeeps DEF ListInv, ListTypes

LEMMA InitList == Init => ListInv
<1> SUFFICES ASSUME Init PROVE ListInv
  OBVIOUS
<1>1. ListTypes
  BY DEF Init, ListTypes, Stages, IsInjective
<1>2. HolderAgrees
  BY NoProcNoProc DEF Init, HolderAgrees, Holding
<1>3. QED
  BY <1>1, <1>2 DEF Init, ListInv, NextAgrees, ReportedBefore, AllReported, AheadUntold,
                    Ahead, From, NextIsListed

LEMMA NextList == ListInv /\ [Next]_vars => ListInv'
<1> SUFFICES ASSUME ListInv, [Next]_vars PROVE ListInv'
  OBVIOUS
<1>1. ASSUME NEW p \in Procs, Finish(p) PROVE ListInv'
  BY <1>1, OpenList, WalkList, EndList DEF Finish
<1>2. ASSUME NEW p \in Procs, Server(p) PROVE ListInv'
  BY <1>1, <1>2, OpenList, WalkList, KillList DEF Server
<1>3. ASSUME NEW p \in Procs, User(p) PROVE ListInv'
  <2>1. CASE FsrmtOpen(p)
    BY <2>1, OpenList
  <2>2. CASE FsrmtFileClose(p)
    BY <2>2, CloseList
  <2>3. CASE Read(p) \/ Write(p)
    BY <2>3, OtherList DEF Read, Write, procVars, listVars, infoVars, opVars
  <2>4. QED
    BY <1>3, <2>1, <2>2, <2>3 DEF User
<1>4. CASE Callback
  <2>1. ASSUME NEW m \in work,
               ProcessConsist(m) \/ ProcessConsistFails(m) \/ ProcessConsistNoHandle(m)
        PROVE  ListInv'
    BY <2>1, OtherList DEF ProcessConsist, ProcessConsistFails, ProcessConsistNoHandle,
       procVars, listVars, infoVars, opVars
  <2>2. QED
    BY <1>4, <2>1, ReportList DEF Callback
<1>5. CASE ConsistTimeoutIntr
  BY <1>5, OtherList DEF ConsistTimeoutIntr, procVars, listVars, infoVars
<1>6. ASSUME NEW c \in Clients, Client(c) PROVE ListInv'
  BY <1>6, OtherList DEF Client, DelayedWrite, Evict, FsrmtFileScavenge, procVars,
     listVars, infoVars, opVars
<1>7. CASE ConsistTimeout \/ Fsconsist_NumClients
  BY <1>7, KillList, CloseList
<1>8. CASE UNCHANGED vars
  BY <1>8, OtherList DEF vars, procVars, listVars, infoVars, opVars
<1>9. QED
  BY <1>1, <1>2, <1>3, <1>4, <1>5, <1>6, <1>7, <1>8 DEF Next

\* The entry that a loop over the list of clients will look at next is still in the
\* list when ClientCommand comes back with the monitor (StartConsistency,
\* Fsconsist_GetClientAttrs): closes, reports, timeouts, clients that are killed
\* and the scavenger only remove other entries.
THEOREM NextNeverDangles == Spec => []NextIsListed
<1>1. Spec => []ListInv
  BY InitList, NextList, PTL DEF Spec
<1>2. ListInv => NextIsListed
  BY DEF ListInv
<1>3. QED
  BY <1>1, <1>2, PTL

-----------------------------------------------------------------------------
(***************************************************************************)
(* Reads see the latest write.                                             *)
(***************************************************************************)

\* One process per host, which opens the file for reading only when the host has no
\* dirty blocks of it; one open at a time; no process switch between the monitors;
\* no failures.
Sharing ==
    /\ \E s : Slots = {s}
    /\ CleanReaders /\ ~Overlap /\ ~Preempt /\ ~DiskFull /\ MaxTimeouts = 0

\* How far an open is: under way; waiting for reports, and in the list of clients;
\* granted by the server.
Opener(p) == mode[p] # "stat" /\ pc[p] \notin {"idle", "open"}
Serving(p) == mode[p] # "stat" /\ pc[p] \in Holding
Joined(p) == mode[p] # "stat" /\ pc[p] \in {"ending", "replies"}
Granted(p) ==
    mode[p] # "stat" /\ (pc[p] = "returned" \/ (pc[p] = "replied" /\ opened[p].ok))
IsOpen(p) == pc[p] = "open"
Uses(p) == Joined(p) \/ Granted(p) \/ IsOpen(p)

\* The host of p may cache the file once p has it open.
CanCache(p) == IF IsOpen(p) THEN handle[Host(p)].cacheable ELSE opened[p].cacheable
CachedWriter(p) == IsOpen(p) /\ mode[p] = "write" /\ handle[Host(p)].cacheable
Dirty(c) == block[c] = "dirty"

Handles == [valid : BOOLEAN, version : Int, stamp : Int, cacheable : BOOLEAN]

ShareTypes ==
    /\ opened \in [Procs -> [ok : BOOLEAN, version : Int, stamp : Int, cacheable : BOOLEAN]]
    /\ version \in Int /\ stamp \in Int
    /\ cltUse \in [Clients -> [Kinds -> Int]]
    /\ cltCached \in [Clients -> BOOLEAN]
    /\ cltStamp \in [Clients -> Int]
    /\ cacheable \in BOOLEAN /\ diskFresh \in BOOLEAN
    /\ handle \in [Clients -> Handles]
    /\ block \in [Clients -> {"none", "clean", "dirty"}]
    /\ fresh \in [Clients -> BOOLEAN]
    /\ \A m \in work : m.to \in Clients
    /\ \A r \in reports : r.from \in Clients

\* One open at a time, and nothing fails.
OpenersAgree ==
    /\ \A p, q \in Procs : Opener(p) /\ Opener(q) => p = q
    /\ \A p \in Procs : /\ pc[p] # "failed"
                        /\ mode[p] = "stat" => pc[p] \notin {"replied", "returned", "open"}
    /\ ~error /\ timeouts = 0
    /\ \A r \in reports : r.ok

\* The use counts of a client are those of its process.
CountsAgree ==
    \A p \in Procs :
        /\ Uses(p) => Listed(Host(p))
        /\ cltUse[Host(p)] = IF Uses(p) THEN UseOf(mode[p]) ELSE NoUse

\* The time stamps of a client's handle and its entry agree, except while an open
\* is on its way to the client.
StampsAgree ==
    /\ stamp >= 0
    /\ \A c \in Clients : handle[c].stamp <= stamp /\ cltStamp[c] <= stamp
    /\ \A p \in Procs :
          /\ handle[Host(p)].valid /\ Listed(Host(p)) /\ ~Joined(p) /\ ~Granted(p)
                => handle[Host(p)].stamp = cltStamp[Host(p)]
          /\ Joined(p) \/ Granted(p) => cltStamp[Host(p)] = stamp
          /\ Granted(p) => opened[p].stamp = stamp /\ opened[p].version = version
          /\ IsOpen(p) => handle[Host(p)].valid

\* A client's message is at one place: in the call, with the client or in a report.
Calling == \E p \in Procs : pc[p] = "calling"
MessagesAgree ==
    /\ Calling => /\ call.to \in Clients
                  /\ call.flags = msgList[call.to] /\ call.flags # {}
                  /\ Listed(call.to) => call.stamp = cltStamp[call.to]
                  /\ \A m \in work : m.to # call.to
                  /\ \A r \in reports : r.from # call.to
    /\ \A m \in work : m.flags = msgList[m.to] /\ m.flags # {}
    /\ \A r \in reports : msgList[r.from] # {}
    /\ \A m \in work : \A r \in reports : m.to # r.from
    /\ \A m, n \in work : m.to = n.to => m = n
    /\ \A r, s \in reports : r.from = s.from => r = s

\* What a client can have been told, and by whom.
Commands ==
    IF mode[holder] = "stat" THEN {{"attrs"}}
    ELSE IF cacheable THEN {{"writeBack"}, {"writeBack", "invalidate"}}
                      ELSE {{"invalidate"}, {"writeBack", "invalidate"}}
ToldByOther ==
    \A c \in Clients : msgList[c] # {} =>
        holder \in Procs /\ Host(holder) # c /\ msgList[c] \in Commands

\* A client that is told to invalidate alone has nothing to write back; one that is
\* told one thing alone does not write to the file.
ReadersClean ==
    /\ \A c \in Clients : msgList[c] = {"invalidate"} => ~Dirty(c)
    /\ \A p \in Procs :
          /\ msgList[Host(p)] \in {{"invalidate"}, {"writeBack"}} => ~CachedWriter(p)
          /\ pc[p] # "idle" /\ mode[p] \notin {"write", "stat"} => ~Dirty(Host(p))

\* A client that reports has done what it was told.
ReportsTrue ==
    \A r \in reports :
        /\ "writeBack" \in msgList[r.from] => ~Dirty(r.from)
        /\ "invalidate" \in msgList[r.from] => ~handle[r.from].cacheable

\* The client c must be told something by the open of p.
Due(p, c) ==
    /\ c # Host(p) /\ Listed(c) /\ cltCached[c]
    /\ IF cacheable THEN lastWriter = c ELSE cltUse[c]["ref"] > 0

\* The loop leaves nobody out: who must be told something has not reported yet, or
\* is ahead of the loop.  Whoever may have to write back knows it from the start
\* when the file becomes uncacheable.
LoopAgrees ==
    \A p \in Procs : Serving(p) =>
        /\ cacheable => \A c \in Clients : ~Conflict(p, c)
        /\ ~cacheable => ~Dirty(Host(p))
        /\ \A c \in Clients : Due(p, c) =>
              msgList[c] # {} \/ (pc[p] \in Walking /\ c \in Ahead(next))
        /\ ~cacheable => \A q \in Procs \ {p} :
              Dirty(Host(q)) \/ CachedWriter(q) => "writeBack" \in msgList[Host(q)]

\* The server knows who caches the file.
CachingKnown ==
    /\ \A c \in Clients : block[c] # "none" => handle[c].valid /\ handle[c].cacheable
    /\ \A p \in Procs :
          /\ IsOpen(p) \/ Granted(p) => (CanCache(p) => cltCached[Host(p)])
          /\ Joined(p) => (cacheable => cltCached[Host(p)])

\* Dirty blocks are the latest data and the server knows who has them.
DirtyLatest ==
    /\ \A c \in Clients : Dirty(c) => fresh[c] /\ ~diskFresh
    /\ \A c, d \in Clients : Dirty(c) /\ Dirty(d) => c = d
    /\ diskFresh \/ \E c \in Clients : Dirty(c)
DirtyListed ==
    \A c \in Clients : Dirty(c) =>
        Listed(c) /\ ((lastWriter = c /\ cltCached[c]) \/ "writeBack" \in msgList[c])
WriterKnown ==
    \A p \in Procs : mode[p] = "write" =>
        /\ (IsOpen(p) \/ Granted(p)) /\ CanCache(p) => lastWriter = Host(p)
        /\ Joined(p) /\ cacheable => lastWriter = Host(p)

\* A writer that caches is alone.
Alone ==
    \A p, q \in Procs : p # q /\ (IsOpen(q) \/ Granted(q)) =>
        /\ ~Dirty(Host(p))
        /\ (IsOpen(p) \/ Granted(p)) /\ mode[p] = "write" => ~CanCache(p) /\ ~CanCache(q)
GrantedClean == \A p \in Procs : Granted(p) /\ ~opened[p].cacheable => ~Dirty(Host(p))

\* The version of the file without that of an open for writing that is under way.
Counted(p) ==
    mode[p] = "write" /\ (pc[p] \in {"named", "asleep", "awake"} \cup Holding \/ Granted(p))
Base == IF \E p \in Procs : Counted(p) THEN version - 1 ELSE version

\* Blocks that are not the latest data have an older version.
VersionsAgree ==
    /\ Base >= 0
    /\ \A c \in Clients :
          /\ handle[c].version <= Base
          /\ block[c] # "none" /\ ~fresh[c] => handle[c].version < Base
          /\ Dirty(c) => handle[c].version = Base
    /\ \A p \in Procs : IsOpen(p) /\ mode[p] = "write" =>
          /\ handle[Host(p)].cacheable => handle[Host(p)].version = Base
          /\ \A c \in Clients \ {Host(p)} : block[c] # "none" => handle[c].version < Base

ShareInv ==
    /\ ListInv /\ ShareTypes /\ OpenersAgree /\ CountsAgree /\ StampsAgree
    /\ MessagesAgree /\ ToldByOther /\ ReadersClean /\ ReportsTrue /\ LoopAgrees
    /\ CachingKnown /\ DirtyLatest /\ DirtyListed /\ WriterKnown /\ Alone
    /\ GrantedClean /\ VersionsAgree /\ FreshReads

-----------------------------------------------------------------------------
LEMMA HostFacts ==
    ASSUME Sharing
    PROVE  /\ \A p \in Procs : Host(p) \in Clients
           /\ \A p, q \in Procs : Host(p) = Host(q) => p = q
           /\ \A c \in Clients : \E p \in Procs : Host(p) = c
<1>1. PICK s : Slots = {s}
  BY DEF Sharing
<1>2. \A p \in Procs : p = <<p[1], s>> /\ p[1] \in Clients
  BY <1>1 DEF Procs
<1>3. ASSUME NEW c \in Clients PROVE \E p \in Procs : Host(p) = c
  <2>1. <<c, s>> \in Procs /\ Host(<<c, s>>) = c
    BY <1>1 DEF Procs, Host
  <2>2. QED
    BY <2>1
<1>4. ASSUME NEW p \in Procs, NEW q \in Procs, Host(p) = Host(q) PROVE p = q
  BY <1>2, <1>4 DEF Host
<1>5. QED
  BY <1>2, <1>3, <1>4 DEF Host

LEMMA UseFacts ==
    ASSUME CountsAgree, NEW p \in Procs
    PROVE  /\ cltUse[Host(p)]["ref"] > 0 <=> Uses(p)
           /\ cltUse[Host(p)]["ref"] = 0 <=> ~Uses(p)
           /\ cltUse[Host(p)]["write"] > 0 <=> Uses(p) /\ mode[p] = "write"
<1>1. \A m : /\ UseOf(m)["ref"] = 1
             /\ UseOf(m)["write"] = IF m = "write" THEN 1 ELSE 0
  BY DEF UseOf, Kinds
<1>2. NoUse["ref"] = 0 /\ NoUse["write"] = 0
  BY DEF NoUse, Kinds
<1>3. cltUse[Host(p)] = IF Uses(p) THEN UseOf(mode[p]) ELSE NoUse
  BY DEF CountsAgree
<1>4. CASE Uses(p)
  BY <1>1, <1>3, <1>4
<1>5. CASE ~Uses(p)
  BY <1>2, <1>3, <1>5
<1>6. QED
  BY <1>4, <1>5

\* What an open that goes on leaves as it is.
Phases ==
    /\ \A q \in Procs : /\ Serving(q)' <=> Serving(q)
                        /\ Joined(q)' <=> Joined(q)
                        /\ Granted(q)' <=> Granted(q)
                        /\ IsOpen(q)' <=> IsOpen(q)
                        /\ Serving(q) \/ Uses(q) =>
                              mode'[q] = mode[q] /\ opened'[q] = opened[q]
                        /\ Serving(q) /\ pc[q] \in Walking => pc'[q] \in Walking
    /\ holder \in Procs => mode'[holder] = mode[holder]

LEMMA PhasesShare ==
    ASSUME Sharing, ShareInv, ListInv', ShareTypes', OpenersAgree', MessagesAgree', Phases,
           UNCHANGED <<stamp, listVars, lastWriter, msgList, holder, cacheable, next, cltVars,
                       reports>>,
           Base' = Base, \A q \in Procs : Granted(q) => version' = version,
           \A q \in Procs : (pc[q] # "idle" /\ mode[q] \notin {"write", "stat"} => ~Dirty(Host(q)))'
    PROVE  ShareInv'
<1> USE DEF listVars, cltVars
<1>1. \A q \in Procs : /\ Uses(q)' <=> Uses(q)
                       /\ IsOpen(q) \/ Granted(q) => CanCache(q)' = CanCache(q)
                       /\ CachedWriter(q)' <=> CachedWriter(q)
  BY DEF Phases, Uses, CanCache, CachedWriter, IsOpen
<1>2. /\ \A c : Listed(c)' <=> Listed(c)
      /\ \A c : Dirty(c)' <=> Dirty(c)
      /\ Ahead(next)' = Ahead(next)
  BY DEF Listed, Dirty, Ahead, From
<1>3. CountsAgree'
  BY <1>1, <1>2 DEF ShareInv, CountsAgree, Phases
<1>4. StampsAgree'
  BY <1>2 DEF ShareInv, StampsAgree, Phases, Uses
<1>5. ToldByOther'
  BY DEF ShareInv, ToldByOther, Commands, Phases
<1>6. ReadersClean'
  BY <1>1, <1>2 DEF ShareInv, ReadersClean
<1>7. ReportsTrue'
  BY <1>2 DEF ShareInv, ReportsTrue
<1>8. LoopAgrees'
  <2> SUFFICES ASSUME NEW p \in Procs, Serving(p)
               PROVE  /\ cacheable => \A c \in Clients : ~Conflict(p, c)'
                      /\ ~cacheable => ~Dirty(Host(p))
                      /\ \A c \in Clients : Due(p, c)' =>
                            msgList[c] # {} \/ (pc'[p] \in Walking /\ c \in Ahead(next))
                      /\ ~cacheable => \A q \in Procs \ {p} :
                            Dirty(Host(q)) \/ CachedWriter(q) => "writeBack" \in msgList[Host(q)]
    BY <1>1, <1>2 DEF LoopAgrees, Phases
  <2>1. /\ mode'[p] = mode[p]
        /\ \A c : Due(p, c)' <=> Due(p, c)
    BY <1>2 DEF Phases, Due
  <2>2. \A c : Conflict(p, c)' <=> Conflict(p, c)
    BY <2>1 DEF Conflict
  <2>3. QED
    BY <2>1, <2>2 DEF ShareInv, LoopAgrees, Phases
<1>9. CachingKnown'
  BY <1>1 DEF ShareInv, CachingKnown, Phases
<1>10. DirtyLatest' /\ DirtyListed'
  BY <1>2 DEF ShareInv, DirtyLatest, DirtyListed
<1>11. WriterKnown'
  BY <1>1 DEF ShareInv, WriterKnown, Phases, Uses
<1>12. Alone'
  BY <1>1, <1>2 DEF ShareInv, Alone, Phases, Uses
<1>13. GrantedClean'
  BY <1>2 DEF ShareInv, GrantedClean, Phases, Uses
<1>14. VersionsAgree'
  BY <1>2 DEF ShareInv, VersionsAgree, Phases, Uses
<1>15. FreshReads'
  BY DEF ShareInv, FreshReads, ReadsFresh, Phases, IsOpen
<1>16. QED
  BY <1>3, <1>4, <1>5, <1>6, <1>7, <1>8, <1>9, <1>10, <1>11, <1>12, <1>13, <1>14, <1>15
     DEF ShareInv


LEMMA BaseKept ==
    ASSUME \A q \in Procs : Counted(q)' <=> Counted(q), version' = version
    PROVE  Base' = Base
<1>1. (\E q \in Procs : Counted(q)') <=> (\E q \in Procs : Counted(q))
  OBVIOUS
<1>2. QED
  BY <1>1 DEF Base

\* Messages are as they were.
LEMMA MessagesKept ==
    ASSUME MessagesAgree, UNCHANGED <<call, work, reports, msgList, clientList, cltStamp>>,
           Calling' <=> Calling
    PROVE  MessagesAgree'
<1>1. \A c : Listed(c)' <=> Listed(c)
  BY DEF Listed
<1>2. QED
  BY <1>1 DEF MessagesAgree

\* An open goes on: it is sent, refused, named, put to sleep or answered.
LEMMA StageShare ==
    ASSUME Sharing, ShareInv, ListInv', NEW p \in Procs,
           \/ FsrmtOpen(p) \/ OpenBusy(p) \/ Fsio_FileNameOpen(p) \/ AwaitConsistDone(p)
           \/ AwaitReplies(p) \/ OpenReturned(p)
    PROVE  ShareInv'
<1> USE DEF procVars, fileVars, listVars, infoVars, opVars, cltVars, msgVars
<1>1. ListInv /\ ListTypes /\ ShareTypes /\ OpenersAgree /\ MessagesAgree /\ ReadersClean /\ HolderAgrees
  BY DEF ShareInv, ListInv
<1>2. /\ UNCHANGED <<stamp, listVars, lastWriter, msgList, holder, cacheable, next, cltVars,
                     reports, call, work, error, timeouts>>
      /\ \A q \in Procs \ {p} : pc'[q] = pc[q] /\ mode'[q] = mode[q] /\ opened'[q] = opened[q]
  BY <1>1 DEF FsrmtOpen, OpenBusy, Fsio_FileNameOpen, AwaitConsistDone, AwaitReplies,
              OpenReturned, ListTypes, ShareTypes
<1>3. \/ /\ pc[p] = "idle" /\ pc'[p] = "sent" /\ opened' = opened /\ version' = version
         /\ mode'[p] # "stat" => ~Opening
         /\ mode'[p] \notin {"write", "stat"} => ~Dirty(Host(p))
      \/ /\ pc[p] = "sent" /\ pc'[p] = "replied" /\ ~opened'[p].ok /\ version' = version
         /\ mode' = mode /\ mode[p] # "stat"
      \/ /\ pc[p] = "sent" /\ pc'[p] = "named" /\ opened' = opened /\ mode' = mode
         /\ version' = IF mode[p] = "write" THEN version + 1 ELSE version
      \/ /\ pc[p] \in {"named", "awake"} /\ pc'[p] = "asleep" /\ opened' = opened
         /\ mode' = mode /\ version' = version
      \/ /\ pc[p] = "ending" /\ pc'[p] = "replies" /\ opened' = opened
         /\ mode' = mode /\ version' = version
      \/ /\ pc[p] = "replied" /\ opened' = opened /\ mode' = mode /\ version' = version
         /\ pc'[p] = IF opened[p].ok THEN "returned" ELSE "idle"
  <2>1. CASE FsrmtOpen(p)
    <3>1. pc[p] = "idle" /\ pc'[p] = "sent" /\ opened' = opened /\ version' = version
      BY <1>1, <2>1 DEF FsrmtOpen, ListTypes
    <3>2. /\ mode'[p] # "stat" => ~Opening
          /\ mode'[p] \notin {"write", "stat"} => ~Dirty(Host(p))
      BY <1>1, <2>1 DEF FsrmtOpen, ListTypes, Sharing, Dirty
    <3>3. QED
      BY <3>1, <3>2
  <2>2. CASE OpenBusy(p)
    BY <1>1, <2>2 DEF OpenBusy, ListTypes, ShareTypes, NotOpened, FileBusy
  <2>3. CASE Fsio_FileNameOpen(p)
    BY <1>1, <2>3 DEF Fsio_FileNameOpen, ListTypes
  <2>4. CASE AwaitConsistDone(p)
    BY <1>1, <2>4 DEF AwaitConsistDone, ListTypes
  <2>5. CASE AwaitReplies(p)
    BY <1>1, <2>5 DEF AwaitReplies, ListTypes
  <2>6. CASE OpenReturned(p)
    BY <1>1, <2>6 DEF OpenReturned, ListTypes
  <2>7. QED
    BY <2>1, <2>2, <2>3, <2>4, <2>5, <2>6
<1>4. ShareTypes'
  <2>1. opened' \in [Procs -> [ok : BOOLEAN, version : Int, stamp : Int, cacheable : BOOLEAN]]
    <3>1. opened' = opened \/ opened' = [opened EXCEPT ![p] = NotOpened]
      BY DEF FsrmtOpen, OpenBusy, Fsio_FileNameOpen, AwaitConsistDone, AwaitReplies,
             OpenReturned
    <3>2. NotOpened \in [ok : BOOLEAN, version : Int, stamp : Int, cacheable : BOOLEAN]
      BY DEF NotOpened
    <3>3. QED
      BY <1>1, <3>1, <3>2 DEF ShareTypes
  <2>2. version' \in Int
    BY <1>1, <1>3 DEF ShareTypes
  <2>3. QED
    BY <1>1, <1>2, <2>1, <2>2 DEF ShareTypes
<1>5. \A q \in Procs \ {p} : /\ Opener(q)' <=> Opener(q)
                             /\ Serving(q)' <=> Serving(q)
                             /\ Joined(q)' <=> Joined(q)
                             /\ Granted(q)' <=> Granted(q)
                             /\ IsOpen(q)' <=> IsOpen(q)
                             /\ Counted(q)' <=> Counted(q)
  BY <1>2 DEF Opener, Serving, Joined, Granted, IsOpen, Counted
<1>6. /\ Serving(p)' <=> Serving(p)
      /\ Joined(p)' <=> Joined(p)
      /\ Granted(p)' <=> Granted(p)
      /\ IsOpen(p)' <=> IsOpen(p)
      /\ Serving(p) \/ Uses(p) => mode'[p] = mode[p] /\ opened'[p] = opened[p]
      /\ Serving(p) /\ pc[p] \in Walking => pc'[p] \in Walking
  BY <1>3 DEF Serving, Joined, Granted, IsOpen, Uses, Holding, Walking
<1>7. Phases
  <2>1. holder \in Procs => mode'[holder] = mode[holder]
    BY <1>1, <1>2, <1>3 DEF HolderAgrees, Holding
  <2>2. QED
    BY <1>2, <1>5, <1>6, <2>1 DEF Phases
<1>8. Calling' <=> Calling
  BY <1>2, <1>3 DEF Calling
<1>9. MessagesAgree'
  BY <1>1, <1>2, <1>8, MessagesKept
<1>10. OpenersAgree'
  <2>1. Opener(p)' => Opener(p) \/ ~Opening
    BY <1>3 DEF Opener
  <2>2. ~Opening => \A q \in Procs : ~Opener(q)
    BY DEF Opening, Opener
  <2>3. \A q, s \in Procs : Opener(q)' /\ Opener(s)' => q = s
    BY <1>1, <1>5, <2>1, <2>2 DEF OpenersAgree
  <2>4. \A q \in Procs : /\ pc'[q] # "failed"
                         /\ mode'[q] = "stat" => pc'[q] \notin {"replied", "returned", "open"}
    BY <1>1, <1>2, <1>3 DEF OpenersAgree
  <2>5. QED
    BY <1>1, <1>2, <2>3, <2>4 DEF OpenersAgree
<1>11. Base' = Base
  <2>1. CASE pc[p] = "sent" /\ pc'[p] = "named" /\ mode[p] = "write"
    <3>1. version' = version + 1 /\ mode' = mode
      BY <1>3, <2>1
    <3>2. \A q \in Procs : ~Counted(q)
      <4>1. Opener(p) /\ ~Counted(p)
        BY <2>1 DEF Opener, Counted, Granted, Holding
      <4>2. \A q \in Procs : Counted(q) => Opener(q)
        BY DEF Counted, Opener, Granted, Holding
      <4>3. QED
        BY <1>1, <4>1, <4>2 DEF OpenersAgree
    <3>3. Counted(p)'
      BY <2>1, <3>1 DEF Counted
    <3>4. Base = version
      BY <3>2 DEF Base
    <3>5. Base' = version' - 1
      BY <3>3 DEF Base
    <3>6. QED
      BY <1>1, <3>1, <3>4, <3>5 DEF ShareTypes
  <2>2. CASE ~(pc[p] = "sent" /\ pc'[p] = "named" /\ mode[p] = "write")
    <3>1. version' = version
      BY <1>3, <2>2
    <3>2. Counted(p)' <=> Counted(p)
      BY <1>3, <1>6, <2>2 DEF Counted, Granted, Holding
    <3>3. QED
      BY <1>5, <3>1, <3>2, BaseKept
  <2>3. QED
    BY <2>1, <2>2
<1>12. \A q \in Procs : Granted(q) => version' = version
  <2>1. version' # version => Opener(p) /\ pc[p] = "sent"
    BY <1>3 DEF Opener
  <2>2. \A q \in Procs : Granted(q) => Opener(q) /\ pc[q] # "sent"
    BY DEF Granted, Opener
  <2>3. QED
    BY <1>1, <2>1, <2>2 DEF OpenersAgree
<1>13. \A q \in Procs : (pc[q] # "idle" /\ mode[q] \notin {"write", "stat"} => ~Dirty(Host(q)))'
  <2>1. \A c : Dirty(c)' <=> Dirty(c)
    BY <1>2 DEF Dirty
  <2>2. QED
    BY <1>1, <1>2, <1>3, <2>1 DEF ReadersClean
<1>14. QED
  BY <1>2, <1>4, <1>7, <1>9, <1>10, <1>11, <1>12, <1>13, PhasesShare


\* At most one process is in ClientCommand.
LEMMA OneCaller ==
    ASSUME HolderAgrees, NEW p \in Procs, pc[p] \in Holding
    PROVE  holder = p /\ \A q \in Procs : pc[q] \in Holding => q = p
BY DEF HolderAgrees

\* Fsconsist_RpcConsist accepts the message, or ProcessConsist finds no handle.
LEMMA AcceptShare ==
    ASSUME Sharing, ShareInv, ListInv',
           \/ \E p \in Procs : ConsistAccepted(p)
           \/ \E m \in work : ProcessConsistNoHandle(m)
    PROVE  ShareInv'
<1> USE DEF procVars, fileVars, listVars, infoVars, opVars, cltVars, msgVars
<1>1. ListInv /\ ListTypes /\ ShareTypes /\ OpenersAgree /\ MessagesAgree /\ ReadersClean /\ HolderAgrees
  BY DEF ShareInv, ListInv
<1>2. /\ UNCHANGED <<stamp, listVars, lastWriter, msgList, holder, cacheable, next, cltVars,
                     reports, call, error, timeouts, mode, opened, version>>
      /\ \A q \in Procs : \/ pc'[q] = pc[q]
                          \/ pc[q] = "calling" /\ pc'[q] = "resume" /\ work' = work \cup {call}
      /\ \/ work' \subseteq work /\ pc' = pc
         \/ work' = work \cup {call} /\ \E q \in Procs : pc[q] = "calling" /\ pc'[q] = "resume"
  BY <1>1 DEF ConsistAccepted, ProcessConsistNoHandle, ListTypes
<1>3. \A c : Listed(c)' <=> Listed(c)
  BY <1>2 DEF Listed
<1>4. /\ work' \subseteq work \/ (work' = work \cup {call} /\ Calling /\ ~Calling')
      /\ Calling' => Calling
  <2>1. CASE work' \subseteq work /\ pc' = pc
    BY <2>1 DEF Calling
  <2>2. CASE work' = work \cup {call} /\ \E q \in Procs : pc[q] = "calling" /\ pc'[q] = "resume"
    <3>1. PICK q \in Procs : pc[q] = "calling" /\ pc'[q] = "resume"
      BY <2>2
    <3>2. \A s \in Procs : pc[s] \in Holding => s = q
      BY <1>1, <3>1, OneCaller DEF Holding
    <3>3. QED
      BY <1>2, <2>2, <3>1, <3>2 DEF Calling, Holding
  <2>3. QED
    BY <1>2, <2>1, <2>2
<1>5. ShareTypes'
  BY <1>1, <1>2, <1>4 DEF ShareTypes, MessagesAgree
<1>6. MessagesAgree'
  <2>1. CASE work' \subseteq work
    BY <1>1, <1>2, <1>3, <1>4, <2>1 DEF MessagesAgree
  <2>2. CASE work' = work \cup {call} /\ Calling /\ ~Calling'
    BY <1>1, <1>2, <2>2 DEF MessagesAgree
  <2>3. QED
    BY <1>4, <2>1, <2>2
<1>7. /\ Phases
      /\ \A q \in Procs : (Opener(q)' <=> Opener(q)) /\ (Counted(q)' <=> Counted(q))
  BY <1>2 DEF Phases, Opener, Serving, Joined, Granted, IsOpen, Counted, Holding, Walking
<1>8. OpenersAgree'
  BY <1>1, <1>2, <1>7 DEF OpenersAgree
<1>9. Base' = Base
  BY <1>2, <1>7, BaseKept
<1>10. \A q \in Procs : (pc[q] # "idle" /\ mode[q] \notin {"write", "stat"} => ~Dirty(Host(q)))'
  BY <1>1, <1>2 DEF ReadersClean, Dirty
<1>11. QED
  BY <1>2, <1>5, <1>6, <1>7, <1>8, <1>9, <1>10, PhasesShare

\* Nothing fails.
LEMMA NoFailures ==
    ASSUME Sharing, ShareInv
    PROVE  /\ \A p \in Procs : ~OpenFailed(p)
           /\ \A m \in work : ~ProcessConsistFails(m)
           /\ \A r \in reports : ~ReportUnknown(r) /\ ~ReportError(r)
           /\ ~ConsistTimeoutIntr /\ ~ConsistTimeout
<1>1. \A p \in Procs : ~OpenFailed(p)
  BY DEF ShareInv, OpenersAgree, OpenFailed
<1>2. \A m \in work : ~ProcessConsistFails(m)
  BY DEF Sharing, ShareInv, ShareTypes, DirtyListed, Dirty, ProcessConsistFails, WriteBackFails
<1>3. \A r \in reports : ~ReportUnknown(r) /\ ~ReportError(r)
  BY DEF ShareInv, MessagesAgree, OpenersAgree, ReportUnknown, ReportError
<1>4. ~ConsistTimeoutIntr /\ ~ConsistTimeout
  BY DEF Sharing, ShareInv, OpenersAgree, ConsistTimeoutIntr, ConsistTimeout
<1>5. QED
  BY <1>1, <1>2, <1>3, <1>4

-----------------------------------------------------------------------------
\* A step in the caches: a client makes its block dirty only as the writer that may
\* cache the file, and never begins to cache.
LEMMA CacheFrame ==
    ASSUME Sharing, ShareInv,
           UNCHANGED <<procVars, fileVars, listVars, infoVars, opVars, timeouts>>,
           \A r \in reports' : r.ok,
           \A c \in Clients : handle'[c].cacheable => handle[c].cacheable,
           \A c \in Clients : Dirty(c)' =>
               Dirty(c) \/ \E q \in Procs : Host(q) = c /\ CachedWriter(q)
    PROVE  /\ ListInv' /\ OpenersAgree' /\ CountsAgree' /\ ToldByOther' /\ ReadersClean'
           /\ LoopAgrees' /\ DirtyListed' /\ WriterKnown' /\ Alone' /\ GrantedClean'
           /\ (\A r \in reports : /\ "writeBack" \in msgList[r.from] => ~Dirty(r.from)'
                                  /\ "invalidate" \in msgList[r.from] => ~handle'[r.from].cacheable)
           /\ Base' = Base /\ (Calling' <=> Calling)
           /\ \A q \in Procs : /\ Joined(q)' <=> Joined(q)
                               /\ Granted(q)' <=> Granted(q)
                               /\ IsOpen(q)' <=> IsOpen(q)
<1> USE DEF procVars, fileVars, listVars, infoVars, opVars
<1>1. /\ ListInv /\ OpenersAgree /\ CountsAgree /\ ToldByOther /\ ReadersClean /\ LoopAgrees
      /\ DirtyListed /\ WriterKnown /\ Alone /\ GrantedClean /\ ReportsTrue /\ CachingKnown
      /\ ShareTypes
  BY DEF ShareInv
<1>2. /\ \A p \in Procs : Host(p) \in Clients
      /\ \A p, q \in Procs : Host(p) = Host(q) => p = q
      /\ \A c \in Clients : \E p \in Procs : Host(p) = c
  BY HostFacts
<1>3. \A q \in Procs : /\ Opener(q)' <=> Opener(q)
                       /\ Serving(q)' <=> Serving(q)
                       /\ Joined(q)' <=> Joined(q)
                       /\ Granted(q)' <=> Granted(q)
                       /\ IsOpen(q)' <=> IsOpen(q)
                       /\ Uses(q)' <=> Uses(q)
                       /\ Counted(q)' <=> Counted(q)
  BY DEF Opener, Serving, Joined, Granted, IsOpen, Uses, Counted
<1>4. \A q \in Procs : /\ CanCache(q)' => CanCache(q)
                       /\ CachedWriter(q)' => CachedWriter(q)
  BY <1>2, <1>3 DEF CanCache, CachedWriter
<1>5. \A c : Listed(c)' <=> Listed(c)
  BY DEF Listed
<1>6. \A q \in Procs : Dirty(Host(q))' => Dirty(Host(q)) \/ CachedWriter(q)
  BY <1>2
<1>7. ListInv'
  BY <1>1, OtherList
<1>8. OpenersAgree'
  BY <1>1, <1>3 DEF OpenersAgree
<1>9. CountsAgree'
  BY <1>1, <1>3, <1>5 DEF CountsAgree
<1>10. ToldByOther'
  BY <1>1 DEF ToldByOther, Commands
<1>11. ReadersClean'
  <2>1. ASSUME NEW c \in Clients, msgList[c] = {"invalidate"} PROVE ~Dirty(c)'
    BY <1>1, <1>2, <2>1 DEF ReadersClean
  <2>2. ASSUME NEW q \in Procs PROVE pc[q] # "idle" /\ mode[q] \notin {"write", "stat"} => ~Dirty(Host(q))'
    BY <1>1, <1>6 DEF ReadersClean, CachedWriter
  <2>3. QED
    BY <1>1, <1>4, <2>1, <2>2 DEF ReadersClean
<1>12. LoopAgrees'
  <2> SUFFICES ASSUME NEW p \in Procs, Serving(p)
               PROVE  /\ cacheable => \A c \in Clients : ~Conflict(p, c)'
                      /\ ~cacheable => ~Dirty(Host(p))'
                      /\ \A c \in Clients : Due(p, c)' =>
                            msgList[c] # {} \/ (pc[p] \in Walking /\ c \in Ahead(next))
                      /\ ~cacheable => \A q \in Procs \ {p} :
                            Dirty(Host(q))' \/ CachedWriter(q)' => "writeBack" \in msgList[Host(q)]
    <3>1. Ahead(next)' = Ahead(next)
      BY DEF Ahead, From
    <3>2. QED
      BY <1>3, <3>1 DEF LoopAgrees
  <2>1. \A c : (Due(p, c)' <=> Due(p, c)) /\ (Conflict(p, c)' <=> Conflict(p, c))
    BY <1>5 DEF Due, Conflict
  <2>2. ~CachedWriter(p)
    BY DEF Serving, CachedWriter, IsOpen, Holding
  <2>3. QED
    BY <1>1, <1>4, <1>6, <2>1, <2>2 DEF LoopAgrees
<1>13. DirtyListed'
  <2>1. ASSUME NEW q \in Procs, CachedWriter(q)
        PROVE  Listed(Host(q)) /\ lastWriter = Host(q) /\ cltCached[Host(q)]
    <3>1. Listed(Host(q))
      BY <1>1, <2>1 DEF CountsAgree, Uses, CachedWriter
    <3>2. IsOpen(q) /\ CanCache(q) /\ mode[q] = "write"
      BY <2>1 DEF CachedWriter, CanCache
    <3>3. QED
      BY <1>1, <3>1, <3>2 DEF WriterKnown, CachingKnown
  <2>2. QED
    BY <1>1, <1>5, <2>1 DEF DirtyListed
<1>14. WriterKnown'
  BY <1>1, <1>3, <1>4 DEF WriterKnown
<1>15. Alone'
  <2>1. ASSUME NEW p \in Procs, NEW q \in Procs, p # q, IsOpen(q) \/ Granted(q) PROVE ~CachedWriter(p)
    <3>1. CachedWriter(p) => IsOpen(p) /\ mode[p] = "write" /\ CanCache(p)
      BY DEF CachedWriter, CanCache
    <3>2. QED
      BY <1>1, <2>1, <3>1 DEF Alone
  <2>2. QED
    BY <1>1, <1>3, <1>4, <1>6, <2>1 DEF Alone
<1>16. GrantedClean'
  <2>1. \A q \in Procs : Granted(q) => ~CachedWriter(q)
    BY DEF Granted, CachedWriter, IsOpen
  <2>2. QED
    BY <1>1, <1>3, <1>6, <2>1 DEF GrantedClean
<1>17. ASSUME NEW r \in reports
       PROVE  /\ "writeBack" \in msgList[r.from] => ~Dirty(r.from)'
              /\ "invalidate" \in msgList[r.from] => ~handle'[r.from].cacheable
  <2>1. r.from \in Clients
    BY <1>1 DEF ShareTypes
  <2>2. "invalidate" \in msgList[r.from] => ~handle'[r.from].cacheable
    BY <1>1, <2>1 DEF ReportsTrue
  <2>3. ASSUME "writeBack" \in msgList[r.from], NEW q \in Procs, Host(q) = r.from, CachedWriter(q)
        PROVE  FALSE
    <3>1. msgList[r.from] # {"writeBack"}
      BY <1>1, <2>3 DEF ReadersClean
    <3>2. msgList[r.from] \in Commands
      BY <1>1, <2>1, <2>3 DEF ToldByOther
    <3>3. "invalidate" \in msgList[r.from]
      BY <2>3, <3>1, <3>2 DEF Commands
    <3>4. QED
      BY <1>1, <2>3, <3>3 DEF ReportsTrue, CachedWriter
  <2>4. QED
    BY <1>1, <2>1, <2>2, <2>3 DEF ReportsTrue
<1>18. Base' = Base /\ (Calling' <=> Calling)
  BY <1>3, BaseKept DEF Calling
<1>19. QED
  BY <1>3, <1>7, <1>8, <1>9, <1>10, <1>11, <1>12, <1>13, <1>14, <1>15, <1>16, <1>17, <1>18


\* A step that changes a block or the file, and nothing else.
LEMMA BlockFrame ==
    ASSUME Sharing, ShareInv,
           UNCHANGED <<procVars, fileVars, listVars, infoVars, opVars, msgVars, handle>>,
           block' \in [Clients -> {"none", "clean", "dirty"}],
           fresh' \in [Clients -> BOOLEAN], diskFresh' \in BOOLEAN,
           \A c \in Clients : Dirty(c)' =>
               Dirty(c) \/ \E q \in Procs : Host(q) = c /\ CachedWriter(q),
           \A c \in Clients : block'[c] # "none" => handle[c].valid /\ handle[c].cacheable,
           DirtyLatest',
           \A c \in Clients : /\ block'[c] # "none" /\ ~fresh'[c] => handle[c].version < Base
                              /\ Dirty(c)' => handle[c].version = Base,
           \A p \in Procs : IsOpen(p) /\ mode[p] = "write" =>
               \A c \in Clients \ {Host(p)} : block'[c] # "none" => handle[c].version < Base,
           FreshReads'
    PROVE  ShareInv'
<1> USE DEF procVars, fileVars, listVars, infoVars, opVars, msgVars
<1>1. /\ ShareTypes /\ OpenersAgree /\ StampsAgree /\ MessagesAgree /\ ReportsTrue /\ CachingKnown
      /\ VersionsAgree
  BY DEF ShareInv
<1>2. /\ ListInv' /\ OpenersAgree' /\ CountsAgree' /\ ToldByOther' /\ ReadersClean'
      /\ LoopAgrees' /\ DirtyListed' /\ WriterKnown' /\ Alone' /\ GrantedClean'
      /\ (\A r \in reports : /\ "writeBack" \in msgList[r.from] => ~Dirty(r.from)'
                             /\ "invalidate" \in msgList[r.from] => ~handle'[r.from].cacheable)
      /\ Base' = Base /\ (Calling' <=> Calling)
      /\ \A q \in Procs : /\ Joined(q)' <=> Joined(q)
                          /\ Granted(q)' <=> Granted(q)
                          /\ IsOpen(q)' <=> IsOpen(q)
  BY <1>1, CacheFrame DEF OpenersAgree
<1>3. ShareTypes'
  BY <1>1 DEF ShareTypes
<1>4. \A c : Listed(c)' <=> Listed(c)
  BY DEF Listed
<1>5. StampsAgree'
  BY <1>1, <1>2, <1>4 DEF StampsAgree
<1>6. MessagesAgree'
  BY <1>1, <1>2, MessagesKept
<1>7. ReportsTrue'
  BY <1>2 DEF ReportsTrue
<1>8. CachingKnown'
  BY <1>1, <1>2 DEF CachingKnown, CanCache
<1>9. VersionsAgree'
  BY <1>1, <1>2 DEF VersionsAgree
<1>10. QED
  BY <1>2, <1>3, <1>5, <1>6, <1>7, <1>8, <1>9 DEF ShareInv

\* When no client has a dirty block the server has the latest data; then a block
\* that is up to date may come or go.
LEMMA CleanIsFresh ==
    ASSUME Sharing, ShareInv, NEW p \in Procs, IsOpen(p) \/ Granted(p), ~Dirty(Host(p))
    PROVE  diskFresh
<1>1. \A q \in Procs : ~Dirty(Host(q))
  BY DEF ShareInv, Alone
<1>2. \A c \in Clients : ~Dirty(c)
  BY <1>1, HostFacts
<1>3. QED
  BY <1>2 DEF ShareInv, DirtyLatest

LEMMA ReadShare ==
    ASSUME Sharing, ShareInv, NEW p \in Procs, Read(p)
    PROVE  ShareInv'
<1>1. /\ ShareTypes /\ CachingKnown /\ DirtyLatest /\ VersionsAgree /\ FreshReads /\ Alone
      /\ StampsAgree
  BY DEF ShareInv
<1>2. /\ IsOpen(p) /\ handle[Host(p)].cacheable /\ block[Host(p)] = "none"
      /\ UNCHANGED <<procVars, fileVars, listVars, infoVars, opVars, msgVars, handle, diskFresh>>
      /\ block' = [block EXCEPT ![Host(p)] = "clean"]
      /\ fresh' = [fresh EXCEPT ![Host(p)] = diskFresh]
  BY DEF Read, IsOpen
<1>3. Host(p) \in Clients /\ \A q \in Procs : Host(q) = Host(p) => q = p
  BY HostFacts
<1>4. /\ block' \in [Clients -> {"none", "clean", "dirty"}]
      /\ fresh' \in [Clients -> BOOLEAN] /\ diskFresh' \in BOOLEAN
      /\ \A c \in Clients : block'[c] = IF c = Host(p) THEN "clean" ELSE block[c]
      /\ \A c \in Clients \ {Host(p)} : fresh'[c] = fresh[c]
  BY <1>1, <1>2 DEF ShareTypes
<1>5. diskFresh
  BY <1>2, CleanIsFresh DEF Dirty
<1>6. fresh'[Host(p)]
  BY <1>1, <1>2, <1>3, <1>5 DEF ShareTypes
<1>7. handle[Host(p)].valid
  BY <1>1, <1>2 DEF StampsAgree
<1>8. \A c \in Clients : Dirty(c)' <=> Dirty(c)
  BY <1>2, <1>4 DEF Dirty
<1>9. DirtyLatest'
  <2>1. \A c \in Clients : Dirty(c) => fresh'[c] /\ ~diskFresh'
    BY <1>1, <1>2, <1>5 DEF DirtyLatest
  <2>2. QED
    BY <1>1, <1>2, <1>8, <2>1 DEF DirtyLatest
<1>10. \A c \in Clients : block'[c] # "none" => handle[c].valid /\ handle[c].cacheable
  BY <1>1, <1>2, <1>4, <1>7 DEF CachingKnown
<1>11. \A c \in Clients : /\ block'[c] # "none" /\ ~fresh'[c] => handle[c].version < Base
                          /\ Dirty(c)' => handle[c].version = Base
  BY <1>1, <1>4, <1>6, <1>8 DEF VersionsAgree
<1>12. ASSUME NEW q \in Procs, IsOpen(q), mode[q] = "write", NEW c \in Clients \ {Host(q)},
              block'[c] # "none"
       PROVE  handle[c].version < Base
  <2>1. CASE c # Host(p)
    BY <1>1, <1>4, <1>12, <2>1 DEF VersionsAgree
  <2>2. CASE c = Host(p)
    <3>1. p # q /\ CanCache(p)
      BY <1>2, <1>12, <2>2 DEF CanCache
    <3>2. QED
      BY <1>1, <1>2, <1>12, <3>1 DEF Alone
  <2>3. QED
    BY <2>1, <2>2
<1>13. FreshReads'
  <2>1. ASSUME NEW q \in Procs, pc'[q] = "open" PROVE ReadsFresh(Host(q))'
    <3>1. pc[q] = "open"
      BY <1>2, <2>1 DEF procVars
    <3>2. CASE q = p
      BY <1>2, <1>5, <1>6, <3>2 DEF ReadsFresh
    <3>3. CASE q # p
      <4>1. Host(q) \in Clients \ {Host(p)}
        BY <1>3, <3>3, HostFacts
      <4>2. ReadsFresh(Host(q))
        BY <1>1, <3>1 DEF FreshReads
      <4>3. QED
        BY <1>2, <1>4, <4>1, <4>2 DEF ReadsFresh
    <3>4. QED
      BY <3>2, <3>3
  <2>2. QED
    BY <2>1 DEF FreshReads
<1>14. QED
  BY <1>2, <1>4, <1>8, <1>9, <1>10, <1>11, <1>12, <1>13, BlockFrame

\* The block cleaner, and the replacement of a clean block.
LEMMA CleanShare ==
    ASSUME Sharing, ShareInv, NEW x \in Clients, DelayedWrite(x) \/ Evict(x)
    PROVE  ShareInv'
<1>1. /\ ShareTypes /\ CachingKnown /\ DirtyLatest /\ VersionsAgree /\ FreshReads
  BY DEF ShareInv
<1>2. /\ UNCHANGED <<procVars, fileVars, listVars, infoVars, opVars, msgVars, handle>>
      /\ block' = [block EXCEPT ![x] = block'[x]]
      /\ \/ /\ block[x] = "dirty" /\ block'[x] = "clean" /\ diskFresh' = fresh[x] /\ fresh' = fresh
         \/ /\ block[x] = "clean" /\ block'[x] = "none" /\ diskFresh' = diskFresh
            /\ fresh' = [fresh EXCEPT ![x] = FALSE]
  BY <1>1 DEF DelayedWrite, Evict, ShareTypes
<1>3. /\ block' \in [Clients -> {"none", "clean", "dirty"}]
      /\ fresh' \in [Clients -> BOOLEAN] /\ diskFresh' \in BOOLEAN
      /\ \A c \in Clients \ {x} : block'[c] = block[c] /\ fresh'[c] = fresh[c]
  BY <1>1, <1>2 DEF ShareTypes
<1>4. /\ \A c \in Clients : Dirty(c)' => Dirty(c) /\ c # x
      /\ block[x] # "none"
  BY <1>2, <1>3 DEF Dirty
<1>5. diskFresh' \/ (~diskFresh /\ ~diskFresh' /\ block[x] = "clean")
  BY <1>1, <1>2 DEF DirtyLatest, Dirty, ShareTypes
<1>6. \A c \in Clients : Dirty(c)' => fresh'[c] /\ ~diskFresh'
  <2>1. ASSUME NEW c \in Clients, Dirty(c)' PROVE fresh'[c] /\ ~diskFresh'
    <3>1. Dirty(c) /\ c # x
      BY <1>4, <2>1
    <3>2. fresh[c] /\ ~diskFresh /\ ~Dirty(x)
      BY <1>1, <3>1 DEF DirtyLatest
    <3>3. diskFresh' = diskFresh
      BY <1>2, <3>2 DEF Dirty
    <3>4. fresh'[c] = fresh[c]
      BY <1>3, <3>1
    <3>5. QED
      BY <3>2, <3>3, <3>4
  <2>2. QED
    BY <2>1
<1>7. diskFresh' \/ \E c \in Clients : Dirty(c)'
  <2>1. CASE block[x] = "clean"
    <3>1. \A c \in Clients : Dirty(c) => Dirty(c)'
      BY <1>3, <2>1 DEF Dirty
    <3>2. QED
      BY <1>1, <1>5, <3>1 DEF DirtyLatest
  <2>2. QED
    BY <1>5, <2>1
<1>8. DirtyLatest'
  BY <1>1, <1>4, <1>6, <1>7 DEF DirtyLatest
<1>9. \A c \in Clients : block'[c] # "none" => block[c] # "none"
  BY <1>3, <1>4
<1>10. \A c \in Clients : /\ block'[c] # "none" => handle[c].valid /\ handle[c].cacheable
                          /\ Dirty(c)' => handle[c].version = Base
  BY <1>1, <1>4, <1>9 DEF CachingKnown, VersionsAgree
<1>11. \A c \in Clients : block'[c] # "none" /\ ~fresh'[c] => handle[c].version < Base
  <2>1. \A c \in Clients : block'[c] # "none" => fresh'[c] = fresh[c]
    BY <1>2, <1>3
  <2>2. QED
    BY <1>1, <1>9, <2>1 DEF VersionsAgree
<1>12. \A p \in Procs : IsOpen(p) /\ mode[p] = "write" =>
               \A c \in Clients \ {Host(p)} : block'[c] # "none" => handle[c].version < Base
  BY <1>1, <1>9 DEF VersionsAgree
<1>13. FreshReads'
  <2>1. ASSUME NEW q \in Procs, pc'[q] = "open" PROVE ReadsFresh(Host(q))'
    <3>1. pc[q] = "open" /\ IsOpen(q) /\ handle' = handle
      BY <1>2, <2>1 DEF procVars, IsOpen
    <3>2. ReadsFresh(Host(q)) /\ Host(q) \in Clients
      BY <1>1, <3>1, HostFacts DEF FreshReads
    <3>3. CASE block[x] = "dirty"
      <4>1. diskFresh' /\ fresh' = fresh /\ fresh[x]
        BY <1>1, <1>2, <1>5, <3>3 DEF DirtyLatest, Dirty
      <4>2. block'[Host(q)] # "none" <=> block[Host(q)] # "none"
        BY <1>2, <1>3, <3>2, <3>3
      <4>3. QED
        BY <3>1, <3>2, <4>1, <4>2 DEF ReadsFresh
    <3>4. CASE block[x] = "clean" /\ Host(q) # x
      <4>1. /\ diskFresh' = diskFresh
            /\ fresh'[Host(q)] = fresh[Host(q)] /\ block'[Host(q)] = block[Host(q)]
        BY <1>2, <1>3, <3>2, <3>4
      <4>2. QED
        BY <3>1, <3>2, <4>1 DEF ReadsFresh
    <3>5. CASE block[x] = "clean" /\ Host(q) = x
      <4>1. diskFresh
        BY <3>1, <3>5, CleanIsFresh DEF Dirty
      <4>2. diskFresh' = diskFresh /\ block'[Host(q)] = "none"
        BY <1>2, <3>5
      <4>3. QED
        BY <4>1, <4>2 DEF ReadsFresh
    <3>6. QED
      BY <1>2, <3>3, <3>4, <3>5
  <2>2. QED
    BY <2>1 DEF FreshReads
<1>14. QED
  BY <1>2, <1>3, <1>4, <1>8, <1>10, <1>11, <1>12, <1>13, BlockFrame


\* A write into the cache, or through to the server.
LEMMA WriteShare ==
    ASSUME Sharing, ShareInv, NEW p \in Procs, Write(p)
    PROVE  ShareInv'
<1>1. /\ ShareTypes /\ CachingKnown /\ DirtyLatest /\ VersionsAgree /\ Alone /\ StampsAgree
  BY DEF ShareInv
<1>2. /\ IsOpen(p) /\ mode[p] = "write" /\ pc[p] = "open" /\ handle[Host(p)].valid
      /\ UNCHANGED <<procVars, fileVars, listVars, infoVars, opVars, msgVars, handle>>
  BY <1>1 DEF Write, IsOpen, StampsAgree
<1>3. /\ \A q \in Procs : Host(q) \in Clients
      /\ \A q, r \in Procs : Host(q) = Host(r) => q = r
      /\ \A c \in Clients : \E q \in Procs : Host(q) = c
  BY HostFacts
<1>4. CanCache(p) <=> handle[Host(p)].cacheable
  BY <1>2 DEF CanCache
<1>5. \A q \in Procs : IsOpen(q) => (CanCache(q) <=> handle[Host(q)].cacheable)
  BY DEF CanCache
<1>6. \A c \in Clients \ {Host(p)} : ~Dirty(c)
  BY <1>1, <1>2, <1>3 DEF Alone
<1>7. \A c \in Clients \ {Host(p)} : block[c] # "none" => handle[c].version < Base
  BY <1>1, <1>2 DEF VersionsAgree
<1>8. \A q \in Procs : pc'[q] = "open" => pc[q] = "open" /\ IsOpen(q)
  BY <1>2 DEF procVars, IsOpen
<1>9. CASE handle[Host(p)].cacheable
  <2>1. /\ block' = [block EXCEPT ![Host(p)] = "dirty"]
        /\ fresh' = [x \in Clients |-> x = Host(p)]
        /\ diskFresh' = FALSE
    BY <1>9 DEF Write
  <2>2. /\ block' \in [Clients -> {"none", "clean", "dirty"}]
        /\ fresh' \in [Clients -> BOOLEAN] /\ diskFresh' \in BOOLEAN
        /\ \A c \in Clients : block'[c] = IF c = Host(p) THEN "dirty" ELSE block[c]
    BY <1>1, <1>3, <2>1 DEF ShareTypes
  <2>3. fresh'[Host(p)]
    BY <1>3, <2>1
  <2>4. CachedWriter(p)
    BY <1>2, <1>9 DEF CachedWriter
  <2>5. \A c \in Clients : Dirty(c)' <=> c = Host(p)
    BY <1>6, <2>2 DEF Dirty
  <2>6. DirtyLatest'
    BY <1>3, <2>1, <2>3, <2>5 DEF DirtyLatest
  <2>7. \A c \in Clients : block'[c] # "none" => handle[c].valid /\ handle[c].cacheable
    BY <1>1, <1>2, <1>9, <2>2 DEF CachingKnown
  <2>8. handle[Host(p)].version = Base
    BY <1>1, <1>2, <1>9 DEF VersionsAgree
  <2>9. \A c \in Clients : /\ block'[c] # "none" /\ ~fresh'[c] => handle[c].version < Base
                           /\ Dirty(c)' => handle[c].version = Base
    BY <1>7, <2>2, <2>3, <2>5, <2>8
  <2>10. \A q \in Procs : IsOpen(q) => q = p
    BY <1>1, <1>2, <1>4, <1>9 DEF Alone
  <2>11. \A q \in Procs : IsOpen(q) /\ mode[q] = "write" =>
            \A c \in Clients \ {Host(q)} : block'[c] # "none" => handle[c].version < Base
    BY <1>7, <2>2, <2>10
  <2>12. FreshReads'
    <3>1. ASSUME NEW q \in Procs, pc'[q] = "open" PROVE ReadsFresh(Host(q))'
      <4>1. q = p
        BY <1>8, <2>10, <3>1
      <4>2. QED
        BY <1>2, <1>3, <1>9, <2>2, <2>3, <4>1 DEF ReadsFresh
    <3>2. QED
      BY <3>1 DEF FreshReads
  <2>13. QED
    BY <1>2, <2>2, <2>4, <2>5, <2>6, <2>7, <2>9, <2>11, <2>12, BlockFrame
<1>10. CASE ~handle[Host(p)].cacheable
  <2>1. /\ block' = block
        /\ fresh' = [x \in Clients |-> FALSE]
        /\ diskFresh' = TRUE
    BY <1>10 DEF Write
  <2>2. /\ block' \in [Clients -> {"none", "clean", "dirty"}]
        /\ fresh' \in [Clients -> BOOLEAN] /\ diskFresh' \in BOOLEAN
    BY <1>1, <2>1 DEF ShareTypes
  <2>3. block[Host(p)] = "none"
    BY <1>1, <1>3, <1>10 DEF CachingKnown
  <2>4. \A c \in Clients : ~Dirty(c)'
    BY <1>6, <2>1, <2>3 DEF Dirty
  <2>5. DirtyLatest'
    BY <2>1, <2>4 DEF DirtyLatest
  <2>6. \A c \in Clients : block'[c] # "none" => handle[c].valid /\ handle[c].cacheable
    BY <1>1, <2>1 DEF CachingKnown
  <2>7. \A c \in Clients : block'[c] # "none" => handle[c].version < Base
    BY <1>7, <2>1, <2>3
  <2>8. FreshReads'
    <3>1. ASSUME NEW q \in Procs, pc'[q] = "open" PROVE ReadsFresh(Host(q))'
      <4>1. ~handle[Host(q)].cacheable
        BY <1>1, <1>2, <1>5, <1>8, <1>10, <3>1 DEF Alone
      <4>2. QED
        BY <1>2, <2>1, <4>1 DEF ReadsFresh
    <3>2. QED
      BY <3>1 DEF FreshReads
  <2>9. QED
    BY <1>2, <2>2, <2>4, <2>5, <2>6, <2>7, <2>8, BlockFrame
<1>11. QED
  BY <1>9, <1>10


\* A client that has nothing of the file in its cache reclaims the handle.
LEMMA ScavengeShare ==
    ASSUME Sharing, ShareInv, NEW x \in Clients, FsrmtFileScavenge(x)
    PROVE  ShareInv'
<1>1. /\ ShareTypes /\ OpenersAgree /\ StampsAgree /\ MessagesAgree /\ CachingKnown
      /\ DirtyLatest /\ VersionsAgree /\ FreshReads
  BY DEF ShareInv
<1>2. /\ UNCHANGED <<procVars, fileVars, listVars, infoVars, opVars, msgVars, block, fresh,
                     diskFresh>>
      /\ block[x] = "none"
      /\ \A q \in Procs : Host(q) = x => pc[q] # "open"
      /\ handle' = [handle EXCEPT ![x] = NoHandle]
  BY DEF FsrmtFileScavenge
<1>3. /\ \A c \in Clients \ {x} : handle'[c] = handle[c]
      /\ handle'[x] = NoHandle /\ handle' \in [Clients -> Handles]
  BY <1>1, <1>2 DEF ShareTypes, Handles, NoHandle
<1>4. \A c : Dirty(c)' <=> Dirty(c)
  BY <1>2 DEF Dirty
<1>5. \A c \in Clients : handle'[c].cacheable => c # x /\ handle'[c] = handle[c]
  BY <1>3 DEF NoHandle
<1>6. UNCHANGED <<timeouts, work, reports>>
  BY <1>2 DEF msgVars
<1>7. /\ ListInv' /\ OpenersAgree' /\ CountsAgree' /\ ToldByOther' /\ ReadersClean'
      /\ LoopAgrees' /\ DirtyListed' /\ WriterKnown' /\ Alone' /\ GrantedClean'
      /\ (\A r \in reports : /\ "writeBack" \in msgList[r.from] => ~Dirty(r.from)'
                             /\ "invalidate" \in msgList[r.from] => ~handle'[r.from].cacheable)
      /\ Base' = Base /\ (Calling' <=> Calling)
      /\ \A q \in Procs : /\ Joined(q)' <=> Joined(q)
                          /\ Granted(q)' <=> Granted(q)
                          /\ IsOpen(q)' <=> IsOpen(q)
  BY <1>1, <1>2, <1>4, <1>5, <1>6, CacheFrame DEF OpenersAgree
<1>8. \A q \in Procs : /\ Host(q) \in Clients
                       /\ IsOpen(q) => Host(q) # x /\ handle'[Host(q)] = handle[Host(q)]
  BY <1>2, <1>3, HostFacts DEF IsOpen
<1> USE DEF procVars, fileVars, listVars, infoVars, opVars
<1>9. ShareTypes'
  BY <1>1, <1>2, <1>3, <1>6 DEF ShareTypes
<1>10. \A c : Listed(c)' <=> Listed(c)
  BY <1>2 DEF Listed
<1>11. StampsAgree'
  <2>1. handle'[x].stamp = 0 /\ ~handle'[x].valid
    BY <1>3 DEF NoHandle
  <2>2. stamp >= 0 /\ \A c \in Clients : handle'[c].stamp <= stamp
    BY <1>1, <1>3, <2>1 DEF StampsAgree
  <2>3. \A q \in Procs : handle'[Host(q)].valid => handle'[Host(q)] = handle[Host(q)]
    BY <1>3, <1>8, <2>1
  <2>4. QED
    BY <1>1, <1>2, <1>7, <1>8, <1>10, <2>2, <2>3 DEF StampsAgree
<1>12. MessagesAgree'
  BY <1>1, <1>2, <1>6, <1>7, MessagesKept
<1>13. ReportsTrue'
  BY <1>2, <1>6, <1>7 DEF ReportsTrue
<1>14. CachingKnown'
  <2>1. \A q \in Procs : IsOpen(q) \/ Granted(q) => (CanCache(q)' => CanCache(q))
    BY <1>2, <1>7, <1>8 DEF CanCache
  <2>2. \A c \in Clients : block'[c] # "none" => handle'[c].valid /\ handle'[c].cacheable
    BY <1>1, <1>2, <1>3 DEF CachingKnown
  <2>3. QED
    BY <1>1, <1>2, <1>7, <2>1, <2>2 DEF CachingKnown
<1>15. DirtyLatest'
  BY <1>1, <1>2, <1>4 DEF DirtyLatest
<1>16. VersionsAgree'
  <2>1. handle'[x].version = 0
    BY <1>3 DEF NoHandle
  <2>2. Base >= 0 /\ \A c \in Clients : handle'[c].version <= Base
    BY <1>1, <1>3, <2>1 DEF VersionsAgree
  <2>3. \A c \in Clients : block'[c] # "none" => block[c] # "none" /\ handle'[c] = handle[c]
    BY <1>2, <1>3
  <2>4. \A c \in Clients : Dirty(c)' => handle'[c] = handle[c]
    BY <2>3 DEF Dirty
  <2>5. QED
    BY <1>1, <1>2, <1>4, <1>7, <1>8, <2>2, <2>3, <2>4 DEF VersionsAgree
<1>17. FreshReads'
  BY <1>1, <1>2, <1>8 DEF FreshReads, ReadsFresh, IsOpen
<1>18. QED
  BY <1>7, <1>9, <1>11, <1>12, <1>13, <1>14, <1>15, <1>16, <1>17 DEF ShareInv


\* ProcessConsist does what the server has asked for and reports it.
LEMMA ProcessShare ==
    ASSUME Sharing, ShareInv, NEW m \in work, ProcessConsist(m)
    PROVE  ShareInv'
<1> DEFINE x == m.to
           r0 == [from |-> m.to, stamp |-> m.stamp, ok |-> TRUE]
<1>1. /\ ShareTypes /\ OpenersAgree /\ StampsAgree /\ MessagesAgree /\ CachingKnown
      /\ DirtyLatest /\ VersionsAgree /\ FreshReads /\ ToldByOther /\ ReadersClean /\ ReportsTrue
  BY DEF ShareInv
<1>2. x \in Clients /\ m.flags = msgList[x] /\ m.flags # {}
  BY <1>1 DEF ShareTypes, MessagesAgree
<1>3. m.flags \in {{"attrs"}, {"writeBack"}, {"invalidate"}, {"writeBack", "invalidate"}}
  BY <1>1, <1>2 DEF ToldByOther, Commands
<1>4. "invalidate" \in m.flags /\ Dirty(x) => "writeBack" \in m.flags
  BY <1>1, <1>2, <1>3 DEF ReadersClean
<1>5. /\ UNCHANGED <<procVars, fileVars, listVars, infoVars, opVars, timeouts>>
      /\ work' = work \ {m} /\ reports' = reports \cup {r0}
  BY DEF ProcessConsist
<1>6. /\ block' \in [Clients -> {"none", "clean", "dirty"}]
      /\ fresh' \in [Clients -> BOOLEAN] /\ diskFresh' \in BOOLEAN
      /\ handle' \in [Clients -> Handles]
      /\ \A c \in Clients \ {x} : /\ block'[c] = block[c] /\ fresh'[c] = fresh[c]
                                  /\ handle'[c] = handle[c]
      /\ handle'[x].valid = handle[x].valid /\ handle'[x].version = handle[x].version
      /\ handle'[x].stamp = handle[x].stamp
      /\ "invalidate" \in m.flags => ~handle'[x].cacheable /\ block'[x] = "none"
      /\ "invalidate" \notin m.flags =>
            /\ handle' = handle /\ fresh' = fresh
            /\ block'[x] = IF "writeBack" \in m.flags /\ Dirty(x) THEN "clean" ELSE block[x]
  <2>1. diskFresh' \in BOOLEAN
    BY <1>1, <1>2 DEF ProcessConsist, Fscache_Consist, ShareTypes
  <2>2. CASE "invalidate" \in m.flags
    <3>1. /\ block' = [block EXCEPT ![x] = "none"]
          /\ fresh' = [fresh EXCEPT ![x] = FALSE]
          /\ handle' = [handle EXCEPT ![x] = [@ EXCEPT !.cacheable = FALSE]]
      BY <2>2 DEF ProcessConsist, Fscache_Consist
    <3>2. [handle[x] EXCEPT !.cacheable = FALSE] \in Handles
      BY <1>1, <1>2 DEF ShareTypes, Handles
    <3>3. handle' \in [Clients -> Handles] /\ handle'[x] = [handle[x] EXCEPT !.cacheable = FALSE]
      BY <1>1, <1>2, <3>1, <3>2 DEF ShareTypes
    <3>4. handle[x] \in Handles
      BY <1>1, <1>2 DEF ShareTypes
    <3>5. /\ handle'[x].valid = handle[x].valid /\ handle'[x].version = handle[x].version
          /\ handle'[x].stamp = handle[x].stamp /\ ~handle'[x].cacheable
      BY <3>3, <3>4 DEF Handles
    <3>6. QED
      BY <1>1, <1>2, <2>1, <2>2, <3>1, <3>3, <3>5 DEF ShareTypes
  <2>3. CASE "invalidate" \notin m.flags
    <3>1. /\ handle' = handle /\ fresh' = fresh
          /\ block' = IF "writeBack" \in m.flags /\ Dirty(x)
                      THEN [block EXCEPT ![x] = "clean"] ELSE block
      BY <2>3 DEF ProcessConsist, Fscache_Consist, Dirty
    <3>2. QED
      BY <1>1, <1>2, <2>1, <2>3, <3>1 DEF ShareTypes
  <2>4. QED
    BY <2>2, <2>3
<1>7. diskFresh' <=> diskFresh \/ ("writeBack" \in m.flags /\ Dirty(x))
  <2>1. CASE "writeBack" \in m.flags /\ Dirty(x)
    BY <1>1, <1>2, <2>1 DEF ProcessConsist, Fscache_Consist, Dirty, DirtyLatest
  <2>2. CASE ~("writeBack" \in m.flags /\ Dirty(x))
    BY <2>2 DEF ProcessConsist, Fscache_Consist, Dirty
  <2>3. QED
    BY <2>1, <2>2
<1> HIDE DEF x
<1>8. /\ \A c \in Clients : Dirty(c)' => Dirty(c) /\ block'[c] = block[c] /\ fresh'[c] = fresh[c]
                                         /\ handle'[c] = handle[c]
      /\ Dirty(x) => (Dirty(x)' <=> "writeBack" \notin m.flags)
      /\ "writeBack" \in m.flags => ~Dirty(x)'
  BY <1>2, <1>3, <1>4, <1>6 DEF Dirty
<1>9. \A c \in Clients : handle'[c].cacheable => handle[c].cacheable /\ handle'[c] = handle[c]
  BY <1>2, <1>6
<1>10. \A r \in reports' : r.ok
  BY <1>1, <1>5 DEF OpenersAgree
<1>11. /\ ListInv' /\ OpenersAgree' /\ CountsAgree' /\ ToldByOther' /\ ReadersClean'
       /\ LoopAgrees' /\ DirtyListed' /\ WriterKnown' /\ Alone' /\ GrantedClean'
       /\ (\A r \in reports : /\ "writeBack" \in msgList[r.from] => ~Dirty(r.from)'
                              /\ "invalidate" \in msgList[r.from] => ~handle'[r.from].cacheable)
       /\ Base' = Base /\ (Calling' <=> Calling)
       /\ \A q \in Procs : /\ Joined(q)' <=> Joined(q)
                           /\ Granted(q)' <=> Granted(q)
                           /\ IsOpen(q)' <=> IsOpen(q)
  BY <1>5, <1>8, <1>9, <1>10, CacheFrame
<1> USE DEF procVars, fileVars, listVars, infoVars, opVars
<1>12. ShareTypes'
  BY <1>1, <1>2, <1>5, <1>6 DEF ShareTypes, x
<1>13. \A c : Listed(c)' <=> Listed(c)
  BY <1>5 DEF Listed
<1>14. StampsAgree'
  <2>1. \A c \in Clients : handle'[c].stamp = handle[c].stamp /\ handle'[c].valid = handle[c].valid
    BY <1>2, <1>6
  <2>2. QED
    BY <1>1, <1>5, <1>11, <1>13, <2>1, HostFacts DEF StampsAgree
<1>15. MessagesAgree'
  <2>1. UNCHANGED <<call, msgList, cltStamp>> /\ (Calling' <=> Calling)
    BY <1>5, <1>11
  <2>2. /\ \A n \in work' : n \in work /\ n.to # x
        /\ \A r \in reports : r.from # x
        /\ Calling => call.to # x
    BY <1>1, <1>5 DEF MessagesAgree, x
  <2>3. r0.from = x /\ \A r \in reports' : r \in reports \/ r = r0
    BY <1>5 DEF x
  <2> HIDE DEF r0
  <2>4. /\ \A r \in reports' : msgList'[r.from] # {}
        /\ \A n \in work' : \A r \in reports' : n.to # r.from
        /\ \A r, s \in reports' : r.from = s.from => r = s
        /\ Calling => \A r \in reports' : r.from # call.to
    BY <1>1, <1>2, <2>1, <2>2, <2>3 DEF MessagesAgree
  <2>5. QED
    BY <1>1, <1>13, <2>1, <2>2, <2>4 DEF MessagesAgree
<1>16. ReportsTrue'
  BY <1>2, <1>5, <1>6, <1>8, <1>11 DEF ReportsTrue, x
<1>17. CachingKnown'
  <2>1. \A q \in Procs : IsOpen(q) \/ Granted(q) => (CanCache(q)' => CanCache(q))
    BY <1>5, <1>9, <1>11, HostFacts DEF CanCache
  <2>2. \A c \in Clients : block'[c] # "none" => handle'[c].valid /\ handle'[c].cacheable
    BY <1>1, <1>2, <1>6 DEF CachingKnown, Dirty
  <2>3. QED
    BY <1>1, <1>5, <1>11, <2>1, <2>2 DEF CachingKnown
<1>18. DirtyLatest'
  <2>1. ASSUME NEW c \in Clients, Dirty(c)' PROVE fresh'[c] /\ ~diskFresh'
    <3>1. Dirty(c) /\ fresh[c] /\ ~diskFresh /\ fresh'[c] = fresh[c]
      BY <1>1, <1>8, <2>1 DEF DirtyLatest
    <3>2. ~("writeBack" \in m.flags /\ Dirty(x))
      BY <1>1, <1>2, <1>8, <2>1, <3>1 DEF DirtyLatest
    <3>3. QED
      BY <1>7, <3>1, <3>2
  <2>2. ASSUME ~diskFresh' PROVE \E c \in Clients : Dirty(c)'
    <3>1. PICK c \in Clients : Dirty(c)
      BY <1>1, <1>7, <2>2 DEF DirtyLatest
    <3>2. Dirty(c)'
      BY <1>6, <1>7, <1>8, <2>2, <3>1 DEF Dirty
    <3>3. QED
      BY <3>2
  <2>3. QED
    BY <1>1, <1>8, <2>1, <2>2 DEF DirtyLatest
<1>19. VersionsAgree'
  <2>1. \A c \in Clients : handle'[c].version = handle[c].version
    BY <1>2, <1>6
  <2>2. \A c \in Clients : block'[c] # "none" => block[c] # "none" /\ fresh'[c] = fresh[c]
    BY <1>2, <1>6 DEF Dirty
  <2>3. QED
    BY <1>1, <1>5, <1>8, <1>9, <1>11, <2>1, <2>2, HostFacts DEF VersionsAgree
<1>20. FreshReads'
  <2>1. ASSUME NEW q \in Procs, pc'[q] = "open" PROVE ReadsFresh(Host(q))'
    <3>1. pc[q] = "open" /\ IsOpen(q)
      BY <1>5, <2>1 DEF IsOpen
    <3>2. ReadsFresh(Host(q)) /\ Host(q) \in Clients
      BY <1>1, <3>1, HostFacts DEF FreshReads
    <3>3. CASE Host(q) # x
      BY <1>6, <1>7, <3>2, <3>3 DEF ReadsFresh
    <3>4. CASE Host(q) = x /\ "invalidate" \in m.flags
      <4>1. diskFresh'
        BY <1>4, <1>7, <3>1, <3>4, CleanIsFresh
      <4>2. QED
        BY <1>6, <3>4, <4>1 DEF ReadsFresh
    <3>5. CASE Host(q) = x /\ "invalidate" \notin m.flags
      BY <1>6, <1>7, <3>2, <3>5 DEF ReadsFresh, Dirty
    <3>6. QED
      BY <3>3, <3>4, <3>5
  <2>2. QED
    BY <2>1 DEF FreshReads
<1>21. QED
  BY <1>11, <1>12, <1>14, <1>15, <1>16, <1>17, <1>18, <1>19, <1>20 DEF ShareInv


-----------------------------------------------------------------------------
\* What follows from procVars and handles that stay as they are.
LEMMA SameUsers ==
    ASSUME UNCHANGED <<pc, mode, opened, handle, block>>
    PROVE  /\ \A q : /\ Opener(q)' <=> Opener(q)
                     /\ Serving(q)' <=> Serving(q)
                     /\ Joined(q)' <=> Joined(q)
                     /\ Granted(q)' <=> Granted(q)
                     /\ IsOpen(q)' <=> IsOpen(q)
                     /\ Uses(q)' <=> Uses(q)
                     /\ CanCache(q)' = CanCache(q)
                     /\ CachedWriter(q)' <=> CachedWriter(q)
                     /\ Counted(q)' <=> Counted(q)
           /\ \A c : Dirty(c)' <=> Dirty(c)
           /\ Calling' <=> Calling
BY DEF Opener, Serving, Joined, Granted, IsOpen, Uses, CanCache, CachedWriter, Counted, Dirty,
   Calling

\* REMOVE_CLIENT.
LEMMA Unlisted ==
    ASSUME ShareTypes, NEW S, Unlist(S)
    PROVE  /\ cltCached' \in [Clients -> BOOLEAN] /\ cltStamp' \in [Clients -> Int]
           /\ \A c \in Clients : /\ cltCached'[c] <=> cltCached[c] /\ c \notin S
                                 /\ cltStamp'[c] = IF c \in S THEN 0 ELSE cltStamp[c]
<1>1. cltCached' = [c \in Clients |-> cltCached[c] /\ c \notin S]
  BY DEF Unlist
<1>2. cltCached' \in [Clients -> BOOLEAN]
  BY <1>1
<1>3. \A c \in Clients : cltCached'[c] <=> cltCached[c] /\ c \notin S
  BY <1>1
<1>4. /\ cltStamp' \in [Clients -> Int]
      /\ \A c \in Clients : cltStamp'[c] = IF c \in S THEN 0 ELSE cltStamp[c]
  BY DEF Unlist, ShareTypes
<1>5. QED
  BY <1>2, <1>3, <1>4

\* The loop has not come to its next client.
LEMMA AheadNext ==
    ASSUME ListInv, NEW c \in Clients, msgList[c] # {}
    PROVE  c \notin Ahead(next) /\ next # c
<1>1. c \notin Ahead(next)
  BY DEF ListInv, AheadUntold
<1>2. PICK n : n = next
  OBVIOUS
<1>3. Ahead(n) = Ahead(next)
  BY <1>2 DEF Ahead, From
<1>4. n \in Clients => Listed(n)
  BY <1>2, ConsistAssumption DEF ListInv, NextIsListed
<1>5. next # c
  BY <1>1, <1>2, <1>3, <1>4, AheadOf DEF ListInv
<1>6. QED
  BY <1>1, <1>5

\* ProcessConsistReply: the client has written back, or does not cache any longer.
LEMMA ReportShare ==
    ASSUME Sharing, ShareInv, ListInv', NEW r \in reports, ProcessConsistReply(r)
    PROVE  ShareInv'
<1> DEFINE x == r.from
           gone == Listed(x) /\ cltUse[x]["ref"] = 0 /\ lastWriter' # x
<1>1. /\ ListInv /\ ListTypes /\ HolderAgrees /\ AheadUntold /\ NextIsListed
      /\ ShareTypes /\ OpenersAgree /\ CountsAgree /\ StampsAgree
      /\ MessagesAgree /\ ToldByOther /\ ReadersClean /\ ReportsTrue /\ LoopAgrees
      /\ CachingKnown /\ DirtyLatest /\ DirtyListed /\ WriterKnown /\ Alone
      /\ GrantedClean /\ VersionsAgree /\ FreshReads
  BY DEF ShareInv, ListInv
<1>2. /\ UNCHANGED <<procVars, fileVars, cltUse, error, opVars, cltVars, work, timeouts>>
      /\ reports' = reports \ {r}
      /\ msgList' = [msgList EXCEPT ![x] = {}]
      /\ msgList[x] # {}
      /\ lastWriter' = IF "writeBack" \in msgList[x] /\ lastWriter = x
                       THEN NoClient ELSE lastWriter
  BY DEF ProcessConsistReply
<1>3. x \in Clients
  BY <1>1 DEF ShareTypes
<1>4. /\ gone => Unlist({x})
      /\ ~gone => /\ cltCached' = IF "invalidate" \in msgList[x]
                                  THEN [cltCached EXCEPT ![x] = FALSE] ELSE cltCached
                  /\ UNCHANGED <<clientList, cltStamp>>
  BY DEF ProcessConsistReply
<1> HIDE DEF x, gone
<1>5. PICK y \in Procs : Host(y) = x
  BY <1>3, HostFacts
<1>6. /\ \A p \in Procs : Host(p) \in Clients
      /\ \A q \in Procs : Host(q) = x => q = y
  BY <1>5, HostFacts
<1>7. /\ holder \in Procs /\ holder # y /\ msgList[x] \in Commands
      /\ pc[holder] \in Holding
  BY <1>1, <1>2, <1>3, <1>5, <1>6 DEF ToldByOther, HolderAgrees
<1>8. gone => ~Uses(y)
  BY <1>1, <1>5, UseFacts DEF gone
<1>9. ~Joined(y) /\ \A p \in Procs : Serving(p) => p = holder
  BY <1>1, <1>7, OneCaller DEF Joined, Serving, Holding, HolderAgrees
<1>10. msgList[x] # {"attrs"} => ~Granted(y) /\ mode[holder] # "stat"
  <2>1. ASSUME msgList[x] # {"attrs"} PROVE mode[holder] # "stat"
    BY <1>7, <2>1 DEF Commands
  <2>2. ASSUME msgList[x] # {"attrs"} PROVE Opener(holder)
    BY <1>7, <2>1, <2>2 DEF Opener, Holding
  <2>3. Granted(y) => Opener(y)
    BY DEF Granted, Opener
  <2>4. QED
    BY <1>1, <1>7, <2>1, <2>2, <2>3 DEF OpenersAgree
<1>11. /\ \A c : Listed(c)' <=> Listed(c) /\ ~(gone /\ c = x)
       /\ \A n : n # x => Ahead(n)' = IF gone THEN Ahead(n) \ {x} ELSE Ahead(n)
  <2>1. CASE gone
    <3>1. RemoveClients({x})
      BY <1>4, <2>1 DEF Unlist
    <3>2. QED
      BY <1>1, <2>1, <3>1, Removed
  <2>2. CASE ~gone
    BY <1>4, <2>2 DEF Listed, Ahead, From
  <2>3. QED
    BY <2>1, <2>2
<1>12. /\ cltCached' \in [Clients -> BOOLEAN] /\ cltStamp' \in [Clients -> Int]
       /\ \A c \in Clients \ {x} : cltStamp'[c] = cltStamp[c]
       /\ ~gone => cltStamp' = cltStamp
       /\ gone => cltStamp'[x] = 0
  <2>1. CASE gone
    BY <1>1, <1>3, <1>4, <2>1, Unlisted
  <2>2. CASE ~gone
    BY <1>1, <1>3, <1>4, <2>2 DEF ShareTypes
  <2>3. QED
    BY <2>1, <2>2
<1>13. /\ \A c \in Clients \ {x} : cltCached'[c] <=> cltCached[c]
       /\ gone => ~cltCached'[x]
       /\ "invalidate" \in msgList[x] => ~cltCached'[x]
       /\ ~gone /\ "invalidate" \notin msgList[x] => cltCached' = cltCached
  <2>1. CASE gone
    BY <1>1, <1>3, <1>4, <2>1, Unlisted
  <2>2. CASE ~gone
    BY <1>1, <1>3, <1>4, <2>2 DEF ShareTypes
  <2>3. QED
    BY <2>1, <2>2
<1>14. /\ \A c \in Clients : c # x => msgList'[c] = msgList[c]
       /\ msgList'[x] = {}
  BY <1>1, <1>2, <1>3 DEF ListTypes
<1>15. /\ x \notin Ahead(next) /\ next # x
       /\ \A s \in reports' : s \in reports /\ s.from # x
       /\ \A m \in work : m.to # x
       /\ Calling => call.to # x
  <2>1. PICK c \in Clients : c = x
    BY <1>3
  <2>2. x \notin Ahead(next) /\ next # x
    BY <1>1, <1>2, <2>1, AheadNext
  <2>3. QED
    BY <1>1, <1>2, <2>2 DEF MessagesAgree, x
<1> USE DEF procVars, fileVars, opVars, cltVars
<1>16. /\ \A q : /\ Opener(q)' <=> Opener(q)
                 /\ Serving(q)' <=> Serving(q)
                 /\ Joined(q)' <=> Joined(q)
                 /\ Granted(q)' <=> Granted(q)
                 /\ IsOpen(q)' <=> IsOpen(q)
                 /\ Uses(q)' <=> Uses(q)
                 /\ CanCache(q)' = CanCache(q)
                 /\ CachedWriter(q)' <=> CachedWriter(q)
                 /\ Counted(q)' <=> Counted(q)
       /\ \A c : Dirty(c)' <=> Dirty(c)
       /\ Calling' <=> Calling
  BY <1>2, SameUsers
<1>17. ShareTypes'
  BY <1>1, <1>2, <1>12 DEF ShareTypes
<1>18. OpenersAgree'
  BY <1>1, <1>2, <1>16 DEF OpenersAgree
<1>19. CountsAgree'
  BY <1>1, <1>2, <1>6, <1>8, <1>11, <1>16 DEF CountsAgree
<1>20. StampsAgree'
  <2>1. \A c \in Clients : cltStamp'[c] <= stamp
    BY <1>1, <1>3, <1>12 DEF StampsAgree
  <2>2. \A q \in Procs : Listed(Host(q))' => Listed(Host(q)) /\ cltStamp'[Host(q)] = cltStamp[Host(q)]
    BY <1>6, <1>11, <1>12
  <2>3. \A q \in Procs : Joined(q) \/ Granted(q) => cltStamp'[Host(q)] = cltStamp[Host(q)]
    BY <1>6, <1>8, <1>12 DEF Uses
  <2>4. QED
    BY <1>1, <1>2, <1>16, <2>1, <2>2, <2>3 DEF StampsAgree
<1>21. MessagesAgree'
  BY <1>1, <1>2, <1>11, <1>12, <1>14, <1>15, <1>16 DEF MessagesAgree, ShareTypes
<1>22. ToldByOther'
  BY <1>1, <1>2, <1>14 DEF ToldByOther, Commands
<1>23. ReadersClean'
  BY <1>1, <1>2, <1>6, <1>14, <1>16 DEF ReadersClean
<1>24. ReportsTrue'
  BY <1>1, <1>2, <1>14, <1>15, <1>16 DEF ReportsTrue, ShareTypes
<1>25. LoopAgrees'
  <2> SUFFICES ASSUME NEW p \in Procs, Serving(p)
               PROVE  /\ cacheable => \A c \in Clients : ~Conflict(p, c)'
                      /\ ~cacheable => ~Dirty(Host(p))
                      /\ \A c \in Clients : Due(p, c)' =>
                            msgList'[c] # {} \/ (pc[p] \in Walking /\ c \in Ahead(next)')
                      /\ ~cacheable => \A q \in Procs \ {p} :
                            Dirty(Host(q)) \/ CachedWriter(q) => "writeBack" \in msgList'[Host(q)]
    BY <1>2, <1>16 DEF LoopAgrees
  <2>1. p = holder /\ mode[p] # "stat"
    BY <1>9 DEF Serving
  <2>2. \A c : Conflict(p, c)' <=> Conflict(p, c)
    BY <1>2 DEF Conflict
  <2>3. ~Due(p, x)'
    <3>1. CASE cacheable
      BY <1>2, <1>3, <1>7, <2>1, <3>1, ConsistAssumption DEF Commands, Due
    <3>2. CASE ~cacheable
      BY <1>7, <1>13, <2>1, <3>2 DEF Commands, Due
    <3>3. QED
      BY <3>1, <3>2
  <2>4. \A c \in Clients : c # x /\ Due(p, c)' => Due(p, c)
    BY <1>2, <1>11, <1>13, ConsistAssumption DEF Due
  <2>5. \A c \in Ahead(next) : c \in Ahead(next)'
    <3>1. PICK n : n = next
      OBVIOUS
    <3>2. Ahead(next)' = Ahead(n)' /\ Ahead(next) = Ahead(n)
      BY <1>2, <3>1 DEF Ahead, From
    <3>3. QED
      BY <1>11, <1>15, <3>1, <3>2
  <2>6. ASSUME ~cacheable, NEW q \in Procs \ {p}, Dirty(Host(q)) \/ CachedWriter(q)
        PROVE  "writeBack" \in msgList'[Host(q)]
    <3>1. "writeBack" \in msgList[Host(q)]
      BY <1>1, <2>6 DEF LoopAgrees
    <3>2. Host(q) # x
      <4>1. SUFFICES ASSUME Host(q) = x PROVE FALSE
        OBVIOUS
      <4>2. "invalidate" \in msgList[x]
        BY <1>7, <2>1, <2>6 DEF Commands
      <4>3. ~Dirty(x) /\ ~handle[x].cacheable
        BY <1>1, <3>1, <4>1, <4>2 DEF ReportsTrue, x
      <4>4. QED
        BY <2>6, <4>1, <4>3 DEF CachedWriter
    <3>3. QED
      BY <1>6, <1>14, <3>1, <3>2
  <2>7. QED
    BY <1>1, <1>14, <2>2, <2>3, <2>4, <2>5, <2>6 DEF LoopAgrees
<1>26. CachingKnown'
  <2>1. ASSUME NEW q \in Procs, IsOpen(q) \/ Granted(q), CanCache(q) PROVE cltCached'[Host(q)]
    <3>1. cltCached[Host(q)]
      BY <1>1, <2>1 DEF CachingKnown
    <3>2. CASE Host(q) # x
      BY <1>6, <1>13, <3>1, <3>2
    <3>3. CASE Host(q) = x
      <4>1. q = y /\ ~gone
        BY <1>6, <1>8, <2>1, <3>3 DEF Uses
      <4>2. "invalidate" \notin msgList[x]
        BY <1>1, <1>10, <2>1, <3>3, <4>1 DEF ReportsTrue, CanCache, x
      <4>3. QED
        BY <1>13, <3>1, <4>1, <4>2
    <3>4. QED
      BY <3>2, <3>3
  <2>2. ASSUME NEW q \in Procs, Joined(q), cacheable PROVE cltCached'[Host(q)]
    BY <1>1, <1>6, <1>9, <1>13, <2>2 DEF CachingKnown
  <2>3. QED
    BY <1>1, <1>2, <1>16, <2>1, <2>2 DEF CachingKnown
<1>27. DirtyLatest'
  BY <1>1, <1>2, <1>16 DEF DirtyLatest
<1>28. DirtyListed'
  <2>1. ASSUME NEW c \in Clients, Dirty(c)
        PROVE  Listed(c)' /\ ((lastWriter' = c /\ cltCached'[c]) \/ "writeBack" \in msgList'[c])
    <3>1. CASE c # x
      BY <1>1, <1>2, <1>11, <1>13, <1>14, <2>1, <3>1 DEF DirtyListed
    <3>2. CASE c = x
      <4>1. "writeBack" \notin msgList[x]
        BY <1>1, <2>1, <3>2 DEF ReportsTrue, x
      <4>2. msgList[x] = {"attrs"}
        BY <1>1, <1>7, <2>1, <3>2, <4>1 DEF ReadersClean, Commands
      <4>3. Listed(x) /\ lastWriter = x /\ cltCached[x]
        BY <1>1, <2>1, <3>2, <4>1 DEF DirtyListed
      <4>4. lastWriter' = x /\ ~gone
        BY <1>2, <4>1, <4>3 DEF gone
      <4>5. QED
        BY <1>11, <1>13, <3>2, <4>2, <4>3, <4>4
    <3>3. QED
      BY <3>1, <3>2
  <2>2. QED
    BY <1>16, <2>1 DEF DirtyListed
<1>29. WriterKnown'
  <2>1. ASSUME NEW q \in Procs, mode[q] = "write", IsOpen(q) \/ Granted(q), CanCache(q)
        PROVE  lastWriter' = Host(q)
    <3>1. lastWriter = Host(q)
      BY <1>1, <2>1 DEF WriterKnown
    <3>2. ASSUME Host(q) = x, "writeBack" \in msgList[x] PROVE FALSE
      <4>1. q = y /\ IsOpen(q)
        BY <1>6, <1>10, <2>1, <3>2
      <4>2. CachedWriter(q)
        BY <2>1, <4>1 DEF CachedWriter, CanCache
      <4>3. msgList[x] # {"writeBack"}
        BY <1>1, <3>2, <4>2 DEF ReadersClean
      <4>4. "invalidate" \in msgList[x]
        BY <1>7, <3>2, <4>3 DEF Commands
      <4>5. QED
        BY <1>1, <3>2, <4>2, <4>4 DEF ReportsTrue, CachedWriter, x
    <3>3. QED
      BY <1>2, <3>1, <3>2
  <2>2. ASSUME NEW q \in Procs, mode[q] = "write", Joined(q), cacheable PROVE lastWriter' = Host(q)
    BY <1>1, <1>2, <1>6, <1>9, <2>2 DEF WriterKnown
  <2>3. QED
    BY <1>2, <1>16, <2>1, <2>2 DEF WriterKnown
<1>30. Alone' /\ GrantedClean'
  BY <1>1, <1>2, <1>16 DEF Alone, GrantedClean
<1>31. VersionsAgree'
  <2>1. Base' = Base
    BY <1>2, <1>16, BaseKept
  <2>2. QED
    BY <1>1, <1>2, <1>16, <2>1 DEF VersionsAgree
<1>32. FreshReads'
  BY <1>1, <1>2 DEF FreshReads, ReadsFresh
<1>33. QED
  BY <1>17, <1>18, <1>19, <1>20, <1>21, <1>22, <1>23, <1>24, <1>25, <1>26, <1>27, <1>28,
     <1>29, <1>30, <1>31, <1>32 DEF ShareInv


\* FS_STALE_HANDLE: a client that is forgotten neither uses the file nor has dirty
\* blocks of it, since its handle and the server's entry would have the same stamp.
LEMMA StaleShare ==
    ASSUME Sharing, ShareInv, ListInv', NEW p \in Procs, ConsistStale(p),
           \A q \in Procs : pc[q] # "returned"
    PROVE  ShareInv'
<1> DEFINE x == call.to
<1>1. /\ ListInv /\ ListTypes /\ HolderAgrees
      /\ ShareTypes /\ OpenersAgree /\ CountsAgree /\ StampsAgree
      /\ MessagesAgree /\ ToldByOther /\ ReadersClean /\ ReportsTrue /\ LoopAgrees
      /\ CachingKnown /\ DirtyLatest /\ DirtyListed /\ WriterKnown /\ Alone
      /\ GrantedClean /\ VersionsAgree /\ FreshReads
  BY DEF ShareInv, ListInv
<1>2. /\ UNCHANGED <<mode, opened, opens, fileVars, error, opVars, cltVars, msgVars>>
      /\ pc[p] = "calling" /\ pc' = [pc EXCEPT ![p] = "resume"]
      /\ ~IsCurrent(x) /\ ~OpenInProgress(x) /\ Kill({x})
  BY DEF ConsistStale
<1>3. /\ x \in Clients /\ msgList[x] # {}
      /\ Listed(x) => call.stamp = cltStamp[x]
      /\ \A m \in work : m.to # x
      /\ \A r \in reports : r.from # x
  BY <1>1, <1>2 DEF MessagesAgree, Calling
<1> HIDE DEF x
<1>4. PICK y \in Procs : Host(y) = x
  BY <1>3, HostFacts
<1>5. /\ \A q \in Procs : Host(q) \in Clients
      /\ \A q \in Procs : Host(q) = x => q = y
  BY <1>4, HostFacts
<1>6. p = holder /\ \A q \in Procs : pc[q] \in Holding => q = p
  BY <1>1, <1>2, OneCaller DEF Holding
<1>7. y # p
  BY <1>1, <1>3, <1>4, <1>6 DEF ToldByOther
<1>8. PICK c0 \in Clients : c0 = x
  BY <1>3
<1>9. x \notin Ahead(next) /\ next # x
  BY <1>1, <1>3, <1>8, AheadNext
<1>10. ~Joined(y) /\ ~Granted(y)
  BY <1>2, <1>4 DEF OpenInProgress, Joined, Granted
<1>11. ~IsOpen(y) /\ ~Dirty(x)
  <2>1. ~(handle[x].valid /\ handle[x].stamp = call.stamp)
    BY <1>2 DEF IsCurrent
  <2>2. ~(handle[x].valid /\ Listed(x))
    BY <1>1, <1>3, <1>4, <1>10, <2>1 DEF StampsAgree
  <2>3. IsOpen(y) => handle[x].valid /\ Listed(x)
    BY <1>1, <1>4 DEF StampsAgree, CountsAgree, Uses
  <2>4. Dirty(x) => handle[x].valid /\ Listed(x)
    BY <1>1, <1>3 DEF CachingKnown, DirtyListed, Dirty
  <2>5. QED
    BY <2>2, <2>3, <2>4
<1>12. cltUse[x] = NoUse
  BY <1>1, <1>4, <1>10, <1>11 DEF CountsAgree, Uses
<1>13. /\ Unlist({x})
       /\ cltUse' = [c \in Clients |-> IF c = x THEN NoUse ELSE cltUse[c]]
       /\ lastWriter' = IF lastWriter = x THEN NoClient ELSE lastWriter
       /\ msgList' = [c \in Clients |-> IF c = x THEN {} ELSE msgList[c]]
  <2>1. {c \in {x} : ~Locked(c)} = {x}
    BY <1>9 DEF Locked
  <2>2. QED
    BY <1>2, <2>1 DEF Kill, IOClientKill
<1>14. cltUse' = cltUse
  BY <1>1, <1>12, <1>13 DEF ShareTypes
<1>15. /\ \A c : Listed(c)' <=> Listed(c) /\ c # x
       /\ Ahead(next)' = Ahead(next) \ {x}
  <2>1. RemoveClients({x})
    BY <1>13 DEF Unlist
  <2>2. PICK n : n = next
    OBVIOUS
  <2>3. Ahead(next)' = Ahead(n)' /\ Ahead(next) = Ahead(n)
    BY <1>2, <2>2 DEF Ahead, From, opVars
  <2>4. QED
    BY <1>1, <1>9, <2>1, <2>2, <2>3, Removed
<1>16. /\ cltCached' \in [Clients -> BOOLEAN] /\ cltStamp' \in [Clients -> Int]
       /\ \A c \in Clients : /\ cltCached'[c] <=> cltCached[c] /\ c # x
                             /\ cltStamp'[c] = IF c = x THEN 0 ELSE cltStamp[c]
  BY <1>1, <1>8, <1>13, Unlisted
<1>17. \A c \in Clients : msgList'[c] = IF c = x THEN {} ELSE msgList[c]
  BY <1>13
<1> USE DEF fileVars, opVars, cltVars, msgVars
<1>18. \A q \in Procs : pc'[q] = IF q = p THEN "resume" ELSE pc[q]
  BY <1>1, <1>2 DEF ListTypes
<1>19. \A q \in Procs : /\ Opener(q)' <=> Opener(q)
                        /\ Serving(q)' <=> Serving(q)
                        /\ Joined(q)' <=> Joined(q)
                        /\ Granted(q)' <=> Granted(q)
                        /\ IsOpen(q)' <=> IsOpen(q)
                        /\ Counted(q)' <=> Counted(q)
  BY <1>2, <1>18 DEF Opener, Serving, Joined, Granted, IsOpen, Counted, Holding
<1>20. /\ \A q \in Procs : /\ Uses(q)' <=> Uses(q)
                           /\ CanCache(q)' = CanCache(q)
                           /\ CachedWriter(q)' <=> CachedWriter(q)
       /\ \A c : Dirty(c)' <=> Dirty(c)
       /\ ~Calling'
  BY <1>2, <1>6, <1>18, <1>19 DEF Uses, CanCache, CachedWriter, Dirty, Calling, Holding
<1>21. ShareTypes'
  BY <1>1, <1>2, <1>14, <1>16 DEF ShareTypes
<1>22. OpenersAgree'
  BY <1>1, <1>2, <1>18, <1>19 DEF OpenersAgree
<1>23. \A q \in Procs : Uses(q) => Host(q) # x
  BY <1>5, <1>10, <1>11 DEF Uses
<1>24. CountsAgree'
  BY <1>1, <1>2, <1>14, <1>15, <1>20, <1>23 DEF CountsAgree
<1>25. StampsAgree'
  <2>1. \A c \in Clients : cltStamp'[c] <= stamp
    BY <1>1, <1>16 DEF StampsAgree
  <2>2. \A q \in Procs : Listed(Host(q))' => Listed(Host(q)) /\ cltStamp'[Host(q)] = cltStamp[Host(q)]
    BY <1>5, <1>15, <1>16
  <2>3. \A q \in Procs : Joined(q) \/ Granted(q) => cltStamp'[Host(q)] = cltStamp[Host(q)]
    BY <1>5, <1>16, <1>23 DEF Uses
  <2>4. QED
    BY <1>1, <1>2, <1>19, <2>1, <2>2, <2>3 DEF StampsAgree
<1>26. MessagesAgree'
  BY <1>1, <1>2, <1>3, <1>17, <1>20 DEF MessagesAgree, ShareTypes
<1>27. ToldByOther'
  BY <1>1, <1>2, <1>17 DEF ToldByOther, Commands
<1>28. ReadersClean'
  BY <1>1, <1>2, <1>5, <1>17, <1>18, <1>20 DEF ReadersClean
<1>29. ReportsTrue'
  BY <1>1, <1>2, <1>3, <1>17, <1>20 DEF ReportsTrue, ShareTypes
<1>30. LoopAgrees'
  <2> SUFFICES ASSUME Serving(p)
               PROVE  /\ cacheable => \A c \in Clients : ~Conflict(p, c)'
                      /\ ~cacheable => ~Dirty(Host(p))
                      /\ \A c \in Clients : Due(p, c)' => msgList'[c] # {} \/ c \in Ahead(next)'
                      /\ ~cacheable => \A q \in Procs \ {p} :
                            Dirty(Host(q)) \/ CachedWriter(q) => "writeBack" \in msgList'[Host(q)]
    <3>1. \A q \in Procs : Serving(q) => q = p
      BY <1>6 DEF Serving
    <3>2. pc'[p] \in Walking
      BY <1>18 DEF Walking
    <3>3. QED
      BY <1>2, <1>19, <1>20, <3>1, <3>2 DEF LoopAgrees
  <2>1. \A c : Conflict(p, c)' <=> Conflict(p, c)
    BY <1>2, <1>14 DEF Conflict
  <2>2. \A c \in Clients : Due(p, c)' => Due(p, c) /\ c # x
    BY <1>2, <1>14, <1>13, <1>15, <1>16, ConsistAssumption DEF Due
  <2>3. ASSUME ~cacheable, NEW q \in Procs \ {p}, Dirty(Host(q)) \/ CachedWriter(q)
        PROVE  "writeBack" \in msgList'[Host(q)]
    <3>1. "writeBack" \in msgList[Host(q)]
      BY <1>1, <2>3 DEF LoopAgrees
    <3>2. Host(q) # x
      BY <1>5, <1>11, <2>3 DEF CachedWriter
    <3>3. QED
      BY <1>5, <1>17, <3>1, <3>2
  <2>4. QED
    BY <1>1, <1>15, <1>17, <2>1, <2>2, <2>3 DEF LoopAgrees
<1>31. CachingKnown'
  <2>1. \A q \in Procs : Uses(q) => (cltCached'[Host(q)] <=> cltCached[Host(q)])
    BY <1>5, <1>16, <1>23
  <2>2. QED
    BY <1>1, <1>2, <1>19, <1>20, <2>1 DEF CachingKnown, Uses
<1>32. DirtyLatest'
  BY <1>1, <1>2, <1>20 DEF DirtyLatest
<1>33. DirtyListed'
  BY <1>1, <1>11, <1>13, <1>15, <1>16, <1>17, <1>20 DEF DirtyListed
<1>34. WriterKnown'
  <2>1. \A q \in Procs : Uses(q) /\ lastWriter = Host(q) => lastWriter' = Host(q)
    BY <1>13, <1>23
  <2>2. QED
    BY <1>1, <1>2, <1>19, <1>20, <2>1 DEF WriterKnown, Uses
<1>35. Alone' /\ GrantedClean'
  BY <1>1, <1>2, <1>19, <1>20 DEF Alone, GrantedClean
<1>36. VersionsAgree'
  <2>1. Base' = Base
    BY <1>2, <1>19, BaseKept
  <2>2. QED
    BY <1>1, <1>2, <1>19, <1>20, <2>1 DEF VersionsAgree
<1>37. FreshReads'
  BY <1>1, <1>2, <1>19 DEF FreshReads, ReadsFresh, IsOpen
<1>38. QED
  BY <1>21, <1>22, <1>24, <1>25, <1>26, <1>27, <1>28, <1>29, <1>30, <1>31, <1>32, <1>33,
     <1>34, <1>35, <1>36, <1>37 DEF ShareInv


\* A close.  A client that has dirty blocks stays in the list as the last writer.
LEMMA CloseShare ==
    ASSUME Sharing, ShareInv, ListInv', NEW p \in Procs, FsrmtFileClose(p)
    PROVE  ShareInv'
<1> DEFINE x == Host(p)
           gone == (lastWriter # x \/ ~cltCached[x]) /\ next # x
<1>1. /\ ListInv /\ ListTypes /\ HolderAgrees
      /\ ShareTypes /\ OpenersAgree /\ CountsAgree /\ StampsAgree
      /\ MessagesAgree /\ ToldByOther /\ ReadersClean /\ ReportsTrue /\ LoopAgrees
      /\ CachingKnown /\ DirtyLatest /\ DirtyListed /\ WriterKnown /\ Alone
      /\ GrantedClean /\ VersionsAgree /\ FreshReads
  BY DEF ShareInv, ListInv
<1>2. /\ UNCHANGED <<mode, opened, opens, version, stamp, infoVars, opVars, cltVars, msgVars>>
      /\ pc[p] = "open" /\ pc' = [pc EXCEPT ![p] = "idle"]
      /\ Fsio_FileClose(x, mode[p])
  BY DEF FsrmtFileClose
<1>3. /\ x \in Clients /\ \A q \in Procs : Host(q) \in Clients
      /\ \A q \in Procs : Host(q) = x => q = p
  BY HostFacts
<1>4. Listed(x) /\ cltUse[x] = UseOf(mode[p]) /\ mode[p] # "stat"
  BY <1>1, <1>2 DEF CountsAgree, Uses, IsOpen, OpenersAgree
<1>5. Fsconsist_Close(x, mode[p])
  <2>1. mode[p] = "exec" => UseOf(mode[p])["exec"] > 0
    BY DEF UseOf, Kinds
  <2>2. QED
    BY <1>2, <1>4, <2>1 DEF Fsio_FileClose
<1>6. Minus(cltUse[x], UseOf(mode[p])) = NoUse /\ NoUse["ref"] = 0 /\ NoUse["write"] = 0
  BY <1>4 DEF Minus, UseOf, NoUse, Kinds
<1>7. /\ cltUse' = [cltUse EXCEPT ![x] = NoUse]
      /\ gone => Unlist({x})
      /\ ~gone => UNCHANGED <<clientList, cltCached, cltStamp>>
  BY <1>5, <1>6 DEF Fsconsist_Close, IOClientClose, Locked
<1> HIDE DEF x, gone
<1>8. Dirty(x) => ~gone
  <2>1. SUFFICES ASSUME Dirty(x) PROVE lastWriter = x /\ cltCached[x]
    BY DEF gone
  <2>2. handle[x].cacheable
    BY <1>1, <1>3, <2>1 DEF CachingKnown, Dirty
  <2>3. mode[p] = "write"
    BY <1>1, <1>2, <1>4, <2>1 DEF ReadersClean, x
  <2>4. IsOpen(p) /\ CanCache(p)
    BY <1>2, <2>2 DEF IsOpen, CanCache, x
  <2>5. QED
    BY <1>1, <2>3, <2>4 DEF WriterKnown, CachingKnown, x
<1>9. PICK c0 \in Clients : c0 = x
  BY <1>3
<1>10. /\ \A c : Listed(c)' <=> Listed(c) /\ ~(gone /\ c = x)
       /\ Ahead(next)' = IF gone THEN Ahead(next) \ {x} ELSE Ahead(next)
  <2>1. CASE gone
    <3>1. RemoveClients({c0})
      BY <1>7, <1>9, <2>1 DEF Unlist
    <3>2. PICK n : n = next
      OBVIOUS
    <3>3. Ahead(next)' = Ahead(n)' /\ Ahead(next) = Ahead(n)
      BY <1>2, <3>2 DEF Ahead, From, opVars
    <3>4. n \notin {c0}
      BY <1>9, <2>1, <3>2 DEF gone
    <3>5. QED
      BY <1>1, <1>9, <2>1, <3>1, <3>3, <3>4, Removed
  <2>2. CASE ~gone
    BY <1>2, <1>7, <2>2 DEF Listed, Ahead, From, opVars
  <2>3. QED
    BY <2>1, <2>2
<1>11. /\ cltCached' \in [Clients -> BOOLEAN] /\ cltStamp' \in [Clients -> Int]
       /\ \A c \in Clients : /\ cltCached'[c] => cltCached[c]
                             /\ c # x \/ ~gone => (cltCached'[c] <=> cltCached[c])
                             /\ cltStamp'[c] = IF c = x /\ gone THEN 0 ELSE cltStamp[c]
  <2>1. CASE gone
    BY <1>1, <1>7, <1>9, <2>1, Unlisted
  <2>2. CASE ~gone
    BY <1>1, <1>7, <2>2 DEF ShareTypes
  <2>3. QED
    BY <2>1, <2>2
<1>12. /\ cltUse' \in [Clients -> [Kinds -> Int]]
       /\ \A c \in Clients : cltUse'[c] = IF c = x THEN NoUse ELSE cltUse[c]
  <2>1. NoUse \in [Kinds -> Int]
    BY DEF NoUse
  <2>2. QED
    BY <1>1, <1>3, <1>7, <2>1 DEF ShareTypes
<1> USE DEF infoVars, opVars, cltVars, msgVars
<1>13. \A q \in Procs : pc'[q] = IF q = p THEN "idle" ELSE pc[q]
  BY <1>1, <1>2 DEF ListTypes
<1>14. /\ \A q \in Procs : /\ Opener(q)' <=> Opener(q)
                           /\ Serving(q)' <=> Serving(q)
                           /\ Joined(q)' <=> Joined(q)
                           /\ Granted(q)' <=> Granted(q)
                           /\ IsOpen(q)' <=> IsOpen(q) /\ q # p
                           /\ Counted(q)' <=> Counted(q)
       /\ ~Joined(p) /\ ~Granted(p) /\ IsOpen(p) /\ ~Serving(p)
  BY <1>2, <1>13 DEF Opener, Serving, Joined, Granted, IsOpen, Counted, Holding
<1>15. /\ \A q \in Procs : /\ Uses(q)' <=> Uses(q) /\ q # p
                           /\ q # p => CanCache(q)' = CanCache(q)
                           /\ CachedWriter(q)' => CachedWriter(q) /\ q # p
       /\ \A c : Dirty(c)' <=> Dirty(c)
       /\ Calling' <=> Calling
  <2>1. Calling' <=> Calling
    BY <1>2, <1>13 DEF Calling
  <2>2. QED
    BY <1>2, <1>14, <2>1 DEF Uses, CanCache, CachedWriter, Dirty
<1>16. ShareTypes'
  BY <1>1, <1>2, <1>11, <1>12 DEF ShareTypes
<1>17. OpenersAgree'
  BY <1>1, <1>2, <1>13, <1>14 DEF OpenersAgree
<1>18. CountsAgree'
  <2>1. \A q \in Procs : q # p => Host(q) # x
    BY <1>3
  <2>2. \A q \in Procs : q = p => Host(q) = x
    BY DEF x
  <2>3. QED
    BY <1>1, <1>2, <1>3, <1>10, <1>12, <1>15, <2>1, <2>2 DEF CountsAgree
<1>19. StampsAgree'
  <2>1. \A c \in Clients : cltStamp'[c] <= stamp
    BY <1>1, <1>11 DEF StampsAgree
  <2>2. \A q \in Procs : Listed(Host(q))' => Listed(Host(q)) /\ cltStamp'[Host(q)] = cltStamp[Host(q)]
    BY <1>3, <1>10, <1>11
  <2>3. \A q \in Procs : Joined(q) \/ Granted(q) => cltStamp'[Host(q)] = cltStamp[Host(q)]
    BY <1>3, <1>11, <1>14
  <2>4. QED
    BY <1>1, <1>2, <1>14, <2>1, <2>2, <2>3 DEF StampsAgree
<1>20. MessagesAgree'
  <2>1. Calling => (Listed(call.to)' => Listed(call.to) /\ cltStamp'[call.to] = cltStamp[call.to])
    BY <1>1, <1>2, <1>10, <1>11 DEF MessagesAgree
  <2>2. QED
    BY <1>1, <1>2, <1>15, <2>1 DEF MessagesAgree
<1>21. ToldByOther'
  BY <1>1, <1>2 DEF ToldByOther, Commands
<1>22. ReadersClean'
  BY <1>1, <1>2, <1>13, <1>15 DEF ReadersClean
<1>23. ReportsTrue'
  BY <1>1, <1>2, <1>15 DEF ReportsTrue
<1>24. LoopAgrees'
  <2> SUFFICES ASSUME NEW q \in Procs, Serving(q)
               PROVE  /\ cacheable => \A c \in Clients : ~Conflict(q, c)'
                      /\ ~cacheable => ~Dirty(Host(q))
                      /\ \A c \in Clients : Due(q, c)' =>
                            msgList[c] # {} \/ (pc[q] \in Walking /\ c \in Ahead(next)')
                      /\ ~cacheable => \A s \in Procs \ {q} :
                            Dirty(Host(s)) \/ CachedWriter(s)' => "writeBack" \in msgList[Host(s)]
    BY <1>2, <1>13, <1>14, <1>15 DEF LoopAgrees
  <2>1. \A c \in Clients : Conflict(q, c)' => Conflict(q, c)
    BY <1>2, <1>6, <1>12 DEF Conflict
  <2>2. \A c \in Clients : Due(q, c)' => Due(q, c) /\ ~(gone /\ c = x)
    BY <1>2, <1>6, <1>10, <1>11, <1>12 DEF Due
  <2>3. QED
    BY <1>1, <1>10, <1>15, <2>1, <2>2 DEF LoopAgrees
<1>25. CachingKnown'
  <2>1. \A q \in Procs : q # p => (cltCached'[Host(q)] <=> cltCached[Host(q)])
    BY <1>3, <1>11
  <2>2. QED
    BY <1>1, <1>2, <1>14, <1>15, <2>1 DEF CachingKnown
<1>26. DirtyLatest'
  BY <1>1, <1>2, <1>15 DEF DirtyLatest
<1>27. DirtyListed'
  BY <1>1, <1>2, <1>8, <1>10, <1>11, <1>15 DEF DirtyListed
<1>28. WriterKnown'
  BY <1>1, <1>2, <1>14, <1>15 DEF WriterKnown
<1>29. Alone'
  BY <1>1, <1>2, <1>14, <1>15 DEF Alone
<1>30. GrantedClean'
  BY <1>1, <1>2, <1>14, <1>15 DEF GrantedClean
<1>31. VersionsAgree'
  <2>1. Base' = Base
    BY <1>2, <1>14, BaseKept
  <2>2. QED
    BY <1>1, <1>2, <1>14, <1>15, <2>1 DEF VersionsAgree
<1>32. FreshReads'
  BY <1>1, <1>2, <1>14 DEF FreshReads, ReadsFresh, IsOpen
<1>33. QED
  BY <1>16, <1>17, <1>18, <1>19, <1>20, <1>21, <1>22, <1>23, <1>24, <1>25, <1>26, <1>27,
     <1>28, <1>29, <1>30, <1>31, <1>32 DEF ShareInv


\* Fsconsist_NumClients drops entries while no operation is under way: a client with
\* dirty blocks is the last writer then.
LEMMA NumClientsShare ==
    ASSUME Sharing, ShareInv, ListInv', Fsconsist_NumClients
    PROVE  ShareInv'
<1>1. /\ ListInv /\ ListTypes /\ HolderAgrees /\ ReportedBefore /\ NextAgrees
      /\ ShareTypes /\ OpenersAgree /\ CountsAgree /\ StampsAgree
      /\ MessagesAgree /\ ToldByOther /\ ReadersClean /\ ReportsTrue /\ LoopAgrees
      /\ CachingKnown /\ DirtyLatest /\ DirtyListed /\ WriterKnown /\ Alone
      /\ GrantedClean /\ VersionsAgree /\ FreshReads
  BY DEF ShareInv, ListInv
<1>2. PICK S : S = {c \in Range(clientList) : cltUse[c]["ref"] = 0 /\ c # lastWriter}
  OBVIOUS
<1>3. /\ UNCHANGED <<procVars, fileVars, cltUse, infoVars, opVars, cltVars, msgVars>>
      /\ holder = NoProc /\ Unlist(S)
  BY <1>2 DEF Fsconsist_NumClients
<1>4. /\ \A q \in Procs : Host(q) \in Clients
      /\ \A c \in Clients : \E q \in Procs : Host(q) = c
  BY HostFacts
<1>5. /\ \A c \in Clients : msgList[c] = {}
      /\ \A q \in Procs : pc[q] \notin Holding
  BY <1>1, <1>3, NoProcNoProc DEF ReportedBefore, AllReported, HolderAgrees
<1>6. \A q \in Procs : Uses(q) => Host(q) \notin S
  BY <1>1, <1>2, UseFacts
<1>7. \A c \in Clients : Dirty(c) => c \notin S
  BY <1>1, <1>2, <1>5 DEF DirtyListed
<1>8. \A c : Listed(c)' <=> Listed(c) /\ c \notin S
  BY <1>1, <1>3, Removed DEF Unlist
<1>9. /\ cltCached' \in [Clients -> BOOLEAN] /\ cltStamp' \in [Clients -> Int]
      /\ \A c \in Clients : /\ cltCached'[c] <=> cltCached[c] /\ c \notin S
                            /\ cltStamp'[c] = IF c \in S THEN 0 ELSE cltStamp[c]
  BY <1>1, <1>3, Unlisted
<1> USE DEF procVars, fileVars, infoVars, opVars, cltVars, msgVars
<1>10. /\ \A q : /\ Opener(q)' <=> Opener(q)
                 /\ Serving(q)' <=> Serving(q)
                 /\ Joined(q)' <=> Joined(q)
                 /\ Granted(q)' <=> Granted(q)
                 /\ IsOpen(q)' <=> IsOpen(q)
                 /\ Uses(q)' <=> Uses(q)
                 /\ CanCache(q)' = CanCache(q)
                 /\ CachedWriter(q)' <=> CachedWriter(q)
                 /\ Counted(q)' <=> Counted(q)
       /\ \A c : Dirty(c)' <=> Dirty(c)
       /\ Calling' <=> Calling
  BY <1>3, SameUsers
<1>11. ShareTypes'
  BY <1>1, <1>3, <1>9 DEF ShareTypes
<1>12. OpenersAgree'
  BY <1>1, <1>3, <1>10 DEF OpenersAgree
<1>13. CountsAgree'
  BY <1>1, <1>3, <1>6, <1>8, <1>10 DEF CountsAgree
<1>14. StampsAgree'
  <2>1. \A c \in Clients : cltStamp'[c] <= stamp
    BY <1>1, <1>9 DEF StampsAgree
  <2>2. \A q \in Procs : Listed(Host(q))' => Listed(Host(q)) /\ cltStamp'[Host(q)] = cltStamp[Host(q)]
    BY <1>4, <1>8, <1>9
  <2>3. \A q \in Procs : Joined(q) \/ Granted(q) => cltStamp'[Host(q)] = cltStamp[Host(q)]
    BY <1>4, <1>6, <1>9 DEF Uses
  <2>4. QED
    BY <1>1, <1>3, <1>10, <2>1, <2>2, <2>3 DEF StampsAgree
<1>15. MessagesAgree'
  <2>1. ~Calling
    BY <1>5 DEF Calling, Holding
  <2>2. QED
    BY <1>1, <1>3, <1>10, <2>1 DEF MessagesAgree
<1>16. ToldByOther' /\ ReadersClean' /\ ReportsTrue'
  BY <1>1, <1>3, <1>10 DEF ToldByOther, Commands, ReadersClean, ReportsTrue
<1>17. LoopAgrees'
  BY <1>5, <1>10 DEF LoopAgrees, Serving
<1>18. CachingKnown'
  <2>1. \A q \in Procs : Uses(q) => (cltCached'[Host(q)] <=> cltCached[Host(q)])
    BY <1>4, <1>6, <1>9
  <2>2. QED
    BY <1>1, <1>3, <1>10, <2>1 DEF CachingKnown, Uses
<1>19. DirtyLatest' /\ WriterKnown' /\ Alone' /\ GrantedClean'
  BY <1>1, <1>3, <1>10 DEF DirtyLatest, WriterKnown, Alone, GrantedClean
<1>20. DirtyListed'
  BY <1>1, <1>3, <1>7, <1>8, <1>9, <1>10 DEF DirtyListed
<1>21. VersionsAgree'
  <2>1. Base' = Base
    BY <1>3, <1>10, BaseKept
  <2>2. QED
    BY <1>1, <1>3, <1>10, <2>1 DEF VersionsAgree
<1>22. FreshReads'
  BY <1>1, <1>3 DEF FreshReads, ReadsFresh
<1>23. QED
  BY <1>11, <1>12, <1>13, <1>14, <1>15, <1>16, <1>17, <1>18, <1>19, <1>20, <1>21, <1>22
     DEF ShareInv


-----------------------------------------------------------------------------
\* The loop of an open that finds the file cacheable or not, as ok says.
CommandsOf(p, ok) ==
    IF mode[p] = "stat" THEN {{"attrs"}}
    ELSE IF ok THEN {{"writeBack"}, {"writeBack", "invalidate"}}
               ELSE {{"invalidate"}, {"writeBack", "invalidate"}}
DueTo(p, c, ok) ==
    /\ c # Host(p) /\ Listed(c) /\ cltCached[c]
    /\ IF ok THEN lastWriter = c ELSE cltUse[c]["ref"] > 0

\* The loop is before the client n: whoever must be told something has been told or
\* is ahead.  When the file becomes uncacheable, a client that may have to write back
\* has been told so, or is the only one that the loop has something to say to.
LoopFrom(p, n, ok) ==
    /\ \A c \in Clients : DueTo(p, c, ok) => msgList[c] # {} \/ c \in Ahead(n)
    /\ ~ok => \A q \in Procs \ {p} : Dirty(Host(q)) \/ CachedWriter(q) =>
          \/ "writeBack" \in msgList[Host(q)]
          \/ /\ Host(q) \in Ahead(n) /\ "writeBack" \in Command(p, Host(q), ok)
             /\ \A c \in Ahead(n) \ {Host(q)} : Command(p, c, ok) = {}

Walks(p, n, ok) ==
    /\ ok \in BOOLEAN /\ pc[p] \in {"named", "awake", "resume"}
    /\ \A q \in Procs \ {p} : pc[q] \notin Holding
    /\ \A c \in Ahead(n) : c \in Clients /\ Listed(c) /\ msgList[c] = {}
    /\ \A c \in Clients : msgList[c] # {} => c # Host(p) /\ msgList[c] \in CommandsOf(p, ok)
    /\ mode[p] # "stat" => /\ ok => \A c \in Clients : ~Conflict(p, c)
                           /\ ~ok => ~Dirty(Host(p))
                           /\ LoopFrom(p, n, ok)

LEMMA SaysDue ==
    ASSUME NEW p, NEW c, NEW ok
    PROVE  /\ Command(p, c, ok) # {} => /\ c # Host(p)
                                        /\ Command(p, c, ok) \in CommandsOf(p, ok)
           /\ mode[p] # "stat" /\ DueTo(p, c, ok) => Command(p, c, ok) # {}
<1>1. CASE mode[p] = "stat"
  BY <1>1 DEF Command, StatCommand, CommandsOf
<1>2. CASE mode[p] # "stat"
  <2>1. CASE ok
    BY <1>2, <2>1 DEF Command, OpenCommand, CommandsOf, DueTo
  <2>2. CASE ~ok
    BY <1>2, <2>2 DEF Command, OpenCommand, CommandsOf, DueTo
  <2>3. QED
    BY <2>1, <2>2
<1>3. QED
  BY <1>1, <1>2

\* Where an open starts the loop.
LEMMA StartWalks ==
    ASSUME Sharing, ShareInv, NEW p \in Procs, pc[p] \in {"named", "awake"}, holder = NoProc,
           NEW n, n = (IF clientList = <<>> THEN NoClient ELSE Head(clientList)),
           NEW ok, ok = CacheableBy(p)
    PROVE  Walks(p, n, ok)
<1>1. /\ ListTypes /\ HolderAgrees /\ ReportedBefore
      /\ ShareTypes /\ OpenersAgree /\ CountsAgree /\ ReadersClean
      /\ CachingKnown /\ DirtyListed /\ Alone
  BY DEF ShareInv, ListInv
<1>2. /\ \A q \in Procs : Host(q) \in Clients
      /\ \A q, r \in Procs : Host(q) = Host(r) => q = r
      /\ \A c \in Clients : \E q \in Procs : Host(q) = c
  BY HostFacts
<1>3. /\ \A c \in Clients : msgList[c] = {}
      /\ \A q \in Procs : pc[q] \notin Holding
  BY <1>1, NoProcNoProc DEF ReportedBefore, AllReported, HolderAgrees
<1>4. ok \in BOOLEAN
  BY DEF CacheableBy
<1>5. \A c \in Clients : Listed(c) <=> c \in Ahead(n)
  <2>1. CASE clientList = <<>>
    BY <2>1 DEF Listed, Range, Ahead, From
  <2>2. CASE clientList # <<>>
    <3>1. 1 \in DOMAIN clientList /\ n = clientList[1] /\ DOMAIN clientList = 1 .. Len(clientList)
      BY <1>1, <2>2 DEF ListTypes
    <3>2. From(n) = {j \in DOMAIN clientList : 1 <= j}
      BY <1>1, <3>1, FromPlace
    <3>3. \A j : j \in From(n) <=> j \in DOMAIN clientList
      <4>1. \A j \in DOMAIN clientList : 1 <= j
        BY <3>1
      <4>2. QED
        BY <3>2, <4>1
    <3>4. \A c : Listed(c) <=> \E j \in DOMAIN clientList : c = clientList[j]
      BY DEF Listed, Range
    <3>5. \A c : c \in Ahead(n) <=> \E j \in DOMAIN clientList : c = clientList[j]
      BY <3>3 DEF Ahead
    <3>6. QED
      BY <3>4, <3>5
  <2>3. QED
    BY <2>1, <2>2
<1>6. \A c \in Ahead(n) : c \in Clients
  BY <1>1 DEF Ahead, From, ListTypes
<1>7. \A q \in Procs : Uses(q) <=> IsOpen(q) \/ Granted(q)
  BY <1>3 DEF Uses, Joined, Holding
<1>8. \A q \in Procs : /\ cltUse[Host(q)]["ref"] > 0 <=> Uses(q)
                       /\ cltUse[Host(q)]["write"] > 0 <=> Uses(q) /\ mode[q] = "write"
                       /\ Uses(q) => Listed(Host(q))
  BY <1>1, UseFacts DEF CountsAgree
<1>9. ok <=> \A c \in Clients : ~Conflict(p, c)
  <2>1. \A c \in Clients : Conflict(p, c) => Listed(c)
    BY <1>2, <1>8 DEF Conflict
  <2>2. \A c \in Range(clientList) : c \in Clients
    BY <1>1 DEF ListTypes, Range
  <2>3. CacheableBy(p) <=> \A c \in Clients : ~Conflict(p, c)
    BY <2>1, <2>2 DEF CacheableBy, Listed
  <2>4. QED
    BY <2>3
<1>10. ~Uses(p)
  BY <1>7 DEF IsOpen, Granted
<1>11. ASSUME ~ok PROVE \E q \in Procs \ {p} : Uses(q)
  BY <1>2, <1>8, <1>9, <1>11 DEF Conflict
<1>12. ~ok => ~Dirty(Host(p))
  BY <1>1, <1>7, <1>11 DEF Alone
<1>13. ASSUME mode[p] # "stat", ~ok, NEW q \in Procs \ {p}, Dirty(Host(q)) \/ CachedWriter(q)
       PROVE  /\ Host(q) \in Ahead(n) /\ "writeBack" \in Command(p, Host(q), ok)
              /\ \A c \in Ahead(n) \ {Host(q)} : Command(p, c, ok) = {}
  <2>1. \A r \in Procs : Uses(r) => r = q
    <3>1. SUFFICES ASSUME NEW r \in Procs, IsOpen(r) \/ Granted(r), r # q PROVE FALSE
      BY <1>7
    <3>2. ~Dirty(Host(q))
      BY <1>1, <3>1 DEF Alone
    <3>3. IsOpen(q) /\ mode[q] = "write" /\ CanCache(q)
      BY <1>13, <3>2 DEF CachedWriter, CanCache
    <3>4. QED
      BY <1>1, <3>1, <3>3 DEF Alone
  <2>2. Uses(q)
    BY <1>11, <1>13, <2>1
  <2>3. mode[q] = "write"
    <3>1. CASE CachedWriter(q)
      BY <3>1 DEF CachedWriter
    <3>2. CASE Dirty(Host(q))
      <4>1. pc[q] # "idle" /\ mode[q] # "stat"
        BY <1>1, <1>7, <2>2 DEF IsOpen, Granted, OpenersAgree
      <4>2. QED
        BY <1>1, <3>2, <4>1 DEF ReadersClean
    <3>3. QED
      BY <1>13, <3>1, <3>2
  <2>4. cltCached[Host(q)]
    <3>1. CASE CachedWriter(q)
      BY <1>1, <3>1 DEF CachedWriter, CachingKnown, CanCache
    <3>2. CASE Dirty(Host(q))
      BY <1>1, <1>2, <1>3, <3>2 DEF DirtyListed
    <3>3. QED
      BY <1>13, <3>1, <3>2
  <2>5. Host(q) \in Ahead(n) /\ Host(q) # Host(p)
    BY <1>2, <1>5, <1>8, <1>13, <2>2
  <2>6. "writeBack" \in Command(p, Host(q), ok)
    BY <1>8, <1>13, <2>2, <2>3, <2>4, <2>5 DEF Command, OpenCommand
  <2>7. ASSUME NEW c \in Ahead(n) \ {Host(q)} PROVE Command(p, c, ok) = {}
    <3>1. PICK r \in Procs : Host(r) = c
      BY <1>2, <1>6
    <3>2. ~Uses(r)
      BY <2>1, <2>7, <3>1
    <3>3. ~(cltUse[c]["ref"] > 0) /\ ~(cltUse[c]["write"] > 0)
      BY <1>8, <3>1, <3>2
    <3>4. QED
      BY <1>13, <3>3 DEF Command, OpenCommand
  <2>8. QED
    BY <2>5, <2>6, <2>7
<1>14. LoopFrom(p, n, ok) \/ mode[p] = "stat"
  BY <1>5, <1>13 DEF LoopFrom, DueTo
<1>15. QED
  BY <1>3, <1>4, <1>5, <1>6, <1>9, <1>12, <1>14 DEF Walks

\* Where it goes on.
LEMMA ResumeWalks ==
    ASSUME Sharing, ShareInv, NEW p \in Procs, pc[p] = "resume", NEW n, n = next,
           NEW ok, ok = cacheable
    PROVE  Walks(p, n, ok)
<1>1. /\ ListTypes /\ HolderAgrees /\ AheadUntold /\ ShareTypes /\ ToldByOther /\ LoopAgrees
  BY DEF ShareInv, ListInv
<1>2. p = holder /\ \A q \in Procs \ {p} : pc[q] \notin Holding
  BY <1>1, OneCaller DEF Holding
<1>3. Ahead(n) = Ahead(next)
  BY DEF Ahead, From
<1>4. \A c \in Ahead(n) : c \in Clients /\ Listed(c) /\ msgList[c] = {}
  BY <1>1, <1>3 DEF AheadUntold, Ahead, From, Listed, Range, ListTypes
<1>5. Commands = CommandsOf(p, ok)
  BY <1>2 DEF Commands, CommandsOf
<1>6. ASSUME mode[p] # "stat"
      PROVE  /\ ok => \A c \in Clients : ~Conflict(p, c)
             /\ ~ok => ~Dirty(Host(p))
             /\ LoopFrom(p, n, ok)
  <2>1. Serving(p)
    BY <1>6 DEF Serving, Holding
  <2>2. \A c : DueTo(p, c, ok) <=> Due(p, c)
    BY DEF DueTo, Due
  <2>3. LoopFrom(p, n, ok)
    BY <1>1, <1>3, <2>1, <2>2 DEF LoopAgrees, LoopFrom
  <2>4. QED
    BY <1>1, <2>1, <2>3 DEF LoopAgrees
<1>7. QED
  BY <1>1, <1>2, <1>4, <1>5, <1>6 DEF Walks, ToldByOther, ShareTypes


\* What StartConsistency and ResumeConsistency do besides walking.
WalkFrame(p, ok) ==
    /\ holder' = p /\ cacheable' = ok /\ ~error'
    /\ UNCHANGED <<mode, opened, version, cltVars, msgVars>>

\* The loop comes to a client that must be called back.
LEMMA NextCommandShare ==
    ASSUME Sharing, ShareInv, ListInv', NEW p \in Procs, NEW n, NEW ok, Walks(p, n, ok),
           WalkFrame(p, ok), NextCommand(p, n, ok)
    PROVE  ShareInv'
<1>1. /\ ListTypes /\ ShareTypes /\ OpenersAgree /\ CountsAgree /\ StampsAgree
      /\ MessagesAgree /\ ReadersClean /\ ReportsTrue
      /\ CachingKnown /\ DirtyLatest /\ DirtyListed /\ WriterKnown /\ Alone
      /\ GrantedClean /\ VersionsAgree /\ FreshReads
  BY DEF ShareInv, ListInv
<1>2. PICK i \in From(n) :
        /\ Command(p, clientList[i], ok) # {}
        /\ \A j \in From(n) : j < i => Command(p, clientList[j], ok) = {}
        /\ next' = IF i < Len(clientList) THEN clientList[i + 1] ELSE NoClient
        /\ call' = [to |-> clientList[i], flags |-> Command(p, clientList[i], ok),
                    stamp |-> cltStamp[clientList[i]], version |-> version]
        /\ msgList' = [msgList EXCEPT ![clientList[i]] = Command(p, clientList[i], ok)]
        /\ pc' = [pc EXCEPT ![p] = "calling"]
        /\ UNCHANGED <<listVars, lastWriter, stamp, timer>>
  BY DEF NextCommand
<1>3. PICK x : x = clientList[i]
  OBVIOUS
<1>4. PICK K : K = Command(p, x, ok)
  OBVIOUS
<1>5. x \in Ahead(n) /\ x \in Clients /\ Listed(x) /\ msgList[x] = {}
  BY <1>3 DEF Walks, Ahead
<1>6. K # {} /\ x # Host(p) /\ K \in CommandsOf(p, ok)
  BY <1>2, <1>3, <1>4, SaysDue
<1>7. /\ \A c \in Clients : msgList'[c] = IF c = x THEN K ELSE msgList[c]
      /\ \A q \in Procs : pc'[q] = IF q = p THEN "calling" ELSE pc[q]
      /\ call'.to = x /\ call'.flags = K /\ call'.stamp = cltStamp[x]
      /\ UNCHANGED <<listVars, lastWriter, stamp>>
  BY <1>1, <1>2, <1>3, <1>4, <1>5 DEF ListTypes
<1>8. \A c \in Ahead(n) : c = x \/ c \in Ahead(next)' \/ Command(p, c, ok) = {}
  <2>1. SUFFICES ASSUME NEW j \in From(n)
                 PROVE  \/ clientList[j] = x \/ clientList[j] \in Ahead(next)'
                        \/ Command(p, clientList[j], ok) = {}
    BY DEF Ahead
  <2>2. /\ i \in DOMAIN clientList /\ j \in DOMAIN clientList
        /\ DOMAIN clientList = 1 .. Len(clientList) /\ Len(clientList) \in Nat
    BY <1>1 DEF From, ListTypes
  <2>3. CASE j <= i
    <3>1. j < i \/ j = i
      BY <2>2, <2>3
    <3>2. QED
      BY <1>2, <1>3, <3>1
  <2>4. CASE i < j
    <3>1. i + 1 \in DOMAIN clientList /\ i < Len(clientList) /\ i + 1 <= j
      BY <2>2, <2>4
    <3>2. PICK m : m = clientList[i + 1]
      OBVIOUS
    <3>3. From(m) = {k \in DOMAIN clientList : i + 1 <= k}
      BY <1>1, <3>1, <3>2, FromPlace
    <3>4. clientList[j] \in Ahead(m)
      BY <2>2, <3>1, <3>3 DEF Ahead
    <3>5. Ahead(next)' = Ahead(m)
      BY <1>2, <1>7, <3>1, <3>2 DEF Ahead, From, listVars
    <3>6. QED
      BY <3>4, <3>5
  <2>5. QED
    BY <2>2, <2>3, <2>4
<1> USE DEF WalkFrame, listVars, cltVars, msgVars
<1>9. /\ pc[p] \in {"named", "awake", "resume"} /\ ok \in BOOLEAN
      /\ \A q \in Procs \ {p} : pc[q] \notin Holding
  BY DEF Walks
<1>10. \A q \in Procs : /\ Opener(q)' <=> Opener(q)
                        /\ ~Joined(q)' /\ ~Joined(q)
                        /\ Granted(q)' <=> Granted(q)
                        /\ IsOpen(q)' <=> IsOpen(q)
                        /\ Counted(q)' <=> Counted(q)
                        /\ Serving(q)' => q = p /\ mode[p] # "stat"
  BY <1>7, <1>9 DEF Opener, Joined, Granted, IsOpen, Counted, Serving, Holding
<1>11. /\ \A q \in Procs : /\ Uses(q)' <=> Uses(q)
                           /\ CanCache(q)' = CanCache(q)
                           /\ CachedWriter(q)' <=> CachedWriter(q)
       /\ \A c : Dirty(c)' <=> Dirty(c)
       /\ \A c : Listed(c)' <=> Listed(c)
  BY <1>7, <1>10 DEF Uses, CanCache, CachedWriter, Dirty, Listed
<1>12. \A q \in Procs : Host(q) \in Clients
  BY HostFacts
<1>13. ShareTypes'
  BY <1>1, <1>7, <1>9 DEF ShareTypes
<1>14. OpenersAgree'
  BY <1>1, <1>7, <1>10 DEF OpenersAgree
<1>15. CountsAgree'
  BY <1>1, <1>7, <1>11 DEF CountsAgree
<1>16. StampsAgree'
  BY <1>1, <1>7, <1>10, <1>11 DEF StampsAgree
<1>17. /\ \A m \in work : m.to # x /\ m.to \in Clients
       /\ \A r \in reports : r.from # x /\ r.from \in Clients
  BY <1>1, <1>5 DEF MessagesAgree, ShareTypes
<1>18. MessagesAgree'
  BY <1>1, <1>5, <1>6, <1>7, <1>17 DEF MessagesAgree
<1>19. ToldByOther'
  <2>1. Commands' = CommandsOf(p, ok)
    BY <1>7 DEF Commands, CommandsOf
  <2>2. \A c \in Clients : msgList'[c] # {} => c # Host(p) /\ msgList'[c] \in CommandsOf(p, ok)
    BY <1>6, <1>7 DEF Walks
  <2>3. QED
    BY <2>1, <2>2 DEF ToldByOther
<1>20. ASSUME NEW q \in Procs, Host(q) = x, Dirty(x) \/ CachedWriter(q), K # {"attrs"}, ~ok
       PROVE  "writeBack" \in K
  <2>1. mode[p] # "stat" /\ q # p
    BY <1>6, <1>20 DEF CommandsOf
  <2>2. QED
    BY <1>4, <1>5, <1>20, <2>1 DEF Walks, LoopFrom
<1>21. ReadersClean'
  <2>1. K = {"invalidate"} => ~ok
    BY <1>6 DEF CommandsOf
  <2>2. ASSUME K = {"invalidate"} PROVE ~Dirty(x)
    <3>1. PICK q \in Procs : Host(q) = x
      BY <1>5, HostFacts
    <3>2. QED
      BY <1>20, <2>1, <2>2, <3>1
  <2>3. ASSUME NEW q \in Procs, Host(q) = x, K \in {{"invalidate"}, {"writeBack"}}, CachedWriter(q)
        PROVE  FALSE
    <3>1. CASE K = {"invalidate"}
      BY <1>20, <2>1, <2>3, <3>1
    <3>2. CASE K = {"writeBack"}
      <4>1. ok /\ mode[p] # "stat"
        BY <1>6, <3>2 DEF CommandsOf
      <4>2. cltUse[x]["write"] > 0
        BY <1>1, <2>3, UseFacts DEF CachedWriter, Uses
      <4>3. QED
        BY <1>5, <1>6, <4>1, <4>2 DEF Walks, Conflict
    <3>3. QED
      BY <2>3, <3>1, <3>2
  <2>4. \A q \in Procs : pc'[q] # "idle" => pc[q] # "idle"
    BY <1>7, <1>9
  <2>5. QED
    BY <1>1, <1>7, <1>11, <1>12, <2>2, <2>3, <2>4 DEF ReadersClean
<1>22. ReportsTrue'
  BY <1>1, <1>7, <1>11, <1>17 DEF ReportsTrue
<1>23. LoopAgrees'
  <2> SUFFICES ASSUME mode[p] # "stat"
               PROVE  /\ ok => \A c \in Clients : ~Conflict(p, c)
                      /\ ~ok => ~Dirty(Host(p))
                      /\ \A c \in Clients : DueTo(p, c, ok) => msgList'[c] # {} \/ c \in Ahead(next)'
                      /\ ~ok => \A q \in Procs \ {p} :
                            Dirty(Host(q)) \/ CachedWriter(q) => "writeBack" \in msgList'[Host(q)]
    <3>1. \A c : (Conflict(p, c)' <=> Conflict(p, c)) /\ (Due(p, c)' <=> DueTo(p, c, ok))
      BY <1>7, <1>11 DEF Conflict, Due, DueTo
    <3>2. pc'[p] \in Walking
      BY <1>7 DEF Walking
    <3>3. QED
      BY <1>10, <1>11, <3>1, <3>2 DEF LoopAgrees
  <2>1. /\ ok => \A c \in Clients : ~Conflict(p, c)
        /\ ~ok => ~Dirty(Host(p))
        /\ LoopFrom(p, n, ok)
    BY DEF Walks
  <2>2. ASSUME NEW c \in Clients, DueTo(p, c, ok) PROVE msgList'[c] # {} \/ c \in Ahead(next)'
    <3>1. Command(p, c, ok) # {}
      BY <2>2, SaysDue
    <3>2. msgList[c] # {} \/ c \in Ahead(n)
      BY <2>1, <2>2 DEF LoopFrom
    <3>3. QED
      BY <1>6, <1>7, <1>8, <3>1, <3>2
  <2>3. ASSUME ~ok, NEW q \in Procs \ {p}, Dirty(Host(q)) \/ CachedWriter(q)
        PROVE  "writeBack" \in msgList'[Host(q)]
    <3>1. CASE "writeBack" \in msgList[Host(q)]
      BY <1>5, <1>7, <1>12, <3>1
    <3>2. CASE /\ Host(q) \in Ahead(n) /\ "writeBack" \in Command(p, Host(q), ok)
               /\ \A c \in Ahead(n) \ {Host(q)} : Command(p, c, ok) = {}
      BY <1>4, <1>5, <1>6, <1>7, <1>12, <3>2
    <3>3. QED
      BY <2>1, <2>3, <3>1, <3>2 DEF LoopFrom
  <2>4. QED
    BY <2>1, <2>2, <2>3
<1>24. CachingKnown'
  BY <1>1, <1>7, <1>10, <1>11 DEF CachingKnown
<1>25. DirtyListed'
  BY <1>1, <1>5, <1>7, <1>11 DEF DirtyListed
<1>26. DirtyLatest' /\ Alone' /\ GrantedClean'
  BY <1>1, <1>10, <1>11 DEF DirtyLatest, Alone, GrantedClean
<1>27. WriterKnown'
  BY <1>1, <1>7, <1>10, <1>11 DEF WriterKnown
<1>28. VersionsAgree'
  <2>1. Base' = Base
    BY <1>10, BaseKept
  <2>2. QED
    BY <1>1, <1>10, <1>11, <2>1 DEF VersionsAgree
<1>29. FreshReads'
  BY <1>1, <1>10 DEF FreshReads, ReadsFresh, IsOpen
<1>30. QED
  BY <1>13, <1>14, <1>15, <1>16, <1>18, <1>19, <1>21, <1>22, <1>23, <1>24, <1>25, <1>26,
     <1>27, <1>28, <1>29 DEF ShareInv


\* A client joins the list if it is not in it.
LEMMA ListJoined ==
    ASSUME ListTypes, NEW x \in Clients,
           clientList' = IF Listed(x) THEN clientList ELSE <<x>> \o clientList
    PROVE  \A c : Listed(c)' <=> Listed(c) \/ c = x
<1>1. CASE Listed(x)
  BY <1>1 DEF Listed
<1>2. CASE ~Listed(x)
  <2>1. clientList' = <<x>> \o clientList /\ clientList \in Seq(Clients)
    BY <1>2 DEF ListTypes
  <2>2. Range(<<x>> \o clientList) = {x} \cup Range(clientList)
    <3>1. <<x>> \in Seq(Clients) /\ Len(<<x>>) = 1 /\ <<x>>[1] = x
      OBVIOUS
    <3>2. /\ Len(<<x>> \o clientList) = 1 + Len(clientList)
          /\ DOMAIN clientList = 1 .. Len(clientList) /\ Len(clientList) \in Nat
          /\ DOMAIN (<<x>> \o clientList) = 1 .. 1 + Len(clientList)
          /\ \A i \in 1 .. 1 + Len(clientList) :
                (<<x>> \o clientList)[i] = IF i <= 1 THEN x ELSE clientList[i - 1]
      BY <2>1, <3>1
    <3>3. (<<x>> \o clientList)[1] = x
      BY <3>2
    <3>4. \A j \in DOMAIN clientList :
             /\ j + 1 \in 1 .. 1 + Len(clientList) /\ ~(j + 1 <= 1) /\ (j + 1) - 1 = j
      BY <3>2
    <3>5. \A j \in DOMAIN clientList : (<<x>> \o clientList)[j + 1] = clientList[j]
      BY <3>2, <3>4
    <3>6. \A i \in 1 .. 1 + Len(clientList) : i <= 1 \/ i - 1 \in DOMAIN clientList
      BY <3>2
    <3>7. \A c : c \in Range(<<x>> \o clientList) <=> c = x \/ c \in Range(clientList)
      <4>1. 1 \in DOMAIN (<<x>> \o clientList)
        BY <3>2
      <4>2. QED
        BY <3>2, <3>3, <3>4, <3>5, <3>6, <4>1 DEF Range
    <3>8. QED
      BY <3>7
  <2>3. QED
    BY <2>1, <2>2 DEF Listed
<1>3. QED
  BY <1>1, <1>2

\* UpdateList, for a client that does not use the file.
LEMMA UpdateListJoins ==
    ASSUME ListTypes, ShareTypes, NEW p \in Procs, Host(p) \in Clients, NEW ok \in BOOLEAN,
           UpdateList(p, ok), cltUse[Host(p)] = NoUse
    PROVE  /\ \A c : Listed(c)' <=> Listed(c) \/ c = Host(p)
           /\ cltUse' \in [Clients -> [Kinds -> Int]]
           /\ \A c \in Clients : cltUse'[c] = IF c = Host(p) THEN UseOf(mode[p]) ELSE cltUse[c]
           /\ cltCached' \in [Clients -> BOOLEAN] /\ cltStamp' \in [Clients -> Int]
           /\ cltCached'[Host(p)] = ok /\ cltStamp'[Host(p)] = stamp'
           /\ \A c \in Clients \ {Host(p)} : cltCached'[c] = cltCached[c] /\ cltStamp'[c] = cltStamp[c]
           /\ stamp' = stamp + 1 /\ stamp' \in Int
           /\ lastWriter' = IF ok /\ mode[p] = "write" THEN Host(p) ELSE lastWriter
<1>1. PICK x \in Clients : x = Host(p)
  OBVIOUS
<1>2. /\ clientList' = IF Listed(x) THEN clientList ELSE <<x>> \o clientList
      /\ cltUse' = [cltUse EXCEPT ![x] = Plus(cltUse[x], UseOf(mode[p]))]
      /\ cltCached' = [cltCached EXCEPT ![x] = ok]
      /\ lastWriter' = IF ok /\ mode[p] = "write" THEN x ELSE lastWriter
      /\ stamp' = stamp + 1
      /\ cltStamp' = [cltStamp EXCEPT ![x] = stamp']
  BY <1>1 DEF UpdateList
<1>3. \A c : Listed(c)' <=> Listed(c) \/ c = x
  BY <1>2, ListJoined
<1>4. Plus(cltUse[x], UseOf(mode[p])) = UseOf(mode[p]) /\ UseOf(mode[p]) \in [Kinds -> Int]
  BY <1>1 DEF Plus, NoUse, UseOf
<1>5. /\ cltUse' \in [Clients -> [Kinds -> Int]]
      /\ \A c \in Clients : cltUse'[c] = IF c = x THEN UseOf(mode[p]) ELSE cltUse[c]
  BY <1>2, <1>4 DEF ShareTypes
<1>6. stamp' = stamp + 1 /\ stamp' \in Int
  BY <1>2 DEF ShareTypes
<1>7. /\ cltCached' \in [Clients -> BOOLEAN] /\ cltStamp' \in [Clients -> Int]
      /\ cltCached'[x] = ok /\ cltStamp'[x] = stamp'
      /\ \A c \in Clients \ {x} : cltCached'[c] = cltCached[c] /\ cltStamp'[c] = cltStamp[c]
  BY <1>2, <1>6 DEF ShareTypes
<1>8. QED
  BY <1>1, <1>2, <1>3, <1>5, <1>6, <1>7

\* The loop ends, and the client of an open joins the list.
LEMMA LastCommandShare ==
    ASSUME Sharing, ShareInv, ListInv', NEW p \in Procs, NEW n, NEW ok, Walks(p, n, ok),
           WalkFrame(p, ok), LastCommand(p, n, ok)
    PROVE  ShareInv'
<1>1. /\ ListTypes /\ ShareTypes /\ OpenersAgree /\ CountsAgree /\ StampsAgree
      /\ MessagesAgree /\ ReadersClean /\ ReportsTrue
      /\ CachingKnown /\ DirtyLatest /\ DirtyListed /\ WriterKnown /\ Alone
      /\ GrantedClean /\ VersionsAgree /\ FreshReads
  BY DEF ShareInv, ListInv
<1>2. /\ msgList' = msgList /\ pc' = [pc EXCEPT ![p] = "ending"]
      /\ mode[p] = "stat" => UNCHANGED <<listVars, lastWriter, stamp>>
      /\ mode[p] # "stat" => UpdateList(p, ok)
      /\ \A c \in Ahead(n) : Command(p, c, ok) = {}
  BY DEF LastCommand, Ahead
<1> USE DEF WalkFrame, listVars, cltVars, msgVars
<1>3. /\ pc[p] \in {"named", "awake", "resume"} /\ ok \in BOOLEAN
      /\ \A q \in Procs \ {p} : pc[q] \notin Holding
  BY DEF Walks
<1>4. \A q \in Procs : pc'[q] = IF q = p THEN "ending" ELSE pc[q]
  BY <1>1, <1>2 DEF ListTypes
<1>5. /\ \A q \in Procs : Host(q) \in Clients
      /\ \A q \in Procs : Host(q) = Host(p) => q = p
      /\ \A c \in Clients : \E q \in Procs : Host(q) = c
  BY HostFacts
<1>6. \A q \in Procs : /\ Opener(q)' <=> Opener(q)
                       /\ Joined(q)' <=> q = p /\ mode[p] # "stat"
                       /\ ~Joined(q)
                       /\ Granted(q)' <=> Granted(q)
                       /\ IsOpen(q)' <=> IsOpen(q)
                       /\ Counted(q)' <=> Counted(q)
                       /\ Serving(q)' => q = p /\ mode[p] # "stat"
  BY <1>3, <1>4 DEF Opener, Joined, Granted, IsOpen, Counted, Serving, Holding
<1>7. /\ \A q \in Procs : /\ Uses(q)' <=> Uses(q) \/ (q = p /\ mode[p] # "stat")
                          /\ CanCache(q)' = CanCache(q)
                          /\ CachedWriter(q)' <=> CachedWriter(q)
      /\ \A c : Dirty(c)' <=> Dirty(c)
      /\ ~Calling'
  <2>1. ~Calling'
    BY <1>3, <1>4 DEF Calling, Holding
  <2>2. QED
    BY <1>6, <2>1 DEF Uses, CanCache, CachedWriter, Dirty
<1>8. ~Uses(p) /\ ~Granted(p) /\ ~IsOpen(p)
  BY <1>3 DEF Uses, Joined, Granted, IsOpen
<1>9. cltUse[Host(p)] = NoUse
  BY <1>1, <1>8 DEF CountsAgree
<1>10. ASSUME mode[p] # "stat"
       PROVE  /\ \A c : Listed(c)' <=> Listed(c) \/ c = Host(p)
              /\ cltUse' \in [Clients -> [Kinds -> Int]]
              /\ \A c \in Clients : cltUse'[c] = IF c = Host(p) THEN UseOf(mode[p]) ELSE cltUse[c]
              /\ cltCached' \in [Clients -> BOOLEAN] /\ cltStamp' \in [Clients -> Int]
              /\ cltCached'[Host(p)] = ok /\ cltStamp'[Host(p)] = stamp'
              /\ \A c \in Clients \ {Host(p)} : cltCached'[c] = cltCached[c] /\ cltStamp'[c] = cltStamp[c]
              /\ stamp' = stamp + 1 /\ stamp' \in Int
              /\ lastWriter' = IF ok /\ mode[p] = "write" THEN Host(p) ELSE lastWriter
  BY <1>1, <1>2, <1>3, <1>5, <1>9, <1>10, UpdateListJoins
<1>11. mode[p] = "stat" => /\ UNCHANGED <<clientList, cltUse, cltCached, cltStamp, lastWriter, stamp>>
                           /\ \A c : Listed(c)' <=> Listed(c)
  BY <1>2 DEF Listed
<1>12. mode[p] # "stat" => \A q \in Procs : ~Granted(q)
  <2>1. mode[p] # "stat" => Opener(p)
    BY <1>3 DEF Opener
  <2>2. \A q \in Procs : Granted(q) => Opener(q)
    BY DEF Granted, Opener
  <2>3. QED
    BY <1>1, <1>8, <2>1, <2>2 DEF OpenersAgree
<1>13. ASSUME mode[p] # "stat", NEW c \in Clients, DueTo(p, c, ok) PROVE msgList[c] # {}
  BY <1>2, <1>13, SaysDue DEF Walks, LoopFrom
<1>14. \A c \in Clients : msgList[c] # {} => c # Host(p) /\ msgList[c] \in CommandsOf(p, ok)
  BY DEF Walks
<1>15. ShareTypes'
  BY <1>1, <1>3, <1>10, <1>11 DEF ShareTypes
<1>16. OpenersAgree'
  BY <1>1, <1>4, <1>6 DEF OpenersAgree
<1>17. CountsAgree'
  BY <1>1, <1>5, <1>7, <1>10, <1>11 DEF CountsAgree
<1>18. StampsAgree'
  <2>1. CASE mode[p] = "stat"
    BY <1>1, <1>6, <1>11, <2>1 DEF StampsAgree
  <2>2. CASE mode[p] # "stat"
    <3>1. /\ stamp' = stamp + 1 /\ cltStamp'[Host(p)] = stamp' /\ stamp \in Int
          /\ \A c \in Clients \ {Host(p)} : cltStamp'[c] = cltStamp[c]
      BY <1>1, <1>10, <2>2 DEF ShareTypes
    <3>2. \A c \in Clients : handle[c].stamp \in Int /\ cltStamp[c] \in Int
      BY <1>1 DEF ShareTypes, Handles
    <3>3. stamp' >= 0 /\ \A c \in Clients : handle'[c].stamp <= stamp' /\ cltStamp'[c] <= stamp'
      BY <1>1, <3>1, <3>2 DEF StampsAgree
    <3>4. \A q \in Procs \ {p} : /\ Listed(Host(q))' <=> Listed(Host(q))
                                 /\ cltStamp'[Host(q)] = cltStamp[Host(q)]
      BY <1>5, <1>10, <2>2
    <3>5. QED
      BY <1>1, <1>6, <1>8, <1>12, <2>2, <3>1, <3>3, <3>4 DEF StampsAgree
  <2>3. QED
    BY <2>1, <2>2
<1>19. MessagesAgree'
  BY <1>1, <1>2, <1>7 DEF MessagesAgree
<1>20. ToldByOther'
  <2>1. Commands' = CommandsOf(p, ok)
    BY DEF Commands, CommandsOf
  <2>2. QED
    BY <1>2, <1>14, <2>1 DEF ToldByOther
<1>21. ReadersClean'
  BY <1>1, <1>2, <1>3, <1>4, <1>7 DEF ReadersClean
<1>22. ReportsTrue'
  BY <1>1, <1>2, <1>7 DEF ReportsTrue
<1>23. LoopAgrees'
  <2> SUFFICES ASSUME mode[p] # "stat"
               PROVE  /\ ok => \A c \in Clients : ~Conflict(p, c)'
                      /\ ~ok => ~Dirty(Host(p))
                      /\ \A c \in Clients : Due(p, c)' => msgList[c] # {}
                      /\ ~ok => \A q \in Procs \ {p} :
                            Dirty(Host(q)) \/ CachedWriter(q) => "writeBack" \in msgList[Host(q)]
    BY <1>2, <1>6, <1>7 DEF LoopAgrees
  <2>1. /\ ok => \A c \in Clients : ~Conflict(p, c)
        /\ ~ok => ~Dirty(Host(p))
        /\ LoopFrom(p, n, ok)
    BY DEF Walks
  <2>2. \A c \in Clients : Conflict(p, c)' => Conflict(p, c)
    BY <1>10 DEF Conflict
  <2>3. \A c \in Clients : Due(p, c)' => DueTo(p, c, ok)
    BY <1>10 DEF Due, DueTo
  <2>4. ~ok => \A q \in Procs \ {p} :
            Dirty(Host(q)) \/ CachedWriter(q) => "writeBack" \in msgList[Host(q)]
    BY <1>2, <2>1 DEF LoopFrom
  <2>5. QED
    BY <1>13, <2>1, <2>2, <2>3, <2>4
<1>24. CachingKnown'
  <2>1. \A q \in Procs \ {p} : cltCached'[Host(q)] = cltCached[Host(q)]
    BY <1>5, <1>10, <1>11
  <2>2. \A q \in Procs : IsOpen(q) \/ Granted(q) => (CanCache(q) => cltCached'[Host(q)])
    BY <1>1, <1>8, <2>1 DEF CachingKnown
  <2>3. QED
    BY <1>1, <1>6, <1>7, <1>10, <2>2 DEF CachingKnown
<1>25. DirtyListed'
  <2>1. CASE mode[p] = "stat"
    BY <1>1, <1>2, <1>7, <1>11, <2>1 DEF DirtyListed
  <2>2. CASE mode[p] # "stat"
    <3>1. ASSUME NEW c \in Clients, Dirty(c)
          PROVE  Listed(c)' /\ ((lastWriter' = c /\ cltCached'[c]) \/ "writeBack" \in msgList[c])
      <4>1. Listed(c) /\ ((lastWriter = c /\ cltCached[c]) \/ "writeBack" \in msgList[c])
        BY <1>1, <3>1 DEF DirtyListed
      <4>2. CASE c = Host(p)
        <5>1. ok
          BY <2>2, <3>1, <4>2 DEF Walks
        <5>2. QED
          BY <1>10, <1>14, <2>2, <4>1, <4>2, <5>1
      <4>3. CASE c # Host(p)
        <5>1. ASSUME lastWriter = c, cltCached[c], ok PROVE "writeBack" \in msgList[c]
          <6>1. msgList[c] # {}
            BY <1>13, <2>2, <4>1, <4>3, <5>1 DEF DueTo
          <6>2. QED
            BY <1>14, <2>2, <5>1, <6>1 DEF CommandsOf
        <5>2. QED
          BY <1>10, <2>2, <4>1, <4>3, <5>1
      <4>4. QED
        BY <4>2, <4>3
    <3>2. QED
      BY <1>2, <1>7, <3>1 DEF DirtyListed
  <2>3. QED
    BY <2>1, <2>2
<1>26. DirtyLatest' /\ Alone' /\ GrantedClean'
  BY <1>1, <1>6, <1>7 DEF DirtyLatest, Alone, GrantedClean
<1>27. WriterKnown'
  <2>1. CASE mode[p] = "stat"
    BY <1>1, <1>6, <1>7, <1>11, <2>1 DEF WriterKnown
  <2>2. CASE mode[p] # "stat"
    <3>1. ASSUME NEW q \in Procs, mode[q] = "write", IsOpen(q) \/ Granted(q), CanCache(q)
          PROVE  lastWriter' = Host(q)
      <4>1. lastWriter = Host(q) /\ q # p
        BY <1>1, <1>8, <3>1 DEF WriterKnown
      <4>2. Conflict(p, Host(q))
        BY <1>1, <1>5, <3>1, <4>1, UseFacts DEF Conflict, Uses
      <4>3. ~ok
        BY <1>5, <2>2, <4>2 DEF Walks
      <4>4. QED
        BY <1>10, <2>2, <4>1, <4>3
    <3>2. QED
      BY <1>6, <1>7, <1>10, <2>2, <3>1 DEF WriterKnown
  <2>3. QED
    BY <2>1, <2>2
<1>28. VersionsAgree'
  <2>1. Base' = Base
    BY <1>6, BaseKept
  <2>2. QED
    BY <1>1, <1>6, <1>7, <2>1 DEF VersionsAgree
<1>29. FreshReads'
  BY <1>1, <1>6 DEF FreshReads, ReadsFresh, IsOpen
<1>30. QED
  BY <1>15, <1>16, <1>17, <1>18, <1>19, <1>20, <1>21, <1>22, <1>23, <1>24, <1>25, <1>26,
     <1>27, <1>28, <1>29 DEF ShareInv

LEMMA WalkShare ==
    ASSUME Sharing, ShareInv, ListInv', NEW p \in Procs,
           StartConsistency(p) \/ ResumeConsistency(p)
    PROVE  ShareInv'
<1>1. CASE StartConsistency(p)
  <2>1. PICK n : n = IF clientList = <<>> THEN NoClient ELSE Head(clientList)
    OBVIOUS
  <2>2. PICK ok : ok = CacheableBy(p)
    OBVIOUS
  <2>3. Walks(p, n, ok)
    BY <1>1, <2>1, <2>2, StartWalks DEF StartConsistency
  <2>4. WalkFrame(p, ok) /\ Continue(p, n, ok)
    BY <1>1, <2>1, <2>2 DEF StartConsistency, WalkFrame
  <2>5. QED
    BY <2>3, <2>4, NextCommandShare, LastCommandShare DEF Continue
<1>2. CASE ResumeConsistency(p)
  <2>1. PICK n : n = next
    OBVIOUS
  <2>2. PICK ok : ok = cacheable
    OBVIOUS
  <2>3. Walks(p, n, ok)
    BY <1>2, <2>1, <2>2, ResumeWalks DEF ResumeConsistency
  <2>4. holder = p /\ ~error
    BY <1>2, OneCaller DEF ResumeConsistency, ShareInv, OpenersAgree, ListInv, Holding
  <2>5. WalkFrame(p, ok) /\ Continue(p, n, ok)
    BY <1>2, <2>1, <2>2, <2>4 DEF ResumeConsistency, WalkFrame
  <2>6. QED
    BY <2>3, <2>5, NextCommandShare, LastCommandShare DEF Continue
<1>3. QED
  BY <1>1, <1>2


\* The end of EndConsistency: the open is granted.  All clients have reported, so that
\* nobody else has dirty blocks, and nobody else caches if there is a writer.
LEMMA EndShare ==
    ASSUME Sharing, ShareInv, ListInv', NEW p \in Procs, EndConsistency(p)
    PROVE  ShareInv'
<1>1. /\ ListTypes /\ HolderAgrees /\ ShareTypes /\ OpenersAgree /\ CountsAgree /\ StampsAgree
      /\ MessagesAgree /\ ReadersClean /\ ReportsTrue /\ LoopAgrees
      /\ CachingKnown /\ DirtyLatest /\ DirtyListed /\ WriterKnown /\ Alone
      /\ GrantedClean /\ VersionsAgree /\ FreshReads
  BY DEF ShareInv, ListInv
<1>2. /\ pc[p] \in {"ending", "replies"} /\ \A c \in Clients : msgList[c] = {}
      /\ ~error' /\ cacheable' = FALSE
      /\ opened' = [opened EXCEPT ![p] = IF mode[p] = "stat" THEN NotOpened ELSE OpenReply]
      /\ UNCHANGED <<mode, fileVars, listVars, lastWriter, msgList, next, call, cltVars, msgVars>>
  BY <1>1 DEF EndConsistency, OpenersAgree, AllReported
<1>3. \A q \in Procs : pc'[q] = IF q = p THEN IF mode[p] = "stat" THEN "idle" ELSE "replied"
                                ELSE IF pc[q] = "asleep" THEN "awake" ELSE pc[q]
  BY <1>1 DEF EndConsistency, OpenersAgree
<1>4. p = holder /\ \A q \in Procs : pc[q] \in Holding => q = p
  BY <1>1, <1>2, OneCaller DEF Holding
<1>5. /\ \A q \in Procs : Host(q) \in Clients
      /\ \A q \in Procs : Host(q) = Host(p) => q = p
      /\ \A c \in Clients : \E q \in Procs : Host(q) = c
  BY HostFacts
<1> USE DEF fileVars, listVars, cltVars, msgVars
<1>6. /\ opened' \in [Procs -> [ok : BOOLEAN, version : Int, stamp : Int, cacheable : BOOLEAN]]
      /\ \A q \in Procs \ {p} : opened'[q] = opened[q]
      /\ mode[p] # "stat" => opened'[p] = OpenReply
  <2>1. OpenReply \in [ok : BOOLEAN, version : Int, stamp : Int, cacheable : BOOLEAN]
    BY <1>1 DEF OpenReply, ShareTypes
  <2>2. NotOpened \in [ok : BOOLEAN, version : Int, stamp : Int, cacheable : BOOLEAN]
    BY DEF NotOpened
  <2>3. QED
    BY <1>1, <1>2, <2>1, <2>2 DEF ShareTypes
<1>7. mode[p] # "stat" => /\ opened'[p].ok /\ opened'[p].version = version
                          /\ opened'[p].stamp = stamp /\ opened'[p].cacheable = cacheable
  BY <1>6 DEF OpenReply
<1>8. \A q \in Procs : /\ Opener(q)' <=> Opener(q)
                       /\ ~Joined(q)' /\ ~Serving(q)'
                       /\ Joined(q) <=> q = p /\ mode[p] # "stat"
                       /\ Granted(q)' <=> Granted(q) \/ (q = p /\ mode[p] # "stat")
                       /\ IsOpen(q)' <=> IsOpen(q)
                       /\ Counted(q)' <=> Counted(q)
  <2>1. ASSUME NEW q \in Procs, q # p
        PROVE  /\ Opener(q)' <=> Opener(q)
               /\ ~Joined(q)' /\ ~Serving(q)' /\ ~Joined(q)
               /\ Granted(q)' <=> Granted(q)
               /\ IsOpen(q)' <=> IsOpen(q)
               /\ Counted(q)' <=> Counted(q)
    <3>1. /\ pc'[q] = pc[q] \/ (pc[q] = "asleep" /\ pc'[q] = "awake")
          /\ pc[q] \notin Holding /\ mode'[q] = mode[q] /\ opened'[q] = opened[q]
      BY <1>2, <1>3, <1>4, <1>6, <2>1
    <3>2. QED
      BY <3>1 DEF Opener, Joined, Granted, IsOpen, Counted, Serving, Holding
  <2>2. /\ Opener(p)' <=> Opener(p)
        /\ ~Joined(p)' /\ ~Serving(p)'
        /\ Joined(p) <=> mode[p] # "stat"
        /\ Granted(p)' <=> mode[p] # "stat"
        /\ ~Granted(p) /\ ~IsOpen(p) /\ ~IsOpen(p)'
        /\ Counted(p)' <=> Counted(p)
    BY <1>2, <1>3, <1>7 DEF Opener, Joined, Granted, IsOpen, Counted, Serving, Holding
  <2>3. QED
    BY <2>1, <2>2
<1>9. /\ \A q \in Procs : /\ Uses(q)' <=> Uses(q)
                          /\ q # p => CanCache(q)' = CanCache(q)
                          /\ CachedWriter(q)' <=> CachedWriter(q)
      /\ \A c : Dirty(c)' <=> Dirty(c)
      /\ \A c : Listed(c)' <=> Listed(c)
      /\ ~Calling'
      /\ ~IsOpen(p) /\ ~Granted(p)
      /\ mode[p] # "stat" => (CanCache(p)' <=> cacheable)
  <2>1. ~Calling'
    BY <1>2, <1>3, <1>4 DEF Calling, Holding
  <2>2. ~IsOpen(p) /\ ~Granted(p)
    BY <1>2 DEF IsOpen, Granted
  <2>3. QED
    BY <1>2, <1>6, <1>7, <1>8, <2>1, <2>2 DEF Uses, CanCache, CachedWriter, Dirty, Listed
<1>10. ShareTypes'
  BY <1>1, <1>2, <1>6 DEF ShareTypes
<1>11. OpenersAgree'
  BY <1>1, <1>2, <1>3, <1>8 DEF OpenersAgree
<1>12. CountsAgree'
  BY <1>1, <1>2, <1>9 DEF CountsAgree
<1>13. StampsAgree'
  <2>1. \A q \in Procs : Granted(q)' =>
          opened'[q].stamp = stamp /\ opened'[q].version = version /\ cltStamp[Host(q)] = stamp
    <3>1. ASSUME NEW q \in Procs, Granted(q), q # p
          PROVE  /\ opened'[q].stamp = stamp /\ opened'[q].version = version
                 /\ cltStamp[Host(q)] = stamp
      BY <1>1, <1>6, <3>1 DEF StampsAgree
    <3>2. mode[p] # "stat" => cltStamp[Host(p)] = stamp
      BY <1>1, <1>8 DEF StampsAgree
    <3>3. QED
      BY <1>7, <1>8, <1>9, <3>1, <3>2
  <2>2. \A q \in Procs : ~Joined(q)' /\ ~Granted(q)' => ~Joined(q) /\ ~Granted(q)
    BY <1>8
  <2>3. QED
    BY <1>1, <1>2, <1>8, <1>9, <2>1, <2>2 DEF StampsAgree
<1>14. MessagesAgree'
  BY <1>1, <1>2, <1>9 DEF MessagesAgree
<1>15. ToldByOther'
  BY <1>2 DEF ToldByOther
<1>16. ReadersClean'
  <2>1. \A q \in Procs : pc'[q] # "idle" => pc[q] # "idle"
    BY <1>2, <1>3
  <2>2. QED
    BY <1>1, <1>2, <1>9, <2>1 DEF ReadersClean
<1>17. ReportsTrue' /\ LoopAgrees'
  BY <1>1, <1>2, <1>8, <1>9 DEF ReportsTrue, LoopAgrees
<1>18. CachingKnown'
  BY <1>1, <1>2, <1>8, <1>9 DEF CachingKnown
<1>19. DirtyLatest' /\ DirtyListed'
  BY <1>1, <1>2, <1>9 DEF DirtyLatest, DirtyListed
<1>20. WriterKnown'
  BY <1>1, <1>2, <1>8, <1>9 DEF WriterKnown
<1>21. ASSUME mode[p] # "stat"
       PROVE  /\ cacheable => \A c \in Clients : ~Conflict(p, c)
              /\ ~cacheable => ~Dirty(Host(p))
              /\ \A c \in Clients : ~Due(p, c)
              /\ ~cacheable => \A q \in Procs \ {p} : ~Dirty(Host(q)) /\ ~CachedWriter(q)
              /\ \A q \in Procs : ~Granted(q)
  <2>1. Serving(p) /\ pc[p] \notin Walking /\ Opener(p)
    BY <1>2, <1>21 DEF Serving, Holding, Walking, Opener
  <2>2. \A q \in Procs : Granted(q) => Opener(q)
    BY DEF Granted, Opener
  <2>3. \A q \in Procs : ~Granted(q)
    BY <1>1, <1>9, <2>1, <2>2 DEF OpenersAgree
  <2>4. \A q \in Procs : "writeBack" \notin msgList[Host(q)]
    BY <1>2, <1>5
  <2>5. QED
    BY <1>1, <1>2, <2>1, <2>3, <2>4 DEF LoopAgrees
<1>22. Alone'
  <2>1. SUFFICES ASSUME NEW a \in Procs, NEW b \in Procs, a # b, (IsOpen(b) \/ Granted(b))'
                 PROVE  /\ ~Dirty(Host(a))
                        /\ (IsOpen(a) \/ Granted(a))' /\ mode[a] = "write" =>
                              ~CanCache(a)' /\ ~CanCache(b)'
    BY <1>2, <1>9 DEF Alone
  <2>2. CASE mode[p] = "stat" \/ (a # p /\ b # p)
    BY <1>1, <1>8, <1>9, <2>1, <2>2 DEF Alone
  <2>3. CASE mode[p] # "stat" /\ b = p
    <3>1. ~Dirty(Host(a))
      <4>1. CASE ~cacheable
        BY <1>21, <2>1, <2>3, <4>1
      <4>2. CASE cacheable
        <5>1. ASSUME Dirty(Host(a)) PROVE Due(p, Host(a))
          BY <1>1, <1>2, <1>5, <2>1, <2>3, <4>2, <5>1 DEF DirtyListed, Due
        <5>2. QED
          BY <1>5, <1>21, <2>3, <5>1
      <4>3. QED
        BY <4>1, <4>2
    <3>2. ASSUME (IsOpen(a) \/ Granted(a))', mode[a] = "write" PROVE ~CanCache(a)' /\ ~CanCache(b)'
      <4>1. IsOpen(a)
        BY <1>8, <1>21, <2>1, <2>3, <3>2
      <4>2. Conflict(p, Host(a))
        BY <1>1, <1>5, <2>1, <2>3, <3>2, <4>1, UseFacts DEF Conflict, Uses
      <4>3. ~cacheable
        BY <1>5, <1>21, <2>3, <4>2
      <4>4. ~CachedWriter(a)
        BY <1>21, <2>1, <2>3, <4>3
      <4>5. ~CanCache(a)
        BY <3>2, <4>1, <4>4 DEF CachedWriter, CanCache
      <4>6. QED
        BY <1>9, <2>1, <2>3, <4>3, <4>5
    <3>3. QED
      BY <3>1, <3>2
  <2>4. CASE mode[p] # "stat" /\ a = p
    <3>1. IsOpen(b)
      BY <1>8, <1>21, <2>1, <2>4
    <3>2. ~Dirty(Host(a))
      BY <1>1, <2>1, <3>1 DEF Alone
    <3>3. ASSUME mode[p] = "write" PROVE ~CanCache(p)' /\ ~CanCache(b)'
      <4>1. cltUse[Host(b)]["ref"] > 0 /\ Host(b) # Host(p) /\ Listed(Host(b))
        BY <1>1, <1>5, <2>1, <2>4, <3>1, UseFacts DEF Uses, CountsAgree
      <4>2. Conflict(p, Host(b))
        BY <3>3, <4>1 DEF Conflict
      <4>3. ~cacheable
        BY <1>5, <1>21, <2>4, <4>2
      <4>4. ~cltCached[Host(b)]
        BY <1>5, <1>21, <2>4, <4>1, <4>3 DEF Due
      <4>5. ~CanCache(b)
        BY <1>1, <3>1, <4>4 DEF CachingKnown
      <4>6. QED
        BY <1>9, <2>1, <2>4, <4>3, <4>5
    <3>4. QED
      BY <2>4, <3>2, <3>3
  <2>5. QED
    BY <2>2, <2>3, <2>4
<1>23. GrantedClean'
  BY <1>1, <1>6, <1>7, <1>8, <1>9, <1>21 DEF GrantedClean
<1>24. VersionsAgree'
  <2>1. Base' = Base
    BY <1>2, <1>8, BaseKept
  <2>2. QED
    BY <1>1, <1>2, <1>8, <1>9, <2>1 DEF VersionsAgree
<1>25. FreshReads'
  BY <1>1, <1>2, <1>8 DEF FreshReads, ReadsFresh, IsOpen
<1>26. QED
  BY <1>10, <1>11, <1>12, <1>13, <1>14, <1>15, <1>16, <1>17, <1>18, <1>19, <1>20, <1>22,
     <1>23, <1>24, <1>25 DEF ShareInv


\* FsRmtFileHandleInit: a block that is kept has the version before this open, which
\* makes it the latest data.
LEMMA HandleInitShare ==
    ASSUME Sharing, ShareInv, ListInv', NEW p \in Procs, FsRmtFileHandleInit(p)
    PROVE  ShareInv'
<1> DEFINE x == Host(p)
           o == opened[p]
<1>1. /\ ListTypes /\ HolderAgrees /\ ShareTypes /\ OpenersAgree /\ CountsAgree /\ StampsAgree
      /\ MessagesAgree /\ ToldByOther /\ ReadersClean /\ ReportsTrue
      /\ CachingKnown /\ DirtyLatest /\ DirtyListed /\ WriterKnown /\ Alone
      /\ GrantedClean /\ VersionsAgree /\ FreshReads
  BY DEF ShareInv, ListInv
<1>2. /\ pc[p] = "returned" /\ pc' = [pc EXCEPT ![p] = "open"]
      /\ opened' = [opened EXCEPT ![p] = NotOpened]
      /\ handle' = [handle EXCEPT ![x] =
                      [valid |-> TRUE, cacheable |-> o.cacheable,
                       version |-> IF o.version > @.version THEN o.version ELSE @.version,
                       stamp |-> IF o.stamp > @.stamp THEN o.stamp ELSE @.stamp]]
      /\ IF ~o.cacheable \/ OutOfDate(p)
         THEN /\ block' = [block EXCEPT ![x] = "none"]
              /\ fresh' = [fresh EXCEPT ![x] = FALSE]
         ELSE UNCHANGED <<block, fresh>>
      /\ UNCHANGED <<mode, opens, fileVars, listVars, infoVars, opVars, diskFresh, msgVars>>
  BY DEF FsRmtFileHandleInit
<1>3. /\ x \in Clients /\ \A q \in Procs : Host(q) \in Clients
      /\ \A q \in Procs : Host(q) = x => q = p
      /\ \A c \in Clients : \E q \in Procs : Host(q) = c
  BY HostFacts
<1>4. mode[p] # "stat" /\ Granted(p) /\ Opener(p) /\ ~IsOpen(p)
  BY <1>1, <1>2 DEF OpenersAgree, Granted, Opener, IsOpen
<1>5. o.stamp = stamp /\ o.version = version /\ cltStamp[x] = stamp /\ o.cacheable \in BOOLEAN
  BY <1>1, <1>4 DEF StampsAgree, ShareTypes
<1> USE DEF fileVars, listVars, infoVars, opVars, msgVars
<1>6. \A q \in Procs : pc'[q] = IF q = p THEN "open" ELSE pc[q]
  BY <1>1, <1>2 DEF ListTypes
<1>7. /\ opened' \in [Procs -> [ok : BOOLEAN, version : Int, stamp : Int, cacheable : BOOLEAN]]
      /\ \A q \in Procs \ {p} : opened'[q] = opened[q]
  <2>1. NotOpened \in [ok : BOOLEAN, version : Int, stamp : Int, cacheable : BOOLEAN]
    BY DEF NotOpened
  <2>2. QED
    BY <1>1, <1>2, <2>1 DEF ShareTypes
<1>8. \A q \in Procs : /\ Opener(q)' <=> Opener(q) /\ q # p
                       /\ ~Serving(q)' /\ ~Joined(q)' /\ ~Granted(q)' /\ ~Counted(q)'
                       /\ ~Joined(q) /\ (Granted(q) <=> q = p)
                       /\ IsOpen(q)' <=> IsOpen(q) \/ q = p
                       /\ Counted(q) <=> q = p /\ mode[p] = "write"
  <2>1. ASSUME NEW q \in Procs, q # p
        PROVE  /\ Opener(q)' <=> Opener(q)
               /\ ~Serving(q)' /\ ~Joined(q)' /\ ~Granted(q)' /\ ~Counted(q)'
               /\ ~Joined(q) /\ ~Granted(q) /\ ~Counted(q)
               /\ IsOpen(q)' <=> IsOpen(q)
    <3>1. ~Opener(q)
      BY <1>1, <1>4, <2>1 DEF OpenersAgree
    <3>2. pc'[q] = pc[q] /\ mode'[q] = mode[q] /\ opened'[q] = opened[q]
      BY <1>2, <1>6, <1>7, <2>1
    <3>3. QED
      BY <3>1, <3>2 DEF Opener, Serving, Joined, Granted, IsOpen, Counted, Holding
  <2>2. /\ ~Opener(p)' /\ ~Serving(p)' /\ ~Joined(p)' /\ ~Granted(p)' /\ ~Counted(p)'
        /\ ~Joined(p) /\ IsOpen(p)'
        /\ Counted(p) <=> mode[p] = "write"
    BY <1>2, <1>4, <1>6 DEF Opener, Serving, Joined, Granted, IsOpen, Counted, Holding
  <2>3. QED
    BY <1>4, <2>1, <2>2
<1>9. /\ Base = IF mode[p] = "write" THEN version - 1 ELSE version
      /\ Base' = version /\ version \in Int
  BY <1>1, <1>2, <1>8 DEF Base, ShareTypes
<1>10. handle[x].version \in Int /\ handle[x].stamp \in Int /\ stamp \in Int
  BY <1>1, <1>3 DEF ShareTypes, Handles
<1>11. handle[x].version <= version /\ handle[x].stamp <= stamp
  BY <1>1, <1>3, <1>9, <1>10 DEF VersionsAgree, StampsAgree
<1>12. /\ handle'[x] = [valid |-> TRUE, cacheable |-> o.cacheable, version |-> version,
                        stamp |-> stamp]
       /\ \A c \in Clients \ {x} : handle'[c] = handle[c]
  <2>1. handle'[x] = [valid |-> TRUE, cacheable |-> o.cacheable,
                      version |-> IF o.version > handle[x].version THEN o.version
                                  ELSE handle[x].version,
                      stamp |-> IF o.stamp > handle[x].stamp THEN o.stamp ELSE handle[x].stamp]
    BY <1>1, <1>2, <1>3 DEF ShareTypes
  <2>2. (IF o.version > handle[x].version THEN o.version ELSE handle[x].version) = version
    BY <1>5, <1>9, <1>10, <1>11
  <2>3. (IF o.stamp > handle[x].stamp THEN o.stamp ELSE handle[x].stamp) = stamp
    BY <1>5, <1>10, <1>11
  <2>4. \A c \in Clients \ {x} : handle'[c] = handle[c]
    BY <1>1, <1>2 DEF ShareTypes
  <2>5. QED
    BY <2>1, <2>2, <2>3, <2>4
<1>13. handle' \in [Clients -> Handles]
  <2>1. handle'[x] \in Handles
    BY <1>5, <1>9, <1>10, <1>12 DEF Handles
  <2>2. handle' = [handle EXCEPT ![x] = handle'[x]]
    BY <1>1, <1>2, <1>3 DEF ShareTypes
  <2>3. QED
    BY <1>1, <1>3, <2>1, <2>2 DEF ShareTypes
<1>14. OutOfDate(p) <=> handle[x].version < Base
  BY <1>5, <1>9 DEF OutOfDate
<1> HIDE DEF x, o
<1>15. /\ block' \in [Clients -> {"none", "clean", "dirty"}] /\ fresh' \in [Clients -> BOOLEAN]
       /\ \A c \in Clients \ {x} : block'[c] = block[c] /\ fresh'[c] = fresh[c]
       /\ block'[x] # "none" => /\ o.cacheable /\ ~(handle[x].version < Base)
                                /\ block'[x] = block[x] /\ fresh'[x] = fresh[x]
       /\ block'[x] = "none" => block[x] = "none" \/ ~o.cacheable \/ handle[x].version < Base
  <2>1. CASE ~o.cacheable \/ OutOfDate(p)
    BY <1>1, <1>2, <1>3, <1>14, <2>1 DEF ShareTypes, x, o
  <2>2. CASE ~(~o.cacheable \/ OutOfDate(p))
    BY <1>1, <1>2, <1>14, <2>2 DEF ShareTypes, x, o
  <2>3. QED
    BY <2>1, <2>2
<1>16. Dirty(x) => o.cacheable /\ ~(handle[x].version < Base)
  <2>1. Dirty(x) => o.cacheable
    BY <1>1, <1>4 DEF GrantedClean, x, o
  <2>2. Dirty(x) => handle[x].version = Base
    BY <1>1, <1>3 DEF VersionsAgree
  <2>3. QED
    BY <1>10, <2>1, <2>2
<1>17. \A c \in Clients : Dirty(c)' <=> Dirty(c)
  BY <1>3, <1>15, <1>16 DEF Dirty
<1>18. \A c \in Clients : Dirty(c) => c = x
  BY <1>1, <1>3, <1>4 DEF Alone
<1>19. block'[x] # "none" => fresh'[x]
  BY <1>1, <1>3, <1>15 DEF VersionsAgree
<1>20. /\ \A q \in Procs : /\ Uses(q)' <=> Uses(q)
                           /\ CanCache(q)' = CanCache(q)
                           /\ CachedWriter(q)' => CachedWriter(q) \/ q = p
       /\ \A c : Listed(c)' <=> Listed(c)
       /\ Calling' <=> Calling
       /\ CanCache(p) = o.cacheable
  <2>1. CanCache(p) = o.cacheable /\ CanCache(p)' = o.cacheable
    BY <1>4, <1>8, <1>12 DEF CanCache, x, o
  <2>2. \A q \in Procs \ {p} : CanCache(q)' = CanCache(q)
    BY <1>3, <1>7, <1>8, <1>12 DEF CanCache
  <2>3. \A q \in Procs \ {p} : CachedWriter(q)' => CachedWriter(q)
    BY <1>2, <1>3, <1>8, <1>12 DEF CachedWriter
  <2>4. Calling' <=> Calling
    BY <1>2, <1>6 DEF Calling
  <2>5. \A c : Listed(c)' <=> Listed(c)
    BY <1>2 DEF Listed
  <2>6. QED
    BY <1>4, <1>8, <2>1, <2>2, <2>3, <2>4, <2>5 DEF Uses
<1>21. msgList[x] \in {{}, {"attrs"}}
  <2>1. SUFFICES ASSUME msgList[x] # {}, msgList[x] # {"attrs"} PROVE FALSE
    OBVIOUS
  <2>2. holder \in Procs /\ Host(holder) # x /\ msgList[x] \in Commands
    BY <1>1, <1>3, <2>1 DEF ToldByOther
  <2>3. mode[holder] # "stat" /\ pc[holder] \in Holding
    BY <1>1, <2>1, <2>2 DEF Commands, HolderAgrees
  <2>4. Opener(holder)
    BY <2>3 DEF Opener, Holding
  <2>5. QED
    BY <1>1, <1>4, <2>2, <2>4 DEF OpenersAgree, x
<1>22. ShareTypes'
  BY <1>1, <1>2, <1>7, <1>13, <1>15 DEF ShareTypes
<1>23. OpenersAgree'
  BY <1>1, <1>2, <1>4, <1>6, <1>8 DEF OpenersAgree
<1>24. CountsAgree'
  BY <1>1, <1>2, <1>20 DEF CountsAgree
<1>25. StampsAgree'
  <2>1. handle'[x].valid /\ handle'[x].stamp = stamp /\ cltStamp[x] = stamp
    BY <1>5, <1>12 DEF x
  <2>2. \A c \in Clients : handle'[c].stamp <= stamp
    BY <1>1, <1>10, <1>12, <2>1 DEF StampsAgree
  <2>3. \A q \in Procs \ {p} : handle'[Host(q)] = handle[Host(q)]
    BY <1>3, <1>12
  <2>4. Host(p) = x
    BY DEF x
  <2>5. QED
    BY <1>1, <1>2, <1>8, <1>20, <2>1, <2>2, <2>3, <2>4 DEF StampsAgree
<1>26. MessagesAgree'
  BY <1>1, <1>2, <1>20, MessagesKept
<1>27. ToldByOther'
  BY <1>1, <1>2 DEF ToldByOther, Commands
<1>28. ReadersClean'
  <2>1. \A q \in Procs : pc'[q] # "idle" => pc[q] # "idle"
    BY <1>2, <1>6
  <2>2. msgList[Host(p)] \notin {{"invalidate"}, {"writeBack"}}
    BY <1>21 DEF x
  <2>3. QED
    BY <1>1, <1>2, <1>3, <1>17, <1>20, <2>1, <2>2 DEF ReadersClean
<1>29. ReportsTrue'
  BY <1>1, <1>2, <1>12, <1>17, <1>21 DEF ReportsTrue, ShareTypes
<1>30. LoopAgrees'
  BY <1>8 DEF LoopAgrees
<1>31. CachingKnown'
  <2>1. \A c \in Clients : block'[c] # "none" => handle'[c].valid /\ handle'[c].cacheable
    BY <1>1, <1>3, <1>12, <1>15 DEF CachingKnown
  <2>2. QED
    BY <1>1, <1>2, <1>4, <1>8, <1>20, <2>1 DEF CachingKnown
<1>32. DirtyLatest'
  <2>1. \A c \in Clients : Dirty(c) => fresh'[c]
    BY <1>17, <1>18, <1>19 DEF Dirty
  <2>2. QED
    BY <1>1, <1>2, <1>17, <2>1 DEF DirtyLatest
<1>33. DirtyListed'
  BY <1>1, <1>2, <1>17, <1>20 DEF DirtyListed
<1>34. WriterKnown'
  BY <1>1, <1>2, <1>4, <1>8, <1>20 DEF WriterKnown
<1>35. Alone'
  <2>1. \A q \in Procs : (IsOpen(q) \/ Granted(q))' <=> IsOpen(q) \/ Granted(q)
    BY <1>4, <1>8
  <2>2. QED
    BY <1>1, <1>2, <1>3, <1>17, <1>20, <2>1 DEF Alone
<1>36. GrantedClean'
  BY <1>8 DEF GrantedClean
<1>37. VersionsAgree'
  <2>1. Base \in Int /\ Base <= version /\ (mode[p] # "write" => Base = version)
        /\ (mode[p] = "write" => Base < version)
    BY <1>9
  <2>2. \A c \in Clients : handle[c].version \in Int
    BY <1>1 DEF ShareTypes, Handles
  <2>3. handle'[x].version = version /\ (handle'[x].cacheable <=> o.cacheable)
    BY <1>12
  <2>4. Base' >= 0 /\ \A c \in Clients : handle'[c].version <= Base'
    BY <1>1, <1>9, <1>12, <2>1, <2>2, <2>3 DEF VersionsAgree
  <2>5. ASSUME NEW c \in Clients, block'[c] # "none", ~fresh'[c] PROVE handle'[c].version < Base'
    <3>1. c # x
      BY <1>19, <2>5
    <3>2. handle'[c] = handle[c] /\ handle[c].version < Base
      BY <1>1, <1>12, <1>15, <2>5, <3>1 DEF VersionsAgree
    <3>3. QED
      BY <1>9, <2>1, <2>2, <3>2
  <2>6. \A c \in Clients : Dirty(c)' => handle'[c].version = Base'
    BY <1>9, <1>17, <1>18, <2>3
  <2>7. ASSUME NEW q \in Procs, IsOpen(q)', mode[q] = "write"
        PROVE  /\ handle'[Host(q)].cacheable => handle'[Host(q)].version = Base'
               /\ \A c \in Clients \ {Host(q)} : block'[c] # "none" => handle'[c].version < Base'
    <3>1. CASE q = p
      <4>1. Host(q) = x
        BY <3>1 DEF x
      <4>2. ASSUME NEW c \in Clients \ {x} PROVE handle'[c].version < Base'
        <5>1. handle'[c] = handle[c] /\ handle[c].version <= Base
          BY <1>1, <1>12 DEF VersionsAgree
        <5>2. QED
          BY <1>9, <2>1, <2>2, <2>7, <3>1, <5>1
      <4>3. QED
        BY <1>9, <2>3, <4>1, <4>2
    <3>2. CASE q # p
      <4>1. IsOpen(q) /\ Host(q) \in Clients \ {x} /\ handle'[Host(q)] = handle[Host(q)]
        BY <1>3, <1>8, <1>12, <2>7, <3>2
      <4>2. /\ mode[p] = "write" => ~CanCache(q)
            /\ ~CanCache(p)
        BY <1>1, <1>4, <2>7, <3>2, <4>1 DEF Alone
      <4>3. handle[Host(q)].cacheable => handle[Host(q)].version = Base'
        BY <1>1, <1>9, <2>1, <2>7, <4>1, <4>2 DEF VersionsAgree, CanCache
      <4>4. block'[x] = "none"
        BY <1>15, <1>20, <4>2
      <4>5. ASSUME NEW c \in Clients \ {Host(q)}, block'[c] # "none" PROVE handle'[c].version < Base'
        <5>1. c # x
          BY <4>4, <4>5
        <5>2. handle'[c] = handle[c] /\ handle[c].version < Base
          BY <1>1, <1>12, <1>15, <2>7, <4>1, <4>5, <5>1 DEF VersionsAgree
        <5>3. QED
          BY <1>9, <2>1, <2>2, <5>2
      <4>6. QED
        BY <4>1, <4>3, <4>5
    <3>3. QED
      BY <3>1, <3>2
  <2>8. QED
    BY <1>2, <2>4, <2>5, <2>6, <2>7 DEF VersionsAgree
<1>38. FreshReads'
  <2>1. ASSUME NEW q \in Procs, pc'[q] = "open", q # p PROVE ReadsFresh(Host(q))'
    <3>1. pc[q] = "open" /\ Host(q) \in Clients \ {x}
      BY <1>3, <1>6, <2>1
    <3>2. ReadsFresh(Host(q))
      BY <1>1, <3>1 DEF FreshReads
    <3>3. QED
      BY <1>2, <1>12, <1>15, <3>1, <3>2 DEF ReadsFresh
  <2>2. ReadsFresh(Host(p))'
    <3>1. CASE handle'[x].cacheable /\ block'[x] # "none"
      BY <1>19, <3>1 DEF ReadsFresh, x
    <3>2. CASE ~(handle'[x].cacheable /\ block'[x] # "none")
      <4>1. ~Dirty(x)
        BY <1>3, <1>12, <1>16, <1>17, <3>2 DEF Dirty
      <4>2. diskFresh
        BY <1>4, <4>1, CleanIsFresh DEF x
      <4>3. QED
        BY <1>2, <3>2, <4>2 DEF ReadsFresh, x
    <3>3. QED
      BY <3>1, <3>2
  <2>3. QED
    BY <2>1, <2>2 DEF FreshReads
<1>39. QED
  BY <1>22, <1>23, <1>24, <1>25, <1>26, <1>27, <1>28, <1>29, <1>30, <1>31, <1>32, <1>33,
     <1>34, <1>35, <1>36, <1>37, <1>38 DEF ShareInv


LEMMA InitShare == ASSUME Sharing, Init PROVE ShareInv
<1>1. ListInv
  BY InitList
<1>2. /\ \A p \in Procs : pc[p] = "idle" /\ opened[p] = NotOpened /\ Host(p) \in Clients
      /\ \A c \in Clients : /\ block[c] = "none" /\ handle[c] = NoHandle /\ cltUse[c] = NoUse
                            /\ msgList[c] = {} /\ cltStamp[c] = 0
      /\ version = 1 /\ stamp = 0 /\ ~error /\ timeouts = 0 /\ work = {} /\ reports = {}
      /\ diskFresh = TRUE
  BY HostFacts DEF Init
<1>3. ShareTypes
  <2>1. /\ NoHandle \in Handles /\ NoUse \in [Kinds -> Int]
        /\ NotOpened \in [ok : BOOLEAN, version : Int, stamp : Int, cacheable : BOOLEAN]
    BY DEF NoHandle, Handles, NoUse, NotOpened
  <2>2. QED
    <3>1. /\ opened = [p \in Procs |-> NotOpened]
          /\ cltUse = [c \in Clients |-> NoUse]
          /\ handle = [c \in Clients |-> NoHandle]
          /\ cltStamp = [c \in Clients |-> 0]
          /\ block = [c \in Clients |-> "none"]
          /\ version = 1 /\ stamp = 0 /\ work = {} /\ reports = {}
      BY DEF Init
    <3>2. /\ cltCached = [c \in Clients |-> FALSE] /\ fresh = [c \in Clients |-> FALSE]
          /\ cacheable = FALSE /\ diskFresh = TRUE
      BY DEF Init
    <3>3. cltCached \in [Clients -> BOOLEAN] /\ fresh \in [Clients -> BOOLEAN]
      BY <3>2
    <3>4. /\ opened \in [Procs -> [ok : BOOLEAN, version : Int, stamp : Int, cacheable : BOOLEAN]]
          /\ cltUse \in [Clients -> [Kinds -> Int]]
          /\ handle \in [Clients -> Handles]
      BY <2>1, <3>1
    <3>5. cltStamp \in [Clients -> Int] /\ block \in [Clients -> {"none", "clean", "dirty"}]
      BY <3>1
    <3>6. /\ version \in Int /\ stamp \in Int
          /\ (\A m \in work : m.to \in Clients) /\ (\A r \in reports : r.from \in Clients)
      BY <3>1
    <3>7. cacheable \in BOOLEAN /\ diskFresh \in BOOLEAN
      BY <3>2
    <3>8. QED
      BY <3>3, <3>4, <3>5, <3>6, <3>7 DEF ShareTypes
<1>4. \A p \in Procs : /\ ~Opener(p) /\ ~Serving(p) /\ ~Joined(p) /\ ~Granted(p) /\ ~IsOpen(p)
                       /\ ~Uses(p) /\ ~Counted(p) /\ ~CachedWriter(p)
  BY <1>2 DEF Opener, Serving, Joined, Granted, IsOpen, Uses, Counted, CachedWriter, Holding
<1>5. (\A c \in Clients : ~Dirty(c)) /\ ~Calling
  BY <1>2 DEF Dirty, Calling
<1>6. OpenersAgree /\ CountsAgree
  BY <1>2, <1>4 DEF OpenersAgree, CountsAgree
<1>7. StampsAgree
  BY <1>2, <1>4 DEF StampsAgree, NoHandle
<1>8. MessagesAgree /\ ToldByOther /\ ReportsTrue
  BY <1>2, <1>5 DEF MessagesAgree, ToldByOther, ReportsTrue
<1>9. ReadersClean /\ LoopAgrees /\ CachingKnown
  BY <1>2, <1>4, <1>5 DEF ReadersClean, LoopAgrees, CachingKnown
<1>10. DirtyLatest /\ DirtyListed /\ WriterKnown /\ Alone /\ GrantedClean
  BY <1>2, <1>4, <1>5 DEF DirtyLatest, DirtyListed, WriterKnown, Alone, GrantedClean
<1>11. VersionsAgree
  <2>1. Base = 1
    BY <1>2, <1>4 DEF Base
  <2>2. QED
    BY <1>2, <1>4, <1>5, <2>1 DEF VersionsAgree, NoHandle
<1>12. FreshReads
  BY <1>2 DEF FreshReads
<1>13. QED
  BY <1>1, <1>3, <1>6, <1>7, <1>8, <1>9, <1>10, <1>11, <1>12 DEF ShareInv

LEMMA SameShare == ASSUME ShareInv, UNCHANGED vars PROVE ShareInv'
<1> USE DEF vars, procVars, fileVars, listVars, infoVars, opVars, cltVars, msgVars
<1>1. /\ \A q : /\ Opener(q)' <=> Opener(q)
                /\ Serving(q)' <=> Serving(q)
                /\ Joined(q)' <=> Joined(q)
                /\ Granted(q)' <=> Granted(q)
                /\ IsOpen(q)' <=> IsOpen(q)
                /\ Uses(q)' <=> Uses(q)
                /\ CanCache(q)' = CanCache(q)
                /\ CachedWriter(q)' <=> CachedWriter(q)
                /\ Counted(q)' <=> Counted(q)
      /\ \A c : Dirty(c)' <=> Dirty(c)
      /\ Calling' <=> Calling
  BY SameUsers
<1>2. \A c : Listed(c)' <=> Listed(c)
  BY DEF Listed
<1>3. ListInv'
  BY OtherList DEF ShareInv
<1>4. ShareTypes' /\ OpenersAgree' /\ CountsAgree' /\ StampsAgree'
  BY <1>1, <1>2 DEF ShareInv, ShareTypes, OpenersAgree, CountsAgree, StampsAgree
<1>5. MessagesAgree'
  BY <1>1, MessagesKept DEF ShareInv
<1>6. ToldByOther' /\ ReadersClean' /\ ReportsTrue'
  BY <1>1 DEF ShareInv, ToldByOther, Commands, ReadersClean, ReportsTrue
<1>7. LoopAgrees'
  <2>1. /\ \A p, c : (Due(p, c)' <=> Due(p, c)) /\ (Conflict(p, c)' <=> Conflict(p, c))
        /\ Ahead(next)' = Ahead(next)
    BY <1>2 DEF Due, Conflict, Ahead, From
  <2>2. QED
    BY <1>1, <2>1 DEF ShareInv, LoopAgrees
<1>8. CachingKnown' /\ DirtyLatest' /\ DirtyListed' /\ WriterKnown'
  BY <1>1, <1>2 DEF ShareInv, CachingKnown, DirtyLatest, DirtyListed, WriterKnown
<1>9. Alone' /\ GrantedClean'
  BY <1>1 DEF ShareInv, Alone, GrantedClean
<1>10. VersionsAgree'
  <2>1. Base' = Base
    BY <1>1, BaseKept
  <2>2. QED
    BY <1>1, <2>1 DEF ShareInv, VersionsAgree
<1>11. FreshReads'
  BY DEF ShareInv, FreshReads, ReadsFresh
<1>12. QED
  BY <1>3, <1>4, <1>5, <1>6, <1>7, <1>8, <1>9, <1>10, <1>11 DEF ShareInv

LEMMA NextShare == ASSUME Sharing, ShareInv, [Next]_vars PROVE ShareInv'
<1>1. ListInv'
  BY NextList DEF ShareInv
<1>2. ASSUME NEW p \in Procs, Finish(p) PROVE ShareInv'
  BY <1>1, <1>2, StageShare, WalkShare, EndShare, HandleInitShare DEF Finish
<1>3. ASSUME NEW p \in Procs, Server(p), \A q \in Procs : ~Unfinished(q) PROVE ShareInv'
  <2>1. \A q \in Procs : pc[q] # "returned"
    BY <1>3 DEF Unfinished, Sharing
  <2>2. CASE OpenBusy(p) \/ Fsio_FileNameOpen(p) \/ OpenReturned(p)
    BY <1>1, <2>2, StageShare
  <2>3. CASE ResumeConsistency(p)
    BY <1>1, <2>3, WalkShare
  <2>4. CASE ConsistAccepted(p)
    BY <1>1, <2>4, AcceptShare
  <2>5. CASE ConsistStale(p)
    BY <1>1, <2>1, <2>5, StaleShare
  <2>6. CASE OpenFailed(p)
    BY <2>6, NoFailures
  <2>7. QED
    BY <1>2, <1>3, <2>2, <2>3, <2>4, <2>5, <2>6 DEF Server
<1>4. ASSUME NEW p \in Procs, User(p) PROVE ShareInv'
  BY <1>1, <1>4, StageShare, ReadShare, WriteShare, CloseShare DEF User
<1>5. CASE Callback
  <2>1. ASSUME NEW m \in work,
               ProcessConsist(m) \/ ProcessConsistFails(m) \/ ProcessConsistNoHandle(m)
        PROVE  ShareInv'
    BY <1>1, <2>1, ProcessShare, AcceptShare, NoFailures
  <2>2. ASSUME NEW r \in reports, ReportUnknown(r) \/ ReportError(r) \/ ProcessConsistReply(r)
        PROVE  ShareInv'
    BY <1>1, <2>2, ReportShare, NoFailures
  <2>3. QED
    BY <1>5, <2>1, <2>2 DEF Callback
<1>6. CASE ConsistTimeoutIntr \/ ConsistTimeout
  BY <1>6, NoFailures
<1>7. CASE Fsconsist_NumClients
  BY <1>1, <1>7, NumClientsShare
<1>8. ASSUME NEW c \in Clients, Client(c) PROVE ShareInv'
  BY <1>8, CleanShare, ScavengeShare DEF Client
<1>9. CASE UNCHANGED vars
  BY <1>9, SameShare
<1>10. QED
  BY <1>2, <1>3, <1>4, <1>5, <1>6, <1>7, <1>8, <1>9 DEF Next

LEMMA ShareAlways == ASSUME Sharing PROVE Spec => []ShareInv
<1>1. Init => ShareInv
  BY InitShare
<1>2. ShareInv /\ [Next]_vars => ShareInv'
  BY NextShare
<1>3. QED
  BY <1>1, <1>2, PTL DEF Spec

\* Any number of hosts may open, read, write, close and scavenge the file in any
\* order, and call-backs, write-backs and reports may take any time: a process that
\* has the file open reads the data that was written last (StartConsistency,
\* ProcessConsist and FsRmtFileHandleInit between them).
THEOREM ReadsAreFresh == ASSUME Sharing PROVE Spec => []FreshReads
<1>1. ShareInv => FreshReads
  BY DEF ShareInv
<1>2. QED
  BY <1>1, ShareAlways, PTL

\* The server can always find the dirty blocks: Fsconsist_Close and
\* ProcessConsistReply never drop a client that has some, and lastWriter names it
\* until it has been told to write them back.
THEOREM DirtyBlocksKnown == ASSUME Sharing PROVE Spec => []DirtyIsKnown
<1>1. ShareInv => DirtyIsKnown
  BY DEF ShareInv, DirtyListed, DirtyIsKnown, Dirty
<1>2. QED
  BY <1>1, ShareAlways, PTL

-----------------------------------------------------------------------------
(***************************************************************************)
(* Third part: the use counts of the handle and of the client list agree.  *)
(***************************************************************************)

\* No timeouts, and no process switch between the monitors; hosts do not reclaim
\* the handle of the file while several opens of it are under way.
Counting == MaxTimeouts = 0 /\ ~Preempt /\ ~(Overlap /\ Scavenge)

\* The processes that are doing something; before UpdateList; before
\* Fsio_FileNameOpen.
Active == {p \in Procs : pc[p] # "idle"}
EarlyStages == {"sent", "named", "asleep", "awake", "calling", "resume"}
Early == {p \in Procs : pc[p] \in EarlyStages}
Sent == {p \in Procs : pc[p] = "sent"}

\* The processes that count in the handle and in the entry of a client.
HasUse(p, k) == UseOf(mode[p])[k] = 1
Holders(k) == {p \in Procs : (p \in Arriving \/ Uses(p)) /\ HasUse(p, k)}
Users(c, k) == {p \in Procs : Host(p) = c /\ Uses(p) /\ HasUse(p, k)}
InUse(c) == \E p \in Procs : Host(p) = c /\ Uses(p)

\* The counters cannot run ahead of the opens.
OpensCounted ==
    /\ IsFiniteSet(Active) /\ Cardinality(Active) <= opens
    /\ stamp + Cardinality(Early) <= opens
    /\ version - 1 + Cardinality(Sent) <= opens

\* An open that succeeds, one at a time if they do not overlap.
OpensSucceed ==
    /\ \A p \in Procs : /\ pc[p] # "failed"
                        /\ mode[p] = "stat" => pc[p] \notin {"replied", "returned", "open"}
    /\ ~Overlap => \A p, q \in Procs : Opener(p) /\ Opener(q) => p = q

UsesCounted ==
    /\ \A k \in Kinds : use[k] = Cardinality(Holders(k))
    /\ \A c \in Clients : \A k \in Kinds : cltUse[c][k] = Cardinality(Users(c, k))

\* The answer to the last open of the host, which has the time stamp of its entry,
\* is on its way or has arrived.
Carries(p) == Joined(p) \/ (Granted(p) /\ opened[p].stamp = cltStamp[Host(p)])
StampKnown(c) ==
    \/ handle[c].valid /\ handle[c].stamp = cltStamp[c]
    \/ \E p \in Procs : Host(p) = c /\ Carries(p)
StampsCarried ==
    /\ \A c \in Clients : handle[c].stamp <= stamp
    /\ \A p \in Procs : /\ Joined(p) => cltStamp[Host(p)] = stamp
                        /\ Granted(p) => opened[p].stamp <= cltStamp[Host(p)]
                        /\ Granted(p) => opened[p].stamp <= stamp
                        /\ Scavenge /\ Granted(p) => Carries(p)
    /\ \A c \in Clients : InUse(c) => /\ Listed(c) /\ StampKnown(c)
                                      /\ handle[c].stamp <= cltStamp[c]

\* A call-back goes to another host, with the time stamp of its entry.
CallKnown ==
    \A p \in Procs : pc[p] = "calling" =>
        /\ call.to \in Clients /\ call.to # Host(p)
        /\ InUse(call.to) => call.stamp = cltStamp[call.to]

CountInv ==
    /\ ListInv /\ TypeOK /\ OpensCounted /\ OpensSucceed /\ UsesCounted
    /\ StampsCarried /\ CallKnown
-----------------------------------------------------------------------------
LEMMA ProcHost == \A p \in Procs : Host(p) \in Clients
BY DEF Procs, Host

\* The numbers of TypeOK.
NumberTypes ==
    /\ opens \in 0 .. MaxOpens /\ version \in 1 .. MaxOpens + 1 /\ stamp \in 0 .. MaxOpens

LEMMA PartOf ==
    ASSUME NEW S, IsFiniteSet(S), NEW T, T \subseteq S
    PROVE  IsFiniteSet(T) /\ Cardinality(T) \in Nat /\ Cardinality(T) <= Cardinality(S)
BY FS_Subset, FS_CardinalityType

LEMMA OneMore ==
    ASSUME NEW S, IsFiniteSet(S), NEW x, x \notin S
    PROVE  IsFiniteSet(S \cup {x}) /\ Cardinality(S \cup {x}) = Cardinality(S) + 1
BY FS_AddElement

LEMMA OneLess ==
    ASSUME NEW S, IsFiniteSet(S), NEW x, x \in S
    PROVE  IsFiniteSet(S \ {x}) /\ Cardinality(S \ {x}) = Cardinality(S) - 1
BY FS_RemoveElement

LEMMA ActiveParts == Early \subseteq Active /\ Sent \subseteq Active
BY DEF Early, EarlyStages, Sent, Active

\* An open goes on: the counters follow.
LEMMA OpensGoOn ==
    ASSUME OpensCounted, NumberTypes, opens' = opens,
           \A q \in Procs : /\ pc'[q] # "idle" => pc[q] # "idle"
                            /\ pc'[q] \in EarlyStages => pc[q] \in EarlyStages
                            /\ pc'[q] = "sent" => pc[q] = "sent",
           \/ stamp' = stamp
           \/ stamp' = stamp + 1 /\ \E p \in Procs : pc[p] \in EarlyStages /\ pc'[p] \notin EarlyStages,
           \/ version' = version
           \/ version' = version + 1 /\ \E p \in Procs : pc[p] = "sent" /\ pc'[p] # "sent"
    PROVE  OpensCounted' /\ NumberTypes'
<1>1. /\ IsFiniteSet(Active) /\ Cardinality(Active) <= opens
      /\ stamp + Cardinality(Early) <= opens
      /\ version - 1 + Cardinality(Sent) <= opens
  BY DEF OpensCounted
<1>2. Active' \subseteq Active /\ Early' \subseteq Early /\ Sent' \subseteq Sent
  BY DEF Active, Early, Sent
<1>3. /\ IsFiniteSet(Early) /\ IsFiniteSet(Sent)
      /\ Cardinality(Early) \in Nat /\ Cardinality(Sent) \in Nat /\ Cardinality(Active) \in Nat
  BY <1>1, PartOf, ActiveParts
<1>4. /\ IsFiniteSet(Active') /\ Cardinality(Active') <= Cardinality(Active)
      /\ Cardinality(Active') \in Nat
  BY <1>1, <1>2, PartOf
<1>5. /\ Cardinality(Early') \in Nat
      /\ Cardinality(Early') <= Cardinality(Early)
      /\ stamp' = stamp + 1 /\ stamp' # stamp => Cardinality(Early') <= Cardinality(Early) - 1
  <2>1. Cardinality(Early') \in Nat /\ Cardinality(Early') <= Cardinality(Early)
    BY <1>2, <1>3, PartOf
  <2>2. ASSUME NEW p \in Procs, pc[p] \in EarlyStages, pc'[p] \notin EarlyStages
        PROVE  Cardinality(Early') <= Cardinality(Early) - 1
    <3>1. p \in Early /\ Early' \subseteq Early \ {p}
      BY <1>2, <2>2 DEF Early
    <3>2. QED
      BY <1>3, <3>1, OneLess, PartOf
  <2>3. QED
    BY <2>1, <2>2
<1>6. /\ Cardinality(Sent') \in Nat
      /\ Cardinality(Sent') <= Cardinality(Sent)
      /\ version' = version + 1 /\ version' # version => Cardinality(Sent') <= Cardinality(Sent) - 1
  <2>1. Cardinality(Sent') \in Nat /\ Cardinality(Sent') <= Cardinality(Sent)
    BY <1>2, <1>3, PartOf
  <2>2. ASSUME NEW p \in Procs, pc[p] = "sent", pc'[p] # "sent"
        PROVE  Cardinality(Sent') <= Cardinality(Sent) - 1
    <3>1. p \in Sent /\ Sent' \subseteq Sent \ {p}
      BY <1>2, <2>2 DEF Sent
    <3>2. QED
      BY <1>3, <3>1, OneLess, PartOf
  <2>3. QED
    BY <2>1, <2>2
<1>7. stamp \in Int /\ version \in Int /\ opens \in Int /\ stamp >= 0 /\ version >= 1 /\ opens <= MaxOpens
  BY ConsistAssumption DEF NumberTypes
<1>8. /\ stamp' \in Int /\ stamp' >= 0 /\ stamp' + Cardinality(Early') <= opens
      /\ version' \in Int /\ version' >= 1 /\ version' - 1 + Cardinality(Sent') <= opens
  BY <1>1, <1>3, <1>5, <1>6, <1>7
<1>9. NumberTypes'
  BY <1>5, <1>6, <1>7, <1>8, ConsistAssumption DEF NumberTypes
<1>10. OpensCounted'
  <2>1. Cardinality(Active') <= opens
    BY <1>1, <1>3, <1>4, <1>7
  <2>2. QED
    BY <1>4, <1>8, <2>1 DEF OpensCounted
<1>11. QED
  BY <1>9, <1>10

LEMMA OneGoesOn ==
    ASSUME OpensCounted, NumberTypes, pc \in [Procs -> Stages], NEW p \in Procs, NEW s,
           pc' = [pc EXCEPT ![p] = s], pc[p] # "idle", s # "sent",
           s \in EarlyStages => pc[p] \in EarlyStages,
           opens' = opens,
           stamp' = stamp \/ (stamp' = stamp + 1 /\ pc[p] \in EarlyStages /\ s \notin EarlyStages),
           version' = version \/ (version' = version + 1 /\ pc[p] = "sent")
    PROVE  OpensCounted' /\ NumberTypes'
<1>1. pc'[p] = s /\ \A q \in Procs \ {p} : pc'[q] = pc[q]
  OBVIOUS
<1>2. \A q \in Procs : /\ pc'[q] # "idle" => pc[q] # "idle"
                       /\ pc'[q] \in EarlyStages => pc[q] \in EarlyStages
                       /\ pc'[q] = "sent" => pc[q] = "sent"
  BY <1>1
<1>3. QED
  BY <1>1, <1>2, OpensGoOn

LEMMA NextOpens ==
    ASSUME ListInv, TypeOK, OpensCounted, [Next]_vars
    PROVE  OpensCounted' /\ NumberTypes'
<1>1. NumberTypes /\ pc \in [Procs -> Stages] /\ MaxOpens \in Nat
  BY ConsistAssumption DEF TypeOK, NumberTypes, ListInv, ListTypes
<1> USE DEF EarlyStages
<1>2. ASSUME NEW p \in Procs, FsrmtOpen(p) PROVE OpensCounted' /\ NumberTypes'
  <2>1. /\ pc[p] = "idle" /\ opens < MaxOpens /\ opens' = opens + 1
        /\ pc' = [pc EXCEPT ![p] = "sent"] /\ stamp' = stamp /\ version' = version
    BY <1>2 DEF FsrmtOpen, fileVars
  <2>2. /\ p \notin Active /\ Active' = Active \cup {p}
        /\ Early' = Early \cup {p} /\ Sent' = Sent \cup {p}
    BY <1>1, <2>1 DEF Active, Early, Sent
  <2>3. p \notin Early /\ p \notin Sent
    BY <2>2, ActiveParts
  <2>4. IsFiniteSet(Active) /\ IsFiniteSet(Early) /\ IsFiniteSet(Sent)
    BY PartOf, ActiveParts DEF OpensCounted
  <2>5. /\ Cardinality(Active) \in Nat /\ Cardinality(Early) \in Nat /\ Cardinality(Sent) \in Nat
    BY <2>4, FS_CardinalityType
  <2>6. /\ IsFiniteSet(Active') /\ Cardinality(Active') = Cardinality(Active) + 1
        /\ Cardinality(Early') = Cardinality(Early) + 1
        /\ Cardinality(Sent') = Cardinality(Sent) + 1
    BY <2>2, <2>3, <2>4, OneMore
  <2>7. NumberTypes'
    BY <1>1, <2>1 DEF NumberTypes
  <2>8. OpensCounted'
    BY <1>1, <2>1, <2>5, <2>6 DEF OpensCounted, NumberTypes
  <2>9. QED
    BY <2>7, <2>8
<1>3. ASSUME NEW p \in Procs, NEW n, NEW ok, Continue(p, n, ok), pc[p] \in EarlyStages \ {"sent"},
             opens' = opens, version' = version
      PROVE  OpensCounted' /\ NumberTypes'
  <2>1. CASE NextCommand(p, n, ok)
    <3>1. pc' = [pc EXCEPT ![p] = "calling"] /\ stamp' = stamp
      BY <2>1 DEF NextCommand
    <3>2. QED
      BY <1>1, <1>3, <3>1, OneGoesOn
  <2>2. CASE LastCommand(p, n, ok)
    <3>1. pc' = [pc EXCEPT ![p] = "ending"] /\ (stamp' = stamp \/ stamp' = stamp + 1)
      BY <2>2 DEF LastCommand, UpdateList
    <3>2. QED
      BY <1>1, <1>3, <3>1, OneGoesOn
  <2>3. QED
    BY <1>3, <2>1, <2>2 DEF Continue
<1>4. ASSUME NEW p \in Procs, StartConsistency(p) PROVE OpensCounted' /\ NumberTypes'
  <2>1. PICK n, ok : Continue(p, n, ok)
    BY <1>4 DEF StartConsistency
  <2>2. pc[p] \in EarlyStages \ {"sent"} /\ opens' = opens /\ version' = version
    BY <1>4 DEF StartConsistency
  <2>3. QED
    BY <1>3, <2>1, <2>2
<1>5. ASSUME NEW p \in Procs, ResumeConsistency(p) PROVE OpensCounted' /\ NumberTypes'
  <2>1. PICK n, ok : Continue(p, n, ok)
    BY <1>5 DEF ResumeConsistency
  <2>2. pc[p] \in EarlyStages \ {"sent"} /\ opens' = opens /\ version' = version
    BY <1>5 DEF ResumeConsistency
  <2>3. QED
    BY <1>3, <2>1, <2>2
<1>6. ASSUME NEW p \in Procs, EndConsistency(p) PROVE OpensCounted' /\ NumberTypes'
  <2>1. /\ pc[p] \in {"ending", "replies"} /\ opens' = opens /\ version' = version /\ stamp' = stamp
        /\ \A q \in Procs : pc'[q] = IF q = p THEN IF mode[p] = "stat" THEN "idle"
                                              ELSE IF error THEN "failed" ELSE "replied"
                                ELSE IF pc[q] = "asleep" THEN "awake" ELSE pc[q]
    BY <1>6 DEF EndConsistency, fileVars
  <2>2. QED
    BY <1>1, <2>1, OpensGoOn
<1>7. ASSUME NEW p \in Procs,
             \/ AwaitConsistDone(p) \/ AwaitReplies(p) \/ FsRmtFileHandleInit(p) \/ OpenBusy(p)
             \/ OpenFailed(p) \/ ConsistAccepted(p) \/ ConsistStale(p) \/ OpenReturned(p)
             \/ FsrmtFileClose(p) \/ Fsio_FileNameOpen(p)
      PROVE  OpensCounted' /\ NumberTypes'
  <2>1. \E s : /\ pc' = [pc EXCEPT ![p] = s] /\ pc[p] # "idle" /\ s # "sent"
               /\ s \in EarlyStages => pc[p] \in EarlyStages
    BY <1>7 DEF AwaitConsistDone, AwaitReplies, FsRmtFileHandleInit, OpenBusy, OpenFailed,
       ConsistAccepted, ConsistStale, OpenReturned, FsrmtFileClose, Fsio_FileNameOpen
  <2>2. /\ opens' = opens /\ stamp' = stamp
        /\ version' = version \/ (version' = version + 1 /\ pc[p] = "sent")
    BY <1>7 DEF AwaitConsistDone, AwaitReplies, FsRmtFileHandleInit, OpenBusy, OpenFailed,
       ConsistAccepted, ConsistStale, OpenReturned, FsrmtFileClose, Fsio_FileNameOpen, fileVars
  <2>3. QED
    BY <1>1, <2>1, <2>2, OneGoesOn
<1>8. CASE UNCHANGED <<procVars, fileVars>>
  BY <1>1, <1>8, OpensGoOn DEF procVars, fileVars
<1>9. QED
  BY <1>2, <1>4, <1>5, <1>6, <1>7, <1>8
     DEF Next, Server, User, Finish, Callback, Client, Read, Write, ProcessConsist,
         ProcessConsistFails, ProcessConsistNoHandle, ReportUnknown, ReportError,
         ProcessConsistReply, ConsistTimeoutIntr, ConsistTimeout, Fsconsist_NumClients,
         DelayedWrite, Evict, FsrmtFileScavenge, vars

-----------------------------------------------------------------------------
\* The parts of TypeOK, by what changes together.
Answers == [ok : BOOLEAN, version : 0 .. MaxOpens + 1, stamp : 0 .. MaxOpens, cacheable : BOOLEAN]
HandleRange == [valid : BOOLEAN, version : 0 .. MaxOpens + 1, stamp : 0 .. MaxOpens,
                cacheable : BOOLEAN]
AnswerTypes == opened \in [Procs -> Answers]
EntryTypes ==
    /\ cltCached \in [Clients -> BOOLEAN] /\ cltStamp \in [Clients -> 0 .. MaxOpens]
    /\ lastWriter \in Clients \cup {NoClient}
FlagTypes ==
    error \in BOOLEAN /\ timer \in BOOLEAN /\ cacheable \in BOOLEAN /\ timeouts \in 0 .. MaxTimeouts
CallTypes == call \in Messages \cup {NoCall}
HostTypes ==
    /\ handle \in [Clients -> HandleRange]
    /\ block \in [Clients -> {"none", "clean", "dirty"}]
    /\ fresh \in [Clients -> BOOLEAN] /\ diskFresh \in BOOLEAN
QueueTypes ==
    /\ work \subseteq Messages
    /\ reports \subseteq [from : Clients, stamp : 0 .. MaxOpens, ok : BOOLEAN]
UseTypes ==
    /\ use \in [Kinds -> 0 .. MaxOpens]
    /\ cltUse \in [Clients -> [Kinds -> 0 .. MaxOpens]]

LEMMA TypeParts ==
    TypeOK <=> /\ ListTypes /\ NumberTypes /\ AnswerTypes /\ EntryTypes /\ FlagTypes /\ CallTypes
               /\ HostTypes /\ QueueTypes /\ UseTypes
<1>1. {error, timer, cacheable, diskFresh} \subseteq BOOLEAN
        <=> /\ error \in BOOLEAN /\ timer \in BOOLEAN /\ cacheable \in BOOLEAN
            /\ diskFresh \in BOOLEAN
  OBVIOUS
<1>2. ASSUME TypeOK
      PROVE  /\ ListTypes /\ NumberTypes /\ AnswerTypes /\ EntryTypes /\ FlagTypes /\ CallTypes
             /\ HostTypes /\ QueueTypes /\ UseTypes
  <2>1. /\ ListTypes /\ NumberTypes /\ AnswerTypes /\ EntryTypes /\ CallTypes /\ QueueTypes /\ UseTypes
    BY <1>2, Zenon DEF TypeOK, ListTypes, Stages, NumberTypes, AnswerTypes, Answers, EntryTypes, CallTypes,
       QueueTypes, UseTypes
  <2>2. FlagTypes /\ HostTypes
    BY <1>1, <1>2, Zenon DEF TypeOK, FlagTypes, HostTypes, HandleRange
  <2>3. QED
    BY <2>1, <2>2
<1>3. ASSUME ListTypes, NumberTypes, AnswerTypes, EntryTypes, FlagTypes, CallTypes,
             HostTypes, QueueTypes, UseTypes
      PROVE  TypeOK
  BY <1>1, <1>3, Zenon DEF TypeOK, ListTypes, Stages, NumberTypes, AnswerTypes, Answers, EntryTypes, CallTypes,
     QueueTypes, UseTypes, FlagTypes, HostTypes, HandleRange
<1>4. QED
  BY <1>2, <1>3

LEMMA NextAnswers ==
    ASSUME NumberTypes, FlagTypes, AnswerTypes, [Next]_vars
    PROVE  AnswerTypes'
<1>1. NotOpened \in Answers
  BY ConsistAssumption DEF NotOpened, Answers
<1>2. OpenReply \in Answers
  BY ConsistAssumption DEF OpenReply, Answers, NumberTypes, FlagTypes
<1>3. ASSUME NEW p \in Procs, NEW a \in Answers, opened' = [opened EXCEPT ![p] = a]
      PROVE  AnswerTypes'
  <2> HIDE DEF Answers
  <2> QED
    BY <1>3 DEF AnswerTypes
<1>4. ASSUME NEW p \in Procs, OpenBusy(p) \/ FsRmtFileHandleInit(p) PROVE AnswerTypes'
  BY <1>1, <1>3, <1>4 DEF OpenBusy, FsRmtFileHandleInit
<1>5. ASSUME NEW p \in Procs, EndConsistency(p) PROVE AnswerTypes'
  <2>1. PICK a : a = IF mode[p] = "stat" \/ error THEN NotOpened ELSE OpenReply
    OBVIOUS
  <2>2. a \in Answers /\ opened' = [opened EXCEPT ![p] = a]
    BY <1>1, <1>2, <1>5, <2>1 DEF EndConsistency
  <2>3. QED
    BY <1>3, <2>2
<1>6. CASE opened' = opened
  BY <1>6 DEF AnswerTypes
<1>7. QED
  BY <1>4, <1>5, <1>6
     DEF Next, Server, User, Finish, Callback, Client, Read, Write, ProcessConsist,
         ProcessConsistFails, ProcessConsistNoHandle, ReportUnknown, ReportError,
         ProcessConsistReply, ConsistTimeoutIntr, ConsistTimeout, Fsconsist_NumClients,
         DelayedWrite, Evict, FsrmtFileScavenge, vars, procVars, AwaitConsistDone, AwaitReplies,
         StartConsistency, ResumeConsistency, OpenFailed, ConsistAccepted, ConsistStale,
         OpenReturned, FsrmtFileClose, Fsio_FileNameOpen, FsrmtOpen

LEMMA NextFlags ==
    ASSUME FlagTypes, [Next]_vars
    PROVE  FlagTypes'
<1>1. ASSUME NEW p \in Procs, StartConsistency(p) \/ ResumeConsistency(p) PROVE FlagTypes'
  <2>1. timer' \in BOOLEAN
    BY <1>1 DEF StartConsistency, ResumeConsistency, Continue, NextCommand, LastCommand, FlagTypes
  <2>2. error' \in BOOLEAN /\ timeouts' = timeouts
    BY <1>1 DEF StartConsistency, ResumeConsistency, FlagTypes, msgVars
  <2>3. cacheable' \in BOOLEAN
    BY <1>1 DEF StartConsistency, ResumeConsistency, FlagTypes, CacheableBy
  <2>4. QED
    BY <2>1, <2>2, <2>3 DEF FlagTypes
<1>2. ASSUME NEW p \in Procs, EndConsistency(p) PROVE FlagTypes'
  BY <1>2 DEF EndConsistency, FlagTypes, msgVars
<1>3. ASSUME NEW r, ReportError(r) PROVE FlagTypes'
  BY <1>3 DEF ReportError, FlagTypes, opVars
<1>4. CASE ConsistTimeoutIntr
  <2>1. /\ timer' = FALSE /\ error' = error /\ cacheable' = cacheable
        /\ timeouts < MaxTimeouts /\ timeouts' = timeouts + 1
    BY <1>4 DEF ConsistTimeoutIntr, infoVars
  <2>2. timeouts' \in 0 .. MaxTimeouts
    BY <2>1, ConsistAssumption DEF FlagTypes
  <2>3. QED
    BY <2>1, <2>2 DEF FlagTypes
<1>5. CASE ConsistTimeout
  <2>1. /\ timer' = timer /\ error' = error /\ cacheable' = cacheable
        /\ timeouts > 0 /\ timeouts' = timeouts - 1
    BY <1>5 DEF ConsistTimeout, opVars
  <2>2. timeouts' \in 0 .. MaxTimeouts
    BY <2>1, ConsistAssumption DEF FlagTypes
  <2>3. QED
    BY <2>1, <2>2 DEF FlagTypes
<1>6. CASE UNCHANGED <<error, timer, cacheable, timeouts>>
  BY <1>6 DEF FlagTypes
<1>7. QED
  BY <1>1, <1>2, <1>3, <1>4, <1>5, <1>6
     DEF Next, Server, User, Finish, Callback, Client, Read, Write, ProcessConsist,
         ProcessConsistFails, ProcessConsistNoHandle, ReportUnknown,
         ProcessConsistReply, Fsconsist_NumClients, OpenBusy, FsRmtFileHandleInit,
         DelayedWrite, Evict, FsrmtFileScavenge, vars, procVars, AwaitConsistDone, AwaitReplies,
         OpenFailed, ConsistAccepted, ConsistStale,
         OpenReturned, FsrmtFileClose, Fsio_FileNameOpen, FsrmtOpen, infoVars, opVars, msgVars

LEMMA NextCall ==
    ASSUME ListInv, NumberTypes, EntryTypes, CallTypes, [Next]_vars
    PROVE  CallTypes'
<1>1. ASSUME NEW p \in Procs, NEW n, NEW ok, Continue(p, n, ok) PROVE CallTypes'
  <2>1. CASE NextCommand(p, n, ok)
    <3>1. PICK i \in From(n) :
             call' = [to |-> clientList[i], flags |-> Command(p, clientList[i], ok),
                      stamp |-> cltStamp[clientList[i]], version |-> version]
      BY <2>1 DEF NextCommand
    <3>2. PICK c : c = clientList[i]
      OBVIOUS
    <3>3. c \in Clients
      BY <3>2 DEF From, ListInv, ListTypes
    <3>4. PICK f : f = Command(p, c, ok)
      OBVIOUS
    <3>5. f \in SUBSET Flags
      BY <3>4, CommandFlags
    <3>6. cltStamp[c] \in 0 .. MaxOpens /\ version \in 1 .. MaxOpens + 1
      BY <3>3 DEF EntryTypes, NumberTypes
    <3>7. call' = [to |-> c, flags |-> f, stamp |-> cltStamp[c], version |-> version]
      BY <3>1, <3>2, <3>4
    <3>8. QED
      BY <3>3, <3>5, <3>6, <3>7 DEF CallTypes, Messages
  <2>2. CASE LastCommand(p, n, ok)
    BY <2>2 DEF LastCommand, CallTypes
  <2>3. QED
    BY <1>1, <2>1, <2>2 DEF Continue
<1>2. ASSUME NEW p \in Procs, StartConsistency(p) \/ ResumeConsistency(p) PROVE CallTypes'
  <2>1. \E n, ok : Continue(p, n, ok)
    BY <1>2 DEF StartConsistency, ResumeConsistency
  <2>2. QED
    BY <1>1, <2>1
<1>3. CASE call' = call
  BY <1>3 DEF CallTypes
<1>4. QED
  BY <1>2, <1>3
     DEF Next, Server, User, Finish, Callback, Client, Read, Write, ProcessConsist,
         ProcessConsistFails, ProcessConsistNoHandle, ReportUnknown, ReportError,
         ProcessConsistReply, ConsistTimeoutIntr, ConsistTimeout, Fsconsist_NumClients,
         DelayedWrite, Evict, FsrmtFileScavenge, vars, AwaitConsistDone, AwaitReplies,
         EndConsistency, OpenFailed, ConsistAccepted, ConsistStale, OpenBusy, FsRmtFileHandleInit,
         OpenReturned, FsrmtFileClose, Fsio_FileNameOpen, FsrmtOpen, opVars

\* REMOVE_CLIENT.
LEMMA EntriesRemoved ==
    ASSUME EntryTypes, NEW S, Unlist(S)
    PROVE  /\ cltCached' \in [Clients -> BOOLEAN] /\ cltStamp' \in [Clients -> 0 .. MaxOpens]
           /\ \A c \in Clients : cltStamp'[c] = IF c \in S THEN 0 ELSE cltStamp[c]
<1>1. cltCached' = [c \in Clients |-> cltCached[c] /\ c \notin S]
  BY DEF Unlist
<1>2. cltCached' \in [Clients -> BOOLEAN]
  BY <1>1
<1>3. /\ cltStamp' \in [Clients -> 0 .. MaxOpens]
      /\ \A c \in Clients : cltStamp'[c] = IF c \in S THEN 0 ELSE cltStamp[c]
  BY ConsistAssumption DEF Unlist, EntryTypes
<1>4. QED
  BY <1>2, <1>3

LEMMA NextEntries ==
    ASSUME FlagTypes, EntryTypes, QueueTypes, NumberTypes', [Next]_vars
    PROVE  EntryTypes'
<1>1. ASSUME NEW p \in Procs, NEW n, NEW ok \in BOOLEAN, Continue(p, n, ok) PROVE EntryTypes'
  <2>1. CASE UpdateList(p, ok)
    <3>1. PICK x \in Clients : x = Host(p)
      BY ProcHost
    <3>2. /\ cltCached' = [cltCached EXCEPT ![x] = ok]
          /\ cltStamp' = [cltStamp EXCEPT ![x] = stamp']
          /\ lastWriter' = IF ok /\ mode[p] = "write" THEN x ELSE lastWriter
      BY <2>1, <3>1 DEF UpdateList
    <3>3. stamp' \in 0 .. MaxOpens
      BY DEF NumberTypes
    <3>4. QED
      BY <3>2, <3>3 DEF EntryTypes
  <2>2. CASE UNCHANGED <<cltCached, cltStamp, lastWriter>>
    BY <2>2 DEF EntryTypes
  <2>3. QED
    BY <1>1, <2>1, <2>2 DEF Continue, NextCommand, LastCommand, listVars
<1>2. ASSUME NEW p \in Procs, StartConsistency(p) PROVE EntryTypes'
  <2>1. CacheableBy(p) \in BOOLEAN
    BY DEF CacheableBy
  <2>2. \E n : Continue(p, n, CacheableBy(p))
    BY <1>2 DEF StartConsistency
  <2>3. QED
    BY <1>1, <2>1, <2>2
<1>3. ASSUME NEW p \in Procs, ResumeConsistency(p) PROVE EntryTypes'
  <2>1. cacheable \in BOOLEAN /\ \E n : Continue(p, n, cacheable)
    BY <1>3 DEF ResumeConsistency, FlagTypes
  <2>2. QED
    BY <1>1, <2>1
<1>4. ASSUME NEW S, Kill(S) PROVE EntryTypes'
  <2>1. PICK R : Unlist(R)
    BY <1>4 DEF Kill, IOClientKill
  <2>2. lastWriter' \in Clients \cup {NoClient}
    BY <1>4 DEF Kill, EntryTypes
  <2>3. QED
    BY <2>1, <2>2, EntriesRemoved DEF EntryTypes
<1>5. ASSUME NEW S, Unlist(S), lastWriter' \in {lastWriter, NoClient} PROVE EntryTypes'
  BY <1>5, EntriesRemoved DEF EntryTypes
<1>6. ASSUME NEW r \in reports, ProcessConsistReply(r) PROVE EntryTypes'
  <2>1. PICK x \in Clients : x = r.from
    BY DEF QueueTypes
  <2>2. lastWriter' \in {lastWriter, NoClient}
    BY <1>6 DEF ProcessConsistReply
  <2>3. CASE Unlist({x})
    BY <1>5, <2>2, <2>3
  <2>4. CASE cltStamp' = cltStamp /\ (cltCached' = cltCached \/ cltCached' = [cltCached EXCEPT ![x] = FALSE])
    <3>1. cltCached' \in [Clients -> BOOLEAN]
      BY <2>4 DEF EntryTypes
    <3>2. QED
      BY <2>2, <2>4, <3>1 DEF EntryTypes
  <2>5. QED
    BY <1>6, <2>1, <2>3, <2>4 DEF ProcessConsistReply
<1>7. CASE Fsconsist_NumClients
  BY <1>5, <1>7 DEF Fsconsist_NumClients, infoVars
<1>8. ASSUME NEW p \in Procs, FsrmtFileClose(p) PROVE EntryTypes'
  <2>1. lastWriter' = lastWriter
    BY <1>8 DEF FsrmtFileClose, infoVars
  <2>2. (\E S : Unlist(S)) \/ UNCHANGED <<cltCached, cltStamp>>
    BY <1>8 DEF FsrmtFileClose, Fsio_FileClose, Fsconsist_Close, IOClientClose, listVars
  <2>3. QED
    BY <1>5, <2>1, <2>2 DEF EntryTypes
<1>9. ASSUME NEW p \in Procs, OpenFailed(p) \/ ConsistStale(p) PROVE EntryTypes'
  BY <1>4, <1>9 DEF OpenFailed, ConsistStale
<1>10. CASE ConsistTimeout
  BY <1>4, <1>10 DEF ConsistTimeout
<1>11. CASE UNCHANGED <<cltCached, cltStamp, lastWriter>>
  BY <1>11 DEF EntryTypes
<1>12. QED
  BY <1>2, <1>3, <1>6, <1>7, <1>8, <1>9, <1>10, <1>11
     DEF Next, Server, User, Finish, Callback, Client, Read, Write, ProcessConsist,
         ProcessConsistFails, ProcessConsistNoHandle, ReportUnknown, ReportError,
         ConsistTimeoutIntr, DelayedWrite, Evict, FsrmtFileScavenge, vars, AwaitConsistDone,
         AwaitReplies, EndConsistency, ConsistAccepted, OpenBusy, FsRmtFileHandleInit,
         OpenReturned, Fsio_FileNameOpen, FsrmtOpen, listVars, infoVars

LEMMA NextQueues ==
    ASSUME CallTypes, CallKnown, QueueTypes, [Next]_vars
    PROVE  QueueTypes'
<1>1. ASSUME NEW p \in Procs, ConsistAccepted(p) PROVE QueueTypes'
  <2>1. call.to \in Clients
    BY <1>1 DEF ConsistAccepted, CallKnown
  <2>2. call # NoCall
    BY <2>1, ConsistAssumption DEF NoCall
  <2>3. QED
    BY <1>1, <2>2 DEF ConsistAccepted, CallTypes, QueueTypes
<1>2. ASSUME NEW m \in work, ProcessConsist(m) \/ ProcessConsistFails(m) \/ ProcessConsistNoHandle(m)
      PROVE  QueueTypes'
  <2>1. m \in Messages
    BY DEF QueueTypes
  <2>2. m.to \in Clients /\ m.stamp \in 0 .. MaxOpens
    BY <2>1 DEF Messages
  <2>3. \A b \in BOOLEAN : [from |-> m.to, stamp |-> m.stamp, ok |-> b]
                             \in [from : Clients, stamp : 0 .. MaxOpens, ok : BOOLEAN]
    BY <2>2
  <2>4. /\ work' = work \ {m}
        /\ \/ reports' = reports
           \/ \E b \in BOOLEAN : reports' = reports \cup {[from |-> m.to, stamp |-> m.stamp, ok |-> b]}
    BY <1>2 DEF ProcessConsist, ProcessConsistFails, ProcessConsistNoHandle
  <2>5. QED
    BY <2>3, <2>4 DEF QueueTypes
<1>3. CASE work' = work /\ reports' \subseteq reports
  BY <1>3 DEF QueueTypes
<1>4. QED
  BY <1>1, <1>2, <1>3
     DEF Next, Server, User, Finish, Callback, Client, Read, Write, ReportUnknown, ReportError,
         ProcessConsistReply, ConsistTimeoutIntr, ConsistTimeout, Fsconsist_NumClients,
         DelayedWrite, Evict, FsrmtFileScavenge, vars, AwaitConsistDone, AwaitReplies,
         StartConsistency, ResumeConsistency, EndConsistency, OpenFailed, ConsistStale, OpenBusy,
         FsRmtFileHandleInit, OpenReturned, FsrmtFileClose, Fsio_FileNameOpen, FsrmtOpen, msgVars

LEMMA NextHosts ==
    ASSUME NumberTypes, AnswerTypes, HostTypes, QueueTypes, [Next]_vars
    PROVE  HostTypes'
<1>1. ASSUME NEW x \in Clients, NEW h \in HandleRange, handle' \in {handle, [handle EXCEPT ![x] = h]}
      PROVE  handle' \in [Clients -> HandleRange]
  <2> HIDE DEF HandleRange
  <2> QED
    BY <1>1 DEF HostTypes
<1>2. ASSUME NEW x \in Clients,
             handle' \in {handle, [handle EXCEPT ![x] = [handle[x] EXCEPT !.cacheable = FALSE]]}
      PROVE  handle' \in [Clients -> HandleRange]
  <2>1. handle[x] \in HandleRange
    BY DEF HostTypes
  <2>2. [handle[x] EXCEPT !.cacheable = FALSE] \in HandleRange
    BY <2>1 DEF HandleRange
  <2>3. QED
    BY <1>1, <1>2, <2>2
<1>3. ASSUME NEW m \in work, ProcessConsist(m) PROVE HostTypes'
  <2>1. PICK x \in Clients : x = m.to
    BY DEF QueueTypes, Messages
  <2>2. Fscache_Consist(x, m.flags)
    BY <1>3, <2>1 DEF ProcessConsist
  <2>3. handle' \in [Clients -> HandleRange]
    BY <1>2, <2>2 DEF Fscache_Consist
  <2>4. block' \in [Clients -> {"none", "clean", "dirty"}]
    BY <2>2 DEF Fscache_Consist, HostTypes
  <2>5. fresh' \in [Clients -> BOOLEAN]
    BY <2>2 DEF Fscache_Consist, HostTypes
  <2>6. diskFresh' \in BOOLEAN
    BY <2>2 DEF Fscache_Consist, HostTypes
  <2>7. QED
    BY <2>3, <2>4, <2>5, <2>6 DEF HostTypes
<1>4. ASSUME NEW m \in work, ProcessConsistFails(m) PROVE HostTypes'
  <2>1. PICK x \in Clients : x = m.to
    BY DEF QueueTypes, Messages
  <2>2. /\ handle' \in {handle, [handle EXCEPT ![x] = [handle[x] EXCEPT !.cacheable = FALSE]]}
        /\ UNCHANGED <<block, fresh, diskFresh>>
    BY <1>4, <2>1 DEF ProcessConsistFails
  <2>3. QED
    BY <1>2, <2>2 DEF HostTypes
<1>5. ASSUME NEW p \in Procs, FsRmtFileHandleInit(p) PROVE HostTypes'
  <2>1. PICK x \in Clients : x = Host(p)
    BY ProcHost
  <2>2. PICK h : h = [valid |-> TRUE, cacheable |-> opened[p].cacheable,
                      version |-> IF opened[p].version > handle[x].version
                                  THEN opened[p].version ELSE handle[x].version,
                      stamp |-> IF opened[p].stamp > handle[x].stamp
                                THEN opened[p].stamp ELSE handle[x].stamp]
    OBVIOUS
  <2>3. opened[p] \in Answers /\ handle[x] \in HandleRange
    BY DEF AnswerTypes, HostTypes
  <2>4. h \in HandleRange
    BY <2>2, <2>3 DEF Answers, HandleRange
  <2>5. handle' = [handle EXCEPT ![x] = h]
    BY <1>5, <2>1, <2>2 DEF FsRmtFileHandleInit
  <2>6. handle' \in [Clients -> HandleRange]
    BY <1>1, <2>4, <2>5
  <2>7. /\ block' \in [Clients -> {"none", "clean", "dirty"}] /\ fresh' \in [Clients -> BOOLEAN]
    BY <1>5 DEF FsRmtFileHandleInit, HostTypes
  <2>8. diskFresh' = diskFresh
    BY <1>5 DEF FsRmtFileHandleInit
  <2>9. QED
    BY <2>6, <2>7, <2>8 DEF HostTypes
<1>6. ASSUME NEW p \in Procs, Read(p) \/ Write(p) PROVE HostTypes'
  <2>1. PICK x \in Clients : x = Host(p)
    BY ProcHost
  <2>2. handle' = handle
    BY <1>6 DEF Read, Write
  <2>3. block' \in [Clients -> {"none", "clean", "dirty"}]
    BY <1>6 DEF Read, Write, HostTypes
  <2>4. fresh' \in [Clients -> BOOLEAN]
    <3>1. CASE Read(p)
      <4>1. fresh' = [fresh EXCEPT ![x] = diskFresh]
        BY <2>1, <3>1 DEF Read
      <4>2. QED
        BY <4>1 DEF HostTypes
    <3>2. CASE Write(p)
      <4>1. fresh' = [y \in Clients |-> y = x] \/ fresh' = [y \in Clients |-> FALSE]
        BY <2>1, <3>2 DEF Write
      <4>2. QED
        BY <4>1
    <3>3. QED
      BY <1>6, <3>1, <3>2
  <2>5. diskFresh' \in BOOLEAN
    BY <1>6 DEF Read, Write, HostTypes
  <2>6. QED
    BY <2>2, <2>3, <2>4, <2>5 DEF HostTypes
<1>7. ASSUME NEW c \in Clients, Client(c) PROVE HostTypes'
  <2>1. CASE DelayedWrite(c)
    BY <2>1 DEF DelayedWrite, HostTypes
  <2>2. CASE Evict(c)
    BY <2>2 DEF Evict, HostTypes
  <2>3. CASE FsrmtFileScavenge(c)
    <3>1. NoHandle \in HandleRange
      BY ConsistAssumption DEF NoHandle, HandleRange
    <3>2. handle' = [handle EXCEPT ![c] = NoHandle] /\ UNCHANGED <<block, fresh, diskFresh>>
      BY <2>3 DEF FsrmtFileScavenge
    <3>3. QED
      BY <1>1, <3>1, <3>2 DEF HostTypes
  <2>4. QED
    BY <1>7, <2>1, <2>2, <2>3 DEF Client
<1>8. CASE UNCHANGED cltVars
  BY <1>8 DEF cltVars, HostTypes
<1>9. QED
  BY <1>3, <1>4, <1>5, <1>6, <1>7, <1>8
     DEF Next, Server, User, Finish, Callback, ProcessConsistNoHandle, ReportUnknown, ReportError,
         ProcessConsistReply, ConsistTimeoutIntr, ConsistTimeout, Fsconsist_NumClients,
         vars, AwaitConsistDone, AwaitReplies, ConsistAccepted,
         StartConsistency, ResumeConsistency, EndConsistency, OpenFailed, ConsistStale, OpenBusy,
         OpenReturned, FsrmtFileClose, Fsio_FileNameOpen, FsrmtOpen

-----------------------------------------------------------------------------
\* One process goes on with its open, or is done.
LEMMA OneSucceeds ==
    ASSUME ListTypes, OpensSucceed, mode' = mode, NEW p \in Procs, NEW s, pc' = [pc EXCEPT ![p] = s],
           pc[p] \notin {"idle", "open"} \/ s = "idle", s # "failed",
           mode[p] = "stat" => s \notin {"replied", "returned", "open"}
    PROVE  OpensSucceed'
<1>1. pc'[p] = s /\ \A q \in Procs \ {p} : pc'[q] = pc[q]
  BY DEF ListTypes
<1>2. \A q \in Procs : Opener(q)' => Opener(q)
  BY <1>1 DEF Opener
<1>3. \A q \in Procs : /\ pc'[q] # "failed"
                       /\ mode[q] = "stat" => pc'[q] \notin {"replied", "returned", "open"}
  BY <1>1 DEF OpensSucceed
<1>4. QED
  BY <1>2, <1>3 DEF OpensSucceed

LEMMA NextSucceeds ==
    ASSUME ListInv, OpensSucceed, ~error, [Next]_vars
    PROVE  OpensSucceed'
<1>1. ListTypes
  BY DEF ListInv
<1>2. ASSUME NEW p \in Procs, FsrmtOpen(p) PROVE OpensSucceed'
  <2>1. PICK m \in Modes : /\ Overlap \/ m = "stat" \/ ~Opening
                           /\ mode' = [mode EXCEPT ![p] = m]
    BY <1>2 DEF FsrmtOpen
  <2>2. pc[p] = "idle" /\ pc' = [pc EXCEPT ![p] = "sent"]
    BY <1>2 DEF FsrmtOpen
  <2>3. /\ pc'[p] = "sent" /\ mode'[p] = m
        /\ \A q \in Procs \ {p} : pc'[q] = pc[q] /\ mode'[q] = mode[q]
    BY <1>1, <2>1, <2>2 DEF ListTypes
  <2>4. \A q \in Procs : /\ pc'[q] # "failed"
                         /\ mode'[q] = "stat" => pc'[q] \notin {"replied", "returned", "open"}
    BY <2>3 DEF OpensSucceed
  <2>5. \A q \in Procs \ {p} : Opener(q)' <=> Opener(q)
    BY <2>3 DEF Opener
  <2>6. Opener(p)' <=> m # "stat"
    BY <2>3 DEF Opener
  <2>7. Opening <=> \E q \in Procs : Opener(q)
    BY DEF Opening, Opener
  <2>8. ~Overlap => \A q, r \in Procs : Opener(q)' /\ Opener(r)' => q = r
    BY <2>1, <2>5, <2>6, <2>7 DEF OpensSucceed
  <2>9. QED
    BY <2>4, <2>8 DEF OpensSucceed
<1>3. ASSUME NEW p \in Procs, EndConsistency(p) PROVE OpensSucceed'
  <2>1. /\ pc[p] \in {"ending", "replies"} /\ mode' = mode
        /\ \A q \in Procs : pc'[q] = IF q = p THEN IF mode[p] = "stat" THEN "idle" ELSE "replied"
                                     ELSE IF pc[q] = "asleep" THEN "awake" ELSE pc[q]
    BY <1>3 DEF EndConsistency
  <2>2. \A q \in Procs : Opener(q)' => Opener(q)
    BY <2>1 DEF Opener
  <2>3. \A q \in Procs : /\ pc'[q] # "failed"
                         /\ mode[q] = "stat" => pc'[q] \notin {"replied", "returned", "open"}
    BY <2>1 DEF OpensSucceed
  <2>4. QED
    BY <2>1, <2>2, <2>3 DEF OpensSucceed
<1>4. ASSUME NEW p \in Procs, StartConsistency(p) \/ ResumeConsistency(p) PROVE OpensSucceed'
  <2>1. /\ pc[p] \notin {"idle", "open"} /\ mode' = mode
        /\ pc' = [pc EXCEPT ![p] = "calling"] \/ pc' = [pc EXCEPT ![p] = "ending"]
    BY <1>4 DEF StartConsistency, ResumeConsistency, Continue, NextCommand, LastCommand
  <2>2. QED
    BY <1>1, <2>1, OneSucceeds
<1>5. ASSUME NEW p \in Procs,
             \/ AwaitConsistDone(p) \/ AwaitReplies(p) \/ FsRmtFileHandleInit(p) \/ OpenBusy(p)
             \/ OpenFailed(p) \/ ConsistAccepted(p) \/ ConsistStale(p) \/ OpenReturned(p)
             \/ FsrmtFileClose(p) \/ Fsio_FileNameOpen(p)
      PROVE  OpensSucceed'
  <2>1. \E s : /\ pc' = [pc EXCEPT ![p] = s] /\ mode' = mode
               /\ pc[p] \notin {"idle", "open"} \/ s = "idle"
               /\ s # "failed"
               /\ mode[p] = "stat" => s \notin {"replied", "returned", "open"}
    BY <1>5 DEF OpensSucceed, AwaitConsistDone, AwaitReplies, FsRmtFileHandleInit, OpenBusy,
       OpenFailed, ConsistAccepted, ConsistStale, OpenReturned, FsrmtFileClose, Fsio_FileNameOpen,
       FileBusy
  <2>2. QED
    BY <1>1, <2>1, OneSucceeds
<1>6. CASE UNCHANGED <<pc, mode>>
  BY <1>6 DEF OpensSucceed, Opener
<1>7. QED
  BY <1>2, <1>3, <1>4, <1>5, <1>6
     DEF Next, Server, User, Finish, Callback, Client, Read, Write, ProcessConsist,
         ProcessConsistFails, ProcessConsistNoHandle, ReportUnknown, ReportError,
         ProcessConsistReply, ConsistTimeoutIntr, ConsistTimeout, Fsconsist_NumClients,
         DelayedWrite, Evict, FsrmtFileScavenge, vars, procVars

-----------------------------------------------------------------------------
\* Whoever uses the file counts.
LEMMA UsersActive ==
    ASSUME OpensCounted
    PROVE  /\ \A k : /\ IsFiniteSet(Holders(k)) /\ Cardinality(Holders(k)) \in Nat
                     /\ Cardinality(Holders(k)) <= Cardinality(Active)
           /\ \A c, k : /\ IsFiniteSet(Users(c, k)) /\ Cardinality(Users(c, k)) \in Nat
                        /\ Cardinality(Users(c, k)) <= Cardinality(Active)
<1>1. \A p \in Procs : p \in Arriving \/ Uses(p) => p \in Active
  BY DEF Arriving, Uses, Joined, Granted, IsOpen, Active
<1>2. \A k : Holders(k) \subseteq Active
  BY <1>1 DEF Holders
<1>3. \A c, k : Users(c, k) \subseteq Active
  BY <1>1 DEF Users
<1>4. QED
  BY <1>2, <1>3, PartOf DEF OpensCounted

LEMMA KindFacts ==
    /\ \A m : UseOf(m) \in [Kinds -> {0, 1}]
    /\ \A m : UseOf(m)["ref"] = 1 /\ (UseOf(m)["exec"] = 1 <=> m = "exec")
    /\ \A p, k : k \in Kinds => UseOf(mode[p])[k] = IF HasUse(p, k) THEN 1 ELSE 0
    /\ "ref" \in Kinds /\ "exec" \in Kinds
<1>1. \A m : UseOf(m) \in [Kinds -> {0, 1}]
  BY DEF UseOf
<1>2. \A m : UseOf(m)["ref"] = 1 /\ (UseOf(m)["exec"] = 1 <=> m = "exec")
  BY DEF UseOf, Kinds
<1>3. "ref" \in Kinds /\ "exec" \in Kinds
  BY DEF Kinds
<1>4. QED
  BY <1>1, <1>2, <1>3 DEF HasUse

\* An entry without references has no user, and the counts of a client that has none
\* are zero.
LEMMA NoUsers ==
    ASSUME OpensCounted, UsesCounted, UseTypes, NEW c \in Clients
    PROVE  /\ cltUse[c]["ref"] = 0 <=> ~InUse(c)
           /\ ~InUse(c) => cltUse[c] = NoUse
<1>1. \A k \in Kinds : cltUse[c][k] = Cardinality(Users(c, k)) /\ IsFiniteSet(Users(c, k))
  BY UsersActive DEF UsesCounted
<1>2. InUse(c) <=> Users(c, "ref") # {}
  BY KindFacts DEF InUse, Users, HasUse
<1>3. ~InUse(c) => \A k : Users(c, k) = {}
  BY DEF InUse, Users
<1>4. cltUse[c]["ref"] = 0 <=> ~InUse(c)
  BY <1>1, <1>2, FS_EmptySet, KindFacts
<1>5. ~InUse(c) => \A k \in Kinds : cltUse[c][k] = 0
  BY <1>1, <1>3, FS_EmptySet
<1>6. ~InUse(c) => cltUse[c] = NoUse
  <2>1. cltUse[c] \in [Kinds -> 0 .. MaxOpens]
    BY DEF UseTypes
  <2>2. QED
    BY <1>5, <2>1 DEF NoUse
<1>7. QED
  BY <1>4, <1>6

\* The same processes use the file for the same.
SameUses ==
    \A q \in Procs : /\ Uses(q)' <=> Uses(q)
                     /\ q \in Arriving' <=> q \in Arriving
                     /\ Uses(q) \/ q \in Arriving => mode'[q] = mode[q]

LEMMA UsesStay ==
    ASSUME UsesCounted, UseTypes, SameUses, use' = use, cltUse' = cltUse
    PROVE  UsesCounted' /\ UseTypes'
<1>1. \A k : Holders(k)' = Holders(k)
  BY DEF Holders, HasUse, SameUses
<1>2. \A c, k : Users(c, k)' = Users(c, k)
  BY DEF Users, HasUse, SameUses
<1>3. QED
  BY <1>1, <1>2 DEF UsesCounted, UseTypes

\* The counts stay in their range.
LEMMA UsesBounded ==
    ASSUME OpensCounted', NumberTypes', UsesCounted',
           use' \in [Kinds -> Int], cltUse' \in [Clients -> [Kinds -> Int]]
    PROVE  UseTypes'
<1>1. /\ \A k : Cardinality(Holders(k)') \in Nat /\ Cardinality(Holders(k)') <= Cardinality(Active')
      /\ \A c, k : Cardinality(Users(c, k)') \in Nat /\ Cardinality(Users(c, k)') <= Cardinality(Active')
  <2>1. \A p \in Procs : p \in Arriving' \/ Uses(p)' => p \in Active'
    BY DEF Arriving, Uses, Joined, Granted, IsOpen, Active
  <2>2. (\A k : Holders(k)' \subseteq Active') /\ (\A c, k : Users(c, k)' \subseteq Active')
    BY <2>1 DEF Holders, Users
  <2>3. IsFiniteSet(Active')
    BY DEF OpensCounted
  <2>4. QED
    BY <2>2, <2>3, PartOf
<1>2. /\ IsFiniteSet(Active') /\ Cardinality(Active') <= opens' /\ opens' \in Int /\ opens' <= MaxOpens
      /\ MaxOpens \in Int
  BY ConsistAssumption DEF OpensCounted, NumberTypes
<1>3. Cardinality(Active') \in Nat
  BY <1>2, FS_CardinalityType
<1>4. \A k \in Kinds : use'[k] \in 0 .. MaxOpens
  BY <1>1, <1>2, <1>3 DEF UsesCounted
<1>5. \A c \in Clients : \A k \in Kinds : cltUse'[c][k] \in 0 .. MaxOpens
  BY <1>1, <1>2, <1>3 DEF UsesCounted
<1>6. QED
  BY <1>4, <1>5 DEF UseTypes

-----------------------------------------------------------------------------
\* What the opens, closes and call-backs must keep.
UseInv == UsesCounted /\ UseTypes /\ StampsCarried /\ CallKnown

\* The answers that are on their way stay as they are.
SameAnswers ==
    \A q \in Procs : /\ Joined(q)' <=> Joined(q)
                     /\ Granted(q)' <=> Granted(q)
                     /\ Granted(q) => opened'[q] = opened[q]

SameHandles ==
    \A c \in Clients : handle'[c].valid = handle[c].valid /\ handle'[c].stamp = handle[c].stamp

\* No client becomes a user, entries of users stay.
LEMMA StampsKept ==
    ASSUME StampsCarried, SameAnswers, SameHandles, stamp' = stamp,
           \A q \in Procs : Uses(q)' => Uses(q),
           \A c \in Clients : InUse(c)' => cltStamp'[c] = cltStamp[c] /\ (Listed(c) => Listed(c)')
    PROVE  StampsCarried'
<1>1. \A c : InUse(c)' => InUse(c)
  BY DEF InUse
<1>2. \A q \in Procs : Uses(q)' => InUse(Host(q))' /\ Host(q) \in Clients
  BY ProcHost DEF InUse
<1>3. \A q \in Procs : Joined(q)' \/ Granted(q)' => Uses(q)'
  BY DEF Uses
<1>4. \A q \in Procs : Joined(q) \/ Granted(q) => cltStamp'[Host(q)] = cltStamp[Host(q)]
  BY <1>2, <1>3 DEF SameAnswers
<1>5. \A q \in Procs : Carries(q)' <=> Carries(q)
  BY <1>4 DEF Carries, SameAnswers
<1>6. \A c \in Clients : handle'[c].stamp <= stamp
  BY DEF SameHandles, StampsCarried
<1>7. \A q \in Procs : /\ Joined(q)' => cltStamp'[Host(q)] = stamp'
                       /\ Granted(q)' => opened'[q].stamp <= cltStamp'[Host(q)]
                       /\ Granted(q)' => opened'[q].stamp <= stamp'
                       /\ Scavenge /\ Granted(q)' => Carries(q)'
  BY <1>4, <1>5 DEF StampsCarried, SameAnswers
<1>8. ASSUME NEW c \in Clients, InUse(c)'
      PROVE  Listed(c)' /\ StampKnown(c)' /\ handle'[c].stamp <= cltStamp'[c]
  <2>1. /\ Listed(c) /\ StampKnown(c) /\ handle[c].stamp <= cltStamp[c]
        /\ cltStamp'[c] = cltStamp[c] /\ Listed(c)'
    BY <1>1, <1>8 DEF StampsCarried
  <2>2. StampKnown(c)'
    BY <1>5, <2>1 DEF StampKnown, SameHandles
  <2>3. QED
    BY <2>1, <2>2 DEF SameHandles
<1>9. QED
  BY <1>6, <1>7, <1>8 DEF StampsCarried

LEMMA StampsStay ==
    ASSUME StampsCarried, CallKnown, SameAnswers, SameHandles, stamp' = stamp, call' = call,
           \A q \in Procs : /\ Uses(q)' => Uses(q)
                            /\ pc'[q] = "calling" => pc[q] = "calling",
           \A c \in Clients : InUse(c)' => cltStamp'[c] = cltStamp[c] /\ (Listed(c) => Listed(c)')
    PROVE  StampsCarried' /\ CallKnown'
<1>1. \A c : InUse(c)' => InUse(c)
  BY DEF InUse
<1>2. CallKnown'
  BY <1>1 DEF CallKnown
<1>3. QED
  BY <1>2, StampsKept

\* The processes other than p stay where they are.
LEMMA OthersStay ==
    ASSUME NEW p,
           \A q \in Procs \ {p} : pc'[q] = pc[q] /\ mode'[q] = mode[q] /\ opened'[q] = opened[q]
    PROVE  \A q \in Procs \ {p} : /\ Joined(q)' <=> Joined(q)
                                  /\ Granted(q)' <=> Granted(q)
                                  /\ IsOpen(q)' <=> IsOpen(q)
                                  /\ Uses(q)' <=> Uses(q)
                                  /\ q \in Arriving' <=> q \in Arriving
BY DEF Joined, Granted, IsOpen, Uses, Arriving

\* An open goes on and does not count yet, or counts as before.
LEMMA StageUse ==
    ASSUME CountInv, NEW p \in Procs,
           \/ FsrmtOpen(p) \/ OpenBusy(p) \/ AwaitConsistDone(p) \/ AwaitReplies(p)
           \/ ConsistAccepted(p) \/ OpenReturned(p)
           \/ Fsio_FileNameOpen(p) /\ mode[p] = "stat"
    PROVE  UseInv'
<1>1. /\ ListTypes /\ UsesCounted /\ UseTypes /\ StampsCarried /\ CallKnown /\ AnswerTypes
  BY TypeParts DEF CountInv
<1>2. UNCHANGED <<use, stamp, clientList, cltUse, cltStamp, call, handle>>
  BY DEF FsrmtOpen, OpenBusy, AwaitConsistDone, AwaitReplies, ConsistAccepted, OpenReturned,
         Fsio_FileNameOpen, fileVars, listVars, opVars, cltVars
<1>3. \A q \in Procs \ {p} : pc'[q] = pc[q] /\ mode'[q] = mode[q] /\ opened'[q] = opened[q]
  BY <1>1 DEF FsrmtOpen, OpenBusy, AwaitConsistDone, AwaitReplies, ConsistAccepted, OpenReturned,
         Fsio_FileNameOpen, ListTypes, AnswerTypes
<1>4. /\ Joined(p)' <=> Joined(p)
      /\ Granted(p)' <=> Granted(p)
      /\ Granted(p) => opened'[p] = opened[p]
      /\ IsOpen(p)' <=> IsOpen(p)
      /\ p \in Arriving' <=> p \in Arriving
      /\ Joined(p) \/ Granted(p) \/ IsOpen(p) \/ p \in Arriving => mode'[p] = mode[p]
      /\ pc'[p] # "calling"
  <2> USE DEF Joined, Granted, IsOpen, Arriving
  <2>1. CASE FsrmtOpen(p)
    BY <1>1, <2>1 DEF FsrmtOpen, ListTypes
  <2>2. CASE OpenBusy(p)
    <3>1. ~opened'[p].ok /\ pc'[p] = "replied" /\ pc[p] = "sent"
      BY <1>1, <2>2 DEF OpenBusy, ListTypes, AnswerTypes, NotOpened
    <3>2. QED
      BY <3>1
  <2>3. CASE AwaitConsistDone(p)
    BY <1>1, <2>3 DEF AwaitConsistDone, ListTypes
  <2>4. CASE AwaitReplies(p)
    BY <1>1, <2>4 DEF AwaitReplies, ListTypes
  <2>5. CASE ConsistAccepted(p)
    BY <1>1, <2>5 DEF ConsistAccepted, ListTypes
  <2>6. CASE OpenReturned(p)
    BY <1>1, <2>6 DEF OpenReturned, ListTypes
  <2>7. CASE Fsio_FileNameOpen(p) /\ mode[p] = "stat"
    BY <1>1, <2>7 DEF Fsio_FileNameOpen, ListTypes
  <2>8. QED
    BY <2>1, <2>2, <2>3, <2>4, <2>5, <2>6, <2>7
<1>5. SameAnswers /\ \A q \in Procs : Uses(q)' <=> Uses(q)
  BY <1>3, <1>4, OthersStay DEF SameAnswers, Uses
<1>6. SameUses
  BY <1>3, <1>4, <1>5, OthersStay DEF SameUses, Uses
<1>7. UsesCounted' /\ UseTypes'
  BY <1>1, <1>2, <1>6, UsesStay
<1>8. SameHandles /\ (\A c : Listed(c) => Listed(c)')
  BY <1>2 DEF SameHandles, Listed
<1>9. \A q \in Procs : pc'[q] = "calling" => pc[q] = "calling"
  BY <1>3, <1>4
<1>10. StampsCarried' /\ CallKnown'
  BY <1>1, <1>2, <1>5, <1>8, <1>9, StampsStay
<1>11. QED
  BY <1>7, <1>10 DEF UseInv

\* Clients without users are removed from the list.
LEMMA UnlistUse ==
    ASSUME CountInv, UNCHANGED <<pc, mode, opened, use, cltUse, stamp, call>>, SameHandles,
           \/ clientList' = clientList /\ cltStamp' = cltStamp
           \/ \E S : Unlist(S) /\ \A c \in S : c \in Clients => cltUse[c]["ref"] = 0
    PROVE  UseInv'
<1>1. /\ ListTypes /\ UsesCounted /\ UseTypes /\ StampsCarried /\ CallKnown /\ EntryTypes
      /\ OpensCounted
  BY TypeParts DEF CountInv
<1>2. \A q \in Procs : /\ Joined(q)' <=> Joined(q)
                       /\ Granted(q)' <=> Granted(q)
                       /\ Uses(q)' <=> Uses(q)
                       /\ q \in Arriving' <=> q \in Arriving
  BY DEF Joined, Granted, IsOpen, Uses, Arriving
<1>3. SameAnswers /\ SameUses
  BY <1>2 DEF SameAnswers, SameUses
<1>4. UsesCounted' /\ UseTypes'
  BY <1>1, <1>3, UsesStay
<1>5. ASSUME NEW c \in Clients, InUse(c)'
      PROVE  cltStamp'[c] = cltStamp[c] /\ (Listed(c) => Listed(c)')
  <2>1. InUse(c)
    BY <1>2, <1>5 DEF InUse
  <2>2. CASE clientList' = clientList /\ cltStamp' = cltStamp
    BY <2>2 DEF Listed
  <2>3. ASSUME NEW S, Unlist(S), \A d \in S : d \in Clients => cltUse[d]["ref"] = 0
        PROVE  cltStamp'[c] = cltStamp[c] /\ (Listed(c) => Listed(c)')
    <3>1. c \notin S
      BY <1>1, <2>1, <2>3, NoUsers
    <3>2. Listed(c) => Listed(c)'
      BY <1>1, <2>3, <3>1, Removed DEF Unlist
    <3>3. QED
      BY <1>1, <2>3, <3>1, <3>2, EntriesRemoved
  <2>4. QED
    BY <2>2, <2>3
<1>6. StampsCarried' /\ CallKnown'
  BY <1>1, <1>2, <1>3, <1>5, StampsStay
<1>7. QED
  BY <1>4, <1>6 DEF UseInv

\* ConsistStale forgets only clients that do not use the file.
LEMMA StaleUnused ==
    ASSUME CountInv, ~Preempt, NEW p \in Procs, ConsistStale(p), \A q \in Procs : ~Unfinished(q)
    PROVE  call.to \in Clients /\ ~InUse(call.to)
<1>1. pc[p] = "calling" /\ ~IsCurrent(call.to) /\ ~OpenInProgress(call.to)
  BY DEF ConsistStale
<1>2. PICK c \in Clients : c = call.to /\ (InUse(c) => call.stamp = cltStamp[c])
  BY <1>1 DEF CountInv, CallKnown
<1>3. SUFFICES ASSUME InUse(c) PROVE FALSE
  BY <1>2
<1>4. StampKnown(c)
  BY <1>3 DEF CountInv, StampsCarried
<1>5. CASE handle[c].valid /\ handle[c].stamp = cltStamp[c]
  BY <1>1, <1>2, <1>3, <1>5 DEF IsCurrent
<1>6. ASSUME NEW q \in Procs, Host(q) = c, Carries(q) PROVE FALSE
  <2>1. mode[q] # "stat" /\ pc[q] \in {"ending", "replies", "replied", "returned"}
    BY <1>6 DEF Carries, Joined, Granted
  <2>2. pc[q] # "returned"
    BY DEF Unfinished
  <2>3. QED
    BY <1>1, <1>2, <1>6, <2>1, <2>2 DEF OpenInProgress
<1>7. QED
  BY <1>4, <1>5, <1>6 DEF StampKnown

LEMMA StaleUse ==
    ASSUME CountInv, ~Preempt, NEW p \in Procs, ConsistStale(p), \A q \in Procs : ~Unfinished(q)
    PROVE  UseInv'
<1>1. /\ ListTypes /\ UsesCounted /\ UseTypes /\ StampsCarried /\ CallKnown /\ EntryTypes
      /\ OpensCounted
  BY TypeParts DEF CountInv
<1>2. PICK x \in Clients : x = call.to /\ ~InUse(x)
  BY StaleUnused
<1>3. /\ pc[p] = "calling" /\ pc' = [pc EXCEPT ![p] = "resume"]
      /\ UNCHANGED <<mode, opened, use, stamp, call, handle>>
      /\ Unlist({c \in {x} : ~Locked(c)})
      /\ cltUse' = [c \in Clients |-> IF c \in {x} THEN NoUse ELSE cltUse[c]]
  BY <1>2 DEF ConsistStale, Kill, IOClientKill, fileVars, opVars, cltVars
<1>4. cltUse' = cltUse
  <2>1. cltUse[x] = NoUse
    BY <1>1, <1>2, NoUsers
  <2>2. cltUse = [c \in Clients |-> cltUse[c]]
    BY <1>1 DEF UseTypes
  <2>3. QED
    BY <1>3, <2>1, <2>2
<1>5. \A q \in Procs \ {p} : pc'[q] = pc[q] /\ mode'[q] = mode[q] /\ opened'[q] = opened[q]
  BY <1>1, <1>3 DEF ListTypes
<1>6. pc'[p] = "resume"
  BY <1>1, <1>3 DEF ListTypes
<1>7. /\ ~Joined(p)' /\ ~Joined(p) /\ ~Granted(p)' /\ ~Granted(p) /\ ~IsOpen(p)' /\ ~IsOpen(p)
      /\ p \in Arriving' <=> p \in Arriving
  BY <1>3, <1>6 DEF Joined, Granted, IsOpen, Arriving
<1>8. SameAnswers /\ \A q \in Procs : Uses(q)' <=> Uses(q)
  BY <1>5, <1>7, OthersStay DEF SameAnswers, Uses
<1>9. SameUses
  BY <1>3, <1>5, <1>7, <1>8, OthersStay DEF SameUses
<1>10. UsesCounted' /\ UseTypes'
  BY <1>1, <1>3, <1>4, <1>9, UsesStay
<1>11. ASSUME NEW c \in Clients, InUse(c)'
       PROVE  cltStamp'[c] = cltStamp[c] /\ (Listed(c) => Listed(c)')
  <2>1. c # x
    BY <1>2, <1>8, <1>11 DEF InUse
  <2>2. PICK S : Unlist(S) /\ S \subseteq {x}
    BY <1>3
  <2>3. Listed(c) => Listed(c)'
    BY <1>1, <2>1, <2>2, Removed DEF Unlist
  <2>4. QED
    BY <1>1, <2>1, <2>2, <2>3, EntriesRemoved
<1>12. SameHandles /\ \A q \in Procs : pc'[q] = "calling" => pc[q] = "calling"
  BY <1>3, <1>5, <1>6 DEF SameHandles
<1>13. StampsCarried' /\ CallKnown'
  BY <1>1, <1>3, <1>8, <1>11, <1>12, StampsStay
<1>14. QED
  BY <1>10, <1>13 DEF UseInv

\* One more process counts, or one less.
LEMMA CountMore ==
    ASSUME NEW S, IsFiniteSet(S), NEW x, x \notin S, NEW h \in BOOLEAN, NEW T,
           T = S \cup {y \in {x} : h}
    PROVE  Cardinality(T) = Cardinality(S) + IF h THEN 1 ELSE 0
<1>1. CASE h
  <2>1. T = S \cup {x}
    BY <1>1
  <2>2. QED
    BY <1>1, <2>1, OneMore
<1>2. CASE ~h
  <2>1. T = S /\ Cardinality(S) \in Nat
    BY <1>2, FS_CardinalityType
  <2>2. QED
    BY <1>2, <2>1
<1>3. QED
  BY <1>1, <1>2

LEMMA CountLess ==
    ASSUME NEW S, IsFiniteSet(S), NEW x, NEW h \in BOOLEAN, h <=> x \in S, NEW T, T = S \ {x}
    PROVE  Cardinality(T) = Cardinality(S) - IF h THEN 1 ELSE 0
<1>1. CASE h
  BY <1>1, OneLess
<1>2. CASE ~h
  <2>1. T = S /\ Cardinality(S) \in Nat
    BY <1>2, FS_CardinalityType
  <2>2. QED
    BY <1>2, <2>1
<1>3. QED
  BY <1>1, <1>2

\* Fsio_FileNameOpen counts the open in the handle.
LEMMA NameUse ==
    ASSUME CountInv, OpensCounted', NumberTypes', NEW p \in Procs, Fsio_FileNameOpen(p),
           mode[p] # "stat"
    PROVE  UseInv'
<1>1. /\ ListTypes /\ UsesCounted /\ UseTypes /\ StampsCarried /\ CallKnown /\ OpensCounted
  BY TypeParts DEF CountInv
<1>2. /\ pc[p] = "sent" /\ pc' = [pc EXCEPT ![p] = "named"] /\ use' = Plus(use, UseOf(mode[p]))
      /\ UNCHANGED <<mode, opened, stamp, clientList, cltUse, cltStamp, call, handle>>
  BY DEF Fsio_FileNameOpen, listVars, opVars, cltVars
<1>3. \A q \in Procs \ {p} : pc'[q] = pc[q] /\ mode'[q] = mode[q] /\ opened'[q] = opened[q]
  BY <1>1, <1>2 DEF ListTypes
<1>4. pc'[p] = "named"
  BY <1>1, <1>2 DEF ListTypes
<1>5. /\ ~Joined(p)' /\ ~Joined(p) /\ ~Granted(p)' /\ ~Granted(p) /\ ~IsOpen(p)' /\ ~IsOpen(p)
      /\ p \in Arriving' /\ p \notin Arriving
  BY <1>2, <1>4 DEF Joined, Granted, IsOpen, Arriving
<1>6. SameAnswers /\ \A q \in Procs : Uses(q)' <=> Uses(q)
  BY <1>3, <1>5, OthersStay DEF SameAnswers, Uses
<1>7. ASSUME NEW k \in Kinds PROVE use'[k] = Cardinality(Holders(k)')
  <2>1. p \notin Holders(k) /\ HasUse(p, k) \in BOOLEAN
    BY <1>5 DEF Holders, Uses, HasUse
  <2>2. Holders(k)' = Holders(k) \cup {y \in {p} : HasUse(p, k)}
    <3>1. \A q \in Procs : HasUse(q, k)' <=> HasUse(q, k)
      BY <1>2 DEF HasUse
    <3>2. \A q \in Procs \ {p} : q \in Holders(k)' <=> q \in Holders(k)
      BY <1>3, <3>1, OthersStay DEF Holders
    <3>3. p \in Holders(k)' <=> HasUse(p, k)
      BY <1>5, <3>1 DEF Holders
    <3>4. QED
      BY <2>1, <3>2, <3>3 DEF Holders
  <2>3. Cardinality(Holders(k)') = Cardinality(Holders(k)) + IF HasUse(p, k) THEN 1 ELSE 0
    BY <1>1, <2>1, <2>2, UsersActive, CountMore
  <2>4. use'[k] = use[k] + UseOf(mode[p])[k]
    BY <1>2 DEF Plus
  <2>5. QED
    BY <1>1, <2>3, <2>4, KindFacts DEF UsesCounted
<1>8. \A c, k : Users(c, k)' = Users(c, k)
  BY <1>2, <1>6 DEF Users, HasUse
<1>9. UsesCounted'
  BY <1>1, <1>2, <1>7, <1>8 DEF UsesCounted
<1>10. use' \in [Kinds -> Int] /\ cltUse' \in [Clients -> [Kinds -> Int]]
  <2>1. UseOf(mode[p]) \in [Kinds -> {0, 1}]
    BY KindFacts
  <2>2. use' \in [Kinds -> Int]
    BY <1>1, <1>2, <2>1 DEF UseTypes, Plus
  <2>3. QED
    BY <1>1, <1>2, <2>2 DEF UseTypes
<1>11. UseTypes'
  BY <1>9, <1>10, UsesBounded
<1>12. SameHandles /\ (\A c : Listed(c) => Listed(c)') /\ \A q \in Procs : pc'[q] = "calling" => pc[q] = "calling"
  BY <1>2, <1>3, <1>4 DEF SameHandles, Listed
<1>13. StampsCarried' /\ CallKnown'
  BY <1>1, <1>2, <1>6, <1>12, StampsStay
<1>14. QED
  BY <1>9, <1>11, <1>13 DEF UseInv

\* A close gives back what the open counted.
LEMMA CloseUse ==
    ASSUME CountInv, OpensCounted', NumberTypes', NEW p \in Procs, FsrmtFileClose(p)
    PROVE  UseInv'
<1>1. /\ ListTypes /\ UsesCounted /\ UseTypes /\ StampsCarried /\ CallKnown /\ OpensCounted
      /\ EntryTypes
  BY TypeParts DEF CountInv
<1>2. PICK x \in Clients : x = Host(p)
  BY ProcHost
<1>3. /\ pc[p] = "open" /\ pc' = [pc EXCEPT ![p] = "idle"] /\ Fsio_FileClose(x, mode[p])
      /\ UNCHANGED <<mode, opened, stamp, call, handle>>
  BY <1>2 DEF FsrmtFileClose, opVars, cltVars
<1>4. \A q \in Procs \ {p} : pc'[q] = pc[q] /\ mode'[q] = mode[q] /\ opened'[q] = opened[q]
  BY <1>1, <1>3 DEF ListTypes
<1>5. pc'[p] = "idle"
  BY <1>1, <1>3 DEF ListTypes
<1>6. /\ ~Joined(p)' /\ ~Joined(p) /\ ~Granted(p)' /\ ~Granted(p) /\ ~IsOpen(p)' /\ IsOpen(p)
      /\ p \notin Arriving' /\ p \notin Arriving
  BY <1>3, <1>5 DEF Joined, Granted, IsOpen, Arriving
<1>7. /\ SameAnswers /\ Uses(p) /\ ~Uses(p)'
      /\ \A q \in Procs \ {p} : Uses(q)' <=> Uses(q)
  BY <1>4, <1>6, OthersStay DEF SameAnswers, Uses
<1>8. \A q \in Procs, k \in Kinds : HasUse(q, k)' <=> HasUse(q, k)
  BY <1>3 DEF HasUse
<1>9. Listed(x) /\ (mode[p] = "exec" => cltUse[x]["exec"] > 0)
  <2>1. InUse(x)
    BY <1>2, <1>7 DEF InUse
  <2>2. ASSUME mode[p] = "exec" PROVE cltUse[x]["exec"] > 0
    <3>1. p \in Users(x, "exec")
      BY <1>2, <1>7, <2>2, KindFacts DEF Users, HasUse
    <3>2. Cardinality(Users(x, "exec")) # 0 /\ Cardinality(Users(x, "exec")) \in Nat
      BY <1>1, <3>1, UsersActive, FS_EmptySet
    <3>3. QED
      BY <1>1, <3>2, KindFacts DEF UsesCounted
  <2>3. QED
    BY <1>1, <2>1, <2>2 DEF StampsCarried
<1>10. PICK left : left = Minus(cltUse[x], UseOf(mode[p]))
  OBVIOUS
<1>11. /\ use' = Minus(use, UseOf(mode[p]))
       /\ cltUse' = [cltUse EXCEPT ![x] = left]
       /\ \/ left["ref"] = 0 /\ Unlist({x})
          \/ UNCHANGED <<clientList, cltStamp>>
  BY <1>3, <1>9, <1>10 DEF Fsio_FileClose, Fsconsist_Close, IOClientClose
<1>12. ASSUME NEW k \in Kinds PROVE use'[k] = Cardinality(Holders(k)')
  <2>1. HasUse(p, k) <=> p \in Holders(k)
    BY <1>7 DEF Holders
  <2>2. Holders(k)' = Holders(k) \ {p}
    <3>1. \A q \in Procs \ {p} : q \in Holders(k)' <=> q \in Holders(k)
      BY <1>4, <1>8, OthersStay DEF Holders
    <3>2. p \notin Holders(k)'
      BY <1>6, <1>7 DEF Holders
    <3>3. QED
      BY <3>1, <3>2 DEF Holders
  <2>3. Cardinality(Holders(k)') = Cardinality(Holders(k)) - IF HasUse(p, k) THEN 1 ELSE 0
    <3>1. HasUse(p, k) \in BOOLEAN
      BY DEF HasUse
    <3>2. QED
      BY <1>1, <2>1, <2>2, <3>1, UsersActive, CountLess
  <2>4. use'[k] = use[k] - UseOf(mode[p])[k]
    BY <1>11 DEF Minus
  <2>5. QED
    BY <1>1, <2>3, <2>4, KindFacts DEF UsesCounted
<1>13. ASSUME NEW k \in Kinds PROVE left[k] = Cardinality(Users(x, k)')
  <2>1. HasUse(p, k) <=> p \in Users(x, k)
    BY <1>2, <1>7 DEF Users
  <2>2. Users(x, k)' = Users(x, k) \ {p}
    BY <1>7, <1>8 DEF Users
  <2>3. Cardinality(Users(x, k)') = Cardinality(Users(x, k)) - IF HasUse(p, k) THEN 1 ELSE 0
    <3>1. HasUse(p, k) \in BOOLEAN
      BY DEF HasUse
    <3>2. QED
      BY <1>1, <2>1, <2>2, <3>1, UsersActive, CountLess
  <2>4. left[k] = cltUse[x][k] - UseOf(mode[p])[k]
    BY <1>10 DEF Minus
  <2>5. QED
    BY <1>1, <2>3, <2>4, KindFacts DEF UsesCounted
<1>14. \A c \in Clients \ {x} : \A k \in Kinds : Users(c, k)' = Users(c, k)
  BY <1>2, <1>7, <1>8 DEF Users
<1>15. /\ cltUse'[x] = left
       /\ \A c \in Clients \ {x} : cltUse'[c] = cltUse[c]
  BY <1>1, <1>11 DEF UseTypes
<1>16. UsesCounted'
  <2>1. \A c \in Clients : \A k \in Kinds : cltUse'[c][k] = Cardinality(Users(c, k)')
    BY <1>1, <1>13, <1>14, <1>15 DEF UsesCounted
  <2>2. QED
    BY <1>12, <2>1 DEF UsesCounted
<1>17. use' \in [Kinds -> Int] /\ cltUse' \in [Clients -> [Kinds -> Int]]
  <2>1. UseOf(mode[p]) \in [Kinds -> {0, 1}]
    BY KindFacts
  <2>2. use' \in [Kinds -> Int]
    BY <1>1, <1>11, <2>1 DEF UseTypes, Minus
  <2>3. cltUse[x] \in [Kinds -> 0 .. MaxOpens]
    BY <1>1 DEF UseTypes
  <2>4. left \in [Kinds -> Int]
    BY <1>10, <2>1, <2>3 DEF Minus
  <2>5. cltUse \in [Clients -> [Kinds -> Int]]
    <3>1. [Kinds -> 0 .. MaxOpens] \subseteq [Kinds -> Int]
      OBVIOUS
    <3>2. QED
      BY <1>1, <3>1 DEF UseTypes
  <2>6. QED
    BY <1>11, <2>2, <2>4, <2>5
<1>18. UseTypes'
  BY <1>16, <1>17, UsesBounded
<1>19. ASSUME NEW c \in Clients, InUse(c)'
       PROVE  cltStamp'[c] = cltStamp[c] /\ (Listed(c) => Listed(c)')
  <2>1. CASE UNCHANGED <<clientList, cltStamp>>
    BY <2>1 DEF Listed
  <2>2. CASE left["ref"] = 0 /\ Unlist({x})
    <3>1. c # x
      <4>1. Cardinality(Users(x, "ref")') = 0 /\ IsFiniteSet(Users(x, "ref")')
        <5>1. Users(x, "ref")' = Users(x, "ref") \ {p}
          BY <1>7, <1>8, KindFacts DEF Users
        <5>2. IsFiniteSet(Users(x, "ref"))
          BY <1>1, UsersActive
        <5>3. QED
          BY <1>13, <2>2, <5>1, <5>2, PartOf, KindFacts
      <4>2. Users(x, "ref")' = {}
        BY <4>1, FS_EmptySet
      <4>3. QED
        BY <1>19, <4>2, KindFacts DEF InUse, Users, HasUse
    <3>2. Listed(c) => Listed(c)'
      BY <1>1, <2>2, <3>1, Removed DEF Unlist
    <3>3. QED
      BY <1>1, <2>2, <3>1, <3>2, EntriesRemoved
  <2>3. QED
    BY <1>11, <2>1, <2>2
<1>20. /\ SameHandles
       /\ \A q \in Procs : /\ Uses(q)' => Uses(q)
                           /\ pc'[q] = "calling" => pc[q] = "calling"
  BY <1>3, <1>4, <1>5, <1>7 DEF SameHandles
<1>21. StampsCarried' /\ CallKnown'
  BY <1>1, <1>3, <1>7, <1>19, <1>20, StampsStay
<1>22. QED
  BY <1>16, <1>18, <1>21 DEF UseInv

\* The loop comes to a client and calls it back.
LEMMA NextCommandUse ==
    ASSUME CountInv, ListInv', NEW p \in Procs, NEW n, NEW ok, NextCommand(p, n, ok),
           pc[p] \in {"named", "awake", "resume"}, UNCHANGED <<mode, opened, use, handle>>
    PROVE  UseInv'
<1>1. /\ ListTypes /\ UsesCounted /\ UseTypes /\ StampsCarried /\ CallKnown
  BY TypeParts DEF CountInv
<1>2. PICK i \in From(n) :
         /\ Command(p, clientList[i], ok) # {}
         /\ call' = [to |-> clientList[i], flags |-> Command(p, clientList[i], ok),
                     stamp |-> cltStamp[clientList[i]], version |-> version]
  BY DEF NextCommand
<1>3. /\ pc' = [pc EXCEPT ![p] = "calling"]
      /\ UNCHANGED <<stamp, clientList, cltUse, cltStamp>>
  BY DEF NextCommand, listVars
<1>4. \A q \in Procs \ {p} : pc'[q] = pc[q] /\ mode'[q] = mode[q] /\ opened'[q] = opened[q]
  BY <1>1, <1>3 DEF ListTypes
<1>5. pc'[p] = "calling"
  BY <1>1, <1>3 DEF ListTypes
<1>6. /\ ~Joined(p)' /\ ~Joined(p) /\ ~Granted(p)' /\ ~Granted(p) /\ ~IsOpen(p)' /\ ~IsOpen(p)
      /\ p \in Arriving' <=> p \in Arriving
  BY <1>5 DEF Joined, Granted, IsOpen, Arriving
<1>7. SameAnswers /\ \A q \in Procs : Uses(q)' <=> Uses(q)
  BY <1>4, <1>6, OthersStay DEF SameAnswers, Uses
<1>8. SameUses
  BY <1>4, <1>6, <1>7, OthersStay DEF SameUses
<1>9. UsesCounted' /\ UseTypes'
  BY <1>1, <1>3, <1>8, UsesStay
<1>10. SameHandles /\ (\A c : Listed(c) => Listed(c)')
  BY <1>3 DEF SameHandles, Listed
<1>11. StampsCarried'
  BY <1>1, <1>3, <1>7, <1>10, StampsKept
<1>12. \A q \in Procs : pc'[q] = "calling" => q = p
  BY <1>5 DEF ListInv, HolderAgrees, Holding
<1>13. call'.to = clientList[i] /\ call'.stamp = cltStamp[clientList[i]] /\ clientList[i] \in Clients
  BY <1>1, <1>2 DEF From, ListTypes
<1>14. clientList[i] # Host(p)
  BY <1>2 DEF Command, StatCommand, OpenCommand
<1>15. CallKnown'
  BY <1>3, <1>12, <1>13, <1>14 DEF CallKnown
<1>16. QED
  BY <1>9, <1>11, <1>15 DEF UseInv

\* The loop over the list of Fsconsist_GetClientAttrs ends.
LEMMA LastStatUse ==
    ASSUME CountInv, ListInv', NEW p \in Procs, NEW n, NEW ok, LastCommand(p, n, ok),
           mode[p] = "stat",
           pc[p] \in {"named", "awake", "resume"}, UNCHANGED <<mode, opened, use, handle>>
    PROVE  UseInv'
<1>1. /\ ListTypes /\ UsesCounted /\ UseTypes /\ StampsCarried /\ CallKnown
  BY TypeParts DEF CountInv
<1>2. /\ pc' = [pc EXCEPT ![p] = "ending"]
      /\ UNCHANGED <<stamp, clientList, cltUse, cltStamp>>
  BY DEF LastCommand, listVars
<1>3. \A q \in Procs \ {p} : pc'[q] = pc[q] /\ mode'[q] = mode[q] /\ opened'[q] = opened[q]
  BY <1>1, <1>2 DEF ListTypes
<1>4. pc'[p] = "ending"
  BY <1>1, <1>2 DEF ListTypes
<1>5. /\ ~Joined(p)' /\ ~Joined(p) /\ ~Granted(p)' /\ ~Granted(p) /\ ~IsOpen(p)' /\ ~IsOpen(p)
      /\ p \notin Arriving' /\ p \notin Arriving
  BY <1>4 DEF Joined, Granted, IsOpen, Arriving
<1>6. SameAnswers /\ \A q \in Procs : Uses(q)' <=> Uses(q)
  BY <1>3, <1>5, OthersStay DEF SameAnswers, Uses
<1>7. SameUses
  BY <1>3, <1>5, <1>6, OthersStay DEF SameUses
<1>8. UsesCounted' /\ UseTypes'
  BY <1>1, <1>2, <1>7, UsesStay
<1>9. SameHandles /\ (\A c : Listed(c) => Listed(c)')
  BY <1>2 DEF SameHandles, Listed
<1>10. StampsCarried'
  BY <1>1, <1>2, <1>6, <1>9, StampsKept
<1>11. \A q \in Procs : pc'[q] # "calling"
  BY <1>4 DEF ListInv, HolderAgrees, Holding
<1>12. CallKnown'
  BY <1>11 DEF CallKnown
<1>13. QED
  BY <1>8, <1>10, <1>12 DEF UseInv

\* UpdateList counts the open in the entry of its host, with a new time stamp.
LEMMA JoinUse ==
    ASSUME CountInv, Counting, ListInv', OpensCounted', NumberTypes', NEW p \in Procs, NEW n, NEW ok,
           LastCommand(p, n, ok), mode[p] # "stat",
           pc[p] \in {"named", "awake", "resume"}, UNCHANGED <<mode, opened, use, handle>>
    PROVE  UseInv'
<1>1. /\ ListTypes /\ UsesCounted /\ UseTypes /\ StampsCarried /\ CallKnown /\ OpensCounted
      /\ EntryTypes /\ NumberTypes /\ OpensSucceed /\ AnswerTypes /\ HostTypes
  BY TypeParts DEF CountInv
<1>2. PICK x \in Clients : x = Host(p)
  BY ProcHost
<1>3. /\ pc' = [pc EXCEPT ![p] = "ending"]
      /\ clientList' = IF Listed(x) THEN clientList ELSE <<x>> \o clientList
      /\ cltUse' = [cltUse EXCEPT ![x] = Plus(cltUse[x], UseOf(mode[p]))]
      /\ stamp' = stamp + 1
      /\ cltStamp' = [cltStamp EXCEPT ![x] = stamp']
  BY <1>2 DEF LastCommand, UpdateList
<1>4. \A q \in Procs \ {p} : pc'[q] = pc[q] /\ mode'[q] = mode[q] /\ opened'[q] = opened[q]
  BY <1>1, <1>3 DEF ListTypes
<1>5. pc'[p] = "ending"
  BY <1>1, <1>3 DEF ListTypes
<1>6. /\ Joined(p)' /\ ~Joined(p) /\ ~Granted(p)' /\ ~Granted(p) /\ ~IsOpen(p)' /\ ~IsOpen(p)
      /\ p \notin Arriving' /\ p \in Arriving /\ Uses(p)' /\ ~Uses(p)
  BY <1>5 DEF Joined, Granted, IsOpen, Arriving, Uses
<1>7. \A q \in Procs, k \in Kinds : HasUse(q, k)' <=> HasUse(q, k)
  BY DEF HasUse
<1>8. \A c : Listed(c)' <=> Listed(c) \/ c = x
  BY <1>1, <1>3, ListJoined
<1>9. \A k \in Kinds : Holders(k)' = Holders(k)
  BY <1>4, <1>6, <1>7, OthersStay DEF Holders
<1>10. ASSUME NEW k \in Kinds PROVE cltUse'[x][k] = Cardinality(Users(x, k)')
  <2>1. p \notin Users(x, k) /\ HasUse(p, k) \in BOOLEAN
    BY <1>6 DEF Users, HasUse
  <2>2. Users(x, k)' = Users(x, k) \cup {y \in {p} : HasUse(p, k)}
    <3>1. \A q \in Procs \ {p} : q \in Users(x, k)' <=> q \in Users(x, k)
      BY <1>4, <1>7, OthersStay DEF Users
    <3>2. p \in Users(x, k)' <=> HasUse(p, k)
      BY <1>2, <1>6, <1>7 DEF Users
    <3>3. QED
      BY <2>1, <3>1, <3>2 DEF Users
  <2>3. Cardinality(Users(x, k)') = Cardinality(Users(x, k)) + IF HasUse(p, k) THEN 1 ELSE 0
    BY <1>1, <2>1, <2>2, UsersActive, CountMore
  <2>4. cltUse'[x][k] = cltUse[x][k] + UseOf(mode[p])[k]
    BY <1>1, <1>3 DEF Plus, UseTypes
  <2>5. QED
    BY <1>1, <2>3, <2>4, KindFacts DEF UsesCounted
<1>11. \A c \in Clients \ {x} : \A k \in Kinds : Users(c, k)' = Users(c, k)
  BY <1>2, <1>4, <1>7, OthersStay DEF Users
<1>12. UsesCounted'
  <2>1. \A c \in Clients \ {x} : cltUse'[c] = cltUse[c]
    BY <1>1, <1>3 DEF UseTypes
  <2>2. \A c \in Clients : \A k \in Kinds : cltUse'[c][k] = Cardinality(Users(c, k)')
    BY <1>1, <1>10, <1>11, <2>1 DEF UsesCounted
  <2>3. \A k \in Kinds : use'[k] = Cardinality(Holders(k)')
    BY <1>1, <1>9 DEF UsesCounted
  <2>4. QED
    BY <2>2, <2>3 DEF UsesCounted
<1>13. UseTypes'
  <2>1. UseOf(mode[p]) \in [Kinds -> {0, 1}]
    BY KindFacts
  <2>2. cltUse[x] \in [Kinds -> 0 .. MaxOpens] /\ use' \in [Kinds -> Int]
    BY <1>1 DEF UseTypes
  <2>3. Plus(cltUse[x], UseOf(mode[p])) \in [Kinds -> Int]
    BY <2>1, <2>2 DEF Plus
  <2>4. cltUse \in [Clients -> [Kinds -> Int]]
    <3>1. [Kinds -> 0 .. MaxOpens] \subseteq [Kinds -> Int]
      OBVIOUS
    <3>2. QED
      BY <1>1, <3>1 DEF UseTypes
  <2>5. cltUse' \in [Clients -> [Kinds -> Int]]
    BY <1>3, <2>3, <2>4
  <2>6. QED
    BY <1>12, <2>2, <2>5, UsesBounded
<1>14. /\ stamp \in Int /\ stamp' = stamp + 1 /\ cltStamp'[x] = stamp'
       /\ \A c \in Clients \ {x} : cltStamp'[c] = cltStamp[c]
  BY <1>1, <1>3 DEF NumberTypes, EntryTypes
<1>15. \A q \in Procs : Joined(q)' => q = p
  BY <1>5 DEF ListInv, HolderAgrees, Holding, Joined
<1>16. \A q \in Procs : Granted(q)' => q # p /\ Granted(q) /\ opened'[q] = opened[q]
  BY <1>4, <1>6, OthersStay
<1>17. ~Overlap => \A q \in Procs : ~Granted(q)'
  <2>1. Opener(p)
    BY DEF Opener
  <2>2. \A q \in Procs : Granted(q) => Opener(q)
    BY DEF Granted, Opener
  <2>3. QED
    BY <1>1, <1>16, <2>1, <2>2 DEF OpensSucceed
<1>18. (\A c \in Clients : handle[c].stamp \in Int) /\ (\A q \in Procs : opened[q].stamp \in Int)
  BY <1>1 DEF HostTypes, HandleRange, AnswerTypes, Answers
<1>19. \A c \in Clients : handle'[c].stamp <= stamp'
  BY <1>1, <1>14, <1>18 DEF StampsCarried
<1>20. ASSUME NEW q \in Procs
       PROVE  /\ Joined(q)' => cltStamp'[Host(q)] = stamp'
              /\ Granted(q)' => opened'[q].stamp <= cltStamp'[Host(q)]
              /\ Granted(q)' => opened'[q].stamp <= stamp'
              /\ Scavenge /\ Granted(q)' => Carries(q)'
  <2>1. Joined(q)' => cltStamp'[Host(q)] = stamp'
    BY <1>2, <1>14, <1>15
  <2>2. Granted(q)' => opened'[q].stamp <= stamp'
    BY <1>1, <1>14, <1>16, <1>18 DEF StampsCarried
  <2>3. Granted(q)' => opened'[q].stamp <= cltStamp'[Host(q)]
    BY <1>1, <1>14, <1>16, <2>2, ProcHost DEF StampsCarried
  <2>4. Scavenge => ~Granted(q)'
    BY <1>17 DEF Counting
  <2>5. QED
    BY <2>1, <2>2, <2>3, <2>4
<1>21. ASSUME NEW c \in Clients, InUse(c)'
       PROVE  Listed(c)' /\ StampKnown(c)' /\ handle'[c].stamp <= cltStamp'[c]
  <2>1. CASE c = x
    <3>1. Host(p) = x /\ Carries(p)'
      BY <1>2, <1>6 DEF Carries
    <3>2. StampKnown(c)'
      BY <2>1, <3>1 DEF StampKnown
    <3>3. QED
      BY <1>8, <1>14, <1>19, <2>1, <3>2
  <2>2. CASE c # x
    <3>1. InUse(c)
      BY <1>2, <1>4, <1>21, <2>2, OthersStay DEF InUse
    <3>2. Listed(c) /\ StampKnown(c) /\ handle[c].stamp <= cltStamp[c] /\ cltStamp'[c] = cltStamp[c]
      BY <1>1, <1>14, <2>2, <3>1 DEF StampsCarried
    <3>3. \A q \in Procs : Host(q) = c => (Carries(q) => Carries(q)')
      BY <1>2, <1>4, <2>2, <3>2, OthersStay DEF Carries
    <3>4. StampKnown(c)'
      BY <3>2, <3>3 DEF StampKnown
    <3>5. QED
      BY <1>8, <3>2, <3>4
  <2>3. QED
    BY <2>1, <2>2
<1>22. StampsCarried'
  BY <1>19, <1>20, <1>21 DEF StampsCarried
<1>23. \A q \in Procs : pc'[q] # "calling"
  BY <1>5 DEF ListInv, HolderAgrees, Holding
<1>24. CallKnown'
  BY <1>23 DEF CallKnown
<1>25. QED
  BY <1>12, <1>13, <1>22, <1>24 DEF UseInv

LEMMA WalkUse ==
    ASSUME CountInv, Counting, ListInv', OpensCounted', NumberTypes', NEW p \in Procs,
           StartConsistency(p) \/ ResumeConsistency(p)
    PROVE  UseInv'
<1>1. /\ pc[p] \in {"named", "awake", "resume"}
      /\ UNCHANGED <<mode, opened, use, handle>>
      /\ \E n, ok : Continue(p, n, ok)
  BY DEF StartConsistency, ResumeConsistency, cltVars
<1>2. PICK n, ok : NextCommand(p, n, ok) \/ LastCommand(p, n, ok)
  BY <1>1 DEF Continue
<1>3. CASE NextCommand(p, n, ok)
  BY <1>1, <1>3, NextCommandUse
<1>4. CASE LastCommand(p, n, ok) /\ mode[p] = "stat"
  BY <1>1, <1>4, LastStatUse
<1>5. CASE LastCommand(p, n, ok) /\ mode[p] # "stat"
  BY <1>1, <1>5, JoinUse
<1>6. QED
  BY <1>2, <1>3, <1>4, <1>5

\* EndConsistency sends the answer with the time stamp of the entry.
LEMMA EndUse ==
    ASSUME CountInv, ~error, ListInv', NEW p \in Procs, EndConsistency(p)
    PROVE  UseInv'
<1>1. /\ ListTypes /\ UsesCounted /\ UseTypes /\ StampsCarried /\ AnswerTypes /\ NumberTypes
      /\ HolderAgrees
  BY TypeParts DEF CountInv, ListInv
<1>2. /\ pc[p] \in {"ending", "replies"} /\ holder' = NoProc
      /\ opened' = [opened EXCEPT ![p] = IF mode[p] = "stat" THEN NotOpened ELSE OpenReply]
      /\ UNCHANGED <<mode, use, stamp, clientList, cltUse, cltStamp, handle>>
  BY DEF EndConsistency, fileVars, listVars, cltVars
<1>3. \A q \in Procs : pc'[q] = IF q = p THEN IF mode[p] = "stat" THEN "idle" ELSE "replied"
                                ELSE IF pc[q] = "asleep" THEN "awake" ELSE pc[q]
  BY DEF EndConsistency
<1>4. /\ opened'[p] = IF mode[p] = "stat" THEN NotOpened ELSE OpenReply
      /\ \A q \in Procs \ {p} : opened'[q] = opened[q]
  BY <1>1, <1>2 DEF AnswerTypes
<1>5. \A q \in Procs \ {p} : /\ Joined(q)' <=> Joined(q)
                             /\ Granted(q)' <=> Granted(q)
                             /\ IsOpen(q)' <=> IsOpen(q)
                             /\ q \in Arriving' <=> q \in Arriving
  BY <1>2, <1>3, <1>4 DEF Joined, Granted, IsOpen, Arriving
<1>6. /\ Joined(p) <=> mode[p] # "stat"
      /\ Granted(p)' <=> mode[p] # "stat"
      /\ ~Joined(p)' /\ ~Granted(p) /\ ~IsOpen(p) /\ ~IsOpen(p)' /\ p \notin Arriving /\ p \notin Arriving'
  BY <1>2, <1>3, <1>4 DEF Joined, Granted, IsOpen, Arriving, OpenReply
<1>7. (\A q \in Procs : Uses(q)' <=> Uses(q)) /\ SameUses
  BY <1>2, <1>5, <1>6 DEF SameUses, Uses
<1>8. UsesCounted' /\ UseTypes'
  BY <1>1, <1>2, <1>7, UsesStay
<1>9. Granted(p)' => opened'[p].stamp = stamp /\ cltStamp[Host(p)] = stamp
  BY <1>1, <1>4, <1>6 DEF StampsCarried, OpenReply
<1>10. \A q \in Procs : Carries(q) => Carries(q)'
  BY <1>2, <1>4, <1>5, <1>6, <1>9 DEF Carries
<1>11. \A q \in Procs : /\ Joined(q)' => cltStamp'[Host(q)] = stamp'
                        /\ Granted(q)' => opened'[q].stamp <= cltStamp'[Host(q)]
                        /\ Granted(q)' => opened'[q].stamp <= stamp'
                        /\ Scavenge /\ Granted(q)' => Carries(q)'
  <2>1. stamp <= stamp
    BY <1>1 DEF NumberTypes
  <2>2. Granted(p)' => Carries(p)'
    BY <1>2, <1>9 DEF Carries
  <2>3. QED
    BY <1>1, <1>2, <1>4, <1>5, <1>6, <1>9, <1>10, <2>1, <2>2 DEF StampsCarried
<1>12. \A c \in Clients : InUse(c)' =>
          Listed(c)' /\ StampKnown(c)' /\ handle'[c].stamp <= cltStamp'[c]
  <2>1. \A c \in Clients : InUse(c)' => InUse(c)
    BY <1>7 DEF InUse
  <2>2. \A c \in Clients : StampKnown(c) => StampKnown(c)'
    BY <1>2, <1>10 DEF StampKnown
  <2>3. \A c \in Clients : Listed(c) => Listed(c)'
    BY <1>2 DEF Listed
  <2>4. QED
    BY <1>1, <1>2, <2>1, <2>2, <2>3 DEF StampsCarried
<1>13. StampsCarried'
  BY <1>1, <1>2, <1>11, <1>12 DEF StampsCarried
<1>14. \A q \in Procs : pc'[q] # "calling"
  BY <1>2, NoProcNoProc DEF ListInv, HolderAgrees, Holding
<1>15. QED
  BY <1>8, <1>13, <1>14 DEF UseInv, CallKnown

\* The answer reaches the host, which keeps the latest time stamp.
LEMMA HandleInitUse ==
    ASSUME CountInv, NEW p \in Procs, FsRmtFileHandleInit(p)
    PROVE  UseInv'
<1>1. /\ ListTypes /\ UsesCounted /\ UseTypes /\ StampsCarried /\ CallKnown /\ AnswerTypes
      /\ HostTypes /\ NumberTypes /\ EntryTypes /\ OpensSucceed
  BY TypeParts DEF CountInv
<1>2. PICK x \in Clients : x = Host(p)
  BY ProcHost
<1>3. PICK h : h = [valid |-> TRUE, cacheable |-> opened[p].cacheable,
                    version |-> IF opened[p].version > handle[x].version
                                THEN opened[p].version ELSE handle[x].version,
                    stamp |-> IF opened[p].stamp > handle[x].stamp
                              THEN opened[p].stamp ELSE handle[x].stamp]
  OBVIOUS
<1>4. /\ pc[p] = "returned" /\ pc' = [pc EXCEPT ![p] = "open"]
      /\ opened' = [opened EXCEPT ![p] = NotOpened]
      /\ handle' = [handle EXCEPT ![x] = h]
      /\ UNCHANGED <<mode, use, stamp, clientList, cltUse, cltStamp, call>>
  BY <1>2, <1>3 DEF FsRmtFileHandleInit, fileVars, listVars, opVars
<1>5. \A q \in Procs \ {p} : pc'[q] = pc[q] /\ mode'[q] = mode[q] /\ opened'[q] = opened[q]
  BY <1>1, <1>4 DEF ListTypes, AnswerTypes
<1>6. pc'[p] = "open" /\ mode[p] # "stat"
  BY <1>1, <1>4 DEF ListTypes, OpensSucceed
<1>7. /\ ~Joined(p)' /\ ~Joined(p) /\ ~Granted(p)' /\ Granted(p) /\ IsOpen(p)' /\ ~IsOpen(p)
      /\ p \notin Arriving' /\ p \notin Arriving
  BY <1>4, <1>6 DEF Joined, Granted, IsOpen, Arriving
<1>8. \A q \in Procs : Uses(q)' <=> Uses(q)
  BY <1>5, <1>7, OthersStay DEF Uses
<1>9. SameUses
  BY <1>4, <1>5, <1>7, <1>8, OthersStay DEF SameUses
<1>10. UsesCounted' /\ UseTypes'
  BY <1>1, <1>4, <1>9, UsesStay
<1>11. /\ handle'[x].valid
       /\ handle'[x].stamp = IF opened[p].stamp > handle[x].stamp
                             THEN opened[p].stamp ELSE handle[x].stamp
       /\ \A c \in Clients \ {x} : handle'[c] = handle[c]
  BY <1>1, <1>3, <1>4 DEF HostTypes
<1>12. /\ opened[p].stamp \in Int /\ handle[x].stamp \in Int /\ stamp \in Int
       /\ cltStamp[x] \in Int
  BY <1>1 DEF AnswerTypes, Answers, HostTypes, HandleRange, NumberTypes, EntryTypes
<1>13. /\ opened[p].stamp <= cltStamp[x] /\ opened[p].stamp <= stamp
       /\ handle[x].stamp <= stamp /\ handle[x].stamp <= cltStamp[x]
  <2>1. InUse(x)
    BY <1>2, <1>7 DEF InUse, Uses
  <2>2. QED
    BY <1>1, <1>2, <1>7, <2>1 DEF StampsCarried
<1>14. \A q \in Procs \ {p} : Carries(q)' <=> Carries(q)
  BY <1>4, <1>5, OthersStay DEF Carries
<1>15. \A q \in Procs : /\ Joined(q)' => cltStamp'[Host(q)] = stamp'
                        /\ Granted(q)' => opened'[q].stamp <= cltStamp'[Host(q)]
                        /\ Granted(q)' => opened'[q].stamp <= stamp'
                        /\ Scavenge /\ Granted(q)' => Carries(q)'
  BY <1>1, <1>4, <1>5, <1>7, <1>14, OthersStay DEF StampsCarried
<1>16. \A c \in Clients : handle'[c].stamp <= stamp'
  BY <1>1, <1>4, <1>11, <1>12, <1>13 DEF StampsCarried
<1>17. ASSUME NEW c \in Clients, InUse(c)'
       PROVE  Listed(c)' /\ StampKnown(c)' /\ handle'[c].stamp <= cltStamp'[c]
  <2>1. InUse(c)
    BY <1>8, <1>17 DEF InUse
  <2>2. Listed(c)' /\ StampKnown(c) /\ handle[c].stamp <= cltStamp[c]
    BY <1>1, <1>4, <2>1 DEF StampsCarried, Listed
  <2>3. CASE c = x
    <3>1. handle'[x].stamp <= cltStamp'[x]
      BY <1>4, <1>11, <1>12, <1>13
    <3>2. StampKnown(x)'
      <4>1. CASE Carries(p)
        <5>1. opened[p].stamp = cltStamp[x]
          BY <1>2, <1>7, <4>1 DEF Carries
        <5>2. handle'[x].stamp = cltStamp'[x]
          BY <1>4, <1>11, <1>12, <1>13, <5>1
        <5>3. QED
          BY <1>11, <5>2 DEF StampKnown
      <4>2. CASE handle[x].stamp = cltStamp[x]
        <5>1. handle'[x].stamp = cltStamp'[x]
          BY <1>4, <1>11, <1>12, <1>13, <4>2
        <5>2. QED
          BY <1>11, <5>1 DEF StampKnown
      <4>3. ASSUME NEW q \in Procs \ {p}, Host(q) = x, Carries(q) PROVE StampKnown(x)'
        BY <1>14, <4>3 DEF StampKnown
      <4>4. QED
        BY <2>2, <2>3, <4>1, <4>2, <4>3 DEF StampKnown
    <3>3. QED
      BY <2>2, <2>3, <3>1, <3>2
  <2>4. CASE c # x
    <3>1. StampKnown(c)'
      BY <1>2, <1>4, <1>11, <1>14, <2>2, <2>4 DEF StampKnown
    <3>2. QED
      BY <1>4, <1>11, <2>2, <2>4, <3>1
  <2>5. QED
    BY <2>3, <2>4
<1>18. StampsCarried'
  BY <1>15, <1>16, <1>17 DEF StampsCarried
<1>19. CallKnown'
  <2>1. \A c : InUse(c)' => InUse(c)
    BY <1>8 DEF InUse
  <2>2. QED
    BY <1>1, <1>4, <1>5, <1>6, <2>1 DEF CallKnown
<1>20. QED
  BY <1>10, <1>18, <1>19 DEF UseInv

\* A host gives up its handle only when the answer to an open would restore it.
LEMMA ScavengeUse ==
    ASSUME CountInv, NEW x \in Clients, FsrmtFileScavenge(x)
    PROVE  UseInv'
<1>1. /\ UsesCounted /\ UseTypes /\ StampsCarried /\ CallKnown /\ HostTypes /\ EntryTypes /\ NumberTypes
  BY TypeParts DEF CountInv
<1>2. /\ Scavenge /\ \A q \in Procs : Host(q) = x => pc[q] # "open"
      /\ handle' = [handle EXCEPT ![x] = NoHandle]
      /\ UNCHANGED <<pc, mode, opened, use, stamp, clientList, cltUse, cltStamp, call>>
  BY DEF FsrmtFileScavenge, procVars, fileVars, listVars, opVars
<1>3. \A q \in Procs : /\ Joined(q)' <=> Joined(q)
                       /\ Granted(q)' <=> Granted(q)
                       /\ Uses(q)' <=> Uses(q)
                       /\ Carries(q)' <=> Carries(q)
                       /\ q \in Arriving' <=> q \in Arriving
  BY <1>2 DEF Joined, Granted, IsOpen, Uses, Arriving, Carries
<1>4. SameUses /\ (\A c : InUse(c)' <=> InUse(c)) /\ (\A c : Listed(c)' <=> Listed(c))
  BY <1>2, <1>3 DEF SameUses, InUse, Listed
<1>5. UsesCounted' /\ UseTypes'
  BY <1>1, <1>2, <1>4, UsesStay
<1>6. handle'[x].stamp = 0 /\ \A c \in Clients \ {x} : handle'[c] = handle[c]
  BY <1>1, <1>2 DEF HostTypes, NoHandle
<1>7. 0 <= stamp /\ 0 <= cltStamp[x]
  BY <1>1 DEF EntryTypes, NumberTypes
<1>8. InUse(x) => \E q \in Procs : Host(q) = x /\ Carries(q)
  <2>1. \A q \in Procs : Host(q) = x /\ Uses(q) => Joined(q) \/ Granted(q)
    BY <1>2 DEF Uses, IsOpen
  <2>2. \A q \in Procs : Joined(q) \/ Granted(q) => Carries(q)
    BY <1>1, <1>2 DEF StampsCarried, Carries
  <2>3. QED
    BY <2>1, <2>2 DEF InUse
<1>9. \A c \in Clients : InUse(c) => StampKnown(c)'
  <2>1. InUse(x) => StampKnown(x)'
    BY <1>3, <1>8 DEF StampKnown
  <2>2. \A c \in Clients \ {x} : InUse(c) => StampKnown(c)'
    BY <1>1, <1>2, <1>3, <1>6 DEF StampKnown, StampsCarried
  <2>3. QED
    BY <2>1, <2>2
<1>10. \A c \in Clients : handle'[c].stamp <= stamp' /\ (InUse(c) => handle'[c].stamp <= cltStamp'[c])
  BY <1>1, <1>2, <1>6, <1>7 DEF StampsCarried
<1>11. StampsCarried'
  BY <1>1, <1>2, <1>3, <1>4, <1>9, <1>10 DEF StampsCarried
<1>12. CallKnown'
  BY <1>1, <1>2, <1>4 DEF CallKnown
<1>13. QED
  BY <1>5, <1>11, <1>12 DEF UseInv

LEMMA NextUse ==
    ASSUME CountInv, Counting, ~error, ListInv', OpensCounted', NumberTypes', [Next]_vars
    PROVE  UseInv'
<1>1. MaxTimeouts = 0 /\ ~Preempt /\ FlagTypes /\ QueueTypes /\ OpensSucceed /\ HostTypes
  BY TypeParts DEF Counting, CountInv
<1>2. ASSUME NEW p \in Procs, Finish(p) PROVE UseInv'
  BY <1>2, StageUse, WalkUse, EndUse, HandleInitUse DEF Finish
<1>3. ASSUME NEW p \in Procs, Server(p), \A q \in Procs : ~Unfinished(q) PROVE UseInv'
  <2>1. ~OpenFailed(p)
    BY <1>1 DEF OpenFailed, OpensSucceed
  <2>2. QED
    BY <1>1, <1>2, <1>3, <2>1, StageUse, NameUse, WalkUse, StaleUse DEF Server
<1>4. ASSUME UNCHANGED <<pc, mode, opened, use, cltUse, stamp, call, clientList, cltStamp>>, SameHandles
      PROVE  UseInv'
  BY <1>4, UnlistUse
<1>5. ASSUME NEW p \in Procs, User(p) PROVE UseInv'
  <2>1. CASE Read(p) \/ Write(p)
    BY <1>4, <2>1 DEF Read, Write, SameHandles, procVars, fileVars, listVars, opVars
  <2>2. QED
    BY <1>5, <2>1, StageUse, CloseUse DEF User
<1>6. ASSUME NEW m \in work,
             ProcessConsist(m) \/ ProcessConsistFails(m) \/ ProcessConsistNoHandle(m)
      PROVE  UseInv'
  <2>1. UNCHANGED <<pc, mode, opened, use, cltUse, stamp, call, clientList, cltStamp>>
    BY <1>6 DEF ProcessConsist, ProcessConsistFails, ProcessConsistNoHandle, procVars, fileVars,
       listVars, opVars
  <2>2. PICK x \in Clients : x = m.to
    BY <1>1 DEF QueueTypes, Messages
  <2>3. handle' \in {handle, [handle EXCEPT ![x] = [handle[x] EXCEPT !.cacheable = FALSE]]}
    BY <1>6, <2>2 DEF ProcessConsist, ProcessConsistFails, ProcessConsistNoHandle, Fscache_Consist,
       cltVars
  <2>4. SameHandles
    <3>1. handle[x] \in HandleRange /\ handle \in [Clients -> HandleRange]
      BY <1>1 DEF HostTypes
    <3>2. PICK h : h = [handle[x] EXCEPT !.cacheable = FALSE]
      OBVIOUS
    <3>3. h.valid = handle[x].valid /\ h.stamp = handle[x].stamp
      BY <3>1, <3>2 DEF HandleRange
    <3>4. handle' = handle \/ handle' = [handle EXCEPT ![x] = h]
      BY <2>3, <3>2
    <3>5. QED
      BY <3>1, <3>3, <3>4 DEF SameHandles
  <2>5. QED
    BY <1>4, <2>1, <2>4
<1>7. ASSUME NEW r \in reports, ReportUnknown(r) \/ ReportError(r) PROVE UseInv'
  BY <1>4, <1>7 DEF ReportUnknown, ReportError, SameHandles, procVars, fileVars, listVars, opVars,
     cltVars
<1>8. ASSUME NEW r \in reports, ProcessConsistReply(r) PROVE UseInv'
  <2>1. UNCHANGED <<pc, mode, opened, use, cltUse, stamp, call>> /\ SameHandles
    BY <1>8 DEF ProcessConsistReply, SameHandles, procVars, fileVars, opVars, cltVars
  <2>2. \/ clientList' = clientList /\ cltStamp' = cltStamp
        \/ Unlist({r.from}) /\ cltUse[r.from]["ref"] = 0
    BY <1>8 DEF ProcessConsistReply
  <2>3. QED
    BY <2>1, <2>2, UnlistUse
<1>9. CASE Fsconsist_NumClients
  <2>1. UNCHANGED <<pc, mode, opened, use, cltUse, stamp, call>> /\ SameHandles
    BY <1>9 DEF Fsconsist_NumClients, SameHandles, procVars, fileVars, opVars, cltVars
  <2>2. PICK S : Unlist(S) /\ \A c \in S : cltUse[c]["ref"] = 0
    BY <1>9 DEF Fsconsist_NumClients
  <2>3. QED
    BY <2>1, <2>2, UnlistUse
<1>10. ~ConsistTimeout /\ ~ConsistTimeoutIntr
  BY <1>1 DEF ConsistTimeout, ConsistTimeoutIntr, FlagTypes
<1>11. ASSUME NEW c \in Clients, Client(c) PROVE UseInv'
  <2>1. CASE DelayedWrite(c) \/ Evict(c)
    BY <1>4, <2>1 DEF DelayedWrite, Evict, SameHandles, procVars, fileVars, listVars, opVars
  <2>2. QED
    BY <1>11, <2>1, ScavengeUse DEF Client
<1>12. CASE UNCHANGED vars
  BY <1>4, <1>12 DEF vars, SameHandles, procVars, fileVars, listVars, opVars, cltVars
<1>13. QED
  BY <1>2, <1>3, <1>5, <1>6, <1>7, <1>8, <1>9, <1>10, <1>11, <1>12 DEF Next, Callback

\* The uses that the entries count are those of the processes, host by host.
LEMMA UsesOfHosts ==
    ASSUME OpensCounted, UsesCounted, UseTypes, NEW k \in Kinds
    PROVE  Cardinality(ClientUses(k)) = Cardinality({p \in Procs : Uses(p) /\ HasUse(p, k)})
<1> DEFINE All == {p \in Procs : Uses(p) /\ HasUse(p, k)}
           F(c) == CHOOSE f : f \in Bijection(1 .. cltUse[c][k], Users(c, k))
           h == [u \in ClientUses(k) |-> F(u[1])[u[2]]]
<1>1. ASSUME NEW c \in Clients
      PROVE  F(c) \in Bijection(1 .. cltUse[c][k], Users(c, k))
  <2>1. IsFiniteSet(Users(c, k)) /\ cltUse[c][k] = Cardinality(Users(c, k))
    BY UsersActive DEF UsesCounted
  <2>2. ExistsBijection(1 .. cltUse[c][k], Users(c, k))
    BY <2>1, FS_CardinalityType
  <2>3. \E f : f \in Bijection(1 .. cltUse[c][k], Users(c, k))
    BY <2>2 DEF ExistsBijection
  <2>4. QED
    BY <2>3
<1>2. ASSUME NEW c \in Clients
      PROVE  /\ \A i \in 1 .. cltUse[c][k] : F(c)[i] \in Users(c, k)
             /\ \A i, j \in 1 .. cltUse[c][k] : F(c)[i] = F(c)[j] => i = j
             /\ \A p \in Users(c, k) : \E i \in 1 .. cltUse[c][k] : F(c)[i] = p
  <2>1. PICK f : f = F(c)
    OBVIOUS
  <2>2. f \in Bijection(1 .. cltUse[c][k], Users(c, k))
    BY <1>1, <2>1
  <2> HIDE DEF F
  <2>3. QED
    BY <2>1, <2>2 DEF Bijection, Injection, Surjection, IsInjective
<1>3. \A c \in Clients : cltUse[c][k] \in 0 .. MaxOpens /\ MaxOpens \in Nat
  BY ConsistAssumption DEF UseTypes
<1>4. \A u \in ClientUses(k) : /\ u = <<u[1], u[2]>> /\ u[1] \in Clients
                               /\ u[2] \in 1 .. cltUse[u[1]][k]
  BY <1>3 DEF ClientUses
<1>5. \A c \in Clients : \A i \in 1 .. cltUse[c][k] : <<c, i>> \in ClientUses(k)
  BY <1>3 DEF ClientUses
<1>6. \A p \in All : Host(p) \in Clients /\ p \in Users(Host(p), k)
  BY ProcHost DEF Users
<1>7. \A c \in Clients : \A p \in Users(c, k) : p \in All /\ Host(p) = c
  BY DEF Users
<1>8. \A u \in ClientUses(k) : h[u] = F(u[1])[u[2]] /\ h[u] \in Users(u[1], k)
  BY <1>2, <1>4
<1> HIDE DEF F, All
<1>9. h \in [ClientUses(k) -> All]
  BY <1>4, <1>7, <1>8
<1>10. ASSUME NEW u \in ClientUses(k), NEW v \in ClientUses(k), h[u] = h[v] PROVE u = v
  <2>1. u[1] = v[1]
    BY <1>4, <1>7, <1>8, <1>10
  <2>2. u[2] = v[2]
    BY <1>2, <1>4, <1>8, <1>10, <2>1
  <2>3. QED
    BY <1>4, <2>1, <2>2
<1>11. ASSUME NEW p \in All PROVE \E u \in ClientUses(k) : h[u] = p
  <2>1. PICK i \in 1 .. cltUse[Host(p)][k] : F(Host(p))[i] = p
    BY <1>2, <1>6
  <2>2. <<Host(p), i>> \in ClientUses(k)
    BY <1>5, <1>6
  <2>3. h[<<Host(p), i>>] = p
    BY <1>8, <2>1, <2>2
  <2>4. QED
    BY <2>2, <2>3
<1> HIDE DEF h
<1>12. h \in Bijection(ClientUses(k), All)
  BY <1>9, <1>10, <1>11 DEF Bijection, Injection, Surjection, IsInjective
<1>13. IsFiniteSet(All)
  <2>1. All \subseteq Active
    BY DEF All, Uses, Joined, Granted, IsOpen, Active
  <2>2. QED
    BY <2>1, PartOf DEF OpensCounted
<1>14. ExistsBijection(All, ClientUses(k))
  BY <1>12, Fun_ExistsBijSymmetric DEF ExistsBijection
<1>15. Cardinality(ClientUses(k)) = Cardinality(All)
  BY <1>13, <1>14, FS_Bijection
<1>16. QED
  BY <1>15 DEF All

LEMMA UsesAgree ==
    ASSUME OpensCounted, UsesCounted, UseTypes
    PROVE  UseCountsAgree
<1> SUFFICES ASSUME NEW k \in Kinds
             PROVE  use[k] = Cardinality(ClientUses(k))
                             + Cardinality({p \in Arriving : UseOf(mode[p])[k] = 1})
  BY DEF UseCountsAgree
<1> DEFINE All == {p \in Procs : Uses(p) /\ HasUse(p, k)}
           New == {p \in Arriving : UseOf(mode[p])[k] = 1}
<1>1. Holders(k) = All \cup New /\ All \cap New = {}
  <2>1. \A p \in Procs : p \in Arriving => ~Uses(p)
    BY DEF Arriving, Uses, Joined, Granted, IsOpen
  <2>2. Arriving \subseteq Procs
    BY DEF Arriving
  <2>3. QED
    BY <2>1, <2>2 DEF Holders, HasUse
<1>2. IsFiniteSet(Holders(k))
  BY UsersActive
<1> HIDE DEF All, New
<1>3. IsFiniteSet(All) /\ IsFiniteSet(New)
  BY <1>1, <1>2, PartOf
<1>4. Cardinality(Holders(k)) = Cardinality(All) + Cardinality(New)
  <2>1. Cardinality(All) \in Nat /\ Cardinality(New) \in Nat
    BY <1>3, FS_CardinalityType
  <2>2. Cardinality(All \cup New)
          = Cardinality(All) + Cardinality(New) - Cardinality(All \cap New)
    BY <1>3, FS_Union
  <2>3. Cardinality(All \cap New) = 0
    BY <1>1, FS_EmptySet
  <2>4. QED
    BY <1>1, <2>1, <2>2, <2>3
<1>5. Cardinality(ClientUses(k)) = Cardinality(All)
  BY UsesOfHosts DEF All
<1>6. QED
  BY <1>4, <1>5 DEF UsesCounted, New

LEMMA InitCount == Init => CountInv
<1> SUFFICES ASSUME Init PROVE CountInv
  OBVIOUS
<1>1. ListInv /\ ListTypes
  BY InitList DEF ListInv
<1>2. /\ \A p \in Procs : pc[p] = "idle"
      /\ \A c \in Clients : handle[c] = NoHandle /\ cltUse[c] = NoUse
      /\ opens = 0 /\ use = NoUse /\ version = 1 /\ stamp = 0
  BY DEF Init
<1>3. Active = {} /\ Early = {} /\ Sent = {}
  BY <1>2 DEF Active, Early, EarlyStages, Sent
<1>4. OpensCounted
  BY <1>2, <1>3, FS_EmptySet DEF OpensCounted
<1>5. \A p \in Procs : ~Opener(p) /\ ~Joined(p) /\ ~Granted(p) /\ ~Uses(p) /\ p \notin Arriving
  BY <1>2 DEF Opener, Joined, Granted, IsOpen, Uses, Arriving
<1>6. OpensSucceed
  BY <1>2, <1>5 DEF OpensSucceed
<1>7. UsesCounted
  <2>1. (\A k : Holders(k) = {}) /\ (\A c, k : Users(c, k) = {})
    BY <1>5 DEF Holders, Users
  <2>2. \A k \in Kinds : NoUse[k] = 0
    BY DEF NoUse
  <2>3. QED
    BY <1>2, <2>1, <2>2, FS_EmptySet DEF UsesCounted
<1>8. StampsCarried /\ CallKnown
  BY <1>2, <1>5 DEF StampsCarried, CallKnown, InUse, NoHandle
<1>9. NumberTypes /\ FlagTypes /\ CallTypes /\ QueueTypes
  <2>1. NumberTypes
    BY <1>2, ConsistAssumption DEF NumberTypes
  <2>2. FlagTypes
    <3>1. error = FALSE /\ timer = FALSE /\ cacheable = FALSE
      BY DEF Init
    <3>2. timeouts \in 0 .. MaxTimeouts
      BY ConsistAssumption DEF Init
    <3>3. QED
      BY <3>1, <3>2, Zenon DEF FlagTypes
  <2>3. CallTypes
    BY ConsistAssumption DEF Init, CallTypes
  <2>4. QueueTypes
    BY ConsistAssumption DEF Init, QueueTypes
  <2>5. QED
    BY <2>1, <2>2, <2>3, <2>4
<1>10. AnswerTypes
  BY ConsistAssumption DEF Init, AnswerTypes, Answers, NotOpened
<1>11. EntryTypes
  BY ConsistAssumption DEF Init, EntryTypes
<1>12. HostTypes
  <2>1. NoHandle \in HandleRange
    BY ConsistAssumption DEF NoHandle, HandleRange
  <2>2. handle \in [Clients -> HandleRange]
    BY <2>1 DEF Init
  <2>3. QED
    BY <2>2 DEF Init, HostTypes
<1>13. UseTypes
  BY ConsistAssumption DEF Init, UseTypes, NoUse
<1>14. TypeOK
  BY <1>1, <1>9, <1>10, <1>11, <1>12, <1>13, TypeParts
<1>15. QED
  BY <1>1, <1>4, <1>6, <1>7, <1>8, <1>14 DEF CountInv

LEMMA NextCount ==
    ASSUME Counting, CountInv, ~error, [Next]_vars
    PROVE  CountInv'
<1>1. /\ ListInv /\ TypeOK /\ OpensCounted /\ OpensSucceed /\ CallKnown
      /\ NumberTypes /\ AnswerTypes /\ EntryTypes /\ FlagTypes /\ CallTypes
      /\ HostTypes /\ QueueTypes
  BY TypeParts DEF CountInv
<1>2. ListInv' /\ ListTypes'
  BY <1>1, NextList DEF ListInv
<1>3. OpensCounted' /\ NumberTypes'
  BY <1>1, NextOpens
<1>4. AnswerTypes' /\ EntryTypes' /\ FlagTypes' /\ CallTypes'
  BY <1>1, <1>3, NextAnswers, NextEntries, NextFlags, NextCall
<1>5. HostTypes' /\ QueueTypes'
  BY <1>1, NextHosts, NextQueues
<1>6. OpensSucceed'
  BY <1>1, NextSucceeds
<1>7. UsesCounted' /\ UseTypes' /\ StampsCarried' /\ CallKnown'
  BY <1>2, <1>3, NextUse DEF UseInv
<1>8. TypeOK'
  <2>1. (ListTypes /\ NumberTypes /\ AnswerTypes /\ EntryTypes /\ FlagTypes /\ CallTypes
         /\ HostTypes /\ QueueTypes /\ UseTypes)'
    BY <1>2, <1>3, <1>4, <1>5, <1>7
  <2>2. (ListTypes /\ NumberTypes /\ AnswerTypes /\ EntryTypes /\ FlagTypes /\ CallTypes
         /\ HostTypes /\ QueueTypes /\ UseTypes)' => TypeOK'
    BY TypeParts, PTL
  <2>3. QED
    BY <2>1, <2>2
<1>9. QED
  BY <1>2, <1>3, <1>6, <1>7, <1>8 DEF CountInv

LEMMA CountAlways == ASSUME Counting PROVE Spec /\ []~error => []CountInv
<1>1. Init => CountInv
  BY InitCount
<1>2. CountInv /\ ~error /\ [Next]_vars => CountInv'
  BY NextCount
<1>3. QED
  BY <1>1, <1>2, PTL DEF Spec

\* As long as no write-back fails, and whatever the order of opens, closes,
\* call-backs, reports and scavenging on any number of hosts: what Fsio_FileNameOpen
\* and Fsio_FileClose count in the handle is the sum of what UpdateList and
\* Fsconsist_IOClientClose count in the list of clients.  ClientCommand, which gives
\* nothing back to handlePtr->use, only drops clients that do not use the file: the
\* time stamps tell them from clients whose open has not been answered yet.
THEOREM UsesAlwaysAgree == ASSUME Counting PROVE Spec /\ []~error => []UseCountsAgree
<1>1. CountInv => UseCountsAgree
  BY UsesAgree, TypeParts DEF CountInv
<1>2. QED
  BY <1>1, CountAlways, PTL

\* Under the same conditions no count leaves its range: the use counts are never
\* negative, and the version and the time stamp never run ahead of the opens
\* (Fsio_FileNameOpen, UpdateList, Fsconsist_IOClientClose).
THEOREM ConsistTypeCorrect == ASSUME Counting PROVE Spec /\ []~error => []TypeOK
<1>1. CountInv => TypeOK
  BY DEF CountInv
<1>2. QED
  BY <1>1, CountAlways, PTL

\* Where opens come one at a time and the disk does not fill up nothing fails, and
\* both hold of every behaviour.
THEOREM SharedUsesAgree == ASSUME Sharing PROVE Spec => [](TypeOK /\ UseCountsAgree)
<1>1. Counting
  BY DEF Sharing, Counting
<1>2. ShareInv => ~error
  BY DEF ShareInv, OpenersAgree
<1>3. QED
  BY <1>1, <1>2, ShareAlways, UsesAlwaysAgree, ConsistTypeCorrect, PTL
=============================================================================
