------------------------------ MODULE LfsProofs ------------------------------
(***************************************************************************)
(* Proofs about the log in LfsLog, for any number of files, segments,      *)
(* processes, reads, writes, checkpoints and crashes, as long as no        *)
(* checkpoint region is filled in across one of the gaps (see Gaps): the   *)
(* checkpoint that a crash would load is intact, clean segments hold no    *)
(* block in use, usage counts are exact, checkpoints are in order.         *)
(***************************************************************************)
EXTENDS LfsLog, SequenceTheorems, FunctionTheorems, FiniteSetTheorems, TLAPS

Stages == {"idle", "create", "segwait", "segretry", "out", "lock", "region", "waitcleaner",
           "waitckpt", "pick", "again", "in", "mark", "panic"}
MapAddrs == {a \in Addrs : a[2] + MapSize <= SegBlocks}
FileRecs ==
    [ver : Nat, dirty : BOOLEAN, bclean : BOOLEAN, desc : BOOLEAN, fclean : BOOLEAN,
     held : SUBSET {"read", "write", "alloc"}, daddr : Addrs \cup {Nil},
     iaddr : Addrs \cup {Nil}]
TailRecs ==
    [cur : Segs, off : -1 .. SegBlocks - 1, clean : Seq(Segs), usage : [Segs -> Nat]]
JobRecs == [layout : BOOLEAN, todo : Seq(Segs), read : Seq(Segs), live : BOOLEAN, any : BOOLEAN]
CkRecs ==
    [map : MapAddrs \cup {Nil}, cur : Segs, off : -1 .. SegBlocks - 1, used : Nat,
     want : [Files -> Nat], gap : SUBSET {"overlap", "checkedOut", "held"}]
AreaRecs ==
    [map : MapAddrs \cup {Nil}, cur : Segs, off : -1 .. SegBlocks - 1, used : Nat,
     want : [Files -> Nat], gap : SUBSET {"overlap", "checkedOut", "held"},
     ts : Nat, ok : BOOLEAN]

\* A checkpoint region that is filled in and not yet on the disk.
Filled(p) ==
    \/ pc[p] \in {"lock", "region"}
    \/ pc[p] = "out" /\ IsCkpt(p) /\ ~out[p].full

FlagTypes ==
    /\ checked \in Procs \cup {Nobody} /\ writeActive \in BOOLEAN /\ ckptWait \in BOOLEAN
    /\ numDirty \in Nat /\ uses \in Nat
FileTypes ==
    /\ file \in [Files -> FileRecs] /\ cp \in TailRecs /\ mapAddr \in MapAddrs \cup {Nil}
AreaTypes ==
    /\ area \in [0 .. 1 -> AreaRecs] /\ nextArea \in 0 .. 1 /\ ts \in Nat
    /\ ck \in [Procs -> CkRecs \cup {NoRegion}] /\ \A p \in Procs : Filled(p) => ck[p] \in CkRecs
ProcTypes == pc \in [Procs -> Stages] /\ job \in JobRecs /\ DOMAIN out = Procs
Types == FlagTypes /\ FileTypes /\ AreaTypes /\ ProcTypes

-----------------------------------------------------------------------------
(* The space of the log.                                                   *)

\* Where the log goes on, in the list of clean segments and from the tail on.
FreeOf(c, a) == a[1] \in ToSet(c.clean) \/ (a[1] = c.cur /\ c.off # -1 /\ a[2] >= c.off)
Free(a) == FreeOf(cp, a)

CleanOK == cp.cur \notin ToSet(cp.clean) /\ IsInjective(cp.clean)
LiveKept == \A a \in Live : ~Free(a)

\* The blocks that are on their way to the disk.
Flying(p) == DOMAIN out[p].blocks
FlyingKept ==
    /\ \A p \in Procs : pc[p] # "out" => Flying(p) = {}
    /\ \A p \in Procs : \A a \in Flying(p) : a \in Addrs /\ ~Free(a) /\ disk[a] = NoBlock
    /\ \A p, q \in Procs : p # q => Flying(p) \cap Flying(q) = {}

\* No two things are at one place.
Distinct ==
    /\ \A f, g \in Files : f # g => /\ file[f].daddr # Nil => file[f].daddr # file[g].daddr
                                    /\ file[f].iaddr # Nil => file[f].iaddr # file[g].iaddr
    /\ \A f, g \in Files : file[f].daddr # Nil => file[f].daddr # file[g].iaddr
    /\ \A f \in Files : /\ file[f].daddr \notin MapCells(mapAddr)
                        /\ file[f].iaddr \notin MapCells(mapAddr)

\* The segments that the cleaner has read: they are not written to, and what is
\* alive in them is going to be written elsewhere.
Cleaning == {"in", "create", "segwait", "segretry", "out", "lock", "region", "mark"}
Reads == ToSet(job.read)
JobOK ==
    pc[Cleaner] \in Cleaning =>
        /\ IsInjective(job.read) /\ IsInjective(job.todo) /\ Reads \cap ToSet(job.todo) = {}
        /\ \A s \in Reads \cup ToSet(job.todo) : s # cp.cur /\ s \notin ToSet(cp.clean)
        /\ \A s \in Reads :
              /\ mapAddr[1] # s
              /\ \A f \in Files : /\ file[f].daddr[1] = s => file[f].dirty
                                  /\ file[f].iaddr[1] = s => file[f].desc
Space == CleanOK /\ LiveKept /\ FlyingKept /\ Distinct /\ JobOK
-----------------------------------------------------------------------------
(* What is stored.                                                         *)

\* A block is on the disk or on its way.
Stored(a, b) == disk[a] = b \/ \E p \in Procs : a \in Flying(p) /\ out[p].blocks[a] = b

DataBlock(f, v) == [kind |-> "data", f |-> f, v |-> v]
DescBlock(f, a) == [kind |-> "desc", f |-> f, at |-> a]

\* A file that is not dirty can be read from the disk.
FileStored(f) ==
    /\ file[f].ver <= uses
    /\ file[f].held \cap {"write", "alloc"} # {} => uses > 0
    /\ file[f].ver = 0 => /\ ~file[f].dirty /\ ~file[f].desc
                          /\ file[f].daddr = Nil /\ file[f].iaddr = Nil
    /\ file[f].ver > 0 /\ ~file[f].dirty =>
          /\ file[f].daddr # Nil /\ Stored(file[f].daddr, DataBlock(f, file[f].ver))
          /\ ~file[f].desc => /\ file[f].iaddr # Nil
                              /\ Stored(file[f].iaddr, DescBlock(f, file[f].daddr))
FilesStored == \A f \in Files : FileStored(f)

\* A map that is not dirty is the present one, but for the use of the current segment.
MapIs(u) ==
    [kind |-> "map", at |-> [f \in Files |-> file[f].iaddr], clean |-> cp.clean, usage |-> u]
MapStored ==
    mapAddr # Nil => \E u \in [Segs -> Nat] :
        /\ Stored(mapAddr, MapIs(u))
        /\ \A s \in Segs : s # cp.cur => u[s] = cp.usage[s]
Contents == FilesStored /\ MapStored
-----------------------------------------------------------------------------
(* Checkpoint regions.                                                     *)

\* The file as the region and the blocks d describe it.
RegionFile(d, r, f) ==
    LET i == d[r.map].at[f] IN
    IF r.want[f] = 0 THEN i = Nil
    ELSE /\ i \in Addrs /\ d[i] = DescBlock(f, d[i].at) /\ d[i].at \in Addrs
         /\ d[d[i].at] = DataBlock(f, r.want[f])
         /\ i \notin MapCells(r.map) /\ d[i].at \notin MapCells(r.map)

\* With the blocks d the region is that of a file system.
RegionOK(d, r) ==
    LET m == d[r.map] IN
    /\ r.map \in MapAddrs
    /\ m = [kind |-> "map", at |-> m.at, clean |-> m.clean, usage |-> m.usage]
    /\ m.at \in [Files -> Addrs \cup {Nil}]
    /\ m.clean \in Seq(Segs) /\ IsInjective(m.clean) /\ m.usage \in [Segs -> Nat]
    /\ r.cur \notin ToSet(m.clean)
    /\ \A f \in Files : RegionFile(d, r, f)
    /\ \A a \in Referred(d, r) : /\ a[1] \notin ToSet(m.clean)
                                 /\ ~(a[1] = r.cur /\ r.off # -1 /\ a[2] >= r.off)
    /\ \A s \in Segs \ ToSet(m.clean) :
          (IF s = r.cur THEN r.used ELSE m.usage[s])
             = Cardinality({a \in Referred(d, r) : a[1] = s})
RegionKept(d, r) == \A a \in Referred(d, r) : ~Free(a)

\* The region that was written last, and that of a process once it has written
\* its segment.
Done == area[1 - nextArea]
View(p) == [a \in Addrs |-> IF a \in Flying(p) THEN out[p].blocks[a] ELSE disk[a]]
NoGap == \A p \in Procs : ck[p].gap = {}

DoneOK ==
    /\ Done.ok /\ Done.ts <= ts
    /\ area[nextArea].ok => area[nextArea].ts < Done.ts
    /\ RegionOK(disk, Done) /\ RegionKept(disk, Done)
CkptsOK ==
    NoGap => \A p \in Procs : Filled(p) => /\ RegionOK(View(p), ck[p])
                                           /\ RegionKept(View(p), ck[p])
RegionStarted ==
    \A p \in Procs : pc[p] = "region" =>
        LET r == area[nextArea] IN
        /\ r.ts = ts /\ ts > Done.ts /\ ~r.ok
        /\ r.map = ck[p].map /\ r.cur = ck[p].cur /\ r.off = ck[p].off
        /\ r.used = ck[p].used /\ r.want = ck[p].want
Mutual == \A p, q \in CkptProcs : pc[p] \in Working /\ pc[q] \in Working => p = q

\* A checkpoint only waits for another one's region.
Waiting ==
    /\ pc[Writer] \notin {"lock", "region"}
    /\ \A p \in Procs : pc[p] = "lock" => \E q \in Procs : pc[q] = "region"
Apart == NoGap => \A p, q \in Procs : p # q /\ Filled(p) /\ Filled(q) => pc[p] # pc[q]

\* The order in which regions were filled in.
Earlier(p, q) ==
    \/ pc[p] = "region" /\ pc[q] \in {"lock", "out"}
    \/ pc[p] = "lock" /\ pc[q] = "out"
NotAfter(x, y) == \A f \in Files : x[f] <= y[f]
NotAfterFiles(x) == \A f \in Files : x[f] <= file[f].ver
InOrder ==
    /\ area[nextArea].ok => NotAfter(area[nextArea].want, Done.want)
    /\ NotAfterFiles(Done.want)
    /\ \A p \in Procs : Filled(p) => /\ NotAfter(Done.want, ck[p].want)
                                     /\ NotAfterFiles(ck[p].want)
    /\ NoGap => \A p, q \in Procs : Filled(p) /\ Filled(q) /\ Earlier(p, q)
                                      => NotAfter(ck[p].want, ck[q].want)

\* Once the cleaner has filled in its region nothing refers to the segments it read.
Avoids(S) == \A a \in S : a[1] \notin Reads
Moved ==
    NoGap /\ (pc[Cleaner] = "mark" \/ Filled(Cleaner)) =>
        /\ Avoids(Live) /\ \A p \in Procs : Avoids(Flying(p))
        /\ pc[Cleaner] = "mark" => Avoids(Referred(disk, Done))
        /\ \A p \in Procs :
              Filled(p) /\ (pc[Cleaner] = "mark" \/ p = Cleaner \/ Earlier(Cleaner, p))
                => Avoids(Referred(View(p), ck[p]))
Regions ==
    DoneOK /\ CkptsOK /\ RegionStarted /\ Mutual /\ Waiting /\ Apart /\ InOrder /\ Moved
-----------------------------------------------------------------------------
LogInv == Types /\ Space /\ Contents /\ Regions /\ UsageAgrees
-----------------------------------------------------------------------------
(* Places.                                                                 *)

LEMMA ProcFacts ==
    /\ Writer \in Procs /\ Cleaner \in Procs /\ Final \in CkptProcs /\ CkptProcs \subseteq Procs
    /\ Syncers \subseteq CkptProcs
    /\ Writer \notin CkptProcs /\ Cleaner \notin CkptProcs /\ Writer # Cleaner
    /\ \A p \in Procs : p \in CkptProcs \/ p = Writer \/ p = Cleaner
BY LfsAssumption DEF Procs, CkptProcs, Writer, Cleaner, Final

LEMMA AddrFacts ==
    /\ \A a : a \in Addrs <=> a = <<a[1], a[2]>> /\ a[1] \in Segs /\ a[2] \in 0 .. SegBlocks - 1
    /\ \A s, i : <<s, i>> \in Addrs <=> s \in Segs /\ i \in 0 .. SegBlocks - 1
    /\ Nil \notin Addrs /\ Nil[1] = -1 /\ -1 \notin Segs
    /\ MapAddrs \subseteq Addrs /\ Segs \subseteq Nat
BY LfsAssumption DEF Addrs, Nil, Segs, MapAddrs

LEMMA MapCellsFacts ==
    /\ MapCells(Nil) = {}
    /\ \A a \in MapAddrs : /\ a \in MapCells(a) /\ MapCells(a) \subseteq Addrs
                            /\ \A x \in MapCells(a) : x[1] = a[1] /\ x[2] >= a[2]
<1>1. MapCells(Nil) = {}
  BY DEF MapCells
<1>2. ASSUME NEW a \in MapAddrs
      PROVE  /\ a \in MapCells(a) /\ MapCells(a) \subseteq Addrs
             /\ \A x \in MapCells(a) : x[1] = a[1] /\ x[2] >= a[2]
  <2>1. a \in Addrs /\ a # Nil /\ a[2] + MapSize <= SegBlocks
    BY AddrFacts DEF MapAddrs
  <2>2. MapCells(a) = {<<a[1], a[2] + i>> : i \in 0 .. MapSize - 1}
    BY <2>1 DEF MapCells
  <2>3. a = <<a[1], a[2] + 0>> /\ 0 \in 0 .. MapSize - 1
    BY <2>1, AddrFacts, LfsAssumption
  <2>4. ASSUME NEW i \in 0 .. MapSize - 1
        PROVE  <<a[1], a[2] + i>> \in Addrs /\ a[2] + i >= a[2]
    BY <2>1, AddrFacts, LfsAssumption
  <2>5. QED
    BY <2>2, <2>3, <2>4
<1>3. QED
  BY <1>1, <1>2

LEMMA LiveFacts ==
    ASSUME FileTypes
    PROVE  /\ \A a : a \in Live <=> /\ a # Nil
                                    /\ \/ a \in MapCells(mapAddr)
                                       \/ \E f \in Files : a = file[f].daddr \/ a = file[f].iaddr
           /\ Live \subseteq Addrs
<1>1. \A a : a \in Live <=> /\ a # Nil
                           /\ \/ a \in MapCells(mapAddr)
                              \/ \E f \in Files : a = file[f].daddr \/ a = file[f].iaddr
  BY DEF Live
<1>2. \A f \in Files : file[f].daddr \in Addrs \cup {Nil} /\ file[f].iaddr \in Addrs \cup {Nil}
  BY DEF FileTypes, FileRecs
<1>3. MapCells(mapAddr) \subseteq Addrs
  BY MapCellsFacts DEF FileTypes
<1>4. QED
  BY <1>1, <1>2, <1>3

\* What a region refers to.
LEMMA ReferredFacts ==
    ASSUME NEW d, NEW r, RegionOK(d, r), r.want \in [Files -> Nat]
    PROVE  /\ \A a : a \in Referred(d, r) <=>
                \/ a \in MapCells(r.map)
                \/ \E f \in Files : /\ r.want[f] # 0
                                    /\ a = d[r.map].at[f] \/ a = d[d[r.map].at[f]].at
           /\ Referred(d, r) \subseteq Addrs /\ r.map \in Referred(d, r)
<1> DEFINE at == d[r.map].at
           descs == {at[f] : f \in Files} \ {Nil}
<1>1. Referred(d, r) = MapCells(r.map) \cup descs \cup {d[i].at : i \in descs}
  BY DEF Referred
<1>2. /\ r.map \in MapAddrs /\ \A f \in Files : RegionFile(d, r, f)
  BY DEF RegionOK
<1>3. \A f \in Files : /\ r.want[f] = 0 => at[f] = Nil
                       /\ r.want[f] # 0 => at[f] \in Addrs /\ d[at[f]].at \in Addrs
  BY <1>2 DEF RegionFile
<1>4. \A i : i \in descs <=> \E f \in Files : r.want[f] # 0 /\ i = at[f]
  BY <1>3, AddrFacts
<1> HIDE DEF descs, at
<1>5. \A a : a \in Referred(d, r) <=>
         \/ a \in MapCells(r.map)
         \/ \E f \in Files : r.want[f] # 0 /\ (a = at[f] \/ a = d[at[f]].at)
  BY <1>1, <1>4
<1>6. Referred(d, r) \subseteq Addrs
  BY <1>2, <1>3, <1>5, MapCellsFacts
<1>7. r.map \in Referred(d, r)
  BY <1>2, <1>5, MapCellsFacts
<1>8. QED
  BY <1>5, <1>6, <1>7 DEF at

\* A region only depends on the blocks it refers to, and those are not empty.
LEMMA RegionFrame ==
    ASSUME NEW d, NEW e, NEW r, RegionOK(d, r), r.want \in [Files -> Nat],
           \A a \in Referred(d, r) : d[a].kind # "none" => e[a] = d[a]
    PROVE  RegionOK(e, r) /\ Referred(e, r) = Referred(d, r) /\ e[r.map] = d[r.map]
<1>1. e[r.map] = d[r.map]
  <2>1. d[r.map] = [kind |-> "map", at |-> d[r.map].at, clean |-> d[r.map].clean,
                    usage |-> d[r.map].usage]
    BY DEF RegionOK
  <2>2. d[r.map].kind = "map"
    BY <2>1
  <2>3. QED
    BY <2>2, ReferredFacts
<1>2. ASSUME NEW f \in Files, r.want[f] # 0
      PROVE  /\ e[d[r.map].at[f]] = d[d[r.map].at[f]]
             /\ e[d[d[r.map].at[f]].at] = d[d[d[r.map].at[f]].at]
  <2>1. RegionFile(d, r, f)
    BY DEF RegionOK
  <2>2. d[d[r.map].at[f]].kind = "desc" /\ d[d[d[r.map].at[f]].at].kind = "data"
    BY <1>2, <2>1 DEF RegionFile, DataBlock, DescBlock
  <2>3. d[r.map].at[f] \in Referred(d, r) /\ d[d[r.map].at[f]].at \in Referred(d, r)
    BY <1>2, ReferredFacts
  <2>4. QED
    BY <2>2, <2>3
<1>3. \A f \in Files : RegionFile(e, r, f)
  <2>1. \A f \in Files : RegionFile(d, r, f)
    BY DEF RegionOK
  <2>2. QED
    BY <1>1, <1>2, <2>1, SMTT(30) DEF RegionFile
<1>4. Referred(e, r) = Referred(d, r)
  <2> DEFINE descs == {d[r.map].at[f] : f \in Files} \ {Nil}
  <2>1. \A f \in Files : d[r.map].at[f] # Nil => r.want[f] # 0
    BY DEF RegionOK, RegionFile
  <2>2. \A i \in descs : e[i] = d[i]
    BY <1>2, <2>1
  <2>3. Referred(d, r) = MapCells(r.map) \cup descs \cup {d[i].at : i \in descs}
    BY DEF Referred
  <2>4. Referred(e, r) = MapCells(r.map) \cup descs \cup {e[i].at : i \in descs}
    BY <1>1 DEF Referred
  <2> HIDE DEF descs
  <2>5. {e[i].at : i \in descs} = {d[i].at : i \in descs}
    BY <2>2
  <2>6. QED
    BY <2>3, <2>4, <2>5
<1>5. RegionOK(e, r)
  BY <1>1, <1>3, <1>4 DEF RegionOK
<1>6. QED
  BY <1>1, <1>4, <1>5
-----------------------------------------------------------------------------
(* Steps that leave the disk, the segments on their way and the regions alone. *)

\* A process fills in, waits for and writes its region as before.
SameStages ==
    /\ \A p \in Procs : pc[p] \in {"out", "lock", "region"} \/ pc'[p] \in {"out", "lock", "region"}
                          => pc'[p] = pc[p]
    /\ pc[Cleaner] = "out" => job'.layout = job.layout
    /\ pc'[Cleaner] \in {"out", "lock", "region", "mark"} =>
          pc'[Cleaner] = pc[Cleaner] /\ job'.read = job.read

LEMMA SameFilled ==
    ASSUME SameStages, UNCHANGED out
    PROVE  \A p \in Procs : Filled(p)' <=> Filled(p)
BY DEF SameStages, Filled, IsCkpt

\* What is free after such a step: what was free, and the segments that the cleaner read.
Frees == \A a : Free(a)' => Free(a) \/ (pc[Cleaner] = "mark" /\ a[1] \in Reads)

LEMMA QuietStep ==
    ASSUME LogInv, NoGap, UNCHANGED <<disk, area, nextArea, ts, out, ck>>,
           FlagTypes', FileTypes', pc' \in [Procs -> Stages], job' \in JobRecs,
           \A f \in Files : /\ file'[f].daddr = file[f].daddr /\ file'[f].iaddr = file[f].iaddr
                            /\ file[f].ver <= file'[f].ver,
           mapAddr' = Nil \/ UNCHANGED <<mapAddr, cp>>,
           SameStages, Frees, CleanOK', JobOK', FilesStored', Mutual', UsageAgrees'
    PROVE  LogInv'
<1> USE DEF LogInv
<1>1. \A p \in Procs : Filled(p)' <=> Filled(p)
  BY SameFilled
<1>2. NoGap' /\ \A p \in Procs : View(p)' = View(p) /\ Flying(p)' = Flying(p)
  BY DEF NoGap, View, Flying
<1>3. Types'
  <2>1. AreaTypes'
    BY <1>1 DEF Types, AreaTypes
  <2>2. ProcTypes'
    BY DEF Types, ProcTypes
  <2>3. QED
    BY <2>1, <2>2 DEF Types
<1>4. \A a : a \in Live' => a \in Live
  <2>1. FileTypes
    BY DEF Types
  <2>2. \A a : a \in Live' <=>
           /\ a # Nil
           /\ \/ a \in MapCells(mapAddr)'
              \/ \E f \in Files : a = file'[f].daddr \/ a = file'[f].iaddr
    BY DEF Live
  <2>3. \A a : a \in MapCells(mapAddr)' => a \in MapCells(mapAddr)
    BY DEF MapCells
  <2>4. QED
    BY <2>1, <2>2, <2>3, LiveFacts
<1>5. /\ pc[Cleaner] = "mark" =>
             /\ Avoids(Live) /\ \A p \in Procs : Avoids(Flying(p))
             /\ Avoids(Referred(disk, Done))
             /\ \A p \in Procs : Filled(p) => Avoids(Referred(View(p), ck[p]))
  BY DEF Regions, Moved
<1>6. Space'
  <2>1. LiveKept'
    BY <1>4, <1>5 DEF Space, LiveKept, Frees, Avoids
  <2>2. FlyingKept'
    <3>1. \A p \in Procs : pc'[p] # "out" => Flying(p)' = {}
      BY <1>2 DEF Space, FlyingKept, SameStages
    <3>2. \A p \in Procs : \A a \in Flying(p)' : a \in Addrs /\ ~Free(a)' /\ disk'[a] = NoBlock
      BY <1>2, <1>5 DEF Space, FlyingKept, Frees, Avoids
    <3>3. QED
      BY <1>2, <3>1, <3>2 DEF Space, FlyingKept
  <2>3. Distinct'
    <3>1. \A a : a \in MapCells(mapAddr)' => a \in MapCells(mapAddr)
      BY DEF MapCells
    <3>2. QED
      BY <3>1 DEF Space, Distinct
  <2>4. QED
    BY <2>1, <2>2, <2>3 DEF Space
<1>7. Contents'
  <2>1. \A a, b : Stored(a, b)' <=> Stored(a, b)
    BY <1>2 DEF Stored
  <2>2. MapStored'
    <3>1. CASE mapAddr' = Nil
      BY <3>1 DEF MapStored
    <3>2. CASE UNCHANGED <<mapAddr, cp>>
      <4>1. \A u : MapIs(u)' = MapIs(u)
        BY <3>2 DEF MapIs
      <4>2. QED
        BY <2>1, <3>2, <4>1 DEF Contents, MapStored
    <3>3. QED
      BY <3>1, <3>2
  <2>3. QED
    BY <2>2 DEF Contents
<1>8. Regions'
  <2>1. \A d, r : Referred(d, r)' = Referred(d, r)
    OBVIOUS
  <2>2. Done' = Done
    BY DEF Done
  <2>3. DoneOK'
    BY <1>5, <2>2 DEF Regions, DoneOK, RegionKept, Frees, Avoids
  <2>4. CkptsOK'
    BY <1>1, <1>2, <1>5 DEF Regions, CkptsOK, RegionKept, Frees, Avoids
  <2>5. RegionStarted'
    BY <2>2 DEF Regions, RegionStarted, SameStages
  <2>6. Apart'
    BY <1>1, <1>2 DEF Regions, Apart, SameStages, Filled
  <2>7. InOrder'
    <3>1. \A p, q \in Procs : Filled(p) /\ Filled(q) /\ Earlier(p, q)' => Earlier(p, q)
      BY DEF Filled, Earlier, SameStages
    <3>2. \A x \in [Files -> Nat] : NotAfterFiles(x) => NotAfterFiles(x)'
      <4>1. \A f \in Files : file[f].ver \in Nat /\ file'[f].ver \in Nat
        BY DEF Types, FileTypes, FileRecs
      <4>2. QED
        BY <4>1 DEF NotAfterFiles
    <3>3. Done.want \in [Files -> Nat] /\ \A p \in Procs : Filled(p) => ck[p].want \in [Files -> Nat]
      BY DEF Types, AreaTypes, AreaRecs, CkRecs, Done
    <3>4. QED
      BY <1>1, <1>2, <2>2, <3>1, <3>2, <3>3 DEF Regions, InOrder, NotAfter
  <2>8. Moved'
    <3>1. SUFFICES ASSUME pc'[Cleaner] = "mark" \/ Filled(Cleaner)'
                   PROVE  /\ Avoids(Live)' /\ \A p \in Procs : Avoids(Flying(p))'
                          /\ pc'[Cleaner] = "mark" => Avoids(Referred(disk, Done))'
                          /\ \A p \in Procs :
                                /\ Filled(p)'
                                /\ pc'[Cleaner] = "mark" \/ p = Cleaner \/ Earlier(Cleaner, p)'
                                => Avoids(Referred(View(p), ck[p]))'
      BY DEF Moved
    <3>2. pc'[Cleaner] = pc[Cleaner] /\ Reads' = Reads
      BY <3>1, <1>1, ProcFacts DEF SameStages, Filled, Reads
    <3>3. \A p \in Procs : Filled(p) /\ Earlier(Cleaner, p)' => Earlier(Cleaner, p)
      BY <3>2 DEF Filled, Earlier, SameStages
    <3>4. Avoids(Live)' /\ \A p \in Procs : Avoids(Flying(p))'
      BY ProcFacts, <1>1, <1>2, <1>4, <3>1, <3>2 DEF Regions, Moved, Avoids
    <3>5. pc'[Cleaner] = "mark" => Avoids(Referred(disk, Done))'
      BY <1>5, <2>2, <3>2 DEF Avoids, Referred, MapCells
    <3>6. ASSUME NEW p \in Procs, Filled(p)',
                 pc'[Cleaner] = "mark" \/ p = Cleaner \/ Earlier(Cleaner, p)'
          PROVE  Avoids(Referred(View(p), ck[p]))'
      <4>1. Avoids(Referred(View(p), ck[p]))
        BY ProcFacts, <1>1, <1>2, <3>1, <3>2, <3>3, <3>6 DEF Regions, Moved
      <4>2. QED
        BY <1>2, <3>2, <4>1 DEF Avoids, Referred, MapCells
    <3>7. QED
      BY <3>4, <3>5, <3>6
  <2>9. Waiting'
    BY ProcFacts DEF Regions, Waiting, SameStages
  <2>10. QED
    BY <2>3, <2>4, <2>5, <2>6, <2>7, <2>8, <2>9 DEF Regions
<1>9. QED
  BY <1>3, <1>6, <1>7, <1>8
-----------------------------------------------------------------------------
(* Steps that only move processes.                                         *)

LEMMA FollowedNoGap ==
    ASSUME FollowGaps = {}, Followed
    PROVE  NoGap
BY DEF Followed, NoGap

LEMMA JobStep ==
    ASSUME LogInv, NoGap,
           UNCHANGED <<disk, area, nextArea, ts, fsVars, writeActive, out, ck, uses>>,
           ckptWait' \in BOOLEAN, pc' \in [Procs -> Stages], job' \in JobRecs,
           SameStages, Mutual', JobOK'
    PROVE  LogInv'
<1> USE DEF LogInv
<1>1. UNCHANGED <<file, mapAddr, checked, cp, numDirty>>
  BY DEF fsVars
<1>2. FlagTypes' /\ FileTypes'
  BY <1>1 DEF Types, FlagTypes, FileTypes
<1>3. \A f \in Files : /\ file'[f].daddr = file[f].daddr /\ file'[f].iaddr = file[f].iaddr
                       /\ file[f].ver <= file'[f].ver
  <2>1. \A f \in Files : file[f].ver \in Nat
    BY DEF Types, FileTypes, FileRecs
  <2>2. QED
    BY <1>1, <2>1
<1>4. Frees /\ CleanOK'
  BY <1>1 DEF Frees, Free, FreeOf, CleanOK, Space
<1>5. FilesStored'
  BY <1>1 DEF Contents, FilesStored, FileStored, Stored, Flying
<1>6. UsageAgrees'
  BY <1>1 DEF UsageAgrees, Live, MapCells
<1>7. QED
  BY <1>1, <1>2, <1>3, <1>4, <1>5, <1>6, QuietStep

LEMMA PcStep ==
    ASSUME LogInv, NoGap,
           UNCHANGED <<disk, area, nextArea, ts, fsVars, writeActive, out, ck, job, uses>>,
           ckptWait' \in BOOLEAN, pc' \in [Procs -> Stages], SameStages, Mutual',
           pc'[Cleaner] \in Cleaning => pc[Cleaner] \in Cleaning
    PROVE  LogInv'
<1>1. UNCHANGED <<file, mapAddr, cp>>
  BY DEF fsVars
<1>2. JobOK' /\ job' \in JobRecs
  BY <1>1 DEF LogInv, Space, JobOK, Reads, Types, ProcTypes
<1>3. QED
  BY <1>2, JobStep

LEMMA WaitForSegmentInv ==
    ASSUME LogInv, FollowGaps = {}, NEW p \in Procs, WaitForSegment(p)
    PROVE  LogInv'
<1>1. /\ NoGap /\ p # Cleaner /\ pc[p] \in {"segretry", "create"}
      /\ pc' = LfsSegCleanStart([pc EXCEPT ![p] = "segwait"])
      /\ UNCHANGED <<disk, area, nextArea, ts, fsVars, writeActive, ckptWait, out, ck, job, uses>>
  BY FollowedNoGap DEF WaitForSegment, Running, MayCreate, NoTail
<1>2. pc \in [Procs -> Stages] /\ ckptWait \in BOOLEAN /\ Mutual
  BY DEF LogInv, Types, ProcTypes, FlagTypes, Regions
<1>3. /\ pc' \in [Procs -> Stages] /\ pc'[p] = "segwait"
      /\ \A q \in Procs \ {p} : pc'[q] = pc[q] \/ (q = Cleaner /\ pc[q] = "idle" /\ pc'[q] = "pick")
  BY <1>1, <1>2, ProcFacts DEF LfsSegCleanStart, Stages
<1>4. SameStages /\ (pc'[Cleaner] \in Cleaning => pc[Cleaner] \in Cleaning)
  BY <1>1, <1>3, ProcFacts DEF SameStages, Cleaning
<1>5. Mutual'
  BY <1>1, <1>2, <1>3, ProcFacts, ZenonT(60) DEF Mutual, Working
<1>6. QED
  BY <1>1, <1>2, <1>3, <1>4, <1>5, PcStep

LEMMA PanicInv ==
    ASSUME LogInv, FollowGaps = {}, Panic
    PROVE  LogInv'
<1>1. /\ NoGap /\ pc[Cleaner] \in {"segretry", "create", "mark"}
      /\ pc' = [pc EXCEPT ![Cleaner] = "panic"]
      /\ UNCHANGED <<disk, area, nextArea, ts, fsVars, writeActive, ckptWait, out, ck, job, uses>>
  BY FollowedNoGap DEF Panic, Running, MayCreate
<1>2. pc \in [Procs -> Stages] /\ ckptWait \in BOOLEAN /\ Mutual
  BY DEF LogInv, Types, ProcTypes, FlagTypes, Regions
<1>3. pc' \in [Procs -> Stages] /\ pc'[Cleaner] = "panic" /\ \A q \in Procs \ {Cleaner} : pc'[q] = pc[q]
  BY <1>1, <1>2, ProcFacts DEF Stages
<1>4. SameStages /\ (pc'[Cleaner] \in Cleaning => pc[Cleaner] \in Cleaning)
  BY <1>1, <1>3, ProcFacts DEF SameStages, Cleaning
<1>5. Mutual'
  BY <1>1, <1>2, <1>3, ProcFacts DEF Mutual
<1>6. QED
  BY <1>1, <1>2, <1>3, <1>4, <1>5, PcStep

LEMMA StartCheckPointInv ==
    ASSUME LogInv, FollowGaps = {}, NEW s \in Syncers, StartCheckPoint(s)
    PROVE  LogInv'
<1>1. /\ NoGap /\ s \in CkptProcs /\ pc[s] = "idle" /\ s \in Procs /\ s # Cleaner
      /\ \/ pc' = [pc EXCEPT ![s] = "waitcleaner"] /\ ckptWait' = TRUE
         \/ pc' = [pc EXCEPT ![s] = "waitckpt"] /\ ckptWait' = ckptWait
         \/ pc' = [pc EXCEPT ![s] = "create"] /\ ckptWait' = ckptWait /\ ~CkptActive
      /\ UNCHANGED <<disk, area, nextArea, ts, fsVars, writeActive, out, ck, job, uses>>
  BY FollowedNoGap, ProcFacts DEF StartCheckPoint, Running
<1>2. pc \in [Procs -> Stages] /\ ckptWait \in BOOLEAN /\ Mutual
  BY DEF LogInv, Types, ProcTypes, FlagTypes, Regions
<1>3. /\ pc' \in [Procs -> Stages] /\ \A q \in Procs \ {s} : pc'[q] = pc[q]
      /\ pc'[s] \in {"waitcleaner", "waitckpt", "create"} /\ ckptWait' \in BOOLEAN
      /\ pc'[s] = "create" => ~CkptActive
  BY <1>1, <1>2, ProcFacts DEF Stages
<1>4. SameStages /\ (pc'[Cleaner] \in Cleaning => pc[Cleaner] \in Cleaning)
  BY <1>1, <1>3, ProcFacts DEF SameStages, Cleaning
<1>5. Mutual'
  BY <1>1, <1>2, <1>3, ProcFacts DEF Mutual, Working, CkptActive
<1>6. QED
  BY <1>1, <1>2, <1>3, <1>4, <1>5, PcStep

LEMMA WaitEndsInv ==
    ASSUME LogInv, FollowGaps = {}, NEW s \in CkptProcs, WaitEnds(s)
    PROVE  LogInv'
<1>1. /\ NoGap /\ s \in Procs /\ s # Cleaner /\ pc[s] \in {"waitcleaner", "waitckpt"}
      /\ \/ pc' = [pc EXCEPT ![s] = "idle"]
         \/ pc' = [pc EXCEPT ![s] = "create"] /\ ~CkptActive
      /\ UNCHANGED <<disk, area, nextArea, ts, fsVars, writeActive, ckptWait, out, ck, job, uses>>
  BY FollowedNoGap, ProcFacts DEF WaitEnds, Running
<1>2. pc \in [Procs -> Stages] /\ ckptWait \in BOOLEAN /\ Mutual
  BY DEF LogInv, Types, ProcTypes, FlagTypes, Regions
<1>3. /\ pc' \in [Procs -> Stages] /\ \A q \in Procs \ {s} : pc'[q] = pc[q]
      /\ pc'[s] \in {"idle", "create"} /\ (pc'[s] = "create" => ~CkptActive)
  BY <1>1, <1>2, ProcFacts DEF Stages
<1>4. SameStages /\ (pc'[Cleaner] \in Cleaning => pc[Cleaner] \in Cleaning)
  BY <1>1, <1>3, ProcFacts DEF SameStages, Cleaning
<1>5. Mutual'
  BY <1>1, <1>2, <1>3, ProcFacts DEF Mutual, Working, CkptActive
<1>6. QED
  BY <1>1, <1>2, <1>3, <1>4, <1>5, PcStep

\* The write-back process, or the cleaner, is started.
LEMMA StartedInv ==
    ASSUME LogInv, FollowGaps = {}, StartWriter \/ Lfs_Command
    PROVE  LogInv'
<1>1. /\ NoGap
      /\ \/ pc[Writer] = "idle" /\ pc' = [pc EXCEPT ![Writer] = "create"]
         \/ pc[Cleaner] = "idle" /\ pc' = [pc EXCEPT ![Cleaner] = "pick"]
      /\ UNCHANGED <<disk, area, nextArea, ts, fsVars, writeActive, ckptWait, out, ck, job, uses>>
  BY FollowedNoGap DEF StartWriter, Lfs_Command, LfsSegCleanStart, Running
<1>2. pc \in [Procs -> Stages] /\ ckptWait \in BOOLEAN /\ Mutual
  BY DEF LogInv, Types, ProcTypes, FlagTypes, Regions
<1>3. pc' \in [Procs -> Stages]
  BY <1>1, <1>2, ProcFacts DEF Stages
<1>4. SameStages /\ (pc'[Cleaner] \in Cleaning => pc[Cleaner] \in Cleaning)
  BY <1>1, <1>2, ProcFacts DEF SameStages, Cleaning
<1>5. Mutual'
  BY <1>1, <1>2, ProcFacts DEF Mutual, Working
<1>6. QED
  BY <1>1, <1>2, <1>3, <1>4, <1>5, PcStep
-----------------------------------------------------------------------------
(* Reads and writes of files.                                              *)

LEMMA FileStep ==
    ASSUME LogInv, NoGap, NEW f \in Files, NEW g \in FileRecs, file' = [file EXCEPT ![f] = g],
           UNCHANGED <<disk, area, nextArea, ts, mapAddr, checked, cp, writeActive, ckptWait,
                       pc, out, ck, job>>,
           numDirty' \in Nat, uses' \in Nat, uses <= uses',
           g.daddr = file[f].daddr, g.iaddr = file[f].iaddr, g.desc = file[f].desc,
           file[f].dirty => g.dirty, file[f].ver <= g.ver, FileStored(f)'
    PROVE  LogInv'
<1> USE DEF LogInv
<1>1. file \in [Files -> FileRecs] /\ uses \in Nat
  BY DEF Types, FileTypes, FlagTypes
<1>2. file' \in [Files -> FileRecs] /\ file'[f] = g /\ \A x \in Files : x # f => file'[x] = file[x]
  BY <1>1
<1>3. \A x \in Files : /\ file'[x].daddr = file[x].daddr /\ file'[x].iaddr = file[x].iaddr
                       /\ file[x].ver <= file'[x].ver /\ file'[x].desc = file[x].desc
                       /\ file[x].dirty => file'[x].dirty
  <2>1. \A x \in Files : file[x].ver \in Nat
    BY <1>1 DEF FileRecs
  <2>2. QED
    BY <1>2, <2>1
<1>4. FlagTypes' /\ FileTypes' /\ pc' \in [Procs -> Stages] /\ job' \in JobRecs
  BY <1>2 DEF Types, FlagTypes, FileTypes, ProcTypes
<1>5. SameStages /\ Frees /\ CleanOK'
  BY DEF SameStages, Frees, Free, FreeOf, CleanOK, Space
<1>6. JobOK'
  BY <1>3 DEF Space, JobOK, Reads
<1>7. FilesStored'
  <2>1. ASSUME NEW x \in Files, x # f
        PROVE  FileStored(x)'
    <3>1. FileStored(x) /\ file'[x] = file[x] /\ file[x].ver \in Nat
      BY <1>1, <1>2, <2>1 DEF Contents, FilesStored, FileRecs
    <3>2. \A a, b : Stored(a, b)' <=> Stored(a, b)
      BY DEF Stored, Flying
    <3>3. QED
      BY <1>1, <3>1, <3>2 DEF FileStored
  <2>2. QED
    BY <2>1 DEF FilesStored
<1>8. Mutual'
  BY DEF Regions, Mutual
<1>9. UsageAgrees'
  <2>1. Live' = Live
    <3>1. \A a : a \in Live' <=>
           /\ a # Nil
           /\ \/ a \in MapCells(mapAddr)
              \/ \E x \in Files : a = file'[x].daddr \/ a = file'[x].iaddr
      BY DEF Live, MapCells
    <3>2. \A a : a \in Live' <=> a \in Live
      BY <1>3, <3>1, LiveFacts DEF Types
    <3>3. QED
      BY <3>2
  <2>2. QED
    BY <2>1 DEF UsageAgrees
<1>10. QED
  BY <1>3, <1>4, <1>5, <1>6, <1>7, <1>8, <1>9, QuietStep

LEMMA FileFacts ==
    ASSUME LogInv, NEW f \in Files
    PROVE  /\ file \in [Files -> FileRecs] /\ file[f] \in FileRecs
           /\ file[f].ver \in Nat /\ uses \in Nat /\ numDirty \in Nat /\ FileStored(f)
BY DEF LogInv, Types, FileTypes, FlagTypes, FileRecs, Contents, FilesStored

LEMMA SameStored ==
    ASSUME UNCHANGED <<disk, out>>
    PROVE  \A a, b : Stored(a, b)' <=> Stored(a, b)
BY DEF Stored, Flying

LEMMA BlockAllocateInv ==
    ASSUME LogInv, FollowGaps = {}, NEW f \in Files, BlockAllocate(f)
    PROVE  LogInv'
<1>1. NoGap
  BY FollowedNoGap DEF BlockAllocate, Running
<1>2. CASE EnoughClean
  <2> DEFINE g == [file[f] EXCEPT !.held = @ \cup {"alloc"}]
  <2>1. /\ file' = [file EXCEPT ![f] = g] /\ numDirty' = numDirty + 1 /\ uses' = uses + 1
        /\ UNCHANGED <<disk, area, nextArea, ts, mapAddr, checked, cp, writeActive, ckptWait,
                       pc, out, ck, job>>
    BY <1>2, FileFacts DEF BlockAllocate
  <2>2. /\ g \in FileRecs /\ g.daddr = file[f].daddr /\ g.iaddr = file[f].iaddr
        /\ g.desc = file[f].desc /\ g.dirty = file[f].dirty /\ g.ver = file[f].ver
    BY FileFacts DEF FileRecs
  <2>3. FileStored(f)'
    <3>1. file'[f] = g
      BY <2>1, FileFacts
    <3>2. QED
      BY <2>1, <2>2, <3>1, FileFacts, SameStored DEF FileStored
  <2> HIDE DEF g
  <2>4. /\ (file[f].dirty => g.dirty) /\ file[f].ver <= g.ver
        /\ numDirty' \in Nat /\ uses' \in Nat /\ uses <= uses'
    BY <2>1, <2>2, FileFacts
  <2>5. QED
    BY <1>1, <2>1, <2>2, <2>3, <2>4, FileStep
<1>3. CASE ~EnoughClean
  <2>1. /\ pc[Cleaner] = "idle" /\ pc' = [pc EXCEPT ![Cleaner] = "pick"]
        /\ UNCHANGED <<disk, area, nextArea, ts, fsVars, writeActive, ckptWait, out, ck, job, uses>>
    BY <1>3 DEF BlockAllocate, LfsSegCleanStart, fsVars
  <2>2. pc \in [Procs -> Stages] /\ ckptWait \in BOOLEAN /\ Mutual
    BY DEF LogInv, Types, ProcTypes, FlagTypes, Regions
  <2>3. pc' \in [Procs -> Stages] /\ SameStages /\ pc'[Cleaner] \notin Cleaning /\ Mutual'
    BY <2>1, <2>2, ProcFacts DEF Stages, SameStages, Cleaning, Mutual, Working
  <2>4. QED
    BY <1>1, <2>1, <2>2, <2>3, PcStep
<1>4. QED
  BY <1>2, <1>3

LEMMA FetchBlockInv ==
    ASSUME LogInv, FollowGaps = {}, NEW f \in Files, FetchBlock(f)
    PROVE  LogInv'
<1>1. NoGap
  BY FollowedNoGap DEF FetchBlock, Running
<1>2. PICK h \in {{"write"}, file[f].held \cup {"read"}} :
        /\ file' = [file EXCEPT ![f] = [file[f] EXCEPT !.held = h]]
        /\ \/ h = {"write"} /\ "alloc" \in file[f].held /\ uses' = uses
           \/ h = file[f].held \cup {"read"} /\ uses' = uses + 1
        /\ UNCHANGED <<disk, area, nextArea, ts, mapAddr, checked, cp, numDirty, writeActive,
                       ckptWait, pc, out, ck, job>>
  BY FileFacts DEF FetchBlock
<1> DEFINE g == [file[f] EXCEPT !.held = h]
<1>3. /\ g \in FileRecs /\ g.daddr = file[f].daddr /\ g.iaddr = file[f].iaddr
      /\ g.desc = file[f].desc /\ g.dirty = file[f].dirty /\ g.ver = file[f].ver
  BY <1>2, FileFacts DEF FileRecs
<1>4. FileStored(f)'
  <2>1. file'[f] = g /\ g.held = h
    BY <1>2, FileFacts DEF FileRecs
  <2>2. h \cap {"write", "alloc"} # {} => uses' > 0
    BY <1>2, FileFacts DEF FileStored
  <2>3. QED
    BY <1>2, <1>3, <2>1, <2>2, FileFacts, SameStored DEF FileStored
<1> HIDE DEF g
<1>5. /\ (file[f].dirty => g.dirty) /\ file[f].ver <= g.ver
      /\ numDirty' \in Nat /\ uses' \in Nat /\ uses <= uses'
  BY <1>2, <1>3, FileFacts
<1>6. file' = [file EXCEPT ![f] = g]
  BY <1>2 DEF g
<1>7. QED
  BY <1>1, <1>2, <1>3, <1>4, <1>5, <1>6, FileStep

LEMMA UnlockBlockInv ==
    ASSUME LogInv, FollowGaps = {}, NEW f \in Files, UnlockBlock(f)
    PROVE  LogInv'
<1>1. NoGap
  BY FollowedNoGap DEF UnlockBlock, Running
<1>2. CASE "write" \in file[f].held /\ file' = [file EXCEPT ![f].held = @ \ {"write"},
                                         ![f].ver = uses, ![f].dirty = TRUE]
  <2> DEFINE g == [file[f] EXCEPT !.held = @ \ {"write"}, !.ver = uses, !.dirty = TRUE]
  <2>1. file' = [file EXCEPT ![f] = g] /\ file'[f] = g
    BY <1>2, FileFacts
  <2>2. /\ g \in FileRecs /\ g.daddr = file[f].daddr /\ g.iaddr = file[f].iaddr
        /\ g.desc = file[f].desc /\ g.dirty /\ g.ver = uses
    BY FileFacts DEF FileRecs
  <2>3. uses > 0 /\ file[f].ver <= uses
    BY <1>2, FileFacts DEF FileStored
  <2>4. UNCHANGED <<disk, area, nextArea, ts, mapAddr, checked, cp, numDirty, writeActive,
                    ckptWait, pc, out, ck, job, uses>>
    BY DEF UnlockBlock
  <2>5. FileStored(f)'
    BY <2>1, <2>2, <2>3, <2>4, FileFacts DEF FileStored
  <2> HIDE DEF g
  <2>6. /\ (file[f].dirty => g.dirty) /\ file[f].ver <= g.ver
        /\ numDirty' \in Nat /\ uses' \in Nat /\ uses <= uses'
    BY <2>2, <2>3, <2>4, FileFacts
  <2>7. QED
    BY <1>1, <2>1, <2>2, <2>4, <2>5, <2>6, FileStep
<1>3. CASE file' = [file EXCEPT ![f].held = @ \ {"read"}]
  <2> DEFINE g == [file[f] EXCEPT !.held = @ \ {"read"}]
  <2>1. file' = [file EXCEPT ![f] = g] /\ file'[f] = g
    BY <1>3, FileFacts
  <2>2. /\ g \in FileRecs /\ g.daddr = file[f].daddr /\ g.iaddr = file[f].iaddr
        /\ g.desc = file[f].desc /\ g.dirty = file[f].dirty /\ g.ver = file[f].ver
        /\ g.held \subseteq file[f].held
    BY FileFacts DEF FileRecs
  <2>3. UNCHANGED <<disk, area, nextArea, ts, mapAddr, checked, cp, numDirty, writeActive,
                    ckptWait, pc, out, ck, job, uses>>
    BY DEF UnlockBlock
  <2>4. FileStored(f)'
    BY <2>1, <2>2, <2>3, FileFacts, SameStored DEF FileStored
  <2> HIDE DEF g
  <2>5. /\ (file[f].dirty => g.dirty) /\ file[f].ver <= g.ver
        /\ numDirty' \in Nat /\ uses' \in Nat /\ uses <= uses'
    BY <2>2, <2>3, FileFacts
  <2>6. QED
    BY <1>1, <2>1, <2>2, <2>3, <2>4, <2>5, FileStep
<1>4. QED
  BY <1>2, <1>3 DEF UnlockBlock
-----------------------------------------------------------------------------
(* Lists of segments.                                                      *)

LEMMA SetOfSeq ==
    ASSUME NEW S, NEW q \in Seq(S)
    PROVE  ToSet(q) \subseteq S
BY LenProperties, ElementOfSeq DEF ToSet

LEMMA TailSet ==
    ASSUME NEW S, NEW q \in Seq(S), q # <<>>
    PROVE  /\ Head(q) \in S /\ Tail(q) \in Seq(S) /\ ToSet(q) = {Head(q)} \cup ToSet(Tail(q))
           /\ IsInjective(q) => Head(q) \notin ToSet(Tail(q)) /\ IsInjective(Tail(q))
<1>1. /\ Len(q) \in Nat /\ Len(q) > 0 /\ DOMAIN q = 1 .. Len(q) /\ Head(q) = q[1]
      /\ Tail(q) \in Seq(S) /\ DOMAIN Tail(q) = 1 .. Len(q) - 1
      /\ \A i \in 1 .. Len(q) - 1 : Tail(q)[i] = q[i + 1]
  BY HeadTailProperties, LenProperties, EmptySeq
<1>2. \A i \in 1 .. Len(q) : q[i] \in S
  BY ElementOfSeq
<1>3. \A x : x \in ToSet(q) <=> x = Head(q) \/ x \in ToSet(Tail(q))
  <2>1. ASSUME NEW i \in 1 .. Len(q)
        PROVE  q[i] = Head(q) \/ q[i] \in ToSet(Tail(q))
    <3>1. i = 1 \/ (i - 1 \in 1 .. Len(q) - 1 /\ Tail(q)[i - 1] = q[i])
      BY <1>1
    <3>2. QED
      BY <1>1, <3>1 DEF ToSet
  <2>2. ASSUME NEW i \in 1 .. Len(q) - 1
        PROVE  Tail(q)[i] \in ToSet(q)
    BY <1>1 DEF ToSet
  <2>3. QED
    BY <1>1, <2>1, <2>2 DEF ToSet
<1>4. ASSUME IsInjective(q)
      PROVE  Head(q) \notin ToSet(Tail(q)) /\ IsInjective(Tail(q))
  <2>1. \A i \in 1 .. Len(q) - 1 : Tail(q)[i] # Head(q)
    BY <1>1, <1>4 DEF IsInjective
  <2>2. IsInjective(Tail(q))
    BY <1>1, <1>4 DEF IsInjective
  <2>3. QED
    BY <1>1, <2>1, <2>2 DEF ToSet
<1>5. QED
  BY <1>1, <1>2, <1>3, <1>4

LEMMA AppendSet ==
    ASSUME NEW S, NEW q \in Seq(S), NEW s \in S
    PROVE  /\ Append(q, s) \in Seq(S) /\ ToSet(Append(q, s)) = ToSet(q) \cup {s}
           /\ IsInjective(q) /\ s \notin ToSet(q) => IsInjective(Append(q, s))
<1> DEFINE r == Append(q, s)
<1>1. /\ Len(q) \in Nat /\ DOMAIN q = 1 .. Len(q) /\ r \in Seq(S)
      /\ DOMAIN r = 1 .. Len(q) + 1 /\ r[Len(q) + 1] = s
      /\ \A i \in 1 .. Len(q) : r[i] = q[i]
  BY AppendProperties, LenProperties
<1> HIDE DEF r
<1>2. \A x : x \in ToSet(r) <=> x \in ToSet(q) \/ x = s
  BY <1>1 DEF ToSet
<1>3. IsInjective(q) /\ s \notin ToSet(q) => IsInjective(r)
  BY <1>1 DEF IsInjective, ToSet
<1>4. QED
  BY <1>1, <1>2, <1>3 DEF r

LEMMA ReverseSet ==
    ASSUME NEW S, NEW q \in Seq(S)
    PROVE  /\ Reverse(q) \in Seq(S) /\ ToSet(Reverse(q)) = ToSet(q)
           /\ IsInjective(q) => IsInjective(Reverse(q))
<1> DEFINE n == Len(q)
           r == Reverse(q)
<1>1. n \in Nat /\ DOMAIN q = 1 .. n /\ \A i \in 1 .. n : q[i] \in S
  BY LenProperties, ElementOfSeq
<1>2. DOMAIN r = 1 .. n /\ \A i \in 1 .. n : r[i] = q[(n - i) + 1]
  BY <1>1 DEF Reverse
<1>3. r \in [1 .. n -> S]
  BY <1>1 DEF Reverse
<1> HIDE DEF r, n
<1>4. r \in Seq(S)
  BY <1>1, <1>3, IsASeq
<1>5. \A i \in 1 .. n : (n - i) + 1 \in 1 .. n /\ (n - ((n - i) + 1)) + 1 = i
  BY <1>1
<1>6. \A x : x \in ToSet(r) <=> x \in ToSet(q)
  <2>1. \A i \in 1 .. n : r[i] \in ToSet(q) /\ q[i] \in ToSet(r)
    <3>1. ASSUME NEW i \in 1 .. n
          PROVE  r[i] = q[(n - i) + 1] /\ q[i] = r[(n - i) + 1] /\ (n - i) + 1 \in 1 .. n
      BY <1>2, <1>5
    <3>2. QED
      BY <1>1, <1>2, <3>1 DEF ToSet
  <2>2. QED
    BY <1>1, <1>2, <2>1 DEF ToSet
<1>7. IsInjective(q) => IsInjective(r)
  BY <1>1, <1>2 DEF IsInjective
<1>8. QED
  BY <1>4, <1>6, <1>7 DEF r

LEMMA ConcatSet ==
    ASSUME NEW S, NEW q \in Seq(S), NEW r \in Seq(S), NEW c, c = q \o r
    PROVE  /\ c \in Seq(S) /\ \A x : x \in ToSet(c) <=> x \in ToSet(q) \/ x \in ToSet(r)
           /\ \/ ~IsInjective(q) \/ ~IsInjective(r) \/ \E x \in ToSet(q) : x \in ToSet(r)
              \/ IsInjective(c)
<1> DEFINE n == Len(q)
           m == Len(r)
<1>1. /\ n \in Nat /\ m \in Nat /\ DOMAIN q = 1 .. n /\ DOMAIN r = 1 .. m
      /\ c \in Seq(S) /\ DOMAIN c = 1 .. n + m
      /\ \A i \in 1 .. n + m : c[i] = IF i <= n THEN q[i] ELSE r[i - n]
  BY ConcatProperties, LenProperties
<1> HIDE DEF n, m
<1>2. \A x : x \in ToSet(c) <=> x \in ToSet(q) \/ x \in ToSet(r)
  <2>1. \A i \in 1 .. n + m : c[i] \in ToSet(q) \/ c[i] \in ToSet(r)
    BY <1>1 DEF ToSet
  <2>2. ASSUME NEW i \in 1 .. n
        PROVE  q[i] \in ToSet(c)
    <3>1. i \in 1 .. n + m /\ c[i] = q[i]
      BY <1>1
    <3>2. QED
      BY <1>1, <3>1 DEF ToSet
  <2>3. ASSUME NEW i \in 1 .. m
        PROVE  r[i] \in ToSet(c)
    <3>1. i + n \in 1 .. n + m /\ c[i + n] = r[i]
      BY <1>1
    <3>2. QED
      BY <1>1, <3>1 DEF ToSet
  <2>4. QED
    BY <1>1, <2>1, <2>2, <2>3 DEF ToSet
<1>3. ASSUME IsInjective(q), IsInjective(r), \A x \in ToSet(q) : x \notin ToSet(r)
      PROVE  IsInjective(c)
  <2>1. \A i \in 1 .. n, j \in 1 .. m : q[i] # r[j]
    BY <1>1, <1>3 DEF ToSet
  <2>2. \A i, j \in 1 .. n : q[i] = q[j] => i = j
    BY <1>1, <1>3 DEF IsInjective
  <2>3. \A i, j \in 1 .. m : r[i] = r[j] => i = j
    BY <1>1, <1>3 DEF IsInjective
  <2>4. SUFFICES ASSUME NEW i \in 1 .. n + m, NEW j \in 1 .. n + m, c[i] = c[j]
                 PROVE  i = j
    BY <1>1 DEF IsInjective
  <2>5. CASE i <= n /\ j <= n
    BY <1>1, <2>2, <2>4, <2>5
  <2>6. CASE i > n /\ j > n
    BY <1>1, <2>3, <2>4, <2>6
  <2>7. CASE i <= n /\ j > n
    BY <1>1, <2>1, <2>4, <2>7
  <2>8. CASE i > n /\ j <= n
    BY <1>1, <2>1, <2>4, <2>8
  <2>9. QED
    BY <1>1, <2>5, <2>6, <2>7, <2>8
<1>4. QED
  BY <1>1, <1>2, <1>3

LEMMA ConcatRange ==
    ASSUME NEW S, NEW q \in Seq(S), NEW r \in Seq(S), NEW c, c = q \o r
    PROVE  \A x : x \in ToSet(c) <=> x \in ToSet(q) \/ x \in ToSet(r)
BY ConcatSet

\* The list of clean segments with the segments r put behind its head.
LEMMA MarkedList ==
    ASSUME NEW S, NEW q \in Seq(S), NEW r \in Seq(S), q # <<>>, IsInjective(q), IsInjective(r),
           \A x \in ToSet(r) : x \notin ToSet(q)
    PROVE  LET l == <<Head(q)>> \o Reverse(r) \o Tail(q) IN
           l \in Seq(S) /\ IsInjective(l) /\ \A x : x \in ToSet(l) <=> x \in ToSet(q) \cup ToSet(r)
<1> DEFINE h == Head(q)
           a == <<h>>
           u == Reverse(r)
           t == Tail(q)
           b == a \o u
           l == b \o t
<1>1. h \in S /\ t \in Seq(S) /\ IsInjective(t) /\ h \notin ToSet(t) /\ ToSet(q) = {h} \cup ToSet(t)
  BY TailSet
<1>2. u \in Seq(S) /\ IsInjective(u) /\ ToSet(u) = ToSet(r)
  BY ReverseSet
<1> HIDE DEF h, u, t
<1>3. a \in Seq(S) /\ IsInjective(a) /\ ToSet(a) = {h}
  BY <1>1 DEF IsInjective, ToSet
<1>4. b = a \o u /\ l = b \o t
  OBVIOUS
<1> HIDE DEF a, b, l
<1>5. \A x \in ToSet(a) : x \notin ToSet(u)
  BY <1>1, <1>2, <1>3
<1>6. b \in Seq(S) /\ IsInjective(b)
  BY <1>2, <1>3, <1>4, <1>5, ConcatSet, ZenonT(60)
<1>7. \A x : x \in ToSet(b) <=> x \in ToSet(a) \/ x \in ToSet(u)
  BY <1>2, <1>3, <1>4, ConcatRange
<1>8. \A x \in ToSet(b) : x \notin ToSet(t)
  BY <1>1, <1>2, <1>3, <1>7
<1>9. l \in Seq(S) /\ IsInjective(l)
  BY <1>1, <1>4, <1>6, <1>8, ConcatSet, ZenonT(60)
<1>10. \A x : x \in ToSet(l) <=> x \in ToSet(b) \/ x \in ToSet(t)
  <2>1. b \in Seq(S) /\ t \in Seq(S) /\ l = b \o t
    BY <1>1, <1>4, <1>6
  <2>2. QED
    BY <2>1, ConcatRange, ZenonT(60)
<1>11. l \in Seq(S) /\ IsInjective(l) /\ \A x : x \in ToSet(l) <=> x \in ToSet(q) \cup ToSet(r)
  BY <1>1, <1>2, <1>3, <1>7, <1>9, <1>10
<1>12. QED
  BY <1>11 DEF l, b, a, u, t, h
-----------------------------------------------------------------------------
(* The cleaner.                                                            *)

LEMMA CleanerFacts ==
    ASSUME LogInv
    PROVE  /\ pc \in [Procs -> Stages] /\ ckptWait \in BOOLEAN /\ Mutual
           /\ job \in JobRecs /\ job.todo \in Seq(Segs) /\ job.read \in Seq(Segs)
           /\ cp \in TailRecs /\ cp.clean \in Seq(Segs) /\ cp.cur \in Segs
           /\ cp.usage \in [Segs -> Nat] /\ file \in [Files -> FileRecs]
BY DEF LogInv, Types, ProcTypes, FlagTypes, FileTypes, Regions, JobRecs, TailRecs

LEMMA EndInInv ==
    ASSUME LogInv, FollowGaps = {}, EndIn
    PROVE  LogInv'
<1>1. /\ NoGap /\ pc[Cleaner] = "in" /\ pc' = [pc EXCEPT ![Cleaner] = "create"]
      /\ job' = [job EXCEPT !.layout = job.live]
      /\ UNCHANGED <<disk, area, nextArea, ts, fsVars, writeActive, ckptWait, out, ck, uses>>
  BY FollowedNoGap DEF EndIn, Running
<1>2. /\ job' \in JobRecs /\ job'.read = job.read /\ job'.todo = job.todo
  BY <1>1, CleanerFacts DEF JobRecs
<1>3. pc' \in [Procs -> Stages] /\ pc'[Cleaner] = "create" /\ \A q \in Procs \ {Cleaner} : pc'[q] = pc[q]
  BY <1>1, CleanerFacts, ProcFacts DEF Stages
<1>4. SameStages
  BY <1>1, <1>3 DEF SameStages
<1>5. Mutual'
  BY <1>3, CleanerFacts, ProcFacts DEF Mutual
<1>6. JobOK'
  <2>1. UNCHANGED <<file, mapAddr, cp>>
    BY <1>1 DEF fsVars
  <2>2. QED
    BY <1>1, <1>2, <2>1 DEF LogInv, Space, JobOK, Reads, Cleaning
<1>7. QED
  BY <1>1, <1>2, <1>3, <1>4, <1>5, <1>6, CleanerFacts, JobStep

LEMMA PickSegmentsInv ==
    ASSUME LogInv, FollowGaps = {}, PickSegments
    PROVE  LogInv'
<1>1. /\ NoGap /\ pc[Cleaner] \in {"pick", "again"}
      /\ UNCHANGED <<disk, area, nextArea, ts, fsVars, writeActive, ckptWait, out, ck, uses>>
  BY FollowedNoGap DEF PickSegments, Running
<1>2. UNCHANGED <<file, mapAddr, cp>>
  BY <1>1 DEF fsVars
<1>3. CASE EndCleaning
  <2>1. /\ job' = NoJob
        /\ \/ pc' = [pc EXCEPT ![Cleaner] = "idle"]
           \/ pc[Final] = "idle" /\ pc' = [pc EXCEPT ![Cleaner] = "idle", ![Final] = "waitckpt"]
           \/ /\ pc[Final] = "idle" /\ ~CkptActive
              /\ pc' = [pc EXCEPT ![Cleaner] = "idle", ![Final] = "create"]
    BY <1>3 DEF EndCleaning
  <2>2. Final \in Procs /\ Final # Cleaner
    BY ProcFacts
  <2>3. /\ pc' \in [Procs -> Stages] /\ pc'[Cleaner] = "idle"
        /\ \A q \in Procs \ {Cleaner, Final} : pc'[q] = pc[q]
        /\ \/ pc'[Final] = pc[Final]
           \/ pc[Final] = "idle" /\ pc'[Final] = "waitckpt"
           \/ pc[Final] = "idle" /\ pc'[Final] = "create" /\ ~CkptActive
    <3>1. pc \in [Procs -> Stages] /\ Cleaner \in Procs
      BY CleanerFacts, ProcFacts
    <3>2. "idle" \in Stages /\ "waitckpt" \in Stages /\ "create" \in Stages
      BY DEF Stages
    <3>3. QED
      BY <2>1, <2>2, <3>1, <3>2
  <2>4. SameStages
    BY <1>1, <2>2, <2>3, ProcFacts DEF SameStages
  <2>5. Mutual'
    BY <2>2, <2>3, CleanerFacts, ProcFacts DEF Mutual, Working, CkptActive
  <2>6. job' \in JobRecs
    BY <2>1, EmptySeq DEF NoJob, JobRecs
  <2>7. JobOK'
    BY <2>3 DEF JobOK, Cleaning
  <2>8. QED
    BY <1>1, <2>3, <2>4, <2>5, <2>6, <2>7, CleanerFacts, JobStep
<1>4. CASE /\ pc' = [pc EXCEPT ![Cleaner] = "in"]
           /\ \E q \in SegsToClean :
                 job' = [NoJob EXCEPT !.layout = TRUE, !.todo = q, !.any = job.any]
  <2>1. PICK q \in SegsToClean : job' = [NoJob EXCEPT !.layout = TRUE, !.todo = q, !.any = job.any]
    BY <1>4
  <2>2. q \in SetToSeqs(DirtySegs) /\ DirtySegs \subseteq Segs
    BY DEF SegsToClean, DirtySegs
  <2>3. q \in Seq(Segs) /\ IsInjective(q) /\ ToSet(q) \subseteq DirtySegs
    <3>1. Cardinality(DirtySegs) \in Nat
      <4>1. IsFiniteSet(Segs)
        BY LfsAssumption, FS_Interval DEF Segs
      <4>2. QED
        BY <2>2, <4>1, FS_Subset, FS_CardinalityType
    <3>2. q \in [1 .. Cardinality(DirtySegs) -> Segs] /\ q \in [1 .. Cardinality(DirtySegs) -> DirtySegs]
      BY <2>2 DEF SetToSeqs
    <3>3. q \in Seq(Segs)
      BY <3>1, <3>2, IsASeq
    <3>4. IsInjective(q)
      BY <2>2 DEF SetToSeqs, IsInjective
    <3>5. QED
      BY <3>2, <3>3, <3>4 DEF ToSet
  <2>4. /\ job' \in JobRecs /\ job'.todo = q /\ job'.read = <<>>
    BY <2>1, <2>3, CleanerFacts, EmptySeq DEF NoJob, JobRecs
  <2>5. pc' \in [Procs -> Stages] /\ pc'[Cleaner] = "in" /\ \A p \in Procs \ {Cleaner} : pc'[p] = pc[p]
    BY <1>4, CleanerFacts, ProcFacts DEF Stages
  <2>6. SameStages
    BY <1>1, <2>5 DEF SameStages
  <2>7. Mutual'
    BY <2>5, CleanerFacts, ProcFacts DEF Mutual
  <2>8. JobOK'
    <3>1. Reads' = {} /\ IsInjective(job'.read)
      BY <2>4 DEF Reads, ToSet, IsInjective
    <3>2. \A s \in ToSet(q) : s # cp.cur /\ s \notin ToSet(cp.clean)
      BY <2>3 DEF DirtySegs
    <3>3. QED
      BY <1>2, <2>3, <2>4, <3>1, <3>2 DEF JobOK
  <2>9. QED
    BY <1>1, <2>4, <2>5, <2>6, <2>7, <2>8, CleanerFacts, JobStep
<1>5. QED
  BY <1>3, <1>4 DEF PickSegments

\* The blocks of the map, and of the log.
LEMMA MapCellsCard ==
    ASSUME NEW a \in MapAddrs
    PROVE  IsFiniteSet(MapCells(a)) /\ Cardinality(MapCells(a)) = MapSize
<1> DEFINE I == 0 .. MapSize - 1
           h == [i \in I |-> <<a[1], a[2] + i>>]
<1>1. a \in Addrs /\ a # Nil /\ a[2] \in Nat /\ MapSize \in Nat \ {0}
  BY AddrFacts, LfsAssumption DEF MapAddrs
<1>2. MapCells(a) = {<<a[1], a[2] + i>> : i \in I}
  BY <1>1 DEF MapCells
<1>3. h \in Bijection(I, MapCells(a))
  <2>1. h \in [I -> MapCells(a)]
    BY <1>2
  <2>2. \A i, j \in I : h[i] = h[j] => i = j
    BY <1>1
  <2>3. \A x \in MapCells(a) : \E i \in I : h[i] = x
    BY <1>2
  <2>4. QED
    BY <2>1, <2>2, <2>3 DEF Bijection, Injection, Surjection, IsInjective
<1>4. IsFiniteSet(I) /\ Cardinality(I) = MapSize
  BY <1>1, FS_Interval
<1> HIDE DEF I, h
<1>5. QED
  BY <1>3, <1>4, FS_Bijection DEF ExistsBijection

LEMMA AddrsFinite ==
    /\ IsFiniteSet(Addrs)
    /\ \A S \in SUBSET Addrs : \A s : IsFiniteSet(S) /\ IsFiniteSet({a \in S : a[1] = s})
<1>1. IsFiniteSet(Addrs)
  <2>1. NumSegs - 1 \in Int /\ SegBlocks - 1 \in Int
    BY LfsAssumption
  <2>2. IsFiniteSet(Segs) /\ IsFiniteSet(0 .. SegBlocks - 1)
    BY <2>1, FS_Interval DEF Segs
  <2>3. QED
    BY <2>2, FS_Product DEF Addrs
<1>2. ASSUME NEW S \in SUBSET Addrs, NEW s
      PROVE  IsFiniteSet(S) /\ IsFiniteSet({a \in S : a[1] = s})
  <2>1. IsFiniteSet(S)
    BY <1>1, FS_Subset
  <2>2. {a \in S : a[1] = s} \in SUBSET S
    OBVIOUS
  <2>3. QED
    BY <2>1, <2>2, FS_Subset
<1>3. QED
  BY <1>1, <1>2

\* The map becomes dirty, and its old blocks free.
LEMMA DropMap ==
    ASSUME LogInv, mapAddr' = Nil, cp'.usage = UsageWithoutMap,
           ToSet(cp.clean) \subseteq ToSet(cp'.clean),
           \A f \in Files : file'[f].daddr = file[f].daddr /\ file'[f].iaddr = file[f].iaddr
    PROVE  UsageAgrees'
<1>1. FileTypes /\ Distinct /\ UsageAgrees /\ mapAddr \in MapAddrs \cup {Nil} /\ cp.usage \in [Segs -> Nat]
  BY DEF LogInv, Types, Space, FileTypes, TailRecs
<1>2. \A a : a \in Live' <=> a \in Live /\ a \notin MapCells(mapAddr)
  <2>1. \A a : a \in Live' <=>
           /\ a # Nil
           /\ \E f \in Files : a = file[f].daddr \/ a = file[f].iaddr
    BY DEF Live, MapCells
  <2>2. \A f \in Files : file[f].daddr \notin MapCells(mapAddr) /\ file[f].iaddr \notin MapCells(mapAddr)
    BY <1>1 DEF Distinct
  <2>3. QED
    BY <1>1, <2>1, <2>2, LiveFacts
<1>3. ASSUME NEW s \in Segs, s \notin ToSet(cp'.clean)
      PROVE  cp'.usage[s] = Cardinality({a \in Live' : a[1] = s})
  <2> DEFINE L == {a \in Live : a[1] = s}
             M == {a \in Live' : a[1] = s}
  <2>1. cp.usage[s] = Cardinality(L)
    BY <1>1, <1>3 DEF UsageAgrees
  <2>2. IsFiniteSet(L) /\ Cardinality(L) \in Nat
    BY <1>1, LiveFacts, AddrsFinite, FS_CardinalityType
  <2>3. CASE mapAddr[1] = s
    <3>1. mapAddr \in MapAddrs
      BY <1>1, <2>3, AddrFacts
    <3>2. MapCells(mapAddr) \subseteq L
      <4>1. \A a \in MapCells(mapAddr) : a # Nil /\ a[1] = s
        BY <2>3, <3>1, MapCellsFacts, AddrFacts
      <4>2. QED
        BY <1>1, <4>1, LiveFacts
    <3>3. M = L \ MapCells(mapAddr) /\ L \cap MapCells(mapAddr) = MapCells(mapAddr)
      BY <1>2, <3>2
    <3> HIDE DEF L, M
    <3>4. Cardinality(M) = Cardinality(L) - MapSize /\ Cardinality(M) \in Nat
      <4>1. Cardinality(MapCells(mapAddr)) = MapSize
        BY <3>1, MapCellsCard
      <4>2. IsFiniteSet(M) /\ Cardinality(M) = Cardinality(L) - Cardinality(L \cap MapCells(mapAddr))
        BY <2>2, <3>3, FS_Difference
      <4>3. QED
        BY <3>3, <4>1, <4>2, FS_CardinalityType
    <3>5. cp'.usage[s] = Less(cp.usage[s], MapSize)
      BY <2>3 DEF UsageWithoutMap
    <3>6. QED
      BY <2>1, <2>2, <3>4, <3>5, LfsAssumption DEF Less, M
  <2>4. CASE mapAddr[1] # s
    <3>1. \A a \in MapCells(mapAddr) : a[1] # s
      BY <1>1, <2>4, MapCellsFacts
    <3>2. M = L
      BY <1>2, <3>1
    <3>3. cp'.usage[s] = cp.usage[s]
      BY <2>4 DEF UsageWithoutMap
    <3>4. QED
      BY <2>1, <3>2, <3>3
  <2>5. QED
    BY <2>3, <2>4
<1>4. QED
  BY <1>3 DEF UsageAgrees

LEMMA CleanedFacts ==
    ASSUME LogInv, NEW f \in Files, NEW s \in Segs
    PROVE  LET g == Cleaned(f, s) IN
           /\ g \in FileRecs /\ g.daddr = file[f].daddr /\ g.iaddr = file[f].iaddr
           /\ g.ver = file[f].ver /\ g.held = file[f].held
           /\ (g.dirty <=> file[f].dirty \/ file[f].daddr[1] = s)
           /\ (g.desc <=> file[f].desc \/ file[f].iaddr[1] = s)
BY FileFacts, ZenonT(60) DEF Cleaned, FileRecs

LEMMA CleanInInv ==
    ASSUME LogInv, FollowGaps = {}, CleanIn
    PROVE  LogInv'
<1> DEFINE s == Head(job.todo)
<1>1. /\ NoGap /\ pc[Cleaner] = "in" /\ job.todo # <<>>
      /\ UNCHANGED <<disk, area, nextArea, ts, checked, numDirty, writeActive, ckptWait,
                     pc, out, ck, uses>>
  BY FollowedNoGap DEF CleanIn, Running
<1>2. /\ s \in Segs /\ Tail(job.todo) \in Seq(Segs) /\ IsInjective(Tail(job.todo))
      /\ s \notin ToSet(Tail(job.todo)) /\ ToSet(job.todo) = {s} \cup ToSet(Tail(job.todo))
  BY <1>1, CleanerFacts, TailSet DEF LogInv, Space, JobOK, Cleaning
<1> HIDE DEF s
<1>3. /\ file' \in [Files -> FileRecs]
      /\ \A f \in Files : file'[f] = file[f] \/ file'[f] = Cleaned(f, s)
  <2>1. \A f \in Files : Cleaned(f, s) \in FileRecs
    BY <1>2, CleanedFacts
  <2>2. \/ file' = [f \in Files |-> Cleaned(f, s)]
        \/ \E part : file' = [f \in Files |-> IF f \in part THEN Cleaned(f, s) ELSE file[f]]
    BY DEF CleanIn, s
  <2>3. QED
    BY <2>1, <2>2, CleanerFacts
<1>4. \A f \in Files : /\ file'[f].daddr = file[f].daddr /\ file'[f].iaddr = file[f].iaddr
                       /\ file'[f].ver = file[f].ver /\ file'[f].held = file[f].held
                       /\ file[f].dirty => file'[f].dirty
                       /\ file[f].desc => file'[f].desc
                       /\ file'[f].dirty => file[f].dirty \/ file[f].daddr[1] = s
                       /\ file'[f].desc => file[f].desc \/ file[f].iaddr[1] = s
  BY <1>2, <1>3, CleanedFacts
<1>5. /\ job' \in JobRecs /\ job'.todo = Tail(job.todo)
      /\ \/ /\ job'.read = Append(job.read, s) /\ file' = [f \in Files |-> Cleaned(f, s)]
            /\ mapAddr[1] = s => mapAddr' = Nil
            /\ mapAddr[1] # s => mapAddr' = mapAddr
         \/ job'.read = job.read /\ UNCHANGED <<mapAddr, cp>>
  <2>1. \/ /\ file' = [f \in Files |-> Cleaned(f, s)]
           /\ mapAddr[1] = s => mapAddr' = Nil
           /\ mapAddr[1] # s => mapAddr' = mapAddr
           /\ \E b \in BOOLEAN : job' = [job EXCEPT !.todo = Tail(@), !.read = Append(@, s),
                                                    !.any = TRUE, !.live = @ \/ b]
        \/ /\ UNCHANGED <<mapAddr, cp>>
           /\ \E b \in BOOLEAN : job' = [job EXCEPT !.todo = Tail(@), !.live = @ \/ b]
    BY DEF CleanIn, s
  <2>2. Append(job.read, s) \in Seq(Segs)
    BY <1>2, CleanerFacts, AppendSet
  <2>3. QED
    BY <1>2, <2>1, <2>2, CleanerFacts DEF JobRecs
<1>6. \/ UNCHANGED <<mapAddr, cp>>
      \/ mapAddr' = Nil /\ cp' = [cp EXCEPT !.usage = UsageWithoutMap]
  BY DEF CleanIn
<1>7. /\ cp' \in TailRecs /\ cp'.cur = cp.cur /\ cp'.off = cp.off /\ cp'.clean = cp.clean
      /\ mapAddr' = Nil => cp'.usage = UsageWithoutMap \/ cp'.usage = cp.usage
  <2>1. UsageWithoutMap \in [Segs -> Nat]
    BY CleanerFacts, LfsAssumption DEF UsageWithoutMap, Less
  <2>2. QED
    BY <1>6, <2>1, CleanerFacts DEF TailRecs
<1>8. FlagTypes' /\ FileTypes'
  BY <1>1, <1>3, <1>6, <1>7 DEF LogInv, Types, FlagTypes, FileTypes
<1>9. SameStages /\ Frees /\ CleanOK' /\ Mutual'
  BY <1>1, <1>7 DEF SameStages, Frees, Free, FreeOf, LogInv, Space, CleanOK, Regions, Mutual
<1>10. JobOK'
  <2>1. JobOK /\ pc[Cleaner] \in Cleaning
    BY <1>1 DEF LogInv, Space, Cleaning
  <2>2. CASE job'.read = job.read /\ UNCHANGED <<mapAddr, cp>>
    BY <1>2, <1>4, <1>5, <2>1, <2>2 DEF JobOK, Reads
  <2>3. CASE /\ job'.read = Append(job.read, s) /\ file' = [f \in Files |-> Cleaned(f, s)]
             /\ mapAddr[1] = s => mapAddr' = Nil
             /\ mapAddr[1] # s => mapAddr' = mapAddr
    <3>1. Reads' = Reads \cup {s} /\ IsInjective(job'.read)
      <4>1. s \notin ToSet(job.read)
        BY <1>2, <2>1 DEF JobOK, Reads
      <4>2. QED
        BY <1>2, <2>1, <2>3, <4>1, CleanerFacts, AppendSet DEF JobOK, Reads
    <3>2. mapAddr'[1] # s /\ \A r \in Reads : mapAddr'[1] # r
      <4>1. Reads \subseteq Segs
        BY CleanerFacts, SetOfSeq DEF Reads
      <4>2. QED
        BY <1>2, <2>1, <2>3, <4>1, AddrFacts DEF JobOK
    <3>3. \A f \in Files : /\ file[f].daddr[1] = s => file'[f].dirty
                           /\ file[f].iaddr[1] = s => file'[f].desc
      BY <1>2, <2>3, CleanedFacts
    <3>4. QED
      BY <1>2, <1>4, <1>5, <1>7, <2>1, <3>1, <3>2, <3>3 DEF JobOK
  <2>4. QED
    BY <1>5, <2>2, <2>3
<1>11. FilesStored'
  <2>1. ASSUME NEW f \in Files
        PROVE  FileStored(f)'
    <3>1. FileStored(f) /\ \A a, b : Stored(a, b)' <=> Stored(a, b)
      BY <1>1, FileFacts, SameStored
    <3>2. file[f].ver = 0 => ~file'[f].dirty /\ ~file'[f].desc
      BY <1>2, <1>4, <3>1, AddrFacts DEF FileStored
    <3>3. QED
      BY <1>1, <1>4, <3>1, <3>2 DEF FileStored
  <2>2. QED
    BY <2>1 DEF FilesStored
<1>12. UsageAgrees'
  <2>1. CASE UNCHANGED <<mapAddr, cp>>
    <3>1. \A a : a \in Live' <=> a \in Live
      BY <1>4, <2>1 DEF Live, MapCells
    <3>2. Live' = Live
      BY <3>1
    <3>3. QED
      BY <2>1, <3>2 DEF LogInv, UsageAgrees
  <2>2. CASE mapAddr' = Nil /\ cp' = [cp EXCEPT !.usage = UsageWithoutMap]
    <3>1. cp'.usage = UsageWithoutMap
      BY <2>2, CleanerFacts DEF TailRecs
    <3>2. QED
      BY <1>4, <1>7, <2>2, <3>1, DropMap
  <2>3. QED
    BY <1>6, <2>1, <2>2
<1>13. \A f \in Files : file[f].ver <= file'[f].ver
  BY <1>4, FileFacts
<1>14. QED
  BY <1>1, <1>4, <1>5, <1>6, <1>8, <1>9, <1>10, <1>11, <1>12, <1>13, CleanerFacts, QuietStep

LEMMA MarkSegsCleanInv ==
    ASSUME LogInv, FollowGaps = {}, MarkSegsClean
    PROVE  LogInv'
<1>1. /\ NoGap /\ pc[Cleaner] = "mark"
      /\ UNCHANGED <<disk, area, nextArea, ts, file, checked, numDirty, writeActive, ckptWait,
                     out, ck, job, uses>>
  BY FollowedNoGap DEF MarkSegsClean, Running
<1>2. CASE job.read = <<>>
  <2>1. pc' = [pc EXCEPT ![Cleaner] = "again"] /\ UNCHANGED fsVars
    BY <1>1, <1>2 DEF MarkSegsClean, fsVars
  <2>2. pc' \in [Procs -> Stages] /\ pc'[Cleaner] = "again" /\ \A p \in Procs \ {Cleaner} : pc'[p] = pc[p]
    BY <2>1, CleanerFacts, ProcFacts DEF Stages
  <2>3. SameStages /\ pc'[Cleaner] \notin Cleaning /\ Mutual'
    BY <1>1, <2>2, CleanerFacts, ProcFacts DEF SameStages, Cleaning, Mutual
  <2>4. QED
    BY <1>1, <2>1, <2>2, <2>3, CleanerFacts, PcStep
<1>3. CASE job.read # <<>>
  <2>1. /\ cp.clean # <<>> /\ mapAddr' = Nil
        /\ cp' = [cp EXCEPT !.usage = UsageWithoutMap,
                            !.clean = <<Head(@)>> \o Reverse(job.read) \o Tail(@)]
        /\ pc' = Broadcast([pc EXCEPT ![Cleaner] = "again"])
    BY <1>3 DEF MarkSegsClean
  <2> DEFINE list == <<Head(cp.clean)>> \o Reverse(job.read) \o Tail(cp.clean)
  <2>2. list \in Seq(Segs) /\ IsInjective(list) /\ \A x : x \in ToSet(list) <=> x \in ToSet(cp.clean) \cup Reads
    <3>1. IsInjective(cp.clean) /\ IsInjective(job.read) /\ \A x \in ToSet(job.read) : x \notin ToSet(cp.clean)
      BY <1>1 DEF LogInv, Space, CleanOK, JobOK, Cleaning, Reads
    <3>2. QED
      BY <2>1, <3>1, CleanerFacts, MarkedList DEF Reads
  <2> HIDE DEF list
  <2>3. /\ cp' \in TailRecs /\ cp'.cur = cp.cur /\ cp'.off = cp.off /\ cp'.clean = list
        /\ cp'.usage = UsageWithoutMap
    <3>1. UsageWithoutMap \in [Segs -> Nat]
      BY CleanerFacts, LfsAssumption DEF UsageWithoutMap, Less
    <3>2. cp' = [cp EXCEPT !.usage = UsageWithoutMap, !.clean = list]
      BY <2>1, CleanerFacts DEF list
    <3>3. QED
      BY <2>2, <3>1, <3>2, CleanerFacts DEF TailRecs
  <2>4. FlagTypes' /\ FileTypes'
    BY <1>1, <2>1, <2>3, CleanerFacts DEF LogInv, Types, FlagTypes, FileTypes
  <2>5. /\ pc' \in [Procs -> Stages] /\ pc'[Cleaner] = "again"
        /\ \A p \in Procs \ {Cleaner} : \/ pc'[p] = pc[p]
                                        \/ pc[p] = "segwait" /\ pc'[p] = "segretry"
    BY <2>1, CleanerFacts, ProcFacts DEF Stages, Broadcast
  <2>6. SameStages
    BY <1>1, <2>5 DEF SameStages
  <2>7. JobOK' /\ Mutual'
    BY <2>5, CleanerFacts, ProcFacts DEF JobOK, Mutual, Working, Cleaning
  <2>8. Frees
    BY <1>1, <2>2, <2>3 DEF Frees, Free, FreeOf
  <2>9. CleanOK'
    BY <1>1, <2>2, <2>3 DEF LogInv, Space, CleanOK, JobOK, Cleaning
  <2>10. FilesStored'
    BY <1>1, SameStored DEF LogInv, Contents, FilesStored, FileStored
  <2>11. UsageAgrees'
    BY <1>1, <2>1, <2>2, <2>3, DropMap
  <2>12. \A f \in Files : file[f].ver <= file'[f].ver
    BY <1>1, FileFacts
  <2>13. QED
    BY <1>1, <2>1, <2>4, <2>5, <2>6, <2>7, <2>8, <2>9, <2>10, <2>11, <2>12, CleanerFacts, QuietStep
<1>4. QED
  BY <1>2, <1>3
-----------------------------------------------------------------------------
(* The end of the write of a checkpoint region.                            *)

\* Only the first five fields of a region count.
LEMMA RegionSame ==
    ASSUME NEW d, NEW r, NEW x, x.map = r.map, x.cur = r.cur, x.off = r.off, x.used = r.used,
           x.want = r.want
    PROVE  /\ RegionOK(d, r) => RegionOK(d, x)
           /\ Referred(d, r) = Referred(d, x) /\ (RegionKept(d, r) => RegionKept(d, x))
<1>1. Referred(d, r) = Referred(d, x)
  BY DEF Referred
<1>2. \A f \in Files : RegionFile(d, r, f) => RegionFile(d, x, f)
  BY DEF RegionFile
<1>3. QED
  BY <1>1, <1>2 DEF RegionOK, RegionKept

\* A process that writes no segment sees the disk.
LEMMA ViewDisk ==
    ASSUME LogInv, NEW p \in Procs, pc[p] # "out", NEW r, RegionOK(View(p), r),
           r.want \in [Files -> Nat]
    PROVE  RegionOK(disk, r) /\ Referred(disk, r) = Referred(View(p), r)
<1>1. Flying(p) = {}
  BY DEF LogInv, Space, FlyingKept
<1>2. \A a \in Referred(View(p), r) : a \in Addrs
  BY ReferredFacts
<1>3. \A a \in Referred(View(p), r) : disk[a] = View(p)[a]
  BY <1>1, <1>2 DEF View
<1>4. QED
  BY <1>3, RegionFrame

LEMMA AreaFacts ==
    ASSUME LogInv
    PROVE  /\ area \in [0 .. 1 -> AreaRecs] /\ nextArea \in 0 .. 1 /\ 1 - nextArea \in 0 .. 1
           /\ nextArea # 1 - nextArea /\ 1 - (1 - nextArea) = nextArea /\ ts \in Nat
           /\ area[nextArea] \in AreaRecs /\ Done \in AreaRecs
           /\ ck \in [Procs -> CkRecs \cup {NoRegion}]
           /\ \A p \in Procs : Filled(p) => ck[p] \in CkRecs /\ ck[p].want \in [Files -> Nat]
<1>1. /\ area \in [0 .. 1 -> AreaRecs] /\ nextArea \in 0 .. 1 /\ ts \in Nat
      /\ ck \in [Procs -> CkRecs \cup {NoRegion}]
      /\ \A p \in Procs : Filled(p) => ck[p] \in CkRecs
  BY DEF LogInv, Types, AreaTypes
<1>2. 1 - nextArea \in 0 .. 1 /\ nextArea # 1 - nextArea /\ 1 - (1 - nextArea) = nextArea
  BY <1>1
<1>3. \A r \in CkRecs : r.want \in [Files -> Nat]
  BY DEF CkRecs
<1>4. QED
  BY <1>1, <1>2, <1>3 DEF Done

\* The regions that are filled in, one at the disk and one that waits for it.
LEMMA RegionDoneStages ==
    ASSUME LogInv, NoGap, NEW p \in Procs, RegionDone(p)
    PROVE  /\ pc' \in [Procs -> Stages] /\ pc[p] = "region"
           /\ pc'[p] = IF p = Cleaner THEN "mark" ELSE "idle"
           /\ ~Filled(p)' /\ \A x \in Procs : Filled(x)' <=> Filled(x) /\ x # p
           /\ \A x \in Procs \ {p} : /\ pc'[x] \in {"region", "lock"} <=> pc[x] \in {"region", "lock"}
                                     /\ pc'[x] = "out" <=> pc[x] = "out"
                                     /\ pc'[x] \notin {"region", "segretry"} => pc'[x] = pc[x]
                                     /\ pc'[x] = "segretry" => pc[x] \in {"segwait", "segretry"}
           /\ \A x \in Procs \ {p} : pc[x] # "region"
           /\ \A x, y \in Procs \ {p} : pc'[x] = "region" /\ pc'[y] \in {"lock", "region"} => x = y
           /\ \/ /\ \A x \in Procs : pc'[x] # "region" /\ pc[x] # "lock"
                 /\ ts' = ts /\ area' = [area EXCEPT ![nextArea].ok = TRUE]
              \/ \E q \in Procs : /\ pc[q] = "lock" /\ pc'[q] = "region" /\ q # p
                                  /\ StartRegion(q, [area EXCEPT ![nextArea].ok = TRUE], 1 - nextArea)
<1> DEFINE done == [pc EXCEPT ![p] = IF p = Cleaner THEN "mark" ELSE "idle"]
           woken == IF p = Cleaner THEN Broadcast(done) ELSE done
           areas == [area EXCEPT ![nextArea].ok = TRUE]
<1>1. /\ pc[p] = "region" /\ UNCHANGED <<out, job>>
      /\ \/ /\ {q \in Procs : pc[q] = "lock"} = {}
            /\ area' = areas /\ pc' = woken /\ ts' = ts
         \/ \E q \in {q \in Procs : pc[q] = "lock"} :
                StartRegion(q, areas, 1 - nextArea) /\ pc' = [woken EXCEPT ![q] = "region"]
  BY DEF RegionDone
<1>2. pc \in [Procs -> Stages] /\ Apart
  BY DEF LogInv, Types, ProcTypes, Regions
<1>3. /\ done \in [Procs -> Stages] /\ done[p] = IF p = Cleaner THEN "mark" ELSE "idle"
      /\ \A x \in Procs \ {p} : done[x] = pc[x]
  BY <1>2 DEF Stages
<1> HIDE DEF done
<1>4. /\ woken \in [Procs -> Stages] /\ woken[p] = IF p = Cleaner THEN "mark" ELSE "idle"
      /\ \A x \in Procs \ {p} : woken[x] = pc[x] \/ (pc[x] = "segwait" /\ woken[x] = "segretry")
  BY <1>3 DEF Broadcast, Stages
<1> HIDE DEF woken, areas
<1>5. \A x, y \in Procs : x # y /\ pc[x] \in {"lock", "region"} => pc[x] # pc[y]
  BY <1>2 DEF Apart, Filled
<1>6. CASE {q \in Procs : pc[q] = "lock"} = {} /\ area' = areas /\ pc' = woken /\ ts' = ts
  <2>1. \A x \in Procs : pc[x] # "lock"
    BY <1>6
  <2>2. \A x \in Procs : Filled(x)' <=> Filled(x) /\ x # p
    BY <1>1, <1>4, <1>6 DEF Filled, IsCkpt
  <2>3. QED
    BY <1>1, <1>4, <1>5, <1>6, <2>1, <2>2 DEF areas
<1>7. CASE \E q \in Procs : /\ pc[q] = "lock" /\ StartRegion(q, areas, 1 - nextArea)
                            /\ pc' = [woken EXCEPT ![q] = "region"]
  <2>1. PICK q \in Procs : /\ pc[q] = "lock" /\ StartRegion(q, areas, 1 - nextArea)
                           /\ pc' = [woken EXCEPT ![q] = "region"]
    BY <1>7
  <2>2. /\ pc' \in [Procs -> Stages] /\ pc'[q] = "region" /\ q # p
        /\ \A x \in Procs \ {q} : pc'[x] = woken[x]
    BY <1>1, <1>4, <2>1 DEF Stages
  <2>3. /\ pc'[p] = IF p = Cleaner THEN "mark" ELSE "idle"
        /\ \A x \in Procs \ {p, q} : pc'[x] = pc[x] \/ (pc[x] = "segwait" /\ pc'[x] = "segretry")
    BY <1>4, <2>2
  <2>4. \A x \in Procs \ {p} : pc[x] # "region" /\ (pc[x] = "lock" => x = q)
    BY <1>1, <1>5, <2>1
  <2>5. \A x \in Procs : Filled(x)' <=> Filled(x) /\ x # p
    BY <1>1, <2>1, <2>2, <2>3 DEF Filled, IsCkpt
  <2>6. \A x \in Procs \ {p} : /\ pc'[x] \in {"region", "lock"} <=> pc[x] \in {"region", "lock"}
                               /\ pc'[x] = "out" <=> pc[x] = "out"
                               /\ pc'[x] \notin {"region", "segretry"} => pc'[x] = pc[x]
                               /\ pc'[x] = "segretry" => pc[x] \in {"segwait", "segretry"}
    BY <2>1, <2>2, <2>3, <2>4
  <2>7. \A x, y \in Procs \ {p} : pc'[x] = "region" /\ pc'[y] \in {"lock", "region"} => x = y
    BY <2>2, <2>3, <2>4
  <2>8. QED
    BY <1>1, <2>1, <2>2, <2>3, <2>4, <2>5, <2>6, <2>7 DEF areas
<1>8. QED
  BY <1>1, <1>6, <1>7

\* The region that is now the last one.
LEMMA RegionDoneArea ==
    ASSUME LogInv, NoGap, NEW p \in Procs, RegionDone(p)
    PROVE  /\ area' \in [0 .. 1 -> AreaRecs] /\ nextArea' = 1 - nextArea /\ ts' \in Nat
           /\ Done'.ok /\ Done'.ts = ts /\ ts <= ts'
           /\ Done'.map = ck[p].map /\ Done'.cur = ck[p].cur /\ Done'.off = ck[p].off
           /\ Done'.used = ck[p].used /\ Done'.want = ck[p].want
           /\ (\A x \in Procs : pc'[x] # "region") => area'[nextArea'] = Done
           /\ \A x \in Procs : pc'[x] = "region" =>
                LET r == area'[nextArea'] IN
                /\ r.ts = ts' /\ ts' = ts + 1 /\ ~r.ok
                /\ r.map = ck[x].map /\ r.cur = ck[x].cur /\ r.off = ck[x].off
                /\ r.used = ck[x].used /\ r.want = ck[x].want
<1> DEFINE areas == [area EXCEPT ![nextArea].ok = TRUE]
<1>1. nextArea' = 1 - nextArea /\ pc[p] = "region"
  BY DEF RegionDone
<1>2. /\ area[nextArea].ts = ts /\ area[nextArea].map = ck[p].map /\ area[nextArea].cur = ck[p].cur
      /\ area[nextArea].off = ck[p].off /\ area[nextArea].used = ck[p].used
      /\ area[nextArea].want = ck[p].want
  BY <1>1 DEF LogInv, Regions, RegionStarted
<1>3. /\ areas \in [0 .. 1 -> AreaRecs] /\ areas[nextArea] = [area[nextArea] EXCEPT !.ok = TRUE]
      /\ areas[1 - nextArea] = Done
  BY AreaFacts DEF AreaRecs, Done
<1>4. /\ areas[nextArea].ok /\ areas[nextArea].ts = ts /\ areas[nextArea].map = ck[p].map
      /\ areas[nextArea].cur = ck[p].cur /\ areas[nextArea].off = ck[p].off
      /\ areas[nextArea].used = ck[p].used /\ areas[nextArea].want = ck[p].want
  BY <1>2, <1>3, AreaFacts DEF AreaRecs
<1> HIDE DEF areas
<1>5. CASE (\A x \in Procs : pc'[x] # "region") /\ ts' = ts /\ area' = areas
  <2>1. Done' = areas[nextArea]
    BY <1>1, <1>5, AreaFacts DEF Done
  <2>2. area'[nextArea'] = Done
    BY <1>1, <1>3, <1>5
  <2>3. QED
    BY <1>1, <1>3, <1>4, <1>5, <2>1, <2>2, AreaFacts
<1>6. ASSUME NEW q \in Procs, pc[q] = "lock", pc'[q] = "region", q # p,
             StartRegion(q, areas, 1 - nextArea)
      PROVE  /\ area' \in [0 .. 1 -> AreaRecs] /\ nextArea' = 1 - nextArea /\ ts' \in Nat
             /\ Done' = areas[nextArea] /\ ts <= ts'
             /\ LET r == area'[nextArea'] IN
                /\ r.ts = ts' /\ ts' = ts + 1 /\ ~r.ok
                /\ r.map = ck[q].map /\ r.cur = ck[q].cur /\ r.off = ck[q].off
                /\ r.used = ck[q].used /\ r.want = ck[q].want
  <2> DEFINE r == [map |-> ck[q].map, cur |-> ck[q].cur, off |-> ck[q].off, used |-> ck[q].used,
                   want |-> ck[q].want, gap |-> ck[q].gap, ts |-> ts + 1, ok |-> FALSE]
  <2>1. ck[q] \in CkRecs
    BY <1>6, AreaFacts DEF Filled
  <2>2. r \in AreaRecs
    BY <2>1, AreaFacts DEF CkRecs, AreaRecs
  <2>3. ts' = ts + 1 /\ area' = [areas EXCEPT ![1 - nextArea] = r]
    BY <1>6 DEF StartRegion
  <2> HIDE DEF r
  <2>4. /\ area' \in [0 .. 1 -> AreaRecs] /\ area'[1 - nextArea] = r
        /\ area'[nextArea] = areas[nextArea]
    BY <1>3, <2>2, <2>3, AreaFacts
  <2>5. Done' = areas[nextArea] /\ area'[nextArea'] = r
    BY <1>1, <2>4, AreaFacts DEF Done
  <2>6. QED
    BY <1>1, <2>3, <2>4, <2>5, AreaFacts DEF r
<1>7. \A x, y \in Procs : pc'[x] = "region" /\ pc'[y] = "region" => x = y
  BY RegionDoneStages
<1>8. CASE \E q \in Procs : /\ pc[q] = "lock" /\ pc'[q] = "region" /\ q # p
                            /\ StartRegion(q, areas, 1 - nextArea)
  BY <1>4, <1>6, <1>7, <1>8
<1>9. QED
  BY <1>5, <1>8, RegionDoneStages DEF areas

LEMMA RegionDoneInv ==
    ASSUME LogInv, FollowGaps = {}, NEW p \in Procs, RegionDone(p)
    PROVE  LogInv'
<1>1. /\ NoGap /\ ckptWait' = FALSE /\ numDirty' = 0 /\ ck' = [ck EXCEPT ![p] = NoRegion]
      /\ UNCHANGED <<disk, file, mapAddr, checked, cp, writeActive, out, job, uses>>
  BY FollowedNoGap DEF RegionDone, Running
<1>2. /\ pc' \in [Procs -> Stages] /\ pc[p] = "region" /\ Filled(p)
      /\ pc'[p] = IF p = Cleaner THEN "mark" ELSE "idle"
      /\ \A x \in Procs : Filled(x)' <=> Filled(x) /\ x # p
      /\ \A x \in Procs \ {p} : /\ pc'[x] \in {"region", "lock"} <=> pc[x] \in {"region", "lock"}
                                /\ pc'[x] = "out" <=> pc[x] = "out"
                                /\ pc'[x] \notin {"region", "segretry"} => pc'[x] = pc[x]
                                /\ pc'[x] = "segretry" => pc[x] \in {"segwait", "segretry"}
      /\ \A x \in Procs \ {p} : pc[x] # "region"
      /\ \A x, y \in Procs \ {p} : pc'[x] = "region" /\ pc'[y] \in {"lock", "region"} => x = y
  BY <1>1, RegionDoneStages DEF Filled
<1>3. /\ NoGap' /\ \A x \in Procs \ {p} : ck'[x] = ck[x]
      /\ \A x \in Procs : View(x)' = View(x) /\ Flying(x)' = Flying(x)
  BY <1>1, AreaFacts DEF NoGap, NoRegion, View, Flying
<1>4. Types'
  <2>1. FlagTypes' /\ FileTypes' /\ ProcTypes'
    BY <1>1, <1>2 DEF LogInv, Types, FlagTypes, FileTypes, ProcTypes
  <2>2. AreaTypes'
    BY <1>1, <1>2, <1>3, RegionDoneArea, AreaFacts DEF AreaTypes
  <2>3. QED
    BY <2>1, <2>2 DEF Types
<1>5. Live' = Live
  BY <1>1 DEF Live, MapCells
<1>6. Space'
  <2>1. CleanOK' /\ Distinct'
    BY <1>1 DEF LogInv, Space, CleanOK, Distinct, MapCells
  <2>2. LiveKept'
    BY <1>1, <1>5 DEF LogInv, Space, LiveKept, Free
  <2>3. FlyingKept'
    <3>1. \A x \in Procs : pc'[x] # "out" => Flying(x)' = {}
      BY <1>2, <1>3 DEF LogInv, Space, FlyingKept
    <3>2. QED
      BY <1>1, <1>3, <3>1 DEF LogInv, Space, FlyingKept, Free
  <2>4. JobOK'
    <3>1. pc'[Cleaner] \in Cleaning => pc[Cleaner] \in Cleaning
      BY <1>2, ProcFacts DEF Cleaning
    <3>2. QED
      BY <1>1, <3>1 DEF LogInv, Space, JobOK, Reads
  <2>5. QED
    BY <2>1, <2>2, <2>3, <2>4 DEF Space
<1>7. Contents'
  BY <1>1, SameStored DEF LogInv, Contents, FilesStored, FileStored, MapStored, MapIs
<1>8. UsageAgrees'
  BY <1>1, <1>5 DEF LogInv, UsageAgrees
<1>9. /\ RegionOK(disk, Done') /\ Referred(disk, Done') = Referred(View(p), ck[p])
      /\ RegionKept(disk, Done')
  <2>1. RegionOK(View(p), ck[p]) /\ RegionKept(View(p), ck[p])
    BY <1>1, <1>2 DEF LogInv, Regions, CkptsOK
  <2>2. RegionOK(disk, ck[p]) /\ Referred(disk, ck[p]) = Referred(View(p), ck[p])
    BY <1>2, <2>1, ViewDisk, AreaFacts
  <2>3. RegionKept(disk, ck[p])
    BY <2>1, <2>2 DEF RegionKept
  <2>4. QED
    BY <1>1, <2>2, <2>3, RegionSame, RegionDoneArea
<1>10. Regions'
  <2>1. DoneOK'
    <3>1. Done'.ok /\ Done'.ts <= ts'
      BY <1>1, RegionDoneArea
    <3>2. area'[nextArea'].ok => area'[nextArea'].ts < Done'.ts
      <4>1. ts > Done.ts
        BY <1>2 DEF LogInv, Regions, RegionStarted
      <4>2. QED
        BY <1>1, <4>1, RegionDoneArea
    <3>3. RegionKept(disk, Done)'
      BY <1>1, <1>9 DEF RegionKept, Free
    <3>4. QED
      BY <1>1, <1>9, <3>1, <3>2, <3>3 DEF DoneOK
  <2>2. CkptsOK'
    BY <1>1, <1>2, <1>3 DEF LogInv, Regions, CkptsOK, RegionKept, Free
  <2>3. RegionStarted'
    BY <1>1, <1>2, <1>3, RegionDoneArea, AreaFacts DEF RegionStarted
  <2>4. Mutual'
    <3>1. \A x \in Procs : pc'[x] \in Working => pc[x] \in Working
      BY <1>2 DEF Working
    <3>2. QED
      BY <3>1, ProcFacts DEF LogInv, Regions, Mutual
  <2>5. Apart'
    BY <1>1, <1>2 DEF LogInv, Regions, Apart, Filled
  <2>6. \A x, y \in Procs : /\ Filled(x)' /\ Filled(y)' /\ Earlier(x, y)'
                            => Filled(x) /\ Filled(y) /\ Earlier(x, y) /\ x # p /\ y # p
    BY <1>2 DEF Earlier, Filled
  <2>7. \A x \in Procs : Filled(x)' => x # p /\ Filled(x) /\ Earlier(p, x)
    BY <1>2 DEF Earlier, Filled
  <2>8. InOrder'
    <3>1. NotAfter(Done.want, ck[p].want) /\ NotAfterFiles(ck[p].want)
      BY <1>2 DEF LogInv, Regions, InOrder
    <3>2. area'[nextArea'].ok => NotAfter(area'[nextArea'].want, Done'.want)
      BY <1>1, <3>1, RegionDoneArea
    <3>3. NotAfterFiles(Done.want)'
      BY <1>1, <3>1, RegionDoneArea DEF NotAfterFiles
    <3>4. ASSUME NEW x \in Procs, Filled(x)'
          PROVE  NotAfter(Done'.want, ck'[x].want) /\ NotAfterFiles(ck[x].want)'
      <4>1. NotAfter(ck[p].want, ck[x].want) /\ NotAfterFiles(ck[x].want) /\ ck'[x] = ck[x]
        BY <1>1, <1>2, <1>3, <2>7, <3>4 DEF LogInv, Regions, InOrder
      <4>2. QED
        BY <1>1, <4>1, RegionDoneArea DEF NotAfterFiles
    <3>5. \A x, y \in Procs : Filled(x)' /\ Filled(y)' /\ Earlier(x, y)'
                                => NotAfter(ck'[x].want, ck'[y].want)
      BY <1>1, <1>3, <2>6 DEF LogInv, Regions, InOrder
    <3>6. QED
      BY <3>2, <3>3, <3>4, <3>5 DEF InOrder, NotAfter
  <2>9. Moved'
    <3>1. SUFFICES ASSUME pc'[Cleaner] = "mark" \/ Filled(Cleaner)'
                   PROVE  /\ Avoids(Live)' /\ \A x \in Procs : Avoids(Flying(x))'
                          /\ pc'[Cleaner] = "mark" => Avoids(Referred(disk, Done))'
                          /\ \A x \in Procs :
                                /\ Filled(x)'
                                /\ pc'[Cleaner] = "mark" \/ x = Cleaner \/ Earlier(Cleaner, x)'
                                => Avoids(Referred(View(x), ck[x]))'
      BY DEF Moved
    <3>2. Reads' = Reads /\ \A S : Avoids(S) <=> \A a \in S : a[1] \notin Reads
      BY <1>1 DEF Reads, Avoids
    <3>3. /\ pc[Cleaner] = "mark" \/ Filled(Cleaner)
          /\ pc'[Cleaner] = "mark" => p = Cleaner \/ pc[Cleaner] = "mark"
      BY <1>2, <3>1, ProcFacts
    <3>4. Avoids(Live)' /\ \A x \in Procs : Avoids(Flying(x))'
      BY <1>1, <1>3, <1>5, <3>2, <3>3 DEF LogInv, Regions, Moved, Avoids
    <3>5. ASSUME pc'[Cleaner] = "mark"
          PROVE  Avoids(Referred(disk, Done))'
      <4>1. Avoids(Referred(View(p), ck[p]))
        BY <1>1, <1>2, <3>3, <3>5 DEF LogInv, Regions, Moved
      <4>2. QED
        BY <1>1, <1>9, <3>2, <4>1 DEF Avoids
    <3>6. ASSUME NEW x \in Procs, Filled(x)',
                 pc'[Cleaner] = "mark" \/ x = Cleaner \/ Earlier(Cleaner, x)'
          PROVE  Avoids(Referred(View(x), ck[x]))'
      <4>1. Avoids(Referred(View(x), ck[x])) /\ ck'[x] = ck[x]
        BY <1>1, <1>2, <1>3, <2>6, <2>7, <3>1, <3>3, <3>6, ProcFacts DEF LogInv, Regions, Moved
      <4>2. QED
        BY <1>3, <3>2, <4>1 DEF Avoids
    <3>7. QED
      BY <3>4, <3>5, <3>6
  <2>10. Waiting'
    <3>1. pc'[Writer] \notin {"lock", "region"}
      BY <1>2, ProcFacts DEF LogInv, Regions, Waiting
    <3>2. ASSUME NEW x \in Procs, pc'[x] = "lock"
          PROVE  \E q \in Procs : pc'[q] = "region"
      <4>1. pc[x] = "lock"
        BY <1>2, <3>2
      <4>2. QED
        BY <1>1, <1>2, <3>2, <4>1, RegionDoneStages
    <3>3. QED
      BY <3>1, <3>2 DEF Waiting
  <2>11. QED
    BY <2>1, <2>2, <2>3, <2>4, <2>5, <2>8, <2>9, <2>10 DEF Regions
<1>11. QED
  BY <1>4, <1>6, <1>7, <1>8, <1>10 DEF LogInv
-----------------------------------------------------------------------------
(* The end of the write of a segment.                                      *)

\* What becomes of the blocks.
LEMMA WriteDoneDisk ==
    ASSUME LogInv, NEW p \in Procs, WriteDone(p)
    PROVE  /\ Flying(p)' = {} /\ \A q \in Procs \ {p} : out'[q] = out[q] /\ Flying(q)' = Flying(q)
           /\ DOMAIN out' = Procs
           /\ \A a \in Addrs : disk'[a] = IF a \in Flying(p) THEN out[p].blocks[a] ELSE disk[a]
           /\ \A a \in Addrs : disk[a].kind # "none" => disk'[a] = disk[a]
           /\ \A a \in Addrs : \A b : Stored(a, b) /\ b.kind # "none" => Stored(a, b)'
           /\ \A q \in Procs : \A a \in Flying(q)' : disk'[a] = NoBlock
<1>1. /\ out' = [out EXCEPT ![p] = NoOut] /\ DOMAIN out = Procs
      /\ disk' = [a \in Addrs |-> IF a \in Flying(p) THEN out[p].blocks[a] ELSE disk[a]]
  BY DEF WriteDone, Flying, LogInv, Types, ProcTypes
<1>2. Flying(p)' = {} /\ DOMAIN out' = Procs
  BY <1>1 DEF Flying, NoOut
<1>3. \A q \in Procs \ {p} : out'[q] = out[q] /\ Flying(q)' = Flying(q)
  BY <1>1 DEF Flying
<1>4. /\ \A q \in Procs : \A a \in Flying(q) : a \in Addrs /\ disk[a] = NoBlock
      /\ \A q \in Procs : q # p => Flying(p) \cap Flying(q) = {}
  BY DEF LogInv, Space, FlyingKept
<1>5. \A a \in Addrs : disk[a].kind # "none" => disk'[a] = disk[a]
  BY <1>1, <1>4 DEF NoBlock
<1>6. ASSUME NEW a \in Addrs, NEW b, Stored(a, b), b.kind # "none"
      PROVE  Stored(a, b)'
  <2>1. CASE disk[a] = b
    BY <1>5, <1>6, <2>1 DEF Stored
  <2>2. ASSUME NEW q \in Procs, a \in Flying(q), out[q].blocks[a] = b
        PROVE  Stored(a, b)'
    <3>1. CASE q = p
      BY <1>1, <2>2, <3>1 DEF Stored
    <3>2. CASE q # p
      <4>1. a \in Flying(q)' /\ out'[q].blocks[a] = b
        BY <1>3, <2>2, <3>2
      <4>2. QED
        BY <4>1 DEF Stored
    <3>3. QED
      BY <3>1, <3>2
  <2>3. QED
    BY <1>6, <2>1, <2>2 DEF Stored
<1>7. \A q \in Procs : \A a \in Flying(q)' : disk'[a] = NoBlock
  BY <1>1, <1>2, <1>3, <1>4
<1>8. QED
  BY <1>1, <1>2, <1>3, <1>5, <1>6, <1>7

LEMMA WriteDoneFiles ==
    ASSUME LogInv, NEW p \in Procs, WriteDone(p)
    PROVE  /\ file' \in [Files -> FileRecs]
           /\ \A f \in Files :
                /\ file'[f].daddr = file[f].daddr /\ file'[f].iaddr = file[f].iaddr
                /\ file'[f].ver = file[f].ver /\ file'[f].held = file[f].held
                /\ file'[f].dirty = file[f].dirty /\ file'[f].desc = file[f].desc
<1>1. \A f \in Files : file'[f] = file[f] \/ file'[f] = [file[f] EXCEPT !.fclean = FALSE]
  BY DEF WriteDone
<1>2. file' = [f \in Files |-> file'[f]]
  BY DEF WriteDone
<1>3. ASSUME NEW f \in Files
      PROVE  /\ file'[f] \in FileRecs
             /\ file'[f].daddr = file[f].daddr /\ file'[f].iaddr = file[f].iaddr
             /\ file'[f].ver = file[f].ver /\ file'[f].held = file[f].held
             /\ file'[f].dirty = file[f].dirty /\ file'[f].desc = file[f].desc
  BY <1>1, FileFacts, ZenonT(60) DEF FileRecs
<1>4. QED
  BY <1>2, <1>3

\* Where the process goes on.
LEMMA WriteDoneStages ==
    ASSUME LogInv, NEW p \in Procs, WriteDone(p)
    PROVE  /\ pc' \in [Procs -> Stages] /\ pc[p] = "out" /\ \A x \in Procs \ {p} : pc'[x] = pc[x]
           /\ pc'[p] \in {"create", "idle", "in", "lock", "region"}
           /\ pc'[p] \in {"idle", "in"} => p \notin CkptProcs
           /\ pc'[p] = "idle" => p # Cleaner
           /\ pc'[p] \in {"lock", "region"} <=> IsCkpt(p) /\ ~out[p].full
           /\ job' \in JobRecs /\ job'.read = job.read /\ job'.todo = job.todo
           /\ p # Cleaner => job' = job
           /\ pc'[p] = "lock" => \E q \in Procs : pc[q] = "region"
           /\ pc'[p] = "region" => /\ \A q \in Procs : pc[q] # "region"
                                   /\ StartRegion(p, area, nextArea)
           /\ pc'[p] # "region" => UNCHANGED <<ts, area>>
<1>1. pc \in [Procs -> Stages] /\ job \in JobRecs
  BY CleanerFacts
<1>2. CASE out[p].full /\ pc' = [pc EXCEPT ![p] = "create"] /\ UNCHANGED <<ts, area, job>>
  BY <1>1, <1>2, CleanerFacts DEF WriteDone, Stages
<1>3. CASE /\ ~out[p].full /\ ~IsCkpt(p)
           /\ \/ p = Writer /\ pc' = [pc EXCEPT ![p] = "idle"] /\ UNCHANGED job
              \/ /\ p = Cleaner /\ job.todo # <<>>
                 /\ pc' = [pc EXCEPT ![p] = "in"] /\ job' = [job EXCEPT !.live = FALSE]
              \/ /\ p = Cleaner
                 /\ pc' = [pc EXCEPT ![p] = "create"] /\ job' = [job EXCEPT !.layout = FALSE]
           /\ UNCHANGED <<ts, area>>
  <2>1. job' \in JobRecs /\ job'.read = job.read /\ job'.todo = job.todo /\ (p # Cleaner => job' = job)
    BY <1>1, <1>3, ProcFacts DEF JobRecs
  <2>2. QED
    BY <1>1, <1>3, <2>1, ProcFacts DEF WriteDone, Stages
<1>4. CASE /\ ~out[p].full /\ IsCkpt(p) /\ UNCHANGED job
           /\ IF \E q \in Procs : pc[q] = "region"
              THEN pc' = [pc EXCEPT ![p] = "lock"] /\ UNCHANGED <<ts, area>>
              ELSE pc' = [pc EXCEPT ![p] = "region"] /\ StartRegion(p, area, nextArea)
  BY <1>1, <1>4 DEF WriteDone, Stages
<1>5. QED
  BY <1>2, <1>3, <1>4 DEF WriteDone

LEMMA WriteDoneInv ==
    ASSUME LogInv, FollowGaps = {}, NEW p \in Procs, WriteDone(p)
    PROVE  LogInv'
<1>1. /\ NoGap /\ UNCHANGED <<nextArea, mapAddr, cp, numDirty, ckptWait, ck, uses>>
      /\ checked' \in {Nobody, checked} /\ writeActive' = FALSE
  BY FollowedNoGap DEF WriteDone, Running
<1> DEFINE Disks ==
             /\ Flying(p)' = {} /\ \A q \in Procs \ {p} : out'[q] = out[q] /\ Flying(q)' = Flying(q)
             /\ DOMAIN out' = Procs
             /\ \A a \in Addrs : disk'[a] = IF a \in Flying(p) THEN out[p].blocks[a] ELSE disk[a]
             /\ \A a \in Addrs : disk[a].kind # "none" => disk'[a] = disk[a]
             /\ \A a \in Addrs : \A b : Stored(a, b) /\ b.kind # "none" => Stored(a, b)'
             /\ \A q \in Procs : \A a \in Flying(q)' : disk'[a] = NoBlock
<1>2. Disks
  BY WriteDoneDisk
<1>3. /\ file' \in [Files -> FileRecs]
      /\ \A f \in Files :
                /\ file'[f].daddr = file[f].daddr /\ file'[f].iaddr = file[f].iaddr
                /\ file'[f].ver = file[f].ver /\ file'[f].held = file[f].held
                /\ file'[f].dirty = file[f].dirty /\ file'[f].desc = file[f].desc
  BY WriteDoneFiles
<1>4. /\ pc' \in [Procs -> Stages] /\ pc[p] = "out" /\ \A x \in Procs \ {p} : pc'[x] = pc[x]
      /\ pc'[p] \in {"create", "idle", "in", "lock", "region"}
      /\ pc'[p] \in {"idle", "in"} => p \notin CkptProcs
      /\ pc'[p] = "idle" => p # Cleaner
      /\ pc'[p] \in {"lock", "region"} <=> IsCkpt(p) /\ ~out[p].full
      /\ job' \in JobRecs /\ job'.read = job.read /\ job'.todo = job.todo
      /\ p # Cleaner => job' = job
      /\ pc'[p] = "lock" => \E q \in Procs : pc[q] = "region"
      /\ pc'[p] = "region" => /\ \A q \in Procs : pc[q] # "region"
                              /\ StartRegion(p, area, nextArea)
      /\ pc'[p] # "region" => UNCHANGED <<ts, area>>
  BY WriteDoneStages
<1>5. NoGap' /\ \A x \in Procs : Filled(x)' <=> Filled(x)
  <2>1. ASSUME NEW x \in Procs, x # p
        PROVE  Filled(x)' <=> Filled(x)
    BY <1>2, <1>4, <2>1 DEF Filled, IsCkpt
  <2>2. Filled(p)' <=> Filled(p)
    BY <1>4 DEF Filled
  <2>3. QED
    BY <1>1, <2>1, <2>2 DEF NoGap
<1>6. /\ area' \in [0 .. 1 -> AreaRecs] /\ ts' \in Nat /\ Done' = Done /\ ts <= ts'
      /\ pc'[p] # "region" => area' = area /\ ts' = ts
      /\ pc'[p] = "region" =>
            LET r == area'[nextArea] IN
            /\ r.ts = ts' /\ ts' = ts + 1 /\ ~r.ok
            /\ r.map = ck[p].map /\ r.cur = ck[p].cur /\ r.off = ck[p].off
            /\ r.used = ck[p].used /\ r.want = ck[p].want
  <2>1. CASE pc'[p] # "region"
    BY <1>1, <1>4, <2>1, AreaFacts DEF Done
  <2>2. CASE pc'[p] = "region"
    <3> DEFINE r == [map |-> ck[p].map, cur |-> ck[p].cur, off |-> ck[p].off, used |-> ck[p].used,
                     want |-> ck[p].want, gap |-> ck[p].gap, ts |-> ts + 1, ok |-> FALSE]
    <3>1. ck[p] \in CkRecs
      BY <1>4, <2>2, AreaFacts DEF Filled
    <3>2. r \in AreaRecs
      BY <3>1, AreaFacts DEF CkRecs, AreaRecs
    <3>3. ts' = ts + 1 /\ area' = [area EXCEPT ![nextArea] = r]
      BY <1>4, <2>2 DEF StartRegion
    <3> HIDE DEF r
    <3>4. area' \in [0 .. 1 -> AreaRecs] /\ area'[nextArea] = r /\ area'[1 - nextArea] = area[1 - nextArea]
      BY <3>2, <3>3, AreaFacts
    <3>5. QED
      BY <1>1, <2>2, <3>3, <3>4, AreaFacts DEF r, Done
  <2>3. QED
    BY <2>1, <2>2
<1>7. Types'
  <2>1. FlagTypes' /\ FileTypes' /\ ProcTypes'
    BY <1>1, <1>2, <1>3, <1>4 DEF LogInv, Types, FlagTypes, FileTypes, ProcTypes
  <2>2. AreaTypes'
    BY <1>1, <1>5, <1>6, AreaFacts DEF AreaTypes
  <2>3. QED
    BY <2>1, <2>2 DEF Types
<1>8. Live' = Live
  <2>1. \A a : a \in Live' <=> a \in Live
    BY <1>1, <1>3 DEF Live, MapCells
  <2>2. QED
    BY <2>1
<1>9. Space'
  <2>1. CleanOK' /\ Distinct'
    BY <1>1, <1>3 DEF LogInv, Space, CleanOK, Distinct, MapCells
  <2>2. LiveKept'
    BY <1>1, <1>8 DEF LogInv, Space, LiveKept, Free
  <2>3. FlyingKept'
    <3>1. \A x \in Procs : pc'[x] # "out" => Flying(x)' = {}
      BY <1>2, <1>4 DEF LogInv, Space, FlyingKept
    <3>2. \A x \in Procs : \A a \in Flying(x)' : a \in Addrs /\ ~Free(a)' /\ disk'[a] = NoBlock
      BY <1>1, <1>2 DEF LogInv, Space, FlyingKept, Free
    <3>3. \A x, y \in Procs : x # y => Flying(x)' \cap Flying(y)' = {}
      BY <1>2 DEF LogInv, Space, FlyingKept
    <3>4. QED
      BY <3>1, <3>2, <3>3 DEF FlyingKept
  <2>4. JobOK'
    <3>1. pc'[Cleaner] \in Cleaning => pc[Cleaner] \in Cleaning
      BY <1>4, ProcFacts DEF Cleaning
    <3>2. QED
      BY <1>1, <1>3, <1>4, <3>1 DEF LogInv, Space, JobOK, Reads
  <2>5. QED
    BY <2>1, <2>2, <2>3, <2>4 DEF Space
<1>10. Contents'
  <2>1. ASSUME NEW f \in Files
        PROVE  FileStored(f)'
    <3>1. FileStored(f) /\ file[f].daddr \in Addrs \cup {Nil} /\ file[f].iaddr \in Addrs \cup {Nil}
      BY FileFacts DEF FileRecs
    <3>2. \A v : DataBlock(f, v).kind # "none" /\ DescBlock(f, v).kind # "none"
      BY DEF DataBlock, DescBlock
    <3>3. QED
      BY <1>1, <1>2, <1>3, <3>1, <3>2 DEF FileStored
  <2>2. MapStored'
    <3>1. SUFFICES ASSUME mapAddr # Nil
                   PROVE  \E u \in [Segs -> Nat] : /\ Stored(mapAddr, MapIs(u))'
                                                   /\ \A s \in Segs : s # cp'.cur => u[s] = cp'.usage[s]
      BY <1>1 DEF MapStored
    <3>2. PICK u \in [Segs -> Nat] : /\ Stored(mapAddr, MapIs(u))
                                     /\ \A s \in Segs : s # cp.cur => u[s] = cp.usage[s]
      BY <3>1 DEF LogInv, Contents, MapStored
    <3>3. mapAddr \in Addrs
      BY <3>1, AddrFacts DEF LogInv, Types, FileTypes
    <3>4. MapIs(u)' = MapIs(u) /\ MapIs(u).kind # "none"
      BY <1>1, <1>3 DEF MapIs
    <3>5. Stored(mapAddr, MapIs(u))'
      BY <1>1, <1>2, <3>2, <3>3, <3>4 DEF Stored
    <3>6. QED
      BY <1>1, <3>2, <3>5
  <2>3. QED
    BY <2>1, <2>2 DEF Contents, FilesStored
<1>11. UsageAgrees'
  BY <1>1, <1>8 DEF LogInv, UsageAgrees
<1>12. RegionOK(disk', Done) /\ Referred(disk', Done) = Referred(disk, Done)
  <2>1. RegionOK(disk, Done) /\ Done.want \in [Files -> Nat]
    BY AreaFacts DEF LogInv, Regions, DoneOK, AreaRecs
  <2>2. \A a \in Referred(disk, Done) : disk[a].kind # "none" => disk'[a] = disk[a]
    BY <1>2, <2>1, ReferredFacts
  <2>3. QED
    BY <2>1, <2>2, RegionFrame
<1>13. ASSUME NEW x \in Procs, Filled(x)
       PROVE  /\ RegionOK(View(x)', ck[x]) /\ Referred(View(x)', ck[x]) = Referred(View(x), ck[x])
              /\ RegionKept(View(x), ck[x])
  <2>1. RegionOK(View(x), ck[x]) /\ RegionKept(View(x), ck[x]) /\ ck[x].want \in [Files -> Nat]
    BY <1>1, <1>13, AreaFacts DEF LogInv, Regions, CkptsOK
  <2>2. \A a \in Addrs : View(x)[a].kind # "none" => View(x)'[a] = View(x)[a]
    <3>1. /\ \A a \in Addrs : View(x)[a] = IF a \in Flying(x) THEN out[x].blocks[a] ELSE disk[a]
          /\ \A a \in Addrs : View(x)'[a] = IF a \in Flying(x)' THEN out'[x].blocks[a] ELSE disk'[a]
      BY DEF View
    <3>2. QED
      BY <1>2, <3>1
  <2>3. \A a \in Referred(View(x), ck[x]) : View(x)[a].kind # "none" => View(x)'[a] = View(x)[a]
    BY <2>1, <2>2, ReferredFacts
  <2>4. QED
    BY <2>1, <2>3, RegionFrame
<1>14. Regions'
  <2>1. DoneOK'
    <3>1. Done'.ok /\ Done'.ts <= ts' /\ (area'[nextArea].ok => area'[nextArea].ts < Done.ts)
      BY <1>6, AreaFacts DEF LogInv, Regions, DoneOK, AreaRecs
    <3>2. RegionKept(disk, Done)'
      BY <1>1, <1>6, <1>12 DEF LogInv, Regions, DoneOK, RegionKept, Free
    <3>3. QED
      BY <1>1, <1>6, <1>12, <3>1, <3>2 DEF DoneOK
  <2>2. CkptsOK'
    BY <1>1, <1>5, <1>13 DEF CkptsOK, RegionKept, Free
  <2>3. RegionStarted'
    <3>1. Done.ts <= ts /\ Done.ts \in Nat /\ ts \in Nat
      BY AreaFacts DEF LogInv, Regions, DoneOK, AreaRecs
    <3>2. QED
      BY <1>1, <1>4, <1>6, <3>1 DEF LogInv, Regions, RegionStarted
  <2>4. Mutual'
    <3>1. \A x \in CkptProcs : pc'[x] \in Working => pc[x] \in Working
      BY <1>4, ProcFacts DEF Working
    <3>2. QED
      BY <3>1 DEF LogInv, Regions, Mutual
  <2>5. Waiting'
    <3>1. pc'[Writer] \notin {"lock", "region"}
      BY <1>4, ProcFacts DEF LogInv, Regions, Waiting, IsCkpt
    <3>2. QED
      BY <1>4, <3>1 DEF LogInv, Regions, Waiting
  <2>6. Apart'
    <3>1. ASSUME NEW x \in Procs, NEW y \in Procs, x # y, Filled(x), Filled(y)
          PROVE  pc'[x] # pc'[y]
      <4>1. pc[x] # pc[y]
        BY <1>1, <3>1 DEF LogInv, Regions, Apart
      <4>2. CASE x # p /\ y # p
        BY <1>4, <4>1, <4>2
      <4>3. ASSUME NEW z \in Procs, z # p, Filled(z), Filled(p)
            PROVE  pc'[z] # pc'[p]
        <5>1. pc'[z] = pc[z] /\ pc[z] \in {"lock", "region"} /\ pc'[p] \in {"lock", "region"}
          BY <1>1, <1>4, <4>3 DEF LogInv, Regions, Apart, Filled
        <5>2. CASE pc'[p] = "region"
          BY <1>4, <5>1, <5>2
        <5>3. CASE pc'[p] = "lock" /\ pc[z] = "lock"
          <6>1. PICK q \in Procs : pc[q] = "region"
            BY <1>4, <5>3
          <6>2. Writer \notin {p, q, z}
            BY <1>4, <4>3, <5>1, <6>1 DEF LogInv, Regions, Waiting, Filled, IsCkpt
          <6>3. p \in CkptProcs \/ p = Cleaner
            BY <6>2, ProcFacts
          <6>4. q # p /\ q # z /\ z # p
            BY <1>4, <4>3, <5>3, <6>1
          <6>5. pc[p] \in Working /\ pc[q] \in Working /\ pc[z] \in Working
            BY <1>4, <5>3, <6>1 DEF Working
          <6>6. QED
            BY <6>2, <6>4, <6>5, ProcFacts DEF LogInv, Regions, Mutual
        <5>4. QED
          BY <5>1, <5>2, <5>3
      <4>4. QED
        BY <3>1, <4>2, <4>3
    <3>2. QED
      BY <1>5, <3>1 DEF Apart
  <2>7. \A x, y \in Procs : Filled(x) /\ Filled(y) /\ Earlier(x, y)' => Earlier(x, y)
    <3>1. SUFFICES ASSUME NEW x \in Procs, NEW y \in Procs, Filled(x), Filled(y), Earlier(x, y)'
                   PROVE  Earlier(x, y)
      OBVIOUS
    <3>2. CASE x = p
      <4>1. y # p
        BY <3>1, <3>2 DEF Earlier
      <4>2. pc'[y] = pc[y] /\ pc[y] = "lock" /\ pc'[p] = "region"
        BY <1>1, <1>4, <3>1, <3>2, <4>1 DEF LogInv, Regions, Apart, Earlier, Filled
      <4>3. QED
        BY <1>4, <4>2 DEF LogInv, Regions, Waiting
    <3>3. CASE x # p
      BY <1>4, <3>1, <3>3 DEF Earlier
    <3>4. QED
      BY <3>2, <3>3
  <2>8. InOrder'
    <3>1. area'[nextArea].ok => area' = area
      BY <1>6
    <3>2. \A w : NotAfterFiles(w)' <=> NotAfterFiles(w)
      BY <1>3 DEF NotAfterFiles
    <3>3. QED
      BY <1>1, <1>5, <1>6, <2>7, <3>1, <3>2 DEF LogInv, Regions, InOrder, NotAfter
  <2>9. Moved'
    <3>1. SUFFICES ASSUME pc'[Cleaner] = "mark" \/ Filled(Cleaner)'
                   PROVE  /\ Avoids(Live)' /\ \A x \in Procs : Avoids(Flying(x))'
                          /\ pc'[Cleaner] = "mark" => Avoids(Referred(disk, Done))'
                          /\ \A x \in Procs :
                                /\ Filled(x)'
                                /\ pc'[Cleaner] = "mark" \/ x = Cleaner \/ Earlier(Cleaner, x)'
                                => Avoids(Referred(View(x), ck[x]))'
      BY DEF Moved
    <3>2. Reads' = Reads /\ (pc'[Cleaner] = "mark" => pc[Cleaner] = "mark")
      BY <1>4, ProcFacts DEF Reads
    <3>3. pc[Cleaner] = "mark" \/ Filled(Cleaner)
      BY <1>5, <3>1, <3>2, ProcFacts
    <3>4. Avoids(Live)' /\ \A x \in Procs : Avoids(Flying(x))'
      BY <1>1, <1>2, <1>8, <3>2, <3>3 DEF LogInv, Regions, Moved, Avoids
    <3>5. pc'[Cleaner] = "mark" => Avoids(Referred(disk, Done))'
      BY <1>1, <1>6, <1>12, <3>2 DEF LogInv, Regions, Moved, Avoids
    <3>6. ASSUME NEW x \in Procs, Filled(x)',
                 pc'[Cleaner] = "mark" \/ x = Cleaner \/ Earlier(Cleaner, x)'
          PROVE  Avoids(Referred(View(x), ck[x]))'
      <4>1. Filled(x) /\ (pc[Cleaner] = "mark" \/ x = Cleaner \/ Earlier(Cleaner, x))
        BY <1>5, <2>7, <3>1, <3>2, <3>3, <3>6, ProcFacts
      <4>2. Avoids(Referred(View(x), ck[x]))
        BY <1>1, <3>3, <4>1 DEF LogInv, Regions, Moved
      <4>3. QED
        BY <1>1, <1>13, <3>2, <4>1, <4>2 DEF Avoids
    <3>7. QED
      BY <3>4, <3>5, <3>6
  <2>10. QED
    BY <2>1, <2>2, <2>3, <2>4, <2>5, <2>6, <2>8, <2>9 DEF Regions
<1>15. QED
  BY <1>7, <1>9, <1>10, <1>11, <1>14 DEF LogInv
-----------------------------------------------------------------------------
(* A crash: the file system of the last region is loaded.                  *)

LEMMA ChosenDone ==
    ASSUME LogInv
    PROVE  Chosen = 1 - nextArea /\ area[Chosen] = Done
<1>1. /\ Done = area[1 - nextArea] /\ Done.ok /\ (area[nextArea].ok => area[nextArea].ts < Done.ts)
      /\ nextArea \in 0 .. 1 /\ \A i \in 0 .. 1 : area[i].ts \in Nat
  BY AreaFacts DEF LogInv, Regions, DoneOK, Done, AreaRecs
<1>2. CASE nextArea = 0
  BY <1>1, <1>2 DEF Chosen, Newest
<1>3. CASE nextArea = 1
  BY <1>1, <1>3 DEF Chosen, Newest
<1>4. QED
  BY <1>1, <1>2, <1>3

\* What the last region says of a file.
LEMMA LoadedFile ==
    ASSUME LogInv, Crash, NEW f \in Files
    PROVE  LET i == disk[Done.map].at[f] IN
           /\ file'[f] \in FileRecs /\ file'[f].ver = Done.want[f]
           /\ ~file'[f].dirty /\ ~file'[f].desc /\ file'[f].held = {} /\ file'[f].iaddr = i
           /\ Done.want[f] = 0 => i = Nil /\ file'[f].daddr = Nil
           /\ Done.want[f] # 0 =>
                /\ i \in Addrs /\ file'[f].daddr = disk[i].at /\ disk[i].at \in Addrs
                /\ disk[i] = DescBlock(f, disk[i].at) /\ disk[disk[i].at] = DataBlock(f, Done.want[f])
                /\ i \notin MapCells(Done.map) /\ disk[i].at \notin MapCells(Done.map)
<1> DEFINE i == disk[Done.map].at[f]
<1>1. /\ Done.want[f] \in Nat /\ Done.want \in [Files -> Nat] /\ RegionFile(disk, Done, f)
  BY AreaFacts DEF AreaRecs, LogInv, Regions, DoneOK, RegionOK
<1>2. file'[f] = IF i = Nil THEN NewFile
                 ELSE [NewFile EXCEPT !.iaddr = i, !.daddr = disk[i].at, !.ver = Version(i)]
  BY ChosenDone DEF Crash
<1>3. /\ Done.want[f] = 0 => i = Nil
      /\ Done.want[f] # 0 =>
                /\ i \in Addrs /\ disk[i].at \in Addrs
                /\ disk[i] = DescBlock(f, disk[i].at) /\ disk[disk[i].at] = DataBlock(f, Done.want[f])
                /\ i \notin MapCells(Done.map) /\ disk[i].at \notin MapCells(Done.map)
  BY <1>1 DEF RegionFile
<1> HIDE DEF i
<1>4. CASE Done.want[f] = 0
  BY <1>2, <1>3, <1>4, SMTT(30) DEF NewFile, FileRecs, i
<1>5. CASE Done.want[f] # 0
  <2>1. i # Nil /\ disk[disk[i].at].v = Done.want[f]
    BY <1>3, <1>5, AddrFacts DEF DataBlock
  <2>2. file'[f] = [NewFile EXCEPT !.iaddr = i, !.daddr = disk[i].at, !.ver = Done.want[f]]
    BY <1>2, <2>1 DEF Version
  <2>3. QED
    BY <1>1, <1>3, <1>5, <2>2 DEF NewFile, FileRecs, i
<1>6. QED
  BY <1>4, <1>5

LEMMA CrashInv ==
    ASSUME LogInv, FollowGaps = {}, Crash
    PROVE  LogInv'
<1> DEFINE m == disk[Done.map]
<1>1. /\ mapAddr' = Done.map /\ ts' = Done.ts + 1 /\ nextArea' = nextArea
      /\ cp' = [cur |-> Done.cur, off |-> Done.off, clean |-> m.clean,
                usage |-> [m.usage EXCEPT ![Done.cur] = Done.used]]
      /\ checked' = Nobody /\ numDirty' = 0 /\ writeActive' = FALSE /\ ckptWait' = FALSE
      /\ pc' = [p \in Procs |-> "idle"] /\ out' = [p \in Procs |-> NoOut]
      /\ ck' = [p \in Procs |-> NoRegion] /\ job' = NoJob
      /\ UNCHANGED <<disk, area, uses>>
  BY ChosenDone, AreaFacts DEF Crash, LoadedStamp
<1>2. /\ Done \in AreaRecs /\ Done.map \in MapAddrs /\ Done.cur \in Segs
      /\ Done.off \in -1 .. SegBlocks - 1 /\ Done.used \in Nat /\ Done.want \in [Files -> Nat]
      /\ Done.ts \in Nat /\ RegionOK(disk, Done)
  BY AreaFacts DEF AreaRecs, LogInv, Regions, DoneOK, RegionOK
<1>3. /\ m = [kind |-> "map", at |-> m.at, clean |-> m.clean, usage |-> m.usage]
      /\ m.at \in [Files -> Addrs \cup {Nil}]
      /\ m.clean \in Seq(Segs) /\ IsInjective(m.clean) /\ m.usage \in [Segs -> Nat]
      /\ Done.cur \notin ToSet(m.clean)
      /\ \A a \in Referred(disk, Done) : /\ a[1] \notin ToSet(m.clean)
                                         /\ ~(a[1] = Done.cur /\ Done.off # -1 /\ a[2] >= Done.off)
      /\ \A s \in Segs \ ToSet(m.clean) :
            (IF s = Done.cur THEN Done.used ELSE m.usage[s])
               = Cardinality({a \in Referred(disk, Done) : a[1] = s})
  BY <1>2 DEF RegionOK
<1> HIDE DEF m
<1>4. cp' \in TailRecs /\ cp'.cur = Done.cur /\ cp'.off = Done.off /\ cp'.clean = m.clean
      /\ \A s \in Segs : cp'.usage[s] = IF s = Done.cur THEN Done.used ELSE m.usage[s]
  BY <1>1, <1>2, <1>3 DEF TailRecs
<1>5. /\ \A p \in Procs : ~Filled(p)' /\ pc'[p] = "idle" /\ Flying(p)' = {}
      /\ pc'[Cleaner] = "idle" /\ pc'[Writer] = "idle"
  BY <1>1, ProcFacts DEF Filled, Flying, NoOut
<1>6. file' \in [Files -> FileRecs] /\ mapAddr' \in MapAddrs
  <2>1. file' = [f \in Files |-> file'[f]]
    BY DEF Crash
  <2>2. \A f \in Files : file'[f] \in FileRecs
    BY LoadedFile
  <2>3. QED
    BY <1>1, <1>2, <2>1, <2>2
<1>7. Types'
  <2>1. FlagTypes'
    BY <1>1 DEF LogInv, Types, FlagTypes
  <2>2. FileTypes'
    BY <1>4, <1>6 DEF FileTypes
  <2>3. AreaTypes'
    BY <1>1, <1>2, <1>5, AreaFacts DEF AreaTypes
  <2>4. ProcTypes'
    BY <1>1, EmptySeq DEF ProcTypes, Stages, NoJob, JobRecs
  <2>5. QED
    BY <2>1, <2>2, <2>3, <2>4 DEF Types
<1>8. Live' = Referred(disk, Done)
  <2>1. \A a : a \in Live' <=>
           /\ a # Nil
           /\ \/ a \in MapCells(Done.map)
              \/ \E f \in Files : a = file'[f].daddr \/ a = file'[f].iaddr
    BY <1>1 DEF Live
  <2>2. \A a : a \in Referred(disk, Done) <=>
                \/ a \in MapCells(Done.map)
                \/ \E f \in Files : /\ Done.want[f] # 0
                                    /\ a = m.at[f] \/ a = disk[m.at[f]].at
    BY <1>2, ReferredFacts DEF m
  <2>3. \A f \in Files : /\ Done.want[f] = 0 => file'[f].daddr = Nil /\ file'[f].iaddr = Nil
                         /\ Done.want[f] # 0 => /\ file'[f].iaddr = m.at[f] /\ m.at[f] \in Addrs
                                                /\ file'[f].daddr = disk[m.at[f]].at
                                                /\ disk[m.at[f]].at \in Addrs
    BY LoadedFile DEF m
  <2>4. \A a : a \in Live' <=> a \in Referred(disk, Done)
    BY <1>2, <2>1, <2>2, <2>3, AddrFacts, MapCellsFacts
  <2>5. QED
    BY <2>4
<1>9. \A a \in Live' : ~Free(a)'
  BY <1>3, <1>4, <1>8 DEF Free, FreeOf
<1>10. Space'
  <2>1. CleanOK'
    BY <1>3, <1>4 DEF CleanOK
  <2>2. FlyingKept'
    BY <1>5 DEF FlyingKept
  <2>3. JobOK'
    BY <1>5 DEF JobOK, Cleaning
  <2>4. Distinct'
    <3>1. \A f \in Files : /\ file'[f].daddr = Nil <=> Done.want[f] = 0
                           /\ file'[f].iaddr = Nil <=> Done.want[f] = 0
                           /\ Done.want[f] # 0 =>
                                /\ disk[file'[f].iaddr] = DescBlock(f, file'[f].daddr)
                                /\ disk[file'[f].daddr] = DataBlock(f, Done.want[f])
                                /\ file'[f].iaddr \notin MapCells(Done.map)
                                /\ file'[f].daddr \notin MapCells(Done.map)
      BY LoadedFile, AddrFacts
    <3>2. \A f, g \in Files : f # g => \A v, w : /\ DescBlock(f, v) # DescBlock(g, w)
                                                 /\ DataBlock(f, v) # DataBlock(g, w)
      BY DEF DescBlock, DataBlock
    <3>3. \A f, g, v, w : DescBlock(f, v) # DataBlock(g, w)
      BY DEF DescBlock, DataBlock
    <3>4. Nil \notin MapCells(Done.map)
      BY <1>2, MapCellsFacts, AddrFacts
    <3>5. QED
      BY <1>1, <3>1, <3>2, <3>3, <3>4 DEF Distinct
  <2>5. QED
    BY <1>9, <2>1, <2>2, <2>3, <2>4 DEF Space, LiveKept
<1>11. Contents'
  <2>1. ASSUME NEW f \in Files
        PROVE  FileStored(f)'
    <3>1. Done.want[f] <= uses /\ Done.want[f] \in Nat
      <4>1. Done.want[f] <= file[f].ver /\ file[f].ver <= uses
        BY FileFacts DEF LogInv, Regions, InOrder, NotAfterFiles, FileStored
      <4>2. QED
        BY <1>2, <4>1, FileFacts
    <3>2. \A a, b : disk[a] = b => Stored(a, b)'
      BY <1>1 DEF Stored
    <3>3. QED
      BY <1>1, <3>1, <3>2, LoadedFile, AddrFacts DEF FileStored
  <2>2. MapStored'
    <3>1. PICK u \in [Segs -> Nat] : u = m.usage
      BY <1>3
    <3>2. MapIs(u)' = m
      <4>1. [f \in Files |-> file'[f].iaddr] = m.at
        BY <1>3, LoadedFile DEF m
      <4>2. QED
        BY <1>3, <1>4, <3>1, <4>1 DEF MapIs
    <3>3. Stored(mapAddr, MapIs(u))'
      BY <1>1, <3>2 DEF Stored, m
    <3>4. QED
      BY <1>3, <1>4, <3>1, <3>3 DEF MapStored
  <2>3. QED
    BY <2>1, <2>2 DEF Contents, FilesStored
<1>12. UsageAgrees'
  BY <1>3, <1>4, <1>8 DEF UsageAgrees
<1>13. Regions'
  <2>1. Done' = Done
    BY <1>1 DEF Done
  <2>2. DoneOK'
    BY <1>1, <1>2, <1>8, <1>9, <2>1 DEF LogInv, Regions, DoneOK, RegionKept
  <2>3. CkptsOK' /\ RegionStarted' /\ Mutual' /\ Waiting' /\ Apart' /\ Moved'
    BY <1>5, ProcFacts DEF CkptsOK, RegionStarted, Mutual, Waiting, Apart, Moved, Working
  <2>4. InOrder'
    <3>1. NotAfterFiles(Done.want)'
      BY <1>2, <2>1, LoadedFile DEF NotAfterFiles
    <3>2. QED
      BY <1>1, <1>5, <2>1, <3>1 DEF LogInv, Regions, InOrder, NotAfter
  <2>5. QED
    BY <2>2, <2>3, <2>4 DEF Regions
<1>14. QED
  BY <1>7, <1>10, <1>11, <1>12, <1>13 DEF LogInv
-----------------------------------------------------------------------------
(* The initial state.                                                      *)

LEMMA InitInv ==
    ASSUME Init
    PROVE  LogInv
<1> DEFINE list == [i \in 1 .. NumSegs - 1 |-> i]
           usage == [s \in Segs |-> IF s = 0 THEN MapSize ELSE 0]
           region == [map |-> <<0, 0>>, cur |-> 0, off |-> MapSize, used |-> MapSize,
                      want |-> [f \in Files |-> 0], gap |-> {}, ts |-> 1, ok |-> TRUE]
           block == [kind |-> "map", at |-> [f \in Files |-> Nil], clean |-> list, usage |-> usage]
<1>1. /\ file = [f \in Files |-> NewFile] /\ mapAddr = <<0, 0>>
      /\ cp = [cur |-> 0, off |-> MapSize, clean |-> list, usage |-> usage]
      /\ area = [i \in 0 .. 1 |-> IF i = 0 THEN region ELSE [region EXCEPT !.ts = 0]]
      /\ nextArea = 1 /\ ts = 2 /\ checked = Nobody /\ numDirty = 0
      /\ writeActive = FALSE /\ ckptWait = FALSE
      /\ pc = [p \in Procs |-> "idle"] /\ out = [p \in Procs |-> NoOut]
      /\ ck = [p \in Procs |-> NoRegion] /\ job = NoJob /\ uses = 0
  BY DEF Init
<1>2. /\ 0 \in Segs /\ <<0, 0>> \in MapAddrs /\ <<0, 0>> \in Addrs /\ <<0, 0>> # Nil
      /\ MapSize \in 0 .. SegBlocks - 1
  BY LfsAssumption, AddrFacts DEF Segs, MapAddrs, Addrs
<1>3. disk[<<0, 0>>] = block
  <2>1. [x \in Files |-> [f \in Files |-> NewFile][x].iaddr] = [f \in Files |-> Nil]
    BY DEF NewFile
  <2>2. QED
    BY <1>2, <2>1 DEF Init, MapBlock
<1>4. /\ list \in Seq(Segs) /\ IsInjective(list) /\ ToSet(list) = 1 .. NumSegs - 1
      /\ 0 \notin ToSet(list) /\ \A s \in Segs \ ToSet(list) : s = 0
  <2>1. list \in [1 .. NumSegs - 1 -> Segs] /\ NumSegs - 1 \in Nat
    BY LfsAssumption DEF Segs
  <2>2. list \in Seq(Segs)
    BY <2>1, IsASeq
  <2>3. ToSet(list) = 1 .. NumSegs - 1
    BY DEF ToSet
  <2>4. QED
    BY <2>2, <2>3, LfsAssumption DEF IsInjective, Segs
<1>5. usage \in [Segs -> Nat] /\ usage[0] = MapSize
  BY <1>2, LfsAssumption
<1>6. /\ cp.cur = 0 /\ cp.off = MapSize /\ cp.clean = list /\ cp.usage = usage
      /\ \A f \in Files : file[f] = NewFile
      /\ area[0] = region /\ area[1] = [region EXCEPT !.ts = 0] /\ Done = region
  BY <1>1 DEF Done
<1>7. /\ block.at = [f \in Files |-> Nil] /\ block.clean = list /\ block.usage = usage
      /\ block.kind = "map"
      /\ region.map = <<0, 0>> /\ region.cur = 0 /\ region.off = MapSize /\ region.used = MapSize
      /\ region.want = [f \in Files |-> 0] /\ region.ts = 1 /\ region.ok
  OBVIOUS
<1>8. region \in AreaRecs /\ [region EXCEPT !.ts = 0] \in AreaRecs /\ [region EXCEPT !.ts = 0].ts = 0
      /\ [region EXCEPT !.ts = 0].want = region.want
  <2>1. [f \in Files |-> 0] \in [Files -> Nat] /\ MapSize \in Nat /\ MapSize \in -1 .. SegBlocks - 1
    BY LfsAssumption
  <2>2. region \in AreaRecs
    BY <1>2, <2>1 DEF AreaRecs
  <2> HIDE DEF region
  <2>3. QED
    BY <2>2 DEF AreaRecs
<1>9. block = [kind |-> "map", at |-> block.at, clean |-> block.clean, usage |-> block.usage]
  OBVIOUS
<1> HIDE DEF list, usage, region, block
<1>10. /\ \A p \in Procs : ~Filled(p) /\ pc[p] = "idle" /\ Flying(p) = {}
       /\ pc[Cleaner] = "idle" /\ pc[Writer] = "idle"
  BY <1>1, ProcFacts DEF Filled, Flying, NoOut
<1>11. Types
  <2>1. FlagTypes
    BY <1>1 DEF FlagTypes
  <2>2. FileTypes
    <3>1. NewFile \in FileRecs
      BY DEF NewFile, FileRecs
    <3>2. cp \in TailRecs
      BY <1>1, <1>2, <1>4, <1>5 DEF TailRecs
    <3>3. QED
      BY <1>1, <1>2, <3>1, <3>2 DEF FileTypes
  <2>3. AreaTypes
    BY <1>1, <1>8, <1>10 DEF AreaTypes
  <2>4. ProcTypes
    BY <1>1, EmptySeq DEF ProcTypes, Stages, NoJob, JobRecs
  <2>5. QED
    BY <2>1, <2>2, <2>3, <2>4 DEF Types
<1>12. Live = MapCells(<<0, 0>>) /\ Referred(disk, region) = MapCells(<<0, 0>>)
  <2>1. \A a : a \in Live <=> a \in MapCells(<<0, 0>>)
    <3>1. FileTypes /\ mapAddr = <<0, 0>> /\ \A f \in Files : file[f].daddr = Nil /\ file[f].iaddr = Nil
      BY <1>1, <1>6, <1>11 DEF Types, NewFile
    <3>2. \A a \in MapCells(<<0, 0>>) : a # Nil
      BY <1>2, MapCellsFacts, AddrFacts
    <3>3. QED
      BY <3>1, <3>2, LiveFacts
  <2>2. Referred(disk, region) = MapCells(<<0, 0>>)
    <3>1. {block.at[f] : f \in Files} \ {Nil} = {}
      BY <1>7
    <3>2. QED
      BY <1>3, <1>7, <3>1 DEF Referred
  <2>3. QED
    BY <2>1, <2>2
<1>13. \A a \in MapCells(<<0, 0>>) : a[1] = 0 /\ a[2] \in Int /\ a[2] < MapSize
  BY <1>2, LfsAssumption DEF MapCells
<1>14. \A a \in Live : ~Free(a)
  BY <1>4, <1>6, <1>12, <1>13, LfsAssumption DEF Free, FreeOf
<1>15. \A s \in Segs \ ToSet(list) : Cardinality({a \in Live : a[1] = s}) = MapSize /\ s = 0
  <2>1. {a \in MapCells(<<0, 0>>) : a[1] = 0} = MapCells(<<0, 0>>)
    BY <1>13
  <2>2. QED
    BY <1>2, <1>4, <1>12, <2>1, MapCellsCard
<1>16. Space
  <2>1. CleanOK /\ FlyingKept /\ JobOK
    BY <1>4, <1>6, <1>10 DEF CleanOK, FlyingKept, JobOK, Cleaning
  <2>2. Distinct
    <3>1. Nil \notin MapCells(<<0, 0>>)
      BY <1>2, MapCellsFacts, AddrFacts
    <3>2. QED
      BY <1>1, <1>6, <3>1 DEF Distinct, NewFile
  <2>3. QED
    BY <1>14, <2>1, <2>2 DEF Space, LiveKept
<1>17. Contents
  <2>1. FilesStored
    BY <1>1, <1>6 DEF FilesStored, FileStored, NewFile
  <2>2. MapIs(usage) = block
    <3>1. [f \in Files |-> file[f].iaddr] = [f \in Files |-> Nil]
      BY <1>6 DEF NewFile
    <3>2. QED
      BY <1>6, <1>7, <1>9, <3>1 DEF MapIs
  <2>3. QED
    BY <1>1, <1>3, <1>5, <1>6, <2>1, <2>2 DEF Contents, MapStored, Stored
<1>18. UsageAgrees
  BY <1>4, <1>5, <1>6, <1>15 DEF UsageAgrees
<1>19. Regions
  <2>1. RegionOK(disk, region)
    <3>1. \A f \in Files : RegionFile(disk, region, f)
      BY <1>3, <1>7 DEF RegionFile
    <3>2. \A a \in Referred(disk, region) :
             a[1] \notin ToSet(list) /\ ~(a[1] = 0 /\ MapSize # -1 /\ a[2] >= MapSize)
      BY <1>4, <1>12, <1>13, LfsAssumption
    <3>3. \A s \in Segs \ ToSet(list) :
             (IF s = 0 THEN MapSize ELSE usage[s]) = Cardinality({a \in Referred(disk, region) : a[1] = s})
      BY <1>12, <1>15
    <3>4. block.at \in [Files -> Addrs \cup {Nil}]
      BY <1>7
    <3>5. QED
      <4>1. disk[region.map] = block /\ region.map \in MapAddrs
        BY <1>2, <1>3, <1>7
      <4>2. block.clean \in Seq(Segs) /\ IsInjective(block.clean) /\ block.usage \in [Segs -> Nat]
        BY <1>4, <1>5, <1>7
      <4>3. region.cur \notin ToSet(block.clean)
        BY <1>4, <1>7
      <4>4. \A a \in Referred(disk, region) :
               /\ a[1] \notin ToSet(block.clean)
               /\ ~(a[1] = region.cur /\ region.off # -1 /\ a[2] >= region.off)
        BY <1>7, <3>2
      <4>5. \A s \in Segs \ ToSet(block.clean) :
               (IF s = region.cur THEN region.used ELSE block.usage[s])
                  = Cardinality({a \in Referred(disk, region) : a[1] = s})
        BY <1>7, <3>3
      <4>6. QED
        BY <1>9, <3>1, <3>4, <4>1, <4>2, <4>3, <4>4, <4>5 DEF RegionOK
  <2>2. DoneOK
    <3>1. Done.ok /\ Done.ts <= ts /\ area[nextArea].ts < Done.ts
      <4>1. nextArea = 1 /\ ts = 2
        BY <1>1
      <4>2. area[nextArea].ts = 0 /\ Done.ts = 1 /\ Done.ok
        BY <1>6, <1>7, <1>8, <4>1
      <4>3. QED
        BY <4>1, <4>2
    <3>2. RegionKept(disk, Done)
      BY <1>6, <1>12, <1>14 DEF RegionKept
    <3>3. QED
      BY <1>6, <2>1, <3>1, <3>2 DEF DoneOK
  <2>3. CkptsOK /\ RegionStarted /\ Mutual /\ Waiting /\ Apart /\ Moved
    BY <1>10, ProcFacts DEF CkptsOK, RegionStarted, Mutual, Waiting, Apart, Moved, Working
  <2>4. InOrder
    <3>1. \A f \in Files : Done.want[f] = 0 /\ area[nextArea].want[f] = 0 /\ file[f].ver = 0
      <4>1. nextArea = 1
        BY <1>1
      <4>2. area[nextArea].want = [f \in Files |-> 0] /\ Done.want = [f \in Files |-> 0]
        BY <1>6, <1>7, <1>8, <4>1
      <4>3. QED
        BY <1>6, <4>2 DEF NewFile
    <3>2. QED
      BY <1>10, <3>1 DEF InOrder, NotAfter, NotAfterFiles
  <2>5. QED
    BY <2>2, <2>3, <2>4 DEF Regions
<1>20. QED
  BY <1>11, <1>16, <1>17, <1>18, <1>19 DEF LogInv
-----------------------------------------------------------------------------
(* A segment is filled: where it goes.                                     *)

LEMMA TailFacts ==
    ASSUME LogInv, ~DiskFull
    PROVE  LET t == LfsGetLogTail IN
           /\ t \in TailRecs /\ t.cur \in Segs /\ t.clean \in Seq(Segs) /\ t.usage \in [Segs -> Nat]
           /\ t.off \in 0 .. SegBlocks - 1 /\ t.cur \notin ToSet(t.clean) /\ IsInjective(t.clean)
           /\ ToSet(t.clean) \subseteq ToSet(cp.clean)
           /\ t.cur = cp.cur \/ t.cur \in ToSet(cp.clean)
           /\ \A a : FreeOf(t, a) => Free(a)
           /\ \A s \in Segs \ ToSet(t.clean) : t.usage[s] = Cardinality({a \in Live : a[1] = s})
           /\ cp.off # -1 => t = cp
<1>1. /\ cp \in TailRecs /\ cp.cur \in Segs /\ cp.off \in -1 .. SegBlocks - 1
      /\ cp.clean \in Seq(Segs) /\ cp.usage \in [Segs -> Nat] /\ CleanOK /\ UsageAgrees
  BY DEF LogInv, Types, FileTypes, TailRecs, Space
<1>2. CASE cp.off # -1
  <2>1. LfsGetLogTail = cp /\ cp.off \in 0 .. SegBlocks - 1
    BY <1>1, <1>2 DEF LfsGetLogTail
  <2>2. QED
    BY <1>1, <2>1 DEF Free, CleanOK, UsageAgrees
<1>3. CASE cp.off = -1
  <2> DEFINE h == Head(cp.clean)
             t == [cur |-> h, off |-> 0, clean |-> Tail(cp.clean), usage |-> [cp.usage EXCEPT ![h] = 0]]
  <2>1. cp.clean # <<>>
    BY <1>1, <1>3, EmptySeq DEF DiskFull, NumClean
  <2>2. /\ h \in Segs /\ Tail(cp.clean) \in Seq(Segs) /\ IsInjective(Tail(cp.clean))
        /\ h \notin ToSet(Tail(cp.clean)) /\ ToSet(cp.clean) = {h} \cup ToSet(Tail(cp.clean))
    BY <1>1, <2>1, TailSet DEF CleanOK
  <2>3. LfsGetLogTail = t
    BY <1>3 DEF LfsGetLogTail
  <2> HIDE DEF h
  <2>4. /\ t \in TailRecs /\ t.cur = h /\ t.off = 0 /\ t.clean = Tail(cp.clean)
        /\ t.usage = [cp.usage EXCEPT ![h] = 0] /\ 0 \in 0 .. SegBlocks - 1
    BY <1>1, <2>2, LfsAssumption DEF TailRecs
  <2> HIDE DEF t
  <2>5. \A a : FreeOf(t, a) => Free(a)
    BY <2>2, <2>4 DEF Free, FreeOf
  <2>6. ASSUME NEW s \in Segs, s \notin ToSet(t.clean)
        PROVE  t.usage[s] = Cardinality({a \in Live : a[1] = s})
    <3>1. CASE s = h
      <4>1. {a \in Live : a[1] = s} = {}
        BY <2>2, <3>1 DEF LogInv, Space, LiveKept, Free, FreeOf
      <4>2. QED
        BY <1>1, <2>4, <3>1, <4>1, FS_EmptySet
    <3>2. CASE s # h
      BY <1>1, <2>2, <2>4, <2>6, <3>2 DEF UsageAgrees
    <3>3. QED
      BY <3>1, <3>2
  <2>7. t.usage \in [Segs -> Nat]
    BY <2>4 DEF TailRecs
  <2>8. QED
    BY <1>3, <2>2, <2>3, <2>4, <2>5, <2>6, <2>7
<1>4. QED
  BY <1>2, <1>3

LEMMA CellFacts ==
    ASSUME LogInv, ~DiskFull
    PROVE  /\ Room \in 1 .. SegBlocks
           /\ \A i \in 1 .. Room : /\ Cell(i) \in Addrs /\ FreeOf(LfsGetLogTail, Cell(i)) /\ Free(Cell(i))
                                   /\ Cell(i)[1] = LfsGetLogTail.cur /\ Cell(i) # Nil
                                   /\ Cell(i)[2] = LfsGetLogTail.off + i - 1
           /\ \A i, j \in 1 .. Room : Cell(i) = Cell(j) => i = j
<1> DEFINE t == LfsGetLogTail
<1>1. t.cur \in Segs /\ t.off \in 0 .. SegBlocks - 1 /\ \A a : FreeOf(t, a) => Free(a)
  BY TailFacts
<1> HIDE DEF t
<1>2. Room = SegBlocks - t.off /\ \A i : Cell(i) = <<t.cur, t.off + i - 1>>
  BY DEF Room, Cell, t
<1>3. Room \in 1 .. SegBlocks
  BY <1>1, <1>2, LfsAssumption
<1>4. ASSUME NEW i \in 1 .. Room
      PROVE  /\ Cell(i) \in Addrs /\ FreeOf(t, Cell(i)) /\ Cell(i)[1] = t.cur
             /\ Cell(i)[2] = t.off + i - 1
  <2>1. t.off + i - 1 \in 0 .. SegBlocks - 1 /\ t.off + i - 1 >= t.off
    BY <1>1, <1>2, <1>3, LfsAssumption
  <2>2. QED
    BY <1>1, <1>2, <2>1, AddrFacts DEF FreeOf
<1>5. \A i, j \in 1 .. Room : Cell(i) = Cell(j) => i = j
  BY <1>1, <1>2, <1>3
<1>6. QED
  BY <1>1, <1>3, <1>4, <1>5, AddrFacts DEF t

\* Who may fill a segment takes files that are dirty and on no segment's way.
LEMMA OrderFacts ==
    ASSUME LogInv, NEW p \in Procs, NEW w \in Orders(p)
    PROVE  \E fs \in SUBSET Files :
           /\ fs \in Taken(p) /\ fs \subseteq Eligible(p)
           /\ DOMAIN w = Items(p, fs) /\ IsFiniteSet(DOMAIN w)
           /\ w \in Bijection(DOMAIN w, 1 .. Cardinality(DOMAIN w))
           /\ \A f \in Files : Data(f) \in DOMAIN w => w[Desc(f)] = w[Data(f)] + 1
<1>1. PICK fs \in Taken(p) :
         /\ w \in Bijection(Items(p, fs), 1 .. Cardinality(Items(p, fs)))
         /\ \A f \in Files : Data(f) \in Items(p, fs) => w[Desc(f)] = w[Data(f)] + 1
  BY DEF Orders
<1>2. fs \subseteq Eligible(p) /\ Eligible(p) \subseteq Files
  BY DEF Taken, Eligible
<1>3. DOMAIN w = Items(p, fs)
  BY <1>1 DEF Bijection, Injection
<1>4. IsFiniteSet(Items(p, fs))
  <2> DEFINE gs == {g \in fs : file[g].dirty /\ (~IsCkpt(p) /\ p = Cleaner => file[g].bclean)}
             D == {Desc(f) : f \in fs}
             E == {Data(f) : f \in gs}
  <2>1. IsFiniteSet(fs) /\ IsFiniteSet(gs)
    BY <1>2, LfsAssumption, FS_Subset
  <2>2. [f \in fs |-> Desc(f)] \in Surjection(fs, D) /\ [f \in gs |-> Data(f)] \in Surjection(gs, E)
    BY DEF Surjection
  <2> HIDE DEF gs, D, E
  <2>3. IsFiniteSet(D) /\ IsFiniteSet(E)
    BY <2>1, <2>2, FS_Surjection
  <2>4. Items(p, fs) = D \cup E
    BY DEF Items, D, E, gs
  <2>5. QED
    BY <2>3, <2>4, FS_Union
<1>5. QED
  BY <1>1, <1>2, <1>3, <1>4

\* What finds room gets the first places.
LEMMA PutFacts ==
    ASSUME LogInv, ~DiskFull, NEW p \in Procs, NEW w \in Orders(p)
    PROVE  LET k == Cardinality(Put(w)) IN
           /\ k \in Nat /\ k <= Room /\ IsFiniteSet(Put(w)) /\ Left(w) = Room - k
           /\ \A it \in Put(w) : it \in DOMAIN w /\ w[it] \in 1 .. k
           /\ \A it, jt \in Put(w) : w[it] = w[jt] => it = jt
           /\ \A i \in 1 .. k : \E it \in Put(w) : w[it] = i
           /\ k < Room => Put(w) = DOMAIN w
<1> DEFINE n == Cardinality(DOMAIN w)
           kk == IF n <= Room THEN n ELSE Room
           h == [it \in Put(w) |-> w[it]]
<1>1. IsFiniteSet(DOMAIN w) /\ w \in Bijection(DOMAIN w, 1 .. n)
  BY OrderFacts
<1>2. n \in Nat /\ Room \in Nat /\ kk \in Nat
  BY <1>1, FS_CardinalityType, CellFacts, LfsAssumption
<1>3. /\ \A it \in DOMAIN w : w[it] \in 1 .. n
      /\ \A it, jt \in DOMAIN w : w[it] = w[jt] => it = jt
      /\ \A i \in 1 .. n : \E it \in DOMAIN w : w[it] = i
  BY <1>1 DEF Bijection, Injection, Surjection, IsInjective
<1> HIDE DEF n
<1>4. Put(w) \subseteq DOMAIN w /\ \A it \in DOMAIN w : it \in Put(w) <=> w[it] <= Room
  BY DEF Put
<1>5. \A it \in Put(w) : w[it] \in 1 .. kk
  BY <1>2, <1>3, <1>4
<1>6. \A i \in 1 .. kk : \E it \in Put(w) : w[it] = i
  BY <1>2, <1>3, <1>4
<1>7. h \in Bijection(Put(w), 1 .. kk)
  <2>1. h \in [Put(w) -> 1 .. kk] /\ \A it \in Put(w) : h[it] = w[it]
    BY <1>5
  <2>2. QED
    BY <1>3, <1>4, <1>6, <2>1 DEF Bijection, Injection, Surjection, IsInjective
<1>8. IsFiniteSet(Put(w))
  BY <1>1, <1>4, FS_Subset
<1> HIDE DEF h, kk
<1>9. Cardinality(1 .. kk) = Cardinality(Put(w))
  BY <1>7, <1>8, FS_Bijection DEF ExistsBijection
<1>10. Cardinality(Put(w)) = kk
  BY <1>2, <1>9, FS_Interval
<1>11. kk <= Room /\ (kk < Room => \A it \in DOMAIN w : it \in Put(w))
  BY <1>2, <1>3, <1>4 DEF kk
<1>12. QED
  BY <1>2, <1>3, <1>4, <1>5, <1>6, <1>8, <1>10, <1>11 DEF Left

LEMMA ItemFacts ==
    ASSUME LogInv, NEW p \in Procs, NEW w \in Orders(p)
    PROVE  /\ \A it \in DOMAIN w : \E f \in Files : it = Data(f) \/ it = Desc(f)
           /\ \A f : Data(f) \in DOMAIN w => file[f].dirty /\ Desc(f) \in DOMAIN w
           /\ \A f : Desc(f) \in DOMAIN w => f \in Eligible(p)
           /\ \A f \in Files : Data(f) \in DOMAIN w => w[Desc(f)] = w[Data(f)] + 1
           /\ \A f, g : /\ Data(f) # Desc(g) /\ (Data(f) = Data(g) => f = g)
                        /\ (Desc(f) = Desc(g) => f = g)
<1>1. PICK fs \in SUBSET Files :
           /\ fs \in Taken(p) /\ fs \subseteq Eligible(p)
           /\ DOMAIN w = Items(p, fs)
           /\ \A f \in Files : Data(f) \in DOMAIN w => w[Desc(f)] = w[Data(f)] + 1
  BY OrderFacts
<1>2. \A f, g : /\ Data(f) # Desc(g) /\ (Data(f) = Data(g) => f = g)
                /\ (Desc(f) = Desc(g) => f = g)
  BY DEF Data, Desc
<1>3. \A it : it \in DOMAIN w <=> \E f \in fs :
         \/ it = Desc(f)
         \/ it = Data(f) /\ file[f].dirty /\ (~IsCkpt(p) /\ p = Cleaner => file[f].bclean)
  BY <1>1 DEF Items
<1>4. QED
  BY <1>1, <1>2, <1>3

LEMMA FilesOutFacts ==
    ASSUME LogInv, ~DiskFull, NEW p \in Procs, NEW w \in Orders(p)
    PROVE  /\ FilesOut(w) \in [Files -> FileRecs]
           /\ \A f \in Files : LET g == FilesOut(w)[f] IN
                /\ g.ver = file[f].ver /\ g.held = file[f].held
                /\ g.daddr = IF Data(f) \in Put(w) THEN Cell(w[Data(f)]) ELSE file[f].daddr
                /\ g.iaddr = IF Desc(f) \in Put(w) THEN Cell(w[Desc(f)]) ELSE file[f].iaddr
                /\ g.dirty <=> file[f].dirty /\ Data(f) \notin Put(w)
                /\ g.desc <=> (file[f].desc \/ Data(f) \in Put(w)) /\ Desc(f) \notin Put(w)
<1>1. ASSUME NEW f \in Files
      PROVE  LET g == FilesOut(w)[f] IN
             /\ g \in FileRecs /\ g.ver = file[f].ver /\ g.held = file[f].held
             /\ g.daddr = IF Data(f) \in Put(w) THEN Cell(w[Data(f)]) ELSE file[f].daddr
             /\ g.iaddr = IF Desc(f) \in Put(w) THEN Cell(w[Desc(f)]) ELSE file[f].iaddr
             /\ g.dirty <=> file[f].dirty /\ Data(f) \notin Put(w)
             /\ g.desc <=> (file[f].desc \/ Data(f) \in Put(w)) /\ Desc(f) \notin Put(w)
  <2> DEFINE da == IF Data(f) \in Put(w) THEN Cell(w[Data(f)]) ELSE file[f].daddr
             ia == IF Desc(f) \in Put(w) THEN Cell(w[Desc(f)]) ELSE file[f].iaddr
             di == file[f].dirty /\ Data(f) \notin Put(w)
             bc == file[f].bclean /\ Data(f) \notin Put(w)
             de == (file[f].desc \/ Data(f) \in Put(w)) /\ Desc(f) \notin Put(w)
  <2>1. \A it \in Put(w) : Cell(w[it]) \in Addrs
    <3>1. \A it \in Put(w) : w[it] \in 1 .. Room
      BY PutFacts, CellFacts, LfsAssumption
    <3>2. QED
      BY <3>1, CellFacts
  <2>2. /\ file[f] \in FileRecs /\ da \in Addrs \cup {Nil} /\ ia \in Addrs \cup {Nil}
        /\ di \in BOOLEAN /\ bc \in BOOLEAN /\ de \in BOOLEAN
    BY <2>1, FileFacts DEF FileRecs
  <2>3. FilesOut(w)[f] = [file[f] EXCEPT !.daddr = da, !.iaddr = ia, !.dirty = di, !.bclean = bc, !.desc = de]
    BY DEF FilesOut
  <2> HIDE DEF da, ia, di, bc, de
  <2>4. LET g == FilesOut(w)[f] IN
             /\ g \in FileRecs /\ g.ver = file[f].ver /\ g.held = file[f].held
             /\ g.daddr = da /\ g.iaddr = ia /\ g.dirty = di /\ g.desc = de
    BY <2>2, <2>3 DEF FileRecs
  <2>5. QED
    BY <2>4 DEF da, ia, di, de
<1>2. FilesOut(w) = [f \in Files |-> FilesOut(w)[f]]
  BY DEF FilesOut
<1>3. QED
  BY <1>1, <1>2

\* The whole segment: the files' blocks, then the map.
LEMMA UsedFacts ==
    ASSUME LogInv, ~DiskFull, NEW p \in Procs, NEW w \in Orders(p), NEW wantsMap
    PROVE  LET used == Used(p, w, wantsMap)
               k == Cardinality(Put(w))
               puts == PutsMap(p, w, wantsMap)
               map == MapOut(p, w, wantsMap)
           IN  /\ used \in Nat /\ used <= Room
               /\ used = IF puts THEN k + MapSize ELSE k
               /\ puts => /\ MapLeft(w) = Nil /\ map = Cell(k + 1) /\ map \in MapAddrs
                          /\ k + 1 \in 1 .. used
                          /\ \A a : a \in MapCells(map) <=> \E i \in k + 1 .. used : a = Cell(i)
               /\ ~puts => map = MapLeft(w)
               /\ map \in MapAddrs \cup {Nil}
<1> DEFINE k == Cardinality(Put(w))
           puts == PutsMap(p, w, wantsMap)
           map == MapOut(p, w, wantsMap)
           used == Used(p, w, wantsMap)
           t == LfsGetLogTail
<1>1. k \in Nat /\ k <= Room /\ Left(w) = Room - k /\ Room \in 1 .. SegBlocks /\ MapSize \in Nat \ {0}
  BY PutFacts, CellFacts, LfsAssumption
<1>2. puts => Left(w) >= MapSize /\ MapLeft(w) = Nil
  BY DEF PutsMap, TakesMap
<1>3. used = IF puts THEN k + MapSize ELSE k
  BY <1>1 DEF Used
<1>4. map = IF puts THEN Cell(k + 1) ELSE MapLeft(w)
  BY DEF MapOut
<1>5. Room = SegBlocks - t.off /\ t.off \in 0 .. SegBlocks - 1 /\ t.cur \in Segs
      /\ \A i : Cell(i) = <<t.cur, t.off + i - 1>>
  BY TailFacts DEF Room, Cell
<1> HIDE DEF k, puts, map, used, t
<1>6. used \in Nat /\ used <= Room
  BY <1>1, <1>2, <1>3
<1>7. ASSUME puts
      PROVE  /\ map \in MapAddrs /\ k + 1 \in 1 .. used
             /\ \A a : a \in MapCells(map) <=> \E i \in k + 1 .. used : a = Cell(i)
  <2>1. map = <<t.cur, t.off + k>> /\ used = k + MapSize /\ k + MapSize <= SegBlocks - t.off
    <3>1. t.off + (k + 1) - 1 = t.off + k
      BY <1>1, <1>5
    <3>2. QED
      BY <1>1, <1>2, <1>3, <1>4, <1>5, <1>7, <3>1
  <2>2. map \in MapAddrs
    BY <1>1, <1>5, <2>1, AddrFacts, LfsAssumption DEF MapAddrs
  <2>3. MapCells(map) = {<<t.cur, (t.off + k) + i>> : i \in 0 .. MapSize - 1}
    BY <2>1, <2>2, AddrFacts DEF MapCells
  <2>4. ASSUME NEW i \in 0 .. MapSize - 1
        PROVE  \E j \in k + 1 .. used : Cell(j) = <<t.cur, (t.off + k) + i>>
    <3>1. k + 1 + i \in k + 1 .. used /\ t.off + (k + 1 + i) - 1 = (t.off + k) + i
      BY <1>1, <1>5, <2>1
    <3>2. QED
      BY <1>5, <3>1
  <2>5. ASSUME NEW j \in k + 1 .. used
        PROVE  \E i \in 0 .. MapSize - 1 : Cell(j) = <<t.cur, (t.off + k) + i>>
    <3>1. j - k - 1 \in 0 .. MapSize - 1 /\ t.off + j - 1 = (t.off + k) + (j - k - 1)
      BY <1>1, <1>5, <2>1
    <3>2. QED
      BY <1>5, <3>1
  <2>6. k + 1 \in 1 .. used
    BY <1>1, <2>1
  <2>7. QED
    BY <2>2, <2>3, <2>4, <2>5, <2>6
<1>8. MapLeft(w) \in MapAddrs \cup {Nil}
  BY DEF MapLeft, LogInv, Types, FileTypes
<1>9. QED
  BY <1>2, <1>3, <1>4, <1>6, <1>7, <1>8 DEF k, puts, map, used

\* The places that a segment fills, and those that it empties.
NewCells(p, w, wantsMap) == {Cell(i) : i \in 1 .. Used(p, w, wantsMap)}
OldPlaces(w) == {OldAddr(it) : it \in {jt \in Put(w) : OldAddr(jt) # Nil}}
OldCells(w) == OldPlaces(w) \cup (IF DirtiesMap(w) THEN MapCells(mapAddr) ELSE {})

LEMMA BlocksFacts ==
    ASSUME LogInv, ~DiskFull, NEW p \in Procs, NEW w \in Orders(p), NEW wantsMap
    PROVE  LET blocks == BlocksOut(p, w, wantsMap) IN
           /\ DOMAIN blocks = NewCells(p, w, wantsMap)
           /\ \A it \in Put(w) : /\ Cell(w[it]) \in NewCells(p, w, wantsMap)
                                 /\ blocks[Cell(w[it])] = BlockOf(it, FilesOut(w))
           /\ PutsMap(p, w, wantsMap) =>
                /\ MapOut(p, w, wantsMap) \in NewCells(p, w, wantsMap)
                /\ blocks[MapOut(p, w, wantsMap)] = MapBlock(FilesOut(w), TailOut(p, w, wantsMap))
<1> DEFINE k == Cardinality(Put(w))
           used == Used(p, w, wantsMap)
           puts == PutsMap(p, w, wantsMap)
           map == MapOut(p, w, wantsMap)
           files == FilesOut(w)
           tail == TailOut(p, w, wantsMap)
           blocks == BlocksOut(p, w, wantsMap)
           Holds(it, a) == it \in Put(w) /\ Cell(w[it]) = a
<1>1. /\ k \in Nat /\ k <= used /\ used \in Nat /\ used <= Room /\ Room \in Nat
      /\ puts => map = Cell(k + 1) /\ k + 1 \in 1 .. used
  BY UsedFacts, PutFacts, CellFacts, LfsAssumption
<1>2. \A it \in Put(w) : w[it] \in 1 .. k
  BY PutFacts
<1>3. \A it, jt \in Put(w) : w[it] = w[jt] => it = jt
  BY PutFacts
<1>4. \A i, j \in 1 .. Room : Cell(i) = Cell(j) => i = j
  BY CellFacts
<1>5. blocks = [a \in NewCells(p, w, wantsMap) |->
                  IF \E it \in Put(w) : Cell(w[it]) = a
                  THEN BlockOf(CHOOSE it \in Put(w) : Cell(w[it]) = a, files)
                  ELSE IF a = map THEN MapBlock(files, tail) ELSE NoBlock]
  BY DEF BlocksOut, NewCells
<1> HIDE DEF k, used, puts, map, files, tail, blocks
<1>6. \A i \in 1 .. used : Cell(i) \in NewCells(p, w, wantsMap)
  BY DEF NewCells, used
<1>7. ASSUME NEW it \in Put(w)
      PROVE  Cell(w[it]) \in NewCells(p, w, wantsMap) /\ blocks[Cell(w[it])] = BlockOf(it, files)
  <2>1. w[it] \in 1 .. used
    BY <1>1, <1>2
  <2>2. \A jt \in Put(w) : Cell(w[jt]) = Cell(w[it]) => jt = it
    <3>1. \A jt \in Put(w) : w[jt] \in 1 .. Room
      BY <1>1, <1>2
    <3>2. QED
      BY <1>3, <1>4, <3>1
  <2>3. (CHOOSE jt \in Put(w) : Cell(w[jt]) = Cell(w[it])) = it
    BY <2>2
  <2>4. QED
    BY <1>5, <1>6, <2>1, <2>3
<1>8. ASSUME puts
      PROVE  map \in NewCells(p, w, wantsMap) /\ blocks[map] = MapBlock(files, tail)
  <2>1. map \in NewCells(p, w, wantsMap)
    BY <1>1, <1>6, <1>8
  <2>2. ~ \E it \in Put(w) : Cell(w[it]) = map
    <3>1. ASSUME NEW it \in Put(w), Cell(w[it]) = map
          PROVE  FALSE
      <4>1. w[it] \in 1 .. Room /\ k + 1 \in 1 .. Room /\ w[it] # k + 1
        BY <1>1, <1>2, <1>8
      <4>2. QED
        BY <1>1, <1>4, <1>8, <3>1, <4>1
    <3>2. QED
      BY <3>1
  <2>3. QED
    BY <1>5, <2>1, <2>2
<1>9. QED
  BY <1>5, <1>7, <1>8 DEF puts, map, files, tail, blocks

\* The tail moves behind the segment.
LEMMA TailOutFacts ==
    ASSUME LogInv, ~DiskFull, NEW p \in Procs, NEW w \in Orders(p), NEW wantsMap
    PROVE  LET T == TailOut(p, w, wantsMap)
               t == LfsGetLogTail
           IN  /\ T \in TailRecs /\ T.cur = t.cur /\ T.clean = t.clean
               /\ \A s \in Segs : T.usage[s] = Less(t.usage[s], Freed(w, s))
                                    + (IF s = t.cur THEN Used(p, w, wantsMap) ELSE 0)
               /\ \A a \in Addrs : FreeOf(T, a) => FreeOf(t, a)
               /\ \A a \in NewCells(p, w, wantsMap) : ~FreeOf(T, a)
<1> DEFINE T == TailOut(p, w, wantsMap)
           t == LfsGetLogTail
           used == Used(p, w, wantsMap)
           usage == [s \in Segs |-> Less(t.usage[s], Freed(w, s)) + (IF s = t.cur THEN used ELSE 0)]
           off == IF IsFull(p, w, wantsMap) THEN -1 ELSE IF used = 0 THEN t.off
                  ELSE IF Room - used > WasteBlocks THEN t.off + used ELSE -1
<1>1. /\ t \in TailRecs /\ t.cur \in Segs /\ t.off \in 0 .. SegBlocks - 1 /\ t.usage \in [Segs -> Nat]
      /\ t.cur \notin ToSet(t.clean)
  BY TailFacts
<1>2. used \in Nat /\ used <= Room
  BY UsedFacts
<1>3. T = [t EXCEPT !.usage = usage, !.off = off]
  BY DEF TailOut
<1>4. Room = SegBlocks - t.off /\ WasteBlocks \in Nat /\ SegBlocks \in Nat
  BY LfsAssumption DEF Room
<1>5. \A i \in 1 .. used : Cell(i)[1] = t.cur /\ Cell(i)[2] = t.off + i - 1
  BY DEF Cell
<1>6. NewCells(p, w, wantsMap) = {Cell(i) : i \in 1 .. used}
  BY DEF NewCells
<1>7. usage \in [Segs -> Nat]
  <2>1. \A s \in Segs : Freed(w, s) \in Nat
    <3>1. ASSUME NEW s \in Segs
          PROVE  Cardinality({it \in Put(w) : OldAddr(it)[1] = s}) \in Nat
      <4>1. IsFiniteSet(Put(w))
        BY PutFacts
      <4>2. IsFiniteSet({it \in Put(w) : OldAddr(it)[1] = s})
        BY <4>1, FS_Subset
      <4>3. QED
        BY <4>2, FS_CardinalityType
    <3>2. QED
      BY <3>1, LfsAssumption DEF Freed
  <2>2. ASSUME NEW s \in Segs
        PROVE  usage[s] \in Nat
    BY <1>1, <1>2, <2>1 DEF Less
  <2>3. QED
    BY <2>2
<1> HIDE DEF t, used
<1>8. off \in -1 .. SegBlocks - 1 /\ (off # -1 => off >= t.off + used)
  BY <1>1, <1>2, <1>4
<1> HIDE DEF off, usage, T
<1>9. T \in TailRecs /\ T.cur = t.cur /\ T.clean = t.clean /\ T.usage = usage /\ T.off = off
  BY <1>1, <1>3, <1>7, <1>8 DEF TailRecs
<1>10. ASSUME NEW a \in Addrs, FreeOf(T, a)
       PROVE  FreeOf(t, a)
  BY <1>1, <1>2, <1>8, <1>9, <1>10, AddrFacts DEF FreeOf
<1>11. ASSUME NEW i \in 1 .. used
       PROVE  ~FreeOf(T, Cell(i))
  BY <1>1, <1>2, <1>5, <1>8, <1>9 DEF FreeOf
<1>12. QED
  BY <1>6, <1>9, <1>10, <1>11 DEF T, t, used, usage

\* What is replaced was in use, and what is filled was free.
LEMMA OldFacts ==
    ASSUME LogInv, ~DiskFull, NEW p \in Procs, NEW w \in Orders(p), NEW wantsMap
    PROVE  /\ \A it, jt \in Put(w) : OldAddr(it) # Nil /\ OldAddr(it) = OldAddr(jt) => it = jt
           /\ \A it \in Put(w) : OldAddr(it) \in Addrs \cup {Nil} /\ OldAddr(it) \notin MapCells(mapAddr)
           /\ OldCells(w) \subseteq Live
           /\ \A f \in Files : /\ Data(f) \in Put(w) => OldAddr(Data(f)) = file[f].daddr
                               /\ Desc(f) \in Put(w) => OldAddr(Desc(f)) = file[f].iaddr
           /\ NewCells(p, w, wantsMap) \subseteq Addrs
           /\ \A a \in NewCells(p, w, wantsMap) : Free(a) /\ a \notin Live /\ a[1] = LfsGetLogTail.cur
<1>1. \A f : OldAddr(Data(f)) = file[f].daddr /\ OldAddr(Desc(f)) = file[f].iaddr
  BY DEF OldAddr, Data, Desc
<1>2. \A it \in Put(w) : \E f \in Files : it = Data(f) \/ it = Desc(f)
  BY PutFacts, ItemFacts
<1>3. Distinct /\ FileTypes /\ LiveKept
  BY DEF LogInv, Space, Types
<1>4. ASSUME NEW it \in Put(w), NEW jt \in Put(w), OldAddr(it) # Nil, OldAddr(it) = OldAddr(jt)
      PROVE  it = jt
  <2>1. PICK f \in Files : it = Data(f) \/ it = Desc(f)
    BY <1>2
  <2>2. PICK g \in Files : jt = Data(g) \/ jt = Desc(g)
    BY <1>2
  <2>3. QED
    BY <1>1, <1>3, <1>4, <2>1, <2>2 DEF Distinct
<1>5. ASSUME NEW it \in Put(w)
      PROVE  /\ OldAddr(it) \in Addrs \cup {Nil} /\ OldAddr(it) \notin MapCells(mapAddr)
             /\ OldAddr(it) # Nil => OldAddr(it) \in Live
  <2>1. PICK f \in Files : it = Data(f) \/ it = Desc(f)
    BY <1>2
  <2>2. file[f].daddr \in Addrs \cup {Nil} /\ file[f].iaddr \in Addrs \cup {Nil}
    BY FileFacts DEF FileRecs
  <2>3. QED
    BY <1>1, <1>3, <2>1, <2>2, LiveFacts DEF Distinct
<1>6. MapCells(mapAddr) \subseteq Live
  <2>1. Nil \notin MapCells(mapAddr)
    BY <1>3, MapCellsFacts, AddrFacts DEF FileTypes
  <2>2. QED
    BY <1>3, <2>1, LiveFacts
<1>7. OldCells(w) \subseteq Live
  BY <1>5, <1>6 DEF OldCells, OldPlaces
<1>8. ASSUME NEW a \in NewCells(p, w, wantsMap)
      PROVE  a \in Addrs /\ Free(a) /\ a \notin Live /\ a[1] = LfsGetLogTail.cur
  <2>1. PICK i \in 1 .. Used(p, w, wantsMap) : a = Cell(i)
    BY DEF NewCells
  <2>2. i \in 1 .. Room
    BY UsedFacts, CellFacts, LfsAssumption
  <2>3. QED
    BY <1>3, <2>1, <2>2, CellFacts DEF LiveKept
<1>9. QED
  BY <1>1, <1>4, <1>5, <1>7, <1>8

LEMMA LiveOut ==
    ASSUME LogInv, ~DiskFull, NEW p \in Procs, NEW w \in Orders(p), NEW wantsMap,
           file' = FilesOut(w), mapAddr' = MapOut(p, w, wantsMap)
    PROVE  \A a : a \in Live' <=> (a \in Live /\ a \notin OldCells(w)) \/ a \in NewCells(p, w, wantsMap)
<1> DEFINE k == Cardinality(Put(w))
           used == Used(p, w, wantsMap)
           puts == PutsMap(p, w, wantsMap)
           New == NewCells(p, w, wantsMap)
<1>1. /\ k \in Nat /\ used \in Nat
      /\ used = IF puts THEN k + MapSize ELSE k
      /\ puts => /\ MapLeft(w) = Nil /\ k + 1 \in 1 .. used
                 /\ \A a : a \in MapCells(mapAddr') <=> \E i \in k + 1 .. used : a = Cell(i)
      /\ ~puts => mapAddr' = MapLeft(w)
  BY UsedFacts, PutFacts
<1>2. /\ \A it \in Put(w) : w[it] \in 1 .. k /\ \E f \in Files : it = Data(f) \/ it = Desc(f)
      /\ \A i \in 1 .. k : \E it \in Put(w) : w[it] = i
  BY PutFacts, ItemFacts
<1>3. \A f \in Files :
         /\ file'[f].daddr = IF Data(f) \in Put(w) THEN Cell(w[Data(f)]) ELSE file[f].daddr
         /\ file'[f].iaddr = IF Desc(f) \in Put(w) THEN Cell(w[Desc(f)]) ELSE file[f].iaddr
  BY FilesOutFacts
<1>4. /\ \A it \in Put(w) : OldAddr(it) \notin MapCells(mapAddr)
      /\ \A f \in Files : /\ Data(f) \in Put(w) => OldAddr(Data(f)) = file[f].daddr
                          /\ Desc(f) \in Put(w) => OldAddr(Desc(f)) = file[f].iaddr
      /\ New \subseteq Addrs /\ Nil \notin New
  BY OldFacts, AddrFacts
<1>5. \A a : a \in Live' <=> /\ a # Nil
                             /\ \/ a \in MapCells(mapAddr')
                                \/ \E f \in Files : a = file'[f].daddr \/ a = file'[f].iaddr
  BY DEF Live
<1>6. \A a : a \in Live <=> /\ a # Nil
                            /\ \/ a \in MapCells(mapAddr)
                               \/ \E f \in Files : a = file[f].daddr \/ a = file[f].iaddr
  BY LiveFacts DEF LogInv, Types
<1>7. \A a : a \in New <=> \E i \in 1 .. used : a = Cell(i)
  BY DEF NewCells
<1>8. /\ \A a : a \in OldPlaces(w) <=> a # Nil /\ \E it \in Put(w) : a = OldAddr(it)
      /\ \A a : a \in OldCells(w) <=> a \in OldPlaces(w) \/ (DirtiesMap(w) /\ a \in MapCells(mapAddr))
      /\ MapLeft(w) = IF DirtiesMap(w) THEN Nil ELSE mapAddr
  BY DEF OldPlaces, OldCells, MapLeft
<1>9. Distinct
  BY DEF LogInv, Space
<1> HIDE DEF k, used, puts, New
<1>10. ASSUME NEW a \in MapCells(mapAddr'), a # Nil
       PROVE  (a \in Live /\ a \notin OldCells(w)) \/ a \in New
  <2>1. CASE puts
    <3>1. PICK i \in k + 1 .. used : a = Cell(i)
      BY <1>1, <1>10, <2>1
    <3>2. i \in 1 .. used
      BY <1>1
    <3>3. QED
      BY <1>7, <3>1, <3>2
  <2>2. CASE ~puts
    <3>1. ~DirtiesMap(w) /\ mapAddr' = mapAddr
      BY <1>1, <1>8, <1>10, <2>2, MapCellsFacts
    <3>2. QED
      BY <1>4, <1>6, <1>8, <1>10, <3>1
  <2>3. QED
    BY <2>1, <2>2
<1>11. ASSUME NEW f \in Files, NEW a, a # Nil, a = file'[f].daddr
       PROVE  (a \in Live /\ a \notin OldCells(w)) \/ a \in New
  <2>1. CASE Data(f) \in Put(w)
    <3>1. a = Cell(w[Data(f)]) /\ w[Data(f)] \in 1 .. used
      BY <1>1, <1>2, <1>3, <1>11, <2>1, LfsAssumption
    <3>2. QED
      BY <1>7, <3>1
  <2>2. CASE Data(f) \notin Put(w)
    <3>1. a = file[f].daddr
      BY <1>3, <1>11, <2>2
    <3>2. ASSUME NEW it \in Put(w), a = OldAddr(it)
          PROVE  FALSE
      <4>1. PICK g \in Files : it = Data(g) \/ it = Desc(g)
        BY <1>2
      <4>2. (it = Data(g) /\ a = file[g].daddr /\ g # f) \/ (it = Desc(g) /\ a = file[g].iaddr)
        BY <1>4, <2>2, <3>2, <4>1
      <4>3. QED
        BY <1>9, <1>11, <3>1, <4>2 DEF Distinct
    <3>3. QED
      BY <1>6, <1>8, <1>9, <1>11, <3>1, <3>2 DEF Distinct
  <2>3. QED
    BY <2>1, <2>2
<1>12. ASSUME NEW f \in Files, NEW a, a # Nil, a = file'[f].iaddr
       PROVE  (a \in Live /\ a \notin OldCells(w)) \/ a \in New
  <2>1. CASE Desc(f) \in Put(w)
    <3>1. a = Cell(w[Desc(f)]) /\ w[Desc(f)] \in 1 .. used
      BY <1>1, <1>2, <1>3, <1>12, <2>1, LfsAssumption
    <3>2. QED
      BY <1>7, <3>1
  <2>2. CASE Desc(f) \notin Put(w)
    <3>1. a = file[f].iaddr
      BY <1>3, <1>12, <2>2
    <3>2. ASSUME NEW it \in Put(w), a = OldAddr(it)
          PROVE  FALSE
      <4>1. PICK g \in Files : it = Data(g) \/ it = Desc(g)
        BY <1>2
      <4>2. (it = Desc(g) /\ a = file[g].iaddr /\ g # f) \/ (it = Data(g) /\ a = file[g].daddr)
        BY <1>4, <2>2, <3>2, <4>1
      <4>3. QED
        BY <1>9, <1>12, <3>1, <4>2 DEF Distinct
    <3>3. QED
      BY <1>6, <1>8, <1>9, <1>12, <3>1, <3>2 DEF Distinct
  <2>3. QED
    BY <2>1, <2>2
<1>13. ASSUME NEW a \in Live, a \notin OldCells(w)
       PROVE  a \in Live'
  <2>1. CASE a \in MapCells(mapAddr)
    <3>1. ~DirtiesMap(w) /\ mapAddr # Nil
      BY <1>8, <1>13, <2>1, MapCellsFacts
    <3>2. mapAddr' = mapAddr
      BY <1>1, <1>8, <3>1
    <3>3. QED
      BY <1>5, <1>6, <1>13, <2>1, <3>2
  <2>2. ASSUME NEW f \in Files, a = file[f].daddr
        PROVE  a \in Live'
    BY <1>3, <1>4, <1>5, <1>6, <1>8, <1>13, <2>2
  <2>3. ASSUME NEW f \in Files, a = file[f].iaddr
        PROVE  a \in Live'
    BY <1>3, <1>4, <1>5, <1>6, <1>8, <1>13, <2>3
  <2>4. QED
    BY <1>6, <1>13, <2>1, <2>2, <2>3
<1>14. ASSUME NEW a \in New
       PROVE  a \in Live'
  <2>1. PICK i \in 1 .. used : a = Cell(i)
    BY <1>7
  <2>2. CASE i <= k
    <3>1. PICK it \in Put(w) : w[it] = i
      BY <1>1, <1>2, <2>2
    <3>2. PICK f \in Files : it = Data(f) \/ it = Desc(f)
      BY <1>2
    <3>3. QED
      BY <1>3, <1>4, <1>5, <2>1, <3>1, <3>2
  <2>3. CASE ~(i <= k)
    <3>1. puts /\ i \in k + 1 .. used
      BY <1>1, <2>3
    <3>2. QED
      BY <1>1, <1>4, <1>5, <2>1, <3>1
  <2>4. QED
    BY <2>2, <2>3
<1>15. QED
  BY <1>5, <1>10, <1>11, <1>12, <1>13, <1>14 DEF New

LEMMA DisjointUnion ==
    ASSUME NEW S, NEW T, IsFiniteSet(S), IsFiniteSet(T), S \cap T = {}
    PROVE  Cardinality(S \cup T) = Cardinality(S) + Cardinality(T)
<1>1. Cardinality(S) \in Nat /\ Cardinality(T) \in Nat /\ Cardinality({}) = 0
  BY FS_CardinalityType, FS_EmptySet
<1>2. Cardinality(S \cup T) = Cardinality(S) + Cardinality(T) - Cardinality(S \cap T)
  BY FS_Union
<1>3. Cardinality(S \cap T) = 0
  BY FS_EmptySet, Zenon
<1>4. QED
  BY <1>1, <1>2, <1>3

\* The counts that LfsSetSegUsage keeps.
LEMMA FreedCard ==
    ASSUME LogInv, ~DiskFull, NEW p \in Procs, NEW w \in Orders(p), NEW s \in Segs
    PROVE  Freed(w, s) = Cardinality({a \in OldCells(w) : a[1] = s})
<1> DEFINE P == {it \in Put(w) : OldAddr(it)[1] = s}
           Q == {a \in OldPlaces(w) : a[1] = s}
           O == {a \in OldCells(w) : a[1] = s}
           h == [it \in P |-> OldAddr(it)]
<1>1. /\ \A it, jt \in Put(w) : OldAddr(it) # Nil /\ OldAddr(it) = OldAddr(jt) => it = jt
      /\ \A it \in Put(w) : OldAddr(it) \notin MapCells(mapAddr)
  BY OldFacts
<1>2. s # Nil[1]
  BY AddrFacts
<1>3. \A a : a \in OldPlaces(w) <=> a # Nil /\ \E it \in Put(w) : a = OldAddr(it)
  BY DEF OldPlaces
<1>4. h \in Bijection(P, Q)
  <2>1. h \in [P -> Q]
    BY <1>2, <1>3
  <2>2. \A it, jt \in P : h[it] = h[jt] => it = jt
    BY <1>1, <1>2
  <2>3. \A a \in Q : \E it \in P : h[it] = a
    BY <1>3
  <2>4. QED
    BY <2>1, <2>2, <2>3 DEF Bijection, Injection, Surjection, IsInjective
<1>5. IsFiniteSet(P)
  <2>1. IsFiniteSet(Put(w))
    BY PutFacts
  <2>2. QED
    BY <2>1, FS_Subset
<1>6. IsFiniteSet(Q) /\ Cardinality(Q) = Cardinality(P)
  BY <1>4, <1>5, FS_Bijection DEF ExistsBijection
<1>7. Freed(w, s) = Cardinality(P) + (IF DirtiesMap(w) /\ mapAddr[1] = s THEN MapSize ELSE 0)
  BY DEF Freed
<1>8. mapAddr \in MapAddrs \cup {Nil}
  BY DEF LogInv, Types, FileTypes
<1>9. Cardinality(P) \in Nat
  BY <1>5, FS_CardinalityType
<1>10. \A a : a \in OldCells(w) <=> a \in OldPlaces(w) \/ (DirtiesMap(w) /\ a \in MapCells(mapAddr))
  BY DEF OldCells
<1> HIDE DEF P, h
<1>11. CASE DirtiesMap(w) /\ mapAddr[1] = s
  <2>1. mapAddr \in MapAddrs
    BY <1>2, <1>8, <1>11
  <2>2. \A a \in MapCells(mapAddr) : a[1] = s
    BY <1>11, <2>1, MapCellsFacts
  <2>3. O = Q \cup MapCells(mapAddr) /\ Q \cap MapCells(mapAddr) = {}
    BY <1>1, <1>3, <1>10, <1>11, <2>2
  <2> HIDE DEF O, Q
  <2>4. IsFiniteSet(MapCells(mapAddr)) /\ Cardinality(MapCells(mapAddr)) = MapSize
    BY <2>1, MapCellsCard
  <2>5. Cardinality(O) = Cardinality(Q) + Cardinality(MapCells(mapAddr))
    BY <1>6, <2>3, <2>4, DisjointUnion
  <2>6. QED
    BY <1>6, <1>7, <1>11, <2>4, <2>5 DEF O
<1>12. CASE ~(DirtiesMap(w) /\ mapAddr[1] = s)
  <2>1. DirtiesMap(w) => \A a \in MapCells(mapAddr) : a[1] # s
    BY <1>8, <1>12, MapCellsFacts
  <2>2. O = Q
    BY <1>10, <2>1
  <2>3. QED
    BY <1>6, <1>7, <1>9, <1>12, <2>2
<1>13. QED
  BY <1>11, <1>12

LEMMA NewCard ==
    ASSUME LogInv, ~DiskFull, NEW p \in Procs, NEW w \in Orders(p), NEW wantsMap
    PROVE  /\ IsFiniteSet(NewCells(p, w, wantsMap))
           /\ Cardinality(NewCells(p, w, wantsMap)) = Used(p, w, wantsMap)
<1> DEFINE used == Used(p, w, wantsMap)
           N == NewCells(p, w, wantsMap)
           h == [i \in 1 .. used |-> Cell(i)]
<1>1. used \in Nat /\ \A i \in 1 .. used : i \in 1 .. Room
  BY UsedFacts, CellFacts, LfsAssumption
<1>2. N = {Cell(i) : i \in 1 .. used}
  BY DEF NewCells
<1> HIDE DEF used, N
<1>3. h \in Bijection(1 .. used, N)
  <2>1. h \in [1 .. used -> N]
    BY <1>2
  <2>2. \A i, j \in 1 .. used : h[i] = h[j] => i = j
    BY <1>1, CellFacts
  <2>3. \A a \in N : \E i \in 1 .. used : h[i] = a
    BY <1>2
  <2>4. QED
    BY <2>1, <2>2, <2>3 DEF Bijection, Injection, Surjection, IsInjective
<1>4. IsFiniteSet(1 .. used) /\ Cardinality(1 .. used) = used
  BY <1>1, FS_Interval
<1> HIDE DEF h
<1>5. IsFiniteSet(N) /\ Cardinality(N) = Cardinality(1 .. used)
  BY <1>3, <1>4, FS_Bijection DEF ExistsBijection
<1>6. QED
  BY <1>4, <1>5 DEF N, used

LEMMA UsageOut ==
    ASSUME LogInv, ~DiskFull, NEW p \in Procs, NEW w \in Orders(p), NEW wantsMap,
           file' = FilesOut(w), mapAddr' = MapOut(p, w, wantsMap), cp' = TailOut(p, w, wantsMap)
    PROVE  UsageAgrees'
<1> DEFINE t == LfsGetLogTail
           used == Used(p, w, wantsMap)
           New == NewCells(p, w, wantsMap)
<1>1. \A a : a \in Live' <=> (a \in Live /\ a \notin OldCells(w)) \/ a \in New
  BY LiveOut
<1>2. /\ cp'.clean = t.clean
      /\ \A s \in Segs : cp'.usage[s] = Less(t.usage[s], Freed(w, s)) + (IF s = t.cur THEN used ELSE 0)
  BY TailOutFacts
<1>3. OldCells(w) \subseteq Live /\ \A a \in New : a \in Addrs /\ a \notin Live /\ a[1] = t.cur
  BY OldFacts
<1>4. IsFiniteSet(New) /\ Cardinality(New) = used /\ used \in Nat
  BY NewCard, UsedFacts
<1>5. \A s \in Segs \ ToSet(t.clean) : t.usage[s] = Cardinality({a \in Live : a[1] = s})
  BY TailFacts
<1>6. Live \subseteq Addrs
  BY LiveFacts DEF LogInv, Types
<1> HIDE DEF t, used, New
<1>7. ASSUME NEW s \in Segs, s \notin ToSet(cp'.clean)
      PROVE  cp'.usage[s] = Cardinality({a \in Live' : a[1] = s})
  <2> DEFINE L == {a \in Live : a[1] = s}
             O == {a \in OldCells(w) : a[1] = s}
             M == {a \in Live' : a[1] = s}
             K == L \ O
  <2>1. t.usage[s] = Cardinality(L)
    BY <1>2, <1>5, <1>7
  <2>2. IsFiniteSet(L) /\ Cardinality(L) \in Nat
    BY <1>6, AddrsFinite, FS_CardinalityType
  <2>3. L \cap O = O /\ K \cap New = {} /\ O \subseteq L
    BY <1>3
  <2>4. Freed(w, s) = Cardinality(O)
    BY FreedCard
  <2>5. M = IF s = t.cur THEN K \cup New ELSE K
    BY <1>1, <1>3
  <2> HIDE DEF L, O, M
  <2>6. /\ IsFiniteSet(K) /\ Cardinality(K) = Cardinality(L) - Cardinality(O)
        /\ Cardinality(K) \in Nat /\ Cardinality(O) \in Nat
    <3>1. IsFiniteSet(K) /\ Cardinality(K) = Cardinality(L) - Cardinality(O)
      BY <2>2, <2>3, FS_Difference, ZenonT(60)
    <3>2. IsFiniteSet(O)
      BY <2>2, <2>3, FS_Subset
    <3>3. QED
      BY <3>1, <3>2, FS_CardinalityType
  <2>7. Less(t.usage[s], Freed(w, s)) = Cardinality(K)
    BY <2>1, <2>2, <2>4, <2>6 DEF Less
  <2> HIDE DEF K
  <2>8. CASE s = t.cur
    <3>1. Cardinality(M) = Cardinality(K) + Cardinality(New)
      BY <1>4, <2>3, <2>5, <2>6, <2>8, DisjointUnion
    <3>2. QED
      BY <1>2, <1>4, <2>7, <2>8, <3>1 DEF M
  <2>9. CASE s # t.cur
    <3>1. M = K
      BY <2>5, <2>9
    <3>2. cp'.usage[s] = Cardinality(K)
      BY <1>2, <2>6, <2>7, <2>9
    <3>3. QED
      BY <3>1, <3>2, Zenon DEF M
  <2>10. QED
    BY <2>8, <2>9
<1>8. QED
  BY <1>7 DEF UsageAgrees
-----------------------------------------------------------------------------
(* A segment is filled: the step.                                          *)

\* WriteSegment for one order of the blocks.
FillsSegment(p, w, wantsMap) ==
    /\ NoGap /\ pc[p] \in {"create", "segretry"} /\ ~DiskFull
    /\ writeActive' = TRUE /\ DoOutCallBacks(p, w, wantsMap)
    /\ UNCHANGED <<area, nextArea, ts, numDirty, ckptWait, job, uses, crashes>>

LEMMA FillStages ==
    ASSUME LogInv, NEW p \in Procs, NEW w \in Orders(p), NEW wantsMap, FillsSegment(p, w, wantsMap)
    PROVE  /\ pc' \in [Procs -> Stages] /\ pc'[p] = "out"
           /\ \A q \in Procs \ {p} : \/ pc'[q] = pc[q]
                                     \/ q = Cleaner /\ pc[q] = "idle" /\ pc'[q] = "pick"
           /\ DOMAIN out' = Procs
           /\ Flying(p)' = NewCells(p, w, wantsMap) /\ out'[p].blocks = BlocksOut(p, w, wantsMap)
           /\ \A q \in Procs \ {p} : out'[q] = out[q] /\ Flying(q)' = Flying(q)
           /\ \A a \in Addrs : disk'[a] = IF a \in NewCells(p, w, wantsMap) THEN NoBlock ELSE disk[a]
           /\ Flying(p) = {} /\ ~Filled(p)
           /\ Filled(p)' <=> IsCkpt(p) /\ ~IsFull(p, w, wantsMap)
           /\ \A q \in Procs \ {p} : (Filled(q)' <=> Filled(q)) /\ ck'[q] = ck[q]
           /\ Filled(p)' => ck'[p] = FillRegion(p, file', mapAddr', cp')
           /\ ~Filled(p)' => ck' = ck
<1> DEFINE o == [blocks |-> BlocksOut(p, w, wantsMap),
                 files |-> {f \in Files : Desc(f) \in DOMAIN w
                              /\ w[IF Data(f) \in DOMAIN w THEN Data(f) ELSE Desc(f)] <= Room + 1},
                 datas |-> {f \in Files : Data(f) \in Put(w)},
                 map |-> PutsMap(p, w, wantsMap), full |-> IsFull(p, w, wantsMap)]
           pcs == [pc EXCEPT ![p] = "out"]
<1>1. /\ out' = [out EXCEPT ![p] = o]
      /\ disk' = [a \in Addrs |-> IF a \in DOMAIN BlocksOut(p, w, wantsMap) THEN NoBlock ELSE disk[a]]
      /\ ck' = IF IsCkpt(p) /\ ~IsFull(p, w, wantsMap)
               THEN [ck EXCEPT ![p] = FillRegion(p, file', mapAddr', cp')] ELSE ck
      /\ pc' \in {pcs, LfsSegCleanStart(pcs)} /\ UNCHANGED job /\ pc[p] \in {"create", "segretry"}
  BY DEF FillsSegment, DoOutCallBacks
<1>2. /\ pc \in [Procs -> Stages] /\ DOMAIN out = Procs /\ ck \in [Procs -> CkRecs \cup {NoRegion}]
      /\ \A x \in Procs : pc[x] # "out" => Flying(x) = {}
  BY DEF LogInv, Types, ProcTypes, AreaTypes, Space, FlyingKept
<1>3. DOMAIN BlocksOut(p, w, wantsMap) = NewCells(p, w, wantsMap)
  BY BlocksFacts DEF FillsSegment
<1>4. o.blocks = BlocksOut(p, w, wantsMap) /\ o.full = IsFull(p, w, wantsMap)
  OBVIOUS
<1> HIDE DEF o
<1>5. /\ pcs \in [Procs -> Stages] /\ pcs[p] = "out" /\ \A q \in Procs \ {p} : pcs[q] = pc[q]
  BY <1>2 DEF Stages
<1> HIDE DEF pcs
<1>6. /\ pc' \in [Procs -> Stages] /\ pc'[p] = "out"
      /\ \A q \in Procs \ {p} : \/ pc'[q] = pc[q]
                                \/ q = Cleaner /\ pc[q] = "idle" /\ pc'[q] = "pick"
  BY <1>1, <1>5 DEF LfsSegCleanStart, Stages
<1>7. /\ DOMAIN out' = Procs /\ out'[p] = o /\ \A q \in Procs \ {p} : out'[q] = out[q]
  BY <1>1, <1>2
<1>8. Flying(p)' = NewCells(p, w, wantsMap) /\ \A q \in Procs \ {p} : Flying(q)' = Flying(q)
  BY <1>3, <1>4, <1>7 DEF Flying
<1>9. Flying(p) = {} /\ ~Filled(p)
  BY <1>1, <1>2 DEF Filled
<1>10. Filled(p)' <=> IsCkpt(p) /\ ~IsFull(p, w, wantsMap)
  BY <1>1, <1>4, <1>6, <1>7 DEF Filled, IsCkpt
<1>11. \A q \in Procs \ {p} : (Filled(q)' <=> Filled(q)) /\ ck'[q] = ck[q]
  <2>1. \A q \in Procs \ {p} : ck'[q] = ck[q]
    BY <1>1, <1>2
  <2>2. \A q \in Procs \ {p} : Filled(q)' <=> Filled(q)
    BY <1>1, <1>6, <1>7 DEF Filled, IsCkpt
  <2>3. QED
    BY <2>1, <2>2
<1>12. /\ Filled(p)' => ck'[p] = FillRegion(p, file', mapAddr', cp')
       /\ ~Filled(p)' => ck' = ck
  BY <1>1, <1>2, <1>10
<1>13. QED
  BY <1>1, <1>3, <1>4, <1>6, <1>7, <1>8, <1>9, <1>10, <1>11, <1>12

\* The files, the map and the tail after the step.
LEMMA FillFiles ==
    ASSUME LogInv, NEW p \in Procs, NEW w \in Orders(p), NEW wantsMap, FillsSegment(p, w, wantsMap)
    PROVE  /\ file' = FilesOut(w) /\ mapAddr' = MapOut(p, w, wantsMap) /\ cp' = TailOut(p, w, wantsMap)
           /\ FlagTypes' /\ FileTypes' /\ CleanOK' /\ UsageAgrees'
           /\ \A a \in Addrs : Free(a)' => Free(a)
           /\ \A a \in NewCells(p, w, wantsMap) : a \in Addrs /\ Free(a) /\ ~Free(a)'
           /\ \A a : a \in Live' <=> (a \in Live /\ a \notin OldCells(w)) \/ a \in NewCells(p, w, wantsMap)
           /\ Live' \subseteq Addrs
           /\ \A s \in Segs : s # cp.cur /\ s \notin ToSet(cp.clean) =>
                 s # cp'.cur /\ s \notin ToSet(cp'.clean) /\ \A a \in NewCells(p, w, wantsMap) : a[1] # s
<1> DEFINE New == NewCells(p, w, wantsMap)
           t == LfsGetLogTail
<1>1. /\ file' = FilesOut(w) /\ mapAddr' = MapOut(p, w, wantsMap) /\ cp' = TailOut(p, w, wantsMap)
      /\ checked' \in {p, checked} /\ ~DiskFull /\ writeActive' = TRUE
      /\ UNCHANGED <<numDirty, ckptWait, uses>>
  BY DEF FillsSegment, DoOutCallBacks
<1>2. FlagTypes' /\ FileTypes'
  <2>1. FlagTypes'
    BY <1>1 DEF LogInv, Types, FlagTypes
  <2>2. FileTypes'
    BY <1>1, FilesOutFacts, TailOutFacts, UsedFacts DEF FileTypes
  <2>3. QED
    BY <2>1, <2>2
<1>3. UsageAgrees'
  BY <1>1, UsageOut
<1>4. \A a : a \in Live' <=> (a \in Live /\ a \notin OldCells(w)) \/ a \in New
  BY <1>1, LiveOut
<1>5. /\ cp'.cur = t.cur /\ cp'.clean = t.clean
      /\ \A a \in Addrs : FreeOf(cp', a) => FreeOf(t, a)
      /\ \A a \in New : ~FreeOf(cp', a)
  BY <1>1, TailOutFacts
<1>6. /\ t.cur \notin ToSet(t.clean) /\ IsInjective(t.clean)
      /\ ToSet(t.clean) \subseteq ToSet(cp.clean)
      /\ t.cur = cp.cur \/ t.cur \in ToSet(cp.clean)
      /\ \A a : FreeOf(t, a) => Free(a)
  BY <1>1, TailFacts
<1>7. \A a \in New : a \in Addrs /\ Free(a) /\ a[1] = t.cur
  BY <1>1, OldFacts
<1> HIDE DEF t, New
<1>8. \A a : Free(a)' <=> FreeOf(cp', a)
  BY DEF Free, FreeOf
<1>9. CleanOK'
  BY <1>5, <1>6 DEF CleanOK
<1>10. Live \subseteq Addrs
  BY LiveFacts DEF LogInv, Types
<1>11. \A s \in Segs : s # cp.cur /\ s \notin ToSet(cp.clean) =>
          s # cp'.cur /\ s \notin ToSet(cp'.clean) /\ \A a \in New : a[1] # s
  BY <1>5, <1>6, <1>7
<1>12. (\A a \in Addrs : Free(a)' => Free(a)) /\ \A a \in New : a \in Addrs /\ Free(a) /\ ~Free(a)'
  BY <1>5, <1>6, <1>7, <1>8
<1>13. Live' \subseteq Addrs
  BY <1>4, <1>7, <1>10
<1>14. QED
  BY <1>1, <1>2, <1>3, <1>4, <1>9, <1>11, <1>12, <1>13 DEF New

\* No two things are at one place after the step.
LEMMA FillDistinct ==
    ASSUME LogInv, NEW p \in Procs, NEW w \in Orders(p), NEW wantsMap, FillsSegment(p, w, wantsMap)
    PROVE  Distinct'
<1> DEFINE k == Cardinality(Put(w))
           used == Used(p, w, wantsMap)
           puts == PutsMap(p, w, wantsMap)
           New == NewCells(p, w, wantsMap)
<1>1. ~DiskFull /\ file' = FilesOut(w) /\ mapAddr' = MapOut(p, w, wantsMap)
  BY FillFiles DEF FillsSegment
<1>2. \A f \in Files :
         /\ file'[f].daddr = IF Data(f) \in Put(w) THEN Cell(w[Data(f)]) ELSE file[f].daddr
         /\ file'[f].iaddr = IF Desc(f) \in Put(w) THEN Cell(w[Desc(f)]) ELSE file[f].iaddr
  BY <1>1, FilesOutFacts
<1>3. /\ k \in Nat /\ used \in Nat /\ used <= Room /\ Room \in Nat
      /\ puts => \A a : a \in MapCells(mapAddr') <=> \E i \in k + 1 .. used : a = Cell(i)
      /\ ~puts => mapAddr' \in {Nil, mapAddr}
  BY <1>1, UsedFacts, PutFacts, CellFacts, LfsAssumption DEF MapLeft
<1>4. \A it \in Put(w) : w[it] \in 1 .. k /\ w[it] \in 1 .. Room /\ Cell(w[it]) \in New
  <2>1. k <= Room
    BY <1>1, PutFacts
  <2>2. QED
    BY <1>1, <1>3, <2>1, PutFacts, BlocksFacts
<1>5. \A it, jt \in Put(w) : Cell(w[it]) = Cell(w[jt]) => it = jt
  BY <1>1, <1>4, PutFacts, CellFacts
<1>6. \A f, g : /\ Data(f) # Desc(g) /\ (Data(f) = Data(g) => f = g)
                /\ (Desc(f) = Desc(g) => f = g)
  BY ItemFacts
<1>7. \A f \in Files : /\ file[f].daddr \notin New /\ file[f].iaddr \notin New
  <2>1. \A a \in New : a \notin Live /\ a # Nil
    BY <1>1, OldFacts, AddrFacts
  <2>2. \A f \in Files : /\ file[f].daddr # Nil => file[f].daddr \in Live
                         /\ file[f].iaddr # Nil => file[f].iaddr \in Live
    BY LiveFacts DEF LogInv, Types
  <2>3. QED
    BY <2>1, <2>2
<1>8. Distinct
  BY DEF LogInv, Space
<1>9. \A a \in MapCells(mapAddr') : (a \in New /\ \A it \in Put(w) : a # Cell(w[it])) \/ a \in MapCells(mapAddr)
  <2>1. ASSUME NEW a \in MapCells(mapAddr'), puts
        PROVE  a \in New /\ \A it \in Put(w) : a # Cell(w[it])
    <3>1. PICK i \in k + 1 .. used : a = Cell(i)
      BY <1>3, <2>1
    <3>2. i \in 1 .. used /\ i \in 1 .. Room /\ \A it \in Put(w) : w[it] # i
      BY <1>3, <1>4
    <3>3. QED
      BY <1>1, <1>4, <3>1, <3>2, CellFacts DEF NewCells
  <2>2. QED
    BY <1>3, <2>1, MapCellsFacts
<1>10. \A a \in MapCells(mapAddr) : a \notin New
  <2>1. MapCells(mapAddr) \subseteq Live
    <3>1. FileTypes
      BY DEF LogInv, Types
    <3>2. Nil \notin MapCells(mapAddr)
      BY <3>1, MapCellsFacts, AddrFacts DEF FileTypes
    <3>3. QED
      BY <3>1, <3>2, LiveFacts
  <2>2. QED
    BY <1>1, <2>1, OldFacts
<1> HIDE DEF New, k, used, puts
<1>11. ASSUME NEW f \in Files, NEW g \in Files, f # g
       PROVE  /\ file'[f].daddr # Nil => file'[f].daddr # file'[g].daddr
              /\ file'[f].iaddr # Nil => file'[f].iaddr # file'[g].iaddr
  <2>1. file'[f].daddr # Nil => file'[f].daddr # file'[g].daddr
    BY <1>2, <1>4, <1>5, <1>6, <1>7, <1>8, <1>11 DEF Distinct
  <2>2. file'[f].iaddr # Nil => file'[f].iaddr # file'[g].iaddr
    BY <1>2, <1>4, <1>5, <1>6, <1>7, <1>8, <1>11 DEF Distinct
  <2>3. QED
    BY <2>1, <2>2
<1>12. ASSUME NEW f \in Files, NEW g \in Files
       PROVE  file'[f].daddr # Nil => file'[f].daddr # file'[g].iaddr
  BY <1>2, <1>4, <1>5, <1>6, <1>7, <1>8 DEF Distinct
<1>13. ASSUME NEW f \in Files
       PROVE  file'[f].daddr \notin MapCells(mapAddr') /\ file'[f].iaddr \notin MapCells(mapAddr')
  BY <1>2, <1>4, <1>7, <1>8, <1>9, <1>10 DEF Distinct
<1>14. QED
  BY <1>11, <1>12, <1>13 DEF Distinct, MapCells

LEMMA FillSpace ==
    ASSUME LogInv, NEW p \in Procs, NEW w \in Orders(p), NEW wantsMap, FillsSegment(p, w, wantsMap)
    PROVE  Space'
<1> DEFINE New == NewCells(p, w, wantsMap)
<1>1. /\ ~DiskFull /\ file' = FilesOut(w) /\ mapAddr' = MapOut(p, w, wantsMap) /\ UNCHANGED job /\ CleanOK'
      /\ \A a \in Addrs : Free(a)' => Free(a)
      /\ \A a \in New : a \in Addrs /\ Free(a) /\ ~Free(a)'
      /\ \A a : a \in Live' <=> (a \in Live /\ a \notin OldCells(w)) \/ a \in New
      /\ Live' \subseteq Addrs
      /\ \A s \in Segs : s # cp.cur /\ s \notin ToSet(cp.clean) =>
            s # cp'.cur /\ s \notin ToSet(cp'.clean) /\ \A a \in New : a[1] # s
  BY FillFiles DEF FillsSegment
<1>2. /\ pc'[p] = "out" /\ Flying(p)' = New
      /\ \A q \in Procs \ {p} : \/ pc'[q] = pc[q]
                                \/ q = Cleaner /\ pc[q] = "idle" /\ pc'[q] = "pick"
      /\ \A q \in Procs \ {p} : Flying(q)' = Flying(q)
      /\ \A a \in Addrs : disk'[a] = IF a \in New THEN NoBlock ELSE disk[a]
      /\ pc[p] \in {"create", "segretry"}
  BY FillStages DEF FillsSegment
<1>3. Space
  BY DEF LogInv
<1> HIDE DEF New
<1>4. LiveKept'
  BY <1>1, <1>3 DEF Space, LiveKept
<1>5. FlyingKept'
  <2>1. \A q \in Procs : pc'[q] # "out" => Flying(q)' = {}
    BY <1>2, <1>3 DEF Space, FlyingKept
  <2>2. \A q \in Procs : \A a \in Flying(q)' : a \in Addrs /\ ~Free(a)' /\ disk'[a] = NoBlock
    BY <1>1, <1>2, <1>3 DEF Space, FlyingKept
  <2>3. \A q \in Procs \ {p} : New \cap Flying(q) = {}
    BY <1>1, <1>3 DEF Space, FlyingKept
  <2>4. \A x, y \in Procs : x # y => Flying(x)' \cap Flying(y)' = {}
    BY <1>2, <1>3, <2>3 DEF Space, FlyingKept
  <2>5. QED
    BY <2>1, <2>2, <2>4 DEF FlyingKept
<1>6. JobOK'
  <2>1. SUFFICES ASSUME pc'[Cleaner] \in Cleaning
                 PROVE  JobOK'
    BY DEF JobOK
  <2>2. /\ IsInjective(job.read) /\ IsInjective(job.todo) /\ Reads \cap ToSet(job.todo) = {}
        /\ \A s \in Reads \cup ToSet(job.todo) : s # cp.cur /\ s \notin ToSet(cp.clean)
        /\ \A s \in Reads :
              /\ mapAddr[1] # s
              /\ \A f \in Files : /\ file[f].daddr[1] = s => file[f].dirty
                                  /\ file[f].iaddr[1] = s => file[f].desc
    <3>1. pc[Cleaner] \in Cleaning
      BY <1>2, <2>1, ProcFacts DEF Cleaning
    <3>2. QED
      BY <1>3, <3>1 DEF Space, JobOK
  <2>3. Reads' = Reads /\ \A s \in Reads \cup ToSet(job.todo) : s \in Segs
    BY <1>1, CleanerFacts, SetOfSeq DEF Reads
  <2>4. ASSUME NEW s \in Reads
        PROVE  /\ mapAddr'[1] # s
               /\ \A f \in Files : /\ file'[f].daddr[1] = s => file'[f].dirty
                                   /\ file'[f].iaddr[1] = s => file'[f].desc
    <3>1. s \in Segs /\ \A a \in New : a[1] # s
      BY <1>1, <2>2, <2>3, <2>4
    <3>2. mapAddr'[1] # s
      <4>1. mapAddr' \in New \/ mapAddr' \in {Nil, mapAddr}
        BY <1>1, UsedFacts, BlocksFacts DEF MapLeft, New
      <4>2. QED
        BY <2>2, <3>1, <4>1, AddrFacts
    <3>3. ASSUME NEW f \in Files
          PROVE  /\ file'[f].daddr[1] = s => file'[f].dirty
                 /\ file'[f].iaddr[1] = s => file'[f].desc
      <4>1. /\ file'[f].daddr = IF Data(f) \in Put(w) THEN Cell(w[Data(f)]) ELSE file[f].daddr
            /\ file'[f].iaddr = IF Desc(f) \in Put(w) THEN Cell(w[Desc(f)]) ELSE file[f].iaddr
            /\ file'[f].dirty <=> file[f].dirty /\ Data(f) \notin Put(w)
            /\ file'[f].desc <=> (file[f].desc \/ Data(f) \in Put(w)) /\ Desc(f) \notin Put(w)
        BY <1>1, FilesOutFacts
      <4>2. \A it \in Put(w) : Cell(w[it]) \in New
        BY <1>1, BlocksFacts DEF New
      <4>3. QED
        BY <2>2, <3>1, <4>1, <4>2
    <3>4. QED
      BY <3>2, <3>3
  <2>5. \A s \in Reads \cup ToSet(job.todo) : s # cp'.cur /\ s \notin ToSet(cp'.clean)
    BY <1>1, <2>2, <2>3
  <2>6. job' = job
    BY <1>1
  <2>7. QED
    BY <2>2, <2>3, <2>4, <2>5, <2>6 DEF JobOK
<1>7. QED
  BY <1>1, <1>4, <1>5, <1>6, FillDistinct DEF Space

\* What is stored after the step.
LEMMA FillStored ==
    ASSUME LogInv, NEW p \in Procs, NEW w \in Orders(p), NEW wantsMap, FillsSegment(p, w, wantsMap)
    PROVE  /\ \A a \in Live : \A b : Stored(a, b) => Stored(a, b)'
           /\ \A a \in NewCells(p, w, wantsMap) : \A b : b = BlocksOut(p, w, wantsMap)[a] => Stored(a, b)'
<1> DEFINE New == NewCells(p, w, wantsMap)
           B == BlocksOut(p, w, wantsMap)
<1>1. /\ Flying(p)' = New /\ out'[p].blocks = B /\ Flying(p) = {}
      /\ \A q \in Procs \ {p} : out'[q] = out[q] /\ Flying(q)' = Flying(q)
      /\ \A a \in Addrs : disk'[a] = IF a \in New THEN NoBlock ELSE disk[a]
  BY FillStages
<1>2. Live \subseteq Addrs /\ \A a \in New : a \notin Live
  BY LiveFacts, OldFacts DEF LogInv, Types, FillsSegment
<1> HIDE DEF New, B
<1>3. ASSUME NEW a \in Live, NEW b, Stored(a, b)
      PROVE  Stored(a, b)'
  <2>1. CASE disk[a] = b
    BY <1>1, <1>2, <2>1 DEF Stored
  <2>2. ASSUME NEW q \in Procs, a \in Flying(q), out[q].blocks[a] = b
        PROVE  Stored(a, b)'
    <3>1. a \in Flying(q)' /\ out'[q].blocks[a] = b
      BY <1>1, <2>2
    <3>2. QED
      BY <3>1 DEF Stored
  <2>3. QED
    BY <1>3, <2>1, <2>2 DEF Stored
<1>4. ASSUME NEW a \in New
      PROVE  \E q \in Procs : a \in Flying(q)' /\ out'[q].blocks[a] = B[a]
  BY <1>1
<1>5. QED
  <2>1. ASSUME NEW a \in New, NEW b, b = B[a]
        PROVE  Stored(a, b)'
    BY <1>4, <2>1 DEF Stored
  <2>2. QED
    BY <1>3, <2>1 DEF New, B

LEMMA FillFileStored ==
    ASSUME LogInv, NEW p \in Procs, NEW w \in Orders(p), NEW wantsMap, FillsSegment(p, w, wantsMap),
           NEW f \in Files
    PROVE  FileStored(f)'
<1> DEFINE New == NewCells(p, w, wantsMap)
           B == BlocksOut(p, w, wantsMap)
<1>1. ~DiskFull /\ file' = FilesOut(w) /\ uses' = uses /\ FileTypes
  BY FillFiles DEF FillsSegment, LogInv, Types
<1>2. /\ file'[f].ver = file[f].ver /\ file'[f].held = file[f].held
      /\ file'[f].daddr = IF Data(f) \in Put(w) THEN Cell(w[Data(f)]) ELSE file[f].daddr
      /\ file'[f].iaddr = IF Desc(f) \in Put(w) THEN Cell(w[Desc(f)]) ELSE file[f].iaddr
      /\ file'[f].dirty <=> file[f].dirty /\ Data(f) \notin Put(w)
      /\ file'[f].desc <=> (file[f].desc \/ Data(f) \in Put(w)) /\ Desc(f) \notin Put(w)
  BY <1>1, FilesOutFacts
<1>3. FileStored(f) /\ file[f].ver \in Nat
  BY FileFacts
<1>4. \A it \in Put(w) : Cell(w[it]) \in New /\ B[Cell(w[it])] = BlockOf(it, file')
  BY <1>1, BlocksFacts
<1>5. /\ \A a \in Live : \A b : Stored(a, b) => Stored(a, b)'
      /\ \A a \in New : \A b : b = B[a] => Stored(a, b)'
  BY FillStored
<1>6. /\ file[f].daddr # Nil => file[f].daddr \in Live
      /\ file[f].iaddr # Nil => file[f].iaddr \in Live
  BY <1>1, LiveFacts
<1>7. Nil \notin New
  BY <1>1, OldFacts, AddrFacts
<1> HIDE DEF New, B
<1>8. ASSUME file[f].ver = 0
      PROVE  Data(f) \notin Put(w) /\ Desc(f) \notin Put(w)
  <2>1. f \notin Eligible(p)
    BY <1>3, <1>8 DEF FileStored, Eligible
  <2>2. Desc(f) \notin DOMAIN w /\ Data(f) \notin DOMAIN w
    BY <2>1, ItemFacts
  <2>3. QED
    BY <2>2 DEF Put
<1>9. /\ BlockOf(Data(f), file') = DataBlock(f, file[f].ver)
      /\ BlockOf(Desc(f), file') = DescBlock(f, file'[f].daddr)
  BY DEF BlockOf, Data, Desc, DataBlock, DescBlock
<1>10. ASSUME file[f].ver > 0, ~file'[f].dirty
       PROVE  file'[f].daddr # Nil /\ Stored(file[f].daddr, DataBlock(f, file[f].ver))'
  <2>1. PICK v : v = file[f].ver
    OBVIOUS
  <2>2. CASE Data(f) \in Put(w)
    <3>1. PICK a : a = file'[f].daddr
      OBVIOUS
    <3>2. a \in New /\ B[a] = DataBlock(f, v)
      BY <1>2, <1>4, <1>9, <2>1, <2>2, <3>1
    <3>3. Stored(a, DataBlock(f, v))'
      BY <1>5, <3>2 DEF DataBlock
    <3>4. QED
      BY <1>2, <1>7, <2>1, <3>1, <3>2, <3>3
  <2>3. CASE Data(f) \notin Put(w)
    <3>1. file'[f].daddr = file[f].daddr /\ file[f].daddr # Nil /\ Stored(file[f].daddr, DataBlock(f, v))
      BY <1>2, <1>3, <1>10, <2>1, <2>3 DEF FileStored
    <3>2. QED
      BY <1>2, <1>5, <1>6, <2>1, <3>1
  <2>4. QED
    BY <2>2, <2>3
<1>11. ASSUME file[f].ver > 0, ~file'[f].dirty, ~file'[f].desc
       PROVE  file'[f].iaddr # Nil /\ Stored(file[f].iaddr, DescBlock(f, file[f].daddr))'
  <2>1. PICK d : d = file'[f].daddr
    OBVIOUS
  <2>2. CASE Desc(f) \in Put(w)
    <3>1. PICK i : i = file'[f].iaddr
      OBVIOUS
    <3>2. i \in New /\ B[i] = DescBlock(f, d)
      BY <1>2, <1>4, <1>9, <2>1, <2>2, <3>1
    <3>3. Stored(i, DescBlock(f, d))'
      BY <1>5, <3>2 DEF DescBlock
    <3>4. QED
      BY <1>7, <2>1, <3>1, <3>2, <3>3
  <2>3. CASE Desc(f) \notin Put(w)
    <3>1. /\ file'[f].iaddr = file[f].iaddr /\ file'[f].daddr = file[f].daddr /\ file[f].iaddr # Nil
          /\ Stored(file[f].iaddr, DescBlock(f, d))
      BY <1>2, <1>3, <1>11, <2>1, <2>3 DEF FileStored
    <3>2. PICK i : i = file[f].iaddr
      OBVIOUS
    <3>3. Stored(i, DescBlock(f, d))'
      BY <1>5, <1>6, <3>1, <3>2 DEF DescBlock
    <3>4. QED
      BY <2>1, <3>1, <3>2, <3>3
  <2>4. QED
    BY <2>2, <2>3
<1>12. file'[f].ver = 0 => /\ ~file'[f].dirty /\ ~file'[f].desc
                           /\ file'[f].daddr = Nil /\ file'[f].iaddr = Nil
  BY <1>2, <1>3, <1>8 DEF FileStored
<1>13. file'[f].ver <= uses' /\ (file'[f].held \cap {"write", "alloc"} # {} => uses' > 0)
  BY <1>1, <1>2, <1>3 DEF FileStored
<1>14. ASSUME file'[f].ver > 0, ~file'[f].dirty
       PROVE  /\ file'[f].daddr # Nil /\ Stored(file[f].daddr, DataBlock(f, file[f].ver))'
              /\ ~file'[f].desc => /\ file'[f].iaddr # Nil
                                   /\ Stored(file[f].iaddr, DescBlock(f, file[f].daddr))'
  BY <1>2, <1>10, <1>11, <1>14
<1>15. QED
  BY <1>12, <1>13, <1>14 DEF FileStored

LEMMA FillMapStored ==
    ASSUME LogInv, NEW p \in Procs, NEW w \in Orders(p), NEW wantsMap, FillsSegment(p, w, wantsMap)
    PROVE  MapStored'
<1> DEFINE New == NewCells(p, w, wantsMap)
           B == BlocksOut(p, w, wantsMap)
           puts == PutsMap(p, w, wantsMap)
           t == LfsGetLogTail
<1>1. /\ ~DiskFull /\ file' = FilesOut(w) /\ mapAddr' = MapOut(p, w, wantsMap)
      /\ cp' = TailOut(p, w, wantsMap) /\ cp' \in TailRecs /\ FileTypes
  BY FillFiles DEF FillsSegment, LogInv, Types, FileTypes
<1>2. /\ puts => mapAddr' \in New /\ B[mapAddr'] = MapBlock(file', cp')
      /\ ~puts => mapAddr' = MapLeft(w)
  BY <1>1, BlocksFacts, UsedFacts
<1>3. /\ \A a \in Live : \A b : Stored(a, b) => Stored(a, b)'
      /\ \A a \in New : \A b : b = B[a] => Stored(a, b)'
  BY FillStored
<1> HIDE DEF New, B
<1>4. CASE puts
  <2>1. PICK a, u, b : a = mapAddr' /\ u = cp'.usage /\ b = MapBlock(file', cp')
    OBVIOUS
  <2>2. u \in [Segs -> Nat]
    BY <1>1, <2>1 DEF TailRecs
  <2>3. Stored(a, b)'
    BY <1>2, <1>3, <1>4, <2>1
  <2>4. MapIs(u)' = b
    BY <2>1 DEF MapIs, MapBlock
  <2>5. Stored(mapAddr, MapIs(u))'
    BY <2>1, <2>3, <2>4 DEF Stored
  <2>6. QED
    BY <2>1, <2>2, <2>5 DEF MapStored
<1>5. CASE ~puts /\ mapAddr' # Nil
  <2>1. ~DirtiesMap(w) /\ mapAddr' = mapAddr /\ mapAddr # Nil
    BY <1>2, <1>5 DEF MapLeft
  <2>2. cp.off # -1 /\ t = cp
    BY <1>1, <2>1, TailFacts DEF DirtiesMap
  <2>3. \A it \in Put(w) : it.kind # "desc" /\ (OldAddr(it) = Nil \/ OldAddr(it)[1] = t.cur)
    BY <2>1 DEF DirtiesMap
  <2>4. \A f \in Files : file'[f].iaddr = file[f].iaddr
    <3>1. \A f \in Files : Desc(f) \notin Put(w)
      BY <2>3 DEF Desc
    <3>2. QED
      BY <1>1, <3>1, FilesOutFacts
  <2>5. /\ cp'.cur = cp.cur /\ cp'.clean = cp.clean
        /\ \A s \in Segs : s # cp.cur => cp'.usage[s] = cp.usage[s]
    <3>1. /\ cp'.cur = cp.cur /\ cp'.clean = cp.clean
          /\ \A s \in Segs : s # cp.cur => cp'.usage[s] = Less(cp.usage[s], Freed(w, s)) + 0
      BY <1>1, <2>2, TailOutFacts
    <3>2. ASSUME NEW s \in Segs, s # cp.cur
          PROVE  Freed(w, s) = 0
      <4>1. \A it \in Put(w) : OldAddr(it)[1] # s
        BY <2>2, <2>3, <3>2, AddrFacts
      <4>2. {it \in Put(w) : OldAddr(it)[1] = s} = {}
        BY <4>1
      <4>3. Cardinality({it \in Put(w) : OldAddr(it)[1] = s}) = 0
        BY <4>2, FS_EmptySet, Zenon
      <4>4. QED
        BY <2>1, <4>3 DEF Freed
    <3>3. \A s \in Segs : cp.usage[s] \in Nat
      BY CleanerFacts
    <3>4. QED
      BY <3>1, <3>2, <3>3 DEF Less
  <2>6. PICK u \in [Segs -> Nat] : /\ Stored(mapAddr, MapIs(u))
                                   /\ \A s \in Segs : s # cp.cur => u[s] = cp.usage[s]
    BY <2>1 DEF LogInv, Contents, MapStored
  <2>7. PICK a, b : a = mapAddr /\ b = MapIs(u)
    OBVIOUS
  <2>8. mapAddr \in Live
    <3>1. mapAddr \in MapAddrs
      BY <1>1, <2>1 DEF FileTypes
    <3>2. QED
      BY <1>1, <2>1, <3>1, MapCellsFacts, LiveFacts
  <2>9. Stored(a, b)'
    BY <1>3, <2>6, <2>7, <2>8
  <2>10. MapIs(u)' = b
    <3>1. [f \in Files |-> file'[f].iaddr] = [f \in Files |-> file[f].iaddr]
      BY <2>4
    <3>2. QED
      BY <2>5, <2>7, <3>1 DEF MapIs
  <2>11. Stored(mapAddr, MapIs(u))'
    BY <2>1, <2>7, <2>9, <2>10 DEF Stored
  <2>12. QED
    BY <2>5, <2>6, <2>11 DEF MapStored
<1>6. CASE mapAddr' = Nil
  BY <1>6 DEF MapStored
<1>7. QED
  BY <1>4, <1>5, <1>6
-----------------------------------------------------------------------------
(* A segment is filled: the region of the checkpoint.                      *)

\* A file system whose files fl, map m and tail c are stored in the blocks d.
StoredSystem(d, fl, c, m, u, L) ==
    /\ fl \in [Files -> FileRecs] /\ c \in TailRecs /\ m \in MapAddrs /\ u \in [Segs -> Nat]
    /\ d[m] = [kind |-> "map", at |-> [f \in Files |-> fl[f].iaddr], clean |-> c.clean, usage |-> u]
    /\ \A s \in Segs : s # c.cur => u[s] = c.usage[s]
    /\ \A f \in Files : /\ fl[f].ver = 0 => fl[f].daddr = Nil /\ fl[f].iaddr = Nil
                        /\ fl[f].ver > 0 => /\ fl[f].daddr # Nil /\ fl[f].iaddr # Nil
                                            /\ d[fl[f].daddr] = DataBlock(f, fl[f].ver)
                                            /\ d[fl[f].iaddr] = DescBlock(f, fl[f].daddr)
                        /\ fl[f].daddr \notin MapCells(m) /\ fl[f].iaddr \notin MapCells(m)
    /\ \A a : a \in L <=> /\ a # Nil
                          /\ \/ a \in MapCells(m)
                             \/ \E f \in Files : a = fl[f].daddr \/ a = fl[f].iaddr
    /\ \A a \in L : ~FreeOf(c, a)
    /\ c.cur \notin ToSet(c.clean) /\ IsInjective(c.clean)
    /\ \A s \in Segs \ ToSet(c.clean) : c.usage[s] = Cardinality({a \in L : a[1] = s})

\* The region of such a file system.
LEMMA CleanRegion ==
    ASSUME NEW d, NEW fl, NEW c, NEW m, NEW u, NEW r, NEW L, StoredSystem(d, fl, c, m, u, L),
           r.map = m, r.cur = c.cur, r.off = c.off, r.used = c.usage[c.cur],
           r.want = [f \in Files |-> fl[f].ver]
    PROVE  RegionOK(d, r) /\ Referred(d, r) = L
<1> USE DEF StoredSystem
<1> DEFINE at == [f \in Files |-> fl[f].iaddr]
           descs == {at[f] : f \in Files} \ {Nil}
<1>1. d[r.map] = d[m] /\ d[m].at = at /\ d[m].clean = c.clean /\ d[m].usage = u /\ d[m].kind = "map"
  OBVIOUS
<1>2. \A f \in Files : /\ at[f] = fl[f].iaddr /\ r.want[f] = fl[f].ver /\ fl[f].ver \in Nat
                       /\ fl[f].daddr \in Addrs \cup {Nil} /\ fl[f].iaddr \in Addrs \cup {Nil}
  BY DEF FileRecs
<1>3. ASSUME NEW f \in Files
      PROVE  RegionFile(d, r, f)
  <2>1. CASE fl[f].ver = 0
    BY <1>1, <1>2, <2>1 DEF RegionFile
  <2>2. CASE fl[f].ver > 0
    <3>1. DescBlock(f, fl[f].daddr).at = fl[f].daddr
      BY DEF DescBlock
    <3>2. QED
      BY <1>1, <1>2, <2>2, <3>1 DEF RegionFile
  <2>3. QED
    BY <1>2, <2>1, <2>2
<1>4. Referred(d, r) = MapCells(m) \cup descs \cup {d[i].at : i \in descs}
  BY <1>1 DEF Referred
<1>5. \A i : i \in descs <=> \E f \in Files : fl[f].ver > 0 /\ i = fl[f].iaddr
  BY <1>2
<1>6. \A f \in Files : fl[f].ver > 0 => d[fl[f].iaddr].at = fl[f].daddr
  <2>1. \A f, x : DescBlock(f, x).at = x
    BY DEF DescBlock
  <2>2. \A f \in Files : fl[f].ver > 0 => d[fl[f].iaddr] = DescBlock(f, fl[f].daddr)
    OBVIOUS
  <2>3. QED
    BY <2>1, <2>2
<1>7. \A a : a \in Referred(d, r) <=>
        \/ a \in MapCells(m)
        \/ \E f \in Files : fl[f].ver > 0 /\ (a = fl[f].iaddr \/ a = fl[f].daddr)
  <2> HIDE DEF descs
  <2>1. \A a : a \in Referred(d, r) <=> \/ a \in MapCells(m) \/ a \in descs
                                        \/ \E i \in descs : a = d[i].at
    BY <1>4
  <2>2. QED
    BY <1>5, <1>6, <2>1
<1>8. Nil \notin MapCells(m)
  BY MapCellsFacts, AddrFacts
<1> HIDE DEF descs, at
<1>9. \A a : a \in Referred(d, r) <=> a \in L
  BY <1>2, <1>7, <1>8
<1>10. Referred(d, r) = L
  BY <1>9
<1>11. RegionOK(d, r)
  <2>1. /\ d[r.map] = [kind |-> "map", at |-> d[r.map].at, clean |-> d[r.map].clean,
                       usage |-> d[r.map].usage]
    BY <1>1
  <2>2. d[r.map].at \in [Files -> Addrs \cup {Nil}]
    BY <1>1, <1>2 DEF at
  <2>3. c.clean \in Seq(Segs)
    BY DEF TailRecs
  <2>4. \A a \in Referred(d, r) : /\ a[1] \notin ToSet(d[r.map].clean)
                                  /\ ~(a[1] = r.cur /\ r.off # -1 /\ a[2] >= r.off)
    BY <1>1, <1>10 DEF FreeOf
  <2>5. ASSUME NEW s \in Segs \ ToSet(d[r.map].clean)
        PROVE  (IF s = r.cur THEN r.used ELSE d[r.map].usage[s])
                  = Cardinality({a \in Referred(d, r) : a[1] = s})
    <3>1. (IF s = r.cur THEN r.used ELSE d[r.map].usage[s]) = c.usage[s]
      BY <1>1
    <3>2. c.usage[s] = Cardinality({a \in L : a[1] = s})
      BY <1>1
    <3>3. QED
      BY <1>10, <3>1, <3>2, Zenon
  <2>6. QED
    BY <1>1, <1>3, <2>1, <2>2, <2>3, <2>4, <2>5 DEF RegionOK
<1>12. QED
  BY <1>10, <1>11

\* A checkpoint without a gap leaves nothing dirty.
LEMMA FillClean ==
    ASSUME LogInv, NEW p \in Procs, NEW w \in Orders(p), NEW wantsMap, FillsSegment(p, w, wantsMap),
           Filled(p)', NoGap'
    PROVE  /\ \A f \in Files : ~file'[f].dirty /\ ~file'[f].desc
           /\ mapAddr' # Nil /\ \A q \in Procs \ {p} : pc[q] # "out" /\ Flying(q)' = {}
<1>1. /\ IsCkpt(p) /\ ~IsFull(p, w, wantsMap) /\ ck'[p] = FillRegion(p, file', mapAddr', cp')
      /\ \A q \in Procs \ {p} : Flying(q)' = Flying(q)
      /\ pc[p] # "out" /\ ~DiskFull
  BY FillStages DEF FillsSegment
<1>2. ck'[p].gap = Gaps(p, file', mapAddr') /\ ck'[p].gap = {}
  BY <1>1 DEF FillRegion, NoGap
<1>3. \A g \in {"overlap", "checkedOut", "held"} :
         ~(\/ g = "overlap" /\ \E q \in Procs \ {p} : pc[q] = "out"
           \/ g = "checkedOut" /\ mapAddr' = Nil
           \/ g = "held" /\ \E f \in Files : file'[f].dirty /\ Busy(f))
  BY <1>2 DEF Gaps
<1>4. /\ mapAddr' # Nil /\ \A q \in Procs \ {p} : pc[q] # "out"
      /\ \A f \in Files : file'[f].dirty => ~Busy(f)
  BY <1>3
<1>5. \A q \in Procs \ {p} : Flying(q)' = {}
  BY <1>1, <1>4 DEF LogInv, Space, FlyingKept
<1>6. Put(w) = DOMAIN w
  <2>1. Left(w) # 0
    BY <1>1 DEF IsFull
  <2>2. QED
    BY <1>1, <2>1, PutFacts, CellFacts, LfsAssumption
<1>7. p # Writer
  BY <1>1 DEF IsCkpt
<1>8. PICK fs \in Taken(p) : DOMAIN w = Items(p, fs)
  BY OrderFacts
<1>9. fs = Eligible(p)
  BY <1>7, <1>8 DEF Taken
<1>10. \A f \in Files : (file[f].dirty \/ file[f].desc) /\ ~(file[f].dirty /\ Busy(f)) =>
                           Desc(f) \in Put(w) /\ (file[f].dirty => Data(f) \in Put(w))
  <2>1. \A f \in Files : (file[f].dirty \/ file[f].desc) /\ ~(file[f].dirty /\ Busy(f)) => f \in Eligible(p)
    BY <1>1, <1>4, <1>7 DEF Eligible
  <2>2. \A f \in Eligible(p) : Desc(f) \in Items(p, fs) /\ (file[f].dirty => Data(f) \in Items(p, fs))
    BY <1>1, <1>9 DEF Items
  <2>3. QED
    BY <1>6, <1>8, <2>1, <2>2
<1>11. ASSUME NEW f \in Files
       PROVE  ~file'[f].dirty /\ ~file'[f].desc
  <2>1. /\ file'[f].dirty <=> file[f].dirty /\ Data(f) \notin Put(w)
        /\ file'[f].desc <=> (file[f].desc \/ Data(f) \in Put(w)) /\ Desc(f) \notin Put(w)
    BY <1>1, FillFiles, FilesOutFacts
  <2>2. Data(f) \in Put(w) => Desc(f) \in Put(w)
    BY <1>6, ItemFacts
  <2>3. file[f].dirty /\ Busy(f) => Data(f) \in Put(w)
    BY <1>4, <2>1
  <2>4. QED
    BY <1>10, <2>1, <2>2, <2>3
<1>12. QED
  BY <1>4, <1>5, <1>11

\* What is stored is what the process sees that writes the only segment.
LEMMA FillView ==
    ASSUME LogInv, NEW p \in Procs, NEW w \in Orders(p), NEW wantsMap, FillsSegment(p, w, wantsMap),
           \A q \in Procs \ {p} : Flying(q)' = {}
    PROVE  \A a \in Addrs : \A b : Stored(a, b)' /\ b.kind # "none" => View(p)'[a] = b
<1>1. SUFFICES ASSUME NEW a \in Addrs, NEW b, Stored(a, b)', b.kind # "none"
               PROVE  View(p)'[a] = b
  OBVIOUS
<1>2. View(p)'[a] = IF a \in Flying(p)' THEN out'[p].blocks[a] ELSE disk'[a]
  BY DEF View
<1>3. disk'[a] = b \/ (a \in Flying(p)' /\ out'[p].blocks[a] = b)
  BY <1>1 DEF Stored
<1>4. a \in Flying(p)' => disk'[a].kind = "none"
  <2>1. a \in Flying(p)' => disk'[a] = NoBlock
    BY FillSpace DEF Space, FlyingKept
  <2>2. QED
    BY <2>1 DEF NoBlock
<1>5. QED
  BY <1>1, <1>2, <1>3, <1>4

LEMMA FillRegionOK ==
    ASSUME LogInv, NEW p \in Procs, NEW w \in Orders(p), NEW wantsMap, FillsSegment(p, w, wantsMap),
           Filled(p)', NoGap'
    PROVE  RegionOK(View(p)', ck'[p]) /\ Referred(View(p)', ck'[p]) = Live'
<1>1. /\ ck'[p] = FillRegion(p, file', mapAddr', cp')
      /\ file' = FilesOut(w) /\ ~DiskFull
      /\ FileTypes' /\ CleanOK' /\ UsageAgrees'
  BY FillStages, FillFiles DEF FillsSegment
<1>2. /\ \A f \in Files : ~file'[f].dirty /\ ~file'[f].desc
      /\ mapAddr' # Nil /\ \A q \in Procs \ {p} : Flying(q)' = {}
  BY FillClean
<1>3. \A a \in Addrs : \A b : Stored(a, b)' /\ b.kind # "none" => View(p)'[a] = b
  BY <1>2, FillView
<1>4. /\ file' \in [Files -> FileRecs] /\ cp' \in TailRecs /\ mapAddr' \in MapAddrs
  BY <1>1, <1>2 DEF FileTypes
<1>5. PICK u \in [Segs -> Nat] :
        /\ View(p)'[mapAddr'] = [kind |-> "map", at |-> [f \in Files |-> file'[f].iaddr],
                                 clean |-> cp'.clean, usage |-> u]
        /\ \A s \in Segs : s # cp'.cur => u[s] = cp'.usage[s]
  <2>1. PICK u \in [Segs -> Nat] : /\ Stored(mapAddr, MapIs(u))'
                                   /\ \A s \in Segs : s # cp'.cur => u[s] = cp'.usage[s]
    BY <1>2, FillMapStored DEF MapStored
  <2>2. PICK a, b : a = mapAddr' /\ b = MapIs(u)'
    OBVIOUS
  <2>3. Stored(a, b)'
    BY <2>1, <2>2 DEF Stored
  <2>4. a \in Addrs /\ b.kind # "none"
    BY <1>4, <2>2, AddrFacts DEF MapIs
  <2>5. View(p)'[a] = b
    BY <1>3, <2>3, <2>4
  <2>6. QED
    BY <2>1, <2>2, <2>5 DEF MapIs
<1>6. ASSUME NEW f \in Files
      PROVE  /\ file'[f].ver = 0 => file'[f].daddr = Nil /\ file'[f].iaddr = Nil
             /\ file'[f].ver > 0 => /\ file'[f].daddr # Nil /\ file'[f].iaddr # Nil
                                    /\ View(p)'[file'[f].daddr] = DataBlock(f, file'[f].ver)
                                    /\ View(p)'[file'[f].iaddr] = DescBlock(f, file'[f].daddr)
             /\ file'[f].daddr \notin MapCells(mapAddr') /\ file'[f].iaddr \notin MapCells(mapAddr')
  <2>1. FileStored(f)'
    BY FillFileStored
  <2>2. Distinct'
    BY FillDistinct
  <2>3. PICK a, i, v : a = file'[f].daddr /\ i = file'[f].iaddr /\ v = file'[f].ver
    OBVIOUS
  <2>4. a \in Addrs \cup {Nil} /\ i \in Addrs \cup {Nil}
    BY <1>4, <2>3 DEF FileRecs
  <2>5. ASSUME v > 0
        PROVE  /\ a # Nil /\ i # Nil
               /\ View(p)'[a] = DataBlock(f, v) /\ View(p)'[i] = DescBlock(f, a)
    <3>1. a # Nil /\ i # Nil /\ Stored(a, DataBlock(f, v))' /\ Stored(i, DescBlock(f, a))'
      BY <1>2, <2>1, <2>3, <2>5 DEF FileStored
    <3>2. DataBlock(f, v).kind # "none" /\ DescBlock(f, a).kind # "none"
      BY DEF DataBlock, DescBlock
    <3>3. a \in Addrs /\ i \in Addrs
      BY <2>4, <3>1
    <3>4. View(p)'[a] = DataBlock(f, v)
      BY <1>3, <3>1, <3>2, <3>3
    <3>5. View(p)'[i] = DescBlock(f, a)
      BY <1>3, <3>1, <3>2, <3>3
    <3>6. QED
      BY <3>1, <3>4, <3>5
  <2>6. v = 0 => a = Nil /\ i = Nil
    BY <2>1, <2>3 DEF FileStored
  <2>7. a \notin MapCells(mapAddr') /\ i \notin MapCells(mapAddr')
    BY <2>2, <2>3 DEF Distinct, MapCells
  <2>8. QED
    BY <2>3, <2>5, <2>6, <2>7
<1>7. \A a : a \in Live' <=> /\ a # Nil
                             /\ \/ a \in MapCells(mapAddr')
                                \/ \E f \in Files : a = file'[f].daddr \/ a = file'[f].iaddr
  BY DEF Live
<1>8. \A a \in Live' : ~FreeOf(cp', a)
  <2>1. LiveKept'
    BY FillSpace DEF Space
  <2>2. QED
    BY <2>1 DEF LiveKept, Free, FreeOf
<1>9. /\ ck'[p].map = mapAddr' /\ ck'[p].cur = cp'.cur /\ ck'[p].off = cp'.off
      /\ ck'[p].used = cp'.usage[cp'.cur] /\ ck'[p].want = [f \in Files |-> file'[f].ver]
  <2>1. [f \in Files |-> file'[f].ver] = [f \in Files |-> file[f].ver]
    BY <1>1, FilesOutFacts
  <2>2. QED
    BY <1>1, <2>1 DEF FillRegion
<1>10. cp'.cur \notin ToSet(cp'.clean) /\ IsInjective(cp'.clean)
  BY <1>1 DEF CleanOK
<1>11. \A s \in Segs \ ToSet(cp'.clean) : cp'.usage[s] = Cardinality({a \in Live' : a[1] = s})
  BY <1>1 DEF UsageAgrees
<1>12. PICK d, fl, c, m, r, L : d = View(p)' /\ fl = file' /\ c = cp' /\ m = mapAddr' /\ r = ck'[p] /\ L = Live'
  OBVIOUS
<1>13. RegionOK(d, r) /\ Referred(d, r) = L
  <2>1. /\ fl \in [Files -> FileRecs] /\ c \in TailRecs /\ m \in MapAddrs
        /\ r.map = m /\ r.cur = c.cur /\ r.off = c.off /\ r.used = c.usage[c.cur]
        /\ r.want = [f \in Files |-> fl[f].ver]
    BY <1>4, <1>9, <1>12
  <2>2. /\ d[m] = [kind |-> "map", at |-> [f \in Files |-> fl[f].iaddr], clean |-> c.clean, usage |-> u]
        /\ \A s \in Segs : s # c.cur => u[s] = c.usage[s]
    BY <1>5, <1>12
  <2>3. \A f \in Files : /\ fl[f].ver = 0 => fl[f].daddr = Nil /\ fl[f].iaddr = Nil
                         /\ fl[f].ver > 0 => /\ fl[f].daddr # Nil /\ fl[f].iaddr # Nil
                                             /\ d[fl[f].daddr] = DataBlock(f, fl[f].ver)
                                             /\ d[fl[f].iaddr] = DescBlock(f, fl[f].daddr)
                         /\ fl[f].daddr \notin MapCells(m) /\ fl[f].iaddr \notin MapCells(m)
    BY <1>6, <1>12
  <2>4. \A a : a \in L <=> /\ a # Nil
                           /\ \/ a \in MapCells(m)
                              \/ \E f \in Files : a = fl[f].daddr \/ a = fl[f].iaddr
    BY <1>7, <1>12
  <2>5. /\ \A a \in L : ~FreeOf(c, a)
        /\ c.cur \notin ToSet(c.clean) /\ IsInjective(c.clean)
        /\ \A s \in Segs \ ToSet(c.clean) : c.usage[s] = Cardinality({a \in L : a[1] = s})
    BY <1>8, <1>10, <1>11, <1>12
  <2>6. StoredSystem(d, fl, c, m, u, L)
    BY <2>1, <2>2, <2>3, <2>4, <2>5 DEF StoredSystem
  <2>7. QED
    BY <2>1, <2>6, CleanRegion
<1>14. QED
  BY <1>12, <1>13

\* The regions that were there before.
LEMMA FillFrame ==
    ASSUME LogInv, NEW p \in Procs, NEW w \in Orders(p), NEW wantsMap, FillsSegment(p, w, wantsMap)
    PROVE  /\ RegionOK(disk', Done) /\ Referred(disk', Done) = Referred(disk, Done)
           /\ \A a \in Referred(disk, Done) : ~Free(a)'
           /\ \A x \in Procs \ {p} : Filled(x) =>
                /\ RegionOK(View(x)', ck[x]) /\ Referred(View(x)', ck[x]) = Referred(View(x), ck[x])
                /\ \A a \in Referred(View(x), ck[x]) : ~Free(a)'
<1> DEFINE New == NewCells(p, w, wantsMap)
<1>1. /\ \A a \in Addrs : disk'[a] = IF a \in New THEN NoBlock ELSE disk[a]
      /\ \A q \in Procs \ {p} : out'[q] = out[q] /\ Flying(q)' = Flying(q)
      /\ \A a \in Addrs : Free(a)' => Free(a)
      /\ \A a \in New : a \in Addrs /\ Free(a) /\ NoGap
  BY FillStages, FillFiles DEF FillsSegment
<1>2. NoGap
  BY DEF FillsSegment
<1> HIDE DEF New
<1>3. /\ RegionOK(disk', Done) /\ Referred(disk', Done) = Referred(disk, Done)
      /\ \A a \in Referred(disk, Done) : ~Free(a)'
  <2>1. RegionOK(disk, Done) /\ Done.want \in [Files -> Nat] /\ RegionKept(disk, Done)
    BY AreaFacts DEF LogInv, Regions, DoneOK, AreaRecs
  <2>2. \A a \in Referred(disk, Done) : a \in Addrs /\ a \notin New /\ ~Free(a)'
    BY <1>1, <2>1, ReferredFacts DEF RegionKept
  <2>3. \A a \in Referred(disk, Done) : disk[a].kind # "none" => disk'[a] = disk[a]
    BY <1>1, <2>2
  <2>4. QED
    BY <2>1, <2>2, <2>3, RegionFrame
<1>4. ASSUME NEW x \in Procs, x # p, Filled(x)
      PROVE  /\ RegionOK(View(x)', ck[x]) /\ Referred(View(x)', ck[x]) = Referred(View(x), ck[x])
             /\ \A a \in Referred(View(x), ck[x]) : ~Free(a)'
  <2>1. RegionOK(View(x), ck[x]) /\ RegionKept(View(x), ck[x]) /\ ck[x].want \in [Files -> Nat]
    BY <1>2, <1>4, AreaFacts DEF LogInv, Regions, CkptsOK
  <2>2. \A a \in Referred(View(x), ck[x]) : a \in Addrs /\ a \notin New /\ ~Free(a)'
    BY <1>1, <2>1, ReferredFacts DEF RegionKept
  <2>3. /\ \A a \in Addrs : View(x)[a] = IF a \in Flying(x) THEN out[x].blocks[a] ELSE disk[a]
        /\ \A a \in Addrs : View(x)'[a] = IF a \in Flying(x)' THEN out'[x].blocks[a] ELSE disk'[a]
    BY DEF View
  <2>4. \A a \in Referred(View(x), ck[x]) : View(x)[a].kind # "none" => View(x)'[a] = View(x)[a]
    BY <1>1, <1>4, <2>2, <2>3
  <2>5. QED
    BY <2>1, <2>2, <2>4, RegionFrame
<1>5. QED
  BY <1>3, <1>4

LEMMA FillRegions ==
    ASSUME LogInv, NEW p \in Procs, NEW w \in Orders(p), NEW wantsMap, FillsSegment(p, w, wantsMap)
    PROVE  Regions'
<1> DEFINE New == NewCells(p, w, wantsMap)
<1>1. /\ pc' \in [Procs -> Stages] /\ pc'[p] = "out" /\ pc[p] \in {"create", "segretry"}
      /\ \A q \in Procs \ {p} : \/ pc'[q] = pc[q]
                                \/ q = Cleaner /\ pc[q] = "idle" /\ pc'[q] = "pick"
      /\ Flying(p)' = New /\ \A q \in Procs \ {p} : Flying(q)' = Flying(q)
      /\ \A q \in Procs \ {p} : (Filled(q)' <=> Filled(q)) /\ ck'[q] = ck[q]
      /\ ~Filled(p)' => ck' = ck
      /\ Filled(p)' => ck'[p] = FillRegion(p, file', mapAddr', cp')
      /\ NoGap /\ UNCHANGED <<area, nextArea, ts, job>>
  BY FillStages DEF FillsSegment
<1>2. /\ Done' = Done /\ Reads' = Reads
  BY <1>1 DEF Done, Reads
<1>3. /\ RegionOK(disk', Done) /\ Referred(disk', Done) = Referred(disk, Done)
      /\ \A a \in Referred(disk, Done) : ~Free(a)'
      /\ \A x \in Procs \ {p} : Filled(x) =>
           /\ RegionOK(View(x)', ck[x]) /\ Referred(View(x)', ck[x]) = Referred(View(x), ck[x])
           /\ \A a \in Referred(View(x), ck[x]) : ~Free(a)'
  BY FillFrame
<1>4. Filled(p)' /\ NoGap' => /\ RegionOK(View(p)', ck'[p]) /\ Referred(View(p)', ck'[p]) = Live'
                              /\ \A q \in Procs \ {p} : pc[q] # "out" /\ Flying(q)' = {}
                              /\ \A f \in Files : ~file'[f].dirty /\ ~file'[f].desc
  BY FillRegionOK, FillClean
<1>5. \A a \in Live' : ~Free(a)'
  BY FillSpace DEF Space, LiveKept
<1>6. \A f \in Files : file'[f].ver = file[f].ver /\ file[f].ver \in Nat
  BY FillFiles, FilesOutFacts, FileFacts DEF FillsSegment
<1>7. \A x \in Procs : pc'[x] \in {"lock", "region", "mark"} <=> (x # p /\ pc[x] \in {"lock", "region", "mark"})
  BY <1>1
<1> HIDE DEF New
<1>8. DoneOK'
  <2>1. RegionKept(disk, Done)'
    BY <1>2, <1>3 DEF RegionKept
  <2>2. QED
    BY <1>1, <1>2, <1>3, <2>1 DEF LogInv, Regions, DoneOK
<1>9. CkptsOK'
  <2>1. SUFFICES ASSUME NoGap', NEW x \in Procs, Filled(x)'
                 PROVE  RegionOK(View(x), ck[x])' /\ RegionKept(View(x), ck[x])'
    BY DEF CkptsOK
  <2>2. CASE x = p
    BY <1>4, <1>5, <2>1, <2>2 DEF RegionKept
  <2>3. CASE x # p
    BY <1>1, <1>3, <2>1, <2>3 DEF RegionKept
  <2>4. QED
    BY <2>2, <2>3
<1>10. RegionStarted'
  <2>1. \A x \in Procs : pc'[x] = "region" => pc[x] = "region" /\ ck'[x] = ck[x]
    BY <1>1
  <2>2. QED
    BY <1>1, <1>2, <2>1 DEF LogInv, Regions, RegionStarted
<1>11. Mutual' /\ Waiting'
  <2>1. \A x \in CkptProcs : pc'[x] \in Working => pc[x] \in Working
    BY <1>1, ProcFacts DEF Working
  <2>2. Mutual'
    BY <2>1 DEF LogInv, Regions, Mutual
  <2>3. pc'[Writer] \notin {"lock", "region"}
    BY <1>1, ProcFacts DEF LogInv, Regions, Waiting
  <2>4. \A x \in Procs : pc'[x] = "lock" => \E q \in Procs : pc'[q] = "region"
    <3>1. SUFFICES ASSUME NEW x \in Procs, pc'[x] = "lock"
                   PROVE  \E q \in Procs : pc'[q] = "region"
      OBVIOUS
    <3>2. pc[x] = "lock"
      BY <1>1, <3>1
    <3>3. PICK q \in Procs : pc[q] = "region"
      BY <3>2 DEF LogInv, Regions, Waiting
    <3>4. pc'[q] = "region"
      BY <1>1, <3>3
    <3>5. QED
      BY <3>4
  <2>5. QED
    BY <2>2, <2>3, <2>4 DEF Waiting
<1>12. Apart'
  <2>1. SUFFICES ASSUME NoGap', NEW x \in Procs, NEW y \in Procs, x # y, Filled(x)', Filled(y)'
                 PROVE  pc'[x] # pc'[y]
    BY DEF Apart
  <2>2. \A q \in Procs \ {p} : Filled(q) => pc'[q] = pc[q]
    BY <1>1, ProcFacts DEF Filled
  <2>3. CASE x # p /\ y # p
    BY <1>1, <2>1, <2>2, <2>3 DEF LogInv, Regions, Apart
  <2>4. CASE x = p \/ y = p
    BY <1>1, <1>4, <2>1, <2>2, <2>4
  <2>5. QED
    BY <2>3, <2>4
<1>13. \A x \in Procs \ {p} : Filled(x) => pc'[x] = pc[x]
  BY <1>1 DEF Filled
<1>14. Filled(p)' => \A f \in Files : ck'[p].want[f] = file[f].ver
  BY <1>1 DEF FillRegion
<1>15. InOrder'
  <2>1. \A v : NotAfterFiles(v)' <=> NotAfterFiles(v)
    BY <1>6 DEF NotAfterFiles
  <2>2. ASSUME NEW x \in Procs, Filled(x)'
        PROVE  NotAfter(Done.want, ck'[x].want) /\ NotAfterFiles(ck[x].want)'
    <3>1. CASE x = p
      <4>1. NotAfterFiles(Done.want)
        BY DEF LogInv, Regions, InOrder
      <4>2. \A f \in Files : ck'[p].want[f] = file[f].ver
        BY <1>14, <2>2, <3>1
      <4>3. NotAfter(Done.want, ck'[p].want)
        BY <4>1, <4>2 DEF NotAfter, NotAfterFiles
      <4>4. NotAfterFiles(ck[p].want)'
        BY <1>6, <4>2 DEF NotAfterFiles
      <4>5. QED
        BY <3>1, <4>3, <4>4
    <3>2. CASE x # p
      BY <1>1, <2>1, <2>2, <3>2 DEF LogInv, Regions, InOrder
    <3>3. QED
      BY <3>1, <3>2
  <2>3. ASSUME NoGap', NEW x \in Procs, NEW y \in Procs, Filled(x)', Filled(y)', Earlier(x, y)'
        PROVE  NotAfter(ck'[x].want, ck'[y].want)
    <3>1. x # p
      BY <1>1, <2>3 DEF Earlier
    <3>2. CASE y = p
      <4>1. NotAfterFiles(ck[x].want) /\ ck'[x] = ck[x]
        BY <1>1, <2>3, <3>1 DEF LogInv, Regions, InOrder
      <4>2. \A f \in Files : ck'[y].want[f] = file[f].ver
        BY <1>14, <2>3, <3>2
      <4>3. QED
        BY <4>1, <4>2 DEF NotAfter, NotAfterFiles
    <3>3. CASE y # p
      <4>1. Filled(x) /\ Filled(y) /\ Earlier(x, y) /\ ck'[x] = ck[x] /\ ck'[y] = ck[y]
        BY <1>1, <1>13, <2>3, <3>1, <3>3 DEF Earlier
      <4>2. QED
        BY <1>1, <4>1 DEF LogInv, Regions, InOrder
    <3>4. QED
      BY <3>2, <3>3
  <2>4. /\ area'[nextArea'].ok => NotAfter(area'[nextArea'].want, Done'.want)
        /\ NotAfterFiles(Done.want)'
    BY <1>1, <1>2, <2>1 DEF LogInv, Regions, InOrder
  <2>5. QED
    BY <1>2, <2>2, <2>3, <2>4 DEF InOrder, NotAfter
<1>16. Moved'
  <2>1. SUFFICES ASSUME NoGap', pc'[Cleaner] = "mark" \/ Filled(Cleaner)'
                 PROVE  /\ Avoids(Live)' /\ \A x \in Procs : Avoids(Flying(x))'
                        /\ pc'[Cleaner] = "mark" => Avoids(Referred(disk, Done))'
                        /\ \A x \in Procs :
                              /\ Filled(x)'
                              /\ pc'[Cleaner] = "mark" \/ x = Cleaner \/ Earlier(Cleaner, x)'
                              => Avoids(Referred(View(x), ck[x]))'
    BY DEF Moved
  <2>2. /\ Avoids(Live)' <=> \A a \in Live' : a[1] \notin Reads
        /\ \A x \in Procs : Avoids(Flying(x))' <=> \A a \in Flying(x)' : a[1] \notin Reads
        /\ Avoids(Referred(disk, Done))' <=> \A a \in Referred(disk', Done) : a[1] \notin Reads
        /\ \A x \in Procs : Avoids(Referred(View(x), ck[x]))' <=>
              \A a \in Referred(View(x)', ck'[x]) : a[1] \notin Reads
    BY <1>2 DEF Avoids
  <2>3. \A a \in New : a[1] \notin Reads
    <3>1. pc[Cleaner] \in Cleaning
      BY <1>1, <2>1, ProcFacts DEF Cleaning, Filled
    <3>2. \A s \in Reads : s \in Segs /\ s # cp.cur /\ s \notin ToSet(cp.clean)
      BY <3>1, CleanerFacts, SetOfSeq DEF LogInv, Space, JobOK, Reads
    <3>3. QED
      BY <3>2, FillFiles DEF New
  <2>4. CASE p = Cleaner
    <3>1. Filled(p)' /\ pc'[Cleaner] = "out"
      BY <1>1, <2>1, <2>4
    <3>2. \A a \in Live' : a[1] \notin Reads
      <4>1. \A s \in Reads : /\ mapAddr'[1] # s
                             /\ \A f \in Files : file'[f].daddr[1] # s /\ file'[f].iaddr[1] # s
        BY <1>2, <1>4, <2>1, <3>1, FillSpace DEF Space, JobOK, Cleaning
      <4>2. \A a \in Live' : \/ a \in MapCells(mapAddr')
                             \/ \E f \in Files : a = file'[f].daddr \/ a = file'[f].iaddr
        BY DEF Live
      <4>3. \A a \in MapCells(mapAddr') : a[1] = mapAddr'[1]
        <5>1. mapAddr' \in MapAddrs \cup {Nil}
          BY FillFiles DEF FileTypes
        <5>2. QED
          BY <5>1, MapCellsFacts
      <4>4. QED
        BY <4>1, <4>2, <4>3
    <3>3. \A x \in Procs : \A a \in Flying(x)' : a[1] \notin Reads
      BY <1>1, <1>4, <2>1, <2>3, <3>1
    <3>4. \A x \in Procs : ~Earlier(Cleaner, x)'
      BY <3>1 DEF Earlier
    <3>5. Referred(View(p)', ck'[p]) = Live'
      BY <1>4, <2>1, <3>1
    <3>6. QED
      BY <2>2, <2>4, <3>1, <3>2, <3>3, <3>4, <3>5
  <2>5. CASE p # Cleaner
    <3>1. pc'[Cleaner] = pc[Cleaner] /\ (pc[Cleaner] = "mark" \/ Filled(Cleaner))
      BY <1>1, <2>1, <2>5, ProcFacts DEF Filled
    <3>2. /\ Avoids(Live) /\ \A x \in Procs : Avoids(Flying(x))
          /\ pc[Cleaner] = "mark" => Avoids(Referred(disk, Done))
          /\ \A x \in Procs :
                Filled(x) /\ (pc[Cleaner] = "mark" \/ x = Cleaner \/ Earlier(Cleaner, x))
                  => Avoids(Referred(View(x), ck[x]))
      BY <1>1, <3>1 DEF LogInv, Regions, Moved
    <3>3. \A a \in Live' : a[1] \notin Reads
      <4>1. \A a \in Live' : a \in Live \/ a \in New
        BY FillFiles DEF New
      <4>2. QED
        BY <2>3, <3>2, <4>1 DEF Avoids
    <3>4. \A x \in Procs : \A a \in Flying(x)' : a[1] \notin Reads
      BY <1>1, <2>3, <3>2 DEF Avoids
    <3>5. pc'[Cleaner] = "mark" => \A a \in Referred(disk', Done) : a[1] \notin Reads
      BY <1>3, <3>1, <3>2 DEF Avoids
    <3>6. ASSUME NEW x \in Procs, Filled(x)',
                 pc'[Cleaner] = "mark" \/ x = Cleaner \/ Earlier(Cleaner, x)'
          PROVE  \A a \in Referred(View(x)', ck'[x]) : a[1] \notin Reads
      <4>1. CASE x = p
        BY <1>4, <2>1, <3>3, <3>6, <4>1
      <4>2. CASE x # p
        <5>1. Filled(x) /\ ck'[x] = ck[x] /\ pc'[x] = pc[x]
          BY <1>1, <1>13, <3>6, <4>2
        <5>2. pc[Cleaner] = "mark" \/ x = Cleaner \/ Earlier(Cleaner, x)
          BY <3>1, <3>6, <5>1 DEF Earlier
        <5>3. Avoids(Referred(View(x), ck[x]))
          BY <3>2, <5>1, <5>2
        <5>4. QED
          BY <1>3, <4>2, <5>1, <5>3 DEF Avoids
      <4>3. QED
        BY <4>1, <4>2
    <3>7. QED
      BY <2>2, <3>3, <3>4, <3>5, <3>6
  <2>6. QED
    BY <2>4, <2>5
<1>17. QED
  BY <1>8, <1>9, <1>10, <1>11, <1>12, <1>15, <1>16 DEF Regions

LEMMA FillTypes ==
    ASSUME LogInv, NEW p \in Procs, NEW w \in Orders(p), NEW wantsMap, FillsSegment(p, w, wantsMap)
    PROVE  Types'
<1>1. /\ FlagTypes' /\ FileTypes' /\ pc' \in [Procs -> Stages] /\ DOMAIN out' = Procs
      /\ \A q \in Procs \ {p} : (Filled(q)' <=> Filled(q)) /\ ck'[q] = ck[q]
      /\ ~Filled(p)' => ck' = ck
      /\ UNCHANGED <<area, nextArea, ts, job>>
  BY FillFiles, FillStages DEF FillsSegment
<1>2. ProcTypes'
  BY <1>1, CleanerFacts DEF ProcTypes
<1>3. Filled(p)' => ck'[p] \in CkRecs
  <2>1. SUFFICES ASSUME Filled(p)'
                 PROVE  ck'[p] \in CkRecs
    OBVIOUS
  <2>2. ck'[p] = FillRegion(p, file', mapAddr', cp')
    BY <2>1, FillStages
  <2>3. /\ mapAddr' \in MapAddrs \cup {Nil} /\ cp'.cur \in Segs /\ cp'.off \in -1 .. SegBlocks - 1
        /\ cp'.usage[cp'.cur] \in Nat
    <3>1. cp' \in TailRecs /\ mapAddr' \in MapAddrs \cup {Nil}
      BY <1>1 DEF FileTypes
    <3>2. cp'.cur \in Segs /\ cp'.usage \in [Segs -> Nat] /\ cp'.off \in -1 .. SegBlocks - 1
      BY <3>1 DEF TailRecs
    <3>3. QED
      BY <3>1, <3>2
  <2>4. [f \in Files |-> file[f].ver] \in [Files -> Nat]
    BY FileFacts
  <2>5. Gaps(p, file', mapAddr') \in SUBSET {"overlap", "checkedOut", "held"}
    BY DEF Gaps
  <2>6. QED
    BY <2>2, <2>3, <2>4, <2>5 DEF FillRegion, CkRecs
<1>4. ck' \in [Procs -> CkRecs \cup {NoRegion}]
  <2>1. ck \in [Procs -> CkRecs \cup {NoRegion}]
    BY AreaFacts
  <2>2. DOMAIN ck' = Procs
    BY <2>1 DEF FillsSegment, DoOutCallBacks
  <2>3. ck' = [x \in Procs |-> ck'[x]]
    BY <2>1, <2>2 DEF FillsSegment, DoOutCallBacks
  <2>4. \A x \in Procs : ck'[x] \in CkRecs \cup {NoRegion}
    BY <1>1, <1>3, <2>1
  <2>5. QED
    BY <2>3, <2>4
<1>5. AreaTypes'
  BY <1>1, <1>3, <1>4, AreaFacts DEF AreaTypes
<1>6. QED
  BY <1>1, <1>2, <1>5 DEF Types

LEMMA WriteSegmentInv ==
    ASSUME LogInv, FollowGaps = {}, NEW p \in Procs, WriteSegment(p)
    PROVE  LogInv'
<1>1. PICK w \in Orders(p), wantsMap \in WantsMap(p) : DoOutCallBacks(p, w, wantsMap)
  BY DEF WriteSegment
<1>2. FillsSegment(p, w, wantsMap)
  BY <1>1, FollowedNoGap DEF WriteSegment, FillsSegment, Running, MayCreate
<1>3. Types' /\ Space' /\ Regions' /\ UsageAgrees'
  BY <1>2, FillTypes, FillSpace, FillRegions, FillFiles
<1>4. Contents'
  BY <1>2, FillFileStored, FillMapStored DEF Contents, FilesStored
<1>5. QED
  BY <1>3, <1>4 DEF LogInv
-----------------------------------------------------------------------------
(* The theorems.                                                           *)

LEMMA StutterInv ==
    ASSUME LogInv, UNCHANGED vars
    PROVE  LogInv'
<1>1. UNCHANGED <<disk, area, nextArea, ts, file, mapAddr, checked, cp, numDirty, writeActive,
                  ckptWait, pc, out, ck, job, uses>>
  BY DEF vars, fsVars
<1>2. Types'
  BY <1>1 DEF LogInv, Types, FlagTypes, FileTypes, AreaTypes, ProcTypes, Filled, IsCkpt
<1>3. Space'
  BY <1>1 DEF LogInv, Space, CleanOK, LiveKept, Live, MapCells, Free, FlyingKept, Flying,
              Distinct, JobOK, Reads
<1>4. Contents'
  BY <1>1, SameStored DEF LogInv, Contents, FilesStored, FileStored, MapStored, MapIs
<1>5. UsageAgrees'
  BY <1>1 DEF LogInv, UsageAgrees, Live, MapCells
<1>6. Regions'
  <2>1. \A p \in Procs : (Filled(p)' <=> Filled(p)) /\ View(p)' = View(p) /\ Flying(p)' = Flying(p)
    BY <1>1 DEF Filled, IsCkpt, View, Flying
  <2>2. (NoGap' <=> NoGap) /\ Done' = Done /\ Reads' = Reads /\ Live' = Live
    BY <1>1 DEF NoGap, Done, Reads, Live, MapCells
  <2>3. DoneOK' /\ CkptsOK'
    BY <1>1, <2>1, <2>2 DEF LogInv, Regions, DoneOK, CkptsOK, RegionKept, Free
  <2>4. RegionStarted' /\ Mutual' /\ Waiting' /\ Apart'
    BY <1>1, <2>1, <2>2 DEF LogInv, Regions, RegionStarted, Mutual, Waiting, Apart
  <2>5. InOrder'
    BY <1>1, <2>1, <2>2 DEF LogInv, Regions, InOrder, NotAfterFiles, NotAfter, Earlier
  <2>6. Moved'
    BY <1>1, <2>1, <2>2, ProcFacts DEF LogInv, Regions, Moved, Avoids, Earlier
  <2>7. QED
    BY <2>3, <2>4, <2>5, <2>6 DEF Regions
<1>7. QED
  BY <1>2, <1>3, <1>4, <1>5, <1>6 DEF LogInv

LEMMA NextInv ==
    ASSUME LogInv, FollowGaps = {}, [Next]_vars
    PROVE  LogInv'
<1>1. ASSUME NEW p \in Procs, WriteSegment(p) \/ WaitForSegment(p) \/ WriteDone(p) \/ RegionDone(p)
      PROVE  LogInv'
  BY <1>1, WriteSegmentInv, WaitForSegmentInv, WriteDoneInv, RegionDoneInv
<1>2. ASSUME NEW s \in Syncers, StartCheckPoint(s)
      PROVE  LogInv'
  BY <1>2, StartCheckPointInv
<1>3. ASSUME NEW s \in CkptProcs, WaitEnds(s)
      PROVE  LogInv'
  BY <1>3, WaitEndsInv
<1>4. ASSUME StartWriter \/ Panic \/ Crash \/ Lfs_Command
      PROVE  LogInv'
  BY <1>4, StartedInv, PanicInv, CrashInv
<1>5. ASSUME PickSegments \/ CleanIn \/ EndIn \/ MarkSegsClean
      PROVE  LogInv'
  BY <1>5, PickSegmentsInv, CleanInInv, EndInInv, MarkSegsCleanInv
<1>6. ASSUME NEW f \in Files, BlockAllocate(f) \/ FetchBlock(f) \/ UnlockBlock(f)
      PROVE  LogInv'
  BY <1>6, BlockAllocateInv, FetchBlockInv, UnlockBlockInv
<1>7. CASE UNCHANGED vars
  BY <1>7, StutterInv
<1>8. QED
  BY <1>1, <1>2, <1>3, <1>4, <1>5, <1>6, <1>7 DEF Next

\* As long as no region is filled in across a gap, the inductive invariant holds.
THEOREM LogInvariant ==
    ASSUME FollowGaps = {}
    PROVE  Spec => []LogInv
<1>1. Init => LogInv
  BY InitInv
<1>2. LogInv /\ [Next]_vars => LogInv'
  BY NextInv
<1>3. QED
  BY <1>1, <1>2, PTL DEF Spec

LEMMA LogInvTypes ==
    ASSUME LogInv
    PROVE  TypeOK
<1>1. /\ nextArea \in 0 .. 1 /\ ts \in Nat /\ checked \in Procs \cup {Nobody}
      /\ writeActive \in BOOLEAN /\ ckptWait \in BOOLEAN /\ numDirty \in Nat
      /\ mapAddr \in Addrs \cup {Nil} /\ pc \in [Procs -> Stages]
  BY AddrFacts DEF LogInv, Types, FlagTypes, FileTypes, AreaTypes, ProcTypes
<1>2. /\ cp.cur \in Segs /\ cp.off \in -1 .. SegBlocks - 1 /\ cp.clean \in Seq(Segs)
      /\ cp.cur \notin ToSet(cp.clean) /\ IsInjective(cp.clean)
  BY DEF LogInv, Types, FileTypes, TailRecs, Space, CleanOK
<1>3. ToSet(cp.clean) \subseteq Segs
  BY <1>2, SetOfSeq
<1>4. \A f \in Files : {file[f].daddr, file[f].iaddr} \subseteq Addrs \cup {Nil}
  BY FileFacts DEF FileRecs
<1>5. QED
  BY <1>1, <1>2, <1>3, <1>4 DEF TypeOK, Stages

LEMMA LogInvIntact ==
    ASSUME LogInv
    PROVE  CheckpointIntact /\ CleanIsDead
<1>1. area[Chosen] = Done /\ Done.ok /\ RegionOK(disk, Done) /\ RegionKept(disk, Done) /\ LiveKept
  BY ChosenDone DEF LogInv, Regions, DoneOK, Space
<1> DEFINE m == disk[Done.map]
<1>2. /\ Done.map \in MapAddrs
      /\ m = [kind |-> "map", at |-> m.at, clean |-> m.clean, usage |-> m.usage]
      /\ \A f \in Files : RegionFile(disk, Done, f)
      /\ \A a \in Referred(disk, Done) : a[1] \notin ToSet(m.clean)
  BY <1>1 DEF RegionOK
<1>3. m.kind = "map"
  BY <1>2
<1>4. Done.map # Nil
  BY <1>2, AddrFacts
<1>5. ASSUME NEW f \in Files
      PROVE  HasFile(disk, m.at[f], f, Done.want[f])
  <2>1. RegionFile(disk, Done, f)
    BY <1>2
  <2>2. CASE Done.want[f] = 0
    BY <2>1, <2>2 DEF RegionFile, HasFile
  <2>3. CASE Done.want[f] # 0
    <3> DEFINE i == m.at[f]
    <3>1. /\ i \in Addrs /\ disk[i] = DescBlock(f, disk[i].at) /\ disk[i].at \in Addrs
          /\ disk[disk[i].at] = DataBlock(f, Done.want[f])
      BY <2>1, <2>3 DEF RegionFile
    <3>2. disk[i].kind = "desc" /\ disk[i].f = f
      BY <3>1 DEF DescBlock
    <3>3. i # Nil /\ disk[i].at # Nil
      BY <3>1, AddrFacts
    <3>4. QED
      BY <2>3, <3>1, <3>2, <3>3 DEF HasFile, DataBlock
  <2>4. QED
    BY <2>2, <2>3
<1>6. CheckpointIntact
  BY <1>1, <1>2, <1>3, <1>4, <1>5 DEF CheckpointIntact
<1>7. CleanIsDead
  BY <1>1 DEF CleanIsDead, LiveKept, RegionKept, Free, FreeOf
<1>8. QED
  BY <1>6, <1>7

LEMMA LogInvOrder ==
    ASSUME LogInv
    PROVE  CheckpointsInOrder
<1>1. /\ area[nextArea].ok => area[nextArea].ts < Done.ts /\ NotAfter(area[nextArea].want, Done.want)
      /\ Done = area[1 - nextArea]
  BY DEF LogInv, Regions, DoneOK, InOrder, Done
<1>2. nextArea \in 0 .. 1 /\ \A i \in 0 .. 1 : area[i].ts \in Nat
  BY AreaFacts DEF AreaRecs
<1>3. ASSUME NEW i \in 0 .. 1, area[i].ok, area[1 - i].ok, area[i].ts < area[1 - i].ts
      PROVE  \A f \in Files : area[i].want[f] <= area[1 - i].want[f]
  <2>1. i = nextArea
    BY <1>1, <1>2, <1>3
  <2>2. QED
    BY <1>1, <1>3, <2>1 DEF NotAfter
<1>4. QED
  BY <1>3 DEF CheckpointsInOrder

\* The variables of the log keep their types, and the list of clean segments has
\* no segment twice and not the current one, however segments are written,
\* cleaned and reused.
THEOREM LogTypeCorrect ==
    ASSUME FollowGaps = {}
    PROVE  Spec => []TypeOK
<1>1. LogInv => TypeOK
  BY LogInvTypes
<1>2. QED
  BY <1>1, LogInvariant, PTL

\* Until a region is filled in across a gap, the checkpoint that LfsLoadFileSystem
\* would choose is complete at any time, and the map and all files it leads to are
\* on the disk with the contents they had when it was taken.
THEOREM CheckpointAlwaysIntact ==
    ASSUME FollowGaps = {}
    PROVE  Spec => []CheckpointIntact
<1>1. LogInv => CheckpointIntact
  BY LogInvIntact
<1>2. QED
  BY <1>1, LogInvariant, PTL

\* Until a region is filled in across a gap, LfsMarkSegsClean and LfsGetLogTail keep
\* the clean segments free of blocks that the file system or its last checkpoint uses.
THEOREM CleanSegmentsDead ==
    ASSUME FollowGaps = {}
    PROVE  Spec => []CleanIsDead
<1>1. LogInv => CleanIsDead
  BY LogInvIntact
<1>2. QED
  BY <1>1, LogInvariant, PTL

\* Until a region is filled in across a gap, the counts of LfsSetSegUsage are the
\* numbers of live blocks of the segments, also in a file system loaded after a crash.
THEOREM UsageCountsExact ==
    ASSUME FollowGaps = {}
    PROVE  Spec => []UsageAgrees
<1>1. LogInv => UsageAgrees
  BY DEF LogInv
<1>2. QED
  BY <1>1, LogInvariant, PTL

\* Until a region is filled in across a gap, the later one of two complete checkpoints
\* never describes an older state of a file, although checkpoints overtake each other.
THEOREM CheckpointsStayInOrder ==
    ASSUME FollowGaps = {}
    PROVE  Spec => []CheckpointsInOrder
<1>1. LogInv => CheckpointsInOrder
  BY LogInvOrder
<1>2. QED
  BY <1>1, LogInvariant, PTL
=============================================================================
