-------------------------------- MODULE LfsLog --------------------------------
(***************************************************************************)
(* The log of the log-structured file system (lfs/): segments are written  *)
(* by the write-back process, by checkpoints and by the segment cleaner,   *)
(* checkpoint regions are written alternately to two areas, and a crash at *)
(* any point is followed by LfsLoadFileSystem.                             *)
(*                                                                         *)
(* A file has one data block and a descriptor.  The descriptor map and the *)
(* usage array, each a "stable memory" that is kept in the log, are one    *)
(* object here, the map, of MapSize blocks.  Summary blocks, the directory *)
(* log, indirect blocks, deletion and truncation are left out.  The kernel *)
(* does not preempt, so a step goes from one wait (for the disk, for a     *)
(* lock, on a condition) to the next.                                      *)
(***************************************************************************)
EXTENDS Integers, FiniteSets, Sequences, SequencesExt

CONSTANTS
    Files,
    Syncers,        \* processes that call LfsCheckPointFileSystem
    NumSegs, SegBlocks, MapSize,
    WasteBlocks,    \* superBlock.usageArray.wasteBlocks
    MinNumClean, NumSegsToClean, DirtyActive,  \* parameters of the usage array
    MaxUses,        \* bound: reads and writes of files
    MaxStamp,       \* bound: time stamps, one per checkpoint region
    MaxCrashes,     \* bound: crashes
    FollowGaps      \* bound: behaviours are not followed past other gaps (see Gaps)

ASSUME LfsAssumption ==
    /\ IsFiniteSet(Files) /\ Syncers \cap {"writer", "cleaner", "final", "nobody"} = {}
    /\ NumSegs \in Nat \ {0} /\ SegBlocks \in Nat /\ MapSize \in 1 .. SegBlocks - 1
    /\ WasteBlocks \in Nat /\ MinNumClean \in Nat /\ NumSegsToClean \in Nat
    /\ FollowGaps \subseteq {"overlap", "checkedOut", "held"}

Segs == 0 .. NumSegs - 1
Nil == <<-1, 0>>
Addrs == Segs \X (0 .. SegBlocks - 1)
Writer == "writer"      \* LfsSegmentWriteProc
Cleaner == "cleaner"    \* SegmentCleanProc
Final == "final"        \* the checkpoint a cleaner ends with (one at a time)
CkptProcs == Syncers \cup {Final}
Procs == CkptProcs \cup {Writer, Cleaner}
Nobody == "nobody"

VARIABLES
    disk,           \* the blocks of the segments
    area,           \* the two checkpoint areas
    nextArea, ts,   \* lfsPtr->checkPoint
    file,           \* cache state, index and descriptor map entry of the files
    mapAddr,        \* blockIndexPtr of the map; Nil while it is dirty
    checked,        \* the process that has the map off the dirty list
    cp,             \* usageArray.checkPoint and the usage entries
    writeActive, ckptWait, numDirty,
    pc, out,        \* what a process does, and the segment it is writing
    ck,             \* the checkpoint region a process has filled in
    job,            \* the state of SegmentCleanProc
    uses, crashes

fsVars == <<file, mapAddr, checked, cp, numDirty>>
vars == <<disk, area, nextArea, ts, fsVars, writeActive, ckptWait, pc, out, ck,
          job, uses, crashes>>

NoBlock == [kind |-> "none"]
NoRegion == [gap |-> {}]
NoOut == [blocks |-> <<>>]
NoJob == [layout |-> FALSE, todo |-> <<>>, read |-> <<>>, live |-> FALSE, any |-> FALSE]
NewFile == [ver |-> 0, dirty |-> FALSE, bclean |-> FALSE, desc |-> FALSE, fclean |-> FALSE,
            held |-> {}, daddr |-> Nil, iaddr |-> Nil]

MapBlock(f, c) ==
    [kind |-> "map", at |-> [x \in Files |-> f[x].iaddr], clean |-> c.clean, usage |-> c.usage]

Init ==
    LET file0 == [f \in Files |-> NewFile]
        cp0 == [cur |-> 0, off |-> MapSize, clean |-> [i \in 1 .. NumSegs - 1 |-> i],
                usage |-> [s \in Segs |-> IF s = 0 THEN MapSize ELSE 0]]
        region == [map |-> <<0, 0>>, cur |-> 0, off |-> MapSize, used |-> MapSize,
                   want |-> [f \in Files |-> 0], gap |-> {}, ts |-> 1, ok |-> TRUE]
    IN  /\ file = file0 /\ cp = cp0 /\ mapAddr = <<0, 0>>
        /\ disk = [a \in Addrs |-> IF a = <<0, 0>> THEN MapBlock(file0, cp0) ELSE NoBlock]
        /\ area = [i \in 0 .. 1 |-> IF i = 0 THEN region ELSE [region EXCEPT !.ts = 0]]
        /\ nextArea = 1 /\ ts = 2 /\ checked = Nobody /\ numDirty = 0
        /\ writeActive = FALSE /\ ckptWait = FALSE
        /\ pc = [p \in Procs |-> "idle"] /\ out = [p \in Procs |-> NoOut]
        /\ ck = [p \in Procs |-> NoRegion] /\ job = NoJob /\ uses = 0 /\ crashes = 0

\* The bounds FollowGaps and MaxStamp, and what a panic stops.  What a gap is, is
\* said at Gaps.
Followed == ts <= MaxStamp /\ \A p \in Procs : ck[p].gap \subseteq FollowGaps
Running == Followed /\ pc[Cleaner] # "panic"
-----------------------------------------------------------------------------
(* The segment usage array and the stable memory.                          *)

\* LfsSetSegUsage: the count is not let below zero.
Less(n, k) == IF n < k THEN 0 ELSE n - k

\* LfsStableMemRelease of a modified block of the map: its old address, if it has
\* one, is free at once.
UsageWithoutMap ==
    [s \in Segs |-> IF mapAddr[1] = s THEN Less(cp.usage[s], MapSize) ELSE cp.usage[s]]

NumClean == Len(cp.clean)

\* LfsSegCleanStart, on the function from processes to what they do.
LfsSegCleanStart(pcs) == IF pcs[Cleaner] = "idle" THEN [pcs EXCEPT ![Cleaner] = "pick"] ELSE pcs

\* LFS_CHECKPOINT_ACTIVE.
Working == {"create", "segwait", "segretry", "out", "lock", "region"}
CkptActive ==
    \/ \E s \in CkptProcs : pc[s] \in Working
    \/ pc[Cleaner] \in Working /\ ~job.layout

IsCkpt(p) == p # Writer /\ (p = Cleaner => ~job.layout)

\* The map is in a segment on its way to the disk: who would change it waits.
MapInFlight == \E p \in Procs : pc[p] = "out" /\ out[p].map
InFlight(f) == \E p \in Procs : pc[p] = "out" /\ f \in out[p].datas
Busy(f) == file[f].held \cap {"read", "write"} # {}

\* LfsGetLogTail: where the next segment goes.
NoTail(p) == p # Cleaner /\ NumClean <= MinNumClean
DiskFull == cp.off = -1 /\ NumClean = 0
LfsGetLogTail ==
    IF cp.off # -1 THEN cp
    ELSE [cur |-> Head(cp.clean), off |-> 0, clean |-> Tail(cp.clean),
          usage |-> [cp.usage EXCEPT ![Head(cp.clean)] = 0]]
-----------------------------------------------------------------------------
(* Segment layout.                                                         *)

\* Fscache_GetDirtyFile with LfsFileMatch: the files a layout may take.
Eligible(p) ==
    {f \in Files :
        /\ file[f].dirty \/ file[f].desc
        /\ \A q \in Procs : pc[q] = "out" => f \notin out[q].files
        /\ ~(file[f].dirty /\ Busy(f))
        /\ p = Writer => ~file[f].fclean
        /\ ~IsCkpt(p) /\ p = Cleaner => file[f].fclean}

\* The write-back process only looks for files that are old or being synced.
Taken(p) == {Eligible(p)} \cup (IF p = Writer THEN {{}} ELSE {})

\* Whether the modules of the map lay out a dirty map (LfsStableMemLayout).
WantsMap(p) ==
    IF checked = p \/ IsCkpt(p) THEN {TRUE} ELSE IF p = Writer THEN BOOLEAN ELSE {FALSE}

\* PlaceFileInSegment: what is placed of the files.
Data(f) == [kind |-> "data", f |-> f]
Desc(f) == [kind |-> "desc", f |-> f]
Items(p, fs) ==
    {Desc(f) : f \in fs}
      \cup {Data(f) : f \in {g \in fs : file[g].dirty /\ (~IsCkpt(p) /\ p = Cleaner => file[g].bclean)}}

\* The order in which it is placed: a descriptor comes right behind the data.
Orders(p) ==
    UNION {{w \in Bijection(S, 1 .. Cardinality(S)) :
               \A f \in Files : Data(f) \in S => w[Desc(f)] = w[Data(f)] + 1} :
           S \in {Items(p, fs) : fs \in Taken(p)}}

\* The room in the segment, the blocks that find room and their addresses.
Room == SegBlocks - LfsGetLogTail.off
Cell(i) == <<LfsGetLogTail.cur, LfsGetLogTail.off + i - 1>>
Put(w) == {it \in DOMAIN w : w[it] <= Room}
Left(w) == Room - Cardinality(Put(w))

\* The blocks are placed: the indices and the descriptor map follow.
FilesOut(w) ==
    [f \in Files |-> [file[f] EXCEPT
        !.daddr = IF Data(f) \in Put(w) THEN Cell(w[Data(f)]) ELSE @,
        !.iaddr = IF Desc(f) \in Put(w) THEN Cell(w[Desc(f)]) ELSE @,
        !.dirty = @ /\ Data(f) \notin Put(w),
        !.bclean = @ /\ Data(f) \notin Put(w),
        !.desc = (@ \/ Data(f) \in Put(w)) /\ Desc(f) \notin Put(w)]]

\* LfsSegUsageFreeBlocks for the old addresses: only the current segment is counted
\* outside the map.
OldAddr(it) == IF it.kind = "data" THEN file[it.f].daddr ELSE file[it.f].iaddr
DirtiesMap(w) ==
    \/ cp.off = -1
    \/ \E it \in Put(w) :
          it.kind = "desc" \/ (OldAddr(it) # Nil /\ OldAddr(it)[1] # LfsGetLogTail.cur)
Freed(w, s) ==
    Cardinality({it \in Put(w) : OldAddr(it)[1] = s})
      + (IF DirtiesMap(w) /\ mapAddr[1] = s THEN MapSize ELSE 0)
MapLeft(w) == IF DirtiesMap(w) THEN Nil ELSE mapAddr

\* LfsStableMemLayout: a dirty map is taken off the list and placed if it fits.
TakesMap(p, w, wantsMap) ==
    wantsMap /\ Left(w) > 0 /\ MapLeft(w) = Nil /\ checked \in {Nobody, p}
PutsMap(p, w, wantsMap) == TakesMap(p, w, wantsMap) /\ Left(w) >= MapSize
IsFull(p, w, wantsMap) ==
    Left(w) = 0 \/ (TakesMap(p, w, wantsMap) /\ ~PutsMap(p, w, wantsMap))
Used(p, w, wantsMap) ==
    Cardinality(Put(w)) + (IF PutsMap(p, w, wantsMap) THEN MapSize ELSE 0)
MapOut(p, w, wantsMap) ==
    IF PutsMap(p, w, wantsMap) THEN Cell(Cardinality(Put(w)) + 1) ELSE MapLeft(w)

\* LfsSetLogTail: the tail behind the segment.
TailOut(p, w, wantsMap) ==
    LET used == Used(p, w, wantsMap) IN
    [LfsGetLogTail EXCEPT
        !.usage = [s \in Segs |-> Less(@[s], Freed(w, s))
                                    + (IF s = LfsGetLogTail.cur THEN used ELSE 0)],
        !.off = IF IsFull(p, w, wantsMap) THEN -1 ELSE IF used = 0 THEN @
                ELSE IF Room - used > WasteBlocks THEN @ + used ELSE -1]

\* The blocks of the segment, with their addresses.
BlockOf(it, files) ==
    IF it.kind = "data" THEN [kind |-> "data", f |-> it.f, v |-> file[it.f].ver]
    ELSE [kind |-> "desc", f |-> it.f, at |-> files[it.f].daddr]
BlocksOut(p, w, wantsMap) ==
    [a \in {Cell(i) : i \in 1 .. Used(p, w, wantsMap)} |->
        IF \E it \in Put(w) : Cell(w[it]) = a
        THEN BlockOf(CHOOSE it \in Put(w) : Cell(w[it]) = a, FilesOut(w))
        ELSE IF a = MapOut(p, w, wantsMap)
        THEN MapBlock(FilesOut(w), TailOut(p, w, wantsMap)) ELSE NoBlock]

\* What a checkpoint region must not be filled in across, and the code lets happen.
Gaps(p, files, map) ==
    {g \in {"overlap", "checkedOut", "held"} :
        \/ g = "overlap" /\ \E q \in Procs \ {p} : pc[q] = "out"
        \/ g = "checkedOut" /\ map = Nil
        \/ g = "held" /\ \E f \in Files : files[f].dirty /\ Busy(f)}

\* Mutant: the region is filled in before the tail of the log is moved.
FillRegionEarly(p, files, map, tail) ==
    [map |-> map, cur |-> cp.cur, off |-> cp.off, used |-> cp.usage[cp.cur],
     want |-> [f \in Files |-> file[f].ver], gap |-> Gaps(p, files, map)]

\* The region of a checkpoint: the index of the map, and the state of the log
\* once LfsSetLogTail has moved the tail (LfsSegUsageCheckpointUpdate).
FillRegion(p, files, map, tail) ==
    [map |-> map, cur |-> tail.cur, off |-> tail.off, used |-> tail.usage[tail.cur],
     want |-> [f \in Files |-> file[f].ver], gap |-> Gaps(p, files, map)]

\* DoOutCallBacks and WriteSegmentStart: a segment is filled, the log's tail is
\* moved behind it, the last segment of a checkpoint fills in the region, and
\* the write is started.
DoOutCallBacks(p, w, wantsMap) ==
    LET files == FilesOut(w)
        blocks == BlocksOut(p, w, wantsMap)
        full == IsFull(p, w, wantsMap)
        First(f) == IF Data(f) \in DOMAIN w THEN Data(f) ELSE Desc(f)
    IN  /\ file' = files /\ mapAddr' = MapOut(p, w, wantsMap) /\ cp' = TailOut(p, w, wantsMap)
        /\ checked' = IF TakesMap(p, w, wantsMap) THEN p ELSE checked
        /\ out' = [out EXCEPT ![p] =
              [blocks |-> blocks,
               files |-> {f \in Files : Desc(f) \in DOMAIN w /\ w[First(f)] <= Room + 1},
               datas |-> {f \in Files : Data(f) \in Put(w)},
               map |-> PutsMap(p, w, wantsMap), full |-> full]]
        /\ disk' = [a \in Addrs |-> IF a \in DOMAIN blocks THEN NoBlock ELSE disk[a]]
        /\ ck' = IF IsCkpt(p) /\ ~full
                 THEN [ck EXCEPT ![p] = FillRegion(p, files, mapAddr', cp')] ELSE ck
        /\ pc' = LET pcs == [pc EXCEPT ![p] = "out"]
                 IN  IF cp.off = -1 /\ Len(LfsGetLogTail.clean) <= MinNumClean
                     THEN LfsSegCleanStart(pcs) ELSE pcs

\* CreateSegmentToWrite: writers wait for each other, but not a process that
\* comes back from waiting for clean segments.
MayCreate(p) == pc[p] = "segretry" \/ (pc[p] = "create" /\ ~writeActive)

WriteSegment(p) ==
    /\ Running /\ MayCreate(p) /\ ~NoTail(p) /\ ~DiskFull /\ ~MapInFlight
    /\ writeActive' = TRUE
    /\ \E w \in Orders(p), wantsMap \in WantsMap(p) : DoOutCallBacks(p, w, wantsMap)
    /\ UNCHANGED <<area, nextArea, ts, numDirty, ckptWait, job, uses, crashes>>

WaitForSegment(p) ==
    /\ Running /\ MayCreate(p) /\ NoTail(p)
    /\ pc' = LfsSegCleanStart([pc EXCEPT ![p] = "segwait"])
    /\ UNCHANGED <<disk, area, nextArea, ts, fsVars, writeActive, ckptWait, out, ck, job, uses, crashes>>

\* "Ran out of clean segments during cleaning.": LfsError panics.
Panic ==
    /\ Running
    /\ \/ MayCreate(Cleaner) /\ DiskFull
       \/ pc[Cleaner] = "mark" /\ job.read # <<>> /\ cp.clean = <<>>
    /\ pc' = [pc EXCEPT ![Cleaner] = "panic"]
    /\ UNCHANGED <<disk, area, nextArea, ts, fsVars, writeActive, ckptWait, out, ck, job, uses, crashes>>
-----------------------------------------------------------------------------
(* The end of a segment write, and checkpoint regions.                     *)

\* LfsCheckPointFileSystem under checkPointLock: the region goes to the next
\* area.  Until the write is done the area holds a header without its trailer
\* (or still the old region, which is then not the newest either).
StartRegion(p, areas, next) ==
    /\ ts' = ts + 1
    /\ area' = [areas EXCEPT ![next] =
          [map |-> ck[p].map, cur |-> ck[p].cur, off |-> ck[p].off, used |-> ck[p].used,
           want |-> ck[p].want, gap |-> ck[p].gap, ts |-> ts + 1, ok |-> FALSE]]

\* DoInCallBacks(SEG_WRITEDONE), WriteDoneNotify and what the caller does next.
WriteDone(p) ==
    /\ Running /\ pc[p] = "out"
    /\ disk' = [a \in Addrs |->
          IF a \in DOMAIN out[p].blocks THEN out[p].blocks[a] ELSE disk[a]]
    /\ file' = [f \in Files |->
          IF f \in out[p].files /\ ~file[f].dirty /\ ~file[f].desc
          THEN [file[f] EXCEPT !.fclean = FALSE] ELSE file[f]]
    /\ checked' = IF out[p].map THEN Nobody ELSE checked
    /\ writeActive' = FALSE
    /\ out' = [out EXCEPT ![p] = NoOut]
    /\ \/ out[p].full /\ pc' = [pc EXCEPT ![p] = "create"] /\ UNCHANGED <<ts, area, job>>
       \/ /\ ~out[p].full /\ ~IsCkpt(p)
          /\ \/ p = Writer /\ pc' = [pc EXCEPT ![p] = "idle"] /\ UNCHANGED job
             \/ /\ p = Cleaner /\ job.todo # <<>>
                /\ pc' = [pc EXCEPT ![p] = "in"] /\ job' = [job EXCEPT !.live = FALSE]
             \/ /\ p = Cleaner
                /\ pc' = [pc EXCEPT ![p] = "create"] /\ job' = [job EXCEPT !.layout = FALSE]
          /\ UNCHANGED <<ts, area>>
       \/ /\ ~out[p].full /\ IsCkpt(p) /\ UNCHANGED job
          /\ IF \E q \in Procs : pc[q] = "region"
             THEN pc' = [pc EXCEPT ![p] = "lock"] /\ UNCHANGED <<ts, area>>
             ELSE pc' = [pc EXCEPT ![p] = "region"] /\ StartRegion(p, area, nextArea)
    /\ UNCHANGED <<nextArea, mapAddr, cp, numDirty, ckptWait, ck, uses, crashes>>

Broadcast(pcs) == [p \in Procs |-> IF pcs[p] = "segwait" THEN "segretry" ELSE pcs[p]]

\* The region is on the disk; LfsSegCheckPointDone.  The process that waits for
\* checkPointLock runs before this one has been through another disk write.
RegionDone(p) ==
    /\ Running /\ pc[p] = "region"
    /\ LET areas == [area EXCEPT ![nextArea].ok = TRUE]
           waiters == {q \in Procs : pc[q] = "lock"}
           done == [pc EXCEPT ![p] = IF p = Cleaner THEN "mark" ELSE "idle"]
           woken == IF p = Cleaner THEN Broadcast(done) ELSE done
       IN  IF waiters = {}
           THEN area' = areas /\ pc' = woken /\ UNCHANGED ts
           ELSE \E q \in waiters :
                   StartRegion(q, areas, 1 - nextArea) /\ pc' = [woken EXCEPT ![q] = "region"]
    /\ nextArea' = 1 - nextArea /\ ckptWait' = FALSE /\ numDirty' = 0
    /\ ck' = [ck EXCEPT ![p] = NoRegion]
    /\ UNCHANGED <<disk, file, mapAddr, checked, cp, writeActive, out, job, uses, crashes>>

\* LfsCheckPointFileSystem from the sync call or the timer, up to the first wait.
StartCheckPoint(s) ==
    /\ Running /\ pc[s] = "idle"
    /\ IF pc[Cleaner] # "idle"
       THEN pc' = [pc EXCEPT ![s] = "waitcleaner"] /\ ckptWait' = TRUE
       ELSE pc' = [pc EXCEPT ![s] = IF CkptActive THEN "waitckpt" ELSE "create"]
            /\ UNCHANGED ckptWait
    /\ UNCHANGED <<disk, area, nextArea, ts, fsVars, writeActive, out, ck, job, uses, crashes>>

WaitEnds(s) ==
    /\ Running
    /\ \/ pc[s] = "waitcleaner" /\ ~ckptWait /\ pc' = [pc EXCEPT ![s] = "idle"]
       \/ pc[s] = "waitckpt" /\ ~CkptActive /\ pc' = [pc EXCEPT ![s] = "create"]
    /\ UNCHANGED <<disk, area, nextArea, ts, fsVars, writeActive, ckptWait, out, ck, job, uses, crashes>>

\* The cache starts LfsSegmentWriteProc when there are dirty files.
StartWriter ==
    /\ Running /\ pc[Writer] = "idle" /\ \E f \in Files : file[f].dirty \/ file[f].desc
    /\ pc' = [pc EXCEPT ![Writer] = "create"]
    /\ UNCHANGED <<disk, area, nextArea, ts, fsVars, writeActive, ckptWait, out, ck, job, uses, crashes>>
-----------------------------------------------------------------------------
(* The segment cleaner.                                                    *)

\* FS_CLEAN_LFS_COMMAND.
Lfs_Command ==
    /\ Running /\ pc[Cleaner] = "idle"
    /\ pc' = LfsSegCleanStart(pc)
    /\ UNCHANGED <<disk, area, nextArea, ts, fsVars, writeActive, ckptWait, out, ck, job, uses, crashes>>

\* Mutant: the current segment may be cleaned too.
DirtySegsAny == {s \in Segs : s \notin ToSet(cp.clean) /\ cp.usage[s] <= DirtyActive}

\* LfsGetSegsToClean: empty segments first, the others in any order.
DirtySegs == {s \in Segs : s # cp.cur /\ s \notin ToSet(cp.clean) /\ cp.usage[s] <= DirtyActive}
SegsToClean ==
    {q \in SetToSeqs(DirtySegs) :
        \A i, j \in DOMAIN q : cp.usage[q[i]] > 0 /\ cp.usage[q[j]] = 0 => j < i}
MinNeeded == MinNumClean + NumSegsToClean + 1 > NumClean

\* The end of SegmentCleanProc, with a checkpoint if somebody waits for one.
EndCleaning ==
    /\ job' = NoJob
    /\ IF ckptWait \/ ~job.any
       THEN /\ pc[Final] = "idle"
            /\ pc' = [pc EXCEPT ![Cleaner] = "idle",
                                ![Final] = IF CkptActive THEN "waitckpt" ELSE "create"]
       ELSE pc' = [pc EXCEPT ![Cleaner] = "idle"]

PickSegments ==
    /\ Running /\ pc[Cleaner] \in {"pick", "again"} /\ ~MapInFlight
    /\ IF Cardinality(DirtySegs) > 1 /\ (pc[Cleaner] = "pick" \/ MinNeeded)
       THEN /\ pc' = [pc EXCEPT ![Cleaner] = "in"]
            /\ \E q \in SegsToClean :
                 job' = [NoJob EXCEPT !.layout = TRUE, !.todo = q, !.any = job.any]
       ELSE EndCleaning
    /\ UNCHANGED <<disk, area, nextArea, ts, fsVars, writeActive, ckptWait, out, ck, uses, crashes>>

\* LfsFileLayoutClean: live blocks of a segment are put on the dirty lists.
Cleaned(f, s) ==
    LET data == file[f].daddr[1] = s
        desc == file[f].iaddr[1] = s
    IN  IF data \/ desc
        THEN [file[f] EXCEPT !.dirty = @ \/ data, !.bclean = @ \/ data,
                             !.desc = @ \/ desc, !.fclean = TRUE]
        ELSE file[f]

\* DoInCallBacks(SEG_CLEAN_IN) of the next segment; a file whose handle is
\* locked or whose block is in use makes it fail half way.
CleanIn ==
    /\ Running /\ pc[Cleaner] = "in" /\ job.todo # <<>>
    /\ LET s == Head(job.todo)
           lives == {f \in Files : file[f].daddr[1] = s \/ file[f].iaddr[1] = s}
           busy == {f \in lives : file[f].daddr[1] = s /\ (Busy(f) \/ InFlight(f))}
       IN  \/ /\ busy = {}
              /\ file' = [f \in Files |-> Cleaned(f, s)]
              /\ IF mapAddr[1] = s
                 THEN mapAddr' = Nil /\ cp' = [cp EXCEPT !.usage = UsageWithoutMap]
                 ELSE UNCHANGED <<mapAddr, cp>>
              /\ job' = [job EXCEPT !.todo = Tail(@), !.read = Append(@, s), !.any = TRUE,
                                    !.live = @ \/ lives # {} \/ mapAddr[1] = s]
           \/ /\ lives # {}
              /\ \E part \in SUBSET (lives \ busy) :
                   file' = [f \in Files |-> IF f \in part THEN Cleaned(f, s) ELSE file[f]]
              /\ job' = [job EXCEPT !.todo = Tail(@), !.live = @ \/ file' # file]
              /\ UNCHANGED <<mapAddr, cp>>
    /\ UNCHANGED <<disk, area, nextArea, ts, checked, numDirty, writeActive, ckptWait,
                   pc, out, ck, uses, crashes>>

\* Mutant: nothing is written when nothing in the segments was live.
EndInUnsaved ==
    /\ Running /\ pc[Cleaner] = "in"
    /\ pc' = [pc EXCEPT ![Cleaner] = IF job.live THEN "create" ELSE "mark"]
    /\ job' = [job EXCEPT !.layout = job.live]
    /\ UNCHANGED <<disk, area, nextArea, ts, fsVars, writeActive, ckptWait, out, ck, uses, crashes>>

\* Enough segments have been read: they are written out, or the checkpoint
\* that precedes marking them clean is taken.
EndIn ==
    /\ Running /\ pc[Cleaner] = "in"
    /\ pc' = [pc EXCEPT ![Cleaner] = "create"]
    /\ job' = [job EXCEPT !.layout = job.live]
    /\ UNCHANGED <<disk, area, nextArea, ts, fsVars, writeActive, ckptWait, out, ck, uses, crashes>>

\* LfsMarkSegsClean: behind the head of the list of clean segments.
MarkSegsClean ==
    /\ Running /\ pc[Cleaner] = "mark" /\ ~MapInFlight
    /\ IF job.read = <<>> THEN UNCHANGED <<mapAddr, cp>> /\ pc' = [pc EXCEPT ![Cleaner] = "again"]
       ELSE /\ cp.clean # <<>>
            /\ mapAddr' = Nil
            /\ cp' = [cp EXCEPT !.usage = UsageWithoutMap,
                                !.clean = <<Head(@)>> \o Reverse(job.read) \o Tail(@)]
            /\ pc' = Broadcast([pc EXCEPT ![Cleaner] = "again"])
    /\ UNCHANGED <<disk, area, nextArea, ts, file, checked, numDirty, writeActive, ckptWait,
                   out, ck, job, uses, crashes>>
-----------------------------------------------------------------------------
(* Reads and writes of files, crashes.                                   *)

EnoughClean == (NumClean - MinNumClean) * SegBlocks >= numDirty + 1

\* Lfs_BlockAllocate: LfsWaitForCleanSegments.
BlockAllocate(f) ==
    /\ Running /\ "alloc" \notin file[f].held /\ uses < MaxUses /\ ~CkptActive
    /\ IF EnoughClean
       THEN /\ file' = [file EXCEPT ![f].held = @ \cup {"alloc"}]
            /\ numDirty' = numDirty + 1 /\ uses' = uses + 1 /\ UNCHANGED pc
       ELSE /\ pc[Cleaner] = "idle"
            /\ pc' = LfsSegCleanStart(pc) /\ UNCHANGED <<file, numDirty, uses>>
    /\ UNCHANGED <<disk, area, nextArea, ts, mapAddr, checked, cp, writeActive, ckptWait,
                   out, ck, job, crashes>>

\* Fscache_FetchBlock: a writer wants the block for itself.
FetchBlock(f) ==
    /\ Running /\ ~Busy(f)
    /\ \/ /\ "alloc" \in file[f].held /\ ~InFlight(f)
          /\ file' = [file EXCEPT ![f].held = {"write"}] /\ UNCHANGED uses
       \/ /\ file[f].ver > 0 /\ uses < MaxUses
          /\ file' = [file EXCEPT ![f].held = @ \cup {"read"}] /\ uses' = uses + 1
    /\ UNCHANGED <<disk, area, nextArea, ts, mapAddr, checked, cp, numDirty, writeActive,
                   ckptWait, pc, out, ck, job, crashes>>

\* Fscache_UnlockBlock.
UnlockBlock(f) ==
    /\ Running
    /\ \/ "write" \in file[f].held
          /\ file' = [file EXCEPT ![f].held = @ \ {"write"}, ![f].ver = uses,
                                  ![f].dirty = TRUE]
       \/ "read" \in file[f].held
          /\ file' = [file EXCEPT ![f].held = @ \ {"read"}]
    /\ UNCHANGED <<disk, area, nextArea, ts, mapAddr, checked, cp, numDirty, writeActive,
                   ckptWait, pc, out, ck, job, uses, crashes>>

\* LfsLoadFileSystem: the area with the newest header, the other one if the
\* trailer does not agree.
Newest == IF area[0].ts < area[1].ts THEN 1 ELSE 0
Chosen == IF area[Newest].ok THEN Newest ELSE 1 - Newest

\* A file as the blocks on the disk describe it.
Version(i) == IF i = Nil THEN 0 ELSE disk[disk[i].at].v

\* Mutant: time stamps start anew at every attach.
LoadedStampNew(r) == 0

\* The time stamp that the file system goes on with.
LoadedStamp(r) == r.ts + 1

Crash ==
    /\ Followed /\ crashes < MaxCrashes
    /\ LET r == area[Chosen]
           m == disk[r.map]
       IN  /\ file' = [f \in Files |->
                 IF m.at[f] = Nil THEN NewFile
                 ELSE [NewFile EXCEPT !.iaddr = m.at[f], !.daddr = disk[m.at[f]].at,
                                      !.ver = Version(m.at[f])]]
           /\ mapAddr' = r.map /\ ts' = LoadedStamp(r)
           /\ cp' = [cur |-> r.cur, off |-> r.off, clean |-> m.clean,
                     usage |-> [m.usage EXCEPT ![r.cur] = r.used]]
    /\ nextArea' = 1 - Chosen /\ checked' = Nobody /\ numDirty' = 0
    /\ writeActive' = FALSE /\ ckptWait' = FALSE
    /\ pc' = [p \in Procs |-> "idle"] /\ out' = [p \in Procs |-> NoOut]
    /\ ck' = [p \in Procs |-> NoRegion] /\ job' = NoJob
    /\ crashes' = crashes + 1
    /\ UNCHANGED <<disk, area, uses>>

Next ==
    \/ \E p \in Procs : WriteSegment(p) \/ WaitForSegment(p) \/ WriteDone(p) \/ RegionDone(p)
    \/ \E s \in Syncers : StartCheckPoint(s)
    \/ \E s \in CkptProcs : WaitEnds(s)
    \/ StartWriter \/ Panic \/ Crash
    \/ Lfs_Command \/ PickSegments \/ CleanIn \/ EndIn \/ MarkSegsClean
    \/ \E f \in Files : BlockAllocate(f) \/ FetchBlock(f) \/ UnlockBlock(f)

Spec == Init /\ [][Next]_vars
-----------------------------------------------------------------------------
(* Properties.                                                             *)

\* The variables have their types; in particular the log's tail is in the
\* current segment, which is not on the list of clean segments, and the list
\* has no segment twice.
TypeOK ==
    /\ nextArea \in 0 .. 1 /\ ts \in Nat /\ checked \in Procs \cup {Nobody}
    /\ writeActive \in BOOLEAN /\ ckptWait \in BOOLEAN /\ numDirty \in Nat
    /\ cp.cur \in Segs \ ToSet(cp.clean) /\ cp.off \in -1 .. SegBlocks - 1
    /\ ToSet(cp.clean) \subseteq Segs /\ IsInjective(cp.clean)
    /\ mapAddr \in Addrs \cup {Nil}
    /\ \A f \in Files : {file[f].daddr, file[f].iaddr} \subseteq Addrs \cup {Nil}
    /\ \A p \in Procs : pc[p] \in {"idle", "create", "segwait", "segretry", "out", "lock",
            "region", "waitcleaner", "waitckpt", "pick", "again", "in", "mark", "panic"}

MapCells(a) == IF a = Nil THEN {} ELSE {<<a[1], a[2] + i>> : i \in 0 .. MapSize - 1}
Live == (MapCells(mapAddr) \cup UNION {{file[f].daddr, file[f].iaddr} : f \in Files}) \ {Nil}

\* What a checkpoint region refers to, with the blocks d on the disk.
Referred(d, r) ==
    LET m == d[r.map]
        descs == {m.at[f] : f \in Files} \ {Nil}
    IN  MapCells(r.map) \cup descs \cup {d[i].at : i \in descs}

HasFile(d, i, f, v) ==
    IF v = 0 THEN i = Nil
    ELSE /\ i # Nil /\ d[i].kind = "desc" /\ d[i].f = f /\ d[i].at # Nil
         /\ d[d[i].at] = [kind |-> "data", f |-> f, v |-> v]

\* At any time the region LfsLoadFileSystem would choose after a crash is
\* complete, the map and every descriptor and block it leads to are on the disk
\* with the contents they had when the checkpoint was taken, and none of them
\* is in a segment that the loaded file system takes for clean.
CheckpointIntact ==
    LET r == area[Chosen]
    IN  /\ r.ok /\ r.map # Nil /\ disk[r.map].kind = "map"
        /\ \A f \in Files : HasFile(disk, disk[r.map].at[f], f, r.want[f])
        /\ \A a \in Referred(disk, r) : a[1] \notin ToSet(disk[r.map].clean)

\* The cleaner frees segments late enough and everybody reuses them early
\* enough: a segment on the list of clean segments holds no block in use, and
\* none that the newest complete checkpoint needs.
CleanIsDead ==
    \A a \in Live \cup Referred(disk, area[Chosen]) : a[1] \notin ToSet(cp.clean)

\* The incremental counts of LfsSetSegUsage are the number of live blocks of
\* the segments, also after the usage array has been through a crash.
UsageAgrees ==
    \A s \in Segs \ ToSet(cp.clean) : cp.usage[s] = Cardinality({a \in Live : a[1] = s})

\* A checkpoint that is written later does not describe an earlier state.
CheckpointsInOrder ==
    \A i \in 0 .. 1 : area[i].ok /\ area[1 - i].ok /\ area[i].ts < area[1 - i].ts
        => \A f \in Files : area[i].want[f] <= area[1 - i].want[f]
==============================================================================
