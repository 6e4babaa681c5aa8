--------------------------- MODULE LevelCompaction ---------------------------
(***************************************************************************)
(* The levels of leveldb (db/version_set.cc and the compactions of         *)
(* db/db_impl.cc): where a memtable's table is put, which files a          *)
(* compaction takes, which entries it drops, how it cuts its output, and   *)
(* how a Get finds its way through memtables and levels, with snapshots.   *)
(*                                                                         *)
(* A file is its set of entries; its size is their number.  The files of   *)
(* level 0 are ordered by their sequence numbers, as by their file numbers. *)
(* What is on the disk is module LevelStore's: here nothing fails.          *)
(***************************************************************************)
EXTENDS Integers, FiniteSets

CONSTANTS Keys,                \* user keys, natural numbers
          NumLevels,           \* config::kNumLevels, 7 in the code
          MaxMemCompactLevel,  \* config::kMaxMemCompactLevel
          L0Trigger,           \* config::kL0_CompactionTrigger
          LevelLimit,          \* MaxBytesForLevel, the same for every level
          FileLimit,           \* options.max_file_size
          OverlapLimit,        \* MaxGrandParentOverlapBytes
          ExpandLimit,         \* ExpandedCompactionByteSizeLimit
          BufferLimit,         \* options.write_buffer_size
          Batches,             \* WriteBatches: sets of [key, del]
          MaxSequence, MaxSnapshots, MaxManual   \* bounds

(* Keys are ordered as the comparator orders them.  A batch has one write to a *)
(* key, so that the model need not order its writes.                         *)
CompactionAssumption ==
    /\ NumLevels \in Nat /\ NumLevels > 1
    /\ MaxMemCompactLevel \in Nat /\ MaxMemCompactLevel < NumLevels
    /\ FileLimit \in Nat /\ FileLimit > 0
    /\ Keys \subseteq Nat
    /\ \A batch \in Batches :
          /\ IsFiniteSet(batch) /\ batch \subseteq [key : Keys, del : BOOLEAN]
          /\ \A o, p \in batch : o.key = p.key => o = p

VARIABLES
    levels,    \* the current version: levels[n] is a set of files
    pointer,   \* compact_pointer_, {} where it is empty
    tables2,   \* the memtables: [mem, imm]
    sequence,  \* LastSequence
    snaps,     \* the numbers of the snapshots held
    job,       \* the running compaction
    call,      \* a call of CompactRange: [at, level, top, lo, hi, from, since]
    past       \* what has been written, and two things compactions have done

levelsVars == <<levels, pointer, tables2, sequence, snaps, job, call, past>>

Levels == 0..(NumLevels - 1)
NoJob == [on |-> FALSE, manual |-> FALSE, level |-> 0, in0 |-> {}, in1 |-> {},
          deeper |-> {}, grand |-> {}, smallest |-> 0]
NoCall == [at |-> "none", level |-> 0, top |-> 0, lo |-> 0, hi |-> 0,
           from |-> 0, since |-> 0]

LevelsInit ==
    /\ levels = [n \in Levels |-> {}]
    /\ pointer = [n \in Levels |-> {}]
    /\ tables2 = [mem |-> {}, imm |-> {}]
    /\ sequence = 0 /\ snaps = {} /\ job = NoJob /\ call = NoCall
    /\ past = [written |-> {}, raced |-> FALSE, separated |-> FALSE, manual |-> 0]

-----------------------------------------------------------------------------
(* Entries, files and ranges *)

(* InternalKeyComparator: user keys ascending, sequence numbers descending.  *)
Before(e, f) == e.key < f.key \/ (e.key = f.key /\ e.seq > f.seq)
Smallest(S) == CHOOSE e \in S : \A f \in S : e = f \/ Before(e, f)
Largest(S) == CHOOSE e \in S : \A f \in S : e = f \/ Before(f, e)
Newest(S) == CHOOSE e \in S : \A f \in S : f.seq <= e.seq
First(files) == CHOOSE f \in files : \A g \in files : f = g \/ Before(Smallest(f), Smallest(g))
Last(files) == CHOOSE f \in files : \A g \in files : f = g \/ Before(Smallest(g), Smallest(f))

Entries(files) == UNION files
Size(files) == Cardinality(Entries(files))
LowKey(S) == Smallest(S).key          \* the user keys a set of entries spans
HighKey(S) == Largest(S).key
Touches(f, lo, hi) == LowKey(f) <= hi /\ lo <= HighKey(f)
OverlapInLevel(n, lo, hi) == \E f \in levels[n] : Touches(f, lo, hi)

(* GetOverlappingInputs; in level 0 the range grows with the files it meets. *)
GetOverlappingInputs(n, lo, hi) ==
    LET meets(F) == {f \in levels[n] : \E g \in F : Touches(f, LowKey(g), HighKey(g))}
        direct == {f \in levels[n] : Touches(f, lo, hi)}
        closed == {F \in SUBSET levels[n] : direct \subseteq F /\ meets(F) = F}
    IN IF n > 0 THEN direct
       ELSE CHOOSE F \in closed : \A G \in closed : F \subseteq G

-----------------------------------------------------------------------------
(* Writes, snapshots and reads *)

Stamped(batch) ==
    {[key |-> o.key, del |-> o.del,
      seq |-> sequence + Cardinality({p \in batch : p.key <= o.key})] : o \in batch}

MemTableFull == Cardinality(tables2.mem) > BufferLimit

(* DBImpl::Write, and the switch of memtables in MakeRoomForWrite.            *)
Write(batch) ==
    /\ sequence + Cardinality(batch) <= MaxSequence
    /\ MemTableFull => tables2.imm = {}
    /\ tables2' = IF MemTableFull THEN [mem |-> Stamped(batch), imm |-> tables2.mem]
                  ELSE [tables2 EXCEPT !.mem = @ \cup Stamped(batch)]
    /\ sequence' = sequence + Cardinality(batch)
    /\ past' = [past EXCEPT !.written = @ \cup Stamped(batch)]
    /\ UNCHANGED <<levels, pointer, snaps, job, call>>

GetSnapshot ==
    /\ sequence \notin snaps /\ Cardinality(snaps) < MaxSnapshots
    /\ snaps' = snaps \cup {sequence}
    /\ UNCHANGED <<levels, pointer, tables2, sequence, job, call, past>>

ReleaseSnapshot(s) ==
    /\ s \in snaps
    /\ snaps' = snaps \ {s}
    /\ UNCHANGED <<levels, pointer, tables2, sequence, job, call, past>>

(* The entry a table or a memtable answers for user key k as of sequence s.  *)
Hits(S, k, s) == {e \in S : e.key = k /\ e.seq <= s}

(* FindFile: the first file whose largest key is not before (k, s).          *)
FindFile(n, k, s) ==
    LET ahead == {f \in levels[n] :
                     ~Before(Largest(f), [key |-> k, seq |-> s])}
    IN IF ahead = {} THEN {} ELSE First(ahead)

(* In level 0, the newest of the files that have the key.                    *)
NewestFile(k, s) ==
    LET having == {f \in levels[0] : Hits(f, k, s) # {}}
    IN IF having = {} THEN {}
       ELSE CHOOSE f \in having : \A g \in having : Newest(g).seq <= Newest(f).seq

(* DBImpl::Get and Version::Get: where they look, in this order.             *)
Source(i, k, s) ==
    CASE i = 0 -> tables2.mem
      [] i = 1 -> tables2.imm
      [] i = 2 -> NewestFile(k, s)
      [] OTHER -> FindFile(i - 2, k, s)
Get(k, s) ==
    LET having == {i \in 0..(NumLevels + 1) : Hits(Source(i, k, s), k, s) # {}}
        first == CHOOSE i \in having : \A j \in having : i <= j
    IN IF having = {} THEN {}
       ELSE {e \in {Newest(Hits(Source(first, k, s), k, s))} : ~e.del}

-----------------------------------------------------------------------------
(* Flushing the immutable memtable *)

DeepestLevel(lo, hi) ==      \* mutant: only level 0 is looked at
    IF OverlapInLevel(0, lo, hi) THEN 0 ELSE MaxMemCompactLevel
PickLevelForMemTableOutput(lo, hi) ==
    LET free(n) ==
            /\ ~OverlapInLevel(n + 1, lo, hi)
            /\ n + 2 < NumLevels =>
                   Size(GetOverlappingInputs(n + 2, lo, hi)) <= OverlapLimit
        reach == {n \in 0..MaxMemCompactLevel : \A m \in 0..(n - 1) : free(m)}
    IN IF OverlapInLevel(0, lo, hi) THEN 0
       ELSE CHOOSE n \in reach : \A m \in reach : m <= n

(* CompactMemTable, by itself or between two keys of a running compaction.   *)
CompactMemTable ==
    /\ tables2.imm # {}
    /\ LET n == PickLevelForMemTableOutput(LowKey(tables2.imm), HighKey(tables2.imm))
       IN levels' = [levels EXCEPT ![n] = @ \cup {tables2.imm}]
    /\ tables2' = [tables2 EXCEPT !.imm = {}]
    /\ past' = [past EXCEPT !.raced = @ \/ job.manual]
    /\ UNCHANGED <<pointer, sequence, snaps, job, call>>

-----------------------------------------------------------------------------
(* Picking a compaction *)

Limit(n) == IF n = 0 THEN L0Trigger ELSE LevelLimit
Weight(n) == IF n = 0 THEN Cardinality(levels[0]) ELSE Size(levels[n])
(* Finalize: the level with the best score, the lowest of several.           *)
CompactionLevel ==
    CHOOSE n \in 0..(NumLevels - 2) : \A m \in 0..(NumLevels - 2) :
        LET mine == Weight(n) * Limit(m)  other == Weight(m) * Limit(n)
        IN mine > other \/ (mine = other /\ n <= m)
NeedsCompaction == \E n \in 0..(NumLevels - 2) : Weight(n) >= Limit(n)    \* the best score

(* The first file after compact_pointer_, or the first file.                 *)
PickFile(n) ==
    LET after == {f \in levels[n] : \A p \in pointer[n] : Before(p, Largest(f))}
    IN First(IF after = {} THEN levels[n] ELSE after)

(* A Get that looks into f and then into another file charges f with a seek. *)
Charged(n, f) ==
    \E m \in n..(NumLevels - 1) : \E g \in levels[m] :
        /\ Touches(g, LowKey(f), HighKey(f))
        /\ n = m => n = 0 /\ Newest(g).seq < Newest(f).seq

(* SetupOtherInputs: what the next level adds, and this level's files that   *)
(* then come for free.                                                       *)
OverlappedBy(n, files) ==
    GetOverlappingInputs(n, LowKey(Entries(files)), HighKey(Entries(files)))
Grown(in0, in1, more0, more1) ==      \* if no file of the next level is added for it
    IF /\ in1 # {} /\ Cardinality(more0) > Cardinality(in0)
       /\ Size(in1) + Size(more0) < ExpandLimit
       /\ Cardinality(more1) = Cardinality(in1)
    THEN [in0 |-> more0, in1 |-> more1] ELSE [in0 |-> in0, in1 |-> in1]
WithGrandparents(n, c) ==
    [in0 |-> c.in0, in1 |-> c.in1,
     grand |-> IF n + 2 < NumLevels THEN OverlappedBy(n + 2, c.in0 \cup c.in1) ELSE {}]
TryToGrow(n, in0, in1, more0) ==
    WithGrandparents(n, Grown(in0, in1, more0, OverlappedBy(n + 1, more0)))
AddOverlapped(n, in0, in1) == TryToGrow(n, in0, in1, OverlappedBy(n, in0 \cup in1))
SetupOtherInputs(n, in0) == AddOverlapped(n, in0, OverlappedBy(n + 1, in0))

(* A file stays in a level though it shares a user key with one that goes.    *)
LeftBehind(n, in) ==
    n > 0 /\ \E f \in levels[n] \ in : \E g \in in :
                 {e.key : e \in f} \cap {e.key : e \in g} # {}
Separates(n, c) == LeftBehind(n, c.in0) \/ LeftBehind(n + 1, c.in1)

SmallestSnapshot ==
    IF snaps = {} THEN sequence ELSE CHOOSE s \in snaps : \A t \in snaps : s <= t

IsTrivialMove(c) ==      \* unless it would make a file that is dear to merge later
    Cardinality(c.in0) = 1 /\ c.in1 = {} /\ Size(c.grand) <= OverlapLimit

(* BackgroundCompaction with the inputs of level n given: a move or a job.    *)
Compact(n, c, manual) ==
    /\ pointer' = [pointer EXCEPT ![n] = {Largest(Entries(c.in0))}]
    /\ past' = [past EXCEPT !.separated = @ \/ Separates(n, c)]
    /\ IF ~manual /\ IsTrivialMove(c)
       THEN /\ levels' = [levels EXCEPT ![n] = @ \ c.in0, ![n + 1] = @ \cup c.in0]
            /\ UNCHANGED job
       ELSE /\ job' = [on |-> TRUE, manual |-> manual, level |-> n,
                       in0 |-> c.in0, in1 |-> c.in1, grand |-> c.grand,
                       deeper |-> UNION {levels[m] : m \in (n + 2)..(NumLevels - 1)},
                       smallest |-> SmallestSnapshot]
            /\ UNCHANGED levels
    /\ UNCHANGED <<tables2, sequence, snaps>>

Idle == ~job.on /\ tables2.imm = {}
Overlapping(n, inputs) ==      \* in level 0, all that overlap what was picked
    IF n > 0 THEN inputs ELSE OverlappedBy(0, inputs)

(* A level that is too big comes before a file with too many seeks.          *)
PickCompaction ==
    /\ Idle
    /\ \E n \in 0..(NumLevels - 2) : \E f \in levels[n] :
          /\ IF NeedsCompaction THEN n = CompactionLevel /\ f = PickFile(n) ELSE Charged(n, f)
          /\ Compact(n, SetupOtherInputs(n, Overlapping(n, {f})), FALSE)
    /\ UNCHANGED call

-----------------------------------------------------------------------------
(* CompactRange: the memtable first, then one level after the other          *)

MaxLevelWithFiles(lo, hi) ==     \* what the memtable adds is not looked at
    LET with == {n \in 1..(NumLevels - 1) : OverlapInLevel(n, lo, hi)} \cup {1}
    IN CHOOSE n \in with : \A m \in with : m <= n

CompactRange(lo, hi) ==
    /\ call.at \in {"none", "done"} /\ past.manual < MaxManual
    /\ call' = [at |-> "memtable", level |-> 0, top |-> MaxLevelWithFiles(lo, hi),
                lo |-> lo, hi |-> hi, from |-> lo, since |-> sequence]
    /\ past' = [past EXCEPT !.manual = @ + 1]
    /\ UNCHANGED <<levels, pointer, tables2, sequence, snaps, job>>

(* TEST_CompactMemTable: a forced switch, which waits for the immutable one,  *)
(* and then the wait for the flush.                                          *)
ForceMemTable ==
    /\ call.at = "memtable" /\ tables2.imm = {}
    /\ tables2' = [mem |-> {}, imm |-> tables2.mem]
    /\ call' = [call EXCEPT !.at = "flush"]
    /\ UNCHANGED <<levels, pointer, sequence, snaps, job, past>>
AwaitFlush ==
    /\ call.at = "flush" /\ tables2.imm = {}
    /\ call' = [call EXCEPT !.at = "pass"]
    /\ UNCHANGED <<levels, pointer, tables2, sequence, snaps, job, past>>

(* VersionSet::CompactRange: the files in the range; above level 0 one file's *)
(* worth of them.                                                            *)
RangeInputs(n, lo, hi) ==
    LET files == GetOverlappingInputs(n, lo, hi)
        before(f) == {g \in files : g # f /\ Before(Smallest(g), Smallest(f))}
    IN IF n = 0 THEN files ELSE {f \in files : Size(before(f)) < FileLimit}

(* Where the next part of the level begins.                                  *)
ResumeAfterAll(c) == HighKey(Entries(c.in0 \cup c.in1))   \* mutant: of both levels
Resume(c) == HighKey(Last(c.in0))

(* One turn of TEST_CompactRange's loop: a part of the level, or done with it. *)
CompactPart ==
    /\ call.at = "pass" /\ Idle
    /\ LET n == call.level
           inputs == RangeInputs(n, call.from, call.hi)
       IN IF inputs = {}
          THEN /\ call' = IF n + 1 = call.top THEN [call EXCEPT !.at = "done"]
                          ELSE [call EXCEPT !.level = n + 1, !.from = call.lo]
               /\ UNCHANGED <<levels, pointer, tables2, sequence, snaps, job, past>>
          ELSE LET c == SetupOtherInputs(n, inputs)
               IN /\ Compact(n, c, TRUE)
                  /\ call' = [call EXCEPT !.from = Resume(c)]

-----------------------------------------------------------------------------
(* Doing it *)

IsBaseLevelForKey(k) == ~\E f \in job.deeper : LowKey(f) <= k /\ k <= HighKey(f)
HiddenByAny(e, all) ==           \* mutant: snapshots are forgotten
    \E f \in all : f.key = e.key /\ f.seq > e.seq
Hidden(e, all) ==
    \E f \in all : f.key = e.key /\ f.seq > e.seq /\ f.seq <= job.smallest
Obsolete(e) == e.del /\ e.seq <= job.smallest /\ IsBaseLevelForKey(e.key)

(* ShouldStopBefore: the output would overlap too much of the level below.    *)
Passed(e) == {f \in job.grand : Before(Largest(f), e)}
ShouldStopBefore(acc, e) ==
    LET over == acc.over + (IF acc.seen THEN Size(Passed(e) \ acc.gone) ELSE 0)
        stop == over > OverlapLimit
    IN [acc EXCEPT !.files = IF stop /\ acc.out # {} THEN @ \cup {acc.out} ELSE @,
                   !.out = IF stop THEN {} ELSE @,
                   !.gone = Passed(e), !.seen = TRUE,
                   !.over = IF stop THEN 0 ELSE over]

(* One turn of the loop of DoCompactionWork: the input iterator's next entry   *)
(* is dropped or added, and an output that is full is closed.                *)
Turned(acc, all) ==
    LET e == Smallest(acc.rest)
        begun == ShouldStopBefore(acc, e)
        out == IF Hidden(e, all) \/ Obsolete(e) THEN begun.out ELSE begun.out \cup {e}
        full == Cardinality(out) >= FileLimit
    IN [begun EXCEPT !.files = IF full THEN @ \cup {out} ELSE @,
                     !.out = IF full THEN {} ELSE out,
                     !.rest = @ \ {e}]
Outputs ==
    LET all == Entries(job.in0 \cup job.in1)
        turn[i \in 0..Cardinality(all)] ==
            IF i = 0 THEN [files |-> {}, out |-> {}, rest |-> all, gone |-> {},
                           seen |-> FALSE, over |-> 0]
            ELSE Turned(turn[i - 1], all)
        end == turn[Cardinality(all)]
    IN end.files \cup ({end.out} \ {{}})

(* InstallCompactionResults, AddInputDeletions.                              *)
DoCompactionWork ==
    /\ job.on
    /\ levels' = [levels EXCEPT ![job.level] = @ \ job.in0,
                                ![job.level + 1] = (@ \ job.in1) \cup Outputs]
    /\ job' = NoJob
    /\ UNCHANGED <<pointer, tables2, sequence, snaps, call, past>>

Settled ==    \* nothing left to do
    /\ Idle /\ ~NeedsCompaction /\ call.at \in {"none", "done"}
    /\ UNCHANGED levelsVars

Background == CompactMemTable \/ PickCompaction \/ CompactPart \/ DoCompactionWork

LevelsNext ==
    \/ \E batch \in Batches : Write(batch)
    \/ GetSnapshot
    \/ \E s \in snaps : ReleaseSnapshot(s)
    \/ Background
    \/ \E lo, hi \in Keys : lo <= hi /\ CompactRange(lo, hi)
    \/ ForceMemTable \/ AwaitFlush
    \/ Settled

LevelsSpec == LevelsInit /\ [][LevelsNext]_levelsVars

-----------------------------------------------------------------------------
(* Properties *)

Truth(k, s) ==
    LET older == Hits(past.written, k, s)
    IN IF older = {} THEN {} ELSE {e \in {Newest(older)} : ~e.del}

(* A Get answers, for every key, as of every snapshot that is held and as of  *)
(* now, exactly what was last written: nothing is lost, shadowed or brought   *)
(* back from the dead, whatever was flushed, moved, merged and dropped.  (Two *)
(* sequences of compactions break it: see ReadsLatest and LevelsNeverOverlap.) *)
SnapshotReads ==
    ~past.raced /\ ~past.separated =>
        \A s \in snaps \cup {sequence}, k \in Keys : Get(k, s) = Truth(k, s)

DisjointLevels ==
    \A n \in Levels \ {0} : \A f, g \in levels[n] :
        f = g \/ Before(Largest(f), Smallest(g)) \/ Before(Largest(g), Smallest(f))

(* SaveTo's assertion: above level 0 no two files overlap, unless a memtable  *)
(* was flushed during a manual compaction.                                   *)
LevelsSorted == ~past.raced => DisjointLevels

(* What CompactRange does for its range, when nothing was written since it    *)
(* began: its parts, however they were cut, expanded and mixed with automatic *)
(* compactions, left no entry of the range above the last level that had any. *)
(* Files that overlap after a flush during a manual compaction break it: the  *)
(* parts of a level are cut by the files' first keys, and resume at the last. *)
RangeMovedDown ==
    ~past.raced /\ call.at = "done" /\ call.since = sequence =>
        \A n \in 0..(call.top - 1) : \A e \in Entries(levels[n]) :
            e.key < call.lo \/ call.hi < e.key

(* version_set.cc:346-348: entries never hop across levels, so that data found *)
(* in a smaller level makes later levels irrelevant: a Get answers what was    *)
(* last written.                                                              *)
ReadsLatest == \A s \in snaps \cup {sequence}, k \in Keys : Get(k, s) = Truth(k, s)

(* version_set.cc:765: in a level above 0 files must not overlap.            *)
LevelsNeverOverlap == DisjointLevels
=============================================================================
