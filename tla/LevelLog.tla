------------------------------ MODULE LevelLog ------------------------------
(***************************************************************************)
(* The record log of leveldb (db/log_writer.cc, db/log_reader.cc): the     *)
(* format of every write-ahead log and of every MANIFEST.  A record is cut *)
(* into fragments that never cross a block boundary; each has a header     *)
(* (checksum, length, type).  The reader drops what the checksum refuses.  *)
(*                                                                         *)
(* A byte of the file is a cell <<f, i>>: the i-th byte of fragment f,     *)
(* header bytes first.  The last header byte stands for the length and the *)
(* type, the others for the checksum, taken to be perfect.                 *)
(***************************************************************************)
EXTENDS Integers, Sequences, FiniteSets

CONSTANTS BlockSize,   \* kBlockSize, 32768 in the code
          HeaderSize,  \* kHeaderSize, 7 in the code
          Sizes,       \* sizes of the records handed to AddRecord
          Offsets,     \* initial offsets a reader is created with
          MaxRecords, MaxFails, MaxCorrupt, MaxReopens   \* bounds

LogAssumption ==
    /\ BlockSize \in Nat /\ HeaderSize \in Nat \ {0}
    /\ HeaderSize < BlockSize
    /\ Sizes \subseteq Nat /\ Offsets \subseteq Nat

VARIABLES
    file,     \* the cells of the file
    synced,   \* how many of them fdatasync has made durable
    frag,     \* frag[f]: type and length in the header of fragment f; its record, and
              \* how long the file was when it was put there
    recs,     \* recs[n]: the n-th record given to AddRecord, what became of it
    offset,   \* Writer::block_offset_
    left,     \* AddRecord's left, -1 outside AddRecord
    phase,    \* "write", "read", "done" or, when a Read failed, "error"
    rd,       \* the Reader
    fails, corrupted, reopens

logVars == <<file, synced, frag, recs, offset, left, phase, rd, fails, corrupted,
          reopens>>
writer == <<synced, frag, recs, offset, left, fails, corrupted, reopens>>

Least(a, b) == IF a < b THEN a ELSE b
Zero == <<0, 0>>        \* a byte of a block's trailer
Junk == <<-1, 0>>       \* a byte the medium has changed
Cells(f, n) == [i \in 1..(HeaderSize + n) |-> <<f, i - 1>>]

NoReader == [init |-> 0, lo |-> 0, hi |-> 0, eof |-> FALSE, eob |-> 0,
             last |-> 0, prospect |-> 0, inFragment |-> FALSE, scratch |-> <<>>,
             resyncing |-> FALSE, out |-> <<>>, dropped |-> FALSE]

LogInit ==
    /\ file = <<>> /\ synced = 0 /\ frag = <<>> /\ recs = <<>>
    /\ offset = 0 /\ left = -1
    /\ phase = "write" /\ rd = NoReader
    /\ fails = 0 /\ corrupted = {} /\ reopens = 0

-----------------------------------------------------------------------------
(* Writer *)

StartRecord(size) ==
    /\ phase = "write" /\ left = -1 /\ Len(recs) < MaxRecords
    /\ left' = size
    /\ recs' = Append(recs, [frags |-> <<>>, status |-> "adding",
                             synced |-> FALSE])
    /\ UNCHANGED <<file, synced, frag, offset, phase, rd, fails, corrupted, reopens>>

Leftover == BlockSize - offset
Switch == Leftover < HeaderSize            \* no room for a header: a new block
Trailer == IF Switch THEN [i \in 1..Leftover |-> Zero] ELSE <<>>
At == IF Switch THEN 0 ELSE offset
FragmentLength == Least(left, BlockSize - At - HeaderSize)

FragmentType ==
    LET begin == recs[Len(recs)].frags = <<>>
        end == left = FragmentLength
    IN IF begin /\ end THEN "full"
       ELSE IF begin THEN "first" ELSE IF end THEN "last" ELSE "middle"

(* One turn of AddRecord's loop: padding reaches the file of the trailer, and *)
(* landed bytes of what EmitPhysicalRecord appends.  block_offset_ advances    *)
(* whatever Append and Flush say.                                            *)
Emit(padding, landed, status) ==
    LET f == Len(frag) + 1
        n == FragmentLength
        done == status = "failed" \/ left = n
    IN /\ frag' = Append(frag, [type |-> FragmentType, len |-> n,
                                rec |-> Len(recs), at |-> Len(file) + Len(padding)])
       /\ file' = file \o padding \o SubSeq(Cells(f, n), 1, landed)
       /\ offset' = At + HeaderSize + n
       /\ left' = IF done THEN -1 ELSE left - n
       /\ recs' = [recs EXCEPT ![Len(recs)].frags = Append(@, f),
                               ![Len(recs)].status = IF done THEN status ELSE @]
       /\ UNCHANGED <<synced, phase, rd, corrupted, reopens>>

EmitFragment ==
    /\ phase = "write" /\ left >= 0
    /\ Emit(Trailer, HeaderSize + FragmentLength, "ok")
    /\ UNCHANGED fails

(* Append or Flush fails (a full disk): some of the bytes are in the file,   *)
(* AddRecord returns the error and the writer remains in use.  That the       *)
(* trailer was cut short is not even looked at.                              *)
EmitFails ==
    /\ phase = "write" /\ left >= 0 /\ fails < MaxFails
    /\ \E short \in 0..Len(Trailer) :
          \/ \E landed \in 0..(HeaderSize + FragmentLength) :
                Emit(SubSeq(Trailer, 1, short), landed, "failed")
          \/ /\ short < Len(Trailer)
             /\ Emit(SubSeq(Trailer, 1, short), HeaderSize + FragmentLength, "ok")
    /\ fails' = fails + 1

Sync ==
    /\ phase = "write" /\ left = -1 /\ synced < Len(file)
    /\ synced' = Len(file)
    /\ recs' = [n \in DOMAIN recs |-> [recs[n] EXCEPT !.synced = recs[n].status = "ok"]]
    /\ UNCHANGED <<file, frag, offset, left, phase, rd, fails, corrupted, reopens>>

-----------------------------------------------------------------------------
(* Reader *)

BlockStartNext(at) ==                      \* mutant: skips too far
    LET in == at % BlockSize
    IN IF in > 0 THEN at - in + BlockSize ELSE at
BlockStart(at) ==
    LET in == at % BlockSize
    IN IF in > BlockSize - (HeaderSize - 1) THEN at - in + BlockSize ELSE at - in

(* The start of ReadRecord: a reader still before its initial offset skips.  *)
SkipToInitialBlock(r) ==
    IF r.last < r.init
    THEN [r EXCEPT !.lo = BlockStart(r.init), !.hi = BlockStart(r.init),
                   !.eob = BlockStart(r.init)]
    ELSE r

(* The machine stops: what was not synced may be missing from some byte on.  *)
(* A reader is then opened on what is left.                                  *)
CrashAndRead(kept, at) ==
    /\ phase = "write"
    /\ kept \in synced..Len(file)
    /\ file' = SubSeq(file, 1, kept)
    /\ left' = -1
    /\ phase' = "read"
    /\ rd' = SkipToInitialBlock([NoReader EXCEPT !.init = at, !.resyncing = at > 0])
    /\ UNCHANGED <<synced, frag, recs, offset, fails, corrupted, reopens>>

(* The medium changes a byte. *)
Corrupt(i) ==
    /\ phase = "write" /\ left = -1 /\ Cardinality(corrupted) < MaxCorrupt
    /\ i \in 1..Len(file) /\ i \notin corrupted
    /\ file' = [file EXCEPT ![i] = Junk]
    /\ corrupted' = corrupted \cup {i}
    /\ UNCHANGED <<synced, frag, recs, offset, left, phase, rd, fails, reopens>>

Buffered == rd.hi - rd.lo

(* ReadPhysicalRecord reads the next block when no header is left in buffer_. *)
ReadBlock ==
    LET from == rd.eob
        got == IF from >= Len(file) THEN 0 ELSE Least(BlockSize, Len(file) - from)
    IN /\ phase = "read" /\ Buffered < HeaderSize /\ ~rd.eof
       /\ rd' = [rd EXCEPT !.lo = from, !.hi = from + got, !.eob = from + got,
                           !.eof = got < BlockSize]
       /\ UNCHANGED <<file, phase, writer>>

(* Its Read fails after got bytes, which are thrown away: ReadRecord returns   *)
(* false as at the end.  The block is reported unless ReportDrop takes it to   *)
(* lie before the initial offset; its unsigned subtraction may wrap around.    *)
ReadFails ==
    /\ phase = "read" /\ Buffered < HeaderSize /\ ~rd.eof
    /\ \E got \in 0..(BlockSize - 1) :
          LET at == rd.eob + got - BlockSize
          IN rd' = [rd EXCEPT !.lo = rd.hi, !.eof = TRUE, !.scratch = <<>>,
                              !.inFragment = FALSE,
                              !.dropped = rd.dropped \/ at < 0 \/ at >= rd.init]
    /\ phase' = "error"
    /\ UNCHANGED <<file, writer>>

LengthCell == file[rd.lo + HeaderSize]
HeaderFragment == LengthCell[1]
IsHeader == HeaderFragment > 0 /\ LengthCell[2] = HeaderSize - 1
Length == frag[HeaderFragment].len
Fits == HeaderSize + Length <= Buffered
Intact ==
    \A i \in 1..(HeaderSize + Length) : file[rd.lo + i] = <<HeaderFragment, i - 1>>

Result(t, n, cleared, drop) ==
    [type |-> t, frag |-> IF n = -1 THEN 0 ELSE HeaderFragment,
     lo |-> IF cleared THEN rd.hi ELSE rd.lo + HeaderSize + n, drop |-> drop]
Dropped == Result("bad", -1, TRUE, rd.lo >= rd.init)  \* ReportDrop's condition
TooLongReported == Dropped                 \* mutant: a torn tail is a corruption
TooLong == IF rd.eof THEN Result("eof", -1, TRUE, FALSE) ELSE Dropped

(* What ReadPhysicalRecord can return.  A header whose length byte is not    *)
(* one the writer wrote reads as some length and type: any of the exits that *)
(* clear the buffer.                                                         *)
PhysicalRecords ==
    IF Buffered < HeaderSize THEN {Result("eof", -1, TRUE, FALSE)}
    ELSE IF LengthCell = Zero THEN {Result("bad", -1, TRUE, FALSE)}
    ELSE IF ~IsHeader
         THEN {Dropped, Result("bad", -1, TRUE, FALSE), TooLong}
    ELSE IF ~Fits THEN {TooLong}
    ELSE IF ~Intact THEN {Dropped}
    ELSE IF rd.lo < rd.init
         THEN {[Result("bad", Length, FALSE, FALSE) EXCEPT !.frag = 0]}
    ELSE {Result(frag[HeaderFragment].type, Length, FALSE, FALSE)}

Data(f) == frag[f].len
ScratchSize(s) == Cardinality({i \in DOMAIN s : Data(s[i]) > 0})

AcceptThroughBad(p) ==   \* mutant: a bad record does not end the fragment
    [rd EXCEPT !.lo = p.lo,
        !.out = IF p.type = "full" THEN Append(@, <<p.frag>>)
                ELSE IF p.type = "last" /\ rd.inFragment
                     THEN Append(@, Append(rd.scratch, p.frag)) ELSE @,
        !.scratch = IF p.type = "first" THEN <<p.frag>>
                    ELSE IF p.type = "middle" THEN Append(@, p.frag) ELSE @,
        !.inFragment = IF p.type = "first" THEN TRUE
                       ELSE IF p.type \in {"full", "last"} THEN FALSE ELSE @]
(* ReadRecord's handling of one physical record.                              *)
Accept(p) ==
    LET skip == rd.resyncing /\ p.type \in {"middle", "last"}
        start == p.type \in {"full", "first"}
        partial == rd.inFragment /\ ScratchSize(rd.scratch) > 0
        orphan == p.type \in {"middle", "last"} /\ ~rd.inFragment /\ ~skip
        lost == \/ (start /\ partial)
                \/ orphan
                \/ (p.type = "bad" /\ rd.inFragment)
        whole == IF p.type = "full" THEN <<p.frag>> ELSE Append(rd.scratch, p.frag)
        returns == p.type = "full" \/ (p.type = "last" /\ rd.inFragment /\ ~skip)
        first == IF start THEN rd.lo ELSE rd.prospect
        base == [rd EXCEPT !.lo = p.lo,
                   !.resyncing = @ /\ p.type = "middle",
                   !.dropped = @ \/ p.drop \/ lost,
                   !.prospect = first]
    IN IF returns
       THEN SkipToInitialBlock([base EXCEPT !.out = Append(@, whole),
                  !.last = first, !.inFragment = FALSE, !.scratch = <<>>])
       ELSE IF p.type = "first"
            THEN [base EXCEPT !.scratch = <<p.frag>>, !.inFragment = TRUE]
       ELSE IF p.type = "middle" /\ rd.inFragment /\ ~skip
            THEN [base EXCEPT !.scratch = Append(@, p.frag)]
       ELSE IF p.type \in {"bad", "eof"}
            THEN [base EXCEPT !.scratch = <<>>, !.inFragment = FALSE]
       ELSE base

ReadUntilBad ==          \* mutant: the reader gives up at the first bad record
    /\ phase = "read" /\ (Buffered >= HeaderSize \/ rd.eof)
    /\ \E p \in PhysicalRecords :
          /\ rd' = Accept(p)
          /\ phase' = IF p.type \in {"eof", "bad"} THEN "done" ELSE "read"
    /\ UNCHANGED <<file, writer>>
ReadFragment ==
    /\ phase = "read" /\ (Buffered >= HeaderSize \/ rd.eof)
    /\ \E p \in PhysicalRecords :
          /\ rd' = Accept(p)
          /\ phase' = IF p.type = "eof" THEN "done" ELSE "read"
    /\ UNCHANGED <<file, writer>>

(* reuse_logs: the log just read is opened for appending, with its length; a   *)
(* failed Read hinders this with paranoid_checks only.                        *)
Reopen ==
    /\ phase \in {"done", "error"} /\ reopens < MaxReopens /\ rd.init = 0
    /\ phase' = "write"
    /\ offset' = Len(file) % BlockSize
    /\ synced' = Len(file)
    /\ reopens' = reopens + 1
    /\ recs' = [n \in DOMAIN recs |->
                  IF \E i \in DOMAIN rd.out : rd.out[i] = recs[n].frags
                  THEN recs[n]
                  ELSE [recs[n] EXCEPT !.status = "lost", !.synced = FALSE]]
    /\ rd' = NoReader
    /\ UNCHANGED <<file, frag, left, fails, corrupted>>

Finished ==
    /\ phase \in {"done", "error"}
    /\ UNCHANGED logVars

LogNext ==
    \/ \E size \in Sizes : StartRecord(size)
    \/ EmitFragment \/ EmitFails \/ Sync
    \/ \E kept \in 0..Len(file), at \in Offsets : CrashAndRead(kept, at)
    \/ \E i \in 1..Len(file) : Corrupt(i)
    \/ ReadBlock \/ ReadFails \/ ReadFragment \/ Reopen \/ Finished

LogSpec == LogInit /\ [][LogNext]_logVars

-----------------------------------------------------------------------------
(* Properties *)

LastFragment(n) == recs[n].frags[Len(recs[n].frags)]
Whole(n) == recs[n].frags # <<>> /\ frag[LastFragment(n)].type \in {"full", "last"}
Returned(n) == \E i \in DOMAIN rd.out : rd.out[i] = recs[n].frags

Undamaged == fails = 0 /\ corrupted = {} /\ reopens = 0
Block(i) == (i - 1) \div BlockSize

(* The writer's two comments (log_writer.cc:57 and :91-92): a header always   *)
(* fits in the block it starts in, and no fragment crosses a block boundary; *)
(* block_offset_ is where the file is in its block.                          *)
FragmentsFitBlocks ==
    Undamaged =>
        /\ phase = "write" => (Len(file) - offset) % BlockSize = 0
        /\ \A i, j \in DOMAIN file :
              file[i][1] > 0 /\ file[i][1] = file[j][1] => Block(i) = Block(j)

(* What the reader returns are records handed to AddRecord, whole, each once *)
(* and in the order they were added: fragments of two records are never      *)
(* joined, whatever was torn, appended after a tear, or changed on the disk. *)
OnlyWholeRecords ==
    /\ \A i \in DOMAIN rd.out : \E n \in DOMAIN recs : Whole(n) /\ rd.out[i] = recs[n].frags
    /\ \A i, j \in DOMAIN rd.out : \A n, m \in DOMAIN recs :
          i < j /\ rd.out[i] = recs[n].frags /\ rd.out[j] = recs[m].frags => n < m

LastCell(n) == <<LastFragment(n), HeaderSize + Data(LastFragment(n)) - 1>>
RecordAt(n) == frag[recs[n].frags[1]].at
InFile(n) == recs[n].status = "ok" /\ \E i \in DOMAIN file : file[i] = LastCell(n)

(* After a crash of a log that was neither damaged nor written in vain, the  *)
(* reader returns exactly the records that are in the file to their last     *)
(* byte, every synced one among them, and reports no corruption for the torn *)
(* tail (with paranoid_checks a report would make DB::Open fail).            *)
CrashLosesOnlyTheTail ==
    phase = "done" /\ Undamaged /\ rd.init = 0 =>
        /\ ~rd.dropped
        /\ \A n \in DOMAIN recs : Returned(n) <=> InFile(n)
        /\ \A n \in DOMAIN recs : recs[n].synced => Returned(n)

(* log_reader.h:41-42: the reader starts at the first record located at a     *)
(* position >= initial_offset: no such record is missed.                     *)
NoRecordAfterOffsetMissed ==
    phase = "done" /\ Undamaged =>
        \A n \in DOMAIN recs : InFile(n) => (Returned(n) <=> RecordAt(n) >= rd.init)

(* log_reader.h:82-85: after a seek, a run of middle and last fragments is   *)
(* skipped silently: on an undamaged log no corruption is reported.          *)
SeekReportsNothing == phase = "done" /\ Undamaged => ~rd.dropped

(* A changed byte costs at most the records with a fragment in its block: the *)
(* reader takes up again at the next block boundary.                         *)
DamageStaysInItsBlock ==
    phase = "done" /\ fails = 0 /\ reopens = 0 /\ rd.init = 0 =>
        \A n \in DOMAIN recs :
            (/\ InFile(n)
             /\ \A k \in DOMAIN recs[n].frags : \A c \in corrupted :
                   Block(frag[recs[n].frags[k]].at + 1) # Block(c))
            => Returned(n)

(* options.h:198-201: a write with sync has the crash semantics of write()   *)
(* followed by fsync(): a record added and synced is there after the crash.  *)
SyncedRecordSurvives ==
    phase = "done" /\ corrupted = {} /\ rd.init = 0 =>
        \A n \in DOMAIN recs : recs[n].synced => Returned(n)
=============================================================================
