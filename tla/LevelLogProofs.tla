--------------------------- MODULE LevelLogProofs ---------------------------
(***************************************************************************)
(* Proofs about the record log (LevelLog), for every block and header      *)
(* size, every size of record and every initial offset of the reader.      *)
(***************************************************************************)
EXTENDS LevelLog, TLAPS, SequenceTheorems, NaturalsInduction, WellFoundedInduction

-----------------------------------------------------------------------------
(* The writer's state                                                        *)

Starting == {"full", "first"}
Continuing == {"middle", "last"}
Ending == {"full", "last"}

Statuses == {"adding", "ok", "failed", "lost"}
Fragment == [type : Starting \cup Continuing, len : Nat, rec : Nat, at : Nat]
Record == [frags : Seq(Nat), status : Statuses, synced : BOOLEAN]

(* Where the last byte of fragment f is, if all of it is in the file.        *)
End(f) == frag[f].at + HeaderSize + frag[f].len
Last == Len(frag)
Current == Len(recs)

WriterTypeOK ==
    /\ file \in Seq(Int \X Int) /\ synced \in 0..Len(file)
    /\ frag \in Seq(Fragment) /\ recs \in Seq(Record)
    /\ offset \in 0..BlockSize /\ left \in Int /\ left >= -1
    /\ phase \in {"write", "read", "done", "error"}
    /\ fails \in Nat /\ corrupted \subseteq Nat \ {0} /\ reopens \in Nat

(* A byte of the file lies where its fragment was put.                       *)
CellsInPlace ==
    \A i \in 1..Len(file) : file[i][1] > 0 =>
        /\ file[i][1] \in 1..Last
        /\ i = frag[file[i][1]].at + file[i][2] + 1
        /\ file[i][2] \in 0..(HeaderSize + frag[file[i][1]].len - 1)

(* Fragments lie in the file in the order in which they were written.        *)
CellsInOrder ==
    \A i, j \in 1..Len(file) :
        i < j /\ file[i][1] > 0 /\ file[j][1] > 0 => file[i][1] <= file[j][1]

(* What continues a record comes after the whole of the fragment before it:  *)
(* a byte of an earlier fragment is a header or more away.                   *)
ContinuationApart ==
    \A i, j \in 1..Len(file) :
        /\ file[i][1] > 0 /\ file[j][1] > 0 /\ file[i][1] < file[j][1] - 1
        /\ frag[file[j][1]].type \in Continuing
        => i + HeaderSize <= frag[file[j][1]].at
AddingApart ==
    left >= 0 /\ recs[Current].frags # <<>> =>
        \A i \in 1..Len(file) :
            file[i][1] > 0 /\ file[i][1] < Last => i + HeaderSize <= Len(file)

(* The fragments of a record are those of its number, one after the other.   *)
HasRecord(f) ==
    /\ frag[f].rec \in 1..Current
    /\ \E k \in 1..Len(recs[frag[f].rec].frags) : recs[frag[f].rec].frags[k] = f
HasFragment(n, k) ==
    /\ recs[n].frags[k] \in 1..Last
    /\ recs[n].frags[k] = recs[n].frags[1] + k - 1
    /\ frag[recs[n].frags[k]].rec = n
    /\ k = 1 <=> frag[recs[n].frags[k]].type \in Starting
    /\ frag[recs[n].frags[k]].type \in Ending => k = Len(recs[n].frags)
AddingLast ==
    left >= 0 =>
        /\ Current > 0
        /\ recs[Current].frags # <<>> =>
              /\ recs[Current].frags[Len(recs[Current].frags)] = Last
              /\ frag[Last].type \notin Ending
FragmentsOfRecords ==
    /\ \A f \in 1..Last : HasRecord(f)
    /\ \A n \in 1..Current : \A k \in 1..Len(recs[n].frags) : HasFragment(n, k)
    /\ \A f, g \in 1..Last : f < g => frag[f].rec <= frag[g].rec
    /\ AddingLast

WriterOK == /\ WriterTypeOK /\ CellsInPlace /\ CellsInOrder
            /\ ContinuationApart /\ AddingApart /\ FragmentsOfRecords

-----------------------------------------------------------------------------
(* The reader's state                                                        *)

ReaderState ==
    [init : Nat, lo : Nat, hi : Nat, eof : BOOLEAN, eob : Nat, last : Nat, prospect : Nat,
     inFragment : BOOLEAN, scratch : Seq(Nat), resyncing : BOOLEAN, out : Seq(Seq(Nat)),
     dropped : BOOLEAN]
ReaderTypeOK ==
    /\ rd \in ReaderState
    /\ rd.lo <= rd.hi /\ rd.eob = rd.hi
    /\ rd.hi <= Len(file) \/ rd.lo = rd.hi

(* Fragment f has been read to its last byte.                                *)
Seen(f) == End(f) <= rd.lo /\ End(f) <= Len(file) /\ file[End(f)][1] = f

(* What was returned are records seen whole, each after the one before.      *)
OutWhole ==
    /\ \A i \in 1..Len(rd.out) : \E n \in 1..Current :
          Whole(n) /\ rd.out[i] = recs[n].frags /\ Seen(LastFragment(n)) /\ RecordAt(n) >= rd.init
    /\ \A i, j \in 1..Len(rd.out) : i < j =>
          rd.out[i][Len(rd.out[i])] < rd.out[j][Len(rd.out[j])]

(* What is being put together is the beginning of a record: its fragment read *)
(* last ends where the reader is, but for a trailer.                          *)
Together(n, k) ==
    /\ rd.scratch = SubSeq(recs[n].frags, 1, k)
    /\ RecordAt(n) >= rd.init
    /\ Seen(recs[n].frags[k]) /\ frag[recs[n].frags[k]].type \notin Ending
    /\ \/ End(recs[n].frags[k]) = rd.lo
       \/ /\ rd.lo < End(recs[n].frags[k]) + HeaderSize
          /\ Buffered >= HeaderSize \/ rd.eof
ScratchWhole ==
    rd.inFragment =>
        /\ rd.prospect >= rd.init /\ ~rd.resyncing
        /\ \E n \in 1..Current : \E k \in 1..Len(recs[n].frags) : Together(n, k)

ReaderOK == ReaderTypeOK /\ IF phase = "write" THEN rd = NoReader
                                             ELSE left = -1 /\ OutWhole /\ ScratchWhole

Sound == WriterOK /\ ReaderOK

-----------------------------------------------------------------------------
(* A log that no append failed on, written by one writer                     *)

Steady == fails = 0 /\ reopens = 0
Aligned(n) == n % BlockSize = 0
BlockOf(n) == n - (n % BlockSize)

(* Fragments are put end to end, or at the next block boundary where the rest *)
(* of the block has no room for a header; none crosses a boundary.            *)
Tiled ==
    /\ Last > 0 => frag[1].at = 0
    /\ \A f \in 1..Last : End(f) <= BlockOf(frag[f].at) + BlockSize
    /\ \A f \in 1..(Last - 1) :
          \/ frag[f + 1].at = End(f)
          \/ /\ Aligned(frag[f + 1].at)
             /\ End(f) < frag[f + 1].at /\ frag[f + 1].at < End(f) + HeaderSize
    /\ \A f, g \in 1..Last : f < g => End(f) <= frag[g].at

(* The file holds them, but for what a crash has taken or the medium changed. *)
Filled ==
    /\ \A f \in 1..Last : \A i \in (frag[f].at + 1)..End(f) :
          i <= Len(file) /\ i \notin corrupted => file[i] = <<f, i - frag[f].at - 1>>
    /\ \A i \in 1..Len(file) : Last > 0 /\ i <= End(Last)
    /\ Last = 0 => offset = 0
    /\ phase = "write" =>
          /\ Len(file) = (IF Last = 0 THEN 0 ELSE End(Last))
          /\ Aligned(Len(file) - offset)

(* A record is cut into a beginning, middles and an end, without another      *)
(* record's fragments between them; added is what has its end.                *)
Cut ==
    /\ \A f \in 1..(Last - 1) : frag[f].type \in Ending <=> frag[f + 1].type \in Starting
    /\ phase = "write" /\ (left >= 0 => recs[Current].frags = <<>>) /\ Last > 0 =>
          frag[Last].type \in Ending
    /\ \A n \in 1..Current :
          /\ recs[n].status = "ok" <=> Whole(n)
          /\ recs[n].synced => recs[n].status = "ok" /\ End(LastFragment(n)) <= synced

(* The reader's buffer ends at a block boundary, or at the end of the file.   *)
Framed ==
    IF rd.eof THEN rd.hi >= Len(file) /\ rd.hi < BlockOf(rd.lo) + BlockSize
    ELSE Aligned(rd.hi) /\ rd.hi <= rd.lo + BlockSize

(* The reader is between two fragments, or at the end.                        *)
AtCut == \/ rd.eof /\ rd.lo = rd.hi
         \/ \A f \in 1..Last : rd.lo <= frag[f].at \/ End(f) <= rd.lo

(* A record to return: in the file, after the initial offset, and in blocks   *)
(* the medium has not touched.                                                *)
Due(n) == /\ recs[n].status = "ok" /\ End(LastFragment(n)) <= Len(file)
          /\ RecordAt(n) >= rd.init
          /\ \A k \in DOMAIN recs[n].frags : \A c \in corrupted :
                Block(frag[recs[n].frags[k]].at + 1) # Block(c)

(* It has been returned, or the reader is before its next fragment, with      *)
(* those before it put together.                                              *)
Ahead(n) == \E k \in 0..(Len(recs[n].frags) - 1) :
    /\ rd.lo <= frag[recs[n].frags[k + 1]].at
    /\ k > 0 => /\ rd.inFragment /\ rd.scratch = SubSeq(recs[n].frags, 1, k)
                /\ End(recs[n].frags[k]) <= rd.lo
NothingMissed ==
    \A n \in 1..Current : Due(n) => Returned(n) \/ (phase = "read" /\ Ahead(n))

(* On an undamaged log read from its start, what comes next outside a record  *)
(* starts one.                                                                *)
NothingDropped ==
    corrupted = {} /\ rd.init = 0 =>
        /\ ~rd.dropped
        /\ phase = "read" /\ ~rd.inFragment =>
              \A g \in 1..Last :
                  rd.lo <= frag[g].at /\ (g = 1 \/ End(g - 1) <= rd.lo) => frag[g].type \in Starting

Complete ==
    Steady => /\ Tiled /\ Filled /\ Cut
              /\ phase \in {"write", "error"} \/ (Framed /\ AtCut /\ NothingMissed /\ NothingDropped)

-----------------------------------------------------------------------------
(* Only whole records: the writer's steps                                    *)

LEMMA InitSound == ASSUME LogAssumption, LogInit PROVE Sound
  <1>1. WriterTypeOK
    BY DEF LogAssumption, LogInit, WriterTypeOK
  <1>2. CellsInPlace /\ CellsInOrder /\ ContinuationApart /\ AddingApart /\ FragmentsOfRecords
    BY DEF LogInit, CellsInPlace, CellsInOrder, ContinuationApart, AddingApart, FragmentsOfRecords,
           Last, Current, AddingLast
  <1>3. ReaderOK
    BY DEF LogInit, ReaderOK, ReaderTypeOK, ReaderState, NoReader
  <1>4. QED
    BY <1>1, <1>2, <1>3 DEF Sound, WriterOK

(* What stays of the fragments' places when cells are lost or changed.       *)
LEMMA FewerCells ==
    ASSUME WriterOK, WriterTypeOK', frag' = frag, Len(recs') = Len(recs),
           \A n \in 1..Current : recs'[n].frags = recs[n].frags,
           Len(file') <= Len(file),
           \A i \in 1..Len(file') : file'[i][1] > 0 => file'[i] = file[i],
           left' = -1 \/ (left' = left /\ Len(file') = Len(file))
    PROVE  WriterOK'
  <1> USE DEF WriterOK, WriterTypeOK
  <1>1. 1..Len(file') \subseteq 1..Len(file) /\ Last' = Last /\ Current' = Current
    BY DEF Last, Current
  <1>2. CellsInPlace' /\ CellsInOrder'
    BY <1>1 DEF CellsInPlace, CellsInOrder
  <1>3. ContinuationApart'
    BY <1>1 DEF ContinuationApart
  <1>4. FragmentsOfRecords'
    <2>1. \A n \in 1..Current' : recs'[n].frags = recs[n].frags
      BY <1>1
    <2>2. FragmentsOfRecords
      OBVIOUS
    <2>3. ASSUME NEW f \in 1..Last' PROVE HasRecord(f)'
      <3>1. HasRecord(f)
        BY <1>1, <2>2 DEF FragmentsOfRecords
      <3>2. QED
        BY <1>1, <2>1, <3>1 DEF HasRecord
    <2>4. ASSUME NEW n \in 1..Current', NEW k \in 1..Len(recs'[n].frags) PROVE HasFragment(n, k)'
      <3>1. HasFragment(n, k)
        BY <1>1, <2>1, <2>2 DEF FragmentsOfRecords
      <3>2. QED
        BY <1>1, <2>1, <3>1 DEF HasFragment
    <2>5. \A f, g \in 1..Last' : f < g => frag'[f].rec <= frag'[g].rec
      BY <1>1, <2>2 DEF FragmentsOfRecords
    <2>6. AddingLast'
      <3>1. left' >= 0 => left >= 0 /\ Current \in 1..Current
        BY <2>2 DEF FragmentsOfRecords, AddingLast, Current
      <3>2. QED
        BY <3>1, <1>1, <2>1, <2>2 DEF FragmentsOfRecords, AddingLast
    <2>7. QED
      BY <2>3, <2>4, <2>5, <2>6 DEF FragmentsOfRecords
  <1>5. AddingApart'
    <2> SUFFICES ASSUME left' >= 0, recs'[Current'].frags # <<>>, NEW i \in 1..Len(file'),
                        file'[i][1] > 0, file'[i][1] < Last'
                 PROVE  i + HeaderSize <= Len(file')
      BY DEF AddingApart
    <2>1. left >= 0 /\ Len(file') = Len(file) /\ Current > 0
      BY SMTT(30) DEF FragmentsOfRecords, AddingLast
    <2>2. Current \in 1..Current
      BY <2>1 DEF Current
    <2>3. recs[Current].frags # <<>> /\ file'[i] = file[i]
      BY <1>1, <2>2
    <2>4. QED
      BY <1>1, <2>1, <2>3 DEF AddingApart
  <1>6. QED
    BY <1>2, <1>3, <1>4, <1>5

LEMMA StartRecordSound ==
    ASSUME LogAssumption, Sound, NEW size \in Sizes, StartRecord(size)
    PROVE  Sound'
  <1> DEFINE r == [frags |-> <<>>, status |-> "adding", synced |-> FALSE]
  <1>1. /\ WriterTypeOK /\ size \in Nat /\ left' = size /\ recs' = Append(recs, r)
        /\ UNCHANGED <<file, synced, frag, offset, phase, rd, fails, corrupted, reopens>>
    BY DEF StartRecord, Sound, WriterOK, LogAssumption
  <1>2. r \in Record
    BY DEF Record, Statuses
  <1>3. WriterTypeOK'
    BY <1>1, <1>2 DEF WriterTypeOK
  <1>4. /\ Current' = Current + 1 /\ Last' = Last /\ Current \in Nat /\ Last \in Nat
        /\ recs'[Current'] = r /\ \A n \in 1..Current : recs'[n] = recs[n]
    BY <1>1, <1>2 DEF WriterTypeOK, Current, Last
  <1>5. CellsInPlace' /\ CellsInOrder' /\ ContinuationApart'
    BY <1>1, <1>4 DEF CellsInPlace, CellsInOrder, ContinuationApart, Sound, WriterOK
  <1>6. AddingApart'
    BY <1>4 DEF AddingApart
  <1>7. FragmentsOfRecords'
    <2>1. FragmentsOfRecords
      BY DEF Sound, WriterOK
    <2>2. 1..Current' = (1..Current) \cup {Current'} /\ 1..Len(recs'[Current'].frags) = {}
      BY <1>4
    <2> HIDE DEF r
    <2>3. ASSUME NEW f \in 1..Last' PROVE HasRecord(f)'
      <3>1. HasRecord(f)
        BY <1>4, <2>1 DEF FragmentsOfRecords
      <3>2. QED
        BY <3>1, <1>1, <1>4, <2>2 DEF HasRecord
    <2>4. ASSUME NEW n \in 1..Current', NEW k \in 1..Len(recs'[n].frags) PROVE HasFragment(n, k)'
      <3>1. n \in 1..Current /\ recs'[n] = recs[n]
        BY <1>4, <2>2, <2>4
      <3>2. HasFragment(n, k)
        BY <3>1, <2>1 DEF FragmentsOfRecords
      <3>3. QED
        BY <3>1, <3>2, <1>1, <1>4 DEF HasFragment
    <2>5. \A f, g \in 1..Last' : f < g => frag'[f].rec <= frag'[g].rec
      BY <1>1, <1>4, <2>1 DEF FragmentsOfRecords
    <2>6. AddingLast'
      BY <1>4 DEF r, AddingLast
    <2>7. QED
      BY <2>3, <2>4, <2>5, <2>6 DEF FragmentsOfRecords
  <1>8. ReaderOK'
    BY <1>1 DEF StartRecord, Sound, ReaderOK, ReaderTypeOK
  <1>9. QED
    BY <1>3, <1>5, <1>6, <1>7, <1>8 DEF Sound, WriterOK

(* What reaches the file of a trailer: zeros, the trailer or its beginning.  *)
Padding(p) == p \in Seq(Int \X Int) /\ Len(p) \in Nat /\ \A i \in 1..Len(p) : p[i] = Zero

LEMMA TrailerPadding ==
    ASSUME LogAssumption, WriterTypeOK
    PROVE  /\ Padding(Trailer) /\ Len(Trailer) = (IF Switch THEN Leftover ELSE 0)
           /\ \A short \in 0..Len(Trailer) : Padding(SubSeq(Trailer, 1, short))
  <1>1. Leftover \in Nat /\ Zero \in Int \X Int
    BY DEF WriterTypeOK, LogAssumption, Leftover, Zero
  <1>2. Padding(Trailer) /\ Len(Trailer) = (IF Switch THEN Leftover ELSE 0)
    BY <1>1 DEF Trailer, Padding
  <1>3. ASSUME NEW short \in 0..Len(Trailer) PROVE Padding(SubSeq(Trailer, 1, short))
    BY <1>2 DEF Padding
  <1>4. QED
    BY <1>2, <1>3

(* What one turn of AddRecord's loop puts behind the file.                   *)
LEMMA EmitFile ==
    ASSUME LogAssumption, WriterTypeOK, left >= 0, NEW padding, Padding(padding), NEW landed,
           landed \in 0..(HeaderSize + FragmentLength),
           file' = file \o padding \o SubSeq(Cells(Last + 1, FragmentLength), 1, landed)
    PROVE  /\ FragmentLength \in 0..left /\ At + HeaderSize + FragmentLength <= BlockSize
           /\ At \in 0..(BlockSize - HeaderSize)
           /\ Len(padding) \in Nat
           /\ Len(file') = Len(file) + Len(padding) + landed
           /\ file' \in Seq(Int \X Int)
           /\ \A i \in 1..Len(file) : file'[i] = file[i]
           /\ \A i \in (Len(file) + 1)..(Len(file) + Len(padding)) : file'[i] = Zero
           /\ \A i \in (Len(file) + Len(padding) + 1)..Len(file') :
                 file'[i] = <<Last + 1, i - (Len(file) + Len(padding)) - 1>>
  <1>1. /\ file \in Seq(Int \X Int) /\ offset \in 0..BlockSize /\ left \in Nat
        /\ BlockSize \in Nat /\ HeaderSize \in Nat \ {0} /\ HeaderSize < BlockSize
        /\ Last \in Nat
    BY DEF WriterTypeOK, LogAssumption, Last
  <1>2. At \in 0..(BlockSize - HeaderSize)
    BY <1>1 DEF At, Switch, Leftover
  <1>3. FragmentLength \in 0..left /\ At + HeaderSize + FragmentLength <= BlockSize
    BY <1>1, <1>2 DEF FragmentLength, Least
  <1>4. /\ padding \in Seq(Int \X Int) /\ Len(padding) \in Nat
        /\ \A i \in 1..Len(padding) : padding[i] = Zero
    BY DEF Padding
  <1> DEFINE cells == Cells(Last + 1, FragmentLength)
             part == SubSeq(cells, 1, landed)
  <1>5. /\ cells \in Seq(Int \X Int) /\ Len(cells) = HeaderSize + FragmentLength
        /\ \A i \in 1..Len(cells) : cells[i] = <<Last + 1, i - 1>>
    <2> DEFINE size == HeaderSize + FragmentLength
               f == Last + 1
    <2>1. size \in Nat /\ f \in Nat
      BY <1>1, <1>3
    <2>2. cells = [i \in 1..size |-> <<f, i - 1>>]
      BY DEF Cells
    <2> HIDE DEF size, f, cells
    <2>3. \A i \in 1..size : <<f, i - 1>> \in Int \X Int
      BY <2>1
    <2>4. cells \in [1..size -> Int \X Int] /\ \A i \in 1..size : cells[i] = <<f, i - 1>>
      BY <2>2, <2>3
    <2>5. cells \in Seq(Int \X Int) /\ Len(cells) = size
      BY <2>1, <2>4
    <2>6. QED
      BY <2>4, <2>5 DEF size, f
  <1>6. /\ part \in Seq(Int \X Int) /\ Len(part) = landed
        /\ \A i \in 1..landed : part[i] = <<Last + 1, i - 1>>
    <2> HIDE DEF cells
    <2>1. landed \in 0..Len(cells)
      BY <1>5
    <2>2. QED
      BY <1>5, <2>1
  <1> HIDE DEF part, cells
  <1>7. file' = file \o padding \o part
    BY DEF part, cells
  <1>8. Len(padding) \in Nat /\ landed \in Nat
    BY <1>1, <1>3, <1>4
  <1> DEFINE longer == file \o padding
  <1>9. /\ longer \in Seq(Int \X Int) /\ Len(longer) = Len(file) + Len(padding)
        /\ \A i \in 1..Len(longer) :
              longer[i] = IF i <= Len(file) THEN file[i] ELSE padding[i - Len(file)]
    BY <1>1, <1>4, ConcatProperties
  <1>10. file' = longer \o part
    BY <1>7
  <1> HIDE DEF longer
  <1>11. /\ file' \in Seq(Int \X Int) /\ Len(file') = Len(longer) + landed
         /\ \A i \in 1..(Len(longer) + landed) :
               file'[i] = IF i <= Len(longer) THEN longer[i] ELSE part[i - Len(longer)]
    <2>1. longer \in Seq(Int \X Int) /\ part \in Seq(Int \X Int) /\ Len(part) = landed
      BY <1>6, <1>9
    <2>2. /\ longer \o part \in Seq(Int \X Int) /\ Len(longer \o part) = Len(longer) + landed
          /\ \A i \in 1..(Len(longer) + landed) :
                (longer \o part)[i] = IF i <= Len(longer) THEN longer[i] ELSE part[i - Len(longer)]
      BY <2>1, ConcatProperties
    <2>3. QED
      BY <1>10, <2>2
  <1>12. Len(file) \in Nat /\ Len(longer) \in Nat /\ Len(longer) >= Len(file)
    BY <1>1, <1>8, <1>9
  <1>13. ASSUME NEW i \in (Len(longer) + 1)..Len(file')
         PROVE  file'[i] = <<Last + 1, i - Len(longer) - 1>>
    <2>1. i - Len(longer) \in 1..landed /\ i \in 1..(Len(longer) + landed) /\ ~(i <= Len(longer))
      BY <1>8, <1>11, <1>12
    <2>2. QED
      BY <1>6, <1>11, <2>1
  <1>14. ASSUME NEW i \in 1..Len(file) PROVE file'[i] = file[i]
    BY <1>8, <1>9, <1>11, <1>12
  <1>15. ASSUME NEW i \in (Len(file) + 1)..(Len(file) + Len(padding)) PROVE file'[i] = Zero
    <2>1. i - Len(file) \in 1..Len(padding) /\ i \in 1..Len(longer) /\ ~(i <= Len(file))
          /\ i \in 1..(Len(longer) + landed)
      <3>1. Len(longer) = Len(file) + Len(padding)
        BY <1>9
      <3>2. QED
        BY <3>1, <1>8, <1>12
    <2>2. QED
      BY <1>4, <1>9, <1>11, <2>1
  <1>16. QED
    BY <1>2, <1>3, <1>4, <1>8, <1>9, <1>11, <1>13, <1>14, <1>15

(* What a turn that Emit describes changes of the fragments and the records. *)
LEMMA EmitRecords ==
    ASSUME LogAssumption, Sound, phase = "write", left >= 0, NEW padding, Padding(padding),
           NEW landed, NEW status,
           landed \in 0..(HeaderSize + FragmentLength), status \in {"ok", "failed"},
           Emit(padding, landed, status)
    PROVE  /\ Last' = Last + 1 /\ Last \in Nat /\ frag' \in Seq(Fragment)
           /\ \A f \in 1..Last : frag'[f] = frag[f]
           /\ frag'[Last'] = [type |-> FragmentType, len |-> FragmentLength,
                              rec |-> Current, at |-> Len(file) + Len(padding)]
           /\ Current' = Current /\ Current \in Nat /\ Current > 0 /\ recs' \in Seq(Record)
           /\ \A n \in 1..(Current - 1) : recs'[n] = recs[n]
           /\ recs'[Current].frags = Append(recs[Current].frags, Last')
           /\ recs'[Current].status =
                IF status = "failed" \/ left = FragmentLength THEN status
                ELSE recs[Current].status
           /\ recs'[Current].synced = recs[Current].synced
  <1>1. WriterTypeOK /\ FragmentsOfRecords
    BY DEF Sound, WriterOK
  <1>2. /\ frag \in Seq(Fragment) /\ recs \in Seq(Record) /\ Last \in Nat /\ Current \in Nat
        /\ Current > 0 /\ left \in Nat /\ Len(file) \in Nat
    BY <1>1 DEF WriterTypeOK, FragmentsOfRecords, AddingLast, Last, Current
  <1>3. file' = file \o padding \o SubSeq(Cells(Last + 1, FragmentLength), 1, landed)
    BY DEF Emit, Last
  <1>4. FragmentLength \in Nat /\ Len(padding) \in Nat
    <2>1. FragmentLength \in 0..left /\ Len(padding) \in Nat
      BY <1>1, <1>3, EmitFile
    <2>2. QED
      BY <2>1
  <1> DEFINE new == [type |-> FragmentType, len |-> FragmentLength, rec |-> Len(recs),
                     at |-> Len(file) + Len(padding)]
  <1>5. new \in Fragment
    <2>1. FragmentType \in Starting \cup Continuing
      BY DEF FragmentType, Starting, Continuing
    <2>2. QED
      BY <1>2, <1>4, <2>1 DEF Fragment, Current
  <1>6. frag' = Append(frag, new)
    BY DEF Emit
  <1> HIDE DEF new
  <1>7. /\ Last' = Last + 1 /\ frag' \in Seq(Fragment) /\ \A f \in 1..Last : frag'[f] = frag[f]
        /\ frag'[Last'] = new
    BY <1>2, <1>5, <1>6 DEF Last
  <1> DEFINE old == recs[Current]
             done == status = "failed" \/ left = FragmentLength
             r == [old EXCEPT !.frags = Append(old.frags, Last + 1),
                              !.status = IF done THEN status ELSE old.status]
  <1>8. recs' = [recs EXCEPT ![Current] = r]
    <2>1. recs' = [recs EXCEPT ![Len(recs)].frags = Append(@, Len(frag) + 1),
                               ![Len(recs)].status =
                                  IF status = "failed" \/ left = FragmentLength
                                  THEN status ELSE @]
      BY DEF Emit
    <2>2. recs \in Seq(Record) /\ Current \in 1..Len(recs) /\ old \in Record
      BY <1>2 DEF Current
    <2>3. QED
      BY <2>1, <2>2 DEF Last, Current, Record
  <1>9. old \in Record /\ Current \in 1..Current
    BY <1>2 DEF Current
  <1>10. /\ r \in Record /\ r.frags = Append(old.frags, Last + 1) /\ r.synced = old.synced
         /\ r.status = IF done THEN status ELSE old.status
    <2> HIDE DEF done, old
    <2>1. Append(old.frags, Last + 1) \in Seq(Nat)
      BY <1>2, <1>9 DEF Record
    <2>2. (IF done THEN status ELSE old.status) \in Statuses
      BY <1>9 DEF Record, Statuses
    <2>3. QED
      BY <1>9, <2>1, <2>2 DEF Record
  <1> HIDE DEF r, old
  <1>11. /\ Current' = Current /\ recs' \in Seq(Record) /\ recs'[Current] = r
         /\ \A n \in 1..(Current - 1) : recs'[n] = recs[n]
    BY <1>2, <1>8, <1>9, <1>10 DEF Current
  <1>12. QED
    BY <1>2, <1>7, <1>10, <1>11 DEF new, old, Current

LEMMA WriterTypes ==
    ASSUME WriterTypeOK
    PROVE  /\ Last \in Nat /\ Current \in Nat /\ Len(file) \in Nat
           /\ \A f \in 1..Last :
                 frag[f] \in Fragment /\ frag[f].len \in Nat /\ frag[f].at \in Nat
                 /\ frag[f].type \in Starting \cup Continuing
           /\ \A n \in 1..Current :
                 /\ recs[n] \in Record /\ recs[n].frags \in Seq(Nat)
                 /\ Len(recs[n].frags) \in Nat /\ DOMAIN recs[n].frags = 1..Len(recs[n].frags)
                 /\ recs[n].frags = <<>> <=> Len(recs[n].frags) = 0
           /\ \A i \in 1..Len(file) : file[i] \in Int \X Int /\ file[i][1] \in Int /\ file[i][2] \in Int
  <1>1. /\ frag \in Seq(Fragment) /\ recs \in Seq(Record) /\ file \in Seq(Int \X Int)
    BY DEF WriterTypeOK
  <1>2. Last \in Nat /\ Current \in Nat /\ Len(file) \in Nat
    BY <1>1 DEF Last, Current
  <1>3. ASSUME NEW f \in 1..Last
        PROVE  frag[f] \in Fragment /\ frag[f].len \in Nat /\ frag[f].at \in Nat
               /\ frag[f].type \in Starting \cup Continuing
    <2>1. frag[f] \in Fragment
      BY <1>1, ElementOfSeq DEF Last
    <2>2. QED
      BY <2>1 DEF Fragment
  <1>4. ASSUME NEW n \in 1..Current
        PROVE  /\ recs[n] \in Record /\ recs[n].frags \in Seq(Nat)
               /\ Len(recs[n].frags) \in Nat /\ DOMAIN recs[n].frags = 1..Len(recs[n].frags)
               /\ recs[n].frags = <<>> <=> Len(recs[n].frags) = 0
    <2>1. recs[n] \in Record
      BY <1>1, ElementOfSeq DEF Current
    <2>2. recs[n].frags \in Seq(Nat)
      BY <2>1 DEF Record
    <2>3. QED
      BY <2>1, <2>2
  <1>5. ASSUME NEW i \in 1..Len(file)
        PROVE  file[i] \in Int \X Int /\ file[i][1] \in Int /\ file[i][2] \in Int
    BY <1>1, ElementOfSeq
  <1>6. QED
    BY <1>2, <1>3, <1>4, <1>5

LEMMA EmitSound ==
    ASSUME LogAssumption, Sound, phase = "write", left >= 0, NEW padding, Padding(padding),
           NEW landed, NEW status,
           landed \in 0..(HeaderSize + FragmentLength), status \in {"ok", "failed"},
           status = "ok" => landed = HeaderSize + FragmentLength,
           Emit(padding, landed, status), fails' \in Nat
    PROVE  Sound'
  <1> DEFINE at == Len(file) + Len(padding)
             n == FragmentLength
  <1>1. /\ WriterTypeOK /\ CellsInPlace /\ CellsInOrder /\ ContinuationApart /\ AddingApart
        /\ FragmentsOfRecords /\ ReaderOK
    BY DEF Sound, WriterOK
  <1>2. /\ Len(file) \in Nat /\ left \in Nat /\ HeaderSize \in Nat \ {0} /\ BlockSize \in Nat
        /\ HeaderSize < BlockSize /\ synced \in 0..Len(file)
    BY <1>1 DEF WriterTypeOK, LogAssumption
  <1>3. file' = file \o padding \o SubSeq(Cells(Last + 1, FragmentLength), 1, landed)
    BY DEF Emit, Last
  <1>4. /\ n \in 0..left /\ At + HeaderSize + n <= BlockSize
        /\ At \in 0..(BlockSize - HeaderSize) /\ Len(padding) \in Nat
    BY <1>1, <1>3, EmitFile
  <1>5. /\ n \in Nat /\ at \in Nat /\ at >= Len(file) /\ landed \in 0..(HeaderSize + n)
        /\ landed \in Nat
    BY <1>2, <1>4
  <1>6. /\ Len(file') = at + landed /\ file' \in Seq(Int \X Int)
        /\ \A i \in 1..Len(file) : file'[i] = file[i]
        /\ \A i \in (Len(file) + 1)..at : file'[i] = Zero
        /\ \A i \in (at + 1)..Len(file') : file'[i] = <<Last + 1, i - at - 1>>
    BY <1>1, <1>3, EmitFile
  <1>7. /\ Last' = Last + 1 /\ Last \in Nat /\ frag' \in Seq(Fragment)
        /\ \A f \in 1..Last : frag'[f] = frag[f]
        /\ frag'[Last'] = [type |-> FragmentType, len |-> n, rec |-> Current, at |-> at]
        /\ Current' = Current /\ Current \in Nat /\ Current > 0 /\ recs' \in Seq(Record)
        /\ \A m \in 1..(Current - 1) : recs'[m] = recs[m]
        /\ recs'[Current].frags = Append(recs[Current].frags, Last')
    BY EmitRecords
  <1>7a. /\ Last' = Last + 1 /\ Last \in Nat /\ Current' = Current
         /\ Current \in Nat /\ Current > 0
    BY <1>7
  <1>8. /\ offset' = At + HeaderSize + n
        /\ left' = IF status = "failed" \/ left = n THEN -1 ELSE left - n
        /\ UNCHANGED <<synced, phase, rd, corrupted, reopens>>
    BY DEF Emit
  <1> HIDE DEF at, n
  <1>9. WriterTypeOK'
    <2>1. left' \in Int /\ left' >= -1
      BY <1>2, <1>4, <1>8
    <2>2. offset' \in 0..BlockSize /\ synced' \in 0..Len(file')
      BY <1>2, <1>4, <1>5, <1>6, <1>8
    <2>3. QED
      BY <1>1, <1>6, <1>7, <1>8, <2>1, <2>2 DEF WriterTypeOK
  <1>10. ASSUME NEW i \in 1..Len(file'), file'[i][1] > 0
         PROVE  \/ /\ i \in 1..Len(file) /\ file'[i] = file[i] /\ file'[i][1] \in 1..Last
                   /\ frag'[file'[i][1]] = frag[file[i][1]]
                \/ /\ i \in (at + 1)..Len(file')
                   /\ file'[i][1] = Last' /\ file'[i][2] = i - at - 1
    <2>1. CASE i \in 1..Len(file)
      BY <2>1, <1>1, <1>6, <1>7, <1>10 DEF CellsInPlace
    <2>2. CASE i \in (Len(file) + 1)..at
      BY <2>2, <1>6, <1>10 DEF Zero
    <2>3. CASE i \in (at + 1)..Len(file')
      <3>1. file'[i] = <<Last + 1, i - at - 1>> /\ Last' = Last + 1
        BY <2>3, <1>6, <1>7
      <3>2. file'[i][1] = Last' /\ file'[i][2] = i - at - 1
        BY <3>1
      <3>3. QED
        BY <2>3, <3>2
    <2>4. QED
      BY SMTT(30), <2>1, <2>2, <2>3, <1>2, <1>5, <1>6
  <1>11. CellsInPlace'
    <2> SUFFICES ASSUME NEW i \in 1..Len(file'), file'[i][1] > 0
                 PROVE  /\ file'[i][1] \in 1..Last'
                        /\ i = frag'[file'[i][1]].at + file'[i][2] + 1
                        /\ file'[i][2] \in 0..(HeaderSize + frag'[file'[i][1]].len - 1)
      BY DEF CellsInPlace
    <2>1. CASE i \in 1..Len(file) /\ file'[i] = file[i] /\ file'[i][1] \in 1..Last
               /\ frag'[file'[i][1]] = frag[file[i][1]]
      BY <2>1, <1>1, <1>7 DEF CellsInPlace
    <2>2. CASE i \in (at + 1)..Len(file') /\ file'[i][1] = Last' /\ file'[i][2] = i - at - 1
      <3>1. frag'[Last'].at = at /\ frag'[Last'].len = n /\ Last' \in 1..Last'
        BY <1>7
      <3>2. i - at - 1 \in 0..(HeaderSize + n - 1)
        <4>1. Len(file') = at + landed
          BY <1>6
        <4>2. QED
          BY <4>1, <2>2, <1>2, <1>5
      <3>3. QED
        BY <2>2, <3>1, <3>2, <1>5
    <2>3. QED
      BY <2>1, <2>2, <1>10
  <1>12. CellsInOrder'
    <2> SUFFICES ASSUME NEW i \in 1..Len(file'), NEW j \in 1..Len(file'), i < j,
                        file'[i][1] > 0, file'[j][1] > 0
                 PROVE  file'[i][1] <= file'[j][1]
      BY DEF CellsInOrder
    <2>1. CASE j \in (at + 1)..Len(file') /\ file'[j][1] = Last'
      <3>1. file'[i][1] \in 1..Last \/ file'[i][1] = Last'
        BY <1>10
      <3>2. QED
        BY <2>1, <3>1, <1>7
    <2>2. CASE j \in 1..Len(file) /\ file'[j] = file[j]
      <3>1. i \in 1..Len(file) /\ file'[i] = file[i]
        BY SMTT(30), <2>2, <1>6
      <3>2. QED
        BY <2>2, <3>1, <1>1 DEF CellsInOrder
    <2>3. QED
      BY <2>1, <2>2, <1>10
  <1>13. ContinuationApart'
    <2> SUFFICES ASSUME NEW i \in 1..Len(file'), NEW j \in 1..Len(file'),
                        file'[i][1] > 0, file'[j][1] > 0, file'[i][1] < file'[j][1] - 1,
                        frag'[file'[j][1]].type \in Continuing
                 PROVE  i + HeaderSize <= frag'[file'[j][1]].at
      BY DEF ContinuationApart
    <2>1. CASE j \in 1..Len(file) /\ file'[j] = file[j] /\ file'[j][1] \in 1..Last
               /\ frag'[file'[j][1]] = frag[file[j][1]]
      <3>1. i \in 1..Len(file) /\ file'[i] = file[i]
        <4>1. file'[i][1] # Last'
          <5>1. file'[i][1] \in 1..Last \/ file'[i][1] = Last'
            BY <1>10
          <5>2. QED
            BY <2>1, <5>1, <1>7
        <4>2. QED
          BY <4>1, <1>10
      <3>2. QED
        BY <2>1, <3>1, <1>1 DEF ContinuationApart
    <2>2. CASE j \in (at + 1)..Len(file') /\ file'[j][1] = Last'
      <3>1. i \in 1..Len(file) /\ file'[i] = file[i] /\ file[i][1] < Last
        BY <2>2, <1>10, <1>7
      <3>2. recs[Current].frags # <<>>
        <4>1. FragmentType \in Continuing
          BY <2>2, <1>7
        <4>2. QED
          BY <4>1 DEF FragmentType, Continuing, Current
      <3>3. i + HeaderSize <= Len(file)
        BY <3>1, <3>2, <1>1 DEF AddingApart
      <3>4. frag'[file'[j][1]].at = at
        BY <2>2, <1>7
      <3>5. QED
        BY <3>3, <3>4, <1>2, <1>5
    <2>3. QED
      BY <2>1, <2>2, <1>10
  <1>14. AddingApart'
    <2> SUFFICES ASSUME left' >= 0, NEW i \in 1..Len(file'),
                        file'[i][1] > 0, file'[i][1] < Last'
                 PROVE  i + HeaderSize <= Len(file')
      BY DEF AddingApart
    <2>1. i \in 1..Len(file)
      BY <1>10, <1>7
    <2>2. landed = HeaderSize + n
      BY <1>8 DEF n
    <2>3. QED
      BY <2>1, <2>2, <1>2, <1>5, <1>6
  <1>15. FragmentsOfRecords'
    <2> DEFINE old == recs[Current].frags
               k0 == Len(old) + 1
    <2>1. /\ old \in Seq(Nat) /\ k0 \in Nat /\ Len(recs'[Current].frags) = k0
          /\ recs'[Current].frags[k0] = Last'
          /\ \A k \in 1..Len(old) : recs'[Current].frags[k] = old[k]
      <3>1. old \in Seq(Nat) /\ Last' \in Nat
        BY <1>1, <1>7, WriterTypes
      <3>2. QED
        BY SMTT(30), <3>1, <1>7
    <2>2. /\ \A f \in 1..Last : HasRecord(f)
          /\ \A m \in 1..Current : \A k \in 1..Len(recs[m].frags) : HasFragment(m, k)
          /\ \A f, g \in 1..Last : f < g => frag[f].rec <= frag[g].rec
          /\ old # <<>> => old[Len(old)] = Last /\ frag[Last].type \notin Ending
      BY <1>1 DEF FragmentsOfRecords, AddingLast
    <2>3. frag'[Last'].rec = Current /\ frag'[Last'].type = FragmentType
          /\ Current \in 1..Current'
      BY <1>7
    <2>4. /\ FragmentType \in Starting <=> old = <<>>
          /\ FragmentType \in Ending => left = n
          /\ FragmentType \in Starting \cup Continuing
      BY <1>7 DEF FragmentType, Starting, Ending, Continuing, Current, n
    <2>5. old = <<>> <=> k0 = 1
      BY <2>1
    <2> HIDE DEF old, k0
    <2>0. \A f \in 1..Last : frag'[f] = frag[f] /\ f \in 1..Last'
      BY <1>7
    <2>6. ASSUME NEW f \in 1..Last' PROVE HasRecord(f)'
      <3>1. CASE f = Last'
        <4>1. k0 \in 1..Len(recs'[Current].frags)
          BY <2>1 DEF k0
        <4>2. QED
          BY <3>1, <4>1, <2>1, <2>3 DEF HasRecord
      <3>2. CASE f # Last'
        <4>1. HasRecord(f) /\ frag'[f] = frag[f] /\ frag[f].rec \in 1..Current
          BY <3>2, <2>2, <1>7 DEF HasRecord
        <4>2. PICK k \in 1..Len(recs[frag[f].rec].frags) : recs[frag[f].rec].frags[k] = f
          BY <4>1 DEF HasRecord
        <4>3. CASE frag[f].rec = Current
          <5>1. k \in 1..Len(recs'[Current].frags) /\ recs'[Current].frags[k] = f
            <6>1. k \in 1..Len(old) /\ old[k] = f
              BY <4>2, <4>3 DEF old
            <6>2. QED
              BY <6>1, <2>1 DEF k0
          <5>2. QED
            BY <4>1, <4>3, <5>1, <2>3 DEF HasRecord
        <4>4. CASE frag[f].rec # Current
          <5>1. recs'[frag[f].rec] = recs[frag[f].rec]
            <6>1. frag[f].rec \in 1..(Current - 1)
              BY <4>1, <4>4, <1>7a
            <6>2. QED
              BY <6>1, <1>7
          <5>2. QED
            BY <4>1, <4>2, <5>1, <1>7 DEF HasRecord
        <4>5. QED
          BY <4>3, <4>4
      <3>3. QED
        BY <3>1, <3>2
    <2>7. ASSUME NEW m \in 1..Current', NEW k \in 1..Len(recs'[m].frags) PROVE HasFragment(m, k)'
      <3>1. CASE m # Current
        <4>1. recs'[m] = recs[m] /\ HasFragment(m, k)
          <5>1. m \in 1..(Current - 1) /\ m \in 1..Current
            BY <3>1, <1>7a
          <5>2. recs'[m] = recs[m]
            BY <5>1, <1>7
          <5>3. QED
            BY <5>1, <5>2, <2>2
        <4>2. recs[m].frags[k] \in 1..Last
          BY <4>1 DEF HasFragment
        <4>3. frag'[recs[m].frags[k]] = frag[recs[m].frags[k]] /\ recs[m].frags[k] \in 1..Last'
          BY <4>2, <2>0
        <4>4. QED
          BY <4>1, <4>3 DEF HasFragment
      <3>2. CASE m = Current /\ k \in 1..Len(old)
        <4>1. HasFragment(Current, k) /\ recs'[Current].frags[k] = old[k] /\ 1 \in 1..Len(old)
              /\ recs'[Current].frags[1] = old[1]
          BY <3>2, <2>1, <2>2, <1>7 DEF old
        <4>2. /\ old[k] \in 1..Last /\ old[k] = old[1] + k - 1 /\ frag[old[k]].rec = Current
              /\ k = 1 <=> frag[old[k]].type \in Starting
              /\ frag[old[k]].type \in Ending => k = Len(old)
          BY <4>1 DEF HasFragment, old
        <4>3. frag'[old[k]] = frag[old[k]] /\ old[k] \in 1..Last'
          BY <4>2, <2>0
        <4>4. frag[old[k]].type \notin Ending
          <5>1. old # <<>>
            BY <3>2, <2>1
          <5>2. QED
            BY <4>2, <5>1, <2>2
        <4>5. QED
          BY <3>2, <4>1, <4>2, <4>3, <4>4 DEF HasFragment
      <3>3. CASE m = Current /\ k = k0
        <4>1. recs'[Current].frags[1] + k0 - 1 = Last'
          <5>1. CASE k0 = 1
            BY <5>1, <2>1, <1>7
          <5>2. CASE k0 # 1
            <6>1. Len(old) \in 1..Len(old) /\ 1 \in 1..Len(old) /\ old # <<>>
              BY <5>2, <2>1 DEF k0
            <6>2. HasFragment(Current, Len(old)) /\ old[Len(old)] = Last
                  /\ recs'[Current].frags[1] = old[1]
              <7>1. Current \in 1..Current
                BY <1>7
              <7>2. HasFragment(Current, Len(old))
                BY <6>1, <7>1, <2>2 DEF old
              <7>3. QED
                BY <6>1, <7>2, <2>1, <2>2
            <6>3. Last = old[1] + Len(old) - 1
              BY <6>2 DEF HasFragment, old
            <6>4. old[1] \in Nat /\ Len(old) \in Nat
              BY <6>1, <2>1
            <6>5. Last' = old[1] + Len(old)
              <7>1. Last' = Last + 1 /\ Last \in Nat
                BY <1>7
              <7>2. QED
                BY <6>3, <6>4, <7>1
            <6>6. k0 = Len(old) + 1 /\ recs'[Current].frags[1] = old[1]
              BY <6>2 DEF k0
            <6>7. QED
              BY <6>4, <6>5, <6>6
          <5>3. QED
            BY <5>1, <5>2
        <4>2. QED
          BY SMTT(30), <3>3, <4>1, <2>1, <2>3, <2>4, <2>5, <1>7 DEF HasFragment
      <3>4. QED
        BY <3>1, <3>2, <3>3, <2>1, <1>7 DEF k0
    <2>8. \A f, g \in 1..Last' : f < g => frag'[f].rec <= frag'[g].rec
      <3> SUFFICES ASSUME NEW f \in 1..Last', NEW g \in 1..Last', f < g
                   PROVE  frag'[f].rec <= frag'[g].rec
        OBVIOUS
      <3>1. f \in 1..Last /\ frag'[f] = frag[f] /\ frag[f].rec \in 1..Current
        BY <2>2, <1>7 DEF HasRecord
      <3>2. CASE g = Last'
        BY <3>1, <3>2, <2>3, <1>7
      <3>3. CASE g # Last'
        <4>1. g \in 1..Last
          BY <3>3, <1>7a
        <4>2. QED
          BY <3>1, <4>1, <2>0, <2>2
      <3>4. QED
        BY <3>2, <3>3
    <2>9. AddingLast'
      <3> SUFFICES ASSUME left' >= 0
                   PROVE  /\ Current' > 0 
                          /\ recs'[Current].frags[Len(recs'[Current].frags)] = Last'
                          /\ frag'[Last'].type \notin Ending
        BY <1>7 DEF AddingLast
      <3>1. left # n
        BY <1>8
      <3>2. QED
        BY <3>1, <2>1, <2>3, <2>4, <1>7
    <2>10. QED
      BY <2>6, <2>7, <2>8, <2>9 DEF FragmentsOfRecords
  <1>16. ReaderOK'
    BY <1>1, <1>8, <1>6, <1>2 DEF ReaderOK, ReaderTypeOK, ReaderState, NoReader
  <1>17. QED
    BY <1>9, <1>11, <1>12, <1>13, <1>14, <1>15, <1>16 DEF Sound, WriterOK

LEMMA SyncSound ==
    ASSUME LogAssumption, Sound, Sync
    PROVE  Sound'
  <1> DEFINE r(n) == [recs[n] EXCEPT !.synced = recs[n].status = "ok"]
  <1>1. WriterOK /\ WriterTypeOK /\ ReaderOK
    BY DEF Sound, WriterOK
  <1>2. /\ synced' = Len(file) /\ recs' = [n \in DOMAIN recs |-> r(n)]
        /\ UNCHANGED <<file, frag, offset, left, phase, rd, fails, corrupted, reopens>>
    BY DEF Sync
  <1>3. /\ DOMAIN recs = 1..Current /\ Current \in Nat /\ Len(file) \in Nat
        /\ \A n \in 1..Current : recs[n] \in Record
    BY <1>1, WriterTypes DEF WriterTypeOK, Current
  <1>4. \A n \in 1..Current : r(n) \in Record /\ r(n).frags = recs[n].frags
    BY <1>3 DEF Record
  <1> HIDE DEF r
  <1>5. /\ recs' \in Seq(Record) /\ Len(recs') = Len(recs)
        /\ \A n \in 1..Current : recs'[n].frags = recs[n].frags
    BY <1>2, <1>3, <1>4 DEF Current
  <1>6. WriterTypeOK'
    BY <1>1, <1>2, <1>3, <1>5 DEF WriterTypeOK
  <1>7. WriterOK'
    BY <1>1, <1>2, <1>3, <1>5, <1>6, FewerCells
  <1>8. phase = "write" /\ ReaderOK'
    BY <1>1, <1>2 DEF Sync, ReaderOK, ReaderTypeOK
  <1>9. QED
    BY <1>7, <1>8 DEF Sound

LEMMA CorruptSound ==
    ASSUME LogAssumption, Sound, NEW i \in 1..Len(file), Corrupt(i)
    PROVE  Sound'
  <1>1. WriterOK /\ WriterTypeOK /\ ReaderOK
    BY DEF Sound, WriterOK
  <1>2. /\ file' = [file EXCEPT ![i] = Junk] /\ corrupted' = corrupted \cup {i}
        /\ UNCHANGED <<synced, frag, recs, offset, left, phase, rd, fails, reopens>>
        /\ phase = "write"
    BY DEF Corrupt
  <1>3. Junk \in Int \X Int /\ ~(Junk[1] > 0)
    BY DEF Junk
  <1>4. /\ file' \in Seq(Int \X Int) /\ Len(file') = Len(file) /\ Len(file) \in Nat
        /\ \A j \in 1..Len(file) : file'[j] = IF j = i THEN Junk ELSE file[j]
    BY SMTT(30), <1>1, <1>2, <1>3, ExceptSeq DEF WriterTypeOK
  <1>5. WriterTypeOK'
    BY <1>1, <1>2, <1>4 DEF WriterTypeOK
  <1>6. \A j \in 1..Len(file') : file'[j][1] > 0 => file'[j] = file[j]
    BY <1>3, <1>4
  <1>7. WriterOK'
    BY <1>1, <1>2, <1>4, <1>5, <1>6, FewerCells
  <1>8. ReaderOK'
    BY <1>1, <1>2 DEF ReaderOK, ReaderTypeOK, ReaderState, NoReader
  <1>9. QED
    BY <1>7, <1>8 DEF Sound

LEMMA BlockStartInNat ==
    ASSUME LogAssumption, NEW at \in Nat PROVE BlockStart(at) \in Nat
  <1>1. BlockSize \in Nat \ {0} /\ HeaderSize \in Nat
    BY DEF LogAssumption
  <1>2. at = BlockSize * (at \div BlockSize) + (at % BlockSize)
        /\ at % BlockSize \in 0..(BlockSize - 1) /\ at \div BlockSize \in Nat
    BY <1>1
  <1>3. BlockSize * (at \div BlockSize) \in Nat
    BY <1>1, <1>2
  <1>4. at - (at % BlockSize) \in Nat
    BY <1>1, <1>2, <1>3
  <1>5. QED
    BY <1>1, <1>4 DEF BlockStart

LEMMA CrashSound ==
    ASSUME LogAssumption, Sound, NEW kept, NEW at \in Offsets, CrashAndRead(kept, at)
    PROVE  /\ Sound'
           /\ rd'.init = at /\ rd'.lo = IF at > 0 THEN BlockStart(at) ELSE 0
           /\ rd'.hi = rd'.lo /\ rd'.eof = FALSE /\ rd'.dropped = FALSE
  <1> DEFINE opened == [NoReader EXCEPT !.init = at, !.resyncing = at > 0]
             b == BlockStart(at)
  <1>1. WriterOK /\ WriterTypeOK
    BY DEF Sound, WriterOK
  <1>2. /\ kept \in synced..Len(file) /\ file' = SubSeq(file, 1, kept) /\ left' = -1
        /\ phase' = "read" /\ rd' = SkipToInitialBlock(opened)
        /\ UNCHANGED <<synced, frag, recs, offset, fails, corrupted, reopens>>
    BY DEF CrashAndRead
  <1>3. at \in Nat /\ b \in Nat
    BY BlockStartInNat DEF LogAssumption
  <1>4. /\ opened \in ReaderState /\ opened.init = at /\ opened.last = 0 /\ opened.lo = 0
        /\ opened.hi = 0 /\ opened.eob = 0 /\ opened.out = <<>> /\ ~opened.inFragment
        /\ opened.eof = FALSE /\ opened.dropped = FALSE
    <2>1. <<>> \in Seq(Nat) /\ <<>> \in Seq(Seq(Nat)) /\ (at > 0) \in BOOLEAN
      OBVIOUS
    <2>2. NoReader \in ReaderState
      BY <2>1 DEF ReaderState, NoReader
    <2>3. /\ NoReader.last = 0 /\ NoReader.lo = 0 /\ NoReader.hi = 0 /\ NoReader.eob = 0
          /\ NoReader.out = <<>> /\ ~NoReader.inFragment
          /\ NoReader.eof = FALSE /\ NoReader.dropped = FALSE
      BY DEF NoReader
    <2>4. QED
      BY <1>3, <2>1, <2>2, <2>3 DEF ReaderState
  <1> HIDE DEF opened, b
  <1>5. /\ rd' \in ReaderState /\ rd'.init = at /\ rd'.out = <<>> /\ ~rd'.inFragment
        /\ rd'.lo = rd'.hi /\ rd'.eob = rd'.hi /\ rd'.lo = IF at > 0 THEN b ELSE 0
        /\ rd'.eof = FALSE /\ rd'.dropped = FALSE
    <2>1. CASE opened.last < opened.init
      <3>1. rd' = [opened EXCEPT !.lo = b, !.hi = b, !.eob = b]
        BY <2>1, <1>2, <1>4 DEF SkipToInitialBlock, b
      <3>2. QED
        <4>1. /\ rd'.lo = b /\ rd'.hi = b /\ rd'.eob = b /\ rd'.out = opened.out
              /\ rd'.init = opened.init /\ rd'.inFragment = opened.inFragment
              /\ rd'.eof = opened.eof /\ rd'.dropped = opened.dropped
          BY <3>1, <1>4 DEF ReaderState
        <4>2. rd' \in ReaderState
          BY <3>1, <1>3, <1>4 DEF ReaderState
        <4>3. at > 0
          BY <2>1, <1>3, <1>4
        <4>4. QED
          BY <4>1, <4>2, <4>3, <1>4
    <2>2. CASE ~(opened.last < opened.init)
      BY <2>2, <1>2, <1>4 DEF SkipToInitialBlock
    <2>3. QED
      BY <2>1, <2>2
  <1>6. /\ Len(file) \in Nat /\ synced \in 0..Len(file) /\ kept \in 0..Len(file)
        /\ file \in Seq(Int \X Int)
    BY <1>1, <1>2 DEF WriterTypeOK
  <1>7. /\ file' \in Seq(Int \X Int) /\ Len(file') = kept
        /\ \A i \in 1..kept : file'[i] = file[i]
    BY <1>2, <1>6
  <1>8. WriterTypeOK'
    BY <1>1, <1>2, <1>6, <1>7 DEF WriterTypeOK
  <1>9. WriterOK'
    BY <1>1, <1>2, <1>6, <1>7, <1>8, FewerCells
  <1>10. ReaderTypeOK'
    BY <1>5 DEF ReaderTypeOK, ReaderState
  <1>11. OutWhole' /\ ScratchWhole'
    BY <1>5 DEF OutWhole, ScratchWhole
  <1>12. QED
    BY <1>2, <1>5, <1>9, <1>10, <1>11 DEF Sound, ReaderOK, b

LEMMA ReopenSound ==
    ASSUME LogAssumption, Sound, Reopen
    PROVE  Sound'
  <1> DEFINE r(n) == IF \E i \in DOMAIN rd.out : rd.out[i] = recs[n].frags
                     THEN recs[n]
                     ELSE [recs[n] EXCEPT !.status = "lost", !.synced = FALSE]
  <1>1. WriterOK /\ WriterTypeOK /\ ReaderOK
    BY DEF Sound, WriterOK, Reopen
  <1>2. /\ synced' = Len(file) /\ recs' = [n \in DOMAIN recs |-> r(n)] /\ rd' = NoReader
        /\ offset' = Len(file) % BlockSize /\ reopens' = reopens + 1 /\ phase' = "write"
        /\ UNCHANGED <<file, frag, left, fails, corrupted>>
    BY DEF Reopen
  <1>3. /\ DOMAIN recs = 1..Current /\ Current \in Nat /\ Len(file) \in Nat
        /\ \A n \in 1..Current : recs[n] \in Record
    BY <1>1, WriterTypes DEF WriterTypeOK, Current
  <1>4. \A n \in 1..Current : r(n) \in Record /\ r(n).frags = recs[n].frags
    BY <1>3 DEF Record, Statuses
  <1> HIDE DEF r
  <1>5. /\ recs' \in Seq(Record) /\ Len(recs') = Len(recs)
        /\ \A n \in 1..Current : recs'[n].frags = recs[n].frags
    BY <1>2, <1>3, <1>4 DEF Current
  <1>6. Len(file) % BlockSize \in 0..BlockSize
    BY <1>3 DEF LogAssumption
  <1>7. WriterTypeOK'
    BY <1>1, <1>2, <1>3, <1>5, <1>6 DEF WriterTypeOK
  <1>8. WriterOK'
    BY <1>1, <1>2, <1>3, <1>5, <1>7, FewerCells
  <1>9. ReaderOK'
    BY <1>2, <1>3 DEF ReaderOK, ReaderTypeOK, ReaderState, NoReader
  <1>10. QED
    BY <1>8, <1>9 DEF Sound

-----------------------------------------------------------------------------
(* Only whole records: the reader's steps                                    *)

Physical == {"bad", "eof"} \cup Starting \cup Continuing

(* What ReadRecord makes of a physical record.  A record returned was found at *)
(* the initial offset or after it: the reader does not seek again.             *)
LEMMA AcceptCases ==
    ASSUME rd \in ReaderState, NEW p, p.type \in Physical, p.lo \in Nat, p.frag \in Nat,
           p.drop \in BOOLEAN, rd' = Accept(p),
           p.type \in Starting \cup Continuing => rd.lo >= rd.init,
           rd.inFragment => rd.prospect >= rd.init /\ ~rd.resyncing
    PROVE  /\ rd' \in ReaderState /\ rd'.lo = p.lo
           /\ rd'.init = rd.init /\ rd'.hi = rd.hi /\ rd'.eob = rd.eob /\ rd'.eof = rd.eof
           /\ p.type \in {"bad", "eof"} => ~rd'.inFragment /\ rd'.out = rd.out
           /\ p.type = "full" => ~rd'.inFragment /\ rd'.out = Append(rd.out, <<p.frag>>)
           /\ p.type = "first" =>
                 /\ rd'.inFragment /\ rd'.scratch = <<p.frag>> /\ rd'.out = rd.out
                 /\ rd'.prospect >= rd'.init /\ ~rd'.resyncing
           /\ p.type = "middle" /\ rd.inFragment =>
                 /\ rd'.inFragment /\ rd'.scratch = Append(rd.scratch, p.frag)
                 /\ rd'.out = rd.out
                 /\ rd'.prospect >= rd'.init /\ ~rd'.resyncing
           /\ p.type = "last" /\ rd.inFragment =>
                 ~rd'.inFragment /\ rd'.out = Append(rd.out, Append(rd.scratch, p.frag))
           /\ p.type \in Continuing /\ ~rd.inFragment => ~rd'.inFragment /\ rd'.out = rd.out
           /\ rd'.dropped => \/ rd.dropped \/ p.drop
                             \/ p.type \in Starting /\ rd.inFragment
                             \/ p.type \in Continuing /\ ~rd.inFragment
                             \/ p.type = "bad" /\ rd.inFragment
  <1> DEFINE skip == rd.resyncing /\ p.type \in {"middle", "last"}
             start == p.type \in {"full", "first"}
             partial == rd.inFragment /\ ScratchSize(rd.scratch) > 0
             orphan == p.type \in {"middle", "last"} /\ ~rd.inFragment /\ ~skip
             lost == \/ (start /\ partial)
                     \/ orphan
                     \/ (p.type = "bad" /\ rd.inFragment)
             whole == IF p.type = "full" THEN <<p.frag>> ELSE Append(rd.scratch, p.frag)
             returns == p.type = "full" \/ (p.type = "last" /\ rd.inFragment /\ ~skip)
             first == IF start THEN rd.lo ELSE rd.prospect
             resync == rd.resyncing /\ p.type = "middle"
             dropped == rd.dropped \/ p.drop \/ lost
             base == [rd EXCEPT !.lo = p.lo, !.resyncing = resync,
                                !.dropped = dropped, !.prospect = first]
             found == [base EXCEPT !.out = Append(base.out, whole), !.last = first,
                                   !.inFragment = FALSE, !.scratch = <<>>]
             begun == [base EXCEPT !.scratch = <<p.frag>>, !.inFragment = TRUE]
             more == [base EXCEPT !.scratch = Append(base.scratch, p.frag)]
             none == [base EXCEPT !.scratch = <<>>, !.inFragment = FALSE]
  <1>1. rd' = IF returns THEN SkipToInitialBlock(found)
              ELSE IF p.type = "first" THEN begun
              ELSE IF p.type = "middle" /\ rd.inFragment /\ ~skip THEN more
              ELSE IF p.type \in {"bad", "eof"} THEN none
              ELSE base
    BY DEF Accept
  <1>2. /\ dropped \in BOOLEAN /\ resync \in BOOLEAN /\ first \in Nat
        /\ dropped => \/ rd.dropped \/ p.drop
                      \/ p.type \in Starting /\ rd.inFragment
                      \/ p.type \in Continuing /\ ~rd.inFragment
                      \/ p.type = "bad" /\ rd.inFragment
    BY DEF ReaderState, Starting, Continuing
  <1>3. /\ skip => ~rd.inFragment
        /\ start <=> p.type \in Starting
        /\ returns => first >= rd.init
        /\ p.type = "first" => first >= rd.init
        /\ resync => ~rd.inFragment /\ p.type = "middle"
    BY DEF Starting, Continuing
  <1>4. /\ whole \in Seq(Nat) /\ Append(rd.out, whole) \in Seq(Seq(Nat))
        /\ Append(rd.scratch, p.frag) \in Seq(Nat) /\ <<p.frag>> \in Seq(Nat)
    BY DEF ReaderState
  <1>5. p.type = "full" => whole = <<p.frag>>
    OBVIOUS
  <1>6. p.type = "last" => whole = Append(rd.scratch, p.frag)
    OBVIOUS
  <1> HIDE DEF dropped, resync, first, whole
  <1>7. /\ base \in ReaderState /\ base.lo = p.lo /\ base.init = rd.init /\ base.hi = rd.hi
        /\ base.eob = rd.eob /\ base.eof = rd.eof /\ base.inFragment = rd.inFragment
        /\ base.out = rd.out /\ base.scratch = rd.scratch /\ base.dropped = dropped
        /\ base.prospect = first /\ base.resyncing = resync
    BY <1>2 DEF ReaderState
  <1> HIDE DEF base
  <1>8. /\ found \in ReaderState /\ found.lo = p.lo /\ found.init = rd.init /\ found.hi = rd.hi
        /\ found.eob = rd.eob /\ found.eof = rd.eof /\ ~found.inFragment
        /\ found.out = Append(rd.out, whole) /\ found.dropped = dropped /\ found.last = first
    <2>1. <<>> \in Seq(Nat)
      OBVIOUS
    <2>2. QED
      BY <1>2, <1>4, <1>7, <2>1 DEF ReaderState
  <1>9. /\ begun \in ReaderState /\ begun.lo = p.lo /\ begun.init = rd.init /\ begun.hi = rd.hi
        /\ begun.eob = rd.eob /\ begun.eof = rd.eof /\ begun.inFragment
        /\ begun.out = rd.out /\ begun.dropped = dropped /\ begun.scratch = <<p.frag>>
        /\ begun.prospect = first /\ begun.resyncing = resync
    BY <1>4, <1>7 DEF ReaderState
  <1>10. /\ more \in ReaderState /\ more.lo = p.lo /\ more.init = rd.init /\ more.hi = rd.hi
         /\ more.eob = rd.eob /\ more.eof = rd.eof /\ more.inFragment = rd.inFragment
         /\ more.out = rd.out /\ more.dropped = dropped
         /\ more.scratch = Append(rd.scratch, p.frag)
         /\ more.prospect = first /\ more.resyncing = resync
    BY <1>4, <1>7 DEF ReaderState
  <1>11. /\ none \in ReaderState /\ none.lo = p.lo /\ none.init = rd.init /\ none.hi = rd.hi
         /\ none.eob = rd.eob /\ none.eof = rd.eof /\ ~none.inFragment
         /\ none.out = rd.out /\ none.dropped = dropped
    <2>1. <<>> \in Seq(Nat)
      OBVIOUS
    <2>2. QED
      BY <1>7, <2>1 DEF ReaderState
  <1>12. p.type = "middle" => first = rd.prospect
    BY DEF first
  <1> HIDE DEF found, begun, more, none
  <1>13. CASE returns
    <2>1. rd' = found
      BY <1>1, <1>3, <1>8, <1>13 DEF SkipToInitialBlock, ReaderState
    <2>2. QED
      BY <2>1, <1>2, <1>5, <1>6, <1>8, <1>13 DEF Starting, Continuing
  <1>14. CASE p.type = "first"
    BY <1>1, <1>2, <1>3, <1>9, <1>14 DEF Starting, Continuing
  <1>15. CASE p.type = "middle" /\ rd.inFragment
    <2>1. rd' = more
      BY <1>1, <1>3, <1>15
    <2>2. QED
      BY <2>1, <1>2, <1>3, <1>10, <1>12, <1>15 DEF Starting, Continuing
  <1>16. CASE p.type \in {"bad", "eof"}
    BY <1>1, <1>2, <1>11, <1>16 DEF Starting, Continuing
  <1>17. CASE p.type \in Continuing /\ ~rd.inFragment
    <2>1. rd' = base
      BY <1>1, <1>17 DEF Continuing
    <2>2. QED
      BY <2>1, <1>2, <1>7, <1>17 DEF Starting, Continuing
  <1>18. QED
    BY <1>3, <1>13, <1>14, <1>15, <1>16, <1>17 DEF Physical, Starting, Continuing

(* Fragment f lies whole where the reader is.                                *)
AtReader(f) ==
    /\ f \in 1..Last /\ frag[f].at = rd.lo /\ rd.lo >= rd.init
    /\ End(f) <= rd.hi /\ rd.hi <= Len(file)
    /\ \A i \in 1..(HeaderSize + frag[f].len) : file[rd.lo + i] = <<f, i - 1>>

(* A physical record with a fragment in it is one that lies whole there.     *)
LEMMA PhysicalRead ==
    ASSUME LogAssumption, WriterTypeOK, CellsInPlace, ReaderTypeOK, NEW p \in PhysicalRecords
    PROVE  /\ p.type \in Physical /\ p.lo \in Nat /\ p.frag \in Nat /\ p.drop \in BOOLEAN
           /\ rd.lo <= p.lo /\ p.lo <= rd.hi
           /\ p.lo = rd.hi \/ \E f \in 1..Last : p.lo = End(f)
           /\ p.type = "eof" => ~p.drop /\ (rd.eof \/ Buffered < HeaderSize)
           /\ p.type \in Starting \cup Continuing =>
                 AtReader(p.frag) /\ p.type = frag[p.frag].type /\ p.lo = End(p.frag)
  <1> DEFINE good == Result(frag[HeaderFragment].type, Length, FALSE, FALSE)
             early == [Result("bad", Length, FALSE, FALSE) EXCEPT !.frag = 0]
  <1>1. /\ HeaderSize \in Nat \ {0} /\ rd \in ReaderState /\ rd.lo \in Nat /\ rd.hi \in Nat
        /\ rd.lo <= rd.hi /\ (rd.hi <= Len(file) \/ rd.lo = rd.hi)
        /\ rd.init \in Nat /\ Len(file) \in Nat
    BY WriterTypes DEF LogAssumption, ReaderTypeOK, ReaderState
  <1>2. \/ p = Dropped \/ p = Result("bad", -1, TRUE, FALSE)
        \/ p = Result("eof", -1, TRUE, FALSE) /\ (rd.eof \/ Buffered < HeaderSize)
        \/ Buffered >= HeaderSize /\ IsHeader /\ Fits /\ Intact
           /\ IF rd.lo < rd.init THEN p = early ELSE p = good
    <2>1. Buffered \in Nat
      BY <1>1 DEF Buffered
    <2> DEFINE few == Buffered < HeaderSize
               zero == LengthCell = Zero
               bad == Result("bad", -1, TRUE, FALSE)
               eof == Result("eof", -1, TRUE, FALSE)
    <2>2. p \in IF few THEN {eof}
                ELSE IF zero THEN {bad}
                ELSE IF ~IsHeader THEN {Dropped, bad, TooLong}
                ELSE IF ~Fits THEN {TooLong}
                ELSE IF ~Intact THEN {Dropped}
                ELSE IF rd.lo < rd.init THEN {early} ELSE {good}
      BY DEF PhysicalRecords
    <2>3. TooLong = Dropped \/ (TooLong = eof /\ rd.eof)
      BY DEF TooLong
    <2> HIDE DEF zero, bad, eof, early, good
    <2>4. p = Dropped \/ p = bad \/ (p = eof /\ (rd.eof \/ few))
          \/ (~few /\ IsHeader /\ Fits /\ Intact
               /\ IF rd.lo < rd.init THEN p = early ELSE p = good)
      BY <2>2, <2>3
    <2>5. ~few => Buffered >= HeaderSize
      BY <2>1, <1>1
    <2>6. QED
      BY <2>4, <2>5 DEF bad, eof
  <1>3. CASE \/ p = Dropped \/ p = Result("bad", -1, TRUE, FALSE)
             \/ p = Result("eof", -1, TRUE, FALSE) /\ (rd.eof \/ Buffered < HeaderSize)
    <2>1. /\ p.type \in {"bad", "eof"} /\ p.lo = rd.hi /\ p.frag = 0 /\ p.drop \in BOOLEAN
          /\ p.type = "eof" => p.drop = FALSE /\ (rd.eof \/ Buffered < HeaderSize)
      <3>1. (rd.lo >= rd.init) \in BOOLEAN /\ FALSE \in BOOLEAN
        OBVIOUS
      <3>2. CASE p = Dropped
        BY <3>1, <3>2 DEF Dropped, Result
      <3>3. CASE p = Result("bad", -1, TRUE, FALSE)
        BY <3>1, <3>3 DEF Result
      <3>4. CASE p = Result("eof", -1, TRUE, FALSE) /\ (rd.eof \/ Buffered < HeaderSize)
        BY <3>1, <3>4 DEF Result
      <3>5. QED
        BY <1>3, <3>2, <3>3, <3>4
    <2>2. QED
      BY <2>1, <1>1 DEF Physical, Starting, Continuing
  <1>4. CASE Buffered >= HeaderSize /\ IsHeader /\ Fits /\ Intact
             /\ IF rd.lo < rd.init THEN p = early ELSE p = good
    <2> DEFINE f == HeaderFragment
               e == rd.lo + HeaderSize
    <2>1. e \in 1..Len(file) /\ rd.hi <= Len(file) /\ Buffered = rd.hi - rd.lo
      BY <1>1, <1>4 DEF Buffered
    <2>2. f = file[e][1] /\ file[e][2] = HeaderSize - 1 /\ f > 0
      BY <1>4 DEF IsHeader, HeaderFragment, LengthCell
    <2>3. f \in 1..Last /\ e = frag[f].at + file[e][2] + 1
      BY <2>1, <2>2 DEF CellsInPlace
    <2>4. /\ frag[f].len \in Nat /\ frag[f].at \in Nat /\ f \in Nat /\ Length = frag[f].len
          /\ frag[f].type \in Starting \cup Continuing
      BY <2>3, WriterTypes DEF Length
    <2>5. frag[f].at = rd.lo
      <3>1. rd.lo + HeaderSize = frag[f].at + (HeaderSize - 1) + 1
        BY <2>2, <2>3
      <3>2. rd.lo \in Nat /\ HeaderSize \in Nat /\ frag[f].at \in Nat
        BY <2>4, <1>1
      <3>3. QED
        BY <3>1, <3>2
    <2>6. End(f) = rd.lo + HeaderSize + Length /\ End(f) <= rd.hi
      BY SMTT(30), <2>1, <2>4, <2>5, <1>1, <1>4 DEF End, Fits
    <2>7. \A i \in 1..(HeaderSize + frag[f].len) : file[rd.lo + i] = <<f, i - 1>>
      BY <2>4, <1>4 DEF Intact
    <2>8. CASE rd.lo < rd.init
      <3>1. p = early
        BY <2>8, <1>4
      <3>2. /\ p.type = "bad" /\ p.lo = rd.lo + HeaderSize + Length /\ p.frag = 0
            /\ p.drop \in BOOLEAN
        <4>1. FALSE \in BOOLEAN
          OBVIOUS
        <4>2. QED
          BY <3>1, <4>1 DEF Result
      <3>3. rd.lo <= p.lo /\ p.lo <= rd.hi /\ p.lo \in Nat
        <4>1. Length \in Nat /\ rd.lo \in Nat /\ HeaderSize \in Nat
          BY <2>4, <1>1
        <4>2. QED
          BY <4>1, <3>2, <2>6
      <3>4. \E g \in 1..Last : p.lo = End(g)
        BY <3>2, <2>3, <2>6
      <3>5. p.type \in Physical /\ p.type \notin Starting \cup Continuing /\ p.type # "eof"
        BY <3>2 DEF Physical, Starting, Continuing
      <3>6. QED
        BY <3>2, <3>3, <3>4, <3>5
    <2>9. CASE ~(rd.lo < rd.init)
      <3>1. p = good /\ Length # -1
        BY <2>9, <2>4, <1>4
      <3>2. /\ p.type = frag[f].type /\ p.lo = rd.lo + HeaderSize + Length /\ p.frag = f
            /\ p.drop \in BOOLEAN
        <4>1. FALSE \in BOOLEAN
          OBVIOUS
        <4>2. QED
          BY <3>1, <4>1 DEF Result
      <3>3. AtReader(f)
        <4>1. rd.lo >= rd.init
          BY <2>9, <1>1
        <4>2. QED
          BY <4>1, <2>1, <2>3, <2>5, <2>6, <2>7 DEF AtReader
      <3>4. p.type # "eof"
        BY <3>2, <2>4 DEF Starting, Continuing
      <3>5. QED
        BY SMTT(30), <3>2, <3>3, <3>4, <2>3, <2>4, <2>6, <1>1 DEF Physical
    <2>10. QED
      BY <2>8, <2>9
  <1>5. QED
    BY <1>2, <1>3, <1>4

(* The writer's half of the invariant speaks of nothing the reader touches.   *)
LEMMA SameWriter ==
    ASSUME WriterOK, WriterTypeOK', UNCHANGED <<file, synced, frag, recs, left>>
    PROVE  WriterOK'
  <1>1. CellsInPlace'
    BY DEF WriterOK, CellsInPlace, Last
  <1>2. CellsInOrder'
    BY DEF WriterOK, CellsInOrder
  <1>3. ContinuationApart'
    BY DEF WriterOK, ContinuationApart
  <1>4. AddingApart'
    BY DEF WriterOK, AddingApart, Last, Current
  <1>5. FragmentsOfRecords'
    <2>1. /\ \A f \in 1..Last : HasRecord(f)
          /\ \A n \in 1..Current : \A k \in 1..Len(recs[n].frags) : HasFragment(n, k)
      BY DEF WriterOK, FragmentsOfRecords
    <2>2. /\ \A f \in 1..Last' : HasRecord(f)'
          /\ \A n \in 1..Current' : \A k \in 1..Len(recs'[n].frags) : HasFragment(n, k)'
      BY <2>1 DEF HasRecord, HasFragment, Last, Current
    <2>3. AddingLast'
      BY DEF WriterOK, FragmentsOfRecords, AddingLast, Last, Current
    <2>4. \A f, g \in 1..Last' : f < g => frag'[f].rec <= frag'[g].rec
      BY DEF WriterOK, FragmentsOfRecords, Last
    <2>5. QED
      BY <2>2, <2>3, <2>4 DEF FragmentsOfRecords
  <1>6. QED
    BY <1>1, <1>2, <1>3, <1>4, <1>5 DEF WriterOK

LEMMA ReadBlockSound ==
    ASSUME LogAssumption, Sound, ReadBlock
    PROVE  Sound'
  <1> DEFINE from == rd.eob
             got == IF from >= Len(file) THEN 0 ELSE Least(BlockSize, Len(file) - from)
  <1>1. WriterOK /\ WriterTypeOK /\ ReaderOK /\ phase = "read" /\ ReaderTypeOK
    BY DEF Sound, WriterOK, ReadBlock, ReaderOK
  <1>2. /\ BlockSize \in Nat \ {0} /\ HeaderSize \in Nat \ {0} /\ HeaderSize < BlockSize
        /\ rd \in ReaderState /\ rd.lo \in Nat /\ rd.hi \in Nat
        /\ rd.lo <= rd.hi /\ (rd.hi <= Len(file) \/ rd.lo = rd.hi)
        /\ Len(file) \in Nat /\ rd.eob = rd.hi
    BY <1>1, WriterTypes DEF LogAssumption, ReaderTypeOK, ReaderState
  <1>3. /\ rd' = [rd EXCEPT !.lo = from, !.hi = from + got, !.eob = from + got,
                            !.eof = got < BlockSize]
        /\ Buffered < HeaderSize /\ ~rd.eof
        /\ UNCHANGED <<file, phase, synced, frag, recs, offset, left, fails, corrupted, reopens>>
    BY DEF ReadBlock, writer
  <1>4. /\ got \in 0..BlockSize /\ from = rd.hi
        /\ from + got <= Len(file) \/ got = 0
    BY <1>2 DEF Least
  <1> HIDE DEF from, got
  <1>5. /\ rd' \in ReaderState /\ rd'.lo = rd.hi /\ rd'.hi = rd.hi + got /\ rd'.eob = rd'.hi
        /\ (rd'.eof <=> got < BlockSize) /\ rd'.init = rd.init /\ rd'.prospect = rd.prospect
        /\ rd'.inFragment = rd.inFragment /\ rd'.scratch = rd.scratch
        /\ rd'.resyncing = rd.resyncing /\ rd'.out = rd.out
    <2> DEFINE short == got < BlockSize
    <2>1. short \in BOOLEAN /\ from \in Nat /\ from + got \in Nat
      BY <1>2, <1>4
    <2>2. rd' = [rd EXCEPT !.lo = from, !.hi = from + got, !.eob = from + got, !.eof = short]
      BY <1>3
    <2> HIDE DEF short
    <2>3. /\ rd' \in ReaderState /\ rd'.lo = from /\ rd'.hi = from + got /\ rd'.eob = rd'.hi
          /\ rd'.eof = short /\ rd'.init = rd.init /\ rd'.prospect = rd.prospect
          /\ rd'.inFragment = rd.inFragment /\ rd'.scratch = rd.scratch
          /\ rd'.resyncing = rd.resyncing /\ rd'.out = rd.out
      BY <1>2, <2>1, <2>2 DEF ReaderState
    <2>4. QED
      BY <2>3, <1>4 DEF short
  <1>6. WriterOK'
    <2>1. WriterTypeOK'
      BY <1>1, <1>3 DEF WriterTypeOK
    <2>2. QED
      BY <1>1, <1>3, <2>1, SameWriter
  <1>7. ReaderTypeOK'
    BY <1>2, <1>3, <1>4, <1>5 DEF ReaderTypeOK
  <1>8. OutWhole'
    <2>1. ASSUME NEW n \in 1..Current, Whole(n), Seen(LastFragment(n))
          PROVE  Whole(n)' /\ Seen(LastFragment(n))' /\ RecordAt(n)' = RecordAt(n)
                 /\ LastFragment(n)' = LastFragment(n)
      <3>1. End(LastFragment(n)) \in Nat
        <4>1. recs[n].frags # <<>> /\ Len(recs[n].frags) \in Nat
              /\ Len(recs[n].frags) \in 1..Len(recs[n].frags)
          BY <2>1, <1>1, WriterTypes DEF Whole
        <4>2. HasFragment(n, Len(recs[n].frags))
          BY <4>1, <1>1 DEF WriterOK, FragmentsOfRecords
        <4>3. LastFragment(n) \in 1..Last
          BY <4>2 DEF HasFragment, LastFragment
        <4>4. QED
          BY SMTT(30), <4>3, <1>1, <1>2, WriterTypes DEF End
      <3>2. LastFragment(n)' = LastFragment(n) /\ RecordAt(n)' = RecordAt(n)
        BY <1>3 DEF LastFragment, RecordAt
      <3>3. Whole(n)'
        BY <2>1, <1>3 DEF Whole, LastFragment
      <3>4. Seen(LastFragment(n))'
        <4>1. End(LastFragment(n))' = End(LastFragment(n))
          BY <1>3 DEF End, LastFragment
        <4>2. End(LastFragment(n)) <= rd'.lo
          BY <2>1, <3>1, <1>2, <1>5 DEF Seen
        <4>3. QED
          BY <2>1, <3>2, <4>1, <4>2, <1>3 DEF Seen
      <3>5. QED
        BY <3>2, <3>3, <3>4
    <2>2. OutWhole
      BY <1>1 DEF ReaderOK
    <2>3. QED
      BY <2>1, <2>2, <1>3, <1>5 DEF OutWhole, Current
  <1>9. ScratchWhole'
    <2> SUFFICES ASSUME rd'.inFragment PROVE ScratchWhole'
      BY DEF ScratchWhole
    <2>1. /\ rd.prospect >= rd.init /\ ~rd.resyncing
          /\ \E n \in 1..Current : \E k \in 1..Len(recs[n].frags) : Together(n, k)
      BY <1>1, <1>5 DEF ReaderOK, ScratchWhole
    <2>2. PICK n \in 1..Current : \E k \in 1..Len(recs[n].frags) : Together(n, k)
      BY <2>1
    <2>0. PICK k \in 1..Len(recs[n].frags) : Together(n, k)
      BY <2>2
    <2>3. End(recs[n].frags[k]) = rd.lo
      BY <2>0, <1>2, <1>3 DEF Together, Buffered
    <2>4. rd'.lo < End(recs[n].frags[k])' + HeaderSize
      BY <2>3, <1>2, <1>3, <1>5 DEF Buffered, End
    <2>5. (Buffered >= HeaderSize)' \/ rd'.eof
      BY <1>2, <1>4, <1>5 DEF Buffered
    <2>6. Seen(recs[n].frags[k])' /\ RecordAt(n)' >= rd'.init
      BY <2>0, <2>3, <1>2, <1>3, <1>5 DEF Together, Seen, End, RecordAt
    <2>7. Together(n, k)'
      BY <2>0, <2>4, <2>5, <2>6, <1>3, <1>5 DEF Together
    <2>8. QED
      BY <2>1, <2>7, <1>3, <1>5 DEF ScratchWhole, Current
  <1>10. QED
    BY <1>1, <1>3, <1>6, <1>7, <1>8, <1>9 DEF Sound, ReaderOK

LEMMA ReadFailsSound ==
    ASSUME LogAssumption, Sound, ReadFails
    PROVE  Sound'
  <1>1. WriterOK /\ WriterTypeOK /\ ReaderOK /\ phase = "read" /\ ReaderTypeOK /\ OutWhole
    BY DEF Sound, WriterOK, ReadFails, ReaderOK
  <1>2. /\ rd \in ReaderState /\ rd.lo \in Nat /\ rd.hi \in Nat /\ rd.lo <= rd.hi
        /\ Len(file) \in Nat /\ rd.eob = rd.hi /\ HeaderSize \in Nat \ {0}
    BY <1>1, WriterTypes DEF LogAssumption, ReaderTypeOK, ReaderState
  <1>3. PICK got \in 0..(BlockSize - 1) :
            rd' = [rd EXCEPT !.lo = rd.hi, !.eof = TRUE, !.scratch = <<>>,
                             !.inFragment = FALSE,
                             !.dropped = \/ rd.dropped
                                         \/ rd.eob + got - BlockSize < 0
                                         \/ rd.eob + got - BlockSize >= rd.init]
    BY DEF ReadFails
  <1>4. /\ phase' = "error"
        /\ UNCHANGED <<file, synced, frag, recs, offset, left, fails, corrupted, reopens>>
    BY DEF ReadFails, writer
  <1>5. /\ rd' \in ReaderState /\ rd'.lo = rd.hi /\ rd'.hi = rd.hi /\ rd'.eob = rd.hi
        /\ rd'.init = rd.init /\ rd'.out = rd.out /\ ~rd'.inFragment
    <2> DEFINE drop == \/ rd.dropped
                       \/ rd.eob + got - BlockSize < 0
                       \/ rd.eob + got - BlockSize >= rd.init
    <2>1. drop \in BOOLEAN
      BY <1>2 DEF ReaderState
    <2>2. rd' = [rd EXCEPT !.lo = rd.hi, !.eof = TRUE, !.scratch = <<>>,
                           !.inFragment = FALSE, !.dropped = drop]
      BY <1>3
    <2> HIDE DEF drop
    <2>3. rd.eob = rd.hi /\ rd.hi \in Nat /\ rd \in ReaderState
      BY <1>2
    <2> DEFINE none == <<>>
    <2>4. rd' \in ReaderState
      <3>1. none \in Seq(Nat)
        OBVIOUS
      <3> HIDE DEF none
      <3>2. rd' = [rd EXCEPT !.lo = rd.hi, !.eof = TRUE, !.scratch = none,
                             !.inFragment = FALSE, !.dropped = drop]
        BY <2>2 DEF none
      <3>3. QED
        BY <2>1, <2>3, <3>1, <3>2 DEF ReaderState
    <2>5. /\ rd'.lo = rd.hi /\ rd'.hi = rd.hi /\ rd'.eob = rd.hi
          /\ rd'.init = rd.init /\ rd'.out = rd.out /\ ~rd'.inFragment
      BY <2>2, <2>3 DEF ReaderState
    <2>6. QED
      BY <2>4, <2>5
  <1>6. WriterOK'
    <2>1. WriterTypeOK'
      BY <1>1, <1>4 DEF WriterTypeOK
    <2>2. QED
      BY <1>1, <1>4, <2>1, SameWriter
  <1>7. ReaderTypeOK'
    BY <1>1, <1>2, <1>4, <1>5 DEF ReaderTypeOK
  <1>8. OutWhole'
    <2>1. ASSUME NEW n \in 1..Current, Whole(n), Seen(LastFragment(n))
          PROVE  Whole(n)' /\ Seen(LastFragment(n))' /\ RecordAt(n)' = RecordAt(n)
                 /\ LastFragment(n)' = LastFragment(n)
      <3>1. End(LastFragment(n)) \in Nat
        <4>1. recs[n].frags # <<>> /\ Len(recs[n].frags) \in Nat
              /\ Len(recs[n].frags) \in 1..Len(recs[n].frags)
          BY <2>1, <1>1, WriterTypes DEF Whole
        <4>2. HasFragment(n, Len(recs[n].frags))
          BY <4>1, <1>1 DEF WriterOK, FragmentsOfRecords
        <4>3. LastFragment(n) \in 1..Last
          BY <4>2 DEF HasFragment, LastFragment
        <4>4. QED
          BY SMTT(30), <4>3, <1>1, <1>2, WriterTypes DEF End
      <3>2. LastFragment(n)' = LastFragment(n) /\ RecordAt(n)' = RecordAt(n)
        BY <1>4 DEF LastFragment, RecordAt
      <3>3. Whole(n)'
        BY <2>1, <1>4 DEF Whole, LastFragment
      <3>4. Seen(LastFragment(n))'
        <4>1. End(LastFragment(n))' = End(LastFragment(n))
          BY <1>4 DEF End, LastFragment
        <4>2. End(LastFragment(n)) <= rd'.lo
          BY <2>1, <3>1, <1>2, <1>5 DEF Seen
        <4>3. QED
          BY <2>1, <3>2, <4>1, <4>2, <1>4 DEF Seen
      <3>5. QED
        BY <3>2, <3>3, <3>4
    <2>2. QED
      BY <2>1, <1>1, <1>4, <1>5 DEF OutWhole, Current
  <1>9. QED
    <2>1. left' = -1
      BY <1>1, <1>4 DEF ReaderOK
    <2>2. QED
      BY <2>1, <1>4, <1>5, <1>6, <1>7, <1>8 DEF Sound, ReaderOK, ScratchWhole

LEMMA OneElement ==
    ASSUME NEW s \in Seq(Nat), Len(s) = 1 PROVE s = <<s[1]>>
  <1> DEFINE t == <<s[1]>>
  <1>1. s[1] \in Nat
    <2>1. 1 \in 1..Len(s)
      OBVIOUS
    <2>2. QED
      BY <2>1, ElementOfSeq
  <1>2. t \in Seq(Nat) /\ Len(t) = 1 /\ t[1] = s[1]
    BY <1>1
  <1> HIDE DEF t
  <1>3. \A i \in 1..Len(s) : s[i] = t[i]
    BY <1>2
  <1>4. s = t
    BY <1>2, <1>3, SeqEqual
  <1>5. QED
    BY <1>4 DEF t

LEMMA AtReaderFacts ==
    ASSUME LogAssumption, WriterTypeOK, ReaderTypeOK, NEW f, AtReader(f)
    PROVE  /\ f \in 1..Last /\ f \in Nat /\ End(f) \in Nat
           /\ frag[f].at = rd.lo /\ frag[f].len \in Nat
           /\ End(f) = rd.lo + HeaderSize + frag[f].len
           /\ End(f) \in 1..Len(file) /\ file[End(f)][1] = f
           /\ rd.lo + 1 \in 1..Len(file) /\ file[rd.lo + 1][1] = f
           /\ Buffered >= HeaderSize /\ rd.lo >= rd.init
  <1> DEFINE s == HeaderSize + frag[f].len
  <1>1. /\ f \in 1..Last /\ f \in Nat /\ frag[f].at = rd.lo /\ frag[f].len \in Nat
        /\ rd.lo >= rd.init /\ rd.lo \in Nat /\ rd.hi \in Nat /\ Len(file) \in Nat
        /\ End(f) <= rd.hi /\ rd.hi <= Len(file) /\ HeaderSize \in Nat \ {0}
    BY WriterTypes DEF AtReader, ReaderTypeOK, ReaderState, LogAssumption
  <1>2. \A i \in 1..s : file[rd.lo + i] = <<f, i - 1>>
    BY DEF AtReader
  <1>3. s \in Nat /\ s >= HeaderSize /\ End(f) = rd.lo + s /\ End(f) = rd.lo + HeaderSize + frag[f].len
    BY <1>1 DEF End
  <1> HIDE DEF s
  <1>4. 1 \in 1..s /\ s \in 1..s
    BY <1>1, <1>3
  <1>5. file[rd.lo + 1] = <<f, 1 - 1>> /\ file[rd.lo + s] = <<f, s - 1>>
    BY <1>2, <1>4
  <1>6. file[rd.lo + 1][1] = f /\ file[rd.lo + s][1] = f
    BY <1>5
  <1>7. rd.lo + 1 \in 1..Len(file) /\ rd.lo + s \in 1..Len(file) /\ Buffered >= HeaderSize
    BY SMTT(30), <1>1, <1>3 DEF Buffered
  <1>8. QED
    BY <1>1, <1>3, <1>6, <1>7

LEMMA NumberOfFragment ==
    ASSUME WriterTypeOK, FragmentsOfRecords, NEW n \in 1..Current, NEW k \in 1..Len(recs[n].frags)
    PROVE  /\ recs[n].frags[k] \in 1..Last /\ recs[n].frags[k] \in Nat
           /\ 1 \in 1..Len(recs[n].frags) /\ recs[n].frags[1] \in Nat
           /\ recs[n].frags[k] = recs[n].frags[1] + k - 1
           /\ frag[recs[n].frags[k]].rec = n /\ k \in Nat
  <1>1. HasFragment(n, k)
    BY DEF FragmentsOfRecords
  <1>2. Last \in Nat /\ Len(recs[n].frags) \in Nat /\ recs[n].frags \in Seq(Nat)
    BY WriterTypes
  <1>3. 1 \in 1..Len(recs[n].frags)
    BY <1>2
  <1>4. recs[n].frags[1] \in Nat
    BY <1>2, <1>3, ElementOfSeq
  <1>5. QED
    BY <1>1, <1>2, <1>3, <1>4 DEF HasFragment

(* What the reader finds where it is continues what it has put together.     *)
LEMMA NextOfScratch ==
    ASSUME LogAssumption, Sound, phase = "read", NEW f, AtReader(f),
           Buffered >= HeaderSize,
           frag[f].type \in Continuing, NEW n \in 1..Current,
           NEW k \in 1..Len(recs[n].frags), Together(n, k)
    PROVE  k + 1 \in 1..Len(recs[n].frags) /\ recs[n].frags[k + 1] = f
  <1> DEFINE l == recs[n].frags[k]
  <1>1. /\ WriterTypeOK /\ CellsInPlace /\ CellsInOrder /\ ContinuationApart /\ FragmentsOfRecords
        /\ HeaderSize \in Nat \ {0} /\ ReaderTypeOK
    BY DEF Sound, WriterOK, ReaderOK, LogAssumption
  <1>2. HasFragment(n, k)
    BY <1>1 DEF FragmentsOfRecords
  <1>3. /\ l \in 1..Last /\ l = recs[n].frags[1] + k - 1 /\ frag[l].rec = n
    BY <1>2 DEF HasFragment
  <1>4. /\ Last \in Nat /\ frag[l].at \in Nat /\ frag[l].len \in Nat
        /\ f \in 1..Last /\ frag[f].at \in Nat /\ frag[f].len \in Nat /\ frag[f].at = rd.lo
        /\ Len(file) \in Nat /\ Len(recs[n].frags) \in Nat
    BY <1>1, <1>3, WriterTypes DEF AtReader
  <1> HIDE DEF l
  <1>5. /\ End(l) <= rd.lo /\ End(l) \in 1..Len(file) /\ file[End(l)][1] = l
        /\ rd.lo < End(l) + HeaderSize
    <2>1. Seen(l) /\ (End(l) = rd.lo \/ rd.lo < End(l) + HeaderSize)
      BY DEF Together, l
    <2>2. End(l) \in Nat /\ End(l) > 0 /\ rd.lo \in Nat
      <3>1. End(l) = frag[l].at + HeaderSize + frag[l].len
        BY DEF End
      <3>2. frag[l].at \in Nat /\ frag[l].len \in Nat /\ rd.lo \in Nat
        BY <1>3, <1>4 DEF l
      <3>3. QED
        BY SMTT(30), <3>1, <3>2, <1>1
    <2>3. QED
      BY <2>1, <2>2, <1>1, <1>4 DEF Seen
  <1>6. /\ rd.lo + 1 \in 1..Len(file) /\ file[rd.lo + 1][1] = f
    BY <1>1, AtReaderFacts
  <1>7. l <= f
    <2>1. End(l) < rd.lo + 1 /\ l > 0 /\ f > 0
      BY <1>3, <1>4, <1>5
    <2>2. QED
      BY <2>1, <1>1, <1>5, <1>6 DEF CellsInOrder
  <1>8. l # f
    BY SMTT(30), <1>1, <1>4, <1>5 DEF End
  <1>9. ~(l < f - 1)
    <2> SUFFICES ASSUME l < f - 1 PROVE FALSE
      OBVIOUS
    <2>1. End(l) + HeaderSize <= frag[f].at
      <3>1. file[End(l)][1] > 0 /\ file[rd.lo + 1][1] > 0
        BY <1>3, <1>4, <1>5, <1>6
      <3>2. QED
        BY <3>1, <1>1, <1>5, <1>6 DEF ContinuationApart
    <2>2. QED
      BY <2>1, <1>1, <1>4, <1>5
  <1>10. f = l + 1
    BY SMTT(30), <1>3, <1>4, <1>7, <1>8, <1>9
  <1>11. HasRecord(f)
    BY <1>1, <1>4 DEF FragmentsOfRecords
  <1>12. PICK j \in 1..Len(recs[frag[f].rec].frags) : recs[frag[f].rec].frags[j] = f
    BY <1>11 DEF HasRecord
  <1> DEFINE m == frag[f].rec
  <1>13. m \in 1..Current /\ j \in 1..Len(recs[m].frags) /\ recs[m].frags[j] = f
    BY <1>11, <1>12 DEF HasRecord
  <1> HIDE DEF m
  <1>14. HasFragment(m, j) /\ Len(recs[m].frags) \in Nat
    BY <1>1, <1>13, WriterTypes DEF FragmentsOfRecords
  <1>15. j # 1 /\ f = recs[m].frags[1] + j - 1
    <2>1. frag[f].type \notin Starting
      BY DEF Starting, Continuing
    <2>2. QED
      BY <2>1, <1>13, <1>14 DEF HasFragment
  <1>16. j - 1 \in 1..Len(recs[m].frags)
    BY <1>13, <1>14, <1>15
  <1>17. HasFragment(m, j - 1)
    BY <1>1, <1>13, <1>16 DEF FragmentsOfRecords
  <1>18. recs[m].frags[j - 1] = l
    <2>1. recs[m].frags[j - 1] = recs[m].frags[1] + (j - 1) - 1
      BY <1>17 DEF HasFragment
    <2>2. recs[m].frags[1] \in Nat /\ j \in Nat
      BY <1>1, <1>13, NumberOfFragment
    <2>3. l \in Nat /\ f \in Nat
      BY <1>3, <1>4
    <2>4. QED
      BY <2>1, <2>2, <2>3, <1>10, <1>15
  <1>19. m = n
    BY <1>3, <1>17, <1>18 DEF HasFragment
  <1>20. j = k + 1
    <2>1. recs[n].frags[1] \in Nat /\ j \in Nat /\ k \in Nat
      BY <1>1, <1>13, <1>19, NumberOfFragment
    <2>2. l = recs[n].frags[1] + k - 1 /\ f = recs[n].frags[1] + j - 1 /\ f = l + 1
      BY <1>3, <1>10, <1>15, <1>19
    <2>3. QED
      BY <2>1, <2>2
  <1>21. QED
    BY <1>13, <1>19, <1>20

LEMMA ReadFragmentSound ==
    ASSUME LogAssumption, Sound, ReadFragment
    PROVE  Sound'
  <1>1. /\ WriterOK /\ WriterTypeOK /\ ReaderOK /\ phase = "read" /\ ReaderTypeOK
        /\ CellsInPlace /\ CellsInOrder /\ FragmentsOfRecords /\ OutWhole /\ ScratchWhole
    BY DEF Sound, WriterOK, ReadFragment, ReaderOK
  <1>2. PICK p \in PhysicalRecords :
            rd' = Accept(p) /\ phase' = IF p.type = "eof" THEN "done" ELSE "read"
    BY DEF ReadFragment
  <1>3. /\ UNCHANGED <<file, synced, frag, recs, offset, left, fails, corrupted, reopens>>
        /\ Buffered >= HeaderSize \/ rd.eof
    BY DEF ReadFragment, writer
  <1>4. /\ HeaderSize \in Nat \ {0} /\ rd \in ReaderState /\ rd.lo \in Nat /\ rd.hi \in Nat
        /\ rd.lo <= rd.hi /\ (rd.hi <= Len(file) \/ rd.lo = rd.hi)
        /\ Len(file) \in Nat /\ rd.eob = rd.hi
    BY <1>1, WriterTypes DEF LogAssumption, ReaderTypeOK, ReaderState
  <1>5. /\ p.type \in Physical /\ p.lo \in Nat /\ p.frag \in Nat /\ p.drop \in BOOLEAN
        /\ rd.lo <= p.lo /\ p.lo <= rd.hi
        /\ p.type \in Starting \cup Continuing =>
              AtReader(p.frag) /\ p.type = frag[p.frag].type /\ p.lo = End(p.frag)
    BY <1>1, PhysicalRead
  <1>6. /\ rd' \in ReaderState /\ rd'.lo = p.lo
        /\ rd'.init = rd.init /\ rd'.hi = rd.hi /\ rd'.eob = rd.eob /\ rd'.eof = rd.eof
        /\ p.type \in {"bad", "eof"} => ~rd'.inFragment /\ rd'.out = rd.out
        /\ p.type = "full" => ~rd'.inFragment /\ rd'.out = Append(rd.out, <<p.frag>>)
        /\ p.type = "first" =>
              /\ rd'.inFragment /\ rd'.scratch = <<p.frag>> /\ rd'.out = rd.out
              /\ rd'.prospect >= rd'.init /\ ~rd'.resyncing
        /\ p.type = "middle" /\ rd.inFragment =>
              /\ rd'.inFragment /\ rd'.scratch = Append(rd.scratch, p.frag)
              /\ rd'.out = rd.out
              /\ rd'.prospect >= rd'.init /\ ~rd'.resyncing
        /\ p.type = "last" /\ rd.inFragment =>
              ~rd'.inFragment /\ rd'.out = Append(rd.out, Append(rd.scratch, p.frag))
        /\ p.type \in Continuing /\ ~rd.inFragment => ~rd'.inFragment /\ rd'.out = rd.out
    <2>1. p.type \in Starting \cup Continuing => rd.lo >= rd.init
      BY <1>5 DEF AtReader
    <2>2. rd.inFragment => rd.prospect >= rd.init /\ ~rd.resyncing
      BY <1>1 DEF ScratchWhole
    <2>3. QED
      BY <1>2, <1>4, <1>5, <2>1, <2>2, AcceptCases
  <1>7. WriterOK'
    <2>1. phase' \in {"read", "done"}
      BY <1>2
    <2>2. WriterTypeOK'
      BY <1>1, <1>3, <2>1 DEF WriterTypeOK
    <2>3. QED
      BY <1>1, <1>3, <2>2 DEF WriterOK, CellsInPlace, CellsInOrder, ContinuationApart,
                        AddingApart, FragmentsOfRecords, HasRecord, HasFragment, AddingLast,
                        Last, Current
  <1>8. ReaderTypeOK'
    BY <1>3, <1>4, <1>5, <1>6 DEF ReaderTypeOK
  <1>9. \A f \in 1..Last : End(f) \in Nat /\ End(f)' = End(f) /\ (Seen(f) => Seen(f)')
    <2> SUFFICES ASSUME NEW f \in 1..Last
                 PROVE  End(f) \in Nat /\ End(f)' = End(f) /\ (Seen(f) => Seen(f)')
      OBVIOUS
    <2>1. End(f) \in Nat /\ End(f)' = End(f)
      BY SMTT(30), <1>1, <1>3, <1>4, WriterTypes DEF End
    <2>2. Seen(f) => Seen(f)'
      BY <2>1, <1>3, <1>4, <1>5, <1>6 DEF Seen
    <2>3. QED
      BY <2>1, <2>2
  <1>10. \A n \in 1..Current : Whole(n) => LastFragment(n) \in 1..Last
                                           /\ Len(recs[n].frags) \in 1..Len(recs[n].frags)
    <2> SUFFICES ASSUME NEW n \in 1..Current, Whole(n)
                 PROVE  LastFragment(n) \in 1..Last /\ Len(recs[n].frags) \in 1..Len(recs[n].frags)
      OBVIOUS
    <2>1. Len(recs[n].frags) \in 1..Len(recs[n].frags)
      BY <1>1, WriterTypes DEF Whole
    <2>2. HasFragment(n, Len(recs[n].frags))
      BY <2>1, <1>1 DEF FragmentsOfRecords
    <2>3. QED
      BY <2>1, <2>2 DEF HasFragment, LastFragment
  <1>11. \A n \in 1..Current :
            /\ Whole(n)' <=> Whole(n)
            /\ LastFragment(n)' = LastFragment(n) /\ RecordAt(n)' = RecordAt(n) /\ recs'[n] = recs[n]
    BY <1>3 DEF Whole, LastFragment, RecordAt
  <1>0. ASSUME rd'.out = rd.out PROVE OutWhole'
    <2>1. \A n \in 1..Current : Whole(n) /\ Seen(LastFragment(n)) => Seen(LastFragment(n))'
      <3> SUFFICES ASSUME NEW n \in 1..Current, Whole(n), Seen(LastFragment(n))
                   PROVE  Seen(LastFragment(n))'
        OBVIOUS
      <3> DEFINE l == LastFragment(n)
      <3>1. l' = l /\ l \in 1..Last /\ Seen(l)
        BY <1>10, <1>11
      <3>2. End(l) \in Nat /\ End(l)' = End(l)
        BY SMTT(30), <3>1, <1>1, <1>3, <1>4, WriterTypes DEF End
      <3> HIDE DEF l
      <3>3. Seen(l)'
        BY <3>1, <3>2, <1>3, <1>4, <1>5, <1>6 DEF Seen
      <3>4. QED
        BY <3>3 DEF l
    <2>2. QED
      BY <2>1, <1>0, <1>1, <1>3, <1>6, <1>11 DEF OutWhole, Current
  <1>12. CASE rd'.out = rd.out /\ ~rd'.inFragment
    <2>1. OutWhole'
      BY <1>0, <1>12
    <2>2. ScratchWhole'
      BY <1>12 DEF ScratchWhole
    <2>3. QED
      BY <1>1, <1>2, <1>3, <1>7, <1>8, <2>1, <2>2 DEF Sound, ReaderOK
  <1>13. ASSUME p.type \in Starting \cup Continuing
         PROVE  /\ p.frag \in 1..Last /\ Seen(p.frag)' /\ End(p.frag)' = rd'.lo
                /\ frag[p.frag].at = rd.lo /\ rd.lo >= rd.init
    <2>1. AtReader(p.frag) /\ p.lo = End(p.frag)
      BY <1>5, <1>13
    <2>2. p.frag \in 1..Last /\ End(p.frag) \in Nat /\ End(p.frag)' = End(p.frag)
          /\ frag[p.frag].at = rd.lo /\ rd.lo >= rd.init
      BY <2>1, <1>9 DEF AtReader
    <2>3. End(p.frag) <= Len(file)
      BY <2>1, <2>2, <1>4 DEF AtReader
    <2>4. file[End(p.frag)][1] = p.frag
      BY <2>1, <1>1, AtReaderFacts
    <2>5. QED
      BY <2>1, <2>2, <2>3, <2>4, <1>3, <1>6 DEF Seen
  <1>14. ASSUME p.type \in Starting
         PROVE  \E n \in 1..Current : /\ 1 \in 1..Len(recs[n].frags) /\ recs[n].frags[1] = p.frag
                                      /\ p.type \in Ending => Len(recs[n].frags) = 1
    <2>1. HasRecord(p.frag)
      BY <1>1, <1>13, <1>14 DEF FragmentsOfRecords
    <2>2. PICK j \in 1..Len(recs[frag[p.frag].rec].frags) : recs[frag[p.frag].rec].frags[j] = p.frag
      BY <2>1 DEF HasRecord
    <2> DEFINE n == frag[p.frag].rec
    <2>3. n \in 1..Current /\ HasFragment(n, j)
      BY <1>1, <2>1, <2>2 DEF FragmentsOfRecords, HasRecord
    <2>4. j = 1 /\ (p.type \in Ending => j = Len(recs[n].frags))
      BY <2>2, <2>3, <1>5, <1>14 DEF HasFragment
    <2>5. QED
      BY <2>2, <2>3, <2>4
  <1>15. ASSUME NEW n \in 1..Current, Whole(n), Seen(LastFragment(n))', RecordAt(n) >= rd.init,
                LastFragment(n) = p.frag, p.type \in Starting \cup Continuing,
                rd'.out = Append(rd.out, recs[n].frags)
         PROVE  OutWhole'
    <2>1. rd.out \in Seq(Seq(Nat)) /\ recs[n].frags \in Seq(Nat) /\ Len(rd.out) \in Nat
      BY <1>1, <1>4, WriterTypes DEF ReaderState
    <2>2. /\ Len(rd'.out) = Len(rd.out) + 1 /\ rd'.out[Len(rd.out) + 1] = recs[n].frags
          /\ \A i \in 1..Len(rd.out) : rd'.out[i] = rd.out[i]
      BY <2>1, <1>15
    <2>3. ASSUME NEW i \in 1..Len(rd'.out)
          PROVE  \E m \in 1..Current' :
                   /\ Whole(m)' /\ rd'.out[i] = recs'[m].frags
                   /\ Seen(LastFragment(m))' /\ RecordAt(m)' >= rd'.init
      <3>1. CASE i \in 1..Len(rd.out)
        BY <3>1, <2>2, <1>1, <1>3, <1>6, <1>9, <1>10, <1>11 DEF OutWhole, Current
      <3>2. CASE i = Len(rd.out) + 1
        BY <3>2, <2>2, <1>3, <1>6, <1>11, <1>15 DEF Current
      <3>3. QED
        BY <3>1, <3>2, <2>1, <2>2
    <2>4. ASSUME NEW i \in 1..Len(rd.out)
          PROVE  rd.out[i][Len(rd.out[i])] < p.frag
      <3>1. PICK m \in 1..Current :
                Whole(m) /\ rd.out[i] = recs[m].frags /\ Seen(LastFragment(m)) /\ RecordAt(m) >= rd.init
        BY <1>1 DEF OutWhole
      <3> DEFINE l == LastFragment(m)
      <3>2. l \in 1..Last /\ End(l) \in Nat /\ l \in Nat /\ l > 0
        BY <3>1, <1>9, <1>10
      <3>3. l = rd.out[i][Len(rd.out[i])]
        BY <3>1 DEF LastFragment
      <3>4. End(l) <= rd.lo /\ End(l) \in 1..Len(file) /\ file[End(l)][1] = l
        <4>1. End(l) > 0
          BY SMTT(30), <3>2, <1>1, <1>4, WriterTypes DEF End
        <4>2. QED
          BY <3>1, <3>2, <4>1, <1>4 DEF Seen
      <3> HIDE DEF l
      <3>5. AtReader(p.frag) /\ frag[p.frag].len \in Nat /\ p.frag \in 1..Last
        BY <1>1, <1>5, <1>13, <1>15, WriterTypes
      <3>6. rd.lo + 1 \in 1..Len(file) /\ file[rd.lo + 1][1] = p.frag
        BY <3>5, <1>1, AtReaderFacts
      <3>7. l <= p.frag
        <4>1. End(l) < rd.lo + 1 /\ file[End(l)][1] > 0 /\ file[rd.lo + 1][1] > 0
          BY <3>2, <3>4, <3>5, <3>6, <1>4
        <4>2. QED
          BY <4>1, <3>4, <3>6, <1>1 DEF CellsInOrder
      <3>8. l # p.frag
        BY SMTT(30), <3>4, <3>5, <1>4 DEF AtReader, End
      <3>9. QED
        BY <3>2, <3>3, <3>5, <3>7, <3>8
    <2>5. ASSUME NEW i \in 1..Len(rd'.out), NEW j \in 1..Len(rd'.out), i < j
          PROVE  rd'.out[i][Len(rd'.out[i])] < rd'.out[j][Len(rd'.out[j])]
      <3>1. i \in 1..Len(rd.out)
        BY <2>1, <2>2, <2>5
      <3>2. CASE j \in 1..Len(rd.out)
        BY <3>1, <3>2, <2>2, <2>5, <1>1 DEF OutWhole
      <3>3. CASE j = Len(rd.out) + 1
        BY <3>1, <3>3, <2>2, <2>4, <1>15 DEF LastFragment
      <3>4. QED
        BY <3>2, <3>3, <2>1, <2>2
    <2>6. QED
      BY <2>3, <2>5 DEF OutWhole
  <1>16. CASE p.type = "full"
    <2>1. PICK n \in 1..Current : /\ 1 \in 1..Len(recs[n].frags) /\ recs[n].frags[1] = p.frag
                                  /\ p.type \in Ending => Len(recs[n].frags) = 1
      BY <1>14, <1>16 DEF Starting
    <2>2. Len(recs[n].frags) = 1 /\ recs[n].frags \in Seq(Nat)
      BY <2>1, <1>1, <1>16, WriterTypes DEF Ending
    <2>3. recs[n].frags = <<p.frag>> /\ LastFragment(n) = p.frag
      BY <2>1, <2>2 DEF LastFragment
    <2>4. p.type \in Starting \cup Continuing /\ p.type = frag[p.frag].type
      BY <1>5, <1>16 DEF Starting
    <2>5. Whole(n)
      BY <2>2, <2>3, <2>4, <1>16 DEF Whole
    <2>6. RecordAt(n) >= rd.init
      BY <2>1, <2>4, <1>13 DEF RecordAt
    <2>7. Seen(LastFragment(n))'
      <3>1. LastFragment(n)' = p.frag
        BY <2>3, <1>11
      <3>2. QED
        BY <3>1, <2>3, <2>4, <1>13 DEF Seen
    <2>8. OutWhole'
      BY <2>3, <2>4, <2>5, <2>6, <2>7, <1>6, <1>15, <1>16
    <2>9. ScratchWhole'
      BY <1>6, <1>16 DEF ScratchWhole
    <2>10. QED
      BY <1>1, <1>2, <1>3, <1>7, <1>8, <2>8, <2>9 DEF Sound, ReaderOK
  <1>17. CASE p.type = "first"
    <2>1. PICK n \in 1..Current : 1 \in 1..Len(recs[n].frags) /\ recs[n].frags[1] = p.frag
      BY <1>14, <1>17 DEF Starting
    <2>2. p.type \in Starting \cup Continuing /\ recs[n].frags \in Seq(Nat)
      BY <1>1, <1>17, WriterTypes DEF Starting
    <2>3. SubSeq(recs[n].frags, 1, 1) = <<p.frag>>
      <3> DEFINE fs == recs[n].frags
                 one == SubSeq(fs, 1, 1)
      <3>1. fs \in Seq(Nat) /\ fs[1] = p.frag /\ 1 \in 1..Len(fs) /\ p.frag \in Nat
        BY <1>5, <2>1, <2>2
      <3> HIDE DEF fs
      <3>2. one \in Seq(Nat) /\ Len(one) = 1 /\ one[1] = p.frag
        BY <3>1
      <3>3. one = <<p.frag>>
        BY <3>2, OneElement
      <3>4. QED
        BY <3>3 DEF fs
    <2>4. Together(n, 1)'
      <3>1. Seen(recs[n].frags[1])' /\ End(recs[n].frags[1])' = rd'.lo
        BY <2>1, <2>2, <1>13, <1>3 DEF Seen, End
      <3>2. RecordAt(n)' >= rd'.init
        BY <2>1, <2>2, <1>6, <1>11, <1>13 DEF RecordAt
      <3>3. frag'[recs'[n].frags[1]].type = "first"
        BY <2>1, <2>2, <1>3, <1>5, <1>17
      <3>4. QED
        BY <3>1, <3>2, <3>3, <2>3, <1>3, <1>6, <1>17 DEF Together, Ending
    <2>5. ScratchWhole'
      BY <2>1, <2>4, <1>3, <1>6, <1>17 DEF ScratchWhole, Current
    <2>6. OutWhole'
      BY <1>0, <1>6, <1>17
    <2>7. QED
      BY <1>1, <1>2, <1>3, <1>7, <1>8, <2>5, <2>6 DEF Sound, ReaderOK
  <1>18. CASE p.type \in Continuing /\ rd.inFragment
    <2>1. PICK n \in 1..Current : \E k \in 1..Len(recs[n].frags) : Together(n, k)
      BY <1>1, <1>18 DEF ScratchWhole
    <2>2. PICK k \in 1..Len(recs[n].frags) : Together(n, k)
      BY <2>1
    <2>3. AtReader(p.frag) /\ p.type = frag[p.frag].type /\ p.type \in Starting \cup Continuing
      BY <1>5, <1>18
    <2>4. Buffered >= HeaderSize
      BY <2>3, <1>1, AtReaderFacts
    <2>5. k + 1 \in 1..Len(recs[n].frags) /\ recs[n].frags[k + 1] = p.frag
      BY <2>2, <2>3, <2>4, <1>1, <1>18, NextOfScratch
    <2>6. recs[n].frags \in Seq(Nat) /\ Len(recs[n].frags) \in Nat
      BY <1>1, WriterTypes
    <2>7. Append(rd.scratch, p.frag) = SubSeq(recs[n].frags, 1, k + 1)
      BY <2>2, <2>5, <2>6 DEF Together
    <2>8. RecordAt(n) >= rd.init
      BY <2>2 DEF Together
    <2>9. CASE p.type = "middle"
      <3>1. Together(n, k + 1)'
        <4>1. Seen(recs[n].frags[k + 1])' /\ End(recs[n].frags[k + 1])' = rd'.lo
          BY <2>3, <2>5, <1>13, <1>3 DEF Seen, End
        <4>2. frag'[recs'[n].frags[k + 1]].type = "middle"
          BY <2>3, <2>5, <2>9, <1>3
        <4>3. QED
          BY <4>1, <4>2, <2>7, <2>8, <2>9, <1>3, <1>6, <1>11, <1>18 DEF Together, Ending
      <3>2. ScratchWhole'
        BY <3>1, <2>5, <2>9, <1>3, <1>6, <1>18 DEF ScratchWhole, Current
      <3>3. OutWhole'
        BY <1>0, <1>6, <1>18, <2>9
      <3>4. QED
        BY <1>1, <1>2, <1>3, <1>7, <1>8, <3>2, <3>3 DEF Sound, ReaderOK
    <2>10. CASE p.type = "last"
      <3>1. HasFragment(n, k + 1)
        BY <2>5, <1>1 DEF FragmentsOfRecords
      <3>2. k + 1 = Len(recs[n].frags)
        BY <3>1, <2>3, <2>5, <2>10 DEF HasFragment, Ending
      <3>3. Append(rd.scratch, p.frag) = recs[n].frags /\ LastFragment(n) = p.frag
        BY <3>2, <2>5, <2>6, <2>7 DEF LastFragment
      <3>4. Whole(n)
        BY <3>2, <3>3, <2>2, <2>3, <2>6, <2>10 DEF Whole
      <3>5. Seen(LastFragment(n))'
        <4>1. LastFragment(n)' = p.frag
          BY <3>3, <1>11
        <4>2. QED
          BY <4>1, <3>3, <2>3, <1>13 DEF Seen
      <3>6. OutWhole'
        BY <3>3, <3>4, <3>5, <2>3, <2>8, <2>10, <1>6, <1>15, <1>18
      <3>7. ScratchWhole'
        BY <1>6, <1>18, <2>10 DEF ScratchWhole
      <3>8. QED
        BY <1>1, <1>2, <1>3, <1>7, <1>8, <3>6, <3>7 DEF Sound, ReaderOK
    <2>11. QED
      BY <2>9, <2>10, <1>18 DEF Continuing
  <1>19. QED
    BY <1>5, <1>6, <1>12, <1>16, <1>17, <1>18 DEF Physical, Starting, Continuing

LEMMA NextSound == ASSUME LogAssumption, Sound, [LogNext]_logVars PROVE Sound'
  <1>1. ASSUME NEW size \in Sizes, StartRecord(size) PROVE Sound'
    BY <1>1, StartRecordSound
  <1>2. ASSUME EmitFragment PROVE Sound'
    <2>0. Padding(Trailer)
      BY TrailerPadding DEF Sound, WriterOK
    <2>1. WriterTypeOK /\ HeaderSize \in Nat /\ left \in Nat
      BY <1>2 DEF Sound, WriterOK, WriterTypeOK, LogAssumption, EmitFragment
    <2>2. phase = "write" /\ left >= 0 /\ Emit(Trailer, HeaderSize + FragmentLength, "ok")
          /\ fails' \in Nat
      BY <1>2, <2>1 DEF EmitFragment, WriterTypeOK
    <2>3. HeaderSize + FragmentLength \in 0..(HeaderSize + FragmentLength)
      <3>1. offset \in 0..BlockSize /\ BlockSize \in Nat /\ HeaderSize < BlockSize
        BY <2>1 DEF WriterTypeOK, LogAssumption
      <3>2. FragmentLength \in Nat
        BY <2>1, <3>1 DEF FragmentLength, Least, At, Switch, Leftover
      <3>3. QED
        BY <2>1, <3>2
    <2>4. QED
      BY <2>0, <2>2, <2>3, EmitSound
  <1>3. ASSUME EmitFails PROVE Sound'
    <2>1. PICK short \in 0..Len(Trailer) :
             \/ \E landed \in 0..(HeaderSize + FragmentLength) :
                   Emit(SubSeq(Trailer, 1, short), landed, "failed")
             \/ Emit(SubSeq(Trailer, 1, short), HeaderSize + FragmentLength, "ok")
      BY <1>3 DEF EmitFails
    <2> DEFINE padding == SubSeq(Trailer, 1, short)
    <2>0. Padding(padding)
      BY TrailerPadding DEF Sound, WriterOK
    <2> HIDE DEF padding
    <2>2. phase = "write" /\ left >= 0 /\ fails' \in Nat
      BY <1>3 DEF EmitFails, Sound, WriterOK, WriterTypeOK
    <2>3. CASE \E landed \in 0..(HeaderSize + FragmentLength) : Emit(padding, landed, "failed")
      BY <2>0, <2>2, <2>3, EmitSound
    <2>4. CASE Emit(padding, HeaderSize + FragmentLength, "ok")
      <3>1. HeaderSize + FragmentLength \in 0..(HeaderSize + FragmentLength)
        <4>1. /\ offset \in 0..BlockSize /\ BlockSize \in Nat /\ HeaderSize \in Nat
              /\ HeaderSize < BlockSize /\ left \in Nat
          BY <2>2 DEF Sound, WriterOK, WriterTypeOK, LogAssumption
        <4>2. FragmentLength \in Nat
          BY <4>1 DEF FragmentLength, Least, At, Switch, Leftover
        <4>3. QED
          BY <4>1, <4>2
      <3>2. QED
        BY <2>0, <2>2, <2>4, <3>1, EmitSound
    <2>5. QED
      BY <2>1, <2>3, <2>4 DEF padding
  <1>4. ASSUME Sync PROVE Sound'
    BY <1>4, SyncSound
  <1>5. ASSUME NEW kept \in 0..Len(file), NEW at \in Offsets, CrashAndRead(kept, at) PROVE Sound'
    BY <1>5, CrashSound
  <1>6. ASSUME NEW i \in 1..Len(file), Corrupt(i) PROVE Sound'
    BY <1>6, CorruptSound
  <1>7. ASSUME ReadBlock PROVE Sound'
    BY <1>7, ReadBlockSound
  <1>8. ASSUME ReadFragment PROVE Sound'
    BY <1>8, ReadFragmentSound
  <1>9. ASSUME Reopen PROVE Sound'
    BY <1>9, ReopenSound
  <1>10. ASSUME UNCHANGED logVars PROVE Sound'
    <2>1. UNCHANGED <<file, synced, frag, recs, offset, left, phase, rd, fails, corrupted, reopens>>
      BY <1>10 DEF logVars
    <2>2. WriterOK'
      <3>1. /\ WriterTypeOK /\ CellsInPlace /\ CellsInOrder /\ ContinuationApart
            /\ AddingApart /\ FragmentsOfRecords
        BY DEF Sound, WriterOK
      <3>2. WriterTypeOK'
        BY <2>1, <3>1 DEF WriterTypeOK
      <3>3. CellsInPlace'
        BY <2>1, <3>1 DEF CellsInPlace, Last
      <3>4. CellsInOrder'
        BY <2>1, <3>1 DEF CellsInOrder
      <3>5. ContinuationApart'
        BY <2>1, <3>1 DEF ContinuationApart
      <3>6. AddingApart'
        BY <2>1, <3>1 DEF AddingApart, Last, Current
      <3>7. FragmentsOfRecords'
        BY <2>1, <3>1 DEF FragmentsOfRecords, HasRecord, HasFragment, AddingLast, Last, Current
      <3>8. QED
        BY <3>2, <3>3, <3>4, <3>5, <3>6, <3>7 DEF WriterOK
    <2>3. ReaderTypeOK' /\ (OutWhole => OutWhole') /\ (ScratchWhole => ScratchWhole')
      <3>1. ReaderTypeOK'
        BY <2>1 DEF Sound, ReaderOK, ReaderTypeOK
      <3>2. OutWhole => OutWhole'
        BY <2>1 DEF OutWhole, Whole, LastFragment, Seen, End, RecordAt, Current
      <3>3. ScratchWhole => ScratchWhole'
        <4>1. ASSUME NEW n, NEW k PROVE Together(n, k)' <=> Together(n, k)
          BY <2>1 DEF Together, Buffered, Seen, End, RecordAt
        <4>2. QED
          BY <2>1, <4>1 DEF ScratchWhole, Current
      <3>4. QED
        BY <3>1, <3>2, <3>3
    <2>4. QED
      BY <2>1, <2>2, <2>3 DEF Sound, ReaderOK
  <1>11. ASSUME ReadFails PROVE Sound'
    BY <1>11, ReadFailsSound
  <1>12. QED
    BY <1>1, <1>2, <1>3, <1>4, <1>5, <1>6, <1>7, <1>8, <1>9, <1>10, <1>11 DEF LogNext, Finished

(* Whatever appends failed, what was torn, appended after a tear or changed on *)
(* the disk, and however often the log was read and reopened: what the reader *)
(* returns are records handed to AddRecord, whole, each once and in order.     *)
THEOREM LogReturnsOnlyWholeRecords ==
    ASSUME LogAssumption PROVE LogSpec => []OnlyWholeRecords
  <1>1. LogInit => Sound
    BY InitSound
  <1>2. Sound /\ [LogNext]_logVars => Sound'
    BY NextSound
  <1>3. Sound => OnlyWholeRecords
    <2> SUFFICES ASSUME Sound PROVE OnlyWholeRecords
      OBVIOUS
    <2>1. /\ WriterTypeOK /\ FragmentsOfRecords /\ ReaderTypeOK
          /\ phase = "write" => rd = NoReader
          /\ phase # "write" => OutWhole
      BY DEF Sound, WriterOK, ReaderOK
    <2>2. CASE phase = "write"
      <3>1. DOMAIN rd.out = {}
        BY <2>1, <2>2 DEF NoReader
      <3>2. QED
        BY <3>1 DEF OnlyWholeRecords
    <2>3. CASE phase # "write"
      <3>1. /\ DOMAIN rd.out = 1..Len(rd.out) /\ DOMAIN recs = 1..Current
        BY <2>1 DEF ReaderTypeOK, ReaderState, WriterTypeOK, Current
      <3>2. \A i \in DOMAIN rd.out : \E n \in DOMAIN recs : Whole(n) /\ rd.out[i] = recs[n].frags
        BY <2>1, <2>3, <3>1 DEF OutWhole
      <3>3. ASSUME NEW i \in DOMAIN rd.out, NEW j \in DOMAIN rd.out,
                   NEW n \in DOMAIN recs, NEW m \in DOMAIN recs,
                   i < j, rd.out[i] = recs[n].frags, rd.out[j] = recs[m].frags
            PROVE  n < m
        <4>1. \A k \in 1..Current : recs[k].frags # <<>> =>
                 /\ LastFragment(k) \in 1..Last /\ frag[LastFragment(k)].rec = k
          <5> SUFFICES ASSUME NEW k \in 1..Current, recs[k].frags # <<>>
                       PROVE  LastFragment(k) \in 1..Last /\ frag[LastFragment(k)].rec = k
            OBVIOUS
          <5>1. Len(recs[k].frags) \in 1..Len(recs[k].frags)
            BY <2>1, WriterTypes
          <5>2. QED
            BY <5>1, <2>1, NumberOfFragment DEF LastFragment
        <4>2. rd.out[i] # <<>> /\ rd.out[j] # <<>>
          BY <2>1, <2>3, <3>1 DEF OutWhole, Whole
        <4>3. LastFragment(n) < LastFragment(m)
          BY <2>1, <2>3, <3>1, <3>3 DEF OutWhole, LastFragment
        <4>4. n <= m
          BY <3>1, <3>3, <4>1, <4>2, <4>3, <2>1 DEF FragmentsOfRecords
        <4>5. n # m
          <5>1. LastFragment(m) \in Nat
            BY <3>1, <3>3, <4>1, <4>2, <2>1, WriterTypes
          <5>2. QED
            BY <5>1, <4>3
        <4>6. QED
          BY <4>4, <4>5, <3>1, <2>1, WriterTypes
      <3>4. QED
        BY <3>2, <3>3 DEF OnlyWholeRecords
    <2>4. QED
      BY <2>2, <2>3
  <1>4. QED
    BY <1>1, <1>2, <1>3, PTL DEF LogSpec

-----------------------------------------------------------------------------
(* Blocks                                                                    *)

LEMMA BlockBounds ==
    ASSUME LogAssumption, NEW x \in Int
    PROVE  /\ BlockOf(x) \in Int /\ BlockOf(x) <= x /\ x < BlockOf(x) + BlockSize
           /\ Aligned(BlockOf(x)) /\ BlockOf(x) = BlockSize * (x \div BlockSize)
           /\ x \div BlockSize \in Int
  <1> DEFINE q == x \div BlockSize
  <1>1. BlockSize \in Nat \ {0}
    BY DEF LogAssumption
  <1>2. q \in Int /\ x = BlockSize * q + (x % BlockSize) /\ x % BlockSize \in 0..(BlockSize - 1)
    BY <1>1
  <1>3. BlockOf(x) = BlockSize * q /\ BlockSize * q \in Int
    BY <1>1, <1>2 DEF BlockOf
  <1> HIDE DEF q
  <1>4. (BlockSize * q) % BlockSize = 0
    BY <1>1, <1>2
  <1>5. QED
    BY <1>1, <1>2, <1>3, <1>4 DEF Aligned, q

LEMMA AlignedMultiple ==
    ASSUME LogAssumption, NEW a \in Int, Aligned(a)
    PROVE  a = BlockSize * (a \div BlockSize) /\ a \div BlockSize \in Int
  <1>1. BlockSize \in Nat \ {0}
    BY DEF LogAssumption
  <1>2. QED
    BY <1>1 DEF Aligned

LEMMA AlignedApart ==
    ASSUME LogAssumption, NEW a \in Int, NEW b \in Int, Aligned(a), Aligned(b), a < b
    PROVE  a + BlockSize <= b
  <1> DEFINE q == a \div BlockSize
             r == b \div BlockSize
  <1>1. BlockSize \in Nat \ {0}
    BY DEF LogAssumption
  <1>2. a = BlockSize * q /\ b = BlockSize * r /\ q \in Int /\ r \in Int
    BY AlignedMultiple
  <1> HIDE DEF q, r
  <1>3. q < r
    <2>1. CASE r <= q
      <3>1. BlockSize * (q - r) >= 0
        BY <1>1, <1>2, <2>1
      <3>2. QED
        BY <1>1, <1>2, <3>1
    <2>2. QED
      BY <2>1, <1>2
  <1>4. BlockSize * (r - q - 1) >= 0
    BY <1>1, <1>2, <1>3
  <1>5. QED
    BY <1>1, <1>2, <1>4

LEMMA MultipleAligned ==
    ASSUME LogAssumption, NEW q \in Int PROVE Aligned(BlockSize * q)
  <1>1. BlockSize \in Nat \ {0}
    BY DEF LogAssumption
  <1>2. QED
    BY <1>1 DEF Aligned

LEMMA AlignedPlus ==
    ASSUME LogAssumption, NEW a \in Int, Aligned(a)
    PROVE  Aligned(a + BlockSize) /\ Aligned(a - BlockSize) /\ Aligned(0)
  <1> DEFINE q == a \div BlockSize
  <1>1. BlockSize \in Nat \ {0}
    BY DEF LogAssumption
  <1>2. a = BlockSize * q /\ q \in Int
    BY AlignedMultiple
  <1> HIDE DEF q
  <1>3. Aligned(BlockSize * (q + 1)) /\ Aligned(BlockSize * (q - 1)) /\ Aligned(BlockSize * 0)
    <2>1. q + 1 \in Int /\ q - 1 \in Int /\ 0 \in Int
      BY <1>2
    <2>2. QED
      BY <2>1, MultipleAligned
  <1>4. BlockSize * (q + 1) = a + BlockSize /\ BlockSize * (q - 1) = a - BlockSize
        /\ BlockSize * 0 = 0
    BY <1>1, <1>2
  <1>5. QED
    BY <1>3, <1>4

(* The block of what lies in the BlockSize bytes from a boundary on.         *)
LEMMA BlockFrom ==
    ASSUME LogAssumption, NEW a \in Int, NEW x \in Int, Aligned(a), a <= x, x < a + BlockSize
    PROVE  BlockOf(x) = a
  <1>1. BlockSize \in Nat \ {0}
    BY DEF LogAssumption
  <1>2. BlockOf(x) \in Int /\ BlockOf(x) <= x /\ x < BlockOf(x) + BlockSize /\ Aligned(BlockOf(x))
    BY BlockBounds
  <1>3. ~(BlockOf(x) < a)
    BY <1>1, <1>2, AlignedApart
  <1>4. ~(a < BlockOf(x))
    BY <1>1, <1>2, AlignedApart
  <1>5. QED
    BY <1>2, <1>3, <1>4

LEMMA BlockOrder ==
    ASSUME LogAssumption, NEW x \in Int, NEW y \in Int, x <= y
    PROVE  BlockOf(x) <= BlockOf(y)
  <1>1. BlockSize \in Nat \ {0}
    BY DEF LogAssumption
  <1>2. /\ BlockOf(x) \in Int /\ BlockOf(x) <= x /\ x < BlockOf(x) + BlockSize /\ Aligned(BlockOf(x))
        /\ BlockOf(y) \in Int /\ BlockOf(y) <= y /\ y < BlockOf(y) + BlockSize /\ Aligned(BlockOf(y))
    BY BlockBounds
  <1>3. CASE BlockOf(y) < BlockOf(x)
    <2>1. BlockOf(y) + BlockSize <= BlockOf(x)
      BY <1>2, <1>3, AlignedApart
    <2>2. QED
      BY <2>1, <1>1, <1>2
  <1>4. QED
    BY <1>2, <1>3

LEMMA SameBlock ==
    ASSUME LogAssumption, NEW x \in Int, NEW y \in Int
    PROVE  BlockOf(x) = BlockOf(y) <=> Block(x + 1) = Block(y + 1)
  <1> DEFINE q == x \div BlockSize
             r == y \div BlockSize
  <1>1. BlockSize \in Nat \ {0}
    BY DEF LogAssumption
  <1>2. /\ BlockOf(x) = BlockSize * q /\ q \in Int
        /\ BlockOf(y) = BlockSize * r /\ r \in Int
    BY BlockBounds
  <1>3. Block(x + 1) = q /\ Block(y + 1) = r
    <2>1. (x + 1) - 1 = x /\ (y + 1) - 1 = y
      OBVIOUS
    <2>2. QED
      BY <2>1 DEF Block
  <1> HIDE DEF q, r
  <1>4. BlockSize * q = BlockSize * r => q = r
    BY <1>1, <1>2
  <1>5. QED
    BY <1>2, <1>3, <1>4

-----------------------------------------------------------------------------
(* Nothing missed: the writer's steps                                        *)

(* What the invariants say of fragments, records and their ends.             *)
LEMMA Ends ==
    ASSUME LogAssumption, WriterTypeOK
    PROVE  /\ HeaderSize \in Nat \ {0} /\ BlockSize \in Nat \ {0} /\ HeaderSize < BlockSize
           /\ \A f \in 1..Last : /\ f \in Nat /\ frag[f].at \in Nat /\ End(f) \in Nat
                                 /\ frag[f].at + HeaderSize <= End(f)
                                 /\ End(f) = frag[f].at + HeaderSize + frag[f].len
  <1>1. HeaderSize \in Nat \ {0} /\ BlockSize \in Nat \ {0} /\ HeaderSize < BlockSize
    BY DEF LogAssumption
  <1>2. ASSUME NEW f \in 1..Last
        PROVE  /\ f \in Nat /\ frag[f].at \in Nat /\ End(f) \in Nat
               /\ frag[f].at + HeaderSize <= End(f)
               /\ End(f) = frag[f].at + HeaderSize + frag[f].len
    <2>1. f \in Nat /\ frag[f].at \in Nat /\ frag[f].len \in Nat
      BY WriterTypes
    <2>2. QED
      BY <2>1, <1>1 DEF End
  <1>3. QED
    BY <1>1, <1>2

LEMMA LastOfWhole ==
    ASSUME WriterTypeOK, FragmentsOfRecords, NEW n \in 1..Current, Whole(n)
    PROVE  /\ LastFragment(n) \in 1..Last /\ Len(recs[n].frags) \in 1..Len(recs[n].frags)
           /\ frag[LastFragment(n)].rec = n /\ 1 \in 1..Len(recs[n].frags)
           /\ recs[n].frags[1] \in 1..Last
           /\ \A k \in 1..Len(recs[n].frags) : recs[n].frags[k] <= LastFragment(n)
  <1>1. Len(recs[n].frags) \in 1..Len(recs[n].frags)
    BY WriterTypes DEF Whole
  <1>2. LastFragment(n) \in 1..Last /\ frag[LastFragment(n)].rec = n /\ 1 \in 1..Len(recs[n].frags)
        /\ recs[n].frags[1] \in Nat
        /\ LastFragment(n) = recs[n].frags[1] + Len(recs[n].frags) - 1
    BY <1>1, NumberOfFragment DEF LastFragment
  <1>3. recs[n].frags[1] \in 1..Last
    BY <1>2, NumberOfFragment
  <1>4. ASSUME NEW k \in 1..Len(recs[n].frags) PROVE recs[n].frags[k] <= LastFragment(n)
    <2>1. recs[n].frags[k] = recs[n].frags[1] + k - 1
      BY NumberOfFragment
    <2>2. QED
      BY <2>1, <1>1, <1>2
  <1>5. QED
    BY <1>1, <1>2, <1>3, <1>4

LEMMA EndsInOrder ==
    ASSUME LogAssumption, WriterTypeOK, Tiled, NEW f \in 1..Last, NEW g \in 1..Last, f <= g
    PROVE  End(f) <= End(g) /\ frag[f].at <= frag[g].at
  <1>1. CASE f = g
    BY <1>1, Ends
  <1>2. CASE f # g
    <2>1. f < g /\ End(f) <= frag[g].at
      BY <1>2, Ends DEF Tiled
    <2>2. QED
      BY <2>1, Ends
  <1>3. QED
    BY <1>1, <1>2

LEMMA InitComplete == ASSUME LogAssumption, LogInit PROVE Complete
  <1>1. /\ file = <<>> /\ frag = <<>> /\ recs = <<>> /\ offset = 0 /\ phase = "write"
    BY DEF LogInit
  <1>2. Last = 0 /\ Current = 0 /\ Len(file) = 0
    BY <1>1 DEF Last, Current
  <1>3. Aligned(0)
    BY DEF Aligned, LogAssumption
  <1>4. QED
    BY <1>1, <1>2, <1>3 DEF Complete, Tiled, Filled, Cut

LEMMA StartRecordComplete ==
    ASSUME LogAssumption, Sound, Complete, NEW size \in Sizes, StartRecord(size)
    PROVE  Complete'
  <1> DEFINE r == [frags |-> <<>>, status |-> "adding", synced |-> FALSE]
  <1>1. /\ WriterTypeOK /\ left = -1 /\ recs' = Append(recs, r) /\ phase = "write"
        /\ UNCHANGED <<file, synced, frag, offset, phase, rd, fails, corrupted, reopens>>
    BY DEF StartRecord, Sound, WriterOK, LogAssumption
  <1> SUFFICES ASSUME Steady' PROVE Tiled' /\ Filled' /\ Cut' /\ phase' = "write"
    BY DEF Complete
  <1>2. Tiled /\ Filled /\ Cut
    BY <1>1 DEF Complete, Steady
  <1>3. Tiled' /\ Filled'
    BY <1>1, <1>2 DEF Tiled, Filled, Last, End, Aligned, BlockOf
  <1>4. r \in Record /\ recs \in Seq(Record)
    BY <1>1 DEF Record, Statuses, WriterTypeOK
  <1>5. /\ Current' = Current + 1 /\ Current \in Nat
        /\ recs'[Current'] = r /\ \A n \in 1..Current : recs'[n] = recs[n]
    BY <1>1, <1>4 DEF Current
  <1>6. ASSUME NEW n \in 1..Current'
        PROVE  /\ recs'[n].status = "ok" <=> Whole(n)'
               /\ recs'[n].synced => recs'[n].status = "ok" /\ End(LastFragment(n))' <= synced'
    <2>1. CASE n \in 1..Current
      <3>1. /\ recs[n].status = "ok" <=> Whole(n)
            /\ recs[n].synced => recs[n].status = "ok" /\ End(LastFragment(n)) <= synced
        BY <1>2, <2>1 DEF Cut
      <3>2. Whole(n)' <=> Whole(n)
        BY <1>1, <1>5, <2>1 DEF Whole, LastFragment
      <3>3. End(LastFragment(n))' = End(LastFragment(n))
        BY <1>1, <1>5, <2>1 DEF LastFragment, End
      <3>4. QED
        BY <1>1, <1>5, <2>1, <3>1, <3>2, <3>3
    <2>2. CASE n = Current'
      BY <1>5, <2>2 DEF Whole
    <2>3. QED
      BY <2>1, <2>2, <1>5
  <1>7. /\ \A f \in 1..(Last' - 1) : frag'[f].type \in Ending <=> frag'[f + 1].type \in Starting
        /\ Last' > 0 => frag'[Last'].type \in Ending
    BY <1>1, <1>2 DEF Cut, Last
  <1>8. Cut'
    BY <1>6, <1>7 DEF Cut
  <1>9. QED
    BY <1>1, <1>3, <1>8

(* Where the writer puts the next fragment.                                  *)
LEMMA NextPlace ==
    ASSUME LogAssumption, WriterTypeOK, left >= 0, phase = "write", Tiled, Filled,
           NEW place, place = Len(file) + Len(Trailer)
    PROVE  /\ place \in Nat /\ place >= Len(file) /\ Aligned(place - At) /\ BlockOf(place) = place - At
           /\ Last = 0 => place = 0
           /\ Last > 0 => \/ place = End(Last)
                          \/ Aligned(place) /\ End(Last) < place /\ place < End(Last) + HeaderSize
  <1>1. /\ BlockSize \in Nat \ {0} /\ HeaderSize \in Nat \ {0} /\ HeaderSize < BlockSize
        /\ Len(file) \in Nat /\ offset \in 0..BlockSize
    BY WriterTypes DEF LogAssumption, WriterTypeOK
  <1>2. Len(file) = (IF Last = 0 THEN 0 ELSE End(Last)) /\ Aligned(Len(file) - offset)
        /\ (Last = 0 => offset = 0)
    BY DEF Filled
  <1>3. Len(Trailer) = IF Switch THEN Leftover ELSE 0
    <2>1. Leftover \in Nat
      BY <1>1 DEF Leftover
    <2>2. QED
      BY <2>1 DEF Trailer
  <1>4. CASE Switch
    <2>1. /\ place = Len(file) + (BlockSize - offset) /\ BlockSize - offset < HeaderSize /\ At = 0
          /\ place \in Nat /\ place >= Len(file) /\ BlockSize - offset \in Nat
      BY <1>1, <1>3, <1>4 DEF Switch, Leftover, At
    <2>2. Aligned(place)
      <3>1. (Len(file) - offset) + BlockSize = place /\ Len(file) - offset \in Int
        BY <1>1, <2>1
      <3>2. QED
        BY <3>1, <1>2, AlignedPlus
    <2>3. BlockOf(place) = place
      BY <1>1, <2>1, <2>2, BlockFrom
    <2>4. Last > 0 => place = End(Last)
                      \/ (Aligned(place) /\ End(Last) < place /\ place < End(Last) + HeaderSize)
      BY <1>1, <1>2, <2>1, <2>2
    <2>5. place - At = place /\ Last # 0
      BY <1>1, <1>2, <2>1
    <2>6. QED
      BY <2>1, <2>2, <2>3, <2>4, <2>5
  <1>5. CASE ~Switch
    <2>1. /\ place = Len(file) /\ At = offset /\ offset + HeaderSize <= BlockSize
          /\ place - At \in Int
      BY <1>1, <1>3, <1>5 DEF Switch, Leftover, At
    <2>2. BlockOf(place) = place - At
      <3>1. place - At <= place /\ place < (place - At) + BlockSize
        BY <1>1, <2>1
      <3>2. QED
        BY <3>1, <1>1, <1>2, <2>1, BlockFrom
    <2>3. QED
      BY <1>1, <1>2, <2>1, <2>2
  <1>6. QED
    BY <1>4, <1>5

LEMMA EmitComplete ==
    ASSUME LogAssumption, Sound, Complete, Steady, EmitFragment
    PROVE  Complete'
  <1> DEFINE place == Len(file) + Len(Trailer)
             n == FragmentLength
             landed == HeaderSize + n
  <1>1. /\ WriterTypeOK /\ FragmentsOfRecords /\ Tiled /\ Filled /\ Cut
        /\ phase = "write" /\ left >= 0 /\ Emit(Trailer, landed, "ok") /\ Padding(Trailer)
    BY TrailerPadding DEF EmitFragment, Sound, WriterOK, Complete, Steady
  <1>2. /\ Len(file) \in Nat /\ left \in Nat /\ HeaderSize \in Nat \ {0} /\ BlockSize \in Nat \ {0}
        /\ HeaderSize < BlockSize /\ offset \in 0..BlockSize
    BY <1>1, WriterTypes DEF WriterTypeOK, LogAssumption
  <1>3. /\ offset' = At + HeaderSize + n
        /\ left' = IF left = n THEN -1 ELSE left - n
        /\ file' = file \o Trailer \o SubSeq(Cells(Last + 1, n), 1, landed)
        /\ UNCHANGED <<synced, phase, rd, corrupted, reopens>>
    BY <1>1 DEF Emit, Last
  <1>4. landed \in 0..landed
    <2>1. n \in Nat
      BY <1>1, <1>2 DEF FragmentLength, Least, At, Switch, Leftover
    <2>2. QED
      BY <2>1, <1>2
  <1>5. /\ n \in 0..left /\ At + HeaderSize + n <= BlockSize /\ At \in 0..(BlockSize - HeaderSize)
        /\ Len(file') = place + landed
        /\ \A i \in 1..Len(file) : file'[i] = file[i]
        /\ \A i \in (place + 1)..Len(file') : file'[i] = <<Last + 1, i - place - 1>>
    BY <1>1, <1>3, <1>4, EmitFile
  <1>6. /\ Last' = Last + 1 /\ Last \in Nat
        /\ \A f \in 1..Last : frag'[f] = frag[f]
        /\ frag'[Last'] = [type |-> FragmentType, len |-> n, rec |-> Current, at |-> place]
        /\ Current' = Current /\ Current \in Nat /\ Current > 0
        /\ \A m \in 1..(Current - 1) : recs'[m] = recs[m]
        /\ recs'[Current].frags = Append(recs[Current].frags, Last')
        /\ recs'[Current].status = IF left = n THEN "ok" ELSE recs[Current].status
        /\ recs'[Current].synced = recs[Current].synced
    BY <1>1, <1>4, EmitRecords
  <1>7. /\ place \in Nat /\ place >= Len(file) /\ Aligned(place - At) /\ BlockOf(place) = place - At
        /\ Last = 0 => place = 0
        /\ Last > 0 => \/ place = End(Last)
                       \/ Aligned(place) /\ End(Last) < place /\ place < End(Last) + HeaderSize
    BY <1>1, NextPlace
  <1> HIDE DEF place, n, landed
  <1>8. /\ frag'[Last'].at = place /\ frag'[Last'].len = n /\ frag'[Last'].type = FragmentType
        /\ End(Last)' = place + HeaderSize + n /\ landed = HeaderSize + n /\ n \in Nat
        /\ landed \in Nat
    <2>1. frag'[Last'] = [type |-> FragmentType, len |-> n, rec |-> Current, at |-> place]
      BY <1>6
    <2>2. frag'[Last'].at = place /\ frag'[Last'].len = n /\ frag'[Last'].type = FragmentType
      BY <2>1
    <2>3. End(Last)' = place + HeaderSize + n
      BY <2>2 DEF End
    <2>4. n \in Nat /\ landed = HeaderSize + n
      BY <1>2, <1>5 DEF landed
    <2>5. QED
      BY <2>2, <2>3, <2>4, <1>2
  <1>9. \A f \in 1..Last : /\ frag'[f] = frag[f] /\ End(f)' = End(f) /\ f \in 1..Last' /\ f # Last'
    BY <1>6 DEF End
  <1>10. /\ 1..Last' = (1..Last) \cup {Last'} /\ 1..(Last' - 1) = 1..Last
         /\ \A f \in 1..Last : f = Last \/ (f \in 1..(Last - 1) /\ f + 1 \in 1..Last)
    BY <1>6
  <1>11. Len(file) = IF Last = 0 THEN 0 ELSE End(Last)
    BY <1>1 DEF Filled
  <1>12. \A f \in 1..Last : End(f) <= Len(file) /\ End(f) \in Nat /\ frag[f].at \in Nat
    <2> SUFFICES ASSUME NEW f \in 1..Last
                 PROVE  End(f) <= Len(file) /\ End(f) \in Nat /\ frag[f].at \in Nat
      OBVIOUS
    <2>1. Last \in 1..Last /\ f <= Last /\ Last # 0
      BY <1>6
    <2>2. End(f) <= End(Last)
      BY <2>1, <1>1, EndsInOrder
    <2>3. QED
      BY <2>1, <2>2, <1>1, <1>11, Ends
  <1>13. Tiled'
    <2>1. Last' > 0 => frag'[1].at = 0
      <3>1. CASE Last = 0
        BY <3>1, <1>6, <1>7, <1>8
      <3>2. CASE Last # 0
        <4>1. 1 \in 1..Last /\ Last > 0
          BY <3>2, <1>6
        <4>2. QED
          BY <4>1, <1>1, <1>9 DEF Tiled
      <3>3. QED
        BY <3>1, <3>2
    <2>2. ASSUME NEW f \in 1..Last' PROVE End(f)' <= BlockOf(frag'[f].at) + BlockSize
      <3>1. CASE f \in 1..Last
        BY <3>1, <1>1, <1>9 DEF Tiled
      <3>2. CASE f = Last'
        <4>1. BlockOf(frag'[f].at) = place - At
          BY <3>2, <1>7, <1>8
        <4>2. At + HeaderSize + n <= BlockSize /\ At \in Int /\ place \in Nat /\ n \in Nat
          BY <1>2, <1>5, <1>7, <1>8
        <4>3. End(f)' = place + HeaderSize + n
          BY <3>2, <1>8 DEF End
        <4>4. QED
          BY <4>1, <4>2, <4>3, <1>2
      <3>3. QED
        BY <3>1, <3>2, <1>10
    <2>3. ASSUME NEW f \in 1..(Last' - 1)
          PROVE  \/ frag'[f + 1].at = End(f)'
                 \/ /\ Aligned(frag'[f + 1].at)
                    /\ End(f)' < frag'[f + 1].at /\ frag'[f + 1].at < End(f)' + HeaderSize
      <3>1. CASE f = Last
        <4>1. frag'[f + 1].at = place /\ End(f)' = End(Last) /\ Last > 0
          BY <3>1, <1>6, <1>8, <1>9, <1>10
        <4>2. QED
          BY <4>1, <1>7
      <3>2. CASE f \in 1..(Last - 1) /\ f + 1 \in 1..Last
        <4>1. frag'[f + 1] = frag[f + 1] /\ End(f)' = End(f)
          BY <3>2, <1>9, <1>10
        <4>2. \/ frag[f + 1].at = End(f)
              \/ /\ Aligned(frag[f + 1].at)
                 /\ End(f) < frag[f + 1].at /\ frag[f + 1].at < End(f) + HeaderSize
          BY <3>2, <1>1 DEF Tiled
        <4>3. QED
          BY <4>1, <4>2
      <3>3. QED
        BY <3>1, <3>2, <1>10
    <2>4. ASSUME NEW f \in 1..Last', NEW g \in 1..Last', f < g PROVE End(f)' <= frag'[g].at
      <3>1. f \in 1..Last
        BY <2>4, <1>6
      <3>2. CASE g \in 1..Last
        BY <2>4, <3>1, <3>2, <1>1, <1>9 DEF Tiled
      <3>3. CASE g = Last'
        BY <3>1, <3>3, <1>2, <1>7, <1>8, <1>9, <1>12
      <3>4. QED
        BY <3>2, <3>3, <1>10
    <2>5. QED
      BY <2>1, <2>2, <2>3, <2>4, <1>8 DEF Tiled, Aligned, BlockOf
  <1>14. Filled'
    <2>0. Len(file') = place + HeaderSize + n /\ place \in Nat /\ n \in Nat /\ Last' > 0
          /\ At + HeaderSize + n <= BlockSize /\ At \in Int
      <3>1. Len(file') = place + landed /\ landed = HeaderSize + n /\ place \in Nat /\ n \in Nat
        BY <1>5, <1>7, <1>8
      <3>2. At + HeaderSize + n <= BlockSize /\ At \in Int /\ Last' > 0
        BY <1>2, <1>5, <1>6
      <3>3. QED
        BY <3>1, <3>2, <1>2
    <2>1. ASSUME NEW f \in 1..Last', NEW i \in (frag'[f].at + 1)..End(f)',
                 i <= Len(file'), i \notin corrupted'
          PROVE  file'[i] = <<f, i - frag'[f].at - 1>>
      <3>1. CASE f \in 1..Last
        <4>1. i \in (frag[f].at + 1)..End(f) /\ i \in 1..Len(file) /\ i <= Len(file)
          BY <3>1, <1>2, <1>9, <1>12
        <4>2. file[i] = <<f, i - frag[f].at - 1>>
          BY <2>1, <3>1, <4>1, <1>1, <1>3 DEF Filled
        <4>3. QED
          BY <3>1, <4>1, <4>2, <1>5, <1>9
      <3>2. CASE f = Last'
        <4>1. i \in (place + 1)..Len(file')
          BY <2>1, <3>2, <1>5, <1>7, <1>8
        <4>2. QED
          BY <3>2, <4>1, <1>5, <1>6, <1>8
      <3>3. QED
        BY <3>1, <3>2, <1>10
    <2>2. Len(file') = End(Last)' /\ Last' > 0
      BY <2>0, <1>8
    <2>3. Aligned(Len(file') - offset')
      <3>1. Len(file') - offset' = place - At
        BY <2>0, <1>2, <1>3
      <3>2. QED
        BY <3>1, <1>7
    <2>4. \A i \in 1..Len(file') : i <= End(Last)'
      BY <2>2, <1>7, <1>8
    <2>5. Aligned(Len(file) - offset)'
      BY <2>3 DEF Aligned
    <2>6. QED
      BY <2>1, <2>2, <2>4, <2>5 DEF Filled
  <1>15. Cut'
    <2> DEFINE old == recs[Current].frags
    <2>1. /\ FragmentType \in Starting <=> old = <<>>
          /\ FragmentType \in Ending <=> left = n
      BY DEF FragmentType, Starting, Ending, Current, n
    <2>2. /\ old # <<>> => frag[Last].type \notin Ending /\ old[Len(old)] = Last
          /\ old = <<>> /\ Last > 0 => frag[Last].type \in Ending
      BY <1>1, <1>6 DEF FragmentsOfRecords, AddingLast, Cut
    <2>3. old \in Seq(Nat) /\ Current \in 1..Current /\ Last' \in Nat
      BY <1>1, <1>6, WriterTypes
    <2>4. /\ recs'[Current].frags # <<>> /\ LastFragment(Current)' = Last'
      <3>1. recs'[Current].frags = Append(old, Last') /\ Current' = Current
        BY <1>6
      <3>2. Append(old, Last') # <<>> /\ Len(Append(old, Last')) = Len(old) + 1
            /\ Append(old, Last')[Len(old) + 1] = Last'
        BY SMTT(30), <2>3, AppendProperties
      <3>3. QED
        BY <3>1, <3>2 DEF LastFragment
    <2>5. ~Whole(Current)
      <3>1. CASE old = <<>>
        BY <3>1 DEF Whole
      <3>2. CASE old # <<>>
        <4>1. frag[Last].type \notin Ending /\ LastFragment(Current) = Last
          BY <2>2, <3>2 DEF LastFragment
        <4>2. QED
          BY <4>1 DEF Whole, Ending
      <3>3. QED
        BY <3>1, <3>2
    <2> HIDE DEF old
    <2>6. ASSUME NEW f \in 1..(Last' - 1)
          PROVE  frag'[f].type \in Ending <=> frag'[f + 1].type \in Starting
      <3>1. CASE f = Last
        <4>1. frag'[f + 1].type = FragmentType /\ frag'[f] = frag[Last] /\ Last > 0
          BY <3>1, <1>6, <1>8, <1>9, <1>10
        <4>2. QED
          BY <4>1, <2>1, <2>2
      <3>2. CASE f \in 1..(Last - 1) /\ f + 1 \in 1..Last
        BY <3>2, <1>1, <1>9, <1>10 DEF Cut
      <3>3. QED
        BY <3>1, <3>2, <1>10
    <2>7. (left' >= 0 => recs'[Current'].frags = <<>>) => frag'[Last'].type \in Ending
      <3>1. CASE left = n
        BY <3>1, <2>1, <1>8
      <3>2. CASE left # n
        <4>1. left' = left - n /\ n \in 0..left
          BY <3>2, <1>3, <1>5
        <4>2. recs'[Current'].frags # <<>>
          BY <2>4, <1>6
        <4>3. QED
          BY <4>1, <4>2, <1>2
      <3>3. QED
        BY <3>1, <3>2
    <2>8. ASSUME NEW m \in 1..Current'
          PROVE  /\ recs'[m].status = "ok" <=> Whole(m)'
                 /\ recs'[m].synced => recs'[m].status = "ok" /\ End(LastFragment(m))' <= synced'
      <3>1. /\ recs[m].status = "ok" <=> Whole(m)
            /\ recs[m].synced => recs[m].status = "ok" /\ End(LastFragment(m)) <= synced
        BY <1>1, <1>6 DEF Cut
      <3>2. CASE m = Current
        <4>1. ~recs[Current].synced /\ recs[Current].status # "ok"
          BY <3>1, <3>2, <2>5
        <4>2. Whole(m)' <=> left = n
          <5>1. recs'[m].frags # <<>> /\ recs'[m].frags[Len(recs'[m].frags)] = Last'
            BY <3>2, <2>4, <1>6 DEF LastFragment
          <5>2. Whole(m)' <=> frag'[Last'].type \in Ending
            BY <5>1 DEF Whole, Ending, LastFragment
          <5>3. QED
            BY <5>2, <2>1, <1>8
        <4>3. QED
          BY <3>2, <4>1, <4>2, <1>6
      <3>3. CASE m # Current
        <4>1. m \in 1..(Current - 1) /\ recs'[m] = recs[m] /\ m \in 1..Current
          BY <3>3, <1>6
        <4>2. LastFragment(m)' = LastFragment(m)
          BY <4>1 DEF LastFragment
        <4>3. recs[m].frags # <<>> => LastFragment(m) \in 1..Last
          <5>1. recs[m].frags # <<>> => Len(recs[m].frags) \in 1..Len(recs[m].frags)
            BY <4>1, <1>1, WriterTypes
          <5>2. QED
            BY <5>1, <4>1, <1>1, NumberOfFragment DEF LastFragment
        <4>4. Whole(m)' <=> Whole(m)
          <5>1. CASE recs[m].frags = <<>>
            BY <5>1, <4>1 DEF Whole
          <5>2. CASE recs[m].frags # <<>>
            <6>1. frag'[LastFragment(m)] = frag[LastFragment(m)]
              BY <5>2, <4>3, <1>9
            <6>2. QED
              BY <6>1, <4>1, <4>2 DEF Whole
          <5>3. QED
            BY <5>1, <5>2
        <4>5. Whole(m) => End(LastFragment(m))' = End(LastFragment(m))
          BY <4>2, <4>3, <1>9 DEF Whole, End
        <4>6. QED
          BY <3>1, <4>1, <4>4, <4>5, <1>3
      <3>4. QED
        BY <3>2, <3>3
    <2>9. QED
      BY <2>6, <2>7, <2>8 DEF Cut
  <1>16. QED
    BY <1>1, <1>3, <1>13, <1>14, <1>15 DEF Complete

LEMMA SyncComplete ==
    ASSUME LogAssumption, Sound, Complete, Sync
    PROVE  Complete'
  <1> DEFINE r(n) == [recs[n] EXCEPT !.synced = recs[n].status = "ok"]
  <1>1. /\ synced' = Len(file) /\ recs' = [n \in DOMAIN recs |-> r(n)]
        /\ UNCHANGED <<file, frag, offset, left, phase, rd, fails, corrupted, reopens>>
        /\ phase = "write" /\ left = -1 /\ WriterTypeOK /\ FragmentsOfRecords
    BY DEF Sync, Sound, WriterOK
  <1> SUFFICES ASSUME Steady PROVE Tiled' /\ Filled' /\ Cut'
    BY <1>1 DEF Complete, Steady
  <1>2. Tiled /\ Filled /\ Cut
    BY DEF Complete
  <1>3. DOMAIN recs = 1..Current /\ \A n \in 1..Current : recs[n] \in Record
    BY <1>1, WriterTypes DEF WriterTypeOK, Current
  <1>4. \A n \in 1..Current : /\ r(n).frags = recs[n].frags /\ r(n).status = recs[n].status
                              /\ r(n).synced <=> recs[n].status = "ok"
    BY <1>3 DEF Record
  <1> HIDE DEF r
  <1>5. /\ Current' = Current
        /\ \A n \in 1..Current : /\ recs'[n].frags = recs[n].frags
                                 /\ recs'[n].status = recs[n].status
                                 /\ recs'[n].synced <=> recs[n].status = "ok"
    BY <1>1, <1>3, <1>4, WriterTypes DEF Current
  <1>6. Tiled' /\ Filled'
    BY <1>1, <1>2 DEF Tiled, Filled, Last, End, Aligned, BlockOf
  <1>7. ASSUME NEW n \in 1..Current'
        PROVE  /\ recs'[n].status = "ok" <=> Whole(n)'
               /\ recs'[n].synced => recs'[n].status = "ok" /\ End(LastFragment(n))' <= synced'
    <2>1. recs[n].status = "ok" <=> Whole(n)
      BY <1>2, <1>5 DEF Cut
    <2>2. LastFragment(n)' = LastFragment(n) /\ (Whole(n)' <=> Whole(n))
          /\ End(LastFragment(n))' = End(LastFragment(n))
      BY <1>1, <1>5 DEF LastFragment, Whole, End
    <2>3. ASSUME Whole(n) PROVE End(LastFragment(n)) <= Len(file)
      <3>1. LastFragment(n) \in 1..Last /\ Last \in Nat
        BY <2>3, <1>1, <1>5, LastOfWhole, WriterTypes
      <3>2. Last \in 1..Last /\ LastFragment(n) <= Last /\ Last # 0
        BY <3>1
      <3>3. End(LastFragment(n)) <= End(Last)
        BY <3>1, <3>2, <1>1, <1>2, EndsInOrder
      <3>4. QED
        BY <3>2, <3>3, <1>1, <1>2 DEF Filled
    <2>4. /\ recs'[n].status = recs[n].status
          /\ recs'[n].synced <=> recs[n].status = "ok"
      BY <1>5
    <2>5. recs'[n].status = "ok" <=> Whole(n)'
      BY <2>1, <2>2, <2>4
    <2>6. recs'[n].synced => recs'[n].status = "ok" /\ End(LastFragment(n))' <= synced'
      BY <2>1, <2>2, <2>3, <2>4, <1>1
    <2>7. QED
      BY <2>5, <2>6
  <1>8. \A f \in 1..(Last' - 1) : frag'[f].type \in Ending <=> frag'[f + 1].type \in Starting
    BY <1>1, <1>2 DEF Cut, Last
  <1>9. Last' > 0 => frag'[Last'].type \in Ending
    BY <1>1, <1>2 DEF Cut, Last
  <1>10. Cut'
    BY <1>7, <1>8, <1>9 DEF Cut
  <1>11. QED
    BY <1>6, <1>10

LEMMA CorruptComplete ==
    ASSUME LogAssumption, Sound, Complete, NEW i \in 1..Len(file), Corrupt(i)
    PROVE  Complete'
  <1>1. /\ file' = [file EXCEPT ![i] = Junk] /\ corrupted' = corrupted \cup {i}
        /\ UNCHANGED <<synced, frag, recs, offset, left, phase, rd, fails, reopens>>
        /\ phase = "write" /\ WriterTypeOK
    BY DEF Corrupt, Sound, WriterOK
  <1> SUFFICES ASSUME Steady PROVE Tiled' /\ Filled' /\ Cut'
    BY <1>1 DEF Complete, Steady
  <1>2. Tiled /\ Filled /\ Cut
    BY DEF Complete
  <1>3. /\ Len(file') = Len(file) /\ \A j \in 1..Len(file) : j # i => file'[j] = file[j]
    BY <1>1 DEF WriterTypeOK, Junk
  <1>4. Tiled' /\ Cut'
    BY <1>1, <1>2 DEF Tiled, Cut, Last, End, Aligned, BlockOf, Whole, LastFragment, Current
  <1>5. /\ Last' = Last /\ (\A f \in 1..Last : End(f)' = End(f) /\ frag'[f] = frag[f])
        /\ Last \in Nat
    BY <1>1, WriterTypes DEF Last, End
  <1>6. ASSUME NEW f \in 1..Last', NEW j \in (frag'[f].at + 1)..End(f)',
               j <= Len(file'), j \notin corrupted'
        PROVE  file'[j] = <<f, j - frag'[f].at - 1>>
    <2>1. f \in 1..Last /\ j \in (frag[f].at + 1)..End(f) /\ j <= Len(file) /\ j \notin corrupted /\ j # i
      BY <1>1, <1>3, <1>5, <1>6
    <2>2. file[j] = <<f, j - frag[f].at - 1>>
      BY <2>1, <1>2 DEF Filled
    <2>3. j \in 1..Len(file)
      BY SMTT(30), <2>1, <1>1, Ends, WriterTypes
    <2>4. QED
      BY <2>1, <2>2, <2>3, <1>3, <1>5
  <1>7. Last > 0 => Last \in 1..Last
    BY <1>5
  <1>8. Filled'
    BY <1>1, <1>2, <1>3, <1>5, <1>6, <1>7 DEF Filled, Aligned
  <1>9. QED
    BY <1>4, <1>8

-----------------------------------------------------------------------------
(* Nothing missed: the reader                                                *)

(* A block boundary is between two fragments.                                *)
LEMMA AlignedIsCut ==
    ASSUME LogAssumption, WriterTypeOK, Tiled, NEW a \in Int, Aligned(a), NEW f \in 1..Last
    PROVE  a <= frag[f].at \/ End(f) <= a
  <1>1. /\ frag[f].at \in Nat /\ End(f) \in Nat /\ BlockSize \in Nat
        /\ End(f) <= BlockOf(frag[f].at) + BlockSize
    BY Ends DEF Tiled
  <1>2. CASE frag[f].at < a
    <2>1. /\ BlockOf(frag[f].at) \in Int /\ BlockOf(frag[f].at) <= frag[f].at
          /\ Aligned(BlockOf(frag[f].at))
      <3>1. frag[f].at \in Int
        BY <1>1
      <3>2. QED
        BY <3>1, BlockBounds
    <2>2. BlockOf(frag[f].at) + BlockSize <= a
      BY <1>1, <1>2, <2>1, AlignedApart
    <2>3. QED
      BY <1>1, <2>1, <2>2
  <1>3. QED
    BY <1>1, <1>2

(* The reader starts at a boundary with no fragment between it and its        *)
(* initial offset's first.                                                    *)
LEMMA BlockStartCut ==
    ASSUME LogAssumption, WriterTypeOK, Tiled, NEW at \in Nat
    PROVE  /\ BlockStart(at) \in Int /\ Aligned(BlockStart(at))
           /\ \A f \in 1..Last : frag[f].at >= at => BlockStart(at) <= frag[f].at
  <1>1. BlockSize \in Nat \ {0} /\ HeaderSize \in Nat \ {0}
    BY DEF LogAssumption
  <1>2. /\ BlockOf(at) \in Int /\ BlockOf(at) <= at /\ at < BlockOf(at) + BlockSize
        /\ Aligned(BlockOf(at))
    BY BlockBounds
  <1>3. \/ BlockStart(at) = BlockOf(at)
        \/ /\ BlockStart(at) = BlockOf(at) + BlockSize
           /\ at - BlockOf(at) > BlockSize - (HeaderSize - 1)
    <2>1. at % BlockSize \in Nat /\ at % BlockSize = at - BlockOf(at)
      BY <1>1 DEF BlockOf
    <2>2. QED
      BY <2>1, <1>1 DEF BlockStart, BlockOf
  <1>4. CASE BlockStart(at) = BlockOf(at)
    <2>1. \A f \in 1..Last : frag[f].at >= at => BlockStart(at) <= frag[f].at
      BY <1>2, <1>4, Ends
    <2>2. QED
      BY <1>2, <1>4, <2>1
  <1>5. CASE BlockStart(at) = BlockOf(at) + BlockSize /\ at - BlockOf(at) > BlockSize - (HeaderSize - 1)
    <2>1. BlockStart(at) \in Int /\ Aligned(BlockStart(at))
      BY <1>1, <1>2, <1>5, AlignedPlus
    <2>2. ASSUME NEW f \in 1..Last, frag[f].at >= at, frag[f].at < BlockStart(at)
          PROVE  FALSE
      <3>1. /\ frag[f].at \in Nat /\ End(f) \in Nat /\ frag[f].at + HeaderSize <= End(f)
            /\ End(f) <= BlockOf(frag[f].at) + BlockSize
        BY Ends DEF Tiled
      <3>2. BlockOf(at) <= frag[f].at /\ frag[f].at < BlockOf(at) + BlockSize
        BY <1>2, <1>5, <2>2, <3>1
      <3>3. BlockOf(frag[f].at) = BlockOf(at)
        BY <1>2, <3>1, <3>2, BlockFrom
      <3>4. QED
        BY <1>1, <1>2, <1>5, <2>2, <3>1, <3>3
    <2>3. \A f \in 1..Last : frag[f].at >= at => BlockStart(at) <= frag[f].at
      BY <2>1, <2>2, Ends
    <2>4. QED
      BY <2>1, <2>3
  <1>6. QED
    BY <1>3, <1>4, <1>5

LEMMA FirstStarts ==
    ASSUME WriterTypeOK, FragmentsOfRecords, Last > 0
    PROVE  frag[1].type \in Starting
  <1>1. 1 \in 1..Last
    BY WriterTypes
  <1>2. HasRecord(1)
    BY <1>1 DEF FragmentsOfRecords
  <1> DEFINE n == frag[1].rec
  <1>3. n \in 1..Current
    BY <1>2 DEF HasRecord
  <1>4. PICK k \in 1..Len(recs[n].frags) : recs[n].frags[k] = 1
    BY <1>2 DEF HasRecord
  <1>5. HasFragment(n, k)
    BY <1>3 DEF FragmentsOfRecords
  <1>6. /\ 1 \in 1..Len(recs[n].frags) /\ recs[n].frags[1] \in Nat
        /\ recs[n].frags[k] = recs[n].frags[1] + k - 1 /\ k \in Nat
    BY <1>3, NumberOfFragment
  <1>7. recs[n].frags[1] \in 1..Last
    BY <1>3, <1>6, NumberOfFragment
  <1>8. k = 1
    BY <1>4, <1>6, <1>7
  <1>9. QED
    BY <1>4, <1>5, <1>8 DEF HasFragment

LEMMA CrashComplete ==
    ASSUME LogAssumption, Sound, Complete, NEW kept, NEW at \in Offsets, CrashAndRead(kept, at)
    PROVE  Complete'
  <1>1. /\ kept \in synced..Len(file) /\ file' = SubSeq(file, 1, kept) /\ phase' = "read"
        /\ UNCHANGED <<synced, frag, recs, offset, fails, corrupted, reopens>>
        /\ WriterTypeOK /\ FragmentsOfRecords
    BY DEF CrashAndRead, Sound, WriterOK
  <1>2. /\ rd'.init = at /\ rd'.lo = IF at > 0 THEN BlockStart(at) ELSE 0
        /\ rd'.hi = rd'.lo /\ rd'.eof = FALSE /\ rd'.dropped = FALSE
    BY CrashSound
  <1> SUFFICES ASSUME Steady
               PROVE  Tiled' /\ Filled' /\ Cut' /\ Framed' /\ AtCut' /\ NothingMissed'
                      /\ NothingDropped'
    BY <1>1 DEF Complete, Steady
  <1>3. Tiled /\ Filled /\ Cut
    BY DEF Complete
  <1>4. /\ Len(file) \in Nat /\ synced \in 0..Len(file) /\ kept \in 0..Len(file)
        /\ file \in Seq(Int \X Int)
    BY <1>1 DEF WriterTypeOK
  <1>5. /\ file' \in Seq(Int \X Int) /\ Len(file') = kept
        /\ \A i \in 1..kept : file'[i] = file[i]
    BY <1>1, <1>4
  <1>6. Tiled' /\ Cut'
    BY <1>1, <1>3 DEF Tiled, Cut, Last, End, Aligned, BlockOf, Whole, LastFragment, Current
  <1>7. /\ Last' = Last /\ (\A f \in 1..Last : End(f)' = End(f) /\ frag'[f] = frag[f])
        /\ Last \in Nat
    BY <1>1, WriterTypes DEF Last, End
  <1>8. Filled'
    <2>1. ASSUME NEW f \in 1..Last', NEW j \in (frag'[f].at + 1)..End(f)',
                 j <= Len(file'), j \notin corrupted'
          PROVE  file'[j] = <<f, j - frag'[f].at - 1>>
      <3>1. f \in 1..Last /\ j \in (frag[f].at + 1)..End(f) /\ j <= kept /\ j \notin corrupted
        BY <1>1, <1>5, <1>7, <2>1
      <3>2. j \in 1..kept /\ j <= Len(file)
        <4>1. frag[f].at \in Nat /\ End(f) \in Nat
          BY <3>1, <1>1, Ends
        <4>2. j \in Nat /\ j >= 1
          BY <3>1, <4>1
        <4>3. QED
          BY <3>1, <4>2, <1>4
      <3>3. file[j] = <<f, j - frag[f].at - 1>>
        BY <3>1, <3>2, <1>3 DEF Filled
      <3>4. QED
        BY <3>1, <3>2, <3>3, <1>5, <1>7
    <2>2. ASSUME NEW i \in 1..Len(file') PROVE Last' > 0 /\ i <= End(Last)'
      <3>1. i \in 1..Len(file)
        BY <1>4, <1>5
      <3>2. Last > 0 /\ i <= End(Last)
        BY <3>1, <1>3 DEF Filled
      <3>3. End(Last)' = End(Last)
        BY <1>1 DEF End, Last
      <3>4. QED
        BY <3>2, <3>3, <1>7
    <2>3. Last' = 0 => offset' = 0
      BY <1>1, <1>3, <1>7 DEF Filled
    <2>4. phase' # "write"
      BY <1>1
    <2>5. QED
      BY <2>1, <2>2, <2>3, <2>4 DEF Filled
  <1>9. at \in Nat
    BY DEF LogAssumption
  <1>10. /\ rd'.lo \in Int /\ Aligned(rd'.lo)
         /\ \A f \in 1..Last : frag[f].at >= at => rd'.lo <= frag[f].at
    <2>1. CASE at > 0
      BY <2>1, <1>1, <1>2, <1>3, <1>9, BlockStartCut
    <2>2. CASE ~(at > 0)
      <3>1. Aligned(0)
        BY AlignedPlus DEF Aligned, LogAssumption
      <3>2. QED
        BY <2>2, <3>1, <1>1, <1>2, Ends
    <2>3. QED
      BY <2>1, <2>2
  <1>11. Framed'
    <2>1. Aligned(rd.hi)' /\ rd'.hi <= rd'.lo + BlockSize
      BY <1>2, <1>10 DEF Aligned, LogAssumption
    <2>2. QED
      BY <1>2, <2>1 DEF Framed
  <1>12. AtCut'
    <2>1. \A f \in 1..Last : rd'.lo <= frag[f].at \/ End(f) <= rd'.lo
      BY <1>1, <1>3, <1>10, AlignedIsCut
    <2>2. \A f \in 1..Last' : rd'.lo <= frag'[f].at \/ End(f)' <= rd'.lo
      BY <2>1, <1>7
    <2>3. QED
      BY <2>2 DEF AtCut
  <1>13. ASSUME NEW n \in 1..Current', Due(n)' PROVE Ahead(n)'
    <2>1. n \in 1..Current /\ recs[n].status = "ok" /\ frag[recs[n].frags[1]].at >= at
      BY <1>1, <1>2, <1>13 DEF Due, RecordAt, Current
    <2>2. Whole(n)
      BY <2>1, <1>3 DEF Cut
    <2>3. recs[n].frags[1] \in 1..Last /\ Len(recs[n].frags) \in 1..Len(recs[n].frags)
      BY <2>1, <2>2, <1>1, LastOfWhole
    <2>4. rd'.lo <= frag[recs[n].frags[1]].at
      BY <2>1, <2>3, <1>10
    <2>5. 0 \in 0..(Len(recs'[n].frags) - 1) /\ rd'.lo <= frag'[recs'[n].frags[0 + 1]].at
          /\ ~(0 > 0)
      BY <2>3, <2>4, <1>1
    <2>6. QED
      BY <2>5 DEF Ahead
  <1>14. NothingMissed'
    BY <1>1, <1>13 DEF NothingMissed
  <1>15. NothingDropped'
    <2> SUFFICES ASSUME rd'.init = 0, NEW g \in 1..Last', g = 1 \/ End(g - 1)' <= rd'.lo
                 PROVE  frag'[g].type \in Starting
      BY <1>2 DEF NothingDropped
    <2>1. rd'.lo = 0
      BY <1>2
    <2>2. g = 1
      <3>1. CASE g # 1
        <4>1. g - 1 \in 1..Last
          BY <3>1, <1>7
        <4>2. End(g - 1)' = End(g - 1) /\ End(g - 1) \in Nat /\ End(g - 1) > 0
          BY SMTT(30), <4>1, <1>1, <1>7, Ends
        <4>3. QED
          BY <3>1, <4>2, <2>1
      <3>2. QED
        BY <3>1
    <2>3. QED
      BY <2>2, <1>1, <1>7, FirstStarts
  <1>16. QED
    BY <1>6, <1>8, <1>11, <1>12, <1>14, <1>15

LEMMA ReopenComplete == ASSUME Sound, Reopen PROVE Complete'
  <1>1. reopens \in Nat /\ reopens' = reopens + 1
    BY DEF Sound, WriterOK, WriterTypeOK, Reopen
  <1>2. QED
    BY <1>1 DEF Complete, Steady

LEMMA EmitFailsComplete == ASSUME Sound, EmitFails PROVE Complete'
  <1>1. fails \in Nat /\ fails' = fails + 1
    BY DEF Sound, WriterOK, WriterTypeOK, EmitFails
  <1>2. QED
    BY <1>1 DEF Complete, Steady

(* What reading leaves as it was.                                            *)
LEMMA ReadingKeeps ==
    ASSUME Complete, Steady, UNCHANGED <<file, writer>>, phase \in {"read", "done"},
           phase' \in {"read", "done"}
    PROVE  /\ Steady' /\ Tiled' /\ Filled' /\ Cut'
           /\ Last' = Last /\ Current' = Current /\ frag' = frag /\ recs' = recs
           /\ file' = file /\ corrupted' = corrupted
           /\ \A f : End(f)' = End(f)
           /\ \A n : LastFragment(n)' = LastFragment(n) /\ RecordAt(n)' = RecordAt(n)
  <1>1. /\ file' = file /\ synced' = synced /\ frag' = frag /\ recs' = recs /\ offset' = offset
        /\ left' = left /\ fails' = fails /\ corrupted' = corrupted /\ reopens' = reopens
    BY DEF writer
  <1>2. Tiled /\ Filled /\ Cut
    BY DEF Complete
  <1>3. Steady' /\ Last' = Last /\ Current' = Current
    BY <1>1 DEF Steady, Last, Current
  <1>4. Tiled'
    BY <1>1, <1>2 DEF Tiled, Last, End, Aligned, BlockOf
  <1>5. phase # "write" /\ phase' # "write"
    OBVIOUS
  <1>6. Filled'
    BY <1>1, <1>2, <1>5 DEF Filled, Last, End
  <1>7. Cut'
    BY <1>1, <1>2, <1>5 DEF Cut, Last, End, Current, Whole, LastFragment
  <1>8. \A f : End(f)' = End(f)
    BY <1>1 DEF End
  <1>9. \A n : LastFragment(n)' = LastFragment(n) /\ RecordAt(n)' = RecordAt(n)
    BY <1>1 DEF LastFragment, RecordAt
  <1>10. QED
    BY <1>1, <1>3, <1>4, <1>6, <1>7, <1>8, <1>9

(* Where no header is left before a boundary no fragment begins.             *)
LEMMA NoFragmentInTail ==
    ASSUME LogAssumption, WriterTypeOK, Tiled, NEW lo \in Int, NEW hi \in Int, Aligned(hi),
           hi < lo + HeaderSize, NEW g \in 1..Last, lo <= frag[g].at
    PROVE  hi <= frag[g].at
  <1>1. /\ frag[g].at \in Nat /\ End(g) \in Nat /\ frag[g].at + HeaderSize <= End(g)
        /\ HeaderSize \in Nat
    BY Ends
  <1>2. hi <= frag[g].at \/ End(g) <= hi
    BY AlignedIsCut
  <1>3. QED
    BY <1>1, <1>2

LEMMA ReadBlockComplete ==
    ASSUME LogAssumption, Sound, Complete, ReadBlock
    PROVE  Complete'
  <1> DEFINE from == rd.eob
             got == IF from >= Len(file) THEN 0 ELSE Least(BlockSize, Len(file) - from)
  <1> SUFFICES ASSUME Steady' PROVE Complete'
    BY DEF Complete
  <1>1. /\ phase = "read" /\ phase' = "read" /\ UNCHANGED <<file, writer>> /\ ~rd.eof
        /\ Buffered < HeaderSize
        /\ rd' = [rd EXCEPT !.lo = from, !.hi = from + got, !.eob = from + got,
                            !.eof = got < BlockSize]
        /\ WriterTypeOK /\ FragmentsOfRecords /\ ReaderTypeOK
    BY DEF ReadBlock, Sound, WriterOK, ReaderOK
  <1>2. Steady /\ Tiled /\ Framed /\ AtCut /\ NothingMissed /\ NothingDropped
    BY <1>1 DEF Complete, Steady, writer
  <1>3. /\ Tiled' /\ Filled' /\ Cut' /\ Last' = Last /\ Current' = Current
        /\ frag' = frag /\ recs' = recs /\ file' = file /\ corrupted' = corrupted
        /\ \A f : End(f)' = End(f)
        /\ \A n : LastFragment(n)' = LastFragment(n) /\ RecordAt(n)' = RecordAt(n)
    BY <1>1, <1>2, ReadingKeeps
  <1>4. /\ rd \in ReaderState /\ rd.lo \in Nat /\ rd.hi \in Nat /\ from = rd.hi
        /\ rd.lo <= rd.hi
        /\ Len(file) \in Nat /\ BlockSize \in Nat \ {0} /\ HeaderSize \in Nat \ {0}
    BY <1>1, WriterTypes DEF ReaderTypeOK, ReaderState, LogAssumption
  <1>5. rd.hi < rd.lo + HeaderSize /\ Aligned(from) /\ from \in Nat
    BY <1>1, <1>2, <1>4 DEF Buffered, Framed
  <1>6. got \in 0..BlockSize /\ (got < BlockSize => from + got >= Len(file))
    BY <1>4 DEF Least
  <1> HIDE DEF from, got
  <1>7. /\ rd'.lo = from /\ rd'.hi = from + got /\ rd'.eof = (got < BlockSize)
        /\ rd'.init = rd.init /\ rd'.out = rd.out /\ rd'.inFragment = rd.inFragment
        /\ rd'.scratch = rd.scratch /\ rd'.dropped = rd.dropped
    BY <1>1, <1>4 DEF ReaderState
  <1>8. Framed'
    <2>1. BlockOf(from) = from
      BY <1>4, <1>5, BlockFrom
    <2>2. CASE got < BlockSize
      <3>1. rd'.hi >= Len(file') /\ BlockOf(rd.lo)' = from
        BY <2>1, <2>2, <1>3, <1>6, <1>7 DEF BlockOf
      <3>2. rd'.hi < from + BlockSize
        BY <2>2, <1>4, <1>5, <1>6, <1>7
      <3>3. QED
        BY <2>2, <3>1, <3>2, <1>7 DEF Framed
    <2>3. CASE ~(got < BlockSize)
      <3>1. got = BlockSize
        BY <2>3, <1>4, <1>6
      <3>2. Aligned(from + BlockSize)
        BY <1>5, AlignedPlus
      <3>3. Aligned(rd.hi)' /\ rd'.hi <= rd'.lo + BlockSize
        BY <3>1, <3>2, <1>4, <1>5, <1>7 DEF Aligned
      <3>4. QED
        BY <2>3, <3>3, <1>7 DEF Framed
    <2>4. QED
      BY <2>2, <2>3
  <1>9. AtCut'
    <2>1. \A f \in 1..Last : from <= frag[f].at \/ End(f) <= from
      BY <1>1, <1>2, <1>5, AlignedIsCut
    <2>2. \A f \in 1..Last' : rd'.lo <= frag'[f].at \/ End(f)' <= rd'.lo
      BY <2>1, <1>3, <1>7
    <2>3. QED
      BY <2>2 DEF AtCut
  <1>10. \A g \in 1..Last : rd.lo <= frag[g].at => from <= frag[g].at
    <2>1. rd.lo \in Int /\ from \in Int /\ from < rd.lo + HeaderSize
      BY <1>4, <1>5
    <2>2. QED
      BY <2>1, <1>1, <1>2, <1>5, NoFragmentInTail
  <1>11. NothingMissed'
    <2> SUFFICES ASSUME NEW n \in 1..Current', Due(n)'
                 PROVE  Returned(n)' \/ (phase' = "read" /\ Ahead(n)')
      BY DEF NothingMissed
    <2>1. n \in 1..Current /\ Due(n)
      BY <1>3, <1>7 DEF Due
    <2>2. Returned(n) \/ Ahead(n)
      BY <2>1, <1>2 DEF NothingMissed
    <2>3. CASE Returned(n)
      BY <2>3, <1>3, <1>7 DEF Returned
    <2>4. CASE Ahead(n)
      <3>1. PICK k \in 0..(Len(recs[n].frags) - 1) :
               /\ rd.lo <= frag[recs[n].frags[k + 1]].at
               /\ k > 0 => /\ rd.inFragment /\ rd.scratch = SubSeq(recs[n].frags, 1, k)
                           /\ End(recs[n].frags[k]) <= rd.lo
        BY <2>4 DEF Ahead
      <3>2. Len(recs[n].frags) \in Nat
        BY <2>1, <1>1, WriterTypes
      <3>3. k + 1 \in 1..Len(recs[n].frags) /\ (k > 0 => k \in 1..Len(recs[n].frags))
        BY <3>2
      <3>4. recs[n].frags[k + 1] \in 1..Last
        BY <2>1, <3>3, <1>1, NumberOfFragment
      <3>5. from <= frag[recs[n].frags[k + 1]].at
        BY <3>1, <3>4, <1>10
      <3>6. k > 0 => End(recs[n].frags[k]) <= from
        <4>1. SUFFICES ASSUME k > 0 PROVE End(recs[n].frags[k]) <= from
          OBVIOUS
        <4>2. recs[n].frags[k] \in 1..Last
          BY <2>1, <3>3, <4>1, <1>1, NumberOfFragment
        <4>3. End(recs[n].frags[k]) \in Nat
          BY <4>2, <1>1, Ends
        <4>4. QED
          BY <4>1, <4>3, <3>1, <1>4
      <3>7. /\ k \in 0..(Len(recs'[n].frags) - 1)
            /\ rd'.lo <= frag'[recs'[n].frags[k + 1]].at
            /\ k > 0 => /\ rd'.inFragment /\ rd'.scratch = SubSeq(recs'[n].frags, 1, k)
                        /\ End(recs[n].frags[k])' <= rd'.lo
        <4>1. End(recs[n].frags[k])' = End(recs[n].frags[k])
          BY <1>3 DEF End
        <4>2. QED
          BY <4>1, <3>1, <3>5, <3>6, <1>3, <1>7
      <3>8. QED
        BY <3>7, <1>1 DEF Ahead
    <2>5. QED
      BY <2>2, <2>3, <2>4
  <1>12. NothingDropped'
    <2> SUFFICES ASSUME corrupted' = {}, rd'.init = 0
                 PROVE  /\ ~rd'.dropped
                        /\ \A g \in 1..Last' :
                              /\ ~rd'.inFragment /\ rd'.lo <= frag'[g].at
                              /\ g = 1 \/ End(g - 1)' <= rd'.lo
                              => frag'[g].type \in Starting
      BY <1>1 DEF NothingDropped
    <2>1. ~rd.dropped
      BY <1>2, <1>3, <1>7 DEF NothingDropped
    <2>2. ASSUME ~rd'.inFragment, NEW g \in 1..Last', rd'.lo <= frag'[g].at,
                 g = 1 \/ End(g - 1)' <= rd'.lo
          PROVE  frag'[g].type \in Starting
      <3>1. g \in 1..Last /\ frag[g].at \in Nat /\ rd.lo <= frag[g].at /\ g \in Nat
        <4>1. g \in 1..Last /\ frag[g].at \in Nat /\ from <= frag[g].at /\ g \in Nat
          BY <2>2, <1>1, <1>3, <1>7, Ends
        <4>2. QED
          BY <4>1, <1>4
      <3>2. g # 1 => End(g - 1) <= rd.lo
        <4>1. SUFFICES ASSUME g # 1 PROVE End(g - 1) <= rd.lo
          OBVIOUS
        <4>2. g - 1 \in 1..Last /\ End(g - 1) <= from
          <5>1. g - 1 \in 1..Last
            BY <3>1, <4>1, <1>1, WriterTypes
          <5>2. End(g - 1)' = End(g - 1)
            BY <1>3 DEF End
          <5>3. QED
            BY <5>1, <5>2, <4>1, <2>2, <1>7
        <4>3. rd.lo <= frag[g - 1].at \/ End(g - 1) <= rd.lo
          BY <4>2, <1>1, <1>2 DEF AtCut
        <4>4. /\ frag[g - 1].at \in Nat /\ End(g - 1) \in Nat
              /\ frag[g - 1].at + HeaderSize <= End(g - 1)
          BY <4>2, <1>1, Ends
        <4>5. CASE rd.lo <= frag[g - 1].at
          <5>1. from <= frag[g - 1].at
            BY <4>2, <4>5, <1>10
          <5>2. QED
            BY <5>1, <4>2, <4>4, <1>4, <1>5
        <4>6. QED
          BY <4>3, <4>5
      <3>3. ~rd.inFragment
        BY <2>2, <1>7
      <3>4. frag[g].type \in Starting
        BY <3>1, <3>2, <3>3, <1>1, <1>2, <1>3, <1>7 DEF NothingDropped
      <3>5. QED
        BY <3>4, <1>3
    <2>3. QED
      BY <2>1, <2>2, <1>7
  <1>13. QED
    BY <1>3, <1>8, <1>9, <1>11, <1>12 DEF Complete

(* The buffer ends no further than the block the reader is in.               *)
LEMMA BufferInBlock ==
    ASSUME LogAssumption, WriterTypeOK, ReaderTypeOK, Framed, rd.lo < rd.hi
    PROVE  /\ BlockOf(rd.lo) \in Int /\ BlockOf(rd.lo) <= rd.lo
           /\ rd.lo < BlockOf(rd.lo) + BlockSize
           /\ rd.hi <= BlockOf(rd.lo) + BlockSize /\ rd.hi <= Len(file)
           /\ ~rd.eof => rd.hi = BlockOf(rd.lo) + BlockSize
           /\ rd.eof => rd.hi >= Len(file)
  <1>1. /\ rd.lo \in Nat /\ rd.hi \in Nat /\ BlockSize \in Nat \ {0} /\ Len(file) \in Nat
        /\ rd.lo \in Int /\ rd.hi \in Int
    BY WriterTypes DEF LogAssumption, ReaderTypeOK, ReaderState
  <1>2. rd.hi <= Len(file)
    BY <1>1 DEF ReaderTypeOK
  <1>3. /\ BlockOf(rd.lo) \in Int /\ BlockOf(rd.lo) <= rd.lo
        /\ rd.lo < BlockOf(rd.lo) + BlockSize /\ Aligned(BlockOf(rd.lo))
    BY <1>1, BlockBounds
  <1>4. CASE rd.eof
    BY <1>1, <1>2, <1>3, <1>4 DEF Framed
  <1>5. CASE ~rd.eof
    <2>1. Aligned(rd.hi) /\ rd.hi <= rd.lo + BlockSize
      BY <1>5 DEF Framed
    <2>2. BlockOf(rd.lo) + BlockSize <= rd.hi
      <3>1. BlockOf(rd.lo) < rd.hi
        BY <1>1, <1>3
      <3>2. QED
        BY <3>1, <1>1, <1>3, <2>1, AlignedApart
    <2>3. ~(BlockOf(rd.lo) + BlockSize < rd.hi)
      <3>1. Aligned(BlockOf(rd.lo) + BlockSize) /\ BlockOf(rd.lo) + BlockSize \in Int
        BY <1>1, <1>3, AlignedPlus
      <3>2. CASE BlockOf(rd.lo) + BlockSize < rd.hi
        <4>1. (BlockOf(rd.lo) + BlockSize) + BlockSize <= rd.hi
          BY <3>1, <3>2, <1>1, <2>1, AlignedApart
        <4>2. QED
          BY <4>1, <1>1, <1>3, <2>1
      <3>3. QED
        BY <3>2
    <2>4. rd.hi = BlockOf(rd.lo) + BlockSize
      BY <2>2, <2>3, <1>1, <1>3
    <2>5. QED
      BY <2>4, <1>1, <1>2, <1>3, <1>5
  <1>6. QED
    BY <1>4, <1>5

(* Between two fragments, with room for a header, the next fragment is here. *)
LEMMA FragmentHere ==
    ASSUME LogAssumption, WriterTypeOK, Tiled, NEW lo \in Nat,
           \A f \in 1..Last : lo <= frag[f].at \/ End(f) <= lo,
           lo + HeaderSize <= BlockOf(lo) + BlockSize,
           NEW g \in 1..Last, lo <= frag[g].at
    PROVE  \E f \in 1..g : f \in 1..Last /\ frag[f].at = lo
  <1>1. /\ HeaderSize \in Nat \ {0} /\ BlockSize \in Nat \ {0} /\ lo \in Int
        /\ Last \in Nat /\ g \in Nat
    BY WriterTypes DEF LogAssumption
  <1>2. BlockOf(lo) \in Int /\ BlockOf(lo) <= lo /\ Aligned(BlockOf(lo))
    BY <1>1, BlockBounds
  <1> DEFINE later == {f \in 1..Last : lo <= frag[f].at}
  <1>3. later \subseteq Nat /\ g \in later /\ later # {}
    BY <1>1
  <1>4. PICK f \in later : \A h \in later : ~(<<h, f>> \in OpToRel(<, Nat))
    <2> HIDE DEF later
    <2>1. QED
      BY <1>3, NatLessThanWellFounded, WFMin
  <1>5. ASSUME NEW h \in later PROVE f <= h
    <2> HIDE DEF later
    <2>1. h \in Nat /\ f \in Nat
      BY <1>3
    <2>2. ~(h < f)
      BY <2>1, <1>4 DEF OpToRel
    <2>3. QED
      BY <2>1, <2>2
  <1>6. f \in 1..Last /\ f \in 1..g /\ f \in Nat /\ frag[f].at \in Nat /\ lo <= frag[f].at
    BY <1>1, <1>3, <1>5, Ends
  <1>7. CASE f = 1
    <2>1. frag[f].at = 0
      BY <1>1, <1>6, <1>7 DEF Tiled
    <2>2. QED
      BY <2>1, <1>6
  <1>8. CASE f # 1
    <2>1. f - 1 \in 1..Last /\ f - 1 \in 1..(Last - 1) /\ (f - 1) + 1 = f /\ f - 1 \in Nat
      BY <1>1, <1>6, <1>8
    <2>2. End(f - 1) <= lo /\ End(f - 1) \in Nat
      <3>1. ~(lo <= frag[f - 1].at)
        BY <2>1, <1>5, <1>6
      <3>2. QED
        BY <2>1, <3>1, Ends
    <2>3. \/ frag[f].at = End(f - 1)
          \/ Aligned(frag[f].at) /\ frag[f].at < End(f - 1) + HeaderSize
      BY <2>1 DEF Tiled
    <2>4. CASE frag[f].at = End(f - 1)
      BY <2>2, <2>4, <1>6
    <2>5. CASE Aligned(frag[f].at) /\ frag[f].at < End(f - 1) + HeaderSize
      <3>1. BlockOf(lo) <= frag[f].at /\ frag[f].at < BlockOf(lo) + BlockSize
        BY <1>1, <1>2, <1>6, <2>2, <2>5
      <3>2. BlockOf(frag[f].at) = BlockOf(lo)
        BY <3>1, <1>2, <1>6, BlockFrom
      <3>3. BlockOf(frag[f].at) = frag[f].at
        BY <1>1, <1>6, <2>5, BlockFrom
      <3>4. QED
        BY <3>2, <3>3, <1>2, <1>6
    <2>6. QED
      BY <2>3, <2>4, <2>5
  <1>9. QED
    BY <1>6, <1>7, <1>8

(* A fragment that is all in the file, in a block nothing has changed, is     *)
(* what the reader finds when it gets there.                                  *)
LEMMA ReadsIt ==
    ASSUME LogAssumption, WriterTypeOK, ReaderTypeOK, Tiled, Filled, Framed,
           Buffered >= HeaderSize \/ rd.eof,
           NEW f \in 1..Last, frag[f].at = rd.lo, End(f) <= Len(file),
           \A c \in corrupted : Block(frag[f].at + 1) # Block(c),
           NEW p \in PhysicalRecords
    PROVE  /\ p.lo = End(f) /\ ~p.drop /\ p.type # "eof"
           /\ rd.lo >= rd.init => /\ p.type = frag[f].type /\ p.frag = f
                                  /\ p.type \in Starting \cup Continuing
  <1>1. /\ HeaderSize \in Nat \ {0} /\ rd.lo \in Nat /\ rd.hi \in Nat
        /\ rd.lo <= rd.hi /\ rd.init \in Nat /\ Len(file) \in Nat /\ f \in Nat /\ f > 0
        /\ BlockSize \in Nat \ {0}
    BY WriterTypes DEF LogAssumption, ReaderTypeOK, ReaderState
  <1>2. /\ frag[f].len \in Nat /\ End(f) \in Nat /\ End(f) = rd.lo + HeaderSize + frag[f].len
        /\ End(f) <= BlockOf(rd.lo) + BlockSize
        /\ frag[f].type \in Starting \cup Continuing
    BY Ends, WriterTypes DEF Tiled
  <1>3. rd.lo < rd.hi
    <2>1. CASE Buffered >= HeaderSize
      BY <2>1, <1>1 DEF Buffered
    <2>2. CASE rd.eof
      <3>1. rd.hi >= Len(file)
        BY <2>2 DEF Framed
      <3>2. QED
        BY <3>1, <1>1, <1>2
    <2>3. QED
      BY <2>1, <2>2
  <1>4. /\ BlockOf(rd.lo) \in Int /\ BlockOf(rd.lo) <= rd.lo
        /\ rd.hi <= Len(file)
        /\ rd.hi = BlockOf(rd.lo) + BlockSize \/ rd.hi >= Len(file)
    BY <1>3, BufferInBlock
  <1>5. End(f) <= rd.hi
    BY <1>1, <1>2, <1>4
  <1>6. Buffered = rd.hi - rd.lo /\ Buffered >= HeaderSize + frag[f].len
        /\ Buffered >= HeaderSize /\ Buffered \in Nat
    BY SMTT(30), <1>1, <1>2, <1>5 DEF Buffered
  <1>7. ASSUME NEW i \in 1..(HeaderSize + frag[f].len)
        PROVE  file[rd.lo + i] = <<f, i - 1>>
    <2> DEFINE j == rd.lo + i
    <2>1. i \in Nat /\ i >= 1 /\ j \in Nat /\ j >= 1 /\ j <= End(f) /\ j <= Len(file)
      BY SMTT(30), <1>1, <1>2, <1>7
    <2>2. j \in (frag[f].at + 1)..End(f)
      BY <2>1, <1>1, <1>2
    <2>3. j \notin corrupted
      <3>1. /\ j - 1 \in Int /\ BlockOf(rd.lo) <= j - 1 /\ j - 1 < BlockOf(rd.lo) + BlockSize
            /\ (j - 1) + 1 = j /\ rd.lo \in Int
        <4>1. /\ End(f) <= BlockOf(rd.lo) + BlockSize /\ BlockOf(rd.lo) \in Int
              /\ BlockOf(rd.lo) <= rd.lo /\ rd.lo \in Nat /\ End(f) \in Nat /\ BlockSize \in Nat
          BY <1>1, <1>2, <1>4
        <4>2. j \in Nat /\ j <= End(f) /\ rd.lo + 1 <= j
          BY <2>1, <1>1
        <4> HIDE DEF j
        <4>3. QED
          BY <4>1, <4>2
      <3>2. Aligned(BlockOf(rd.lo))
        BY <3>1, BlockBounds
      <3>3. BlockOf(j - 1) = BlockOf(rd.lo)
        BY <3>1, <3>2, <1>4, BlockFrom
      <3>4. Block(rd.lo + 1) = Block(j)
        BY <3>1, <3>3, SameBlock
      <3>5. QED
        BY <3>4
    <2>4. file[j] = <<f, j - frag[f].at - 1>>
      BY <2>1, <2>2, <2>3 DEF Filled
    <2>5. j - frag[f].at - 1 = i - 1
      BY <2>1, <1>1
    <2>6. QED
      BY <2>4, <2>5
  <1>8. LengthCell = <<f, HeaderSize - 1>>
    BY SMTT(30), <1>1, <1>2, <1>7 DEF LengthCell
  <1>9. /\ HeaderFragment = f /\ IsHeader /\ Length = frag[f].len
        /\ LengthCell # Zero
    <2>1. HeaderFragment = f /\ LengthCell[2] = HeaderSize - 1
      BY <1>8 DEF HeaderFragment
    <2>2. LengthCell[1] # Zero[1]
      BY <1>1, <1>8 DEF Zero
    <2>3. LengthCell # Zero
      BY <2>2
    <2>4. QED
      BY <2>1, <2>3, <1>1 DEF IsHeader, Length
  <1>10. Fits /\ Intact
    BY <1>6, <1>7, <1>9 DEF Fits, Intact
  <1> DEFINE good == Result(frag[HeaderFragment].type, Length, FALSE, FALSE)
             early == [Result("bad", Length, FALSE, FALSE) EXCEPT !.frag = 0]
  <1>11. p = IF rd.lo < rd.init THEN early ELSE good
    <2>1. ~(Buffered < HeaderSize)
      BY <1>1, <1>6
    <2> HIDE DEF good, early
    <2>2. PhysicalRecords = IF rd.lo < rd.init THEN {early} ELSE {good}
      BY <2>1, <1>9, <1>10 DEF PhysicalRecords, good, early
    <2>3. QED
      BY <2>2
  <1>12. Length # -1 /\ rd.lo + HeaderSize + Length = End(f)
    BY <1>1, <1>2, <1>9
  <1>13. CASE rd.lo < rd.init
    <2>1. p.type = "bad" /\ p.lo = End(f) /\ p.drop = FALSE
      BY <1>11, <1>12, <1>13 DEF Result
    <2>2. QED
      BY <2>1, <1>1, <1>13
  <1>14. CASE ~(rd.lo < rd.init)
    <2>1. p.type = frag[f].type /\ p.lo = End(f) /\ p.drop = FALSE /\ p.frag = f
      BY <1>9, <1>11, <1>12, <1>14 DEF Result
    <2>2. p.type # "eof"
      BY <2>1, <1>2 DEF Starting, Continuing
    <2>3. QED
      BY <2>1, <2>2, <1>2
  <1>15. QED
    BY <1>13, <1>14

(* What one physical record p does to the reader.                            *)
Reads(p) ==
    /\ phase = "read" /\ p \in PhysicalRecords /\ rd' = Accept(p)
    /\ Buffered >= HeaderSize \/ rd.eof
    /\ UNCHANGED <<file, writer>>
LEMMA ReadFacts ==
    ASSUME LogAssumption, Sound, NEW p, Reads(p)
    PROVE  /\ p.type \in Physical /\ p.lo \in Nat /\ p.frag \in Nat /\ p.drop \in BOOLEAN
           /\ rd.lo <= p.lo /\ p.lo <= rd.hi
           /\ p.lo = rd.hi \/ \E f \in 1..Last : p.lo = End(f)
           /\ p.type = "eof" => ~p.drop /\ (rd.eof \/ Buffered < HeaderSize)
           /\ p.type \in Starting \cup Continuing =>
                 AtReader(p.frag) /\ p.type = frag[p.frag].type /\ p.lo = End(p.frag)
           /\ rd' \in ReaderState /\ rd'.lo = p.lo
           /\ rd'.init = rd.init /\ rd'.hi = rd.hi /\ rd'.eob = rd.eob /\ rd'.eof = rd.eof
           /\ p.type \in {"bad", "eof"} => ~rd'.inFragment /\ rd'.out = rd.out
           /\ p.type = "full" => ~rd'.inFragment /\ rd'.out = Append(rd.out, <<p.frag>>)
           /\ p.type = "first" =>
                 rd'.inFragment /\ rd'.scratch = <<p.frag>> /\ rd'.out = rd.out
           /\ p.type = "middle" /\ rd.inFragment =>
                 /\ rd'.inFragment /\ rd'.scratch = Append(rd.scratch, p.frag)
                 /\ rd'.out = rd.out
           /\ p.type = "last" /\ rd.inFragment =>
                 ~rd'.inFragment /\ rd'.out = Append(rd.out, Append(rd.scratch, p.frag))
           /\ p.type \in Continuing /\ ~rd.inFragment => ~rd'.inFragment /\ rd'.out = rd.out
           /\ rd'.dropped => \/ rd.dropped \/ p.drop
                             \/ (p.type \in Starting /\ rd.inFragment)
                             \/ (p.type \in Continuing /\ ~rd.inFragment)
                             \/ (p.type = "bad" /\ rd.inFragment)
  <1>1. /\ WriterTypeOK /\ CellsInPlace /\ ReaderTypeOK /\ ScratchWhole /\ rd \in ReaderState
        /\ p \in PhysicalRecords /\ rd' = Accept(p)
    BY DEF Sound, WriterOK, ReaderOK, ReaderTypeOK, Reads
  <1>2. /\ p.type \in Physical /\ p.lo \in Nat /\ p.frag \in Nat /\ p.drop \in BOOLEAN
        /\ rd.lo <= p.lo /\ p.lo <= rd.hi
        /\ p.lo = rd.hi \/ \E f \in 1..Last : p.lo = End(f)
        /\ p.type = "eof" => ~p.drop /\ (rd.eof \/ Buffered < HeaderSize)
        /\ p.type \in Starting \cup Continuing =>
              AtReader(p.frag) /\ p.type = frag[p.frag].type /\ p.lo = End(p.frag)
    BY <1>1, PhysicalRead
  <1>3. p.type \in Starting \cup Continuing => rd.lo >= rd.init
    BY <1>2 DEF AtReader
  <1>4. rd.inFragment => rd.prospect >= rd.init /\ ~rd.resyncing
    BY <1>1 DEF ScratchWhole
  <1>5. /\ rd' \in ReaderState /\ rd'.lo = p.lo
        /\ rd'.init = rd.init /\ rd'.hi = rd.hi /\ rd'.eob = rd.eob /\ rd'.eof = rd.eof
        /\ p.type \in {"bad", "eof"} => ~rd'.inFragment /\ rd'.out = rd.out
        /\ p.type = "full" => ~rd'.inFragment /\ rd'.out = Append(rd.out, <<p.frag>>)
        /\ p.type = "first" =>
              /\ rd'.inFragment /\ rd'.scratch = <<p.frag>> /\ rd'.out = rd.out
              /\ rd'.prospect >= rd'.init /\ ~rd'.resyncing
        /\ p.type = "middle" /\ rd.inFragment =>
              /\ rd'.inFragment /\ rd'.scratch = Append(rd.scratch, p.frag)
              /\ rd'.out = rd.out
              /\ rd'.prospect >= rd'.init /\ ~rd'.resyncing
        /\ p.type = "last" /\ rd.inFragment =>
              ~rd'.inFragment /\ rd'.out = Append(rd.out, Append(rd.scratch, p.frag))
        /\ p.type \in Continuing /\ ~rd.inFragment => ~rd'.inFragment /\ rd'.out = rd.out
        /\ rd'.dropped => \/ rd.dropped \/ p.drop
                          \/ p.type \in Starting /\ rd.inFragment
                          \/ p.type \in Continuing /\ ~rd.inFragment
                          \/ p.type = "bad" /\ rd.inFragment
    BY <1>1, <1>2, <1>3, <1>4, AcceptCases
  <1>6. QED
    BY <1>2, <1>5

(* A record returned stays returned.                                         *)
LEMMA ReturnedStays ==
    ASSUME LogAssumption, Sound, NEW p, Reads(p), NEW n \in 1..Current, Returned(n)
    PROVE  Returned(n)'
  <1>1. rd.out \in Seq(Seq(Nat)) /\ recs' = recs /\ WriterTypeOK
    BY DEF Sound, WriterOK, ReaderOK, ReaderTypeOK, ReaderState, Reads, writer
  <1>2. rd'.out = rd.out \/ \E x : rd'.out = Append(rd.out, x)
    <2>1. p.type \in Physical
      BY ReadFacts
    <2>2. CASE p.type \in {"bad", "eof"} \/ p.type = "first"
      BY <2>2, ReadFacts
    <2>3. CASE p.type = "full"
      BY <2>3, ReadFacts
    <2>4. CASE p.type \in Continuing
      <3>1. CASE ~rd.inFragment
        BY <2>4, <3>1, ReadFacts
      <3>2. CASE rd.inFragment /\ p.type = "middle"
        BY <3>2, ReadFacts
      <3>3. CASE rd.inFragment /\ p.type = "last"
        <4>1. rd'.out = Append(rd.out, Append(rd.scratch, p.frag))
          BY <3>3, ReadFacts
        <4>2. QED
          BY <4>1
      <3>4. QED
        BY <2>4, <3>1, <3>2, <3>3 DEF Continuing
    <2>5. QED
      BY <2>1, <2>2, <2>3, <2>4 DEF Physical, Starting, Continuing
  <1>3. PICK i \in DOMAIN rd.out : rd.out[i] = recs[n].frags
    BY DEF Returned
  <1>4. i \in 1..Len(rd.out) /\ Len(rd.out) \in Nat
    BY <1>1
  <1>5. i \in DOMAIN rd'.out /\ rd'.out[i] = rd.out[i]
    <2>1. CASE rd'.out = rd.out
      BY <2>1, <1>3
    <2>2. ASSUME NEW x, rd'.out = Append(rd.out, x) PROVE i \in DOMAIN rd'.out /\ rd'.out[i] = rd.out[i]
      BY <2>2, <1>1, <1>4
    <2>3. QED
      BY <1>2, <2>1, <2>2
  <1>6. QED
    BY <1>1, <1>3, <1>5 DEF Returned

(* A record still due after p, or returned by it.                            *)
LEMMA ReadMissesNothing ==
    ASSUME LogAssumption, Sound, Complete, Steady, NEW p, Reads(p), NEW n \in 1..Current,
           Due(n), Ahead(n)
    PROVE  Returned(n)' \/ (p.type # "eof" /\ Ahead(n)')
  <1>1. /\ phase = "read" /\ WriterTypeOK /\ FragmentsOfRecords /\ ReaderTypeOK
        /\ Tiled /\ Filled /\ Cut /\ Framed /\ AtCut
        /\ p \in PhysicalRecords
        /\ Buffered >= HeaderSize \/ rd.eof
        /\ frag' = frag /\ recs' = recs
    BY DEF Sound, WriterOK, ReaderOK, Complete, Reads, writer
  <1>2. /\ HeaderSize \in Nat \ {0} /\ BlockSize \in Nat \ {0} /\ rd.lo \in Nat /\ rd.hi \in Nat
        /\ rd.lo <= rd.hi /\ Len(file) \in Nat /\ rd.init \in Nat
        /\ rd.out \in Seq(Seq(Nat)) /\ rd.scratch \in Seq(Nat)
    BY <1>1, WriterTypes DEF LogAssumption, ReaderTypeOK, ReaderState
  <1> DEFINE s == recs[n].frags
  <1>3. Whole(n) /\ End(LastFragment(n)) <= Len(file) /\ RecordAt(n) >= rd.init
        /\ \A k \in DOMAIN s : \A c \in corrupted : Block(frag[s[k]].at + 1) # Block(c)
    BY <1>1 DEF Due, Cut
  <1>4. s \in Seq(Nat) /\ Len(s) \in Nat /\ DOMAIN s = 1..Len(s)
    BY <1>1, WriterTypes
  <1>5. PICK k \in 0..(Len(s) - 1) :
           /\ rd.lo <= frag[s[k + 1]].at
           /\ k > 0 => rd.inFragment /\ rd.scratch = SubSeq(s, 1, k) /\ End(s[k]) <= rd.lo
    BY DEF Ahead
  <1> DEFINE g == s[k + 1]
  <1>6. k \in Nat /\ k + 1 \in 1..Len(s) /\ k < Len(s) /\ (k > 0 => k \in 1..Len(s))
        /\ 1 \in 1..Len(s)
    BY <1>4
  <1>7. /\ g \in 1..Last /\ g \in Nat /\ g <= LastFragment(n) /\ LastFragment(n) \in 1..Last
        /\ s[1] \in 1..Last /\ s[1] <= g /\ g = s[1] + k /\ s[1] \in Nat
    <2>1. /\ s[k + 1] \in 1..Last /\ s[k + 1] = s[1] + (k + 1) - 1 /\ s[1] \in Nat
      BY <1>1, <1>6, NumberOfFragment
    <2>2. /\ s[k + 1] <= LastFragment(n) /\ LastFragment(n) \in 1..Last /\ s[1] \in 1..Last
      BY <1>1, <1>3, <1>6, LastOfWhole
    <2>3. QED
      BY <2>1, <2>2, <1>6
  <1>8. /\ End(g) <= Len(file) /\ frag[g].at \in Nat /\ End(g) \in Nat
        /\ frag[g].at + HeaderSize <= End(g) /\ End(g) = frag[g].at + HeaderSize + frag[g].len
        /\ rd.lo <= frag[g].at /\ rd.init <= frag[g].at
    <2>1. End(g) <= End(LastFragment(n)) /\ frag[s[1]].at <= frag[g].at
      BY <1>1, <1>7, EndsInOrder
    <2>2. /\ frag[g].at \in Nat /\ End(g) \in Nat /\ frag[g].at + HeaderSize <= End(g)
          /\ End(g) = frag[g].at + HeaderSize + frag[g].len
          /\ End(LastFragment(n)) \in Nat /\ frag[s[1]].at \in Nat
      BY <1>1, <1>7, Ends
    <2>3. RecordAt(n) = frag[s[1]].at
      BY DEF RecordAt
    <2>4. rd.lo <= frag[g].at
      BY <1>5
    <2>5. RecordAt(n) >= rd.init /\ End(LastFragment(n)) <= Len(file)
      BY <1>3
    <2>6. rd.init <= frag[g].at
      <3>1. frag[s[1]].at >= rd.init /\ frag[s[1]].at \in Nat /\ frag[g].at \in Nat
            /\ frag[s[1]].at <= frag[g].at
        BY <2>1, <2>2, <2>3, <2>5
      <3>2. QED
        BY SMTT(30), <3>1, <1>2
    <2>7. End(g) <= Len(file)
      BY <2>1, <2>2, <2>5, <1>2
    <2>8. QED
      BY <2>2, <2>4, <2>6, <2>7
  <1>9. k > 0 => g - 1 \in 1..Last /\ s[k] = g - 1 /\ End(g - 1) <= rd.lo
    <2> SUFFICES ASSUME k > 0 PROVE g - 1 \in 1..Last /\ s[k] = g - 1 /\ End(g - 1) <= rd.lo
      OBVIOUS
    <2>1. s[k] \in 1..Last /\ s[k] = s[1] + k - 1
      BY <1>1, <1>6, NumberOfFragment
    <2>2. s[k] = g - 1
      BY <2>1, <1>6, <1>7
    <2>3. QED
      BY <2>1, <2>2, <1>5
  <1>10. HasFragment(n, k + 1)
    BY <1>1, <1>6 DEF FragmentsOfRecords
  <1>11. rd'.lo = p.lo /\ p.lo \in Nat /\ p.lo <= rd.hi
    BY ReadFacts
  <1> HIDE DEF g, s
  <1>12. Buffered >= HeaderSize /\ rd.lo + HeaderSize <= rd.hi /\ rd.lo < rd.hi
    <2>1. Buffered = rd.hi - rd.lo
      BY DEF Buffered
    <2>2. rd.lo + HeaderSize <= rd.hi
      <3>1. CASE rd.eof
        <4>1. rd.hi >= Len(file)
          BY <1>1, <3>1 DEF Framed
        <4>2. /\ rd.lo <= frag[g].at /\ frag[g].at + HeaderSize <= End(g) /\ End(g) <= Len(file)
              /\ End(g) \in Nat /\ frag[g].at \in Nat
          BY <1>8
        <4>3. QED
          BY SMTT(30), <4>1, <4>2, <1>2
      <3>2. CASE Buffered >= HeaderSize
        BY <2>1, <3>2, <1>2
      <3>3. QED
        BY <3>1, <3>2, <1>1
    <2>3. QED
      BY <2>1, <2>2, <1>2
  <1>13. /\ BlockOf(rd.lo) \in Int /\ BlockOf(rd.lo) <= rd.lo
         /\ rd.hi <= BlockOf(rd.lo) + BlockSize
         /\ rd.eof => rd.hi >= Len(file)
    BY <1>1, <1>12, BufferInBlock
  <1>14. PICK f \in 1..g : f \in 1..Last /\ frag[f].at = rd.lo
    <2>1. \A h \in 1..Last : rd.lo <= frag[h].at \/ End(h) <= rd.lo
      BY <1>1, <1>2, <1>12 DEF AtCut
    <2>2. rd.lo + HeaderSize <= BlockOf(rd.lo) + BlockSize
      BY <1>2, <1>12, <1>13
    <2>3. QED
      BY <2>1, <2>2, <1>1, <1>2, <1>7, <1>8, FragmentHere
  <1>15. f \in Nat /\ f <= g /\ End(f) \in Nat /\ rd.lo < End(f) /\ End(f) <= End(g)
    <2>1. f \in Nat /\ f <= g
      BY <1>7, <1>14
    <2>2. End(f) \in Nat /\ frag[f].at + HeaderSize <= End(f)
      BY <1>1, <1>14, Ends
    <2>3. End(f) <= End(g)
      BY <2>1, <1>1, <1>7, <1>14, EndsInOrder
    <2>4. QED
      BY <2>1, <2>2, <2>3, <1>2, <1>14
  <1>16. k > 0 => f = g
    <2> SUFFICES ASSUME k > 0, f # g PROVE FALSE
      OBVIOUS
    <2>1. f <= g - 1 /\ g - 1 \in 1..Last /\ End(g - 1) <= rd.lo
      BY <1>7, <1>9, <1>15
    <2>2. End(f) <= End(g - 1) /\ End(g - 1) \in Nat
      BY <2>1, <1>1, <1>14, EndsInOrder, Ends
    <2>3. QED
      BY <2>1, <2>2, <1>2, <1>15
  <1>17. ASSUME k = 0, p.lo <= frag[g].at PROVE Ahead(n)'
    <2>1. 0 \in 0..(Len(recs'[n].frags) - 1) /\ rd'.lo <= frag'[recs'[n].frags[0 + 1]].at
          /\ ~(0 > 0)
      BY <1>1, <1>6, <1>11, <1>17 DEF g, s
    <2>2. QED
      BY <2>1 DEF Ahead
  <1>18. CASE frag[g].at >= rd.hi
    <2>1. k = 0
      BY <1>2, <1>6, <1>8, <1>12, <1>14, <1>16, <1>18
    <2>2. p.lo <= frag[g].at
      BY SMTT(30), <1>2, <1>8, <1>11, <1>18
    <2>3. p.type # "eof"
      <3>1. ~rd.eof
        <4>1. CASE rd.eof
          <5>1. rd.hi >= Len(file) /\ Len(file) >= End(g) /\ frag[g].at + HeaderSize <= End(g)
                /\ frag[g].at \in Nat /\ End(g) \in Nat
            <6>1. rd.hi >= Len(file)
              BY <4>1, <1>13
            <6>2. End(g) <= Len(file) /\ Len(file) \in Nat
              BY <1>2, <1>8
            <6>3. QED
              BY <6>1, <6>2, <1>8
          <5>2. HeaderSize \in Nat /\ HeaderSize > 0 /\ rd.hi \in Nat /\ Len(file) \in Nat
            BY <1>2
          <5>3. rd.hi <= frag[g].at
            BY <5>1, <5>2, <1>18
          <5>4. QED
            BY <5>1, <5>2, <5>3
        <4>2. QED
          BY <4>1
      <3>2. ~(Buffered < HeaderSize)
        BY <1>2, <1>12 DEF Buffered
      <3>3. QED
        BY <3>1, <3>2, ReadFacts
    <2>4. QED
      BY <2>1, <2>2, <2>3, <1>6, <1>17
  <1>19. CASE ~(frag[g].at >= rd.hi)
    <2>1. \A c \in corrupted : Block(frag[f].at + 1) # Block(c)
      <3>1. /\ BlockOf(rd.lo) <= frag[g].at /\ frag[g].at < BlockOf(rd.lo) + BlockSize
            /\ frag[g].at \in Int /\ rd.lo \in Int
        <4>1. frag[g].at \in Nat /\ rd.lo <= frag[g].at
          BY <1>8
        <4>2. BlockSize \in Nat /\ rd.lo \in Nat /\ rd.hi \in Nat
          BY <1>2
        <4>3. QED
          BY <4>1, <4>2, <1>13, <1>19
      <3>2. Aligned(BlockOf(rd.lo))
        BY <3>1, BlockBounds
      <3>3. BlockOf(frag[g].at) = BlockOf(rd.lo)
        BY <3>1, <3>2, <1>13, BlockFrom
      <3>4. Block(frag[g].at + 1) = Block(frag[f].at + 1)
        BY <3>1, <3>3, <1>14, SameBlock
      <3>5. \A c \in corrupted : Block(frag[g].at + 1) # Block(c)
        BY <1>3, <1>4, <1>6 DEF g
      <3>6. QED
        BY <3>4, <3>5
    <2>2. End(f) <= Len(file)
      BY <1>2, <1>8, <1>15
    <2>3. /\ p.lo = End(f) /\ p.type # "eof"
          /\ rd.lo >= rd.init => p.type = frag[f].type /\ p.frag = f
      BY <2>1, <2>2, <1>1, <1>14, ReadsIt
    <2>4. CASE f # g
      <3>1. k = 0 /\ End(f) <= frag[g].at
        BY <2>4, <1>1, <1>6, <1>7, <1>14, <1>15, <1>16 DEF Tiled
      <3>2. QED
        BY <3>1, <2>3, <1>6, <1>17
    <2>5. CASE f = g
      <3>1. p.lo = End(g) /\ p.type # "eof" /\ p.type = frag[g].type /\ p.frag = g
        BY <2>3, <2>5, <1>2, <1>8, <1>14
      <3>2. ASSUME k + 1 < Len(s), rd'.inFragment, rd'.scratch = SubSeq(s, 1, k + 1)
            PROVE  Ahead(n)'
        <4>1. k + 1 \in 0..(Len(s) - 1) /\ (k + 1) + 1 \in 1..Len(s) /\ k + 1 > 0
          <5>1. k \in Nat /\ Len(s) \in Nat
            BY <1>4, <1>6
          <5>2. QED
            BY <3>2, <5>1
        <4>2. s[(k + 1) + 1] \in 1..Last /\ s[(k + 1) + 1] = s[1] + ((k + 1) + 1) - 1
          BY <4>1, <1>1, NumberOfFragment DEF s
        <4>3. g < s[(k + 1) + 1]
          <5>1. g = s[1] + k /\ s[1] \in Nat /\ k \in Nat
            BY <1>6, <1>7
          <5>2. QED
            BY <4>2, <5>1
        <4>4. End(g) <= frag[s[(k + 1) + 1]].at
          BY <4>2, <4>3, <1>1, <1>7 DEF Tiled
        <4>6. /\ k + 1 \in 0..(Len(recs'[n].frags) - 1)
              /\ rd'.lo <= frag'[recs'[n].frags[(k + 1) + 1]].at
              /\ k + 1 > 0 => /\ rd'.inFragment /\ rd'.scratch = SubSeq(recs'[n].frags, 1, k + 1)
                              /\ End(recs[n].frags[k + 1])' <= rd'.lo
          <5>1. End(recs[n].frags[k + 1])' = End(g)
            BY <1>1 DEF End, g, s
          <5>2. End(g) <= rd'.lo
            BY <3>1, <1>8, <1>11
          <5>3. QED
            BY <5>1, <5>2, <4>1, <4>4, <3>1, <3>2, <1>1, <1>11 DEF s
        <4>7. QED
          BY <4>6 DEF Ahead
      <3>3. frag[g].type \in Ending <=> k + 1 = Len(s)
        <4>1. frag[g].type \in Ending => k + 1 = Len(s)
          BY <1>10 DEF HasFragment, g, s
        <4>2. k + 1 = Len(s) => g = LastFragment(n)
          BY DEF g, s, LastFragment
        <4>3. k + 1 = Len(s) => frag[g].type \in Ending
          BY <4>2, <1>3 DEF Whole, Ending
        <4>4. QED
          BY <4>1, <4>3
      <3>4. frag[g].type \in Starting <=> k = 0
        <4>1. k + 1 = 1 <=> frag[g].type \in Starting
          BY <1>10 DEF HasFragment, g, s
        <4>2. QED
          BY <4>1, <1>6
      <3>5. frag[g].type \in Starting \cup Continuing
        BY <1>1, <1>7, WriterTypes
      <3>6. CASE k = 0 /\ k + 1 = Len(s)
        <4>1. p.type = "full"
          BY <3>1, <3>3, <3>4, <3>6 DEF Starting, Ending
        <4>2. rd'.out = Append(rd.out, <<g>>)
          BY <3>1, <4>1, ReadFacts
        <4>3. s = <<g>>
          <5>1. Len(s) = 1 /\ g = s[1]
            BY <3>6, <1>6 DEF g
          <5>2. QED
            BY <5>1, <1>4, OneElement
        <4>4. QED
          <5>1. Len(rd.out) + 1 \in DOMAIN rd'.out /\ rd'.out[Len(rd.out) + 1] = s
            BY <4>2, <4>3, <1>2, <1>4
          <5>2. QED
            BY <5>1, <1>1 DEF Returned, s
      <3>7. CASE k = 0 /\ k + 1 # Len(s)
        <4>1. p.type = "first"
          BY <3>1, <3>3, <3>4, <3>7 DEF Starting, Ending
        <4>2. rd'.inFragment /\ rd'.scratch = <<g>>
          BY <3>1, <4>1, ReadFacts
        <4>3. SubSeq(s, 1, k + 1) = <<g>>
          <5>1. k + 1 = 1 /\ s[1] = g /\ 1 \in 1..Len(s)
            BY <3>7, <1>6 DEF g
          <5>2. /\ SubSeq(s, 1, 1) \in Seq(Nat) /\ Len(SubSeq(s, 1, 1)) = 1
                /\ SubSeq(s, 1, 1)[1] = s[1]
            BY <5>1, <1>4
          <5>3. SubSeq(s, 1, 1) = <<s[1]>>
            BY <5>2, OneElement
          <5>4. QED
            BY <5>1, <5>3
        <4>4. k + 1 < Len(s)
          <5>1. k + 1 <= Len(s) /\ Len(s) \in Nat /\ k + 1 \in Nat
            BY <1>4, <1>6
          <5>2. QED
            BY <3>7, <5>1
        <4>5. QED
          BY <3>1, <3>2, <4>2, <4>3, <4>4
      <3>8. CASE k # 0
        <4>1. rd.inFragment /\ rd.scratch = SubSeq(s, 1, k) /\ k \in 1..Len(s)
          BY <3>8, <1>5, <1>6
        <4>2. p.type \in Continuing
          BY <3>1, <3>4, <3>5, <3>8
        <4>3. Append(SubSeq(s, 1, k), g) = SubSeq(s, 1, k + 1)
          <5>1. k + 1 \in 1..Len(s) /\ k \in Nat
            BY <1>6
          <5>2. QED
            BY <5>1, <1>4 DEF g
        <4>4. CASE k + 1 = Len(s)
          <5>1. p.type = "last"
            BY <3>1, <3>3, <4>2, <4>4 DEF Continuing, Ending
          <5>2. rd'.out = Append(rd.out, SubSeq(s, 1, k + 1))
            <6>1. rd'.out = Append(rd.out, Append(rd.scratch, p.frag))
              BY <4>1, <5>1, ReadFacts
            <6>2. QED
              BY <6>1, <3>1, <4>1, <4>3
          <5>3. SubSeq(s, 1, k + 1) = s
            BY <4>4, <1>4
          <5>4. Len(rd.out) + 1 \in DOMAIN rd'.out /\ rd'.out[Len(rd.out) + 1] = s
            BY <5>2, <5>3, <1>2, <1>4
          <5>5. QED
            BY <5>4, <1>1 DEF Returned, s
        <4>5. CASE k + 1 # Len(s)
          <5>1. p.type = "middle"
            BY <3>1, <3>3, <4>2, <4>5 DEF Continuing, Ending
          <5>2. rd'.inFragment /\ rd'.scratch = SubSeq(s, 1, k + 1)
            <6>1. rd'.inFragment /\ rd'.scratch = Append(rd.scratch, p.frag)
              BY <4>1, <5>1, ReadFacts
            <6>2. QED
              BY <6>1, <3>1, <4>1, <4>3
          <5>3. k + 1 < Len(s)
            <6>1. k + 1 <= Len(s) /\ Len(s) \in Nat /\ k + 1 \in Nat
              BY <1>4, <1>6
            <6>2. QED
              BY <4>5, <6>1
          <5>4. QED
            BY <3>1, <3>2, <5>2, <5>3
        <4>6. QED
          BY <4>4, <4>5
      <3>9. QED
        BY <3>6, <3>7, <3>8
    <2>6. QED
      BY <2>4, <2>5
  <1>20. QED
    BY <1>18, <1>19

(* On an undamaged log the reader finds the next fragment, or the end.       *)
LEMMA FragmentOrEnd ==
    ASSUME LogAssumption, Sound, Complete, Steady, NEW p, Reads(p), corrupted = {}, rd.init = 0
    PROVE  \/ p.type = "eof"
           \/ \E f \in 1..Last :
                 /\ frag[f].at = rd.lo /\ p.lo = End(f) /\ ~p.drop /\ p.type = frag[f].type
                 /\ p.type \in Starting \cup Continuing
  <1>1. /\ phase = "read" /\ WriterTypeOK /\ ReaderTypeOK
        /\ Tiled /\ Filled /\ Framed /\ AtCut /\ p \in PhysicalRecords
        /\ Buffered >= HeaderSize \/ rd.eof
    BY DEF Sound, WriterOK, ReaderOK, Complete, Reads
  <1>2. /\ HeaderSize \in Nat \ {0} /\ BlockSize \in Nat \ {0} /\ rd.lo \in Nat /\ rd.hi \in Nat
        /\ rd.lo <= rd.hi /\ Len(file) \in Nat /\ Last \in Nat
    BY <1>1, WriterTypes DEF LogAssumption, ReaderTypeOK, ReaderState
  <1>3. CASE Buffered < HeaderSize
    <2>1. p = Result("eof", -1, TRUE, FALSE)
      BY <1>1, <1>3 DEF PhysicalRecords
    <2>2. QED
      BY <2>1 DEF Result
  <1>4. CASE ~(Buffered < HeaderSize)
    <2>1. Buffered = rd.hi - rd.lo /\ rd.lo + HeaderSize <= rd.hi /\ rd.lo < rd.hi
      BY <1>2, <1>4 DEF Buffered
    <2>2. /\ BlockOf(rd.lo) \in Int /\ BlockOf(rd.lo) <= rd.lo
          /\ rd.hi <= BlockOf(rd.lo) + BlockSize /\ rd.hi <= Len(file)
          /\ ~rd.eof => rd.hi = BlockOf(rd.lo) + BlockSize
      BY <1>1, <2>1, BufferInBlock
    <2>3. \A h \in 1..Last : rd.lo <= frag[h].at \/ End(h) <= rd.lo
      BY <1>1, <1>2, <2>1 DEF AtCut
    <2>4. Last > 0 /\ rd.hi <= End(Last) /\ Last \in 1..Last
      <3>1. rd.hi \in 1..Len(file)
        BY <1>2, <2>1, <2>2
      <3>2. QED
        BY <3>1, <1>1, <1>2 DEF Filled
    <2>5. rd.lo <= frag[Last].at
      <3>1. End(Last) \in Nat
        BY <2>4, <1>1, Ends
      <3>2. ~(End(Last) <= rd.lo)
        BY <3>1, <2>1, <2>4, <1>2
      <3>3. QED
        BY <3>2, <2>3, <2>4
    <2>6. PICK f \in 1..Last : f \in 1..Last /\ frag[f].at = rd.lo
      <3>1. rd.lo + HeaderSize <= BlockOf(rd.lo) + BlockSize
        BY <1>2, <2>1, <2>2
      <3>2. QED
        BY <3>1, <2>3, <2>4, <2>5, <1>1, <1>2, FragmentHere
    <2>7. CASE End(f) <= Len(file)
      <3>1. \A c \in corrupted : Block(frag[f].at + 1) # Block(c)
        OBVIOUS
      <3>2. /\ p.lo = End(f) /\ ~p.drop
            /\ rd.lo >= rd.init => p.type = frag[f].type /\ p.type \in Starting \cup Continuing
        BY <3>1, <2>6, <2>7, <1>1, ReadsIt
      <3>3. rd.lo >= rd.init
        BY <1>2
      <3>4. QED
        BY <3>2, <3>3, <2>6
    <2>8. CASE ~(End(f) <= Len(file))
      <3>1. /\ frag[f].len \in Nat /\ End(f) \in Nat /\ f \in Nat /\ f > 0
            /\ End(f) = rd.lo + HeaderSize + frag[f].len
            /\ End(f) <= BlockOf(rd.lo) + BlockSize
        BY <2>6, <1>1, Ends, WriterTypes DEF Tiled
      <3>2. LengthCell = <<f, HeaderSize - 1>>
        <4> DEFINE j == rd.lo + HeaderSize
        <4>1. j \in (frag[f].at + 1)..End(f) /\ j <= Len(file) /\ j \notin corrupted
          <5>1. j <= Len(file)
            BY <1>2, <2>1, <2>2
          <5>2. QED
            BY <5>1, <3>1, <2>6, <1>2
        <4>2. file[j] = <<f, j - frag[f].at - 1>>
          BY <4>1, <2>6, <1>1 DEF Filled
        <4>3. j - frag[f].at - 1 = HeaderSize - 1
          BY <2>6, <1>2
        <4>4. QED
          BY <4>2, <4>3 DEF LengthCell
      <3>3. HeaderFragment = f /\ IsHeader /\ Length = frag[f].len /\ LengthCell # Zero
        <4>1. HeaderFragment = f /\ LengthCell[2] = HeaderSize - 1
          BY <3>2 DEF HeaderFragment
        <4>2. LengthCell[1] # Zero[1]
          BY <3>1, <3>2 DEF Zero
        <4>3. LengthCell # Zero
          BY <4>2
        <4>4. QED
          BY <4>1, <4>3, <3>1 DEF IsHeader, Length
      <3>4. ~Fits
        <4>1. CASE HeaderSize + frag[f].len <= rd.hi - rd.lo
          <5>1. End(f) <= rd.hi
            BY <4>1, <3>1, <1>2
          <5>2. QED
            BY <5>1, <2>2, <2>8, <3>1, <1>2
        <4>2. QED
          BY <4>1, <3>3, <2>1 DEF Fits
      <3>5. rd.eof
        <4>1. CASE ~rd.eof
          <5>1. rd.hi = BlockOf(rd.lo) + BlockSize /\ rd.hi <= Len(file)
            BY <4>1, <2>2
          <5>2. QED
            BY <5>1, <3>1, <2>8, <1>2
        <4>2. QED
          BY <4>1
      <3>6. p = TooLong
        BY <1>1, <1>4, <3>3, <3>4 DEF PhysicalRecords
      <3>7. QED
        BY <3>5, <3>6 DEF TooLong, Result
    <2>9. QED
      BY <2>7, <2>8
  <1>5. QED
    BY <1>3, <1>4

LEMMA ReadDropsNothing ==
    ASSUME LogAssumption, Sound, Complete, Steady, NEW p, Reads(p), corrupted = {}, rd.init = 0
    PROVE  /\ ~rd'.dropped
           /\ p.type # "eof" /\ ~rd'.inFragment =>
                 \A g \in 1..Last :
                     rd'.lo <= frag[g].at /\ (g = 1 \/ End(g - 1) <= rd'.lo) => frag[g].type \in Starting
  <1>1. /\ phase = "read" /\ WriterTypeOK /\ ReaderTypeOK /\ FragmentsOfRecords /\ ScratchWhole
        /\ Tiled /\ Cut /\ NothingDropped /\ rd.lo \in Nat /\ HeaderSize \in Nat \ {0}
        /\ Last \in Nat
    BY WriterTypes DEF Sound, WriterOK, ReaderOK, ReaderTypeOK, ReaderState, Complete, Reads,
                       LogAssumption
  <1>2. /\ ~rd.dropped
        /\ ~rd.inFragment =>
              \A g \in 1..Last :
                  rd.lo <= frag[g].at /\ (g = 1 \/ End(g - 1) <= rd.lo) => frag[g].type \in Starting
    BY <1>1 DEF NothingDropped
  <1>3. CASE p.type = "eof"
    <2>1. ~p.drop /\ p.type \notin Starting /\ p.type \notin Continuing /\ p.type # "bad"
      BY <1>3, ReadFacts DEF Starting, Continuing
    <2>2. ~rd'.dropped
      BY <2>1, <1>2, ReadFacts
    <2>3. QED
      BY <2>2, <1>3
  <1>4. CASE p.type # "eof"
    <2>1. PICK f \in 1..Last :
             /\ frag[f].at = rd.lo /\ p.lo = End(f) /\ ~p.drop /\ p.type = frag[f].type
             /\ p.type \in Starting \cup Continuing
      BY <1>4, FragmentOrEnd
    <2>2. f \in Nat /\ End(f) \in Nat /\ rd.lo + HeaderSize <= End(f)
      BY <2>1, <1>1, Ends
    <2>3. ASSUME p.type \in Starting, rd.inFragment PROVE FALSE
      <3>1. \E n \in 1..Current : \E k \in 1..Len(recs[n].frags) : Together(n, k)
        BY <2>3, <1>1 DEF ScratchWhole
      <3>2. PICK n \in 1..Current : \E k \in 1..Len(recs[n].frags) : Together(n, k)
        BY <3>1
      <3>3. PICK k \in 1..Len(recs[n].frags) : Together(n, k)
        BY <3>2
      <3> DEFINE l == recs[n].frags[k]
      <3>4. l \in 1..Last /\ l \in Nat
        BY <1>1, NumberOfFragment
      <3>5. frag[l].type \notin Ending /\ End(l) <= rd.lo
            /\ (End(l) = rd.lo \/ rd.lo < End(l) + HeaderSize)
        BY <3>3 DEF Together, Seen
      <3> HIDE DEF l
      <3>6. End(l) \in Nat /\ frag[l].at \in Nat /\ frag[l].at + HeaderSize <= End(l)
        BY <3>4, <1>1, Ends
      <3>7. l < f
        <4>1. CASE f <= l
          <5>1. frag[f].at <= frag[l].at
            BY <4>1, <3>4, <1>1, EndsInOrder
          <5>2. QED
            BY <5>1, <3>5, <3>6, <2>1, <1>1
        <4>2. QED
          BY <4>1, <3>4, <2>2
      <3>8. f = l + 1
        <4>1. CASE l + 1 < f
          <5>1. l + 1 \in 1..Last /\ l + 1 > l
            BY <4>1, <3>4, <2>2, <1>1
          <5>2. End(l) <= frag[l + 1].at /\ End(l + 1) <= frag[f].at
            BY <4>1, <5>1, <3>4, <1>1 DEF Tiled
          <5>3. /\ End(l + 1) \in Nat /\ frag[l + 1].at \in Nat
                /\ frag[l + 1].at + HeaderSize <= End(l + 1)
            BY <5>1, <1>1, Ends
          <5>4. QED
            BY <5>2, <5>3, <3>5, <3>6, <2>1, <1>1
        <4>2. QED
          BY <4>1, <3>4, <3>7, <2>2
      <3>9. l \in 1..(Last - 1)
        BY <3>4, <3>8, <2>1, <1>1
      <3>10. frag[l].type \in Ending <=> frag[f].type \in Starting
        BY <3>8, <3>9, <1>1 DEF Cut
      <3>11. QED
        BY <3>5, <3>10, <2>1, <2>3
    <2>4. ASSUME p.type \in Continuing, ~rd.inFragment PROVE FALSE
      <3>1. f = 1 \/ End(f - 1) <= rd.lo
        <4>1. CASE f # 1
          <5>1. f - 1 \in 1..Last /\ f - 1 < f
            BY <4>1, <2>2, <1>1
          <5>2. QED
            BY <5>1, <2>1, <1>1 DEF Tiled
        <4>2. QED
          BY <4>1
      <3>2. rd.lo <= frag[f].at
        BY <2>1, <1>1
      <3>3. frag[f].type \in Starting
        BY <3>1, <3>2, <2>4, <1>2
      <3>4. QED
        BY <3>3, <2>1, <2>4 DEF Starting, Continuing
    <2>5. p.type # "bad"
      BY <2>1 DEF Starting, Continuing
    <2>6. ~rd'.dropped
      BY <2>1, <2>3, <2>4, <2>5, <1>2, ReadFacts
    <2>7. ASSUME ~rd'.inFragment, NEW g \in 1..Last, rd'.lo <= frag[g].at,
                 g = 1 \/ End(g - 1) <= rd'.lo
          PROVE  frag[g].type \in Starting
      <3>1. rd'.lo = End(f)
        BY <2>1, ReadFacts
      <3>2. g \in Nat /\ frag[g].at \in Nat
        BY <1>1, Ends
      <3>3. f < g
        <4>1. CASE g <= f
          <5>1. frag[g].at <= frag[f].at
            BY <4>1, <2>1, <1>1, EndsInOrder
          <5>2. QED
            BY <5>1, <3>1, <3>2, <2>1, <2>2, <2>7, <1>1
        <4>2. QED
          BY <4>1, <3>2, <2>2
      <3>4. g = f + 1
        <4>1. CASE f + 1 < g
          <5>1. g - 1 \in 1..Last /\ f < g - 1 /\ g # 1
            BY <4>1, <3>2, <2>2, <1>1
          <5>2. End(f) <= frag[g - 1].at
            BY <5>1, <2>1, <1>1 DEF Tiled
          <5>3. /\ End(g - 1) \in Nat /\ frag[g - 1].at \in Nat
                /\ frag[g - 1].at + HeaderSize <= End(g - 1)
            BY <5>1, <1>1, Ends
          <5>4. End(g - 1) <= End(f)
            BY <5>1, <3>1, <2>7
          <5>5. QED
            BY <5>2, <5>3, <5>4, <2>2, <1>1
        <4>2. QED
          BY <4>1, <3>2, <3>3, <2>2
      <3>5. f \in 1..(Last - 1)
        BY <3>4, <2>2, <1>1
      <3>6. frag[f].type \in Ending <=> frag[g].type \in Starting
        BY <3>4, <3>5, <1>1 DEF Cut
      <3>7. p.type # "first"
        BY <2>7, ReadFacts
      <3>8. p.type # "middle"
        <4>1. CASE p.type = "middle"
          <5>1. rd.inFragment
            BY <4>1, <2>4 DEF Continuing
          <5>2. QED
            BY <4>1, <5>1, <2>7, ReadFacts
        <4>2. QED
          BY <4>1
      <3>9. frag[f].type \in Ending
        BY <3>7, <3>8, <2>1 DEF Starting, Continuing, Ending
      <3>10. QED
        BY <3>6, <3>9
    <2>8. QED
      BY <2>6, <2>7
  <1>5. QED
    BY <1>3, <1>4

LEMMA ReadFragmentComplete ==
    ASSUME LogAssumption, Sound, Complete, ReadFragment
    PROVE  Complete'
  <1> SUFFICES ASSUME Steady' PROVE Complete'
    BY DEF Complete
  <1>1. PICK p \in PhysicalRecords :
            rd' = Accept(p) /\ phase' = IF p.type = "eof" THEN "done" ELSE "read"
    BY DEF ReadFragment
  <1>2. /\ Reads(p) /\ UNCHANGED <<file, writer>> /\ phase = "read"
        /\ phase' \in {"read", "done"}
    BY <1>1 DEF ReadFragment, Reads
  <1>3. /\ WriterTypeOK /\ ReaderTypeOK
        /\ Steady /\ Tiled /\ Framed /\ AtCut /\ NothingMissed /\ NothingDropped
    BY <1>2 DEF Complete, Steady, writer, Sound, WriterOK, ReaderOK
  <1>4. /\ Tiled' /\ Filled' /\ Cut' /\ Last' = Last /\ Current' = Current
        /\ frag' = frag /\ recs' = recs /\ file' = file /\ corrupted' = corrupted
        /\ \A f : End(f)' = End(f)
        /\ \A n : LastFragment(n)' = LastFragment(n) /\ RecordAt(n)' = RecordAt(n)
    BY <1>2, <1>3, ReadingKeeps
  <1>5. /\ rd'.lo = p.lo /\ rd'.hi = rd.hi /\ rd'.eof = rd.eof /\ rd'.init = rd.init
        /\ rd.lo <= p.lo /\ p.lo <= rd.hi /\ p.lo \in Nat
        /\ p.lo = rd.hi \/ \E f \in 1..Last : p.lo = End(f)
    BY <1>2, ReadFacts
  <1>6. /\ rd.lo \in Nat /\ rd.hi \in Nat /\ Len(file) \in Nat /\ BlockSize \in Nat
        /\ Last \in Nat /\ rd.lo \in Int /\ p.lo \in Int /\ rd.hi \in Int
    BY <1>3, <1>5, WriterTypes DEF ReaderTypeOK, ReaderState, LogAssumption
  <1>7. Framed'
    <2>1. BlockOf(rd.lo) <= BlockOf(p.lo) /\ BlockOf(rd.lo) \in Int /\ BlockOf(p.lo) \in Int
      BY <1>5, <1>6, BlockOrder, BlockBounds
    <2>2. BlockOf(rd.lo)' = BlockOf(p.lo)
      BY <1>5 DEF BlockOf
    <2>3. CASE rd.eof
      <3>1. rd.hi >= Len(file) /\ rd.hi < BlockOf(rd.lo) + BlockSize
        BY <2>3, <1>3 DEF Framed
      <3>2. rd.hi < BlockOf(p.lo) + BlockSize
        BY <3>1, <2>1, <1>6
      <3>3. QED
        BY <2>2, <2>3, <3>1, <3>2, <1>4, <1>5 DEF Framed
    <2>4. CASE ~rd.eof
      <3>1. Aligned(rd.hi) /\ rd.hi <= rd.lo + BlockSize
        BY <2>4, <1>3 DEF Framed
      <3>2. rd.hi <= p.lo + BlockSize
        BY <3>1, <1>5, <1>6
      <3>3. QED
        BY <2>4, <3>1, <3>2, <1>5 DEF Framed, Aligned
    <2>5. QED
      BY <2>3, <2>4
  <1>8. AtCut'
    <2>1. (rd.eof /\ p.lo = rd.hi) \/ \A f \in 1..Last : p.lo <= frag[f].at \/ End(f) <= p.lo
      <3>1. CASE p.lo = rd.hi /\ ~rd.eof
        <4>1. Aligned(p.lo)
          BY <3>1, <1>3 DEF Framed
        <4>2. QED
          BY <4>1, <1>3, <1>6, AlignedIsCut
      <3>2. ASSUME NEW e \in 1..Last, p.lo = End(e), NEW f \in 1..Last
            PROVE  p.lo <= frag[f].at \/ End(f) <= p.lo
        <4>1. CASE f <= e
          BY <4>1, <3>2, <1>3, EndsInOrder
        <4>2. CASE e < f
          BY <4>2, <3>2, <1>3 DEF Tiled
        <4>3. QED
          BY <4>1, <4>2, <1>6
      <3>3. QED
        BY <3>1, <3>2, <1>5
    <2>2. CASE rd.eof /\ p.lo = rd.hi
      BY <2>2, <1>5 DEF AtCut
    <2>3. CASE \A f \in 1..Last : p.lo <= frag[f].at \/ End(f) <= p.lo
      <3>1. \A f \in 1..Last' : rd'.lo <= frag'[f].at \/ End(f)' <= rd'.lo
        BY <2>3, <1>4, <1>5
      <3>2. QED
        BY <3>1 DEF AtCut
    <2>4. QED
      BY <2>1, <2>2, <2>3
  <1>9. NothingMissed'
    <2> SUFFICES ASSUME NEW n \in 1..Current', Due(n)'
                 PROVE  Returned(n)' \/ (phase' = "read" /\ Ahead(n)')
      BY DEF NothingMissed
    <2>1. n \in 1..Current /\ Due(n)
      BY <1>4, <1>5 DEF Due
    <2>2. Returned(n) \/ Ahead(n)
      BY <2>1, <1>3 DEF NothingMissed
    <2>3. CASE Returned(n)
      BY <2>1, <2>3, <1>2, ReturnedStays
    <2>4. CASE Ahead(n)
      <3>1. Returned(n)' \/ (p.type # "eof" /\ Ahead(n)')
        BY <2>1, <2>4, <1>2, <1>3, ReadMissesNothing
      <3>2. p.type # "eof" => phase' = "read"
        BY <1>1
      <3>3. QED
        BY <3>1, <3>2
    <2>5. QED
      BY <2>2, <2>3, <2>4
  <1>10. NothingDropped'
    <2> SUFFICES ASSUME corrupted' = {}, rd'.init = 0
                 PROVE  /\ ~rd'.dropped
                        /\ \A g \in 1..Last' :
                              /\ phase' = "read" /\ ~rd'.inFragment /\ rd'.lo <= frag'[g].at
                              /\ g = 1 \/ End(g - 1)' <= rd'.lo
                              => frag'[g].type \in Starting
      BY DEF NothingDropped
    <2>1. /\ ~rd'.dropped
          /\ p.type # "eof" /\ ~rd'.inFragment =>
                \A g \in 1..Last :
                    rd'.lo <= frag[g].at /\ (g = 1 \/ End(g - 1) <= rd'.lo) => frag[g].type \in Starting
      BY <1>2, <1>3, <1>4, <1>5, ReadDropsNothing
    <2>2. phase' = "read" => p.type # "eof"
      BY <1>1
    <2>3. \A g : End(g - 1)' = End(g - 1)
      BY <1>4 DEF End
    <2>4. QED
      BY <2>1, <2>2, <2>3, <1>4
  <1>11. QED
    BY <1>4, <1>7, <1>8, <1>9, <1>10 DEF Complete

LEMMA NextComplete == ASSUME LogAssumption, Sound, Complete, [LogNext]_logVars PROVE Complete'
  <1>1. ASSUME NEW size \in Sizes, StartRecord(size) PROVE Complete'
    BY <1>1, StartRecordComplete
  <1>2. CASE EmitFragment
    <2>1. Steady' <=> Steady
      BY <1>2 DEF EmitFragment, Emit, Steady
    <2>2. CASE Steady
      BY <1>2, <2>2, EmitComplete
    <2>3. CASE ~Steady
      BY <2>1, <2>3 DEF Complete
    <2>4. QED
      BY <2>2, <2>3
  <1>3. CASE EmitFails
    BY <1>3, EmitFailsComplete
  <1>4. CASE Sync
    BY <1>4, SyncComplete
  <1>5. ASSUME NEW kept \in 0..Len(file), NEW at \in Offsets, CrashAndRead(kept, at)
        PROVE  Complete'
    BY <1>5, CrashComplete
  <1>6. ASSUME NEW i \in 1..Len(file), Corrupt(i) PROVE Complete'
    BY <1>6, CorruptComplete
  <1>7. CASE ReadBlock
    BY <1>7, ReadBlockComplete
  <1>8. CASE ReadFragment
    BY <1>8, ReadFragmentComplete
  <1>9. CASE Reopen
    BY <1>9, ReopenComplete
  <1>10. CASE Finished \/ UNCHANGED logVars
    <2>1. UNCHANGED logVars
      BY <1>10 DEF Finished
    <2>2. /\ (Tiled => Tiled') /\ (Filled => Filled') /\ (Cut => Cut')
      BY <2>1 DEF logVars, Tiled, Filled, Cut, Last, End, Aligned, BlockOf, Current, Whole,
                  LastFragment
    <2>3. (Framed => Framed') /\ (AtCut => AtCut') /\ (NothingDropped => NothingDropped')
      BY <2>1 DEF logVars, Framed, AtCut, NothingDropped, Last, End, Aligned, BlockOf
    <2>4. NothingMissed => NothingMissed'
      BY SMTT(30), <2>1 DEF logVars, NothingMissed, Due, Ahead, Returned, Current, End, LastFragment, RecordAt
    <2>5. QED
      BY <2>1, <2>2, <2>3, <2>4 DEF Complete, Steady, logVars
  <1>11. CASE ReadFails
    <2>1. /\ phase' = "error" /\ phase # "write"
          /\ UNCHANGED <<file, synced, frag, recs, offset, left, fails, corrupted, reopens>>
      BY <1>11 DEF ReadFails, writer
    <2>2. /\ (Tiled => Tiled') /\ (Filled => Filled') /\ (Cut => Cut')
      BY <2>1 DEF Tiled, Filled, Cut, Last, End, Aligned, BlockOf, Current, Whole, LastFragment
    <2>3. QED
      BY <2>1, <2>2 DEF Complete, Steady
  <1>12. QED
    BY <1>1, <1>2, <1>3, <1>4, <1>5, <1>6, <1>7, <1>8, <1>9, <1>10, <1>11 DEF LogNext

LEMMA SoundAndComplete ==
    ASSUME LogAssumption PROVE LogSpec => [](Sound /\ Complete)
  <1>1. LogInit => Sound /\ Complete
    BY InitSound, InitComplete
  <1>2. Sound /\ Complete /\ [LogNext]_logVars => (Sound /\ Complete)'
    BY NextSound, NextComplete
  <1>3. QED
    BY <1>1, <1>2, PTL DEF LogSpec

(* When the reader is done with a log that no append failed on, what it has   *)
(* returned is whole, in the file and after the initial offset, and what was  *)
(* due has been returned.                                                     *)
LEMMA Done ==
    ASSUME LogAssumption, Sound, Complete, Steady, phase = "done", NEW n \in DOMAIN recs
    PROVE  /\ n \in 1..Current
           /\ Returned(n) => /\ recs[n].status = "ok" /\ End(LastFragment(n)) <= Len(file)
                             /\ RecordAt(n) >= rd.init
           /\ Due(n) => Returned(n)
           /\ InFile(n) => recs[n].status = "ok" /\ End(LastFragment(n)) <= Len(file)
           /\ corrupted = {} /\ recs[n].status = "ok" /\ End(LastFragment(n)) <= Len(file)
                 => InFile(n)
           /\ recs[n].synced => recs[n].status = "ok" /\ End(LastFragment(n)) <= Len(file)
           /\ recs[n].status = "ok" => RecordAt(n) \in Nat
  <1>1. /\ WriterTypeOK /\ FragmentsOfRecords /\ CellsInPlace /\ OutWhole /\ ReaderTypeOK
        /\ Tiled /\ Filled /\ Cut /\ NothingMissed
    BY DEF Sound, WriterOK, ReaderOK, Complete
  <1>2. n \in 1..Current /\ DOMAIN file = 1..Len(file) /\ Len(file) \in Nat
        /\ synced \in 0..Len(file) /\ HeaderSize \in Nat \ {0}
    BY <1>1, WriterTypes DEF WriterTypeOK, Current, LogAssumption
  <1>3. /\ recs[n].status = "ok" <=> Whole(n)
        /\ recs[n].synced => recs[n].status = "ok" /\ End(LastFragment(n)) <= synced
    BY <1>1, <1>2 DEF Cut
  <1> DEFINE l == LastFragment(n)
  <1>4. ASSUME Whole(n)
        PROVE  /\ l \in 1..Last /\ l \in Nat /\ l > 0 /\ End(l) \in Nat /\ frag[l].at \in Nat
               /\ End(l) = frag[l].at + HeaderSize + frag[l].len /\ frag[l].len \in Nat
               /\ RecordAt(n) \in Nat
    <2>1. l \in 1..Last /\ recs[n].frags[1] \in 1..Last
      BY <1>1, <1>2, <1>4, LastOfWhole
    <2> HIDE DEF l
    <2>2. /\ l \in Nat /\ End(l) \in Nat /\ frag[l].at \in Nat
          /\ End(l) = frag[l].at + HeaderSize + frag[l].len
          /\ frag[recs[n].frags[1]].at \in Nat
      BY <2>1, <1>1, Ends
    <2>3. frag[l].len \in Nat
      BY <2>1, <1>1, WriterTypes
    <2>4. l > 0
      BY <2>1
    <2>5. QED
      BY <2>1, <2>2, <2>3, <2>4 DEF RecordAt
  <1>5. ASSUME Returned(n)
        PROVE  recs[n].status = "ok" /\ End(LastFragment(n)) <= Len(file) /\ RecordAt(n) >= rd.init
    <2>1. PICK i \in DOMAIN rd.out : rd.out[i] = recs[n].frags
      BY <1>5 DEF Returned
    <2>2. i \in 1..Len(rd.out)
      BY <1>1 DEF ReaderTypeOK, ReaderState
    <2>3. PICK m \in 1..Current : Whole(m) /\ rd.out[i] = recs[m].frags
                                  /\ Seen(LastFragment(m)) /\ RecordAt(m) >= rd.init
      BY <2>2, <1>1 DEF OutWhole
    <2>4. recs[m].frags = recs[n].frags
      BY <2>1, <2>3
    <2>5. LastFragment(m) = LastFragment(n) /\ RecordAt(m) = RecordAt(n)
      BY <2>4 DEF LastFragment, RecordAt
    <2>6. Whole(n)
      BY <2>3, <2>4, <2>5 DEF Whole
    <2>7. End(LastFragment(n)) <= Len(file)
      BY <2>3, <2>5 DEF Seen
    <2>8. QED
      BY <2>3, <2>5, <2>6, <2>7, <1>3
  <1>6. Due(n) => Returned(n)
    BY <1>1, <1>2 DEF NothingMissed
  <1>7. ASSUME InFile(n) PROVE recs[n].status = "ok" /\ End(LastFragment(n)) <= Len(file)
    <2>1. recs[n].status = "ok" /\ Whole(n)
      BY <1>3, <1>7 DEF InFile
    <2>2. PICK i \in DOMAIN file : file[i] = LastCell(n)
      BY <1>7 DEF InFile
    <2>3. file[i][1] = l /\ file[i][2] = HeaderSize + frag[l].len - 1
      BY <2>2 DEF LastCell, Data
    <2>4. i = frag[l].at + (HeaderSize + frag[l].len - 1) + 1
      BY <2>1, <2>3, <1>1, <1>2, <1>4 DEF CellsInPlace
    <2> HIDE DEF l
    <2>5. i = End(l)
      BY <2>1, <2>4, <1>2, <1>4
    <2>6. QED
      BY <2>1, <2>5, <1>2 DEF l
  <1>8. ASSUME corrupted = {}, recs[n].status = "ok", End(l) <= Len(file) PROVE InFile(n)
    <2>1. Whole(n)
      BY <1>3, <1>8
    <2> HIDE DEF l
    <2>0. /\ l \in 1..Last /\ End(l) \in Nat /\ frag[l].at \in Nat /\ frag[l].len \in Nat
          /\ End(l) = frag[l].at + HeaderSize + frag[l].len /\ End(l) <= Len(file)
          /\ HeaderSize \in Nat /\ HeaderSize > 0 /\ Len(file) \in Nat
      BY <2>1, <1>2, <1>4, <1>8
    <2>2. /\ End(l) \in (frag[l].at + 1)..End(l) /\ l \in 1..Last /\ End(l) \notin corrupted
          /\ End(l) \in DOMAIN file
      <3>1. End(l) \in (frag[l].at + 1)..End(l) /\ End(l) \in 1..Len(file)
        BY SMTT(30), <2>0
      <3>2. QED
        BY <3>1, <2>0, <1>2, <1>8
    <2>3. file[End(l)] = <<l, End(l) - frag[l].at - 1>>
      BY <2>2, <1>1, <1>8 DEF Filled
    <2>4. End(l) - frag[l].at - 1 = HeaderSize + frag[l].len - 1
      <3> DEFINE e == End(l)
                 a == frag[l].at
                 s == frag[l].len
      <3>1. e = a + HeaderSize + s /\ a \in Nat /\ s \in Nat /\ HeaderSize \in Nat
        BY <2>0
      <3> HIDE DEF e, a, s
      <3>2. e - a - 1 = HeaderSize + s - 1
        BY <3>1
      <3>3. QED
        BY <3>2 DEF e, a, s
    <2>5. file[End(l)] = LastCell(n)
      BY <2>3, <2>4 DEF LastCell, Data, l
    <2>6. QED
      BY <2>2, <2>5, <1>8 DEF InFile
  <1>9. ASSUME recs[n].synced PROVE recs[n].status = "ok" /\ End(LastFragment(n)) <= Len(file)
    <2>1. Whole(n) /\ End(l) <= synced /\ recs[n].status = "ok"
      BY <1>3, <1>9
    <2>2. End(l) \in Nat
      BY <2>1, <1>4
    <2> HIDE DEF l
    <2>3. QED
      BY <2>1, <2>2, <1>2 DEF l
  <1>10. recs[n].status = "ok" => RecordAt(n) \in Nat
    BY <1>3, <1>4
  <1> HIDE DEF l
  <1>11. QED
    BY <1>2, <1>5, <1>6, <1>7, <1>8, <1>9, <1>10 DEF l

(* A crash of an undamaged log loses only what was not synced, from some      *)
(* record on, and the torn tail is not reported as corruption.                *)
THEOREM LogCrashLosesOnlyTheTail ==
    ASSUME LogAssumption PROVE LogSpec => []CrashLosesOnlyTheTail
  <1>1. ASSUME Sound, Complete PROVE CrashLosesOnlyTheTail
    <2> SUFFICES ASSUME phase = "done", Undamaged, rd.init = 0
                 PROVE  /\ ~rd.dropped
                        /\ \A n \in DOMAIN recs : Returned(n) <=> InFile(n)
                        /\ \A n \in DOMAIN recs : recs[n].synced => Returned(n)
      BY DEF CrashLosesOnlyTheTail
    <2>1. Steady /\ corrupted = {}
      BY DEF Undamaged, Steady
    <2>2. ~rd.dropped
      BY <1>1, <2>1 DEF Complete, NothingDropped
    <2>3. ASSUME NEW n \in DOMAIN recs
          PROVE  (Returned(n) <=> InFile(n)) /\ (recs[n].synced => Returned(n))
      <3>1. ASSUME recs[n].status = "ok", End(LastFragment(n)) <= Len(file) PROVE Returned(n)
        <4>1. RecordAt(n) >= rd.init
          BY <3>1, <1>1, <2>1, Done
        <4>2. Due(n)
          BY <3>1, <4>1, <2>1 DEF Due
        <4>3. QED
          BY <4>2, <1>1, <2>1, Done
      <3>2. InFile(n) => Returned(n)
        BY <3>1, <1>1, <2>1, Done
      <3>3. Returned(n) => InFile(n)
        BY <1>1, <2>1, Done
      <3>4. recs[n].synced => Returned(n)
        BY <3>1, <1>1, <2>1, Done
      <3>5. QED
        BY <3>2, <3>3, <3>4
    <2>4. QED
      BY <2>2, <2>3
  <1>2. Sound /\ Complete => CrashLosesOnlyTheTail
    BY <1>1
  <1>3. QED
    BY <1>2, SoundAndComplete, PTL

(* A reader given an initial offset returns every record that begins there or *)
(* later and none that begins before it.                                      *)
THEOREM LogReaderStartsAtOffset ==
    ASSUME LogAssumption PROVE LogSpec => []NoRecordAfterOffsetMissed
  <1>1. ASSUME Sound, Complete PROVE NoRecordAfterOffsetMissed
    <2> SUFFICES ASSUME phase = "done", Undamaged, NEW n \in DOMAIN recs, InFile(n)
                 PROVE  Returned(n) <=> RecordAt(n) >= rd.init
      BY DEF NoRecordAfterOffsetMissed
    <2>1. Steady /\ corrupted = {}
      BY DEF Undamaged, Steady
    <2>2. Returned(n) => RecordAt(n) >= rd.init
      BY <1>1, <2>1, Done
    <2>3. ASSUME RecordAt(n) >= rd.init PROVE Returned(n)
      <3>1. recs[n].status = "ok" /\ End(LastFragment(n)) <= Len(file)
        BY <1>1, <2>1, Done
      <3>2. Due(n)
        BY <3>1, <2>1, <2>3 DEF Due
      <3>3. QED
        BY <3>2, <1>1, <2>1, Done
    <2>4. QED
      BY <2>2, <2>3
  <1>2. Sound /\ Complete => NoRecordAfterOffsetMissed
    BY <1>1
  <1>3. QED
    BY <1>2, SoundAndComplete, PTL

(* Bytes the medium has changed cost no record outside their blocks.          *)
THEOREM LogDamageStaysInItsBlock ==
    ASSUME LogAssumption PROVE LogSpec => []DamageStaysInItsBlock
  <1>1. ASSUME Sound, Complete PROVE DamageStaysInItsBlock
    <2> SUFFICES ASSUME phase = "done", fails = 0, reopens = 0, rd.init = 0,
                        NEW n \in DOMAIN recs, InFile(n),
                        \A k \in DOMAIN recs[n].frags : \A c \in corrupted :
                            Block(frag[recs[n].frags[k]].at + 1) # Block(c)
                 PROVE  Returned(n)
      BY DEF DamageStaysInItsBlock
    <2>1. Steady
      BY DEF Steady
    <2>2. recs[n].status = "ok" /\ End(LastFragment(n)) <= Len(file)
      BY <1>1, <2>1, Done
    <2>3. RecordAt(n) >= rd.init
      BY <1>1, <2>1, <2>2, Done
    <2>4. Due(n)
      BY <2>2, <2>3 DEF Due
    <2>5. QED
      BY <2>4, <1>1, <2>1, Done
  <1>2. Sound /\ Complete => DamageStaysInItsBlock
    BY <1>1
  <1>3. QED
    BY <1>2, SoundAndComplete, PTL
=============================================================================
