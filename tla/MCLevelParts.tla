---------------------------- MODULE MCLevelParts -----------------------------
(***************************************************************************)
(* The parts of leveldb and nanopb that one thread at a time works on, and  *)
(* the skip list, on small instances.  A behavior is one of one part; the   *)
(* others take turns in the variables v1 to v11, which are 0 when unused.   *)
(***************************************************************************)
EXTENDS LevelSkipList, LevelLog, LevelRepair, LevelCompaction, PbDecode, MCPbTypes

VARIABLES part, v1, v2, v3, v4, v5, v6, v7, v8, v9, v10, v11

-----------------------------------------------------------------------------
(* The instances                                                             *)

(* Two keys, puts of either and of both, deletions of one, one snapshot,      *)
(* levels that a flush may not reach at once.                                 *)
TwoKeys == {1, 2}
SmallBatches == {{[key |-> k, del |-> FALSE] : k \in S} : S \in SUBSET TwoKeys \ {{}}}
                    \cup {{[key |-> 2, del |-> TRUE]}}

(* One CompactRange among three keys, in parts of one entry.                   *)
RangeBatches == {{[key |-> k, del |-> FALSE] : k \in S} : S \in {{1}, {2}, {1, 3}}}
Range3 == INSTANCE LevelCompaction
    WITH Keys <- 1..3, NumLevels <- 4, MaxMemCompactLevel <- 2, L0Trigger <- 2,
         LevelLimit <- 3, FileLimit <- 1, OverlapLimit <- 2, ExpandLimit <- 4,
         BufferLimit <- 0, Batches <- RangeBatches,
         MaxSequence <- 4, MaxSnapshots <- 0, MaxManual <- 1,
         levels <- v1, pointer <- v2, tables2 <- v3, sequence <- v4, snaps <- v5,
         job <- v6, call <- v7, past <- v8

Iter == INSTANCE LevelIter
    WITH Keys <- TwoKeys, Writes <- 3,
         layout <- v1, merge <- v2, dbit <- v3, cursor <- v4, sweep <- v5

Cache == INSTANCE LevelCache
    WITH Users <- {1, 2}, Names <- 1..3, Capacity <- 2, Shards <- 2,
         ShardOf <- <<1, 1, 2>>, MaxCleanups <- 2, MaxEntries <- 3,
         entry <- v1, table <- v2, lists <- v3, usage <- v4, user <- v5

(* Blocks: the strings of at most two of two bytes.                           *)
ShortStrings == UNION {[1..n -> 1..2] : n \in 0..2}
BlockPart == INSTANCE LevelBlock
    WITH Strings <- ShortStrings, Intervals <- {1, 2}, MaxKeys <- 4,
         builder <- v1, broken <- v2, iter <- v3, place <- v4

(* Tables: keys of bytes up to 3, the top byte, and a hash that collides.     *)
TableKeys == {<<>>, <<1>>, <<1, 1>>, <<1, 3>>, <<2, 2>>, <<3>>, <<3, 3>>}
SomeHash == [k \in TableKeys |->
    CASE k = <<>> -> 0 [] k = <<1>> -> 3 [] k = <<1, 1>> -> 13 [] k = <<1, 3>> -> 6
      [] k = <<2, 2>> -> 11 [] k = <<3>> -> 5 [] OTHER -> 15]
TablePart == INSTANCE LevelTable
    WITH UserKeys <- TableKeys, TopByte <- 3, Sequences_ <- {1, 2}, MaxSequence <- 2,
         BlockSizes <- {1, 2, 5}, FilterBase <- 2, Hash <- SomeHash, HashSize <- 16,
         BitsPerKey <- 2, Probes <- 2, LeastBits <- 4, ByteBits <- 4, MaxEntries <- 3,
         pending <- v1, index <- v2, blocks <- v3, filter <- v4, offset <- v5,
         status <- v6, added <- v7

(* A damaged table of two entries, read twice.                                 *)
FewKeys == {<<1>>, <<1, 3>>, <<3>>}
File == INSTANCE LevelTableFile
    WITH UserKeys <- FewKeys, TopByte <- 3, Sequences_ <- {1}, MaxSequence <- 1,
         BlockSizes <- {1, 2}, FilterBase <- 2, Hash <- [k \in FewKeys |-> SomeHash[k]],
         HashSize <- 16, BitsPerKey <- 2, Probes <- 2, LeastBits <- 4, ByteBits <- 4,
         MaxEntries <- 2, Damages <- {"changed", "badtype", "short", "unreadable"}, MaxGets <- 2,
         pending <- v1, index <- v2, blocks <- v3, filter <- v4, offset <- v5,
         status <- v6, added <- v7, damage <- v8, open <- v9, cached <- v10, answer <- v11

(* Memory in blocks of 16 cells, nodes of one and two levels.                  *)
Mem == INSTANCE LevelMemTable
    WITH MemKeys <- {<<>>, <<1>>, <<1, 2>>}, MemValues <- {<<>>, <<7>>}, TypeRange <- 2,
         ArenaBlock <- 16, Align <- 2, PointerSize <- 2, NodeSizes <- {4, 6}, MaxAdds <- 3,
         arena <- v1, nodes <- v2, writes <- v3

(* Records around the word boundaries, of bytes of all sizes.                 *)
Checksum == INSTANCE LevelChecksum
    WITH Samples <- {[i \in 1..n |-> (i * 73 + n) % 256] : n \in {0, 1, 4, 7, 9, 11}},
         record <- v1, address <- v2, done <- v3, crc <- v4

(* Varints of groups of 4, words of 32 and longs of 512 values.               *)
Item(t, a) == [tag |-> t, args |-> a]
SomeEdits ==
    {<<Item(2, <<n>>), Item(9, <<0>>), Item(3, <<300>>), Item(4, <<511>>)>> : n \in {0, 3, 4, 63, 64}}
        \cup {<<Item(1, <<<<7, 1>>>>), Item(5, <<2, <<1, 2, 3, 4>>>>), Item(6, <<1, 17>>),
                Item(6, <<2, 5>>), Item(7, <<1, 70, 9, <<>>, <<6>>>>)>>, <<>>}
SomeBatches == {<<>>, <<Item(1, <<<<1>>, <<>>>>)>>,
                <<Item(0, <<<<5, 1, 0, 4, 2>>>>), Item(1, <<<<>>, <<1, 1>>>>)>>}
Coding == INSTANCE LevelCoding
    WITH Group <- 4, Groups32 <- 3, Width32 <- 32, Groups64 <- 5, Width64 <- 512,
         NumLevels <- 7, Edits <- SomeEdits, Batches <- SomeBatches,
         Digits <- UNION {[1..n -> {0, 1, 2, 5, 9}] : n \in 0..4},
         kind <- v1, given <- v2, input <- v3, cut <- v4, items <- v5, result <- v6

(* A message with submessages in it, behind a pointer and in an array, and one *)
(* with a oneof.                                                              *)
Member(t, h, a, l, sub) == [tag |-> t, h |-> h, a |-> a, l |-> l, sub |-> sub]
InnerMembers == <<Member(1, "single", "pointer", "bytes", <<>>), Member(2, "repeated", "pointer", "bytes", <<>>),
           Member(3, "single", "static", "number", <<>>)>>
OuterMembers == <<Member(1, "single", "pointer", "submessage", InnerMembers),
           Member(2, "single", "static", "submessage", InnerMembers),
           Member(3, "repeated", "pointer", "submessage", InnerMembers)>>
OneofMembers == <<Member(1, "oneof", "pointer", "number", <<>>), Member(2, "oneof", "pointer", "submessage", InnerMembers),
            Member(3, "oneof", "pointer", "bytes", <<>>), Member(4, "repeated", "pointer", "number", <<>>)>>
Memory == INSTANCE PbMemory
    WITH Types <- {OuterMembers, OneofMembers}, MaxFields <- 4,
         objects <- v1, heap <- v2, stack <- v3, arrived <- v4, status <- v5

ASSUME /\ SkipAssumption /\ Cache!CacheAssumption /\ LogAssumption /\ RepairAssumption
       /\ CompactionAssumption /\ Range3!CompactionAssumption

-----------------------------------------------------------------------------
(* The parts                                                                 *)

shared == <<v1, v2, v3, v4, v5, v6, v7, v8, v9, v10, v11>>
partsVars == <<skipVars, logVars, repairVars, levelsVars, pbVars, shared, part>>

Zero8 == v9 = 0 /\ v10 = 0 /\ v11 = 0
Zero7 == v8 = 0 /\ Zero8
Zero6 == v7 = 0 /\ Zero7
Zero5 == v6 = 0 /\ Zero6
Zero4 == v5 = 0 /\ Zero5
Zero3 == v4 = 0 /\ Zero4
AllZero == v1 = 0 /\ v2 = 0 /\ v3 = 0 /\ Zero3
After3 == <<v4, v5, v6, v7, v8, v9, v10, v11>>
After4 == <<v5, v6, v7, v8, v9, v10, v11>>
After5 == <<v6, v7, v8, v9, v10, v11>>
After6 == <<v7, v8, v9, v10, v11>>
After7 == <<v8, v9, v10, v11>>
After8 == <<v9, v10, v11>>

(* The skip list, the log, the repair and nanopb have variables of their own;  *)
(* the rest of the parts share theirs.                                        *)
NoDirectory ==
    /\ tables = [n \in Numbers |-> Absent] /\ logs = [n \in Numbers |-> {}]
    /\ lost = NothingLost /\ rep = Off /\ listed = {}
    /\ before = [readable |-> {}, crashes |-> 0, faults |-> 0, replaced |-> {}]
NoScene == scene = <<>> /\ sent = <<>> /\ wire = <<>> /\ frames = <<>> /\ outcome = "sending"

PartsInit ==
    /\ SkipInit /\ LogInit /\ LevelsInit
    /\ \/ part \in {"skiplist", "log", "repair", "compaction", "pb"} /\ AllZero
       \/ part = "range" /\ Range3!LevelsInit /\ Zero8
       \/ part = "iterator" /\ Iter!Init /\ Zero5
       \/ part = "cache" /\ Cache!CacheInit /\ Zero5
       \/ part = "block" /\ BlockPart!BlockInit /\ Zero4
       \/ part = "table" /\ TablePart!TableInit /\ Zero7
       \/ part = "file" /\ File!FileInit
       \/ part = "memtable" /\ Mem!MemInit /\ Zero3
       \/ part = "checksum" /\ Checksum!SumInit /\ Zero4
       \/ part = "coding" /\ Coding!CodingInit /\ Zero6
       \/ part = "memory" /\ Memory!MemoryInit /\ Zero5
    /\ IF part = "repair" THEN RepairInit ELSE NoDirectory
    /\ IF part = "pb" THEN PbInit ELSE NoScene

Turn(p, unused) ==
    part = p /\ UNCHANGED <<skipVars, logVars, repairVars, levelsVars, pbVars, part, unused>>
SkipListNext == part = "skiplist" /\ SkipNext
                /\ UNCHANGED <<logVars, repairVars, levelsVars, pbVars, shared, part>>
CompactionNext == part = "compaction" /\ LevelsNext
                  /\ UNCHANGED <<skipVars, logVars, repairVars, pbVars, shared, part>>
RangeNext == Turn("range", After8) /\ Range3!LevelsNext
IteratorNext == Turn("iterator", After5) /\ Iter!Next
CachePartNext == Turn("cache", After5) /\ Cache!CacheNext
BlockPartNext == Turn("block", After4) /\ BlockPart!BlockNext
TablePartNext == Turn("table", After7) /\ TablePart!TableNext
FilePartNext == Turn("file", <<>>) /\ File!FileNext
MemTableNext == Turn("memtable", After3) /\ Mem!MemNext
ChecksumNext == Turn("checksum", After4) /\ Checksum!SumNext
RepairPartNext == part = "repair" /\ RepairNext
                  /\ UNCHANGED <<skipVars, logVars, levelsVars, pbVars, shared, part>>
CodingPartNext == Turn("coding", After6) /\ Coding!CodingNext
MemoryPartNext == Turn("memory", After5) /\ Memory!MemoryNext
LogPartNext == part = "log" /\ LogNext
               /\ UNCHANGED <<skipVars, repairVars, levelsVars, pbVars, shared, part>>
PbPartNext == part = "pb" /\ PbNext
              /\ UNCHANGED <<skipVars, logVars, repairVars, levelsVars, shared, part>>

PartsNext ==
    \/ SkipListNext \/ CompactionNext \/ RangeNext \/ IteratorNext \/ CachePartNext
    \/ BlockPartNext \/ TablePartNext \/ FilePartNext \/ MemTableNext
    \/ ChecksumNext \/ RepairPartNext \/ CodingPartNext
    \/ LogPartNext \/ MemoryPartNext \/ PbPartNext
PartsSpec == PartsInit /\ [][PartsNext]_partsVars

-----------------------------------------------------------------------------
(* The properties of the parts; SearchFinds is the skip list's, RepairKeeps   *)
(* the repair's, DecodesWhatWasSent and EncodesAsSized are nanopb's, and the  *)
(* log's are in LevelLog.                                                    *)

(* CompactRange leaves nothing of its range above the last level that had any, *)
(* unless a memtable was flushed meanwhile, and costs no read an entry.       *)
RangesMovedDown == part = "range" => Range3!RangeMovedDown /\ Range3!SnapshotReads
(* The database iterator stands where a sorted list of the keys would.        *)
IteratorFollowsList == part = "iterator" => Iter!IteratorFollowsList
(* A block that could not be read is never passed over in silence.            *)
NoSilentGap == part = "iterator" => Iter!NoSilentGap
(* The cache frees what nobody can reach, and nothing else.                   *)
FreedWhenUnreachable == part = "cache" => Cache!FreedWhenUnreachable
(* The iterator of a block stands where a sorted list would.                  *)
BlockIterFollowsList == part = "block" => BlockPart!BlockIterFollowsList
(* A key that was added is found through index, filter and block, what is      *)
(* damaged is noticed by the reads that can, and a get in memory finds the     *)
(* last write up to its number.                                              *)
TableGetFinds ==
    /\ part = "memtable" => Mem!MemTableGets
    /\ part = "table" => TablePart!TableGetFinds
    /\ part = "file" => File!TableFileFinds
(* What is decoded is what was encoded, a cut record is refused, and the      *)
(* checksum of a record does not depend on how it lies in memory.             *)
RecordsReadBack ==
    /\ part = "coding" => Coding!RecordsReadBack
    /\ part = "checksum" => Checksum!ChecksumsAgree
(* What nanopb allocates has one owner, and none when it is done.             *)
BlocksOwnedOnce == part = "memory" => Memory!BlocksOwnedOnce
==============================================================================
