---------------------------- MODULE LevelMemTable ----------------------------
(***************************************************************************)
(* The memtable (db/memtable.cc): what an entry looks like in memory, the   *)
(* arena that gives the memory to entries and to the skip list's nodes      *)
(* (util/arena.cc), the internal key with its number and type in one word   *)
(* (db/dbformat.h), and Get with a LookupKey.  The order of the list is      *)
(* LevelSkipList's subject.  A cell is a byte; a length and a packed word    *)
(* take one cell each.                                                      *)
(***************************************************************************)
EXTENDS Integers, Sequences, FiniteSets

CONSTANTS MemKeys,       \* user keys: sequences of bytes
          MemValues,     \* values: the same
          TypeRange,     \* 256: what is left for the type in the packed word
          ArenaBlock,    \* kBlockSize
          Align,         \* the alignment of a pointer
          PointerSize,   \* sizeof(char*)
          NodeSizes,     \* what a node of the skip list may take
          MaxAdds        \* bound

VARIABLES
    arena,    \* [blocks, current, at, left, usage]: Arena's members
    nodes,    \* the places of the entries in the skip list
    writes    \* what was given to Add: [seq, type, key, value]

memVars == <<arena, nodes, writes>>

kTypeDeletion == 0
kTypeValue == 1
kValueTypeForSeek == kTypeValue
Node == -1          \* a cell of the skip list's
Unwritten == -2     \* new char[] says nothing of the contents

MemInit ==
    /\ arena = [blocks |-> <<>>, current |-> 0, at |-> 0, left |-> 0, usage |-> 0]
    /\ nodes = {} /\ writes = <<>>

-----------------------------------------------------------------------------
(* Arena: each operator gives the place and the arena after it               *)

NewBlock(a, size) ==
    [a EXCEPT !.blocks = Append(@, [i \in 1..size |-> Unwritten]),
              !.usage = @ + size + PointerSize]

(* More than a quarter of a block gets one of its own; else the rest of the   *)
(* current one is given up.                                                  *)
AllocateFallback(a, bytes) ==
    LET fresh == Len(a.blocks) + 1
    IN [place |-> [block |-> fresh, at |-> 0],
        arena |-> IF bytes > ArenaBlock \div 4 THEN NewBlock(a, bytes)
                  ELSE [NewBlock(a, ArenaBlock) EXCEPT
                           !.current = fresh, !.at = bytes, !.left = ArenaBlock - bytes]]

Taken(a, skipped, bytes) ==
    [place |-> [block |-> a.current, at |-> a.at + skipped],
     arena |-> [a EXCEPT !.at = @ + skipped + bytes, !.left = @ - skipped - bytes]]
Allocate(a, bytes) == IF bytes <= a.left THEN Taken(a, 0, bytes) ELSE AllocateFallback(a, bytes)

Slop(a) == (Align - (a.at % Align)) % Align
AllocateAligned(a, bytes) ==
    IF bytes + Slop(a) <= a.left THEN Taken(a, Slop(a), bytes) ELSE AllocateFallback(a, bytes)

(* Cells put at a place; those past the end of the block are someone else's.  *)
Written(a, place, cells) ==
    [a EXCEPT !.blocks[place.block] =
        [i \in 1..Len(@) |-> IF i - place.at \in DOMAIN cells THEN cells[i - place.at] ELSE @[i]]]

-----------------------------------------------------------------------------
(* Internal keys                                                             *)

PackSequenceAndType(seq, type) == seq * TypeRange + type
InternalKey(key, seq, type) == Append(key, PackSequenceAndType(seq, type))
ExtractUserKey(ikey) == SubSeq(ikey, 1, Len(ikey) - 1)
Number(ikey) == ikey[Len(ikey)]
ParseInternalKey(ikey) ==
    [user |-> ExtractUserKey(ikey), seq |-> Number(ikey) \div TypeRange,
     type |-> Number(ikey) % TypeRange]

BytesLess(s, t) ==
    \E n \in 0..Len(s) :
        /\ n <= Len(t) /\ SubSeq(s, 1, n) = SubSeq(t, 1, n)
        /\ n < Len(t) /\ (n = Len(s) \/ s[n + 1] < t[n + 1])
KeyLess(a, b) ==
    \/ BytesLess(ExtractUserKey(a), ExtractUserKey(b))
    \/ ExtractUserKey(a) = ExtractUserKey(b) /\ Number(a) > Number(b)

-----------------------------------------------------------------------------
(* The memtable                                                              *)

EntryLength(key, value) == 1 + (Len(key) + 1) + 1 + Len(value)
Entry(w) ==
    <<Len(w.key) + 1>> \o InternalKey(w.key, w.seq, w.type) \o <<Len(w.value)>> \o w.value

Cells(place) == SubSeq(arena.blocks[place.block], place.at + 1, Len(arena.blocks[place.block]))
GetLengthPrefixedSlice(cells) == SubSeq(cells, 2, 1 + cells[1])
KeyAt(place) == GetLengthPrefixedSlice(Cells(place))
ValueAt(place) ==
    GetLengthPrefixedSlice(SubSeq(Cells(place), 2 + Len(KeyAt(place)), Len(Cells(place))))

(* MemTable::Add: the entry from the arena, then SkipList::Insert's node, which *)
(* holds pointers and must be aligned.  A write has a number of its own.      *)
AddEntry(type, key, value, node) ==
    LET w == [seq |-> Len(writes) + 1, type |-> type, key |-> key, value |-> value]
        entry == Allocate(arena, EntryLength(key, value))
        filled == Written(entry.arena, entry.place, Entry(w))
        link == AllocateAligned(filled, node)
    IN /\ Len(writes) < MaxAdds
       /\ arena' = Written(link.arena, link.place, [i \in 1..node |-> Node])
       /\ nodes' = nodes \cup {entry.place}
       /\ writes' = Append(writes, w)

MemNext ==
    \E key \in MemKeys, node \in NodeSizes :
        \/ \E value \in MemValues : AddEntry(kTypeValue, key, value, node)
        \/ AddEntry(kTypeDeletion, key, <<>>, node)
MemSpec == MemInit /\ [][MemNext]_memVars

(* A LookupKey sorts before everything of that number and before, the types    *)
(* being the low end of a word that sorts downwards.                         *)
LookupKey(key, seq) == InternalKey(key, seq, kValueTypeForSeek)

(* MemTable::Get: <<value>>, <<>> for a deletion, "none" when it has neither.   *)
MemGet(key, seq) ==
    LET after == {p \in nodes : ~KeyLess(KeyAt(p), LookupKey(key, seq))}
        first == CHOOSE p \in after : \A q \in after : ~KeyLess(KeyAt(q), KeyAt(p))
        found == ParseInternalKey(KeyAt(first))
    IN IF after = {} \/ found.user # key THEN [has |-> FALSE, value |-> <<>>]
       ELSE [has |-> TRUE, value |-> IF found.type = kTypeValue THEN <<ValueAt(first)>> ELSE <<>>]

-----------------------------------------------------------------------------
(* Properties                                                                *)

(* What the writes up to a number say of a key.                               *)
Latest(key, seq) ==
    LET of == {i \in DOMAIN writes : writes[i].key = key /\ i <= seq}
        last == writes[CHOOSE i \in of : \A j \in of : j <= i]
    IN IF of = {} THEN [has |-> FALSE, value |-> <<>>]
       ELSE [has |-> TRUE, value |-> IF last.type = kTypeValue THEN <<last.value>> ELSE <<>>]

(* The cells of an entry are still those Add put there, whatever was allocated *)
(* since, and the usage counts every block.                                  *)
EntriesIntact ==
    /\ {<<KeyAt(p), ValueAt(p)>> : p \in nodes}
            = {<<InternalKey(w.key, w.seq, w.type), w.value>> : w \in {writes[i] : i \in DOMAIN writes}}
    /\ LET sizes[i \in 0..Len(arena.blocks)] ==
               IF i = 0 THEN 0 ELSE sizes[i - 1] + Len(arena.blocks[i]) + PointerSize
       IN arena.usage = sizes[Len(arena.blocks)]

(* A get as of any number finds the last write of the key up to that number,    *)
(* also the one of exactly that number, out of memory no other entry or node   *)
(* was given.                                                                *)
MemTableGets ==
    /\ EntriesIntact
    /\ \A key \in MemKeys, seq \in 0..(MaxAdds + 1) : MemGet(key, seq) = Latest(key, seq)
==============================================================================
