----------------------------- MODULE LevelTable -----------------------------
(***************************************************************************)
(* A table file (table/table_builder.cc, table/filter_block.cc, util/      *)
(* bloom.cc, util/comparator.cc, db/dbformat.cc and table/table.cc): it is *)
(* built from entries in order, in blocks of any size, with an index of    *)
(* separators shorter than the keys and a Bloom filter for each stretch of *)
(* the file; a Get goes through the index, the filter and one block.       *)
(***************************************************************************)
EXTENDS Integers, Sequences, FiniteSets

CONSTANTS UserKeys,       \* the user keys there may be: sequences of bytes
          TopByte,        \* 0xff
          Sequences_,     \* sequence numbers of entries
          MaxSequence,    \* kMaxSequenceNumber
          BlockSizes,     \* the sizes a block may come out with
          FilterBase,     \* kFilterBase, in the same unit
          Hash,           \* BloomHash: a function on user keys
          HashSize,       \* 2^32
          BitsPerKey, Probes, LeastBits, ByteBits,   \* bloom.cc: 64 and 8
          MaxEntries      \* bound

VARIABLES
    pending,  \* the data block being filled: its keys
    index,    \* index entries [sep, block], pending_index_entry as sep = <<>>
    blocks,   \* the blocks written: [keys, offset]
    filter,   \* the FilterBlockBuilder: [keys, made], made a sequence of filters
    offset,   \* rep_->offset
    status,   \* "building", "failed", "finished": Rep's status and closed
    added     \* every entry given to Add while the builder was ok

tableVars == <<pending, index, blocks, filter, offset, status, added>>

TableInit ==
    /\ pending = <<>> /\ index = <<>> /\ blocks = <<>> /\ added = <<>>
    /\ filter = [keys |-> {}, made |-> <<>>]
    /\ offset = 0 /\ status = "building"

-----------------------------------------------------------------------------
(* Keys: the bytewise comparator and the one of internal keys                *)

IsPrefix(s, t) == Len(s) <= Len(t) /\ \A i \in 1..Len(s) : s[i] = t[i]
LessBytes(s, t) ==
    \/ IsPrefix(s, t) /\ s # t
    \/ \E i \in 1..Len(s) : /\ i <= Len(t) /\ s[i] < t[i]
                            /\ \A j \in 1..(i - 1) : s[j] = t[j]
Less(a, b) == LessBytes(a.user, b.user) \/ (a.user = b.user /\ a.seq > b.seq)

(* Incremented at the first byte that differs, when a shorter key results.   *)
ByteSeparator(s, t) ==
    LET n == CHOOSE i \in 1..Len(s) : s[i] # t[i] /\ \A j \in 1..(i - 1) : s[j] = t[j]
    IN IF IsPrefix(s, t) \/ IsPrefix(t, s) THEN s
       ELSE IF s[n] < TopByte /\ s[n] + 1 < t[n] THEN [SubSeq(s, 1, n) EXCEPT ![n] = @ + 1]
       ELSE s
ByteSuccessor(s) ==
    LET low == {i \in 1..Len(s) : s[i] # TopByte}
        n == CHOOSE i \in low : \A j \in low : i <= j
    IN IF low = {} THEN s ELSE [SubSeq(s, 1, n) EXCEPT ![n] = @ + 1]

(* A user key that became shorter and larger gets the earliest number.       *)
Lifted(k, u) ==
    IF Len(u) < Len(k.user) /\ LessBytes(k.user, u) THEN [user |-> u, seq |-> MaxSequence]
    ELSE k
FindShortestSeparator(k, limit) == Lifted(k, ByteSeparator(k.user, limit.user))
FindShortSuccessor(k) == Lifted(k, ByteSuccessor(k.user))

-----------------------------------------------------------------------------
(* Bloom filters: the bits set, how many there are, the number of probes     *)

Rotated(h) == (h \div 4) + (h % 4) * (HashSize \div 4)
Bits(u, bits) ==
    {((Hash[u] + j * Rotated(Hash[u])) % HashSize) % bits : j \in 0..(Probes - 1)}
BloomSize(n) ==
    LET wanted == IF n * BitsPerKey < LeastBits THEN LeastBits ELSE n * BitsPerKey
    IN ((wanted + ByteBits - 1) \div ByteBits) * ByteBits
CreateFilter(users, n) ==
    [bits |-> UNION {Bits(u, BloomSize(n)) : u \in users}, size |-> BloomSize(n)]
InternalFilter(keys) == CreateFilter({k.user : k \in keys}, Cardinality(keys))
BloomMayMatch(u, f) == f.size > 0 /\ Bits(u, f.size) \subseteq f.bits

(* One filter for every FilterBase of the file; an empty one matches nothing. *)
Generated(f) ==
    [keys |-> {}, made |-> Append(f.made,
        IF f.keys = {} THEN [bits |-> {}, size |-> 0]
        ELSE InternalFilter(f.keys))]
StartBlock(f, at) ==
    LET missing == (at \div FilterBase) - Len(f.made)
        first == IF missing > 0 THEN Generated(f) ELSE f
    IN IF missing <= 1 THEN first
       ELSE [first EXCEPT !.made = @ \o [i \in 1..(missing - 1) |-> [bits |-> {}, size |-> 0]]]
FinishedFilter(f) == IF f.keys = {} THEN f ELSE Generated(f)

MayMatchAtEnd(at, u) ==          \* mutant: the filter of the block's last byte
    LET i == ((at + 1) \div FilterBase) + 1
    IN i \in DOMAIN filter.made => BloomMayMatch(u, filter.made[i])
KeyMayMatch(at, u) ==
    LET i == (at \div FilterBase) + 1
    IN i \in DOMAIN filter.made => BloomMayMatch(u, filter.made[i])

-----------------------------------------------------------------------------
(* TableBuilder                                                              *)

(* The last key of the block before, as long as the separator waits for the   *)
(* first key of the next one.                                                *)
Waiting == index # <<>> /\ index[Len(index)].sep = <<>>
LastKey == added[Len(added)]
Indexed(sep) == [index EXCEPT ![Len(index)].sep = <<sep>>]

(* Add, and Flush when the block is full: of size n, or 0 when it is not yet. *)
(* A write that fails leaves the offset where it was.                        *)
Add(k, n, fails) ==
    /\ status = "building" /\ Len(added) < MaxEntries
    /\ added # <<>> => Less(LastKey, k)
    /\ LET now == IF Waiting THEN Indexed(FindShortestSeparator(LastKey, k)) ELSE index
           keys == [filter EXCEPT !.keys = @ \cup {k}]
       IN /\ added' = Append(added, k)
          /\ IF n = 0
             THEN /\ pending' = Append(pending, k) /\ index' = now /\ filter' = keys
                  /\ UNCHANGED <<blocks, offset, status>>
             ELSE /\ pending' = <<>>
                  /\ IF fails
                     THEN /\ status' = "failed" /\ index' = now
                          /\ filter' = StartBlock(keys, offset)
                          /\ UNCHANGED <<blocks, offset>>
                     ELSE /\ blocks' = Append(blocks, [keys |-> Append(pending, k), offset |-> offset])
                          /\ index' = Append(now, [sep |-> <<>>, block |-> Len(blocks) + 1])
                          /\ offset' = offset + n
                          /\ filter' = StartBlock(keys, offset + n)
                          /\ UNCHANGED status

(* Finish: the last block, the filter, metaindex and index blocks, the footer. *)
Finish(n, fails) ==
    /\ status = "building"
    /\ status' = IF fails THEN "failed" ELSE "finished"
    /\ LET flush == pending # <<>> /\ ~fails
           all == IF flush THEN Append(index, [sep |-> <<>>, block |-> Len(blocks) + 1]) ELSE index
       IN /\ blocks' = IF flush THEN Append(blocks, [keys |-> pending, offset |-> offset]) ELSE blocks
          /\ offset' = IF flush THEN offset + n ELSE offset
          /\ filter' = FinishedFilter(IF flush THEN StartBlock(filter, offset + n) ELSE filter)
          /\ index' = IF all # <<>> /\ all[Len(all)].sep = <<>>
                      THEN [all EXCEPT ![Len(all)].sep = <<FindShortSuccessor(LastKey)>>]
                      ELSE all
    /\ pending' = <<>>
    /\ UNCHANGED added

TableNext ==
    \/ \E u \in UserKeys, s \in Sequences_, n \in BlockSizes \cup {0}, fails \in BOOLEAN :
          Add([user |-> u, seq |-> s], n, fails)
    \/ \E n \in BlockSizes, fails \in BOOLEAN : Finish(n, fails)

TableSpec == TableInit /\ [][TableNext]_tableVars

-----------------------------------------------------------------------------
(* Table::InternalGet: the first entry of the block the index names that is   *)
(* not before k, unless the filter says that the key is not there.           *)
FirstFrom(s, k) ==
    LET after == {i \in DOMAIN s : ~Less(s[i], k)}
    IN IF after = {} THEN <<>> ELSE <<s[CHOOSE i \in after : \A j \in after : i <= j]>>
InternalGet(k) ==
    LET seps == [i \in DOMAIN index |-> index[i].sep[1]]
        named == {i \in DOMAIN seps : ~Less(seps[i], k)}
        b == blocks[index[CHOOSE i \in named : \A j \in named : i <= j].block]
    IN IF named = {} \/ ~KeyMayMatch(b.offset, k.user) THEN <<>> ELSE FirstFrom(b.keys, k)

OfUser(found, u) == IF found # <<>> /\ found[1].user = u THEN found ELSE <<>>

(* A table whose Finish returned OK answers, for every user key as of every   *)
(* sequence number, what the entries given to it answer: neither a shortened  *)
(* separator, nor a filter, nor a block boundary hides an entry or makes an   *)
(* older one of the same key come up.                                        *)
TableGetFinds ==
    status = "finished" =>
        \A u \in UserKeys, s \in Sequences_ :
            LET k == [user |-> u, seq |-> s]
            IN OfUser(InternalGet(k), u) = OfUser(FirstFrom(added, k), u)
=============================================================================
