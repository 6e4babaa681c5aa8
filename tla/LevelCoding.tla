----------------------------- MODULE LevelCoding -----------------------------
(***************************************************************************)
(* How leveldb's records are written and read back: varints and length     *)
(* prefixed slices (util/coding.cc), the descriptor's VersionEdit          *)
(* (db/version_edit.cc), the WriteBatch (db/write_batch.cc), and the       *)
(* numbers in file names (db/filename.cc, util/logging.cc).  A record is a *)
(* sequence of items, a tag and its arguments; it may reach the reader     *)
(* truncated, for the log's checksum is not always asked for.              *)
(***************************************************************************)
EXTENDS Integers, Sequences

CONSTANTS Group,          \* 128: what one byte of a varint carries
          Groups32, Width32,   \* 5 bytes at most, and 2^32
          Groups64, Width64,   \* 10, and 2^64
          NumLevels,      \* config::kNumLevels
          Edits,          \* VersionEdits: sequences of [tag, args]
          Batches,        \* WriteBatches: the same
          Digits          \* decimal numbers in file names: sequences of 0..9

VARIABLES
    kind,     \* what is read: "edit", "batch" or "name"
    given,    \* the items that were written
    input,    \* the bytes left
    cut,      \* whether some are missing
    items,    \* what has been read
    result    \* "reading", "ok" or "corruption"

codingVars == <<kind, given, input, cut, items, result>>

-----------------------------------------------------------------------------
(* Varints and slices                                                        *)

Varint[v \in Nat] ==
    IF v < Group THEN <<v>> ELSE <<(v % Group) + Group>> \o Varint[v \div Group]

(* [ok, value, rest]: the bytes up to the first without the continuation bit,  *)
(* as long as there are not too many; what exceeds the width is shifted out.   *)
NoValue == [ok |-> FALSE, value |-> 0, rest |-> <<>>]
GetVarintShort(s, groups, width) ==        \* mutant: shift < 28
    LET ends == {i \in DOMAIN s : i < groups /\ s[i] < Group}
        end == CHOOSE i \in ends : \A j \in ends : i <= j
        from[i \in Nat] == IF i = end THEN s[i] ELSE (s[i] % Group) + Group * from[i + 1]
    IN IF ends = {} THEN NoValue
       ELSE [ok |-> TRUE, value |-> from[1] % width, rest |-> SubSeq(s, end + 1, Len(s))]
GetVarint(s, groups, width) ==
    LET ends == {i \in DOMAIN s : i <= groups /\ s[i] < Group}
        end == CHOOSE i \in ends : \A j \in ends : i <= j
        from[i \in Nat] == IF i = end THEN s[i] ELSE (s[i] % Group) + Group * from[i + 1]
    IN IF ends = {} THEN NoValue
       ELSE [ok |-> TRUE, value |-> from[1] % width, rest |-> SubSeq(s, end + 1, Len(s))]

GetSlice(s) ==
    LET n == GetVarint(s, Groups32, Width32)
    IN IF n.ok /\ Len(n.rest) >= n.value
       THEN [ok |-> TRUE, value |-> SubSeq(n.rest, 1, n.value),
             rest |-> SubSeq(n.rest, n.value + 1, Len(n.rest))]
       ELSE NoValue

-----------------------------------------------------------------------------
(* The items of an edit and of a batch, and the kinds of their arguments      *)

EditFields == [tag \in {1, 2, 3, 4, 5, 6, 7, 9} |->
    CASE tag = 1 -> <<"slice">>                                 \* kComparator
      [] tag = 5 -> <<"level", "slice">>                        \* kCompactPointer
      [] tag = 6 -> <<"level", "number">>                       \* kDeletedFile
      [] tag = 7 -> <<"level", "number", "number", "slice", "slice">>   \* kNewFile
      [] OTHER -> <<"number">>]
BatchFields == [tag \in {0, 1} |-> IF tag = 1 THEN <<"slice", "slice">> ELSE <<"slice">>]
Fields == IF kind = "edit" THEN EditFields ELSE BatchFields

Put(what, value) == IF what = "slice" THEN Varint[Len(value)] \o value ELSE Varint[value]
Get(what, s) ==
    CASE what = "slice" -> GetSlice(s)
      [] what = "number" -> GetVarint(s, Groups64, Width64)
      [] what = "level" -> LET n == GetVarint(s, Groups32, Width32)
                           IN IF n.ok /\ n.value < NumLevels THEN n ELSE NoValue
(* A batch's tag is one byte.                                                 *)
GetTag(s) ==
    IF kind = "edit" THEN GetVarint(s, Groups32, Width32)
    ELSE [ok |-> s # <<>>, value |-> IF s = <<>> THEN 0 ELSE s[1], rest |-> SubSeq(s, 2, Len(s))]

Encoded(seq, fields) ==
    LET args(item) ==
            LET upto[i \in 0..Len(item.args)] ==
                    IF i = 0 THEN <<>> ELSE upto[i - 1] \o Put(fields[item.tag][i], item.args[i])
            IN upto[Len(item.args)]
        all[i \in 0..Len(seq)] ==
            IF i = 0 THEN <<>> ELSE all[i - 1] \o Varint[seq[i].tag] \o args(seq[i])
    IN all[Len(seq)]

(* WriteBatchInternal::Append, for the group of writers one thread commits.    *)
CodingInit ==
    /\ result = "reading" /\ items = <<>>
    /\ \/ /\ kind = "edit" /\ given \in Edits
          /\ \E n \in 0..Len(Encoded(given, EditFields)) :
                /\ input = SubSeq(Encoded(given, EditFields), 1, n)
                /\ cut = (n < Len(Encoded(given, EditFields)))
       \/ \E b, c \in Batches :
             /\ kind = "batch" /\ given = b \o c
             /\ LET all == Encoded(b, BatchFields) \o Encoded(c, BatchFields)
                IN \E n \in 0..Len(all) : input = SubSeq(all, 1, n) /\ cut = (n < Len(all))
       \/ kind = "name" /\ given \in Digits /\ input = given /\ cut = FALSE

(* One turn of the loop in VersionEdit::DecodeFrom or WriteBatch::Iterate.     *)
DecodeItem ==
    /\ result = "reading" /\ kind # "name" /\ input # <<>>
    /\ LET tag == GetTag(input)
           known == tag.ok /\ tag.value \in DOMAIN Fields
           what == Fields[tag.value]
           read[i \in 0..(IF known THEN Len(what) ELSE 0)] ==
               IF i = 0 THEN [ok |-> known, args |-> <<>>, rest |-> tag.rest]
               ELSE LET a == Get(what[i], read[i - 1].rest)
                    IN IF read[i - 1].ok /\ a.ok
                       THEN [ok |-> TRUE, args |-> Append(read[i - 1].args, a.value), rest |-> a.rest]
                       ELSE [ok |-> FALSE, args |-> <<>>, rest |-> <<>>]
           last == read[IF known THEN Len(what) ELSE 0]
       IN IF last.ok
          THEN /\ items' = Append(items, [tag |-> tag.value, args |-> last.args])
               /\ input' = last.rest /\ UNCHANGED result
          ELSE /\ result' = "corruption" /\ UNCHANGED <<items, input>>
    /\ UNCHANGED <<kind, given, cut>>

(* Iterate compares what it found with the count of the header.                *)
End ==
    /\ result = "reading" /\ kind # "name" /\ input = <<>>
    /\ result' = IF kind = "batch" /\ Len(items) # Len(given) THEN "corruption" ELSE "ok"
    /\ UNCHANGED <<kind, given, input, cut, items>>

(* ConsumeDecimalNumber, for the number of a file; items holds it so far.      *)
Accumulated == IF items = <<>> THEN 0 ELSE items[1]
Consume ==
    /\ result = "reading" /\ kind = "name"
    /\ LET v == Accumulated
           largest == Width64 - 1
       IN IF input = <<>>
          THEN result' = (IF given = <<>> THEN "corruption" ELSE "ok") /\ UNCHANGED <<items, input>>
          ELSE IF v > largest \div 10 \/ (v = largest \div 10 /\ Head(input) > largest % 10)
          THEN result' = "corruption" /\ UNCHANGED <<items, input>>
          ELSE /\ items' = <<v * 10 + Head(input)>> /\ input' = Tail(input)
               /\ UNCHANGED result
    /\ UNCHANGED <<kind, given, cut>>

CodingNext == DecodeItem \/ End \/ Consume
CodingSpec == CodingInit /\ [][CodingNext]_codingVars

-----------------------------------------------------------------------------
(* Properties *)

Value(digits) ==
    LET upto[i \in 0..Len(digits)] == IF i = 0 THEN 0 ELSE upto[i - 1] * 10 + digits[i]
    IN upto[Len(digits)]

(* A number is taken from a name exactly when it fits in 64 bits.               *)
NumberParsedExactly ==
    result # "reading" =>
        (result = "ok" <=> given # <<>> /\ Value(given) < Width64)
            /\ (result = "ok" => items = <<Value(given)>>)

(* What is read is what was written, item by item.  A record that lost its end *)
(* never yields an item that was not written, and a batch that lost its end,    *)
(* or half of a group's batches, is refused; of an edit a prefix may pass.      *)
RecordsReadBack ==
    IF kind = "name" THEN NumberParsedExactly
    ELSE /\ items = SubSeq(given, 1, Len(items))
         /\ ~cut => result # "corruption" /\ (result = "ok" => items = given)
         /\ cut /\ kind = "batch" => result # "ok"
=============================================================================
