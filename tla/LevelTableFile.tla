--------------------------- MODULE LevelTableFile ----------------------------
(***************************************************************************)
(* The file of a finished table as it is opened and read (table/table.cc,   *)
(* table/format.cc): after its data blocks come the filter, the metaindex    *)
(* and the index, each with its type and checksum, and the footer.  One of   *)
(* them is damaged; whether a reader notices is up to the options of the     *)
(* database, of the read, and of the read that filled the block cache.       *)
(***************************************************************************)
EXTENDS LevelTable

CONSTANTS Damages,     \* what can happen to a part: see ReadBlock
          MaxGets      \* bound: reads of an open table

VARIABLES
    damage,   \* [part, how]: what became of one part of the file
    open,     \* Table::Rep: [status, index, filter], and the options it got
    cached,   \* the block cache: data block -> how its contents are
    answer    \* the last Get: [kind, key, found], and how many there were

fileVars == <<damage, open, cached, answer>>

(* What handles point to, and the footer at the end.                          *)
Part(kind) == <<kind, 0>>
Data(b) == <<"data", b>>
Parts == {Part("footer"), Part("index"), Part("meta"), Part("filter")} \cup {Data(b) : b \in DOMAIN blocks}

Closed == [status |-> "closed", index |-> "none", filter |-> "none",
           paranoid |-> FALSE, mapped |-> FALSE]
NoAnswer == [kind |-> "none", count |-> 0, careless |-> FALSE]
FileInit ==
    /\ TableInit
    /\ damage = [part |-> Part("none"), how |-> "none"] /\ open = Closed
    /\ cached = <<>> /\ answer = NoAnswer

-----------------------------------------------------------------------------
(* ReadBlock: "changed" contents pass when no one asks for the checksum; an    *)
(* unknown type, a short read and a failed one never do.                      *)
ReadBlock(part, verify) ==
    IF damage.part # part THEN "whole"
    ELSE IF damage.how = "changed" /\ ~verify THEN "changed" ELSE "error"

(* Footer::DecodeFrom checks the magic number and no length: of a file shorter *)
(* than the descriptor says, the bytes not read are whatever the stack held.  *)
ReadFooter ==
    IF damage.part # Part("footer") THEN {"whole"}
    ELSE IF damage.how = "short" /\ ~open.mapped THEN {"error", "changed"}
    ELSE {"error"}

(* A handle out of changed bytes names any stretch of the file.                *)
Through(handle, part, verify) ==
    CASE handle = "error" -> {"error"}
      [] handle = "whole" -> {ReadBlock(part, verify)}
      [] handle = "changed" -> {"error"} \cup (IF verify THEN {} ELSE {"changed"})

(* ReadMeta, ReadFilter: no error of theirs is the table's; it reads without. *)
FilterOutcomes(footer, paranoid) ==
    {IF f = "error" THEN "none" ELSE f :
        f \in UNION {Through(m, Part("filter"), paranoid) :
                     m \in Through(footer, Part("meta"), paranoid)}}

(* The file of a finished table: what is wrong with it shows when it is read. *)
Damage(part, how) ==
    /\ status = "finished" /\ open = Closed /\ damage.part = Part("none")
    /\ blocks # <<>>
    /\ damage' = [part |-> part, how |-> how]
    /\ UNCHANGED <<tableVars, open, cached, answer>>

(* Table::Open; mapped when the environment had an mmap left for the file, so *)
(* that its blocks are not copied and not cached.                             *)
Open(paranoid, mapped) ==
    /\ damage.part # Part("none") /\ open.status # "open"
    /\ open.status = "closed" \/ open.paranoid # paranoid
    /\ \E footer \in ReadFooter :
         \E index_block \in Through(footer, Part("index"), paranoid) :
            IF index_block = "error"
            THEN open' = [Closed EXCEPT !.status = "error", !.paranoid = paranoid]
            ELSE \E f \in FilterOutcomes(footer, paranoid) :
                    open' = [status |-> "open", index |-> index_block, filter |-> f,
                             paranoid |-> paranoid, mapped |-> mapped]
    /\ UNCHANGED <<tableVars, damage, cached, answer>>

-----------------------------------------------------------------------------
(* The index entry that Seek(k) finds: <<block>> or <<>>.                      *)
Named(k) ==
    LET named == {i \in DOMAIN index : ~Less(index[i].sep[1], k)}
    IN IF named = {} THEN <<>>
       ELSE <<index[CHOOSE i \in named : \A j \in named : i <= j].block>>

MayMatch(b, k) ==
    CASE open.filter = "none" -> {TRUE}
      [] open.filter = "whole" -> {KeyMayMatch(blocks[b].offset, k.user)}
      [] open.filter = "changed" -> BOOLEAN

(* BlockReader: out of the cache, whoever put it there, or out of the file.   *)
BlockReader(b, verify) == IF b \in DOMAIN cached THEN cached[b] ELSE ReadBlock(Data(b), verify)
Filled(b, contents, fill_cache) ==
    IF contents # "error" /\ fill_cache /\ ~open.mapped /\ b \notin DOMAIN cached
    THEN [c \in DOMAIN cached \cup {b} |-> IF c = b THEN contents ELSE cached[c]]
    ELSE cached

Answered(k, verify, kind, found) ==
    [kind |-> kind, key |-> k, found |-> found, count |-> answer.count + 1,
     careless |-> answer.careless \/ ~verify]

(* InternalGet.  What comes of changed bytes is "any" answer.                 *)
Get(k, verify, fill_cache) ==
    /\ open.status = "open" /\ answer.count < MaxGets
    /\ IF open.index = "changed"
       THEN answer' = Answered(k, verify, "any", <<>>) /\ UNCHANGED cached
       ELSE IF Named(k) = <<>>
       THEN answer' = Answered(k, verify, "ok", <<>>) /\ UNCHANGED cached
       ELSE LET b == Named(k)[1]
                contents == BlockReader(b, verify)
                right == KeyMayMatch(blocks[b].offset, k.user)
            IN \E match \in MayMatch(b, k) :
                  IF ~match
                  THEN /\ answer' = Answered(k, verify, IF right THEN "any" ELSE "ok", <<>>)
                       /\ UNCHANGED cached
                  ELSE /\ cached' = Filled(b, contents, fill_cache)
                       /\ answer' =
                            CASE contents = "whole" ->
                                    Answered(k, verify, "ok", FirstFrom(blocks[b].keys, k))
                              [] contents = "changed" -> Answered(k, verify, "any", <<>>)
                              [] contents = "error" -> Answered(k, verify, "error", <<>>)
    /\ UNCHANGED <<tableVars, damage, open>>

(* The cache lets go of a block when it needs the room.                       *)
Evict(b) ==
    /\ b \in DOMAIN cached /\ answer.count < MaxGets
    /\ cached' = [c \in DOMAIN cached \ {b} |-> cached[c]]
    /\ UNCHANGED <<tableVars, damage, open, answer>>

FileNext ==
    \/ TableNext /\ UNCHANGED fileVars
    \/ \E part \in Parts, how \in Damages :
          Damage(part, how)
    \/ \E paranoid, mapped \in BOOLEAN : Open(paranoid, mapped)
    \/ \E u \in UserKeys, s \in Sequences_, verify, fill_cache \in BOOLEAN :
          Get([user |-> u, seq |-> s], verify, fill_cache)
    \/ \E b \in DOMAIN cached : Evict(b)

FileSpec == FileInit /\ [][FileNext]_<<tableVars, fileVars>>

-----------------------------------------------------------------------------
(* Where the metaindex block begins: after the filter block, which holds each  *)
(* filter and where it starts, and the trailer of a block; the smallest sizes  *)
(* they can have stand for all.                                               *)
MetaindexOffset == offset + 2 * Len(filter.made) + 1

(* ApproximateOffsetOf: the block's offset, or the metaindex's past the last.  *)
ApproximateOffsetOf(k) ==
    IF Named(k) = <<>> THEN MetaindexOffset ELSE blocks[Named(k)[1]].offset

(* The sizes of ranges are never negative and cover the keys in them: also of  *)
(* the range from a key of the table to one past its last.                    *)
OffsetsAscend ==
    (status = "finished" /\ open.index = "whole") =>
        \A i \in DOMAIN added :
            /\ ApproximateOffsetOf(added[i]) < MetaindexOffset
            /\ \A j \in DOMAIN added :
                  i < j => ApproximateOffsetOf(added[i]) <= ApproximateOffsetOf(added[j])

(* A damaged table answers rightly, or with an error that the block asked for *)
(* gave, or out of changed bytes; the last never with paranoid_checks and     *)
(* verify_checksums in all reads, and a broken filter or metaindex costs      *)
(* neither an answer nor an error.                                            *)
DamageNoticed ==
    /\ answer.kind = "ok" =>
         OfUser(answer.found, answer.key.user) = OfUser(FirstFrom(added, answer.key), answer.key.user)
    /\ answer.kind = "any" => ~open.paranoid \/ answer.careless
    /\ answer.kind = "error" => damage.part = Data(Named(answer.key)[1])
    /\ open.status = "error" => damage.part \in {Part("footer"), Part("index")}

TableFileFinds == TableGetFinds /\ OffsetsAscend /\ DamageNoticed
==============================================================================
