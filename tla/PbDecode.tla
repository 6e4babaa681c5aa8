------------------------------ MODULE PbDecode ------------------------------
(***************************************************************************)
(* nanopb's decoder (pb_decode.c, pb_common.c), field by field, on what    *)
(* its encoder wrote: one message or two one after the other, whole or     *)
(* with the end missing, read with the writer's type or another version of *)
(* it.  A message inside another is a frame of its own, with a stream that *)
(* ends where it does.  Where the struct is allocated is left out here     *)
(* (module PbMemory has it): a pointer field is one without a limit.       *)
(***************************************************************************)
EXTENDS PbEncode, FiniteSets

CONSTANT Cases    \* sets of runs: [write, read, messages, scripts, buffers, most, framing], the
                  \* writer's and the reader's type, what is sent and what the callbacks do,
                  \* at most `most` times: "plain", with a "zero" at the end, or
                  \* "delimited" by its length

VARIABLES
    scene,    \* the case, and the script of the encode callbacks
    sent,     \* what was written: [msg, stream], the stream as the encoder left it
    wire,     \* the bytes that have come
    frames,   \* the messages being read, the innermost last
    outcome   \* "sending", "reading", "ok", "failed"

pbVars == <<scene, sent, wire, frames, outcome>>

-----------------------------------------------------------------------------
(* Input streams                                                             *)

NoValue == [ok |-> FALSE, value |-> 0, rest |-> <<>>]
Some(v, s) == [ok |-> TRUE, value |-> v, rest |-> s]
After(s, n) == SubSeq(s, n + 1, Len(s))
pb_read(s, n) == IF Len(s) < n THEN NoValue ELSE Some(SubSeq(s, 1, n), After(s, n))

Ends(s) == {i \in DOMAIN s : s[i] < Group}
End(s) == CHOOSE i \in Ends(s) : \A j \in Ends(s) : i <= j
Sum(s, n) ==      \* the payloads of the first n bytes, little end first
    LET from[i \in 1..n + 1] ==
            IF i > n THEN 0 ELSE (s[i] % Group) + Group * from[i + 1]
    IN from[1]

VarintTo(s, end) ==
    IF Group ^ (end - 1) >= Long THEN NoValue ELSE Some(Sum(s, end) % Long, After(s, end))
pb_decode_varint(s) ==         \* no more bytes than a long needs
    IF Ends(s) = {} THEN NoValue ELSE VarintTo(s, End(s))

(* A word may come sign-extended to a long: the bytes beyond it are then ones. *)
Place(i) == Group ^ (i - 1)
SignByte(place) == IF place * Group < Long THEN Byte - 1 ELSE (Long \div place) - 1
WordTo(s, end, result) ==
    IF \/ \E i \in 1..end :
             /\ Place(i) >= Word /\ s[i] % Group # 0
             /\ result < Word \div 2 \/ s[i] # SignByte(Place(i))
       \/ Place(end) < Word /\ Place(end + 1) >= Word /\ s[end] * Place(end) >= Word
    THEN NoValue ELSE Some(result, After(s, end))
Varint32To(s, end) == WordTo(s, end, Sum(s, end) % Word)
pb_decode_varint32(s) == IF Ends(s) = {} THEN NoValue ELSE Varint32To(s, End(s))

(* A length and that many bytes: pb_make_string_substream, pb_skip_string.     *)
ReadAfter(n) == IF n.ok THEN pb_read(n.rest, n.value) ELSE NoValue
Substream(s) == ReadAfter(pb_decode_varint32(s))

(* pb_skip_field, and read_raw_value for a callback                            *)
RawValue(s, wireType) ==
    CASE wireType = 0 -> IF Ends(s) = {} THEN NoValue ELSE pb_read(s, End(s))
      [] wireType = 1 -> pb_read(s, LongBytes)
      [] wireType = 2 -> Substream(s)
      [] wireType = 5 -> pb_read(s, WordBytes)
      [] OTHER -> NoValue

-----------------------------------------------------------------------------
(* Items                                                                     *)

Signed(v, bytes) ==
    LET w == Byte ^ bytes IN IF v % w >= w \div 2 THEN (v % w) - w ELSE v % w
If(test, v, s) == IF test THEN Some(v, s) ELSE NoValue

NumberFrom(f, s) ==     \* pb_dec_varint, _uvarint, _svarint, _fixed32, _fixed64
    LET v == pb_decode_varint(s)
        narrow == IF f.size = LongBytes THEN Signed(v.value, LongBytes)
                  ELSE Signed(v.value, WordBytes)
        unzigzag == IF v.value % 2 = 1 THEN -(v.value \div 2) - 1 ELSE v.value \div 2
        fixed == pb_read(s, IF f.l = "fixed32" THEN WordBytes ELSE LongBytes)
        total[i \in 0..Len(fixed.value)] ==
            IF i = 0 THEN 0 ELSE total[i - 1] + fixed.value[i] * Byte ^ (i - 1)
    IN CASE f.l \in {"fixed32", "fixed64"} ->
                IF fixed.ok THEN Some(total[Len(fixed.value)], fixed.rest) ELSE NoValue
         [] ~ v.ok -> NoValue
         [] f.l = "varint" -> If(Signed(narrow, f.size) = narrow, narrow, v.rest)
         [] f.l = "uvarint" -> If(v.value < Byte ^ f.size, v.value, v.rest)
         [] f.l = "svarint" -> If(Signed(unzigzag, f.size) = unzigzag, unzigzag, v.rest)

BytesFrom(f, s) ==      \* pb_dec_bytes, pb_dec_string, pb_dec_fixed_length_bytes
    LET b == Substream(s)
    IN IF ~ b.ok THEN NoValue
       ELSE IF f.l = "fixed_bytes"
       THEN IF b.value = <<>> THEN Some(Zeros(f.size), b.rest)
            ELSE If(Len(b.value) = f.size, b.value, b.rest)
       ELSE If(f.a = "pointer" \/ Len(b.value) + (IF f.l = "string" THEN 1 ELSE 0) <= f.size,
               b.value, b.rest)

ItemFrom(f, s) == IF IsPackable(f) THEN NumberFrom(f, s) ELSE BytesFrom(f, s)

-----------------------------------------------------------------------------
(* Messages                                                                  *)

RECURSIVE Default(_)
DefaultItem(f) ==
    CASE f.l = "submessage" -> Default(f.sub)
      [] f.l = "fixed_bytes" -> Zeros(f.size)
      [] IsPackable(f) -> 0
      [] OTHER -> <<>>
Default(type) ==        \* pb_message_set_to_defaults
    LET fields == Extended(type)
    IN [t \in {fields[i].tag : i \in DOMAIN fields} |->
        LET f == fields[CHOOSE i \in DOMAIN fields : fields[i].tag = t]
        IN IF f.a # "static" THEN <<>>
           ELSE IF f.h = "fixed" THEN [i \in 1..f.max |-> DefaultItem(f)]
           ELSE IF f.h \in {"required", "singular"} THEN <<DefaultItem(f)>>
           ELSE <<>>]

(* A tag no field has may be an extension's, if it is in their range.          *)
Direct(type, tag) == {type[i] : i \in {j \in DOMAIN type : type[j].tag = tag /\ type[j].l # "extension"}}
Extensions(type, tag) ==
    UNION {Direct(type[i].sub, tag) : i \in {j \in DOMAIN type : type[j].l = "extension" /\ tag >= type[j].tag}}
Fields(type, tag) == IF Direct(type, tag) # {} THEN Direct(type, tag) ELSE Extensions(type, tag)

Frame(type, msg, bytes, tag) ==
    [type |-> type, msg |-> msg, rest |-> bytes, tag |-> tag,
     fixed |-> 0, count |-> 0, seen |-> {}]

Top == frames[Len(frames)]
Below == SubSeq(frames, 1, Len(frames) - 1)

(* How many items an array has, and an item put after them: a fixed count     *)
(* array has no counter of its own, so the decoder counts.                    *)
Count(fr, f) == IF f.h = "fixed" THEN fr.count ELSE Len(fr.msg[f.tag])
Full(fr, f) == f.a = "static" /\ Count(fr, f) >= f.max
Store(fr, f, items) ==
    IF f.h = "fixed"
    THEN [fr EXCEPT !.count = @ + Len(items),
                    !.msg[f.tag] = [i \in DOMAIN @ |->
                        IF i \in fr.count + 1..fr.count + Len(items)
                        THEN items[i - fr.count] ELSE @[i]]]
    ELSE [fr EXCEPT !.msg[f.tag] = @ \o items]

OthersKept(fr, f) == fr        \* mutant: the other members of the oneof stay
OthersCleared(fr, f) ==        \* which_ names one member of the oneof
    [fr EXCEPT !.msg = [t \in DOMAIN @ |->
        IF f.h = "oneof" /\ \A g \in Fields(fr.type, t) : g.h = "oneof" THEN <<>> ELSE @[t]]]
Put(fr, f, item) ==
    IF IsArray(f) \/ f.a = "callback" THEN Store(fr, f, <<item>>)
    ELSE [OthersCleared(fr, f) EXCEPT !.msg[f.tag] = <<item>>]

(* decode_static_field and decode_pointer_field on a packed array: [ok, items] *)
Unpacked(fr, f, bytes) ==
    LET step(v) == IF v.rest = <<>> \/ ~ v.ok THEN v
                   ELSE LET item == ItemFrom(f, v.rest)
                        IN IF ~ item.ok THEN NoValue
                           ELSE Some(Append(v.value, item.value), item.rest)
        after[n \in 0..Len(bytes)] == IF n = 0 THEN Some(<<>>, bytes) ELSE step(after[n - 1])
        all == after[Len(bytes)]
    IN If(all.ok /\ (f.a = "static" => Count(fr, f) + Len(all.value) <= f.max), all.value, <<>>)

-----------------------------------------------------------------------------
(* Sending                                                                   *)

PbInit ==
    /\ \E c \in Cases : \E script \in c.scripts : scene = [case |-> c, script |-> script]
    /\ sent = <<>> /\ wire = <<>> /\ frames = <<>> /\ outcome = "sending"

Encoded(s, msg, script) ==
    CASE scene.case.framing = "zero" -> pb_encode_nullterminated(s, scene.case.write, msg, script)
      [] scene.case.framing = "delimited" -> pb_encode_delimited(s, scene.case.write, msg, script)
      [] scene.case.framing = "plain" -> pb_encode(s, scene.case.write, msg, script)
Encode ==
    /\ outcome = "sending" /\ Len(sent) < scene.case.most
    /\ \E msg \in scene.case.messages, bufsize \in scene.case.buffers :
         LET e == Encoded(ToBuffer(bufsize), msg, scene.script)
         IN /\ sent' = Append(sent, [msg |-> msg, stream |-> e])
            /\ wire' = wire \o e.out
            /\ outcome' = IF e.ok THEN outcome ELSE "failed"
    /\ UNCHANGED <<scene, frames>>

Deliver ==       \* all of it, or all but the end
    /\ outcome = "sending" /\ sent # <<>>
    /\ \E n \in 0..Len(wire) : wire' = SubSeq(wire, 1, n)
    /\ LET first == Substream(wire')
       IN IF scene.case.framing = "delimited"
          THEN /\ frames' = <<Frame(scene.case.read, Default(scene.case.read),
                                    IF first.ok THEN first.value ELSE <<>>, 0)>>
               /\ outcome' = IF first.ok THEN "reading" ELSE "failed"
          ELSE /\ frames' = <<Frame(scene.case.read, Default(scene.case.read), wire', 0)>>
               /\ outcome' = "reading"
    /\ UNCHANGED <<scene, sent>>

-----------------------------------------------------------------------------
(* pb_decode_noinit                                                          *)

Fail == outcome' = "failed" /\ UNCHANGED frames

(* Before a field of fixed count: the one before it must be complete.         *)
Counted(fr, f) == IF f.h # "fixed" \/ fr.fixed = f.tag THEN fr
                  ELSE [fr EXCEPT !.fixed = f.tag, !.count = 0]
Complete(fr) == \A f \in Fields(fr.type, fr.fixed) : fr.count = f.max

(* What a submessage is read into: what is there, unless it is new.           *)
Base(fr, f) ==
    IF IsArray(f) \/ f.h = "oneof" \/ f.a = "pointer" \/ fr.msg[f.tag] = <<>>
    THEN Default(f.sub) ELSE fr.msg[f.tag][1]

DecodeField(fr, f, wireType, bytes) ==
    LET raw == RawValue(bytes, wireType)
        sub == Substream(bytes)
        item == ItemFrom(f, bytes)
        replace(fr2) == frames' = Append(Below, fr2) /\ UNCHANGED outcome
    IN CASE f.a = "callback" ->
              IF raw.ok THEN replace([Put(fr, f, raw.value) EXCEPT !.rest = raw.rest]) ELSE Fail
         [] f.a # "callback" /\ f.l = "submessage" ->
              IF sub.ok /\ ~ (IsArray(f) /\ Full(fr, f))
              THEN /\ frames' = Append(Append(Below, [fr EXCEPT !.rest = sub.rest]),
                                       Frame(f.sub, Base(fr, f), sub.value, f.tag))
                   /\ UNCHANGED outcome
              ELSE Fail
         [] IsArray(f) /\ IsPackable(f) /\ wireType = 2 /\ f.a # "callback" ->
              IF sub.ok /\ Unpacked(fr, f, sub.value).ok
              THEN replace([Store(fr, f, Unpacked(fr, f, sub.value).value) EXCEPT !.rest = sub.rest])
              ELSE Fail
         [] OTHER ->
              IF item.ok /\ ~ (IsArray(f) /\ Full(fr, f))
              THEN replace([Put(fr, f, item.value) EXCEPT !.rest = item.rest]) ELSE Fail

ReadField ==
    /\ outcome = "reading" /\ Top.rest # <<>>
    /\ LET key == pb_decode_varint32(Top.rest)
           tag == key.value \div 8
           skipped == RawValue(key.rest, key.value % 8)
           known == Fields(Top.type, tag)
       IN CASE ~ key.ok -> Fail
            [] key.ok /\ key.value = 0 ->            \* a zero ends the message
                 frames' = Append(Below, [Top EXCEPT !.rest = <<>>]) /\ UNCHANGED outcome
            [] key.ok /\ key.value # 0 /\ known = {} ->
                 IF skipped.ok
                 THEN frames' = Append(Below, [Top EXCEPT !.rest = skipped.rest]) /\ UNCHANGED outcome
                 ELSE Fail
            [] OTHER ->
                 \E f \in known :
                    IF f.h = "fixed" /\ Top.fixed # f.tag /\ ~ Complete(Top) THEN Fail
                    ELSE DecodeField([Counted(Top, f) EXCEPT !.seen = @ \cup {tag}],
                                     f, key.value % 8, key.rest)
    /\ UNCHANGED <<scene, sent, wire>>

(* The checks after the loop, and the return into the message around.          *)
Required(type) == {type[i].tag : i \in {j \in DOMAIN type : type[j].h = "required"}}
EndOfMessage ==
    /\ outcome = "reading" /\ Top.rest = <<>>
    /\ IF ~ Complete(Top) \/ ~ (Required(Top.type) \subseteq Top.seen) THEN Fail
       ELSE IF Len(frames) = 1 THEN outcome' = "ok" /\ UNCHANGED frames
       ELSE LET parent == frames[Len(frames) - 1]
                f == CHOOSE g \in Fields(parent.type, Top.tag) : TRUE
            IN /\ frames' = Append(SubSeq(frames, 1, Len(frames) - 2), Put(parent, f, Top.msg))
               /\ UNCHANGED outcome
    /\ UNCHANGED <<scene, sent, wire>>

PbNext == Encode \/ Deliver \/ ReadField \/ EndOfMessage
PbSpec == PbInit /\ [][PbNext]_pbVars

-----------------------------------------------------------------------------
(* What the bytes mean: the records of a message, and what a reader of another *)
(* version should make of them                                                *)

(* The records that carry a message: [f, items, size].                         *)
Record(f, items, script) ==
    [f |-> f, items |-> items, size |-> encode_field(Sizing(0), f, items, script).n]
Pieces(f, items, script) ==     \* one for each tag on the wire
    IF items = <<>> THEN <<>>
    ELSE IF f.a = "callback" THEN <<<<Payload(script, 1)>>>>
    ELSE IF IsArray(f) /\ ~ IsPackable(f) THEN [i \in DOMAIN items |-> <<items[i]>>]
    ELSE <<items>>
FieldRecords(f, pieces, script) ==
    SelectSeq([i \in DOMAIN pieces |-> Record(f, pieces[i], script)], LAMBDA r : r.size # 0)
Records(type, msg, script) ==
    LET fields == Extended(type)
        of(f) == FieldRecords(f, Pieces(f, msg[f.tag], script), script)
        upTo[i \in 0..Len(fields)] == IF i = 0 THEN <<>> ELSE upTo[i - 1] \o of(fields[i])
    IN upTo[Len(fields)]

RECURSIVE Meaning(_, _, _, _)

(* One item as the reader's field takes it: [ok, value].                       *)
Taken(g, f, item, base, script) ==
    CASE g.l = "submessage" -> Meaning(g.sub, base, Records(f.sub, item, script), script)
      [] g.l = "uvarint" -> If(item < Byte ^ g.size, item, <<>>)
      [] g.l \in {"varint", "svarint"} ->
            If(item \in -(Byte ^ g.size \div 2)..(Byte ^ g.size \div 2) - 1, item, <<>>)
      [] g.l = "string" /\ g.a = "static" -> If(Len(item) < g.size, item, <<>>)
      [] g.l = "bytes" /\ g.a = "static" -> If(Len(item) <= g.size, item, <<>>)
      [] OTHER -> Some(item, <<>>)

(* A record arrives: arrays grow, a oneof changes its member, a submessage is  *)
(* merged with what has come of it, and anything else is replaced.             *)
BaseOf(g, old) ==
    IF ~ IsArray(g) /\ g.h # "oneof" /\ g.a = "static" /\ old # <<>>
    THEN old[1] ELSE Default(g.sub)
RawItem(f, items) == IF f.a # "callback" /\ IsPackable(f) THEN Packed(f, items) ELSE items[1]
WithTaken(type, msg, g, taken) ==
    LET values == [i \in DOMAIN taken |-> taken[i].value]
        old == msg[g.tag]
    IN IF IsArray(g)
       THEN If((\A i \in DOMAIN taken : taken[i].ok)
                   /\ (g.a = "static" => Len(old) + Len(values) <= g.max),
               [msg EXCEPT ![g.tag] = @ \o values], <<>>)
       ELSE If(taken[1].ok,
               [t \in DOMAIN msg |->
                   IF t = g.tag THEN <<values[1]>>
                   ELSE IF g.h = "oneof" /\ \A x \in Fields(type, t) : x.h = "oneof"
                   THEN <<>> ELSE msg[t]], <<>>)
TakenAll(g, rec, base, script) ==
    [i \in DOMAIN rec.items |-> Taken(g, rec.f, rec.items[i], base, script)]
Arrives(type, acc, rec, script) ==
    LET known == Fields(type, rec.f.tag)
        g == CHOOSE x \in known : TRUE
    IN IF ~ acc.ok \/ known = {} THEN acc
       ELSE IF g.a = "callback"
       THEN Some([acc.value EXCEPT ![g.tag] = Append(@, RawItem(rec.f, rec.items))], <<>>)
       ELSE WithTaken(type, acc.value, g,
                      TakenAll(g, rec, BaseOf(g, acc.value[g.tag]), script))

(* At the end: what is required has come, and arrays of fixed count are full.  *)
Checked(type, base, recs, end) ==
    LET fixed == {i \in DOMAIN type : type[i].h = "fixed"}
    IN If(/\ end.ok
          /\ Required(type) \subseteq {recs[i].f.tag : i \in DOMAIN recs}
          /\ \A i \in fixed : Len(end.value[type[i].tag]) \in {0, type[i].max},
          [t \in DOMAIN base |->
              IF (\E f \in Fields(type, t) : f.h = "fixed") /\ end.value[t] = <<>>
              THEN base[t] ELSE end.value[t]], <<>>)
Meaning(type, base, recs, script) ==
    LET empty == [t \in DOMAIN base |->
                    IF \E f \in Fields(type, t) : f.h = "fixed" THEN <<>> ELSE base[t]]
        upTo[i \in 0..Len(recs)] ==
            IF i = 0 THEN Some(empty, <<>>) ELSE Arrives(type, upTo[i - 1], recs[i], script)
    IN Checked(type, base, recs, upTo[Len(recs)])

-----------------------------------------------------------------------------
(* Properties *)

(* The script as the last pass of the last encoding saw it.                    *)
LastPass ==
    LET calls == sent[Len(sent)].stream.calls
    IN [i \in DOMAIN scene.script |-> IF calls = 0 THEN 1 ELSE scene.script[calls]]
AllRecords(script) ==        \* a delimited message is read on its own
    LET most == IF scene.case.framing = "delimited" THEN 1 ELSE Len(sent)
        upTo[i \in 0..most] ==
            IF i = 0 THEN <<>> ELSE upTo[i - 1] \o Records(scene.case.write, sent[i].msg, script)
    IN upTo[most]
Lengths(recs, n) ==
    LET upTo[i \in 0..n] == IF i = 0 THEN 0 ELSE upTo[i - 1] + recs[i].size IN upTo[n]

(* What came ends with the n-th record, or goes on after the last.              *)
EndsAfter(recs, n) ==
    LET framing == scene.case.framing
        length == Lengths(recs, n)
    IN \/ framing # "delimited" /\ length = Len(wire)
       \/ /\ framing = "zero" /\ n = Len(recs) /\ length < Len(wire)
       \/ /\ framing = "delimited" /\ n = Len(recs)
          /\ Len(Varint[length]) + length <= Len(wire)

(* What came, when it is whole, means `meant` to the reader.                    *)
DecodesAs(whole, meant) ==
    IF outcome = "ok" THEN whole # {} /\ meant.ok /\ frames[1].msg = meant.value
    ELSE whole # {} => ~ meant.ok
DecodesRecords(recs, whole) ==
    DecodesAs(whole, Meaning(scene.case.read, Default(scene.case.read),
                             SubSeq(recs, 1, CHOOSE n \in whole : TRUE), LastPass))
DecodesFrom(recs) == DecodesRecords(recs, {n \in 0..Len(recs) : EndsAfter(recs, n)})

(* The decoder makes of the bytes that came exactly what they mean: it succeeds *)
(* when they end with a record, nothing is too many or too big and nothing      *)
(* required is missing, and then the struct holds the records that came, those  *)
(* of both messages merged and those it does not know left out.                 *)
DecodesWhatWasSent ==
    (outcome \in {"ok", "failed"} /\ frames # <<>>) => DecodesFrom(AllRecords(LastPass))

(* An encoding that succeeds, whatever its callbacks did, stays in its buffer   *)
(* and every length in it is the length of what follows: the size found in      *)
(* advance is that of the bytes written.                                        *)
EncodesAsSized ==
    \A i \in DOMAIN sent :
        LET e == sent[i].stream
        IN /\ Len(e.out) <= e.max
           /\ e.ok => /\ e.n = Len(e.out)
                      /\ e.n = Encoded(Sizing(0), sent[i].msg, LastPass).n
=============================================================================
