------------------------------ MODULE PbEncode ------------------------------
(***************************************************************************)
(* nanopb's encoder (pb_encode.c) and the protobuf wire format.  A message *)
(* type is a sequence of field descriptors (pb_field_t, pb.h)              *)
(*                                                                         *)
(*   [tag, h, l, a, size, max, sub]                                        *)
(*                                                                         *)
(* h: "required", "optional" (with a has_ flag), "singular" (proto3, none),*)
(*    "repeated", "fixed" (a repeated field of fixed count), "oneof";      *)
(* l: "varint", "uvarint", "svarint", "fixed32", "fixed64", "bytes",       *)
(*    "string", "submessage", "fixed_bytes";                               *)
(* a: "static", "pointer", "callback";  size, max: data_size, array_size.  *)
(* or a placeholder (l = "extension") for the tags from `tag` on: sub is the *)
(* chain of the extensions that were registered with the message.            *)
(* A message is a function from tags to the sequence of the field's items: *)
(* empty for an optional or oneof field that is not there.  The widths are *)
(* scaled: a byte of a varint carries Group values, not 128.               *)
(***************************************************************************)
EXTENDS Integers, Sequences

CONSTANTS Group,          \* 128: the payload of a byte of a varint
          WordBytes, LongBytes    \* 4 and 8: the bytes of a word and a long

Byte == 2 * Group
Word == Byte ^ WordBytes
Long == Byte ^ LongBytes

IsPackable(f) == f.l \in {"varint", "uvarint", "svarint", "fixed32", "fixed64"}
IsArray(f) == f.h \in {"repeated", "fixed"}

(* The fields with the chain of extensions in the placeholder's place, each of *)
(* them encoded like a field of the message.                                 *)
Extended(type) ==
    LET upTo[i \in 0..Len(type)] ==
            IF i = 0 THEN <<>>
            ELSE upTo[i - 1] \o (IF type[i].l = "extension" THEN type[i].sub ELSE <<type[i]>>)
    IN upTo[Len(type)]

-----------------------------------------------------------------------------
(* Output streams: a null stream (PB_OSTREAM_SIZING) only counts.             *)

Sizing(calls) == [null |-> TRUE, out |-> <<>>, n |-> 0, max |-> 0, ok |-> TRUE, calls |-> calls]
ToBuffer(bufsize) ==
    [null |-> FALSE, out |-> <<>>, n |-> 0, max |-> bufsize, ok |-> TRUE, calls |-> 0]
Failed(s) == [s EXCEPT !.ok = FALSE]

pb_write(s, bytes) ==
    IF ~ s.ok THEN s
    ELSE IF ~ s.null /\ s.n + Len(bytes) > s.max THEN Failed(s)
    ELSE [s EXCEPT !.n = @ + Len(bytes), !.out = IF s.null THEN @ ELSE @ \o bytes]

-----------------------------------------------------------------------------
(* Numbers                                                                    *)

Varint[v \in Nat] ==
    IF v < Group THEN <<v>> ELSE <<(v % Group) + Group>> \o Varint[v \div Group]
LittleEndian(v, count) == [i \in 1..count |-> (v \div Byte ^ (i - 1)) % Byte]

Zigzag(v) == IF v < 0 THEN -2 * v - 1 ELSE 2 * v
Number(f, v) ==       \* pb_enc_varint, _uvarint, _svarint, _fixed32, _fixed64
    CASE f.l = "svarint" -> Varint[Zigzag(v)]
      [] f.l = "fixed32" -> LittleEndian(v, WordBytes)
      [] f.l = "fixed64" -> LittleEndian(v, LongBytes)
      [] OTHER -> Varint[v % Long]      \* negative: sign-extended to 64 bits

WireType(f) == CASE f.l \in {"varint", "uvarint", "svarint"} -> 0
                 [] f.l = "fixed64" -> 1
                 [] f.l = "fixed32" -> 5
                 [] OTHER -> 2
Tag(f, wireType) == Varint[f.tag * 8 + wireType]

-----------------------------------------------------------------------------
(* Fields.  Callback fields write a string of the length that `script` has    *)
(* for this call: a callback runs once for each pass, and need not do the     *)
(* same in each.                                                              *)

Zeros(n) == [i \in 1..n |-> 0]
Payload(script, call) == [i \in 1..script[call] |-> 1]
Callback(s, f, script) ==
    LET payload == Payload(script, s.calls + 1)
    IN IF ~ s.ok THEN s
       ELSE pb_write([s EXCEPT !.calls = @ + 1], Tag(f, 2) \o Varint[Len(payload)] \o payload)

RECURSIVE pb_encode(_, _, _, _), ZeroField(_, _)

(* pb_check_proto3_default_value                                              *)
ZeroField(f, items) ==
    CASE f.h = "required" \/ f.h = "fixed" -> FALSE
      [] f.h \in {"repeated", "oneof", "optional"} \/ f.a = "pointer" -> items = <<>>
      [] f.l \in {"bytes", "string"} -> items[1] = <<>>
      [] f.l = "fixed_bytes" -> FALSE
      [] f.l = "submessage" ->
            \A i \in DOMAIN f.sub : ZeroField(f.sub[i], items[1][f.sub[i].tag])
      [] OTHER -> items[1] = 0

(* The size is found by a pass that writes nothing; the second pass gets a    *)
(* stream of exactly that size, s1 being the one after the size was written.   *)
SubmessageUnchecked(s, s1, size, sub) ==       \* mutant: no second look at the size
    IF ~ size.ok \/ ~ s1.ok THEN Failed(s)
    ELSE IF s.null THEN pb_write(s1, Zeros(size.n))
    ELSE [sub EXCEPT !.n = s1.n + sub.n, !.max = s.max]
AfterSubmessage(s, s1, size, sub) ==
    IF ~ size.ok \/ ~ s1.ok THEN Failed(s)
    ELSE IF s.null THEN pb_write(s1, Zeros(size.n))
    ELSE IF s1.n + size.n > s1.max THEN Failed(s1)
    ELSE [sub EXCEPT !.n = s1.n + sub.n, !.max = s.max, !.ok = @ /\ sub.n = size.n]
SecondPass(s, s1, size, type, msg, script) ==
    AfterSubmessage(s, s1, size,
                    pb_encode([s1 EXCEPT !.n = 0, !.max = size.n], type, msg, script))
FirstPass(s, size, type, msg, script) ==
    SecondPass(s, pb_write([s EXCEPT !.calls = size.calls], Varint[size.n]),
               size, type, msg, script)
pb_encode_submessage(s, type, msg, script) ==
    FirstPass(s, pb_encode(Sizing(s.calls), type, msg, script), type, msg, script)

EncodeItem(s, f, item, script) ==         \* PB_ENCODERS
    CASE IsPackable(f) -> pb_write(s, Number(f, item))
      [] f.l = "submessage" -> pb_encode_submessage(s, f.sub, item, script)
      [] f.l = "bytes" /\ f.a = "static" /\ Len(item) > f.size -> Failed(s)
      [] OTHER -> pb_write(s, Varint[Len(item)] \o item)       \* pb_encode_string

(* Each item with its own tag: singular fields, and arrays that cannot be packed. *)
Tagged(s, f, items, script) ==
    LET upTo[i \in 0..Len(items)] ==
            IF i = 0 THEN s
            ELSE EncodeItem(pb_write(upTo[i - 1], Tag(f, WireType(f))), f, items[i], script)
    IN upTo[Len(items)]

Packed(f, items) ==
    LET upTo[i \in 0..Len(items)] ==
            IF i = 0 THEN <<>> ELSE upTo[i - 1] \o Number(f, items[i])
    IN upTo[Len(items)]

encode_array(s, f, items, script) ==
    LET data == Packed(f, items)
    IN IF items = <<>> THEN s
       ELSE IF f.a # "pointer" /\ Len(items) > f.max THEN Failed(s)
       ELSE IF IsPackable(f) THEN pb_write(s, Tag(f, 2) \o Varint[Len(data)] \o data)
       ELSE Tagged(s, f, items, script)

encode_field(s, f, items, script) ==
    CASE f.a = "callback" -> IF items = <<>> THEN s ELSE Callback(s, f, script)
      [] f.h = "required" /\ items = <<>> -> Failed(s)
      [] f.h = "singular" /\ ZeroField(f, items) -> s
      [] IsArray(f) -> encode_array(s, f, items, script)
      [] OTHER -> Tagged(s, f, items, script)

pb_encode(s, type, msg, script) ==
    LET fields == Extended(type)
        upTo[i \in 0..Len(fields)] ==
            IF i = 0 THEN s ELSE encode_field(upTo[i - 1], fields[i], msg[fields[i].tag], script)
    IN upTo[Len(fields)]

pb_encode_nullterminated(s, type, msg, script) ==
    pb_write(pb_encode(s, type, msg, script), <<0>>)
pb_encode_delimited(s, type, msg, script) == pb_encode_submessage(s, type, msg, script)
=============================================================================
