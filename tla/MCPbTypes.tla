------------------------------ MODULE MCPbTypes -----------------------------
(***************************************************************************)
(* Message types and messages for instances of PbDecode: what the sender's *)
(* and the reader's generated code might be, in bytes of 16 values.         *)
(***************************************************************************)
EXTENDS Integers, Sequences

Field(tag, h, l, a, size, max, sub) ==
    [tag |-> tag, h |-> h, l |-> l, a |-> a, size |-> size, max |-> max, sub |-> sub]
Scene(write, read, messages, scripts, buffers, most, framing) ==
    [write |-> write, read |-> read, messages |-> messages, scripts |-> scripts,
     buffers |-> buffers, most |-> most, framing |-> framing]

(* The encode callbacks write the same at every pass.                         *)
Steadily == {<<1, 1, 1, 1, 1, 1, 1, 1>>}

(* Numbers, read by the same type, into fields too narrow, and by callbacks.  *)
PlainNumbers == <<Field(1, "required", "uvarint", "static", 2, 1, <<>>),
             Field(2, "optional", "svarint", "static", 2, 1, <<>>),
             Field(3, "repeated", "varint", "static", 1, 2, <<>>)>>
NumbersMessages ==
    {<<a, b, c>> : a \in {<<0>>, <<200>>}, b \in {<<>>, <<-100>>}, c \in {<<>>, <<7, -1>>}}
Narrow == <<Field(1, "required", "uvarint", "static", 1, 1, <<>>),
            Field(3, "repeated", "varint", "pointer", 2, 0, <<>>)>>
Raw == <<Field(1, "optional", "uvarint", "callback", 2, 1, <<>>),
         Field(2, "required", "svarint", "static", 2, 1, <<>>),
         Field(3, "repeated", "varint", "callback", 1, 2, <<>>)>>

(* Submessages and a oneof of a string and a submessage.                      *)
Inner == <<Field(1, "optional", "fixed32", "static", 2, 1, <<>>),
           Field(2, "repeated", "string", "static", 3, 2, <<>>)>>
InnerMessages == {<<<<>>, <<>>>>, <<<<7>>, <<>>>>, <<<<>>, <<<<5, 6>>>>>>, <<<<77>>, <<<<>>, <<5>>>>>>}
Outer == <<Field(1, "optional", "submessage", "static", 0, 1, Inner),
           Field(2, "oneof", "string", "static", 3, 1, <<>>),
           Field(3, "oneof", "submessage", "static", 0, 1, Inner)>>
OuterMessages ==
    {<<a, b, c>> : a \in {<<>>} \cup {<<m>> : m \in InnerMessages},
                   b \in {<<>>, <<<<9>>>>}, c \in {<<>>, <<<<<<3>>, <<>>>>>>}}
OneOfEach == {m \in OuterMessages : m[2] = <<>> \/ m[3] = <<>>}

(* Arrays of a fixed size; fields of proto3; pointers.                        *)
Fixed == <<Field(1, "fixed", "fixed_bytes", "static", 2, 2, <<>>),
           Field(2, "fixed", "fixed64", "static", 4, 2, <<>>),
           Field(3, "repeated", "submessage", "static", 0, 1, Inner)>>
FixedMessages ==
    {<<<<<<1, 2>>, <<3, 4>>>>, <<9, 40>>, c>> : c \in {<<>>, <<<<<<7>>, <<>>>>>>}}
Single == <<Field(1, "singular", "varint", "static", 2, 1, <<>>),
            Field(2, "singular", "bytes", "static", 2, 1, <<>>),
            Field(3, "singular", "submessage", "static", 0, 1,
                  <<Field(1, "singular", "uvarint", "static", 1, 1, <<>>)>>),
            Field(4, "optional", "submessage", "pointer", 0, 1, Inner),
            Field(5, "repeated", "string", "pointer", 0, 0, <<>>)>>
SingleMessages ==
    {<<a, b, c, d, e>> : a \in {<<0>>, <<-3>>}, b \in {<<<<>>>>, <<<<0>>>>},
                         c \in {<<<<<<0>>>>>>, <<<<<<3>>>>>>},
                         d \in {<<>>, <<<<<<7>>, <<>>>>>>}, e \in {<<>>, <<<<8>>>>}}

(* A callback two submessages deep, which may write more at one pass than at   *)
(* another.                                                                  *)
Calls == <<Field(1, "optional", "submessage", "static", 0, 1,
               <<Field(1, "optional", "submessage", "static", 0, 1,
                     <<Field(1, "optional", "string", "callback", 0, 1, <<>>)>>)>>),
           Field(2, "optional", "fixed64", "static", 4, 1, <<>>)>>
CallsMessages == {<<<<<<<<<<<<1>>>>>>>>>>, <<5>>>>}
Unsteadily == {<<a, b, c, 1, 1>> : a, b, c \in {1, 2}}

(* Extensions from tag 4 on; the reader has registered one of the two.        *)
ExtensionRange(chain) == Field(4, "optional", "extension", "callback", 0, 1, chain)
Text == Field(5, "optional", "string", "static", 3, 1, <<>>)
Flag == Field(4, "optional", "uvarint", "static", 1, 1, <<>>)
Extendable == <<Field(1, "optional", "uvarint", "static", 1, 1, <<>>), ExtensionRange(<<Text, Flag>>)>>
LessExtended == <<ExtensionRange(<<Text>>), Field(1, "optional", "uvarint", "static", 1, 1, <<>>)>>
ExtendableMessages ==
    {[t \in {1, 4, 5} |-> CASE t = 1 -> a [] t = 4 -> b [] t = 5 -> c] :
        a \in {<<>>, <<3>>}, b \in {<<>>, <<9>>}, c \in {<<>>, <<<<6, 2>>>>}}

PbCases ==
    {Scene(PlainNumbers, PlainNumbers, NumbersMessages, Steadily, {99, 9}, 2, "plain"),
     Scene(PlainNumbers, Narrow, NumbersMessages, Steadily, {99}, 1, "zero"),
     Scene(PlainNumbers, Raw, NumbersMessages, Steadily, {99}, 1, "plain"),
     Scene(Outer, Outer, OneOfEach, Steadily, {99}, 2, "plain"),
     Scene(Fixed, Fixed, FixedMessages, Steadily, {99}, 1, "zero"),
     Scene(Single, Single, SingleMessages, Steadily, {99}, 1, "plain"),
     Scene(Calls, Calls, CallsMessages, Unsteadily, {99, 18, 16}, 1, "plain"),
     Scene(Extendable, Extendable, ExtendableMessages, Steadily, {99}, 2, "delimited"),
     Scene(Extendable, LessExtended, ExtendableMessages, Steadily, {99}, 2, "plain")}
=============================================================================
