------------------------------ MODULE PbMemory ------------------------------
(***************************************************************************)
(* What nanopb's decoder allocates for pointer fields and who frees it      *)
(* (pb_decode.c with PB_ENABLE_MALLOC): the decoder itself, when a field    *)
(* comes again or another member of its oneof does and when it fails, and    *)
(* the caller, with pb_release.  A struct is an object; it lies in the one   *)
(* around it or in a block of the heap.  The bytes are module PbDecode's:    *)
(* here any field may come, whole or cut.  No realloc fails, and the members *)
(* of a oneof are all pointers.                                              *)
(***************************************************************************)
EXTENDS Integers, Sequences, FiniteSets, SequencesExt, FiniteSetsExt

CONSTANTS Types,       \* types of messages: sequences of [tag, h, a, l, sub], where sub is
                       \* the type of a submessage, h is "single", "oneof" or "repeated",
                       \* and l is "number", "bytes" or "submessage"
          MaxFields    \* bound: fields that come

VARIABLES
    objects,   \* the structs: [type, which, at, items]; at[t] is the block the pointer of
               \* tag t shows, 0 for NULL, and items[t] the objects or the blocks it holds
    heap,      \* [made, live]: the blocks ever allocated, and those that still are
    stack,     \* the objects being read, the innermost last
    arrived,   \* how many fields have come
    status     \* "reading", "failing", "failed", "ok", "released"

memoryVars == <<objects, heap, stack, arrived, status>>

-----------------------------------------------------------------------------
(* Structs                                                                   *)

Members(type) == {type[i] : i \in DOMAIN type}
Tags(type) == {f.tag : f \in Members(type)}
Embedded(type) == SelectSeq(type, LAMBDA f : f.a = "static" /\ f.l = "submessage")

(* pb_message_set_to_defaults: pointers are NULL and arrays empty; the structs *)
(* that lie in the struct follow it.                                         *)
Fresh(type, n) ==
    LET inner == Embedded(type)
        place(t) == {i \in DOMAIN inner : inner[i].tag = t}
    IN <<[type |-> type, which |-> 0, at |-> [t \in Tags(type) |-> 0],
          items |-> [t \in Tags(type) |-> IF place(t) = {} THEN <<>>
                                          ELSE <<n + 1 + (CHOOSE i \in place(t) : TRUE)>>]]>>
       \o [i \in DOMAIN inner |->
              [type |-> inner[i].sub, which |-> 0, at |-> [t \in Tags(inner[i].sub) |-> 0],
               items |-> [t \in Tags(inner[i].sub) |-> <<>>]]]

MemoryInit ==
    /\ \E type \in Types : objects = Fresh(type, 0)
    /\ heap = [made |-> 0, live |-> {}] /\ stack = <<1>> /\ arrived = 0 /\ status = "reading"

State == [objects |-> objects, heap |-> heap]
Becomes(s) == objects' = s.objects /\ heap' = s.heap
Current(s, o) == {f \in Members(s.objects[o].type) :    \* of a oneof, the member it names
                    f.h = "oneof" => s.objects[o].which = f.tag}

-----------------------------------------------------------------------------
(* Releasing                                                                 *)

(* The structs that a field holds, and those inside them.  A struct is made    *)
(* after the one it lies in.                                                 *)
Parts(s, o, f) ==
    IF f.l = "submessage" THEN ToSet(s.objects[o].items[f.tag]) ELSE {}
Inside(s, roots) ==
    LET upto[i \in 0..Len(s.objects)] ==
            IF i = 0 THEN roots
            ELSE upto[i - 1] \cup
                 (IF \E p \in upto[i - 1] : \E f \in Current(s, p) : i \in Parts(s, p, f)
                  THEN {i} ELSE {})
    IN upto[Len(s.objects)]
Blocks(s, o, f) ==       \* the entries of an array of strings, and the pointer itself
    LET entries == IF f.h = "repeated" /\ f.l = "bytes"
                   THEN ToSet(s.objects[o].items[f.tag]) ELSE {}
    IN (entries \cup {s.objects[o].at[f.tag]}) \ {0}

FreeField(s, o, f) ==
    IF f.a # "pointer" THEN s
    ELSE [s EXCEPT !.objects[o].at[f.tag] = 0, !.objects[o].items[f.tag] = <<>>,
                   !.heap.live = @ \ Blocks(s, o, f)]
FreeFields(s, cells) ==       \* cells: pairs of a struct and a field of it
    FoldSet(LAMBDA c, t : FreeField(t, c[1], c[2]), s, cells)
AllFields(s, roots) ==
    UNION {{<<o, f>> : f \in Current(s, o)} : o \in Inside(s, roots)}

pb_release(s, o) == FreeFields(s, AllFields(s, {o}))
ReleaseOuterOnly(s, o, f) ==      \* mutant: what the old submessage holds is forgotten
    IF f \notin Current(s, o) THEN s ELSE FreeFields(s, {<<o, f>>})
pb_release_single_field(s, o, f) ==
    IF f \notin Current(s, o) THEN s
    ELSE FreeFields(s, {<<o, f>>} \cup AllFields(s, Parts(s, o, f)))
pb_release_union_field(s, o, f) ==     \* another member of the oneof was there
    LET old == {g \in Current(s, o) : g.h = "oneof" /\ g # f}
    IN IF f.h # "oneof" \/ old = {} THEN s
       ELSE pb_release_single_field(s, o, CHOOSE g \in old : TRUE)

-----------------------------------------------------------------------------
(* Allocating                                                                *)

Malloc(s) ==
    [s EXCEPT !.heap = [made |-> @.made + 1, live |-> @.live \cup {@.made + 1}]]
(* allocate_field: a block of its own, or the one that is there made larger.   *)
allocate_field(s, o, f) ==
    IF s.objects[o].at[f.tag] # 0 THEN s
    ELSE Malloc([s EXCEPT !.objects[o].at[f.tag] = s.heap.made + 1])
(* initialize_pointer_field: a new item, a struct with its defaults or NULL.   *)
initialize_pointer_field(s, o, f) ==
    LET n == Len(s.objects)
        item == IF f.l = "submessage" THEN n + 1 ELSE 0
        items == IF f.h = "repeated" THEN Append(s.objects[o].items[f.tag], item) ELSE <<item>>
    IN [s EXCEPT !.objects = (IF f.l = "submessage" THEN @ \o Fresh(f.sub, n) ELSE @),
                 !.objects[o].items[f.tag] = items]
AllocateItem(s, o, f) ==       \* pb_dec_bytes, into an entry of an array
    LET k == Len(s.objects[o].items[f.tag])
    IN Malloc([s EXCEPT !.objects[o].items[f.tag][k] = s.heap.made + 1])

-----------------------------------------------------------------------------
(* A field comes; what cannot be read of it ends the decoding.                 *)

Reading == status = "reading" /\ stack # <<>>
Object == stack[Len(stack)]
Comes(f, s, inner) ==
    /\ Becomes(s)
    /\ \/ status' = "reading"
       \/ inner = <<>> /\ status' = "failing"
    /\ stack' = stack \o inner /\ arrived' = arrived + 1

StaticField(f) ==
    /\ f.a = "static"
    /\ Comes(f, State, IF f.l = "submessage" THEN objects[Object].items[f.tag] ELSE <<>>)

SingleField(f) ==      \* decode_pointer_field
    /\ f.a = "pointer" /\ f.h # "repeated"
    /\ LET held == pb_release_union_field(State, Object, f)
           again == f.l = "submessage" /\ held.objects[Object].at[f.tag] # 0
           free == IF again THEN pb_release_single_field(held, Object, f) ELSE held
           named == IF f.h = "oneof" THEN [free EXCEPT !.objects[Object].which = f.tag] ELSE free
           block == allocate_field(named, Object, f)
       IN \/ f.l = "bytes" /\ Comes(f, block, <<>>)
          \/ /\ f.l = "bytes" /\ Becomes(named)       \* the length cannot be read
             /\ status' = "failing" /\ arrived' = arrived + 1 /\ UNCHANGED stack
          \/ f.l = "number" /\ Comes(f, initialize_pointer_field(block, Object, f), <<>>)
          \/ f.l = "submessage" /\ Comes(f, initialize_pointer_field(block, Object, f),
                                         <<Len(block.objects) + 1>>)

RepeatedField(f) ==    \* the array grows by one, of a packed one for every number in it
    /\ f.a = "pointer" /\ f.h = "repeated"
    /\ LET item == initialize_pointer_field(allocate_field(State, Object, f), Object, f)
       IN \/ f.l = "bytes" /\ Comes(f, AllocateItem(item, Object, f), <<>>)
          \/ /\ f.l = "bytes" /\ Becomes(item)
             /\ status' = "failing" /\ arrived' = arrived + 1 /\ UNCHANGED stack
          \/ f.l = "number" /\ Comes(f, item, <<>>)
          \/ f.l = "submessage" /\ Comes(f, item, <<Len(objects) + 1>>)

ReadMember ==
    /\ Reading /\ arrived < MaxFields
    /\ \E f \in Members(objects[Object].type) : StaticField(f) \/ SingleField(f) \/ RepeatedField(f)

EndOfStruct ==      \* or the bytes are bad, here or in a message around
    /\ Reading
    /\ \/ stack' = Front(stack) /\ status' = (IF Len(stack) = 1 THEN "ok" ELSE "reading")
       \/ status' = "failing" /\ UNCHANGED stack
    /\ UNCHANGED <<objects, heap, arrived>>

(* pb_decode releases what it has allocated when it fails, and the caller does *)
(* when it is done with the message.                                         *)
ReleaseAll ==
    /\ status \in {"failing", "ok"}
    /\ Becomes(pb_release(State, 1))
    /\ status' = (IF status = "ok" THEN "released" ELSE "failed")
    /\ stack' = <<>> /\ UNCHANGED arrived

MemoryNext == ReadMember \/ EndOfStruct \/ ReleaseAll
MemorySpec == MemoryInit /\ [][MemoryNext]_memoryVars

-----------------------------------------------------------------------------
(* Properties *)

Pointers(b) ==        \* where the structs of the message point to block b
    {p \in AllFields(State, {1}) \X {0} : objects[p[1][1]].at[p[1][2].tag] = b}
        \cup {p \in AllFields(State, {1}) \X (1..MaxFields) :
                 /\ p[1][2].h = "repeated" /\ p[1][2].l = "bytes"
                 /\ p[2] \in DOMAIN objects[p[1][1]].items[p[1][2].tag]
                 /\ objects[p[1][1]].items[p[1][2].tag][p[2]] = b}

(* A block is allocated exactly as long as one pointer of the message shows it: *)
(* none is lost, freed twice or used after it was freed, whatever came again,   *)
(* changed its oneof or failed half way, and at the end none is left.           *)
BlocksOwnedOnce ==
    /\ \A b \in 1..heap.made : Cardinality(Pointers(b)) = (IF b \in heap.live THEN 1 ELSE 0)
    /\ status \in {"failed", "released"} => heap.live = {}
=============================================================================
