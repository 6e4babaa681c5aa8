----------------------------- MODULE LevelBlock -----------------------------
(***************************************************************************)
(* A block of a table (table/block_builder.cc, table/block.cc): sorted     *)
(* keys stored as what they do not share with the key before, with restart *)
(* points where nothing is shared, and the iterator that walks and seeks   *)
(* in it.  The offset of an entry is its number.  One entry may be damaged *)
(* so that it does not decode.                                             *)
(***************************************************************************)
EXTENDS Integers, Sequences

CONSTANTS Strings,     \* the keys there may be: sequences of bytes
          Intervals,   \* values of block_restart_interval
          MaxKeys      \* bound: keys in the block

VARIABLES
    builder,  \* [keys, shared, rest, restarts, counter, last, interval, done]
    broken,   \* the damaged entry, 0 when there is none
    iter,     \* [current, restart, key, next, err], next is NextEntryOffset
    place     \* where a plain list would stand, 0 when nowhere

blockVars == <<builder, broken, iter, place>>

IsPrefix(s, t) == Len(s) <= Len(t) /\ \A i \in 1..Len(s) : s[i] = t[i]
Less(s, t) ==      \* Slice::compare
    \/ IsPrefix(s, t) /\ s # t
    \/ \E i \in 1..Len(s) : /\ i <= Len(t) /\ s[i] < t[i]
                            /\ \A j \in 1..(i - 1) : s[j] = t[j]
Shared(s, t) ==
    CHOOSE n \in 0..Len(s) :
        /\ IsPrefix(SubSeq(s, 1, n), t)
        /\ n < Len(s) => ~IsPrefix(SubSeq(s, 1, n + 1), t)

BlockInit ==
    /\ \E n \in Intervals :
          builder = [keys |-> <<>>, shared |-> <<>>, rest |-> <<>>, restarts |-> <<1>>,
                     counter |-> 0, last |-> <<>>, interval |-> n, done |-> FALSE]
    /\ broken = 0 /\ place = 0
    /\ iter = [current |-> 0, restart |-> 0, key |-> <<>>, next |-> 0, err |-> FALSE]

-----------------------------------------------------------------------------
(* BlockBuilder                                                              *)

Added(k) ==
    LET restart == builder.counter >= builder.interval
        n == IF restart THEN 0 ELSE Shared(builder.last, k)
    IN [builder EXCEPT
            !.keys = Append(@, k), !.shared = Append(@, n),
            !.rest = Append(@, SubSeq(k, n + 1, Len(k))),
            !.restarts = IF restart THEN Append(@, Len(builder.keys) + 1) ELSE @,
            !.counter = IF restart THEN 1 ELSE @ + 1,
            !.last = k]

Add(k) ==
    /\ ~builder.done /\ Len(builder.keys) < MaxKeys
    /\ builder.keys # <<>> => Less(builder.last, k)
    /\ builder' = Added(k)
    /\ UNCHANGED <<broken, iter, place>>

Count == Len(builder.keys)
Outside == Count + 1          \* restarts_, the offset after the last entry
Key(i) == builder.keys[i]

(* Finish, damage, and Block::NewIterator.                                   *)
Finish(d) ==
    /\ ~builder.done /\ d \in 0..Count
    /\ builder' = [builder EXCEPT !.done = TRUE]
    /\ broken' = d
    /\ iter' = [current |-> Outside, restart |-> Len(builder.restarts) + 1,
                key |-> <<>>, next |-> Outside, err |-> FALSE]
    /\ UNCHANGED place

-----------------------------------------------------------------------------
(* Block::Iter: each operator takes the iterator and returns it              *)

Restart(i) == builder.restarts[i]
Ended(it) == [it EXCEPT !.current = Outside, !.restart = Len(builder.restarts) + 1]
CorruptionError(it) ==
    [Ended(it) EXCEPT !.err = TRUE, !.key = <<>>, !.next = Outside]
SeekToRestartPoint(it, r) == [it EXCEPT !.key = <<>>, !.restart = r, !.next = Restart(r)]

ParseNextKey(it) ==
    LET e == it.next
        passed == {r \in DOMAIN builder.restarts : r >= it.restart /\ Restart(r) < e}
    IN IF e >= Outside THEN Ended(it)
       ELSE IF e = broken \/ Len(it.key) < builder.shared[e] THEN CorruptionError(it)
       ELSE [it EXCEPT !.current = e, !.next = e + 1,
                       !.key = SubSeq(@, 1, builder.shared[e]) \o builder.rest[e],
                       !.restart = IF passed = {} THEN @
                                   ELSE CHOOSE r \in passed : \A q \in passed : q <= r]

(* key_ as parsing from here would leave it after each entry.                 *)
KeysFrom(it) ==
    LET key[i \in 0..Count] ==
            IF i < it.next THEN it.key
            ELSE SubSeq(key[i - 1], 1, builder.shared[i]) \o builder.rest[i]
    IN key

(* The loops of Seek, SeekToLast and Prev around ParseNextKey: parsing goes   *)
(* on until one of the entries `wanted`, the end or the damage is met.        *)
ParseFrom(it, wanted) ==
    LET key == KeysFrom(it)
        stops == {i \in it.next..Count : i = broken \/ i \in wanted}
        first == CHOOSE i \in stops : \A j \in stops : i <= j
    IN IF stops = {} THEN Ended([it EXCEPT !.next = Outside, !.key = key[Count]])
       ELSE ParseNextKey([it EXCEPT !.next = first, !.key = key[first - 1]])

(* The last restart point with a key before the target, by binary search; the *)
(* damage of a key the search looks at is an error, 0 here.                  *)
RestartFor(target) ==
    LET search[left \in 1..Len(builder.restarts), right \in 1..Len(builder.restarts)] ==
            LET mid == (left + right + 1) \div 2
            IN IF left >= right THEN left
               ELSE IF Restart(mid) = broken \/ builder.shared[Restart(mid)] # 0 THEN 0
               ELSE IF Less(builder.rest[Restart(mid)], target) THEN search[mid, right]
               ELSE search[left, mid - 1]
    IN search[1, Len(builder.restarts)]

SeekTo(it, target) ==
    LET r == RestartFor(target)
        begin == SeekToRestartPoint(it, r)
    IN IF r = 0 THEN CorruptionError(it)
       ELSE ParseFrom(begin, {i \in begin.next..Count : ~Less(KeysFrom(begin)[i], target)})

SteppedBackLate(it) ==     \* mutant: a restart point at the entry itself will do
    LET before == {r \in 1..it.restart : Restart(r) <= it.current}
        r == CHOOSE q \in before : \A p \in before : p <= q
    IN IF before = {} THEN Ended(it)
       ELSE ParseFrom(SeekToRestartPoint(it, r), (it.current - 1)..Count)
SteppedBack(it) ==
    LET before == {r \in 1..it.restart : Restart(r) < it.current}
        r == CHOOSE q \in before : \A p \in before : p <= q
    IN IF before = {} THEN Ended(it)
       ELSE ParseFrom(SeekToRestartPoint(it, r), (it.current - 1)..Count)

-----------------------------------------------------------------------------
(* The caller, and the list it would see                                     *)

Move(it, p) ==
    /\ builder.done
    /\ iter' = it /\ place' = p
    /\ UNCHANGED <<builder, broken>>
Valid == iter.current < Outside

SeekToFirst == Move(ParseNextKey(SeekToRestartPoint(iter, 1)), IF Count = 0 THEN 0 ELSE 1)
SeekToLast ==
    Move(ParseFrom(SeekToRestartPoint(iter, Len(builder.restarts)), {Count}), Count)
Seek(k) ==
    LET after == {i \in 1..Count : ~Less(Key(i), k)}
    IN Move(SeekTo(iter, k),
            IF after = {} THEN 0 ELSE CHOOSE i \in after : \A j \in after : i <= j)
Forth == Valid /\ Move(ParseNextKey(iter), IF place < Count THEN place + 1 ELSE 0)
Back == Valid /\ Move(SteppedBack(iter), place - 1)

BlockNext ==
    \/ \E k \in Strings : Add(k)
    \/ \E d \in 0..MaxKeys : Finish(d)
    \/ SeekToFirst \/ SeekToLast \/ (\E k \in Strings : Seek(k)) \/ Forth \/ Back

BlockSpec == BlockInit /\ [][BlockNext]_blockVars

-----------------------------------------------------------------------------
(* Properties *)

(* The iterator stands where a plain sorted list would, on the whole key, as  *)
(* long as it has met no damage; and it never returns a key that is not the   *)
(* one stored there, nor the damaged one, whatever was sought before.        *)
BlockIterFollowsList ==
    builder.done =>
        /\ ~iter.err => (IF Valid THEN iter.current ELSE 0) = place
        /\ Valid => iter.key = Key(iter.current) /\ iter.current # broken
=============================================================================
