------------------------------ MODULE LevelIter ------------------------------
(***************************************************************************)
(* leveldb's iterators, one on top of the other: TwoLevelIterator walks    *)
(* the blocks of a table or the files of a level, MergingIterator merges   *)
(* such children by internal key, and DBIter turns the entries into the    *)
(* user's keys as of one sequence number.  A block that cannot be read     *)
(* yields an iterator that is never valid and has an error status.         *)
(***************************************************************************)
EXTENDS Integers, Sequences, FiniteSets

CONSTANTS Keys,      \* user keys, integers
          Writes     \* how many entries there are

VARIABLES
    layout,   \* the children's blocks, the unreadable ones, the sequence read at
    merge,    \* the MergingIterator: [at, cur, dir], at[c] a TwoLevelIterator
    dbit,     \* the DBIter: [valid, dir, saved], saved the entry of saved_key_
    cursor,   \* where a list of the visible keys would stand, 0 when nowhere
    sweep     \* a walk from one end by Next, or by Prev, alone: "up", "down"

vars == <<layout, merge, dbit, cursor, sweep>>

Before(e, f) == e.key < f.key \/ (e.key = f.key /\ e.seq > f.seq)
Sorted(S) ==
    [i \in 1..Cardinality(S) |->
        CHOOSE e \in S : Cardinality({f \in S : Before(f, e)}) = i - 1]
Least(S) == CHOOSE n \in S : \A m \in S : n <= m
Greatest(S) == CHOOSE n \in S : \A m \in S : m <= n

None == [key |-> 0, seq |-> 0, del |-> TRUE]
Start == [i |-> 0, p |-> 0, err |-> FALSE]
Children == {1, 2}

-----------------------------------------------------------------------------
(* The data: one child of one block, one of two blocks cut anywhere          *)

Entries == {f \in [1..Writes -> [key : Keys, del : BOOLEAN]] : TRUE}
Data(w, S) == Sorted({[key |-> w[s].key, seq |-> s, del |-> w[s].del] : s \in S})
Cut(s, n) == SelectSeq(<<SubSeq(s, 1, n), SubSeq(s, n + 1, Len(s))>>, LAMBDA b : b # <<>>)

Init ==
    /\ \E w \in Entries, S \in SUBSET (1..Writes), n \in 0..(Writes - 1), snap \in 0..Writes :
       \E bad \in SUBSET ({2} \X {1, 2}) :
          LET first == Data(w, S)
              second == Cut(Data(w, (1..Writes) \ S), n)
          IN /\ n <= Writes - Cardinality(S)
             /\ \A x \in bad : x[2] <= Len(second)
             /\ layout = [blocks |-> <<IF first = <<>> THEN <<>> ELSE <<first>>, second>>,
                          bad |-> bad, snap |-> snap]
    /\ merge = [at |-> [c \in Children |-> Start], cur |-> 0, dir |-> "forward"]
    /\ dbit = [valid |-> FALSE, dir |-> "forward", saved |-> None]
    /\ cursor = 0 /\ sweep = "no"

Blocks(c) == layout.blocks[c]
Block(c, i) ==
    IF i = 0 \/ <<c, i>> \in layout.bad THEN <<>> ELSE Blocks(c)[i]

-----------------------------------------------------------------------------
(* TwoLevelIterator: [i, p, err] is the index's place, the block's, status_   *)

OK(c, t) == t.p \in DOMAIN Block(c, t.i)
At(c, t) == Block(c, t.i)[t.p]
Errors(c, t, from, to) ==
    t.err \/ \E i \in from..to : <<c, i>> \in layout.bad

(* SkipEmptyDataBlocksForward and -Backward, at block t.i.                    *)
SkipSilently(c, t) ==      \* mutant: SetDataIterator does not save the status
    LET later == {j \in (t.i + 1)..Len(Blocks(c)) : Block(c, j) # <<>>}
    IN IF OK(c, t) \/ t.i = 0 THEN t
       ELSE IF later = {} THEN [i |-> 0, p |-> 0, err |-> FALSE]
       ELSE [i |-> Least(later), p |-> 1, err |-> FALSE]
SkipForward(c, t) ==
    LET later == {j \in (t.i + 1)..Len(Blocks(c)) : Block(c, j) # <<>>}
    IN IF OK(c, t) \/ t.i = 0 THEN t
       ELSE IF later = {}
            THEN [i |-> 0, p |-> 0, err |-> Errors(c, t, t.i, Len(Blocks(c)))]
       ELSE [i |-> Least(later), p |-> 1, err |-> Errors(c, t, t.i, Least(later))]
SkipBackward(c, t) ==
    LET earlier == {j \in 1..(t.i - 1) : Block(c, j) # <<>>}
    IN IF OK(c, t) \/ t.i = 0 THEN t
       ELSE IF earlier = {} THEN [i |-> 0, p |-> 0, err |-> Errors(c, t, 1, t.i)]
       ELSE [i |-> Greatest(earlier), p |-> Len(Block(c, Greatest(earlier))),
             err |-> Errors(c, t, Greatest(earlier), t.i)]

(* The index finds the first block whose last key is not before e.            *)
ChildSeek(c, t, e) ==
    LET reach == {i \in DOMAIN Blocks(c) : ~Before(Blocks(c)[i][Len(Blocks(c)[i])], e)}
        i == IF reach = {} THEN 0 ELSE Least(reach)
        p == {q \in DOMAIN Block(c, i) : ~Before(Block(c, i)[q], e)}
    IN SkipForward(c, [t EXCEPT !.i = i, !.p = IF p = {} THEN 0 ELSE Least(p)])
ChildFirst(c, t) ==
    SkipForward(c, [t EXCEPT !.i = IF Blocks(c) = <<>> THEN 0 ELSE 1, !.p = 1])
ChildLast(c, t) ==
    LET i == Len(Blocks(c))
    IN SkipBackward(c, [t EXCEPT !.i = i, !.p = Len(Block(c, i))])
ChildNext(c, t) == SkipForward(c, [t EXCEPT !.p = @ + 1])
ChildPrev(c, t) == SkipBackward(c, [t EXCEPT !.p = @ - 1])

-----------------------------------------------------------------------------
(* MergingIterator                                                            *)

Standing(at) == {c \in Children : OK(c, at[c])}
FindSmallest(at) ==
    IF Standing(at) = {} THEN 0
    ELSE CHOOSE c \in Standing(at) : \A d \in Standing(at) :
            c = d \/ Before(At(c, at[c]), At(d, at[d]))
FindLargest(at) ==
    IF Standing(at) = {} THEN 0
    ELSE CHOOSE c \in Standing(at) : \A d \in Standing(at) :
            c = d \/ Before(At(d, at[d]), At(c, at[c]))

Forward(at) == [at |-> at, cur |-> FindSmallest(at), dir |-> "forward"]
Reverse(at) == [at |-> at, cur |-> FindLargest(at), dir |-> "reverse"]
Key(m) == At(m.cur, m.at[m.cur])

MFirst(m) == Forward([c \in Children |-> ChildFirst(c, m.at[c])])
MLast(m) == Reverse([c \in Children |-> ChildLast(c, m.at[c])])
MSeek(m, e) == Forward([c \in Children |-> ChildSeek(c, m.at[c], e)])

(* The children but the current one, moved to just after or before the key.   *)
After(m, c) ==
    LET t == ChildSeek(c, m.at[c], Key(m))
    IN IF OK(c, t) /\ At(c, t) = Key(m) THEN ChildNext(c, t) ELSE t
AheadUnlessEnd(m, c) ==      \* mutant: nothing is done past a child's end
    LET t == ChildSeek(c, m.at[c], Key(m))
    IN IF OK(c, t) THEN ChildPrev(c, t) ELSE t
Ahead(m, c) ==
    LET t == ChildSeek(c, m.at[c], Key(m))
    IN IF OK(c, t) THEN ChildPrev(c, t) ELSE ChildLast(c, t)

MNext(m) ==
    Forward([c \in Children |->
        IF c = m.cur THEN ChildNext(c, m.at[c])
        ELSE IF m.dir = "forward" THEN m.at[c] ELSE After(m, c)])
MPrev(m) ==
    Reverse([c \in Children |->
        IF c = m.cur THEN ChildPrev(c, m.at[c])
        ELSE IF m.dir = "reverse" THEN m.at[c] ELSE Ahead(m, c)])

-----------------------------------------------------------------------------
(* DBIter: each operator returns [m, d], the two iterators afterwards          *)

Visible(e) == e.seq <= layout.snap
Pair(m, d) == [m |-> m, d |-> d]
Invalid(dir) == [valid |-> FALSE, dir |-> dir, saved |-> None]

RECURSIVE FindNextUserEntry(_, _, _)
FindNextUserEntry(m, skipping, skip) ==
    IF m.cur = 0 THEN Pair(m, Invalid("forward"))
    ELSE LET e == Key(m)
             hidden == skipping /\ e.key <= skip
         IN IF Visible(e) /\ ~e.del /\ ~hidden
            THEN Pair(m, [valid |-> TRUE, dir |-> "forward", saved |-> None])
            ELSE IF Visible(e) /\ e.del THEN FindNextUserEntry(MNext(m), TRUE, e.key)
            ELSE FindNextUserEntry(MNext(m), skipping, skip)

RECURSIVE FindPrevUserEntry(_, _)
FindPrevUserEntry(m, saved) ==     \* saved.del: the loop's value_type is a deletion
    IF m.cur # 0 /\ ~(Visible(Key(m)) /\ ~saved.del /\ Key(m).key < saved.key)
    THEN FindPrevUserEntry(MPrev(m), IF ~Visible(Key(m)) THEN saved
                                     ELSE IF Key(m).del THEN None ELSE Key(m))
    ELSE Pair(m, IF saved.del THEN Invalid("forward")
                 ELSE [valid |-> TRUE, dir |-> "reverse", saved |-> saved])

RECURSIVE BackBefore(_, _)
BackBefore(m, k) == IF m.cur = 0 \/ Key(m).key < k THEN m ELSE BackBefore(MPrev(m), k)

StepNext ==
    LET turned == IF merge.cur = 0 THEN MFirst(merge) ELSE MNext(merge)
    IN IF dbit.dir = "forward" THEN FindNextUserEntry(merge, TRUE, Key(merge).key)
       ELSE FindNextUserEntry(turned, TRUE, dbit.saved.key)
StepPrev ==
    LET back == BackBefore(MPrev(merge), Key(merge).key)
    IN IF dbit.dir = "reverse" THEN FindPrevUserEntry(merge, None)
       ELSE IF back.cur = 0 THEN Pair(back, Invalid("forward"))
       ELSE FindPrevUserEntry(back, None)

-----------------------------------------------------------------------------
(* The caller, and the list it would see                                      *)

Readable == {Block(x[1], x[2])[x[3]] : x \in {y \in Children \X (1..2) \X (1..Writes) :
                y[2] \in DOMAIN Blocks(y[1]) /\ y[3] \in DOMAIN Block(y[1], y[2])}}
Latest(k) == {e \in Readable : /\ e.key = k /\ Visible(e)
                               /\ \A f \in Readable : f.key = k /\ Visible(f) => f.seq <= e.seq}
Listed == {k \in Keys : \E e \in Latest(k) : ~e.del}
OrNone(S, Choice(_)) == IF S = {} THEN 0 ELSE Choice(S)

Do(r, place) ==
    /\ merge' = r.m /\ dbit' = r.d /\ cursor' = place
    /\ UNCHANGED layout

SeekToFirst ==
    /\ Do(FindNextUserEntry(MFirst(merge), FALSE, 0), OrNone(Listed, Least))
    /\ sweep' = "up"
SeekToLast ==
    /\ Do(FindPrevUserEntry(MLast(merge), None), OrNone(Listed, Greatest))
    /\ sweep' = "down"
Seek(k) ==
    LET target == [key |-> k, seq |-> layout.snap]
    IN /\ Do(FindNextUserEntry(MSeek(merge, target), FALSE, 0),
             OrNone({j \in Listed : j >= k}, Least))
       /\ sweep' = "no"
NextKey ==
    /\ dbit.valid
    /\ Do(StepNext, OrNone({j \in Listed : j > cursor}, Least))
    /\ sweep' = IF sweep = "up" THEN "up" ELSE "no"
PrevKey ==
    /\ dbit.valid
    /\ Do(StepPrev, OrNone({j \in Listed : j < cursor}, Greatest))
    /\ sweep' = IF sweep = "down" THEN "down" ELSE "no"

Next == SeekToFirst \/ SeekToLast \/ (\E k \in Keys : Seek(k)) \/ NextKey \/ PrevKey

Spec == Init /\ [][Next]_vars

-----------------------------------------------------------------------------
(* Properties *)

Current == IF dbit.dir = "forward" THEN Key(merge) ELSE dbit.saved

(* Whatever the calls and the changes of direction, the iterator stands where *)
(* a sorted list of the readable, visible, undeleted keys would, on the       *)
(* newest value of that key.                                                  *)
IteratorFollowsList ==
    /\ dbit.valid <=> cursor # 0
    /\ dbit.valid => Current.key = cursor /\ Current \in Latest(cursor)

(* A block that could not be read is never passed over in silence: a walk     *)
(* from one end that has run out of keys at the other end has an error in     *)
(* status().                                                                  *)
NoSilentGap ==
    sweep # "no" /\ ~dbit.valid /\ layout.bad # {} =>
        \E c \in Children : merge.at[c].err
=============================================================================
