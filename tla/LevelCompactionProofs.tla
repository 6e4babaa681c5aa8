------------------------ MODULE LevelCompactionProofs ------------------------
(***************************************************************************)
(* Proofs about leveldb's levels (LevelCompaction), for any number of      *)
(* levels, keys, writes and snapshots, and any limits on sizes.            *)
(***************************************************************************)
EXTENDS LevelCompaction, TLAPS, FiniteSetTheorems, WellFoundedInduction

-----------------------------------------------------------------------------
(* The state                                                                 *)

Entry == [key : Nat, del : BOOLEAN, seq : Nat]

(* A finite set of entries, no two of one key and one number.                *)
Sane(S) ==
    /\ S \subseteq Entry /\ IsFiniteSet(S)
    /\ \A e, f \in S : e.key = f.key /\ e.seq = f.seq => e = f

Files(W) == (SUBSET W) \ {{}}

JobTypeOK ==
    /\ job \in [on : BOOLEAN, manual : BOOLEAN, level : Nat, in0 : SUBSET Files(past.written),
                in1 : SUBSET Files(past.written), deeper : SUBSET Files(past.written),
                grand : SUBSET Files(past.written), smallest : Nat]
    /\ job.on => /\ job.level + 1 \in Levels
                 /\ job.in0 # {} /\ job.in0 \subseteq levels[job.level]
                 /\ job.in1 \subseteq levels[job.level + 1]

CallTypeOK ==
    /\ call = [at |-> call.at, level |-> call.level, top |-> call.top, lo |-> call.lo,
               hi |-> call.hi, from |-> call.from, since |-> call.since]
    /\ call.at \in {"none", "memtable", "flush", "pass", "done"} /\ call.level \in Nat
    /\ call.at \in {"memtable", "flush", "pass"} => call.level < call.top /\ call.top \in Levels

TypeOK ==
    /\ sequence \in Nat /\ snaps \subseteq 0..sequence
    /\ past \in [written : SUBSET Entry, raced : BOOLEAN, separated : BOOLEAN, manual : Nat]
    /\ Sane(past.written) /\ \A e \in past.written : e.seq <= sequence
    /\ levels \in [Levels -> SUBSET Files(past.written)]
    /\ tables2 \in [mem : SUBSET past.written, imm : SUBSET past.written]
    /\ JobTypeOK /\ CallTypeOK

-----------------------------------------------------------------------------
(* The levels are sorted                                                     *)

Precedes(S, T) == \A e \in S, f \in T : Before(e, f)
Apart(S, T) == Precedes(S, T) \/ Precedes(T, S)

(* Every key between the first and the last of the files is between the first *)
(* and the last of one of them.                                              *)
Covered(F) ==
    \A k \in LowKey(Entries(F))..HighKey(Entries(F)) :
        \E f \in F : k \in LowKey(f)..HighKey(f)

Inputs == job.in0 \cup job.in1
LevelsApart == \A n \in Levels \ {0} : \A f, g \in levels[n] : f = g \/ Apart(f, g)
JobCovered == job.on /\ ~job.manual => Covered(Inputs)
JobApart == job.on => \A h \in levels[job.level + 1] \ job.in1 : Apart(h, Entries(Inputs))

SortedInv == JobCovered /\ (~past.raced => LevelsApart /\ JobApart)

-----------------------------------------------------------------------------
(* What is found is what was written last                                     *)

Tables == UNION {Entries(levels[n]) : n \in Levels}
Remaining == tables2.mem \cup tables2.imm \cup Tables

Newer(S, T) == \A e \in S, f \in T : e.seq > f.seq
SameKeyNewer(S, T) == \A e \in S, f \in T : e.key = f.key => e.seq > f.seq
NoSharedKey(S, T) == \A e \in S, f \in T : e.key # f.key

(* Memtables and level 0 are ordered by age.                                 *)
Aged ==
    /\ Newer(tables2.mem, tables2.imm \cup Tables) /\ Newer(tables2.imm, Tables)
    /\ \A f, g \in levels[0] : f = g \/ Newer(f, g) \/ Newer(g, f)

(* A version of a key is above the older ones.                                *)
Descend == \A n, m \in Levels : n < m => SameKeyNewer(Entries(levels[n]), Entries(levels[m]))

(* What the running job relies on.                                           *)
JobAlone ==
    job.on =>
        /\ SameKeyNewer(Entries(levels[job.level] \ job.in0), Entries(job.in0))
        /\ NoSharedKey(Entries(levels[job.level + 1] \ job.in1), Entries(Inputs))
        /\ \A n \in Levels : n > job.level + 1 =>
              \A f \in levels[n] \ job.deeper : NoSharedKey(f, Entries(Inputs))
JobSmallest == job.on => \A s \in snaps \cup {sequence} : job.smallest <= s

(* The newest version up to s of a key.                                      *)
NewestUpTo(t, s) ==
    t.seq <= s /\ \A e \in Hits(past.written, t.key, s) : e.seq <= t.seq

(* It is still somewhere, unless it is a deletion and so is all it hid gone.  *)
Retained ==
    \A s \in snaps \cup {sequence} : \A t \in past.written :
        NewestUpTo(t, s) =>
            \/ t \in Remaining
            \/ t.del /\ \A e \in Remaining : e.key = t.key => e.seq > t.seq

ReadInv ==
    /\ Aged /\ JobSmallest
    /\ ~past.raced /\ ~past.separated => Descend /\ JobAlone /\ Retained

Inv == TypeOK /\ SortedInv /\ ReadInv

-----------------------------------------------------------------------------
(* Entries are in a total order                                              *)

LEMMA BeforeOrder ==
    ASSUME NEW e \in Entry, NEW f \in Entry, NEW g \in Entry
    PROVE  /\ ~(Before(e, f) /\ Before(f, e)) /\ ~Before(e, e)
           /\ Before(e, f) /\ Before(f, g) => Before(e, g)
           /\ Before(e, f) => e.key <= f.key
           /\ e.key < f.key => Before(e, f)
           /\ ~Before(e, f) /\ ~Before(f, e) => e.key = f.key /\ e.seq = f.seq
BY DEF Entry, Before

LEMMA SaneTotal ==
    ASSUME NEW S, Sane(S), NEW e \in S, NEW f \in S
    PROVE  e \in Entry /\ f \in Entry /\ (e = f \/ Before(e, f) \/ Before(f, e))
BY DEF Sane, Entry, Before

LEMMA SaneSubset ==
    ASSUME NEW S, Sane(S), NEW T \in SUBSET S
    PROVE  Sane(T)
BY FS_Subset DEF Sane

(* The least number with a property.                                         *)
LEMMA LeastNumber ==
    ASSUME NEW S \in SUBSET Nat, S # {}
    PROVE  \E m \in S : \A x \in S : m <= x
<1>1. PICK m \in S : \A x \in S : ~(<<x, m>> \in OpToRel(<, Nat))
    BY NatLessThanWellFounded, WFMin
<1>2. \A x \in S : ~(x < m)
    BY <1>1 DEF OpToRel
<1> QED
    BY <1>2

LEMMA GreatestNumber ==
    ASSUME NEW S \in SUBSET Nat, S # {}, NEW b \in Nat, \A x \in S : x <= b
    PROVE  \E m \in S : \A x \in S : x <= m
<1> DEFINE R == {b - x : x \in S}
<1>0. \A x \in S : b - x \in Nat
    OBVIOUS
<1>1. R \in SUBSET Nat /\ R # {}
    BY <1>0
<1>2. PICK r \in R : \A y \in R : r <= y
    BY <1>1, LeastNumber
<1>3. PICK m \in S : r = b - m
    OBVIOUS
<1>4. \A x \in S : x <= m
    BY <1>2, <1>3
<1> QED
    BY <1>4

(* What every nonempty set of entries has.                                   *)
HasSmallest(S) == \E e \in S : \A f \in S : e = f \/ Before(e, f)
HasLargest(S) == \E e \in S : \A f \in S : e = f \/ Before(f, e)
HasNewest(S) == \E e \in S : \A f \in S : f.seq <= e.seq

LEMMA HasOneMore ==
    ASSUME NEW S, Sane(S), NEW x \in S,
           S \ {x} # {} => HasSmallest(S \ {x}) /\ HasLargest(S \ {x}) /\ HasNewest(S \ {x})
    PROVE  HasSmallest(S) /\ HasLargest(S) /\ HasNewest(S)
<1>0. x \in Entry /\ S \subseteq Entry
    BY DEF Sane
<1>1. CASE S \ {x} = {}
    <2>1. \A f \in S : f = x
        BY <1>1
    <2> QED
        BY <2>1, <1>0 DEF HasSmallest, HasLargest, HasNewest, Entry
<1>2. CASE S \ {x} # {}
    <2>1. HasSmallest(S)
        <3>1. PICK e \in S \ {x} : \A f \in S \ {x} : e = f \/ Before(e, f)
            BY <1>2 DEF HasSmallest
        <3>2. CASE Before(e, x)
            BY <3>1, <3>2 DEF HasSmallest
        <3>3. CASE Before(x, e)
            <4>1. \A f \in S : x = f \/ Before(x, f)
                BY <3>1, <3>3, <1>0, BeforeOrder
            <4> QED
                BY <4>1 DEF HasSmallest
        <3> QED
            BY <3>1, <3>2, <3>3, SaneTotal
    <2>2. HasLargest(S)
        <3>1. PICK e \in S \ {x} : \A f \in S \ {x} : e = f \/ Before(f, e)
            BY <1>2 DEF HasLargest
        <3>2. CASE Before(x, e)
            BY <3>1, <3>2 DEF HasLargest
        <3>3. CASE Before(e, x)
            <4>1. \A f \in S : x = f \/ Before(f, x)
                BY <3>1, <3>3, <1>0, BeforeOrder
            <4> QED
                BY <4>1 DEF HasLargest
        <3> QED
            BY <3>1, <3>2, <3>3, SaneTotal
    <2>3. HasNewest(S)
        <3>1. PICK e \in S \ {x} : \A f \in S \ {x} : f.seq <= e.seq
            BY <1>2 DEF HasNewest
        <3>2. CASE x.seq <= e.seq
            BY <3>1, <3>2 DEF HasNewest
        <3>3. CASE ~(x.seq <= e.seq)
            <4>1. \A f \in S : f.seq <= x.seq
                BY <3>1, <3>3, <1>0 DEF Entry
            <4> QED
                BY <4>1 DEF HasNewest
        <3> QED
            BY <3>2, <3>3
    <2> QED
        BY <2>1, <2>2, <2>3
<1> QED
    BY <1>1, <1>2

LEMMA HasEnds ==
    ASSUME NEW S, Sane(S), S # {}
    PROVE  HasSmallest(S) /\ HasLargest(S) /\ HasNewest(S)
<1> DEFINE Good(T) == HasSmallest(T) /\ HasLargest(T) /\ HasNewest(T)
           Bad == {Cardinality(T) : T \in {U \in SUBSET S : U # {} /\ ~Good(U)}}
<1> HIDE DEF Good
<1>0. IsFiniteSet(S)
    BY DEF Sane
<1>1. Bad \in SUBSET Nat
    BY <1>0, FS_Subset, FS_CardinalityType
<1>2. SUFFICES ASSUME ~Good(S) PROVE FALSE
    BY DEF Good
<1>3. Bad # {}
    BY <1>2
<1>4. PICK m \in Bad : \A x \in Bad : m <= x
    BY <1>1, <1>3, LeastNumber
<1>5. PICK T \in SUBSET S : T # {} /\ ~Good(T) /\ m = Cardinality(T)
    OBVIOUS
<1>6. PICK x \in T : TRUE
    BY <1>5
<1>7. IsFiniteSet(T) /\ Sane(T)
    BY <1>0, FS_Subset, SaneSubset
<1>8. Cardinality(T \ {x}) = Cardinality(T) - 1 /\ Cardinality(T) \in Nat
    BY <1>6, <1>7, FS_RemoveElement, FS_CardinalityType
<1>9. T \ {x} # {} => Good(T \ {x})
    <2>1. Cardinality(T \ {x}) \notin Bad
        BY <1>4, <1>5, <1>8, <1>1
    <2> QED
        BY <2>1
<1>10. Good(T)
    BY <1>6, <1>7, <1>9, HasOneMore DEF Good
<1> QED
    BY <1>5, <1>10

LEMMA Ends ==
    ASSUME NEW S, Sane(S), S # {}
    PROVE  /\ Smallest(S) \in S /\ \A f \in S : Smallest(S) = f \/ Before(Smallest(S), f)
           /\ Largest(S) \in S /\ \A f \in S : Largest(S) = f \/ Before(f, Largest(S))
           /\ Newest(S) \in S /\ \A f \in S : f.seq <= Newest(S).seq
<1>1. PICK e \in S : \A f \in S : e = f \/ Before(e, f)
    BY HasEnds DEF HasSmallest
<1>2. PICK g \in S : \A f \in S : g = f \/ Before(f, g)
    BY HasEnds DEF HasLargest
<1>3. PICK h \in S : \A f \in S : f.seq <= h.seq
    BY HasEnds DEF HasNewest
<1>4. Smallest(S) \in S /\ \A f \in S : Smallest(S) = f \/ Before(Smallest(S), f)
    BY <1>1 DEF Smallest
<1>5. Largest(S) \in S /\ \A f \in S : Largest(S) = f \/ Before(f, Largest(S))
    BY <1>2 DEF Largest
<1>6. Newest(S) \in S /\ \A f \in S : f.seq <= Newest(S).seq
    BY <1>3 DEF Newest
<1> QED
    BY <1>4, <1>5, <1>6

(* The user keys of a set of entries.                                        *)
LEMMA Span ==
    ASSUME NEW S, Sane(S), S # {}
    PROVE  /\ LowKey(S) \in Nat /\ HighKey(S) \in Nat /\ LowKey(S) <= HighKey(S)
           /\ \A e \in S : LowKey(S) <= e.key /\ e.key <= HighKey(S)
           /\ \E e \in S : e.key = LowKey(S)
           /\ \E e \in S : e.key = HighKey(S)
<1>1. /\ Smallest(S) \in S /\ \A f \in S : Smallest(S) = f \/ Before(Smallest(S), f)
      /\ Largest(S) \in S /\ \A f \in S : Largest(S) = f \/ Before(f, Largest(S))
    BY Ends
<1>2. S \subseteq Entry
    BY DEF Sane
<1>3. \A e \in S : Smallest(S).key <= e.key /\ e.key <= Largest(S).key
    BY <1>1, <1>2, BeforeOrder DEF Entry
<1> QED
    BY <1>1, <1>2, <1>3 DEF LowKey, HighKey, Entry

(* The user keys of a set of files.                                          *)
LEMMA Hull ==
    ASSUME NEW W, Sane(W), NEW F \in SUBSET Files(W), F # {}
    PROVE  /\ Entries(F) \subseteq W /\ Sane(Entries(F)) /\ Entries(F) # {}
           /\ \A f \in F : /\ Sane(f) /\ f # {} /\ f \subseteq Entries(F)
                           /\ LowKey(Entries(F)) <= LowKey(f) /\ LowKey(f) <= HighKey(f)
                           /\ HighKey(f) <= HighKey(Entries(F))
           /\ \E f \in F : LowKey(f) = LowKey(Entries(F))
           /\ \E f \in F : HighKey(f) = HighKey(Entries(F))
<1>1. Entries(F) \in SUBSET W /\ Entries(F) # {}
    BY DEF Entries, Files
<1>2. Sane(Entries(F))
    BY <1>1, SaneSubset
<1>3. ASSUME NEW f \in F PROVE Sane(f) /\ f # {} /\ f \subseteq Entries(F) /\ f \in SUBSET W
    BY SaneSubset DEF Entries, Files
<1>4. /\ LowKey(Entries(F)) \in Nat /\ HighKey(Entries(F)) \in Nat
      /\ \A e \in Entries(F) : LowKey(Entries(F)) <= e.key /\ e.key <= HighKey(Entries(F))
      /\ \E e \in Entries(F) : e.key = LowKey(Entries(F))
      /\ \E e \in Entries(F) : e.key = HighKey(Entries(F))
    BY <1>1, <1>2, Span
<1>5. ASSUME NEW f \in F
      PROVE  /\ LowKey(Entries(F)) <= LowKey(f) /\ LowKey(f) <= HighKey(f)
             /\ HighKey(f) <= HighKey(Entries(F))
    BY <1>3, <1>4, Span
<1>6. \E f \in F : LowKey(f) = LowKey(Entries(F))
    <2>1. PICK e \in Entries(F) : e.key = LowKey(Entries(F))
        BY <1>4
    <2>2. PICK f \in F : e \in f
        BY DEF Entries
    <2>3. LowKey(f) <= e.key /\ LowKey(f) \in Nat
        BY <1>3, <2>2, Span
    <2> QED
        BY <2>1, <2>3, <1>4, <1>5
<1>7. \E f \in F : HighKey(f) = HighKey(Entries(F))
    <2>1. PICK e \in Entries(F) : e.key = HighKey(Entries(F))
        BY <1>4
    <2>2. PICK f \in F : e \in f
        BY DEF Entries
    <2>3. e.key <= HighKey(f) /\ HighKey(f) \in Nat
        BY <1>3, <2>2, Span
    <2> QED
        BY <2>1, <2>3, <1>4, <1>5
<1> QED
    BY <1>1, <1>2, <1>3, <1>5, <1>6, <1>7

-----------------------------------------------------------------------------
(* Files and the ranges they span                                            *)

(* Files in one order, by their ends.                                        *)
LEMMA PrecedesEnds ==
    ASSUME NEW S, Sane(S), S # {}, NEW T, Sane(T), T # {}
    PROVE  Precedes(S, T) <=> Before(Largest(S), Smallest(T))
<1>1. /\ Largest(S) \in S /\ \A f \in S : Largest(S) = f \/ Before(f, Largest(S))
      /\ Smallest(T) \in T /\ \A f \in T : Smallest(T) = f \/ Before(Smallest(T), f)
    BY Ends
<1>2. S \subseteq Entry /\ T \subseteq Entry
    BY DEF Sane
<1>3. ASSUME Before(Largest(S), Smallest(T)), NEW e \in S, NEW f \in T
      PROVE  Before(e, f)
    <2>1. e = Largest(S) \/ Before(e, Largest(S))
        BY <1>1
    <2>2. f = Smallest(T) \/ Before(Smallest(T), f)
        BY <1>1
    <2>3. Before(e, Smallest(T))
        BY <2>1, <1>1, <1>2, <1>3, BeforeOrder
    <2> QED
        BY <2>2, <2>3, <1>1, <1>2, BeforeOrder
<1> QED
    BY <1>1, <1>3 DEF Precedes

(* Sets whose spans do not meet.                                             *)
LEMMA NotTouching ==
    ASSUME NEW S, Sane(S), S # {}, NEW T, Sane(T), T # {},
           ~Touches(S, LowKey(T), HighKey(T))
    PROVE  Apart(S, T) /\ NoSharedKey(S, T)
<1>1. /\ LowKey(S) \in Nat /\ HighKey(S) \in Nat
      /\ \A e \in S : LowKey(S) <= e.key /\ e.key <= HighKey(S)
    BY Span
<1>2. /\ LowKey(T) \in Nat /\ HighKey(T) \in Nat
      /\ \A e \in T : LowKey(T) <= e.key /\ e.key <= HighKey(T)
    BY Span
<1>3. S \subseteq Entry /\ T \subseteq Entry
    BY DEF Sane
<1>4. \/ \A e \in S, f \in T : e.key < f.key
      \/ \A e \in S, f \in T : f.key < e.key
    BY <1>1, <1>2, <1>3 DEF Touches, Entry
<1>5. \A e \in S, f \in T : e.key \in Nat /\ f.key \in Nat
    BY <1>3 DEF Entry
<1>6. NoSharedKey(S, T)
    BY <1>4, <1>5 DEF NoSharedKey
<1>7. CASE \A e \in S, f \in T : e.key < f.key
    BY <1>7, <1>3, <1>6, BeforeOrder DEF Apart, Precedes
<1>8. CASE \A e \in S, f \in T : f.key < e.key
    BY <1>8, <1>3, <1>6, BeforeOrder DEF Apart, Precedes
<1> QED
    BY <1>4, <1>7, <1>8

LEMMA TouchesItself ==
    ASSUME NEW S, Sane(S), S # {}
    PROVE  Touches(S, LowKey(S), HighKey(S))
BY Span DEF Touches

(* The files of a level are files of what was written.                       *)
LEMMA LevelFiles ==
    ASSUME TypeOK, NEW n \in Levels
    PROVE  /\ Sane(past.written) /\ levels[n] \in SUBSET Files(past.written)
           /\ \A f \in levels[n] : Sane(f) /\ f # {} /\ f \subseteq past.written
<1>1. Sane(past.written) /\ levels[n] \in SUBSET Files(past.written)
    BY DEF TypeOK
<1>2. \A f \in levels[n] : f # {} /\ f \in SUBSET past.written
    BY <1>1 DEF Files
<1> QED
    BY <1>1, <1>2, SaneSubset

-----------------------------------------------------------------------------
(* GetOverlappingInputs                                                      *)

Direct(n, lo, hi) == {f \in levels[n] : Touches(f, lo, hi)}
Closed(F) == \A f \in levels[0], g \in F : Touches(f, LowKey(g), HighKey(g)) => f \in F

LEMMA InputsAbove ==
    ASSUME NEW n \in Nat, n > 0, NEW lo, NEW hi
    PROVE  GetOverlappingInputs(n, lo, hi) = Direct(n, lo, hi)
BY DEF GetOverlappingInputs, Direct

(* In level 0, the least closed set with those that overlap.                 *)
LEMMA InputsOfZero ==
    ASSUME CompactionAssumption, TypeOK, NEW lo, NEW hi,
           NEW F, F = GetOverlappingInputs(0, lo, hi)
    PROVE  /\ F \subseteq levels[0] /\ Direct(0, lo, hi) \subseteq F /\ Closed(F)
           /\ \A G \in SUBSET levels[0] :
                 Direct(0, lo, hi) \subseteq G /\ Closed(G) => F \subseteq G
<1> DEFINE meets(G) == {f \in levels[0] : \E g \in G : Touches(f, LowKey(g), HighKey(g))}
           closed == {G \in SUBSET levels[0] : Direct(0, lo, hi) \subseteq G /\ meets(G) = G}
           least == {f \in levels[0] : \A G \in closed : f \in G}
<1>1. F = CHOOSE G \in closed : \A H \in closed : G \subseteq H
    BY DEF GetOverlappingInputs, Direct
<1>2. 0 \in Levels
    BY DEF CompactionAssumption, Levels
<1>3. \A f \in levels[0] : Touches(f, LowKey(f), HighKey(f))
    BY <1>2, LevelFiles, TouchesItself
<1>4. ASSUME NEW G \in SUBSET levels[0] PROVE meets(G) = G <=> Closed(G)
    BY <1>3 DEF Closed
<1>5. least \in closed
    <2>1. Direct(0, lo, hi) \subseteq least
        BY DEF Direct
    <2>2. Closed(least)
        <3>1. SUFFICES ASSUME NEW f \in levels[0], NEW g \in least,
                              Touches(f, LowKey(g), HighKey(g)), NEW G \in closed
                       PROVE  f \in G
            BY DEF Closed
        <3>2. g \in G /\ Closed(G)
            BY <3>1, <1>4
        <3> QED
            BY <3>1, <3>2 DEF Closed
    <2> QED
        BY <2>1, <2>2, <1>4
<1>6. F \in closed /\ \A H \in closed : F \subseteq H
    <2>1. \A H \in closed : least \subseteq H
        OBVIOUS
    <2> HIDE DEF closed, least
    <2> QED
        BY <1>1, <1>5, <2>1
<1>7. \A G \in SUBSET levels[0] : Direct(0, lo, hi) \subseteq G /\ Closed(G) => G \in closed
    BY <1>4
<1>8. F \in SUBSET levels[0] /\ Direct(0, lo, hi) \subseteq F /\ meets(F) = F
    <2> HIDE DEF meets
    <2> QED
        BY <1>6
<1>9. Closed(F)
    BY <1>8, <1>4
<1> HIDE DEF closed, meets
<1> QED
    BY <1>6, <1>7, <1>8, <1>9

(* What overlaps the span of some files, and what it adds to them.           *)
LEMMA Overlapped ==
    ASSUME CompactionAssumption, TypeOK, NEW n \in Levels,
           NEW F \in SUBSET Files(past.written), F # {},
           NEW G, G = OverlappedBy(n, F)
    PROVE  /\ G \subseteq levels[n]
           /\ Direct(n, LowKey(Entries(F)), HighKey(Entries(F))) \subseteq G
           /\ n > 0 => G = Direct(n, LowKey(Entries(F)), HighKey(Entries(F)))
           /\ n = 0 => Closed(G)
           /\ F \cap levels[n] \subseteq G
<1> DEFINE lo == LowKey(Entries(F))
           hi == HighKey(Entries(F))
<1>1. G = GetOverlappingInputs(n, lo, hi)
    BY DEF OverlappedBy
<1>2. n \in Nat
    BY DEF Levels, CompactionAssumption
<1>3. F \cap levels[n] \subseteq Direct(n, lo, hi)
    <2>1. Sane(past.written)
        BY DEF TypeOK
    <2>2. ASSUME NEW f \in F PROVE Touches(f, lo, hi)
        <3>1. /\ Sane(Entries(F)) /\ Entries(F) # {} /\ Sane(f) /\ f # {}
              /\ lo <= LowKey(f) /\ LowKey(f) <= HighKey(f) /\ HighKey(f) <= hi
            BY <2>1, Hull
        <3>2. LowKey(f) \in Nat /\ HighKey(f) \in Nat /\ lo \in Nat /\ hi \in Nat
            BY <3>1, Span
        <3> HIDE DEF lo, hi
        <3> QED
            BY <3>1, <3>2 DEF Touches
    <2> HIDE DEF lo, hi
    <2> QED
        BY <2>2 DEF Direct
<1>4. Direct(n, lo, hi) \subseteq levels[n]
    BY DEF Direct
<1> HIDE DEF lo, hi
<1>5. CASE n > 0
    <2>1. G = Direct(n, lo, hi)
        BY <1>1, <1>2, <1>5, InputsAbove
    <2> QED
        BY <2>1, <1>3, <1>4, <1>5 DEF lo, hi
<1>6. CASE n = 0
    <2>1. G \subseteq levels[0] /\ Direct(0, lo, hi) \subseteq G /\ Closed(G)
        BY <1>1, <1>6, InputsOfZero
    <2> QED
        BY <2>1, <1>3, <1>6 DEF lo, hi
<1> QED
    BY <1>2, <1>5, <1>6

(* Files that meet a covered span, one by one or through others, leave no gap. *)
LEMMA OverlappedCovered ==
    ASSUME CompactionAssumption, TypeOK, NEW n \in Levels,
           NEW F \in SUBSET Files(past.written), F # {}, Covered(F),
           NEW G, G = OverlappedBy(n, F)
    PROVE  Covered(F \cup G)
<1> DEFINE lo == LowKey(Entries(F))
           hi == HighKey(Entries(F))
           H == F \cup G
           Out(k) == \A f \in H : HighKey(f) < k \/ k < LowKey(f)
<1>1. Sane(past.written) /\ levels[n] \in SUBSET Files(past.written)
    BY LevelFiles
<1>2. /\ G \subseteq levels[n] /\ Direct(n, lo, hi) \subseteq G
      /\ n > 0 => G = Direct(n, lo, hi)
      /\ n = 0 => Closed(G)
    BY Overlapped
<1>3. H \in SUBSET Files(past.written) /\ H # {}
    BY <1>1, <1>2
<1>4. /\ Sane(Entries(F)) /\ Entries(F) # {}
      /\ \A f \in F : lo <= LowKey(f) /\ LowKey(f) <= HighKey(f) /\ HighKey(f) <= hi
    BY <1>1, Hull
<1>5. lo \in Nat /\ hi \in Nat /\ lo <= hi
    BY <1>4, Span
<1>6. \A f \in H : LowKey(f) \in Nat /\ HighKey(f) \in Nat /\ LowKey(f) <= HighKey(f)
    <2> HIDE DEF H
    <2>1. \A f \in H : Sane(f) /\ f # {}
        BY <1>1, <1>3, Hull
    <2> QED
        BY <2>1, Span
<1>7. \A k \in lo..hi : \E f \in F : k \in LowKey(f)..HighKey(f)
    BY DEF Covered
<1>8. ASSUME NEW k \in Nat, Out(k), k > hi
      PROVE  \A f \in H : HighKey(f) < k
    <2>1. \A f \in Direct(n, lo, hi) : HighKey(f) < k
        <3>1. \A f \in Direct(n, lo, hi) : LowKey(f) <= hi /\ f \in H
            BY <1>2 DEF Direct, Touches
        <3> HIDE DEF lo, hi, H
        <3> QED
            BY <3>1, <1>5, <1>6, <1>8
    <2>2. \A f \in G : HighKey(f) < k
        <3>1. CASE n > 0
            BY <2>1, <1>2, <3>1
        <3>2. CASE n = 0
            <4> DEFINE L == {f \in G : HighKey(f) < k}
            <4>1. L \in SUBSET levels[0] /\ Direct(0, lo, hi) \subseteq L
                BY <2>1, <1>2, <3>2
            <4>2. Closed(L)
                <5>1. SUFFICES ASSUME NEW f \in levels[0], NEW g \in L,
                                      Touches(f, LowKey(g), HighKey(g))
                               PROVE  f \in L
                    BY DEF Closed
                <5>2. f \in G
                    BY <1>2, <3>2, <5>1 DEF Closed
                <5>3. LowKey(f) <= HighKey(g) /\ HighKey(g) < k /\ f \in H /\ g \in H
                    BY <5>1, <5>2 DEF Touches
                <5>4. HighKey(f) < k
                    <6> HIDE DEF H
                    <6> QED
                        BY <5>3, <1>6, <1>8
                <5> QED
                    BY <5>2, <5>4
            <4>3. G = GetOverlappingInputs(0, lo, hi)
                BY <3>2 DEF OverlappedBy
            <4>4. \A K \in SUBSET levels[0] : Direct(0, lo, hi) \subseteq K /\ Closed(K) => G \subseteq K
                BY <4>3, InputsOfZero
            <4>5. G \subseteq L
                <5> HIDE DEF L
                <5> QED
                    BY <4>1, <4>2, <4>4
            <4> QED
                BY <4>5
        <3> QED
            BY <3>1, <3>2 DEF Levels, CompactionAssumption
    <2>3. \A f \in F : HighKey(f) < k
        <3>1. F \subseteq H
            OBVIOUS
        <3> HIDE DEF lo, hi, H
        <3> QED
            BY <3>1, <1>4, <1>5, <1>6, <1>8
    <2> QED
        BY <2>2, <2>3
<1>9. ASSUME NEW k \in Nat, Out(k), k < lo
      PROVE  \A f \in H : k < LowKey(f)
    <2>1. \A f \in Direct(n, lo, hi) : k < LowKey(f)
        <3>1. \A f \in Direct(n, lo, hi) : lo <= HighKey(f) /\ f \in H
            BY <1>2 DEF Direct, Touches
        <3> HIDE DEF lo, hi, H
        <3> QED
            BY <3>1, <1>5, <1>6, <1>9
    <2>2. \A f \in G : k < LowKey(f)
        <3>1. CASE n > 0
            BY <2>1, <1>2, <3>1
        <3>2. CASE n = 0
            <4> DEFINE L == {f \in G : k < LowKey(f)}
            <4>1. L \in SUBSET levels[0] /\ Direct(0, lo, hi) \subseteq L
                BY <2>1, <1>2, <3>2
            <4>2. Closed(L)
                <5>1. SUFFICES ASSUME NEW f \in levels[0], NEW g \in L,
                                      Touches(f, LowKey(g), HighKey(g))
                               PROVE  f \in L
                    BY DEF Closed
                <5>2. f \in G
                    BY <1>2, <3>2, <5>1 DEF Closed
                <5>3. LowKey(g) <= HighKey(f) /\ k < LowKey(g) /\ f \in H /\ g \in H
                    BY <5>1, <5>2 DEF Touches
                <5>4. k < LowKey(f)
                    <6> HIDE DEF H
                    <6> QED
                        BY <5>3, <1>6, <1>9
                <5> QED
                    BY <5>2, <5>4
            <4>3. G = GetOverlappingInputs(0, lo, hi)
                BY <3>2 DEF OverlappedBy
            <4>4. \A K \in SUBSET levels[0] : Direct(0, lo, hi) \subseteq K /\ Closed(K) => G \subseteq K
                BY <4>3, InputsOfZero
            <4>5. G \subseteq L
                <5> HIDE DEF L
                <5> QED
                    BY <4>1, <4>2, <4>4
            <4> QED
                BY <4>5
        <3> QED
            BY <3>1, <3>2 DEF Levels, CompactionAssumption
    <2>3. \A f \in F : k < LowKey(f)
        <3>1. F \subseteq H
            OBVIOUS
        <3> HIDE DEF lo, hi, H
        <3> QED
            BY <3>1, <1>4, <1>5, <1>6, <1>9
    <2> QED
        BY <2>2, <2>3
<1>10. ASSUME NEW k \in LowKey(Entries(H))..HighKey(Entries(H)), Out(k)
       PROVE  FALSE
    <2>1. /\ \E f \in H : LowKey(f) = LowKey(Entries(H))
          /\ \E f \in H : HighKey(f) = HighKey(Entries(H))
          /\ LowKey(Entries(H)) \in Nat /\ HighKey(Entries(H)) \in Nat
        <3> HIDE DEF H
        <3> QED
            BY <1>1, <1>3, Hull, Span
    <2>2. k \in Nat /\ LowKey(Entries(H)) <= k /\ k <= HighKey(Entries(H))
        BY <2>1
    <2>3. k \notin lo..hi
        BY <1>7, <1>10, <1>6
    <2>4. k > hi \/ k < lo
        <3> HIDE DEF lo, hi
        <3> QED
            BY <2>2, <2>3, <1>5
    <2>5. CASE k > hi
        <3>1. \A f \in H : HighKey(f) < k
            BY <1>8, <1>10, <2>2, <2>5
        <3> HIDE DEF H
        <3> QED
            BY <3>1, <2>1, <2>2
    <2>6. CASE k < lo
        <3>1. \A f \in H : k < LowKey(f)
            BY <1>9, <1>10, <2>2, <2>6
        <3> HIDE DEF H
        <3> QED
            BY <3>1, <2>1, <2>2
    <2> QED
        BY <2>4, <2>5, <2>6
<1>11. \A k \in LowKey(Entries(H))..HighKey(Entries(H)) : \E f \in H : k \in LowKey(f)..HighKey(f)
    <2>1. SUFFICES ASSUME NEW k \in LowKey(Entries(H))..HighKey(Entries(H)),
                          ~\E f \in H : k \in LowKey(f)..HighKey(f)
                   PROVE  FALSE
        OBVIOUS
    <2>2. k \in Int
        OBVIOUS
    <2>3. Out(k)
        <3> HIDE DEF H
        <3> QED
            BY <2>1, <2>2, <1>6
    <2> QED
        BY <2>3, <1>10
<1> QED
    BY <1>11 DEF Covered

-----------------------------------------------------------------------------
(* The inputs of a compaction                                                *)

LEMMA FilesFinite ==
    ASSUME TypeOK, NEW n \in Levels
    PROVE  IsFiniteSet(levels[n])
<1>1. IsFiniteSet(SUBSET past.written) /\ levels[n] \subseteq SUBSET past.written
    BY FS_SUBSET DEF TypeOK, Sane, Files
<1> QED
    BY <1>1, FS_Subset

(* What SetupOtherInputs makes of the first level's files.                   *)
InputsOf(n, c) ==
    /\ c.in0 \subseteq levels[n] /\ c.in0 # {}
    /\ c.in1 = Direct(n + 1, LowKey(Entries(c.in0)), HighKey(Entries(c.in0)))
    /\ c.grand \subseteq Files(past.written)

(* All the level's files, of those that touch a range of keys.                *)
IsDirect(n, F) == \E lo, hi \in Nat : F = Direct(n, lo, hi)

LEMMA Setup ==
    ASSUME CompactionAssumption, TypeOK, NEW n \in Levels, n + 1 \in Levels,
           NEW in0 \in SUBSET levels[n], in0 # {},
           NEW c, c = SetupOtherInputs(n, in0)
    PROVE  /\ InputsOf(n, c)
           /\ n = 0 /\ Closed(in0) => Closed(c.in0)
           /\ Covered(in0) => Covered(c.in0 \cup c.in1)
           /\ in0 \subseteq c.in0
           /\ n > 0 => c.in0 = in0 \/ IsDirect(n, c.in0)
<1> DEFINE in1 == OverlappedBy(n + 1, in0)
           more0 == OverlappedBy(n, in0 \cup in1)
           more1 == OverlappedBy(n + 1, more0)
           g == Grown(in0, in1, more0, more1)
           over(F) == Direct(n + 1, LowKey(Entries(F)), HighKey(Entries(F)))
<1>1. n \in Nat /\ n + 1 > 0
    BY DEF Levels, CompactionAssumption
<1>2. /\ Sane(past.written)
      /\ levels[n] \in SUBSET Files(past.written)
      /\ levels[n + 1] \in SUBSET Files(past.written)
    BY LevelFiles
<1>3. in0 \in SUBSET Files(past.written)
    BY <1>2
<1>4. in1 \subseteq levels[n + 1] /\ in1 = over(in0)
    BY <1>1, <1>3, Overlapped
<1>5. in0 \cup in1 \in SUBSET Files(past.written) /\ in0 \cup in1 # {}
    BY <1>2, <1>3, <1>4
<1>6. /\ more0 \subseteq levels[n]
      /\ n = 0 => Closed(more0)
      /\ (in0 \cup in1) \cap levels[n] \subseteq more0
    <2> HIDE DEF in1
    <2> QED
        BY <1>5, Overlapped
<1>7. in0 \subseteq more0 /\ more0 # {} /\ more0 \in SUBSET Files(past.written)
    <2> HIDE DEF in1, more0
    <2> QED
        BY <1>2, <1>6
<1>8. more1 \subseteq levels[n + 1] /\ more1 = over(more0)
    <2> HIDE DEF more0
    <2> QED
        BY <1>1, <1>7, Overlapped
<1>9. in1 \subseteq more1
    <2> DEFINE lo == LowKey(Entries(in0))
               hi == HighKey(Entries(in0))
               lo2 == LowKey(Entries(more0))
               hi2 == HighKey(Entries(more0))
    <2>1. lo2 <= lo /\ hi <= hi2 /\ lo \in Nat /\ hi \in Nat /\ lo2 \in Nat /\ hi2 \in Nat
        <3> HIDE DEF in1, more0
        <3>1. PICK f \in in0 : LowKey(f) = lo
            BY <1>2, <1>3, Hull
        <3>2. PICK h \in in0 : HighKey(h) = hi
            BY <1>2, <1>3, Hull
        <3>3. lo2 <= LowKey(f) /\ HighKey(h) <= hi2
            BY <1>2, <1>7, Hull
        <3>4. lo \in Nat /\ hi \in Nat /\ lo2 \in Nat /\ hi2 \in Nat
            BY <1>2, <1>3, <1>7, Hull, Span
        <3> QED
            BY <3>1, <3>2, <3>3, <3>4
    <2>2. \A f \in levels[n + 1] : LowKey(f) \in Nat /\ HighKey(f) \in Nat
        BY LevelFiles, Span
    <2> HIDE DEF lo, hi, lo2, hi2
    <2>3. ASSUME NEW f \in levels[n + 1], Touches(f, lo, hi) PROVE Touches(f, lo2, hi2)
        BY <2>1, <2>2, <2>3 DEF Touches
    <2>4. in1 = Direct(n + 1, lo, hi) /\ more1 = Direct(n + 1, lo2, hi2)
        BY <1>4, <1>8 DEF lo, hi, lo2, hi2
    <2> HIDE DEF in1, more1
    <2> QED
        BY <2>3, <2>4 DEF Direct
<1>10. Cardinality(more1) = Cardinality(in1) => in1 = more1
    <2>1. IsFiniteSet(more1)
        BY <1>8, FilesFinite, FS_Subset
    <2> HIDE DEF in1, more1
    <2> QED
        BY <2>1, <1>9, FS_Subset
<1>11. \/ g = [in0 |-> in0, in1 |-> in1]
       \/ g = [in0 |-> more0, in1 |-> in1] /\ in1 = more1
    <2> HIDE DEF in1, more0, more1
    <2> QED
        BY <1>10 DEF Grown
<1>12. c = [in0 |-> g.in0, in1 |-> g.in1,
            grand |-> IF n + 2 < NumLevels THEN OverlappedBy(n + 2, g.in0 \cup g.in1) ELSE {}]
    BY DEF SetupOtherInputs, AddOverlapped, TryToGrow, WithGrandparents
<1> HIDE DEF g
<1>13. c.in0 = g.in0 /\ c.in1 = g.in1
    BY <1>12
<1>14. c.in0 \in {in0, more0} /\ c.in1 = in1 /\ in1 = over(c.in0)
    <2> HIDE DEF in1, more0, more1, over
    <2> QED
        BY <1>4, <1>8, <1>11, <1>13
<1>15. Covered(in0) => Covered(in0 \cup in1) /\ Covered(more0 \cup in1)
    <2>1. SUFFICES ASSUME Covered(in0)
                   PROVE  Covered(in0 \cup in1) /\ Covered(more0 \cup in1)
        OBVIOUS
    <2>2. Covered(in0 \cup in1)
        BY <2>1, <1>3, OverlappedCovered
    <2>3. Covered((in0 \cup in1) \cup more0)
        <3> HIDE DEF in1
        <3> QED
            BY <2>2, <1>5, OverlappedCovered
    <2>4. (in0 \cup in1) \cup more0 = more0 \cup in1
        <3> HIDE DEF in1, more0
        <3> QED
            BY <1>7
    <2> QED
        BY <2>2, <2>3, <2>4
<1>16. c.in0 \subseteq levels[n] /\ c.in0 # {}
    <2> HIDE DEF in1, more0, more1, over
    <2> QED
        BY <1>6, <1>7, <1>14
<1>17. c.grand \subseteq Files(past.written)
    <2>1. CASE n + 2 < NumLevels
        <3>1. n + 2 \in Levels
            BY <2>1, <1>1 DEF Levels, CompactionAssumption
        <3>2. c.in0 \cup c.in1 \in SUBSET Files(past.written) /\ c.in0 \cup c.in1 # {}
            <4> HIDE DEF in1, more0, more1, over
            <4> QED
                BY <1>2, <1>4, <1>14, <1>16
        <3>3. c.grand = OverlappedBy(n + 2, c.in0 \cup c.in1)
            BY <1>12, <1>13, <2>1
        <3>4. c.grand \subseteq levels[n + 2]
            BY <3>1, <3>2, <3>3, Overlapped
        <3> QED
            BY <3>1, <3>4, LevelFiles
    <2>2. CASE ~(n + 2 < NumLevels)
        BY <1>12, <2>2
    <2> QED
        BY <2>1, <2>2
<1>18. InputsOf(n, c)
    BY <1>14, <1>16, <1>17 DEF InputsOf
<1>19. n = 0 /\ Closed(in0) => Closed(c.in0)
    <2> HIDE DEF in1, more0, more1, over
    <2> QED
        BY <1>6, <1>14
<1>20. Covered(in0) => Covered(c.in0 \cup c.in1)
    <2> HIDE DEF in1, more0, more1, over
    <2> QED
        BY <1>14, <1>15
<1>21. n > 0 => c.in0 = in0 \/ IsDirect(n, c.in0)
    <2> DEFINE F == in0 \cup in1
    <2>1. LowKey(Entries(F)) \in Nat /\ HighKey(Entries(F)) \in Nat
        BY <1>2, <1>5, Hull, Span
    <2>2. n > 0 => more0 = Direct(n, LowKey(Entries(F)), HighKey(Entries(F)))
        <3> HIDE DEF in1
        <3> QED
            BY <1>5, Overlapped
    <2>3. c.in0 \in {in0, more0}
        BY <1>14
    <2> HIDE DEF F, more0, in1
    <2> QED
        BY <2>1, <2>2, <2>3 DEF IsDirect
<1>22. in0 \subseteq c.in0
    <2> HIDE DEF in1, more0, more1, over
    <2> QED
        BY <1>7, <1>14
<1> QED
    BY <1>18, <1>19, <1>20, <1>21, <1>22

(* What a compaction leaves in the lower level lies to one side of it all.    *)
LEMMA InputsApart ==
    ASSUME TypeOK, NEW n \in Levels, n + 1 \in Levels, NEW c, InputsOf(n, c),
           \A f, g \in levels[n + 1] : f = g \/ Apart(f, g),
           NEW h \in levels[n + 1] \ c.in1
    PROVE  Apart(h, Entries(c.in0 \cup c.in1))
<1> DEFINE lo == LowKey(Entries(c.in0))
           hi == HighKey(Entries(c.in0))
<1>1. Sane(past.written) /\ c.in0 \in SUBSET Files(past.written) /\ c.in0 # {}
    BY LevelFiles DEF InputsOf
<1>2. /\ lo \in Nat /\ hi \in Nat /\ Entries(c.in0) \subseteq past.written
      /\ \A e \in Entries(c.in0) : lo <= e.key /\ e.key <= hi
    BY <1>1, Hull, Span
<1>3. ASSUME NEW g \in levels[n + 1]
      PROVE  /\ Sane(g) /\ g # {} /\ g \subseteq Entry
             /\ LowKey(g) \in Nat /\ HighKey(g) \in Nat
             /\ \A e \in g : LowKey(g) <= e.key /\ e.key <= HighKey(g)
             /\ \E e \in g : e.key = LowKey(g)
             /\ \E e \in g : e.key = HighKey(g)
    <2>1. Sane(g) /\ g # {}
        BY LevelFiles
    <2>2. g \subseteq Entry
        BY <2>1 DEF Sane
    <2> QED
        BY <2>1, <2>2, Span
<1>4. c.in1 = {f \in levels[n + 1] : Touches(f, lo, hi)}
    BY DEF InputsOf, Direct
<1>5. Entries(c.in0) \subseteq Entry
    BY <1>1, <1>2 DEF Sane
<1> HIDE DEF lo, hi
<1>6. h \in levels[n + 1] /\ (hi < LowKey(h) \/ HighKey(h) < lo)
    BY <1>2, <1>3, <1>4 DEF Touches
<1>7. \A g \in c.in1 : g \in levels[n + 1] /\ Apart(h, g) /\ LowKey(g) <= hi /\ lo <= HighKey(g)
    BY <1>4 DEF Touches
<1>8. CASE HighKey(h) < lo
    <2>1. ASSUME NEW e \in h, NEW x \in Entries(c.in0 \cup c.in1) PROVE Before(e, x)
        <3>1. e \in Entry /\ e.key < lo /\ e.key \in Nat
            BY <1>2, <1>3, <1>6, <1>8 DEF Entry
        <3>2. CASE x \in Entries(c.in0)
            BY <3>1, <3>2, <1>2, <1>5, BeforeOrder DEF Entry
        <3>3. CASE x \notin Entries(c.in0)
            <4>1. PICK g \in c.in1 : x \in g
                BY <3>3 DEF Entries
            <4>2. PICK y \in g : y.key = HighKey(g) /\ y \in Entry
                BY <1>3, <1>7
            <4>3. ~Before(y, e)
                BY <3>1, <4>2, <1>2, <1>3, <1>7, BeforeOrder DEF Entry
            <4>4. ~Precedes(g, h)
                BY <4>3, <4>2 DEF Precedes
            <4> QED
                BY <4>1, <4>4, <1>7 DEF Apart, Precedes
        <3> QED
            BY <3>2, <3>3
    <2> QED
        BY <2>1 DEF Apart, Precedes
<1>9. CASE hi < LowKey(h)
    <2>1. ASSUME NEW e \in h, NEW x \in Entries(c.in0 \cup c.in1) PROVE Before(x, e)
        <3>1. e \in Entry /\ hi < e.key /\ e.key \in Nat
            BY <1>2, <1>3, <1>6, <1>9 DEF Entry
        <3>2. CASE x \in Entries(c.in0)
            BY <3>1, <3>2, <1>2, <1>5, BeforeOrder DEF Entry
        <3>3. CASE x \notin Entries(c.in0)
            <4>1. PICK g \in c.in1 : x \in g
                BY <3>3 DEF Entries
            <4>2. PICK y \in g : y.key = LowKey(g) /\ y \in Entry
                BY <1>3, <1>7
            <4>3. ~Before(e, y)
                BY <3>1, <4>2, <1>2, <1>3, <1>7, BeforeOrder DEF Entry
            <4>4. ~Precedes(h, g)
                BY <4>3, <4>2 DEF Precedes
            <4> QED
                BY <4>1, <4>4, <1>7 DEF Apart, Precedes
        <3> QED
            BY <3>2, <3>3
    <2> QED
        BY <2>1 DEF Apart, Precedes
<1> QED
    BY <1>6, <1>8, <1>9

(* What it leaves in either level shares no key with it, unless it separates.  *)
LEMMA InputsAlone ==
    ASSUME TypeOK, NEW n \in Levels, n + 1 \in Levels, NEW c, InputsOf(n, c),
           n = 0 => Closed(c.in0), ~Separates(n, c)
    PROVE  /\ NoSharedKey(Entries(levels[n] \ c.in0), Entries(c.in0))
           /\ NoSharedKey(Entries(levels[n + 1] \ c.in1), Entries(c.in0 \cup c.in1))
<1>1. n \in Int
    BY DEF Levels
<1>2. ASSUME NEW m \in {n, n + 1}, m > 0, NEW in, ~LeftBehind(m, in)
      PROVE  NoSharedKey(Entries(levels[m] \ in), Entries(in))
    BY <1>2 DEF LeftBehind, NoSharedKey, Entries
<1>3. n >= 0 /\ n + 1 > 0
    BY DEF Levels
<1>4. ASSUME NEW m \in {n, n + 1}, NEW f \in levels[m], NEW g \in c.in0,
             ~Touches(f, LowKey(g), HighKey(g))
      PROVE  NoSharedKey(f, g)
    <2>1. Sane(f) /\ f # {} /\ Sane(g) /\ g # {}
        BY LevelFiles DEF InputsOf
    <2> QED
        BY <2>1, <1>4, NotTouching
<1>5. NoSharedKey(Entries(levels[n] \ c.in0), Entries(c.in0))
    <2>1. CASE n > 0
        BY <2>1, <1>2 DEF Separates
    <2>2. CASE n = 0
        <3>1. ASSUME NEW f \in levels[n] \ c.in0, NEW g \in c.in0
              PROVE  NoSharedKey(f, g)
            BY <1>4, <2>2 DEF Closed
        <3> QED
            BY <3>1 DEF NoSharedKey, Entries
    <2> QED
        BY <2>1, <2>2, <1>1, <1>3
<1>6. NoSharedKey(Entries(levels[n + 1] \ c.in1), Entries(c.in1))
    BY <1>2, <1>3 DEF Separates
<1>7. NoSharedKey(Entries(levels[n + 1] \ c.in1), Entries(c.in0))
    <2>1. Sane(past.written) /\ c.in0 \in SUBSET Files(past.written) /\ c.in0 # {}
        BY LevelFiles DEF InputsOf
    <2>2. Sane(Entries(c.in0)) /\ Entries(c.in0) # {}
        BY <2>1, Hull
    <2>3. ASSUME NEW f \in levels[n + 1] \ c.in1
          PROVE  NoSharedKey(f, Entries(c.in0))
        <3>1. Sane(f) /\ f # {}
            BY LevelFiles
        <3>2. ~Touches(f, LowKey(Entries(c.in0)), HighKey(Entries(c.in0)))
            BY DEF InputsOf, Direct
        <3> QED
            BY <3>1, <3>2, <2>2, NotTouching
    <2> QED
        BY <2>3 DEF NoSharedKey, Entries
<1>8. NoSharedKey(Entries(levels[n + 1] \ c.in1), Entries(c.in0 \cup c.in1))
    BY <1>6, <1>7 DEF NoSharedKey, Entries
<1> QED
    BY <1>5, <1>8

-----------------------------------------------------------------------------
(* The outputs of a compaction                                               *)

Kept(e, all) == ~Hidden(e, all) /\ ~Obsolete(e)

(* Between two turns of the loop: the files so far, the output that is open    *)
(* and the entries still to come.                                            *)
Merged(files, out, rest, all) ==
    /\ rest \subseteq all /\ Precedes(all \ rest, rest)
    /\ out \subseteq all \ rest /\ \A f \in files : f # {} /\ f \subseteq all \ rest
    /\ \A e \in all \ rest : Kept(e, all) <=> e \in out \cup Entries(files)
    /\ \A f, g \in files : f = g \/ Apart(f, g)
    /\ \A f \in files : Precedes(f, out)

LEMMA MergedClosed ==
    ASSUME NEW files, NEW out, NEW rest, NEW all, Merged(files, out, rest, all)
    PROVE  Merged(files \cup ({out} \ {{}}), {}, rest, all)
<1> DEFINE more == files \cup ({out} \ {{}})
<1>1. /\ rest \subseteq all /\ Precedes(all \ rest, rest)
      /\ {} \subseteq all \ rest /\ \A f \in more : f # {} /\ f \subseteq all \ rest
    BY DEF Merged
<1>2. Entries(more) = out \cup Entries(files)
    BY DEF Entries
<1>3. \A e \in all \ rest : Kept(e, all) <=> e \in {} \cup Entries(more)
    BY <1>2 DEF Merged
<1>4. \A f, g \in more : f = g \/ Apart(f, g)
    BY DEF Merged, Apart
<1>5. \A f \in more : Precedes(f, {})
    BY DEF Precedes
<1> QED
    BY <1>1, <1>3, <1>4, <1>5 DEF Merged

LEMMA MergedNext ==
    ASSUME NEW files, NEW out, NEW rest, NEW all, Merged(files, out, rest, all),
           Sane(all), rest # {},
           NEW e, e = Smallest(rest),
           NEW out2, out2 = IF Kept(e, all) THEN out \cup {e} ELSE out
    PROVE  Merged(files, out2, rest \ {e}, all)
<1>1. /\ rest \subseteq all /\ Precedes(all \ rest, rest)
      /\ out \subseteq all \ rest /\ \A f \in files : f # {} /\ f \subseteq all \ rest
      /\ \A x \in all \ rest : Kept(x, all) <=> x \in out \cup Entries(files)
      /\ \A f, g \in files : f = g \/ Apart(f, g)
      /\ \A f \in files : Precedes(f, out)
    BY DEF Merged
<1>2. e \in rest /\ \A x \in rest : e = x \/ Before(e, x)
    BY <1>1, SaneSubset, Ends
<1>3. Precedes(all \ (rest \ {e}), rest \ {e})
    BY <1>1, <1>2 DEF Precedes
<1>4. out2 \subseteq all \ (rest \ {e}) /\ \A f \in files : f # {} /\ f \subseteq all \ (rest \ {e})
    BY <1>1, <1>2
<1>5. e \notin out \cup Entries(files)
    BY <1>1, <1>2 DEF Entries
<1>6. \A x \in all \ (rest \ {e}) : Kept(x, all) <=> x \in out2 \cup Entries(files)
    BY <1>1, <1>5
<1>7. \A f \in files : Precedes(f, out2)
    BY <1>1, <1>2 DEF Precedes
<1> QED
    BY <1>1, <1>3, <1>4, <1>6, <1>7 DEF Merged

(* The loop's state is a record of these fields.                             *)
Shaped(acc) ==
    acc = [files |-> acc.files, out |-> acc.out, rest |-> acc.rest,
           gone |-> acc.gone, seen |-> acc.seen, over |-> acc.over]

LEMMA TurnKeepsMerged ==
    ASSUME CompactionAssumption, NEW all, Sane(all),
           NEW acc, Shaped(acc), Merged(acc.files, acc.out, acc.rest, all), acc.rest # {},
           NEW next, next = Turned(acc, all)
    PROVE  /\ Shaped(next) /\ Merged(next.files, next.out, next.rest, all)
           /\ \E e \in acc.rest : next.rest = acc.rest \ {e}
<1> DEFINE e == Smallest(acc.rest)
           begun == ShouldStopBefore(acc, e)
           over == acc.over + (IF acc.seen THEN Size(Passed(e) \ acc.gone) ELSE 0)
           stop == over > OverlapLimit
           out == IF Hidden(e, all) \/ Obsolete(e) THEN begun.out ELSE begun.out \cup {e}
           full == Cardinality(out) >= FileLimit
<1>1. next = [begun EXCEPT !.files = IF full THEN @ \cup {out} ELSE @,
                           !.out = IF full THEN {} ELSE out,
                           !.rest = @ \ {e}]
    BY DEF Turned
<1>2. begun = [acc EXCEPT !.files = IF stop /\ acc.out # {} THEN @ \cup {acc.out} ELSE @,
                           !.out = IF stop THEN {} ELSE @,
                           !.gone = Passed(e), !.seen = TRUE,
                           !.over = IF stop THEN 0 ELSE over]
    BY DEF ShouldStopBefore
<1>3. Shaped(begun) /\ begun.rest = acc.rest
      /\ begun.files = (IF stop /\ acc.out # {} THEN acc.files \cup {acc.out} ELSE acc.files)
      /\ begun.out = (IF stop THEN {} ELSE acc.out)
    <2> HIDE DEF begun, over, stop
    <2> QED
        BY <1>2 DEF Shaped
<1> HIDE DEF stop
<1>4. Merged(begun.files, begun.out, acc.rest, all)
    <2>1. CASE stop
        <3>1. begun.files = acc.files \cup ({acc.out} \ {{}}) /\ begun.out = {}
            <4> HIDE DEF begun
            <4> QED
                BY <1>3, <2>1
        <3>2. Merged(acc.files \cup ({acc.out} \ {{}}), {}, acc.rest, all)
            BY MergedClosed
        <3> HIDE DEF begun
        <3> QED
            BY <3>1, <3>2
    <2>2. CASE ~stop
        <3> HIDE DEF begun
        <3> QED
            BY <1>3, <2>2
    <2> QED
        BY <2>1, <2>2
<1> HIDE DEF begun
<1>5. out = IF Kept(e, all) THEN begun.out \cup {e} ELSE begun.out
    BY DEF Kept
<1> HIDE DEF out
<1>6. Merged(begun.files, out, acc.rest \ {e}, all)
    BY <1>4, <1>5, MergedNext
<1>7. Shaped(next) /\ next.rest = acc.rest \ {e}
      /\ next.files = (IF full THEN begun.files \cup {out} ELSE begun.files)
      /\ next.out = (IF full THEN {} ELSE out)
    <2> HIDE DEF full, e
    <2> QED
        BY <1>1, <1>3 DEF Shaped
<1>8. e \in acc.rest
    <2>1. acc.rest \in SUBSET all
        BY DEF Merged
    <2> QED
        BY <2>1, SaneSubset, Ends
<1>9. Merged(next.files, next.out, next.rest, all)
    <2>1. CASE full
        <3>1. out # {}
            <4>1. Cardinality({}) = 0
                BY FS_EmptySet
            <4>2. FileLimit \in Nat /\ FileLimit > 0
                BY DEF CompactionAssumption
            <4>3. SUFFICES ASSUME out = {} PROVE FALSE
                OBVIOUS
            <4>4. Cardinality(out) = 0
                BY <4>1, <4>3
            <4> QED
                BY <2>1, <4>2, <4>4
        <3>2. next.files = begun.files \cup ({out} \ {{}}) /\ next.out = {}
            BY <1>7, <2>1, <3>1
        <3>3. Merged(begun.files \cup ({out} \ {{}}), {}, acc.rest \ {e}, all)
            BY <1>6, MergedClosed
        <3> QED
            BY <3>2, <3>3, <1>7
    <2>2. CASE ~full
        BY <1>6, <1>7, <2>2
    <2> QED
        BY <2>1, <2>2
<1> QED
    BY <1>7, <1>8, <1>9

Begun(all) == [files |-> {}, out |-> {}, rest |-> all, gone |-> {}, seen |-> FALSE, over |-> 0]
IsTurns(t, N, all) ==
    t = [i \in 0..N |-> IF i = 0 THEN Begun(all) ELSE Turned(t[i - 1], all)]

LEMMA TurnsExist ==
    ASSUME NEW all, NEW N \in Nat
    PROVE  \E t : IsTurns(t, N, all)
<1> DEFINE Missing == {m \in Nat : ~\E t : IsTurns(t, m, all)}
<1>1. SUFFICES ASSUME Missing # {} PROVE FALSE
    OBVIOUS
<1>2. PICK m \in Missing : \A x \in Missing : m <= x
    BY <1>1, LeastNumber
<1>3. CASE m = 0
    <2> DEFINE t == [i \in 0..0 |-> Begun(all)]
    <2>1. IsTurns(t, 0, all)
        BY DEF IsTurns
    <2> QED
        BY <2>1, <1>3
<1>4. CASE m > 0
    <2>1. m - 1 \in Nat /\ m \in Nat
        BY <1>4
    <2>2. m - 1 \notin Missing
        BY <1>2, <2>1
    <2>3. PICK t : IsTurns(t, m - 1, all)
        BY <2>1, <2>2
    <2> DEFINE u == [i \in 0..m |-> IF i < m THEN t[i] ELSE Turned(t[m - 1], all)]
    <2>4. ASSUME NEW i \in 0..m
          PROVE  u[i] = IF i = 0 THEN Begun(all) ELSE Turned(u[i - 1], all)
        <3>1. CASE i = 0
            BY <3>1, <2>1, <2>3, <1>4 DEF IsTurns
        <3>2. CASE i > 0 /\ i < m
            <4>1. i \in 0..(m - 1) /\ i - 1 \in 0..m /\ i - 1 < m /\ i < m
                BY <3>2, <2>1
            <4>2. u[i] = t[i] /\ u[i - 1] = t[i - 1]
                BY <4>1
            <4>3. t[i] = Turned(t[i - 1], all)
                BY <2>3, <4>1, <3>2 DEF IsTurns
            <4> QED
                BY <4>2, <4>3, <3>2
        <3>3. CASE i = m
            <4>1. u[m] = Turned(t[m - 1], all) /\ u[m - 1] = t[m - 1]
                BY <2>1
            <4> QED
                BY <4>1, <3>3, <1>4
        <3> QED
            BY <3>1, <3>2, <3>3
    <2>5. u = [i \in 0..m |-> IF i = 0 THEN Begun(all) ELSE Turned(u[i - 1], all)]
        <3>1. u = [i \in 0..m |-> u[i]]
            OBVIOUS
        <3> HIDE DEF u
        <3> QED
            BY <3>1, <2>4
    <2>6. IsTurns(u, m, all)
        <3> HIDE DEF u
        <3> QED
            BY <2>5 DEF IsTurns
    <2> QED
        BY <2>6
<1> QED
    BY <1>3, <1>4

LEMMA TurnsAre ==
    ASSUME NEW all, NEW N, NEW t, IsTurns(t, N, all), NEW i \in 0..N
    PROVE  t[i] = IF i = 0 THEN Begun(all) ELSE Turned(t[i - 1], all)
BY DEF IsTurns

LEMMA OutputsByTurns ==
    ASSUME TypeOK, job.on
    PROVE  \E t : /\ IsTurns(t, Cardinality(Entries(Inputs)), Entries(Inputs))
                  /\ LET end == t[Cardinality(Entries(Inputs))]
                     IN Outputs = end.files \cup ({end.out} \ {{}})
<1> DEFINE all == Entries(Inputs)
           N == Cardinality(all)
           turn == CHOOSE t : IsTurns(t, N, all)
<1>1. Sane(all)
    <2>1. Inputs \in SUBSET Files(past.written) /\ Inputs # {} /\ Sane(past.written)
        BY DEF Inputs, TypeOK, JobTypeOK
    <2> QED
        BY <2>1, Hull
<1>2. N \in Nat
    BY <1>1, FS_CardinalityType DEF Sane
<1>3. IsTurns(turn, N, all)
    BY <1>2, TurnsExist
<1>4. Outputs = turn[N].files \cup ({turn[N].out} \ {{}})
    BY DEF Outputs, Inputs, IsTurns, Begun
<1> QED
    BY <1>3, <1>4

(* The outputs hold what is kept, in files that follow one another.           *)
LEMMA OutputsAre ==
    ASSUME CompactionAssumption, TypeOK, job.on,
           NEW all, all = Entries(Inputs)
    PROVE  /\ \A f \in Outputs : f # {} /\ f \subseteq all
           /\ \A e \in all : Kept(e, all) <=> e \in Entries(Outputs)
           /\ \A f, g \in Outputs : f = g \/ Apart(f, g)
<1> DEFINE N == Cardinality(all)
<1>1. Sane(all)
    <2>1. Inputs \in SUBSET Files(past.written) /\ Inputs # {} /\ Sane(past.written)
        BY DEF Inputs, TypeOK, JobTypeOK
    <2> QED
        BY <2>1, Hull
<1>2. N \in Nat /\ IsFiniteSet(all)
    BY <1>1, FS_CardinalityType DEF Sane
<1>3. PICK t : /\ IsTurns(t, N, all)
               /\ LET end == t[N] IN Outputs = end.files \cup ({end.out} \ {{}})
    BY OutputsByTurns
<1> DEFINE Good(i) == /\ Shaped(t[i]) /\ Merged(t[i].files, t[i].out, t[i].rest, all)
                      /\ Cardinality(t[i].rest) = N - i
           Bad == {i \in 0..N : ~Good(i)}
<1> HIDE DEF N
<1>4. Bad = {}
    <2>1. SUFFICES ASSUME Bad # {} PROVE FALSE
        OBVIOUS
    <2>2. PICK i \in Bad : \A j \in Bad : i <= j
        <3>1. Bad \in SUBSET Nat
            BY <1>2
        <3> HIDE DEF Bad
        <3> QED
            BY <2>1, <3>1, LeastNumber
    <2>3. i \in 0..N /\ i \in Nat
        BY <1>2
    <2>4. CASE i = 0
        <3>1. t[0] = Begun(all)
            BY <1>2, <1>3 DEF IsTurns
        <3>2. Merged({}, {}, all, all)
            BY DEF Merged, Precedes
        <3>3. Shaped(t[0])
            BY <3>1 DEF Begun, Shaped
        <3>4. Merged(t[0].files, t[0].out, t[0].rest, all) /\ t[0].rest = all
            BY <3>1, <3>2 DEF Begun
        <3>5. Good(0)
            BY <3>3, <3>4, <1>2 DEF N
        <3> QED
            BY <2>4, <3>5
    <2>5. CASE i > 0
        <3>1. i - 1 \in 0..N /\ i - 1 \notin Bad
            BY <2>2, <2>3, <2>5, <1>2
        <3>2. Good(i - 1)
            BY <3>1
        <3>3. t[i] = Turned(t[i - 1], all)
            BY <1>3, <2>3, <2>5, TurnsAre
        <3>4. t[i - 1].rest # {}
            <4>1. Cardinality(t[i - 1].rest) = N - (i - 1)
                BY <3>2
            <4>2. SUFFICES ASSUME t[i - 1].rest = {} PROVE FALSE
                OBVIOUS
            <4>3. Cardinality(t[i - 1].rest) = 0
                BY <4>2, FS_EmptySet
            <4> QED
                BY <4>1, <4>3, <2>3, <1>2
        <3>5. /\ Shaped(t[i]) /\ Merged(t[i].files, t[i].out, t[i].rest, all)
              /\ \E e \in t[i - 1].rest : t[i].rest = t[i - 1].rest \ {e}
            BY <1>1, <3>2, <3>3, <3>4, TurnKeepsMerged
        <3>6. PICK e \in t[i - 1].rest : t[i].rest = t[i - 1].rest \ {e}
            BY <3>5
        <3>7. IsFiniteSet(t[i - 1].rest)
            BY <3>2, <1>2, FS_Subset DEF Merged
        <3>8. Cardinality(t[i].rest) = Cardinality(t[i - 1].rest) - 1
            BY <3>6, <3>7, FS_RemoveElement
        <3>9. Cardinality(t[i].rest) = N - i
            BY <3>8, <3>2, <2>3, <1>2
        <3>10. Good(i)
            BY <3>5, <3>9
        <3> QED
            BY <3>10
    <2> QED
        BY <2>3, <2>4, <2>5
<1>5. Good(N)
    <2>1. N \in 0..N
        BY <1>2
    <2> QED
        BY <2>1, <1>4
<1> DEFINE files == t[N].files
           out == t[N].out
<1>6. t[N].rest = {}
    <2>1. Cardinality(t[N].rest) = 0 /\ t[N].rest \subseteq all
        BY <1>5, <1>2 DEF Merged
    <2> QED
        BY <2>1, <1>2, FS_Subset, FS_EmptySet
<1>7. Merged(files, out, {}, all)
    BY <1>5, <1>6
<1>8. Merged(files \cup ({out} \ {{}}), {}, {}, all)
    <2> HIDE DEF files, out
    <2> QED
        BY <1>7, MergedClosed
<1>9. Outputs = files \cup ({out} \ {{}})
    BY <1>3
<1>10. Merged(Outputs, {}, {}, all)
    <2> HIDE DEF files, out
    <2> QED
        BY <1>8, <1>9
<1> QED
    BY <1>10 DEF Merged

-----------------------------------------------------------------------------
(* What the actions choose                                                   *)

LEMMA StampedAre ==
    ASSUME CompactionAssumption, sequence \in Nat, NEW batch \in Batches
    PROVE  /\ Sane(Stamped(batch)) /\ Cardinality(batch) \in Nat
           /\ \A e \in Stamped(batch) :
                 sequence < e.seq /\ e.seq <= sequence + Cardinality(batch)
<1> DEFINE upto(o) == {p \in batch : p.key <= o.key}
           entry(o) == [key |-> o.key, del |-> o.del, seq |-> sequence + Cardinality(upto(o))]
           stamp == [o \in batch |-> entry(o)]
<1>1. /\ IsFiniteSet(batch) /\ batch \subseteq [key : Keys, del : BOOLEAN]
      /\ \A o, p \in batch : o.key = p.key => o = p
      /\ Keys \subseteq Nat
    BY DEF CompactionAssumption
<1>2. Cardinality(batch) \in Nat
    BY <1>1, FS_CardinalityType
<1>3. ASSUME NEW o \in batch
      PROVE  /\ Cardinality(upto(o)) \in Nat /\ Cardinality(upto(o)) > 0
             /\ Cardinality(upto(o)) <= Cardinality(batch)
    <2>1. o.key \in Nat /\ upto(o) \in SUBSET batch
        BY <1>1
    <2>2. o \in upto(o)
        BY <2>1
    <2> HIDE DEF upto
    <2>3. IsFiniteSet(upto(o)) /\ Cardinality(upto(o)) <= Cardinality(batch)
        BY <1>1, <2>1, FS_Subset
    <2>4. Cardinality(upto(o)) \in Nat /\ Cardinality(upto(o)) # 0
        BY <2>2, <2>3, FS_CardinalityType, FS_EmptySet
    <2> QED
        BY <2>3, <2>4
<1>4. Stamped(batch) = {entry(o) : o \in batch}
    BY DEF Stamped
<1> HIDE DEF upto
<1>5. IsFiniteSet(Stamped(batch))
    <2>1. stamp \in Surjection(batch, Stamped(batch))
        BY <1>4 DEF Surjection
    <2> QED
        BY <2>1, <1>1, FS_Surjection
<1>6. ASSUME NEW e \in Stamped(batch)
      PROVE  e \in Entry /\ sequence < e.seq /\ e.seq <= sequence + Cardinality(batch)
    <2>1. PICK o \in batch : e = entry(o)
        BY <1>4
    <2>2. o.key \in Nat /\ o.del \in BOOLEAN
        BY <1>1
    <2> QED
        BY <2>1, <2>2, <1>2, <1>3 DEF Entry
<1>7. ASSUME NEW e \in Stamped(batch), NEW f \in Stamped(batch), e.key = f.key
      PROVE  e = f
    <2>1. PICK o \in batch : e = entry(o)
        BY <1>4
    <2>2. PICK p \in batch : f = entry(p)
        BY <1>4
    <2>3. o.key = p.key
        BY <2>1, <2>2, <1>7
    <2> QED
        BY <2>1, <2>2, <2>3, <1>1
<1> QED
    BY <1>2, <1>5, <1>6, <1>7 DEF Sane

LEMMA FlushLevel ==
    ASSUME CompactionAssumption, NEW lo, NEW hi,
           NEW p, p = PickLevelForMemTableOutput(lo, hi)
    PROVE  /\ p \in Levels /\ p \in Nat
           /\ p > 0 => \A m \in Levels : m <= p => ~OverlapInLevel(m, lo, hi)
<1> DEFINE dear(n) == n + 2 < NumLevels =>
                          Size(GetOverlappingInputs(n + 2, lo, hi)) <= OverlapLimit
           free(n) == ~OverlapInLevel(n + 1, lo, hi) /\ dear(n)
           reach == {n \in 0..MaxMemCompactLevel : \A m \in 0..(n - 1) : free(m)}
<1>1. NumLevels \in Nat /\ MaxMemCompactLevel \in Nat /\ MaxMemCompactLevel < NumLevels
    BY DEF CompactionAssumption
<1>2. p = IF OverlapInLevel(0, lo, hi) THEN 0
          ELSE CHOOSE n \in reach : \A m \in reach : m <= n
    BY DEF PickLevelForMemTableOutput
<1> HIDE DEF dear
<1>3. reach \in SUBSET Nat /\ 0 \in reach /\ \A x \in reach : x <= MaxMemCompactLevel
    BY <1>1
<1>4. \E n \in reach : \A m \in reach : m <= n
    <2> HIDE DEF reach
    <2> QED
        BY <1>1, <1>3, GreatestNumber
<1>5. CASE OverlapInLevel(0, lo, hi)
    BY <1>1, <1>2, <1>5 DEF Levels
<1>6. CASE ~OverlapInLevel(0, lo, hi)
    <2>1. p \in reach
        <3> HIDE DEF reach
        <3> QED
            BY <1>2, <1>4, <1>6
    <2>2. p \in Nat /\ p <= MaxMemCompactLevel /\ \A m \in 0..(p - 1) : free(m)
        BY <2>1, <1>1
    <2>3. ASSUME NEW m \in Levels, m <= p PROVE ~OverlapInLevel(m, lo, hi)
        <3>1. CASE m = 0
            BY <3>1, <1>6
        <3>2. CASE m > 0
            <4>1. m - 1 \in 0..(p - 1) /\ (m - 1) + 1 = m
                BY <2>2, <2>3, <3>2 DEF Levels
            <4>2. free(m - 1)
                BY <2>2, <4>1
            <4> QED
                BY <4>1, <4>2
        <3> QED
            BY <3>1, <3>2 DEF Levels
    <2> QED
        BY <2>2, <2>3, <1>1 DEF Levels
<1> QED
    BY <1>5, <1>6

LEMMA TopLevel ==
    ASSUME CompactionAssumption, NEW lo, NEW hi
    PROVE  MaxLevelWithFiles(lo, hi) \in Levels /\ MaxLevelWithFiles(lo, hi) > 0
<1> DEFINE with == {n \in 1..(NumLevels - 1) : OverlapInLevel(n, lo, hi)} \cup {1}
<1>1. NumLevels \in Nat /\ NumLevels > 1
    BY DEF CompactionAssumption
<1>2. with \in SUBSET Nat /\ with # {} /\ \A x \in with : 0 < x /\ x <= NumLevels - 1
    BY <1>1
<1>3. \E n \in with : \A m \in with : m <= n
    <2>1. NumLevels - 1 \in Nat
        BY <1>1
    <2> HIDE DEF with
    <2> QED
        BY <1>2, <2>1, GreatestNumber
<1>4. MaxLevelWithFiles(lo, hi) \in with
    <2>1. MaxLevelWithFiles(lo, hi) = CHOOSE n \in with : \A m \in with : m <= n
        BY DEF MaxLevelWithFiles
    <2> HIDE DEF with
    <2> QED
        BY <1>3, <2>1
<1> QED
    BY <1>1, <1>2, <1>4 DEF Levels

LEMMA OldestSnapshot ==
    ASSUME TypeOK
    PROVE  /\ SmallestSnapshot \in Nat
           /\ \A s \in snaps \cup {sequence} : SmallestSnapshot <= s
<1>1. sequence \in Nat /\ snaps \subseteq 0..sequence
    BY DEF TypeOK
<1>2. CASE snaps = {}
    BY <1>1, <1>2 DEF SmallestSnapshot
<1>3. CASE snaps # {}
    <2>1. \E m \in snaps : \A x \in snaps : m <= x
        BY <1>1, <1>3, LeastNumber
    <2>2. SmallestSnapshot \in snaps /\ \A x \in snaps : SmallestSnapshot <= x
        BY <2>1, <1>3 DEF SmallestSnapshot
    <2> QED
        BY <1>1, <2>2
<1> QED
    BY <1>2, <1>3

(* The inputs that a compaction starts with.                                  *)
Picked(n, c, manual) ==
    /\ n \in Levels /\ n + 1 \in Levels /\ InputsOf(n, c)
    /\ n = 0 => Closed(c.in0)
    /\ ~manual => Covered(c.in0 \cup c.in1)

LEMMA CoveredOne ==
    ASSUME NEW f
    PROVE  Covered({f})
<1>1. Entries({f}) = f
    BY DEF Entries
<1> QED
    BY <1>1 DEF Covered

LEMMA PickedAutomatic ==
    ASSUME CompactionAssumption, TypeOK, NEW n \in 0..(NumLevels - 2), NEW f \in levels[n],
           NEW c, c = SetupOtherInputs(n, Overlapping(n, {f}))
    PROVE  Picked(n, c, FALSE)
<1> DEFINE in0 == Overlapping(n, {f})
<1>1. n \in Levels /\ n + 1 \in Levels /\ n \in Nat
    BY DEF CompactionAssumption, Levels
<1>2. {f} \in SUBSET Files(past.written) /\ {f} # {} /\ {f} \cap levels[n] = {f}
    BY <1>1, LevelFiles
<1>3. /\ in0 \in SUBSET levels[n] /\ in0 # {} /\ Covered(in0)
      /\ n = 0 => Closed(in0)
    <2>1. CASE n > 0
        BY <2>1, CoveredOne DEF Overlapping
    <2>2. CASE n = 0
        <3>1. in0 = OverlappedBy(0, {f})
            BY <2>2 DEF Overlapping
        <3>2. in0 \subseteq levels[0] /\ {f} \subseteq in0 /\ Closed(in0)
            <4> HIDE DEF in0
            <4> QED
                BY <1>1, <1>2, <2>2, <3>1, Overlapped
        <3>3. Covered({f} \cup in0)
            <4> HIDE DEF in0
            <4> QED
                BY <1>1, <1>2, <2>2, <3>1, CoveredOne, OverlappedCovered
        <3>4. {f} \cup in0 = in0
            <4> HIDE DEF in0
            <4> QED
                BY <3>2
        <3> HIDE DEF in0
        <3>5. Covered(in0)
            BY <3>3, <3>4
        <3>6. in0 \in SUBSET levels[n] /\ in0 # {}
            BY <2>2, <3>2
        <3> QED
            BY <3>2, <3>5, <3>6
    <2> HIDE DEF in0
    <2> QED
        BY <2>1, <2>2, <1>1
<1> HIDE DEF in0
<1>4. c = SetupOtherInputs(n, in0)
    BY DEF in0
<1> QED
    BY <1>1, <1>3, <1>4, Setup DEF Picked

LEMMA PickedManual ==
    ASSUME CompactionAssumption, TypeOK, NEW n \in Levels, n + 1 \in Levels,
           NEW lo, NEW hi, NEW inputs, inputs = RangeInputs(n, lo, hi), inputs # {},
           NEW c, c = SetupOtherInputs(n, inputs)
    PROVE  Picked(n, c, TRUE)
<1>1. n \in Nat
    BY DEF Levels
<1>2. /\ inputs \in SUBSET levels[n]
      /\ n = 0 => Closed(inputs)
    <2>1. CASE n > 0
        <3>1. inputs \subseteq GetOverlappingInputs(n, lo, hi)
            BY <2>1 DEF RangeInputs
        <3> QED
            BY <1>1, <2>1, <3>1, InputsAbove DEF Direct
    <2>2. CASE n = 0
        <3>1. inputs = GetOverlappingInputs(0, lo, hi)
            BY <2>2 DEF RangeInputs
        <3> QED
            BY <2>2, <3>1, InputsOfZero
    <2> QED
        BY <1>1, <2>1, <2>2
<1> QED
    BY <1>2, Setup DEF Picked

-----------------------------------------------------------------------------
(* What the steps do to the levels                                           *)

Moves(c, manual) == ~manual /\ IsTrivialMove(c)

LEMMA MoveStep ==
    ASSUME TypeOK, NEW n, NEW c, NEW manual, Picked(n, c, manual),
           Compact(n, c, manual), Moves(c, manual)
    PROVE  /\ c.in1 = {}
           /\ \E f \in levels[n] :
                 /\ c.in0 = {f}
                 /\ levels' \in [Levels -> SUBSET Files(past.written)]
                 /\ levels'[n] = levels[n] \ {f} /\ levels'[n + 1] = levels[n + 1] \cup {f}
                 /\ \A m \in Levels : m # n /\ m # n + 1 => levels'[m] = levels[m]
           /\ job' = job
<1>1. n \in Levels /\ n + 1 \in Levels /\ n \in Int /\ n # n + 1
    BY DEF Picked, Levels
<1>2. Cardinality(c.in0) = 1 /\ c.in1 = {} /\ c.in0 \subseteq levels[n]
    BY DEF Moves, IsTrivialMove, Picked, InputsOf
<1>3. PICK f : c.in0 = {f}
    <2>1. IsFiniteSet(c.in0)
        BY <1>1, <1>2, FilesFinite, FS_Subset
    <2> QED
        BY <2>1, <1>2, FS_Singleton
<1>4. levels' = [levels EXCEPT ![n] = @ \ c.in0, ![n + 1] = @ \cup c.in0] /\ job' = job
    BY DEF Compact, Moves
<1>5. levels \in [Levels -> SUBSET Files(past.written)]
    BY DEF TypeOK
<1>6. f \in levels[n] /\ f \in Files(past.written)
    BY <1>1, <1>2, <1>3, <1>5
<1>7. /\ levels'[n] = levels[n] \ {f} /\ levels'[n + 1] = levels[n + 1] \cup {f}
      /\ \A m \in Levels : m # n /\ m # n + 1 => levels'[m] = levels[m]
    BY <1>1, <1>3, <1>4, <1>5
<1>8. levels' \in [Levels -> SUBSET Files(past.written)]
    <2>1. levels' = [m \in Levels |-> levels'[m]]
        BY <1>4, <1>5
    <2>2. \A m \in Levels : levels'[m] \in SUBSET Files(past.written)
        BY <1>1, <1>5, <1>6, <1>7
    <2> QED
        BY <2>1, <2>2
<1> QED
    BY <1>2, <1>3, <1>4, <1>6, <1>7, <1>8

LEMMA StartStep ==
    ASSUME CompactionAssumption, TypeOK, NEW n, NEW c, NEW manual \in BOOLEAN,
           Picked(n, c, manual), Compact(n, c, manual), ~Moves(c, manual)
    PROVE  /\ levels' = levels
           /\ job' \in [on : {TRUE}, manual : {manual}, level : {n}, in0 : {c.in0},
                        in1 : {c.in1}, deeper : SUBSET Files(past.written),
                        grand : SUBSET Files(past.written), smallest : {SmallestSnapshot}]
           /\ job'.deeper = UNION {levels[m] : m \in (n + 2)..(NumLevels - 1)}
<1>1. /\ levels' = levels
      /\ job' = [on |-> TRUE, manual |-> manual, level |-> n,
                 in0 |-> c.in0, in1 |-> c.in1, grand |-> c.grand,
                 deeper |-> UNION {levels[m] : m \in (n + 2)..(NumLevels - 1)},
                 smallest |-> SmallestSnapshot]
    BY DEF Compact, Moves
<1>2. c.grand \subseteq Files(past.written)
    BY DEF Picked, InputsOf
<1>3. \A m \in (n + 2)..(NumLevels - 1) : levels[m] \subseteq Files(past.written)
    <2>1. \A m \in (n + 2)..(NumLevels - 1) : m \in Levels
        BY DEF Levels, Picked
    <2> QED
        BY <2>1, LevelFiles
<1> QED
    BY <1>1, <1>2, <1>3

LEMMA FlushStep ==
    ASSUME CompactionAssumption, TypeOK, CompactMemTable
    PROVE  \E p \in Levels :
              /\ p \in Nat
              /\ tables2.imm \in Files(past.written)
              /\ levels' \in [Levels -> SUBSET Files(past.written)]
              /\ levels'[p] = levels[p] \cup {tables2.imm}
              /\ \A m \in Levels : m # p => levels'[m] = levels[m]
              /\ p > 0 => \A m \in Levels : m <= p =>
                    \A f \in levels[m] : ~Touches(f, LowKey(tables2.imm), HighKey(tables2.imm))
<1> DEFINE p == PickLevelForMemTableOutput(LowKey(tables2.imm), HighKey(tables2.imm))
<1>1. p \in Levels /\ p \in Nat
      /\ (p > 0 => \A m \in Levels : m <= p =>
             ~OverlapInLevel(m, LowKey(tables2.imm), HighKey(tables2.imm)))
    BY FlushLevel
<1>2. levels' = [levels EXCEPT ![p] = @ \cup {tables2.imm}] /\ tables2.imm # {}
    BY DEF CompactMemTable
<1> HIDE DEF p
<1>3. /\ levels \in [Levels -> SUBSET Files(past.written)]
      /\ tables2.imm \in Files(past.written)
    BY <1>2 DEF TypeOK, Files
<1>4. /\ levels'[p] = levels[p] \cup {tables2.imm}
      /\ \A m \in Levels : m # p => levels'[m] = levels[m]
      /\ levels' \in [Levels -> SUBSET Files(past.written)]
    BY <1>1, <1>2, <1>3
<1>5. p > 0 => \A m \in Levels : m <= p =>
          \A f \in levels[m] : ~Touches(f, LowKey(tables2.imm), HighKey(tables2.imm))
    BY <1>1 DEF OverlapInLevel
<1> QED
    BY <1>1, <1>3, <1>4, <1>5

LEMMA WorkStep ==
    ASSUME CompactionAssumption, TypeOK, DoCompactionWork
    PROVE  /\ job.on /\ job.level \in Levels /\ job.level + 1 \in Levels /\ job.level \in Nat
           /\ levels' \in [Levels -> SUBSET Files(past.written)]
           /\ levels'[job.level] = levels[job.level] \ job.in0
           /\ levels'[job.level + 1] = (levels[job.level + 1] \ job.in1) \cup Outputs
           /\ \A m \in Levels : m # job.level /\ m # job.level + 1 => levels'[m] = levels[m]
           /\ job' = NoJob
<1>1. /\ job.on /\ job' = NoJob
      /\ levels' = [levels EXCEPT ![job.level] = @ \ job.in0,
                                  ![job.level + 1] = (@ \ job.in1) \cup Outputs]
    BY DEF DoCompactionWork
<1>2. job.level \in Nat /\ job.level + 1 \in Levels
    BY <1>1 DEF TypeOK, JobTypeOK
<1>3. job.level \in Levels /\ job.level # job.level + 1
    BY <1>2 DEF Levels, CompactionAssumption
<1>4. levels \in [Levels -> SUBSET Files(past.written)]
    BY DEF TypeOK
<1>5. Outputs \subseteq Files(past.written)
    <2>1. \A f \in Outputs : f # {} /\ f \subseteq Entries(Inputs)
        BY <1>1, OutputsAre
    <2>2. Entries(Inputs) \subseteq past.written
        BY DEF Inputs, Entries, TypeOK, JobTypeOK, Files
    <2> QED
        BY <2>1, <2>2 DEF Files
<1>6. /\ levels'[job.level] = levels[job.level] \ job.in0
      /\ levels'[job.level + 1] = (levels[job.level + 1] \ job.in1) \cup Outputs
      /\ \A m \in Levels : m # job.level /\ m # job.level + 1 => levels'[m] = levels[m]
    BY <1>1, <1>2, <1>3, <1>4
<1>7. levels' \in [Levels -> SUBSET Files(past.written)]
    <2>1. levels' = [m \in Levels |-> levels'[m]]
        BY <1>1, <1>4
    <2>2. \A m \in Levels : levels'[m] \in SUBSET Files(past.written)
        BY <1>2, <1>3, <1>4, <1>5, <1>6
    <2> QED
        BY <2>1, <2>2
<1> QED
    BY <1>1, <1>2, <1>3, <1>6, <1>7

-----------------------------------------------------------------------------
(* The state has its type                                                    *)

LEMMA TypeAtStart ==
    ASSUME CompactionAssumption, LevelsInit
    PROVE  TypeOK
<1>1. /\ levels = [n \in Levels |-> {}] /\ tables2 = [mem |-> {}, imm |-> {}]
      /\ sequence = 0 /\ snaps = {} /\ job = NoJob /\ call = NoCall
      /\ past = [written |-> {}, raced |-> FALSE, separated |-> FALSE, manual |-> 0]
    BY DEF LevelsInit
<1>2. Sane(past.written) /\ past.written = {}
    BY <1>1, FS_EmptySet DEF Sane
<1>3. JobTypeOK
    BY <1>1 DEF JobTypeOK, NoJob
<1>4. CallTypeOK
    BY <1>1 DEF CallTypeOK, NoCall
<1>5. past \in [written : SUBSET Entry, raced : BOOLEAN, separated : BOOLEAN, manual : Nat]
    BY <1>1
<1> QED
    BY <1>1, <1>2, <1>3, <1>4, <1>5 DEF TypeOK

(* What a step does that leaves the written entries and the numbers alone.    *)
LEMMA TypeKept ==
    ASSUME TypeOK, sequence' = sequence, snaps' \subseteq snaps \cup {sequence},
           past'.written = past.written,
           past' \in [written : SUBSET Entry, raced : BOOLEAN, separated : BOOLEAN, manual : Nat],
           levels' \in [Levels -> SUBSET Files(past.written)],
           tables2' \in [mem : SUBSET past.written, imm : SUBSET past.written],
           JobTypeOK', CallTypeOK'
    PROVE  TypeOK'
BY DEF TypeOK, Sane

(* The job is still running and its inputs are still there.                  *)
LEMMA JobTypeKept ==
    ASSUME CompactionAssumption, TypeOK, job' = job, past.written \subseteq past'.written,
           \A n \in Levels : levels[n] \subseteq levels'[n]
    PROVE  JobTypeOK'
<1>1. Files(past.written) \subseteq Files(past'.written)
    BY DEF Files
<1>2. job \in [on : BOOLEAN, manual : BOOLEAN, level : Nat, in0 : SUBSET Files(past'.written),
               in1 : SUBSET Files(past'.written), deeper : SUBSET Files(past'.written),
               grand : SUBSET Files(past'.written), smallest : Nat]
    BY <1>1 DEF TypeOK, JobTypeOK
<1>3. ASSUME job.on
      PROVE  /\ job.level + 1 \in Levels /\ job.in0 # {}
             /\ job.in0 \subseteq levels'[job.level] /\ job.in1 \subseteq levels'[job.level + 1]
    <2>1. /\ job.level + 1 \in Levels /\ job.in0 # {} /\ job.level \in Nat
          /\ job.in0 \subseteq levels[job.level] /\ job.in1 \subseteq levels[job.level + 1]
        BY <1>3 DEF TypeOK, JobTypeOK
    <2>2. job.level \in Levels
        BY <2>1 DEF Levels, CompactionAssumption
    <2> QED
        BY <2>1, <2>2
<1> QED
    BY <1>2, <1>3 DEF JobTypeOK

LEMMA TypeWrite ==
    ASSUME CompactionAssumption, TypeOK, NEW batch \in Batches, Write(batch)
    PROVE  TypeOK'
<1> DEFINE new == Stamped(batch)
<1>1. /\ Sane(new) /\ Cardinality(batch) \in Nat
      /\ \A e \in new : sequence < e.seq /\ e.seq <= sequence + Cardinality(batch)
    BY StampedAre DEF TypeOK
<1>2. /\ tables2' = IF MemTableFull THEN [mem |-> new, imm |-> tables2.mem]
                    ELSE [tables2 EXCEPT !.mem = @ \cup new]
      /\ sequence' = sequence + Cardinality(batch)
      /\ past' = [past EXCEPT !.written = @ \cup new]
      /\ levels' = levels /\ snaps' = snaps /\ job' = job /\ call' = call
    BY DEF Write
<1> HIDE DEF new
<1>3. /\ sequence \in Nat /\ snaps \subseteq 0..sequence
      /\ past \in [written : SUBSET Entry, raced : BOOLEAN, separated : BOOLEAN, manual : Nat]
      /\ Sane(past.written) /\ \A e \in past.written : e.seq <= sequence
      /\ levels \in [Levels -> SUBSET Files(past.written)]
      /\ tables2 \in [mem : SUBSET past.written, imm : SUBSET past.written]
    BY DEF TypeOK
<1>4. past'.written = past.written \cup new
    BY <1>2, <1>3
<1>5. past.written \subseteq Entry /\ new \subseteq Entry
    BY <1>1, <1>3 DEF Sane
<1>6. sequence' \in Nat /\ snaps' \subseteq 0..sequence' /\ sequence <= sequence'
    BY <1>1, <1>2, <1>3
<1>7. past' \in [written : SUBSET Entry, raced : BOOLEAN, separated : BOOLEAN, manual : Nat]
    BY <1>2, <1>3, <1>5
<1>8. Sane(past'.written)
    <2>1. IsFiniteSet(past.written \cup new)
        BY <1>1, <1>3, FS_Union DEF Sane
    <2>2. ASSUME NEW e \in past.written \cup new, NEW f \in past.written \cup new,
                 e.key = f.key, e.seq = f.seq
          PROVE  e = f
        <3>1. e \in Entry /\ f \in Entry
            BY <1>5
        <3>2. e \in new <=> f \in new
            BY <3>1, <1>1, <1>3, <2>2 DEF Entry
        <3> QED
            BY <3>2, <1>1, <1>3, <2>2 DEF Sane
    <2> QED
        BY <2>1, <2>2, <1>4, <1>5 DEF Sane
<1>9. \A e \in past'.written : e.seq <= sequence'
    BY <1>1, <1>2, <1>3, <1>4, <1>5, <1>6 DEF Entry
<1>10. levels' \in [Levels -> SUBSET Files(past'.written)]
    <2>1. Files(past.written) \subseteq Files(past'.written)
        BY <1>4 DEF Files
    <2> QED
        BY <2>1, <1>2, <1>3
<1>11. tables2' \in [mem : SUBSET past'.written, imm : SUBSET past'.written]
    <2>1. CASE MemTableFull
        BY <2>1, <1>2, <1>3, <1>4
    <2>2. CASE ~MemTableFull
        BY <2>2, <1>2, <1>3, <1>4
    <2> QED
        BY <2>1, <2>2
<1>12. JobTypeOK'
    <2>1. \A n \in Levels : levels[n] \subseteq levels'[n]
        BY <1>2
    <2> QED
        BY <2>1, <1>2, <1>4, JobTypeKept
<1>13. CallTypeOK'
    BY <1>2 DEF TypeOK, CallTypeOK
<1> QED
    BY <1>6, <1>7, <1>8, <1>9, <1>10, <1>11, <1>12, <1>13 DEF TypeOK

(* A compaction begins.                                                      *)
LEMMA TypeCompact ==
    ASSUME CompactionAssumption, TypeOK, ~job.on, CallTypeOK',
           NEW n, NEW c, NEW manual \in BOOLEAN,
           Picked(n, c, manual), Compact(n, c, manual)
    PROVE  TypeOK'
<1>1. /\ past' = [past EXCEPT !.separated = @ \/ Separates(n, c)]
      /\ tables2' = tables2 /\ sequence' = sequence /\ snaps' = snaps
    BY DEF Compact
<1>2. Separates(n, c) \in BOOLEAN
    BY DEF Separates, LeftBehind
<1>3. /\ past' \in [written : SUBSET Entry, raced : BOOLEAN, separated : BOOLEAN, manual : Nat]
      /\ past'.written = past.written
    BY <1>1, <1>2 DEF TypeOK
<1>4. CASE Moves(c, manual)
    <2>1. levels' \in [Levels -> SUBSET Files(past.written)] /\ job' = job
        BY <1>4, MoveStep
    <2>2. JobTypeOK'
        BY <2>1, <1>3 DEF TypeOK, JobTypeOK
    <2> QED
        BY <2>1, <2>2, <1>1, <1>3, TypeKept DEF TypeOK
<1>5. CASE ~Moves(c, manual)
    <2>1. /\ levels' = levels
          /\ job' \in [on : {TRUE}, manual : {manual}, level : {n}, in0 : {c.in0},
                       in1 : {c.in1}, deeper : SUBSET Files(past.written),
                       grand : SUBSET Files(past.written), smallest : {SmallestSnapshot}]
        BY <1>5, StartStep
    <2>2. /\ c.in0 # {} /\ c.in0 \subseteq levels[n] /\ c.in1 \subseteq levels[n + 1]
          /\ n \in Levels /\ n + 1 \in Levels /\ n \in Nat
        BY DEF Picked, InputsOf, Direct, Levels
    <2>3. levels[n] \subseteq Files(past.written) /\ levels[n + 1] \subseteq Files(past.written)
        BY <2>2, LevelFiles
    <2>4. SmallestSnapshot \in Nat
        BY OldestSnapshot
    <2>5. job' \in [on : BOOLEAN, manual : BOOLEAN, level : Nat, in0 : SUBSET Files(past.written),
                    in1 : SUBSET Files(past.written), deeper : SUBSET Files(past.written),
                    grand : SUBSET Files(past.written), smallest : Nat]
        BY <2>1, <2>2, <2>3, <2>4
    <2>6. /\ job'.level + 1 \in Levels /\ job'.in0 # {} /\ job'.in0 \subseteq levels'[job'.level]
          /\ job'.in1 \subseteq levels'[job'.level + 1]
        BY <2>1, <2>2
    <2>7. JobTypeOK'
        BY <2>5, <2>6, <1>3 DEF JobTypeOK
    <2> QED
        BY <2>1, <2>7, <1>1, <1>3, TypeKept DEF TypeOK
<1> QED
    BY <1>4, <1>5

LEMMA TypeNext ==
    ASSUME CompactionAssumption, TypeOK, [LevelsNext]_levelsVars
    PROVE  TypeOK'
<1>1. /\ sequence \in Nat /\ snaps \subseteq 0..sequence
      /\ past \in [written : SUBSET Entry, raced : BOOLEAN, separated : BOOLEAN, manual : Nat]
      /\ Sane(past.written) /\ \A e \in past.written : e.seq <= sequence
      /\ levels \in [Levels -> SUBSET Files(past.written)]
      /\ tables2 \in [mem : SUBSET past.written, imm : SUBSET past.written]
      /\ JobTypeOK /\ CallTypeOK
    BY DEF TypeOK
<1>2. ASSUME job' = job, levels' = levels, past'.written = past.written PROVE JobTypeOK'
    BY <1>1, <1>2 DEF JobTypeOK
<1>3. ASSUME call' = call PROVE CallTypeOK'
    BY <1>1, <1>3 DEF CallTypeOK
<1>4. ASSUME NEW batch \in Batches, Write(batch) PROVE TypeOK'
    BY <1>4, TypeWrite
<1>5. ASSUME GetSnapshot PROVE TypeOK'
    BY <1>1, <1>2, <1>3, <1>5, TypeKept DEF GetSnapshot
<1>6. ASSUME NEW s \in snaps, ReleaseSnapshot(s) PROVE TypeOK'
    BY <1>1, <1>2, <1>3, <1>6, TypeKept DEF ReleaseSnapshot
<1>7. ASSUME CompactMemTable PROVE TypeOK'
    <2>1. PICK p \in Levels :
              /\ levels' \in [Levels -> SUBSET Files(past.written)]
              /\ levels'[p] = levels[p] \cup {tables2.imm}
              /\ \A m \in Levels : m # p => levels'[m] = levels[m]
        BY <1>7, FlushStep
    <2>2. /\ tables2' = [tables2 EXCEPT !.imm = {}]
          /\ past' = [past EXCEPT !.raced = @ \/ job.manual]
          /\ sequence' = sequence /\ snaps' = snaps /\ job' = job /\ call' = call
        BY <1>7 DEF CompactMemTable
    <2>3. job.manual \in BOOLEAN
        BY <1>1 DEF JobTypeOK
    <2>4. /\ past'.written = past.written
          /\ past' \in [written : SUBSET Entry, raced : BOOLEAN, separated : BOOLEAN, manual : Nat]
        BY <1>1, <2>2, <2>3
    <2>5. tables2' \in [mem : SUBSET past.written, imm : SUBSET past.written]
        BY <1>1, <2>2
    <2>6. \A m \in Levels : levels[m] \subseteq levels'[m]
        BY <2>1
    <2>7. JobTypeOK'
        BY <2>2, <2>4, <2>6, JobTypeKept
    <2> QED
        BY <1>3, <2>1, <2>2, <2>4, <2>5, <2>7, TypeKept
<1>8. ASSUME PickCompaction PROVE TypeOK'
    <2>0. PICK n \in 0..(NumLevels - 2) : \E f \in levels[n] :
              Compact(n, SetupOtherInputs(n, Overlapping(n, {f})), FALSE)
        BY <1>8 DEF PickCompaction
    <2>1. PICK f \in levels[n] : Compact(n, SetupOtherInputs(n, Overlapping(n, {f})), FALSE)
        BY <2>0
    <2>2. ~job.on /\ call' = call
        BY <1>8 DEF PickCompaction, Idle
    <2>3. Picked(n, SetupOtherInputs(n, Overlapping(n, {f})), FALSE)
        BY <2>1, PickedAutomatic
    <2> QED
        BY <1>3, <2>1, <2>2, <2>3, TypeCompact
<1>9. ASSUME CompactPart PROVE TypeOK'
    <2> DEFINE n == call.level
               inputs == RangeInputs(n, call.from, call.hi)
    <2>1. call.at = "pass" /\ ~job.on
        BY <1>9 DEF CompactPart, Idle
    <2>2. n \in Nat /\ n < call.top /\ call.top \in Levels
        BY <2>1, <1>1 DEF CallTypeOK
    <2>3. CASE inputs = {}
        <3>1. /\ call' = IF n + 1 = call.top THEN [call EXCEPT !.at = "done"]
                         ELSE [call EXCEPT !.level = n + 1, !.from = call.lo]
              /\ levels' = levels /\ tables2' = tables2 /\ sequence' = sequence
              /\ snaps' = snaps /\ job' = job /\ past' = past
            BY <1>9, <2>3 DEF CompactPart
        <3>2. CallTypeOK'
            <4>1. CASE n + 1 = call.top
                BY <3>1, <4>1, <1>1 DEF CallTypeOK
            <4>2. CASE n + 1 # call.top
                <5>1. /\ call'.at = call.at /\ call'.level = n + 1 /\ call'.top = call.top
                      /\ call' = [at |-> call.at, level |-> n + 1, top |-> call.top, lo |-> call.lo,
                                  hi |-> call.hi, from |-> call.lo, since |-> call.since]
                    BY <3>1, <4>2, <1>1 DEF CallTypeOK
                <5>2. n + 1 \in Nat /\ n + 1 < call.top
                    BY <2>2, <4>2 DEF Levels
                <5> HIDE DEF n
                <5> QED
                    BY <5>1, <5>2, <2>1, <2>2 DEF CallTypeOK
            <4> QED
                BY <4>1, <4>2
        <3> QED
            BY <1>1, <1>2, <3>1, <3>2, TypeKept
    <2>4. CASE inputs # {}
        <3> DEFINE c == SetupOtherInputs(n, inputs)
        <3>1. Compact(n, c, TRUE) /\ call' = [call EXCEPT !.from = Resume(c)]
            BY <1>9, <2>4 DEF CompactPart
        <3>2. n \in Levels /\ n + 1 \in Levels
            BY <2>2 DEF Levels, CompactionAssumption
        <3>3. Picked(n, c, TRUE)
            BY <2>4, <3>2, PickedManual
        <3>4. CallTypeOK'
            <4> HIDE DEF c
            <4> QED
                BY <1>1, <3>1 DEF CallTypeOK
        <3> HIDE DEF c
        <3> QED
            BY <2>1, <3>1, <3>3, <3>4, TypeCompact
    <2> QED
        BY <2>3, <2>4
<1>10. ASSUME DoCompactionWork PROVE TypeOK'
    <2>1. levels' \in [Levels -> SUBSET Files(past.written)] /\ job' = NoJob
        BY <1>10, WorkStep
    <2>2. /\ tables2' = tables2 /\ sequence' = sequence /\ snaps' = snaps /\ past' = past
          /\ call' = call
        BY <1>10 DEF DoCompactionWork
    <2>3. JobTypeOK'
        BY <2>1 DEF NoJob, JobTypeOK
    <2> QED
        BY <1>1, <1>3, <2>1, <2>2, <2>3, TypeKept
<1>11. ASSUME NEW lo \in Keys, NEW hi \in Keys, CompactRange(lo, hi) PROVE TypeOK'
    <2>1. /\ call' = [at |-> "memtable", level |-> 0, top |-> MaxLevelWithFiles(lo, hi),
                      lo |-> lo, hi |-> hi, from |-> lo, since |-> sequence]
          /\ past' = [past EXCEPT !.manual = @ + 1]
          /\ levels' = levels /\ tables2' = tables2 /\ sequence' = sequence
          /\ snaps' = snaps /\ job' = job
        BY <1>11 DEF CompactRange
    <2>2. CallTypeOK'
        BY <2>1, TopLevel DEF CallTypeOK
    <2>3. /\ past'.written = past.written
          /\ past' \in [written : SUBSET Entry, raced : BOOLEAN, separated : BOOLEAN, manual : Nat]
        BY <1>1, <2>1
    <2> QED
        BY <1>1, <1>2, <2>1, <2>2, <2>3, TypeKept
<1>12. ASSUME ForceMemTable PROVE TypeOK'
    <2>1. /\ tables2' = [mem |-> {}, imm |-> tables2.mem] /\ call.at = "memtable"
          /\ call' = [call EXCEPT !.at = "flush"]
          /\ levels' = levels /\ sequence' = sequence /\ snaps' = snaps /\ job' = job
          /\ past' = past
        BY <1>12 DEF ForceMemTable
    <2>2. CallTypeOK'
        BY <1>1, <2>1 DEF CallTypeOK
    <2> QED
        BY <1>1, <1>2, <2>1, <2>2, TypeKept
<1>13. ASSUME AwaitFlush PROVE TypeOK'
    <2>1. /\ call' = [call EXCEPT !.at = "pass"] /\ call.at = "flush"
          /\ levels' = levels /\ tables2' = tables2 /\ sequence' = sequence
          /\ snaps' = snaps /\ job' = job /\ past' = past
        BY <1>13 DEF AwaitFlush
    <2>2. CallTypeOK'
        BY <1>1, <2>1 DEF CallTypeOK
    <2> QED
        BY <1>1, <1>2, <2>1, <2>2, TypeKept
<1>14. ASSUME UNCHANGED levelsVars PROVE TypeOK'
    BY <1>1, <1>2, <1>3, <1>14, TypeKept DEF levelsVars
<1>15. ASSUME Settled PROVE TypeOK'
    BY <1>14, <1>15 DEF Settled
<1> QED
    BY <1>4, <1>5, <1>6, <1>7, <1>8, <1>9, <1>10, <1>11, <1>12, <1>13, <1>14, <1>15
       DEF LevelsNext, Background

-----------------------------------------------------------------------------
(* The levels stay sorted                                                    *)

LEMMA ApartSymmetric ==
    ASSUME NEW S, NEW T
    PROVE  Apart(S, T) <=> Apart(T, S)
BY DEF Apart

LEMMA InputFiles ==
    ASSUME TypeOK, job.on
    PROVE  /\ Inputs \in SUBSET Files(past.written) /\ Inputs # {} /\ Sane(past.written)
           /\ Sane(Entries(Inputs)) /\ Entries(Inputs) # {}
           /\ Entries(Inputs) \subseteq past.written
<1>1. Inputs \in SUBSET Files(past.written) /\ Inputs # {} /\ Sane(past.written)
    BY DEF Inputs, TypeOK, JobTypeOK
<1> QED
    BY <1>1, Hull

(* A memtable that goes to the job's output level or deeper misses its inputs. *)
LEMMA FlushedAway ==
    ASSUME CompactionAssumption, TypeOK, job.on, Covered(Inputs),
           NEW p \in Levels, job.level + 1 <= p, NEW imm \in Files(past.written),
           \A m \in Levels : m <= p =>
               \A f \in levels[m] : ~Touches(f, LowKey(imm), HighKey(imm))
    PROVE  Apart(imm, Entries(Inputs)) /\ NoSharedKey(imm, Entries(Inputs))
<1> DEFINE lo == LowKey(Entries(Inputs))
           hi == HighKey(Entries(Inputs))
<1>1. /\ Inputs \in SUBSET Files(past.written) /\ Inputs # {} /\ Sane(past.written)
      /\ Sane(Entries(Inputs)) /\ Entries(Inputs) # {}
    BY InputFiles
<1>2. Sane(imm) /\ imm # {}
    BY <1>1, SaneSubset DEF Files
<1>3. lo \in Nat /\ hi \in Nat /\ LowKey(imm) \in Nat /\ HighKey(imm) \in Nat
      /\ LowKey(imm) <= HighKey(imm) /\ lo <= hi
    BY <1>1, <1>2, Span
<1>4. \A f \in Inputs : ~Touches(f, LowKey(imm), HighKey(imm))
    <2>1. /\ job.level \in Nat /\ job.level + 1 \in Levels
          /\ job.in0 \subseteq levels[job.level] /\ job.in1 \subseteq levels[job.level + 1]
        BY DEF TypeOK, JobTypeOK
    <2>2. job.level \in Levels /\ job.level <= p
        BY <2>1 DEF Levels, CompactionAssumption
    <2> QED
        BY <2>1, <2>2 DEF Inputs
<1>5. \A f \in Inputs : LowKey(f) \in Nat /\ HighKey(f) \in Nat
    BY <1>1, Hull, Span
<1>6. \A k \in lo..hi : \E f \in Inputs : k \in LowKey(f)..HighKey(f)
    BY DEF Covered
<1>7. ~Touches(imm, lo, hi)
    <2> HIDE DEF lo, hi
    <2>1. SUFFICES ASSUME LowKey(imm) <= hi, lo <= HighKey(imm) PROVE FALSE
        BY DEF Touches
    <2>2. PICK k \in lo..hi : LowKey(imm) <= k /\ k <= HighKey(imm)
        <3>1. CASE LowKey(imm) <= lo
            BY <3>1, <1>3, <2>1
        <3>2. CASE lo <= LowKey(imm)
            BY <3>2, <1>3, <2>1
        <3> QED
            BY <3>1, <3>2, <1>3
    <2>3. PICK f \in Inputs : k \in LowKey(f)..HighKey(f)
        BY <1>6
    <2>4. Touches(f, LowKey(imm), HighKey(imm))
        BY <1>3, <1>5, <2>2, <2>3 DEF Touches
    <2> QED
        BY <1>4, <2>4
<1> QED
    BY <1>1, <1>2, <1>7, NotTouching

LEMMA SortedFlush ==
    ASSUME CompactionAssumption, TypeOK, SortedInv, CompactMemTable
    PROVE  SortedInv'
<1>1. PICK p \in Levels :
          /\ p \in Nat
          /\ tables2.imm \in Files(past.written)
          /\ levels'[p] = levels[p] \cup {tables2.imm}
          /\ \A m \in Levels : m # p => levels'[m] = levels[m]
          /\ p > 0 => \A m \in Levels : m <= p =>
                \A f \in levels[m] : ~Touches(f, LowKey(tables2.imm), HighKey(tables2.imm))
    BY FlushStep
<1>2. job' = job /\ Inputs' = Inputs /\ past' = [past EXCEPT !.raced = @ \/ job.manual]
    BY DEF CompactMemTable, Inputs
<1>3. JobCovered'
    BY <1>2 DEF SortedInv, JobCovered
<1>4. SUFFICES ASSUME ~past'.raced PROVE LevelsApart' /\ JobApart'
    BY <1>3 DEF SortedInv
<1>5. ~past.raced /\ ~job.manual
    BY <1>2, <1>4 DEF TypeOK
<1>6. Sane(tables2.imm) /\ tables2.imm # {}
    BY <1>1, SaneSubset DEF TypeOK, Files
<1>7. LevelsApart'
    <2>1. SUFFICES ASSUME NEW n \in Levels \ {0}, NEW f \in levels'[n], NEW g \in levels'[n], f # g
                   PROVE  Apart(f, g)
        BY DEF LevelsApart
    <2>2. CASE f \in levels[n] /\ g \in levels[n]
        BY <2>1, <2>2, <1>5 DEF SortedInv, LevelsApart
    <2>3. ASSUME NEW h \in levels[n], n = p PROVE Apart(h, tables2.imm)
        <3>1. p > 0
            BY <2>1, <2>3, <1>1
        <3>2. ~Touches(h, LowKey(tables2.imm), HighKey(tables2.imm))
            BY <3>1, <2>3, <1>1
        <3>3. Sane(h) /\ h # {}
            BY <2>1, LevelFiles
        <3> QED
            BY <3>2, <3>3, <1>6, NotTouching
    <2>4. CASE n = p
        BY <2>1, <2>2, <2>3, <2>4, <1>1, ApartSymmetric
    <2>5. CASE n # p
        BY <2>1, <2>2, <2>5, <1>1
    <2> QED
        BY <2>4, <2>5
<1>8. JobApart'
    <2>1. SUFFICES ASSUME job.on, NEW h \in levels'[job.level + 1] \ job.in1
                   PROVE  Apart(h, Entries(Inputs))
        BY <1>2 DEF JobApart, Entries
    <2>2. job.level + 1 \in Levels /\ job.level \in Nat
        BY <2>1 DEF TypeOK, JobTypeOK
    <2>3. CASE h \in levels[job.level + 1]
        BY <2>1, <2>3, <1>5 DEF SortedInv, JobApart
    <2>4. CASE h \notin levels[job.level + 1]
        <3>1. p = job.level + 1 /\ h = tables2.imm
            BY <2>1, <2>2, <2>4, <1>1
        <3>2. p > 0 /\ job.level + 1 <= p
            BY <3>1, <2>2
        <3>3. Covered(Inputs)
            BY <2>1, <1>5 DEF SortedInv, JobCovered
        <3> QED
            BY <2>1, <3>1, <3>2, <3>3, <1>1, FlushedAway
    <2> QED
        BY <2>3, <2>4
<1> QED
    BY <1>7, <1>8

LEMMA SortedCompact ==
    ASSUME CompactionAssumption, TypeOK, SortedInv, ~job.on,
           NEW n, NEW c, NEW manual \in BOOLEAN,
           Picked(n, c, manual), Compact(n, c, manual)
    PROVE  SortedInv'
<1>1. past'.raced = past.raced
    BY DEF Compact, TypeOK
<1>2. n \in Levels /\ n + 1 \in Levels /\ InputsOf(n, c) /\ n \in Nat
    BY DEF Picked, Levels
<1>3. CASE Moves(c, manual)
    <2>1. c.in1 = {} /\ job' = job
        BY <1>3, MoveStep
    <2>2. PICK f \in levels[n] :
              /\ c.in0 = {f}
              /\ levels'[n] = levels[n] \ {f} /\ levels'[n + 1] = levels[n + 1] \cup {f}
              /\ \A m \in Levels : m # n /\ m # n + 1 => levels'[m] = levels[m]
        BY <1>3, MoveStep
    <2>3. JobCovered' /\ JobApart'
        BY <2>1 DEF JobCovered, JobApart
    <2>4. Sane(f) /\ f # {}
        BY <1>2, LevelFiles
    <2>5. ASSUME NEW h \in levels[n + 1] PROVE Apart(h, f)
        <3>1. Entries(c.in0) = f
            BY <2>2 DEF Entries
        <3>2. ~Touches(h, LowKey(f), HighKey(f))
            BY <2>1, <3>1, <1>2 DEF InputsOf, Direct
        <3>3. Sane(h) /\ h # {}
            BY <1>2, LevelFiles
        <3> QED
            BY <2>4, <3>2, <3>3, NotTouching
    <2>6. ASSUME ~past.raced PROVE LevelsApart'
        <3>1. SUFFICES ASSUME NEW m \in Levels \ {0}, NEW g \in levels'[m], NEW h \in levels'[m],
                              g # h
                       PROVE  Apart(g, h)
            BY DEF LevelsApart
        <3>2. CASE g \in levels[m] /\ h \in levels[m]
            BY <3>1, <3>2, <2>6 DEF SortedInv, LevelsApart
        <3>3. CASE m = n + 1
            BY <3>1, <3>2, <3>3, <2>2, <2>5, ApartSymmetric
        <3>4. CASE m # n + 1
            BY <3>1, <3>2, <3>4, <2>2, <1>2
        <3> QED
            BY <3>3, <3>4
    <2> QED
        BY <1>1, <2>3, <2>6 DEF SortedInv
<1>4. CASE ~Moves(c, manual)
    <2>1. /\ levels' = levels
          /\ job'.on /\ job'.manual = manual /\ job'.level = n
          /\ job'.in0 = c.in0 /\ job'.in1 = c.in1
        <3>1. /\ levels' = levels
              /\ job' \in [on : {TRUE}, manual : {manual}, level : {n}, in0 : {c.in0},
                           in1 : {c.in1}, deeper : SUBSET Files(past.written),
                           grand : SUBSET Files(past.written), smallest : {SmallestSnapshot}]
            BY <1>4, StartStep
        <3> QED
            BY <3>1
    <2>2. Inputs' = c.in0 \cup c.in1
        BY <2>1 DEF Inputs
    <2>3. JobCovered'
        BY <2>1, <2>2 DEF JobCovered, Picked
    <2>4. ASSUME ~past.raced PROVE LevelsApart'
        BY <2>1, <2>4 DEF SortedInv, LevelsApart
    <2>5. ASSUME ~past.raced PROVE JobApart'
        <3>1. \A f, g \in levels[n + 1] : f = g \/ Apart(f, g)
            BY <2>5, <1>2 DEF SortedInv, LevelsApart
        <3>2. \A h \in levels[n + 1] \ c.in1 : Apart(h, Entries(c.in0 \cup c.in1))
            BY <1>2, <3>1, InputsApart
        <3> QED
            BY <2>1, <2>2, <3>2 DEF JobApart
    <2> QED
        BY <1>1, <2>3, <2>4, <2>5 DEF SortedInv
<1> QED
    BY <1>3, <1>4

LEMMA SortedWork ==
    ASSUME CompactionAssumption, TypeOK, SortedInv, DoCompactionWork
    PROVE  SortedInv'
<1>1. /\ job.on /\ job.level \in Levels /\ job.level + 1 \in Levels /\ job.level \in Nat
      /\ levels'[job.level] = levels[job.level] \ job.in0
      /\ levels'[job.level + 1] = (levels[job.level + 1] \ job.in1) \cup Outputs
      /\ \A m \in Levels : m # job.level /\ m # job.level + 1 => levels'[m] = levels[m]
      /\ job' = NoJob
    BY WorkStep
<1>2. past' = past
    BY DEF DoCompactionWork
<1>3. JobCovered' /\ JobApart'
    BY <1>1 DEF JobCovered, JobApart, NoJob
<1>4. /\ \A f \in Outputs : f \subseteq Entries(Inputs)
      /\ \A f, g \in Outputs : f = g \/ Apart(f, g)
    BY <1>1, OutputsAre
<1>5. ASSUME ~past.raced PROVE LevelsApart'
    <2>1. SUFFICES ASSUME NEW m \in Levels \ {0}, NEW g \in levels'[m], NEW h \in levels'[m], g # h
                   PROVE  Apart(g, h)
        BY DEF LevelsApart
    <2>2. CASE g \in levels[m] /\ h \in levels[m]
        BY <2>1, <2>2, <1>5 DEF SortedInv, LevelsApart
    <2>3. CASE m = job.level + 1
        <3>1. ASSUME NEW f \in levels[m] \ job.in1, NEW o \in Outputs PROVE Apart(f, o)
            <4>1. Apart(f, Entries(Inputs))
                BY <1>1, <1>5, <2>3, <3>1 DEF SortedInv, JobApart
            <4> QED
                BY <4>1, <1>4 DEF Apart, Precedes
        <3> QED
            BY <2>1, <2>2, <2>3, <3>1, <1>1, <1>4, ApartSymmetric
    <2>4. CASE m # job.level + 1
        BY <2>1, <2>2, <2>4, <1>1
    <2> QED
        BY <2>3, <2>4
<1> QED
    BY <1>2, <1>3, <1>5 DEF SortedInv

LEMMA SortedNext ==
    ASSUME CompactionAssumption, TypeOK, SortedInv, [LevelsNext]_levelsVars
    PROVE  SortedInv'
<1>1. ASSUME levels' = levels, job' = job, past'.raced = past.raced PROVE SortedInv'
    <2>1. Inputs' = Inputs
        BY <1>1 DEF Inputs
    <2>2. JobCovered'
        BY <1>1, <2>1 DEF SortedInv, JobCovered
    <2>3. ASSUME ~past.raced PROVE LevelsApart'
        BY <1>1, <2>3 DEF SortedInv, LevelsApart
    <2>4. ASSUME ~past.raced PROVE JobApart'
        BY <1>1, <2>1, <2>4 DEF SortedInv, JobApart
    <2> QED
        BY <1>1, <2>2, <2>3, <2>4 DEF SortedInv
<1>2. past \in [written : SUBSET Entry, raced : BOOLEAN, separated : BOOLEAN, manual : Nat]
      /\ CallTypeOK
    BY DEF TypeOK
<1>3. ASSUME NEW batch \in Batches, Write(batch) PROVE SortedInv'
    BY <1>1, <1>2, <1>3 DEF Write
<1>4. ASSUME GetSnapshot PROVE SortedInv'
    BY <1>1, <1>4 DEF GetSnapshot
<1>5. ASSUME NEW s \in snaps, ReleaseSnapshot(s) PROVE SortedInv'
    BY <1>1, <1>5 DEF ReleaseSnapshot
<1>6. ASSUME PickCompaction PROVE SortedInv'
    <2>1. PICK n \in 0..(NumLevels - 2) : \E f \in levels[n] :
              Compact(n, SetupOtherInputs(n, Overlapping(n, {f})), FALSE)
        BY <1>6 DEF PickCompaction
    <2>2. PICK f \in levels[n] : Compact(n, SetupOtherInputs(n, Overlapping(n, {f})), FALSE)
        BY <2>1
    <2>3. ~job.on
        BY <1>6 DEF PickCompaction, Idle
    <2>4. Picked(n, SetupOtherInputs(n, Overlapping(n, {f})), FALSE)
        BY <2>1, PickedAutomatic
    <2> QED
        BY <2>2, <2>3, <2>4, SortedCompact
<1>7. ASSUME CompactPart PROVE SortedInv'
    <2> DEFINE n == call.level
               inputs == RangeInputs(n, call.from, call.hi)
               c == SetupOtherInputs(n, inputs)
    <2>1. call.at = "pass" /\ ~job.on
        BY <1>7 DEF CompactPart, Idle
    <2>2. CASE inputs = {}
        BY <1>1, <1>7, <2>2 DEF CompactPart
    <2>3. CASE inputs # {}
        <3>1. Compact(n, c, TRUE)
            BY <1>7, <2>3 DEF CompactPart
        <3>2. n \in Levels /\ n + 1 \in Levels
            BY <1>2, <2>1 DEF CallTypeOK, Levels, CompactionAssumption
        <3>3. Picked(n, c, TRUE)
            BY <2>3, <3>2, PickedManual
        <3> HIDE DEF c
        <3> QED
            BY <2>1, <3>1, <3>3, SortedCompact
    <2> QED
        BY <2>2, <2>3
<1>8. ASSUME NEW lo \in Keys, NEW hi \in Keys, CompactRange(lo, hi) PROVE SortedInv'
    BY <1>1, <1>2, <1>8 DEF CompactRange
<1>9. ASSUME ForceMemTable PROVE SortedInv'
    BY <1>1, <1>9 DEF ForceMemTable
<1>10. ASSUME AwaitFlush PROVE SortedInv'
    BY <1>1, <1>10 DEF AwaitFlush
<1>11. ASSUME UNCHANGED levelsVars PROVE SortedInv'
    BY <1>1, <1>11 DEF levelsVars
<1>12. ASSUME Settled PROVE SortedInv'
    BY <1>11, <1>12 DEF Settled
<1> QED
    BY <1>3, <1>4, <1>5, <1>6, <1>7, <1>8, <1>9, <1>10, <1>11, <1>12, SortedFlush, SortedWork
       DEF LevelsNext, Background

-----------------------------------------------------------------------------
(* Writes, snapshots and memtables keep what reads rely on                   *)

LEMMA InTables ==
    ASSUME NEW e
    PROVE  e \in Tables <=> \E n \in Levels : \E f \in levels[n] : e \in f
BY DEF Tables, Entries

LEMMA WrittenTypes ==
    ASSUME CompactionAssumption, TypeOK
    PROVE  /\ sequence \in Nat /\ snaps \subseteq Nat /\ \A s \in snaps : s <= sequence
           /\ past.written \subseteq Entry
           /\ \A e \in past.written : e.key \in Nat /\ e.seq \in Nat /\ e.seq <= sequence
           /\ tables2.mem \subseteq past.written /\ tables2.imm \subseteq past.written
           /\ Tables \subseteq past.written /\ 0 \in Levels
<1>1. Tables \subseteq past.written
    <2>1. \A n \in Levels : \A f \in levels[n] : f \subseteq past.written
        BY LevelFiles
    <2> QED
        BY <2>1, InTables
<1>2. past.written \subseteq Entry
    BY DEF TypeOK, Sane
<1>3. 0 \in Levels
    BY DEF Levels, CompactionAssumption
<1> QED
    BY <1>1, <1>2, <1>3 DEF TypeOK, Entry

Clean == ~past.raced /\ ~past.separated

(* Nothing that a read depends on has changed, but snapshots.                 *)
LEMMA ReadKept ==
    ASSUME ReadInv, levels' = levels, tables2' = tables2, job' = job, sequence' = sequence,
           snaps' \subseteq snaps \cup {sequence}, past'.written = past.written,
           past'.raced = past.raced, past'.separated = past.separated
    PROVE  ReadInv'
<1>1. Tables' = Tables /\ Remaining' = Remaining /\ Inputs' = Inputs
    BY DEF Tables, Entries, Remaining, Inputs
<1>2. Aged'
    BY <1>1 DEF ReadInv, Aged
<1>3. JobSmallest'
    BY DEF ReadInv, JobSmallest
<1>4. ASSUME Clean PROVE Descend'
    BY <1>4 DEF ReadInv, Descend, Entries, Clean
<1>5. ASSUME Clean PROVE JobAlone'
    BY <1>1, <1>5 DEF ReadInv, JobAlone, Entries, Clean
<1>6. ASSUME Clean PROVE Retained'
    <2>1. SUFFICES ASSUME NEW s \in snaps' \cup {sequence'}, NEW t \in past.written,
                          NewestUpTo(t, s)'
                   PROVE  \/ t \in Remaining
                          \/ t.del /\ \A e \in Remaining : e.key = t.key => e.seq > t.seq
        BY <1>1 DEF Retained
    <2>2. NewestUpTo(t, s)
        BY <2>1 DEF NewestUpTo, Hits
    <2> QED
        BY <1>6, <2>1, <2>2 DEF ReadInv, Retained, Clean
<1> QED
    BY <1>2, <1>3, <1>4, <1>5, <1>6 DEF ReadInv, Clean

LEMMA ReadWrite ==
    ASSUME CompactionAssumption, TypeOK, ReadInv, NEW batch \in Batches, Write(batch)
    PROVE  ReadInv'
<1> DEFINE new == Stamped(batch)
<1>1. /\ Sane(new) /\ Cardinality(batch) \in Nat
      /\ \A e \in new : sequence < e.seq /\ e.seq <= sequence + Cardinality(batch)
    BY StampedAre DEF TypeOK
<1>2. /\ MemTableFull => tables2.imm = {}
      /\ tables2' = IF MemTableFull THEN [mem |-> new, imm |-> tables2.mem]
                    ELSE [tables2 EXCEPT !.mem = @ \cup new]
      /\ sequence' = sequence + Cardinality(batch)
      /\ past' = [past EXCEPT !.written = @ \cup new]
      /\ levels' = levels /\ snaps' = snaps /\ job' = job
    BY DEF Write
<1> HIDE DEF new
<1>3. \A e \in new : e.key \in Nat /\ e.seq \in Nat
    BY <1>1 DEF Sane, Entry
<1>4. /\ past'.written = past.written \cup new
      /\ past'.raced = past.raced /\ past'.separated = past.separated
    BY <1>2 DEF TypeOK
<1>5. /\ tables2.mem \cup tables2.imm \cup new = tables2'.mem \cup tables2'.imm
      /\ tables2'.mem = (IF MemTableFull THEN new ELSE tables2.mem \cup new)
      /\ tables2'.imm = (IF MemTableFull THEN tables2.mem ELSE tables2.imm)
    BY <1>2 DEF TypeOK
<1>6. Tables' = Tables /\ Inputs' = Inputs
    BY <1>2 DEF Tables, Entries, Inputs
<1>7. Remaining' = Remaining \cup new
    BY <1>5, <1>6 DEF Remaining
<1>8. Aged'
    <2>1. ASSUME NEW S \in SUBSET past.written PROVE Newer(new, S)
        BY <1>1, <1>3, WrittenTypes DEF Newer
    <2>2. Newer(tables2.mem, tables2.imm \cup Tables) /\ Newer(tables2.imm, Tables)
        BY DEF ReadInv, Aged
    <2>3. CASE MemTableFull
        <3>1. Newer(new, tables2.mem \cup Tables) /\ Newer(tables2.mem, Tables)
            BY <2>1, <2>2, WrittenTypes DEF Newer
        <3> QED
            BY <1>2, <1>5, <1>6, <2>3, <3>1 DEF ReadInv, Aged
    <2>4. CASE ~MemTableFull
        <3>1. Newer(tables2.mem \cup new, tables2.imm \cup Tables)
            BY <2>1, <2>2, WrittenTypes DEF Newer
        <3> QED
            BY <1>2, <1>5, <1>6, <2>2, <2>4, <3>1 DEF ReadInv, Aged
    <2> QED
        BY <2>3, <2>4
<1>9. JobSmallest'
    <2>1. SUFFICES ASSUME job.on PROVE \A s \in snaps' \cup {sequence'} : job.smallest <= s
        BY <1>2 DEF JobSmallest
    <2>2. \A s \in snaps \cup {sequence} : job.smallest <= s
        BY <2>1 DEF ReadInv, JobSmallest
    <2>3. job.smallest \in Nat /\ sequence \in Nat
        BY DEF TypeOK, JobTypeOK
    <2>4. job.smallest <= sequence /\ sequence <= sequence'
        BY <1>1, <1>2, <2>2, <2>3
    <2>5. sequence' \in Nat
        BY <1>1, <1>2, <2>3
    <2>6. job.smallest <= sequence'
        BY <2>3, <2>4, <2>5
    <2>7. snaps' = snaps
        BY <1>2
    <2> HIDE DEF MemTableFull
    <2> QED
        BY <2>2, <2>6, <2>7
<1>10. ASSUME Clean PROVE Descend'
    BY <1>2, <1>10 DEF ReadInv, Descend, Entries, Clean
<1>11. ASSUME Clean PROVE JobAlone'
    BY <1>2, <1>6, <1>11 DEF ReadInv, JobAlone, Entries, Clean
<1>12. ASSUME Clean PROVE Retained'
    <2>1. SUFFICES ASSUME NEW s \in snaps' \cup {sequence'}, NEW t \in past'.written,
                          NewestUpTo(t, s)'
                   PROVE  \/ t \in Remaining'
                          \/ t.del /\ \A e \in Remaining' : e.key = t.key => e.seq > t.seq
        BY DEF Retained
    <2>2. t.seq <= s /\ \A e \in past'.written : e.key = t.key /\ e.seq <= s => e.seq <= t.seq
        BY <2>1 DEF NewestUpTo, Hits
    <2>3. CASE t \in new
        BY <2>3, <1>7
    <2>4. CASE t \notin new
        <3>1. t \in past.written
            BY <2>4, <1>4
        <3>2. s \in snaps \cup {sequence} \/ s = sequence'
            BY <1>2
        <3>3. PICK r \in snaps \cup {sequence} : NewestUpTo(t, r)
            <4>1. CASE s \in snaps \cup {sequence}
                BY <2>2, <4>1, <1>4 DEF NewestUpTo, Hits
            <4>2. CASE s = sequence'
                <5>1. t.seq <= sequence /\ \A e \in past.written : e.seq <= s
                    BY <3>1, <4>2, <1>1, <1>2, WrittenTypes
                <5>2. NewestUpTo(t, sequence)
                    BY <5>1, <2>2, <1>4 DEF NewestUpTo, Hits
                <5> QED
                    BY <5>2
            <4> QED
                BY <3>2, <4>1, <4>2
        <3>4. \/ t \in Remaining
              \/ t.del /\ \A e \in Remaining : e.key = t.key => e.seq > t.seq
            BY <3>1, <3>3, <1>12 DEF ReadInv, Retained, Clean
        <3>5. \A e \in new : e.seq > t.seq
            BY <1>1, <1>3, <3>1, WrittenTypes
        <3> QED
            BY <3>4, <3>5, <1>7
    <2> QED
        BY <2>3, <2>4
<1> QED
    BY <1>4, <1>8, <1>9, <1>10, <1>11, <1>12 DEF ReadInv, Clean

LEMMA ReadForce ==
    ASSUME CompactionAssumption, TypeOK, ReadInv, ForceMemTable
    PROVE  ReadInv'
<1>1. /\ tables2' = [mem |-> {}, imm |-> tables2.mem] /\ tables2.imm = {}
      /\ levels' = levels /\ sequence' = sequence /\ snaps' = snaps /\ job' = job
      /\ past' = past
    BY DEF ForceMemTable
<1>2. Tables' = Tables /\ Remaining' = Remaining /\ Inputs' = Inputs
    BY <1>1 DEF Tables, Entries, Remaining, Inputs
<1>3. Aged'
    <2>1. Newer(tables2.mem, Tables)
        BY <1>1 DEF ReadInv, Aged, Newer
    <2>2. Newer({}, tables2.mem \cup Tables)
        BY DEF Newer
    <2> QED
        BY <1>1, <1>2, <2>1, <2>2 DEF ReadInv, Aged
<1>4. JobSmallest'
    BY <1>1 DEF ReadInv, JobSmallest
<1>5. ASSUME Clean PROVE Descend'
    BY <1>1, <1>5 DEF ReadInv, Descend, Entries, Clean
<1>6. ASSUME Clean PROVE JobAlone'
    BY <1>1, <1>2, <1>6 DEF ReadInv, JobAlone, Entries, Clean
<1>7. ASSUME Clean PROVE Retained'
    BY <1>1, <1>2, <1>7 DEF ReadInv, Retained, NewestUpTo, Hits, Clean
<1> QED
    BY <1>1, <1>3, <1>4, <1>5, <1>6, <1>7 DEF ReadInv, Clean

(* A flush puts the newest entries that tables have above the others.         *)
LEMMA ReadFlush ==
    ASSUME CompactionAssumption, TypeOK, SortedInv, ReadInv, CompactMemTable
    PROVE  ReadInv'
<1> DEFINE imm == tables2.imm
           L == job.level
<1>1. PICK p \in Levels :
          /\ p \in Nat
          /\ imm \in Files(past.written)
          /\ levels'[p] = levels[p] \cup {imm}
          /\ \A m \in Levels : m # p => levels'[m] = levels[m]
          /\ p > 0 => \A m \in Levels : m <= p =>
                \A f \in levels[m] : ~Touches(f, LowKey(imm), HighKey(imm))
    BY FlushStep
<1>2. /\ job' = job /\ sequence' = sequence /\ snaps' = snaps
      /\ tables2' = [tables2 EXCEPT !.imm = {}]
      /\ past' = [past EXCEPT !.raced = @ \/ job.manual]
    BY DEF CompactMemTable
<1>3. /\ tables2'.mem = tables2.mem /\ tables2'.imm = {} /\ Inputs' = Inputs
      /\ past'.written = past.written /\ past'.separated = past.separated
      /\ past'.raced = (past.raced \/ job.manual)
    BY <1>2 DEF TypeOK, Inputs
<1> HIDE DEF imm, L
<1>4. Tables' = Tables \cup imm
    <2>1. ASSUME NEW e PROVE e \in Tables' <=> e \in Tables \cup imm
        <3>1. e \in Tables' <=> \E n \in Levels : \E f \in levels'[n] : e \in f
            BY DEF Tables, Entries
        <3>2. e \in Tables <=> \E n \in Levels : \E f \in levels[n] : e \in f
            BY InTables
        <3> QED
            BY <3>1, <3>2, <1>1
    <2> QED
        BY <2>1
<1>5. Remaining' = Remaining
    BY <1>3, <1>4 DEF Remaining, imm
<1>6. Newer(tables2.mem, imm \cup Tables) /\ Newer(imm, Tables)
    BY DEF ReadInv, Aged, imm
<1>7. ASSUME NEW n \in Levels, NEW f \in levels[n] PROVE f \subseteq Tables
    BY <1>7 DEF Tables, Entries
<1>8. Aged'
    <2>1. Newer(tables2.mem, {} \cup (Tables \cup imm)) /\ Newer({}, Tables \cup imm)
        BY <1>6 DEF Newer
    <2>2. ASSUME NEW f \in levels'[0], NEW g \in levels'[0]
          PROVE  f = g \/ Newer(f, g) \/ Newer(g, f)
        <3>1. 0 \in Levels
            BY WrittenTypes
        <3>2. \A h \in levels[0] : Newer(imm, h)
            BY <3>1, <1>6, <1>7 DEF Newer
        <3>3. \A h, i \in levels[0] : h = i \/ Newer(h, i) \/ Newer(i, h)
            BY DEF ReadInv, Aged
        <3> QED
            BY <3>1, <3>2, <3>3, <1>1
    <2>3. Newer(tables2'.mem, tables2'.imm \cup Tables') /\ Newer(tables2'.imm, Tables')
        BY <2>1, <1>3, <1>4
    <2> QED
        BY <2>2, <2>3 DEF Aged, Newer
<1>9. JobSmallest'
    BY <1>2 DEF ReadInv, JobSmallest
<1>10. SUFFICES ASSUME Clean' PROVE Descend' /\ JobAlone' /\ Retained'
    BY <1>8, <1>9 DEF ReadInv, Clean
<1>11. Clean /\ ~job.manual
    BY <1>3, <1>10 DEF Clean
<1>12. Sane(imm) /\ imm # {}
    <2>1. Sane(past.written)
        BY DEF TypeOK
    <2> QED
        BY <2>1, <1>1, SaneSubset DEF Files
<1>13. Descend'
    <2>1. SUFFICES ASSUME NEW n \in Levels, NEW m \in Levels, n < m,
                          NEW f \in levels'[n], NEW g \in levels'[m],
                          NEW e \in f, NEW x \in g, e.key = x.key
                   PROVE  e.seq > x.seq
        BY DEF Descend, SameKeyNewer, Entries
    <2>2. CASE f \in levels[n] /\ g \in levels[m]
        BY <2>1, <2>2, <1>11 DEF ReadInv, Descend, SameKeyNewer, Entries, Clean
    <2>3. CASE f \notin levels[n]
        <3>1. n = p /\ f = imm
            BY <2>1, <2>3, <1>1
        <3>2. g \in levels[m]
            BY <3>1, <2>1, <1>1 DEF Levels
        <3>3. x \in Tables
            BY <3>2, <2>1, <1>7
        <3> QED
            BY <3>1, <3>3, <2>1, <1>6 DEF Newer
    <2>4. CASE g \notin levels[m]
        <3>1. m = p /\ g = imm
            BY <2>1, <2>4, <1>1
        <3>2. f \in levels[n]
            BY <3>1, <2>1, <1>1 DEF Levels
        <3>3. p > 0 /\ n <= p
            BY <3>1, <2>1 DEF Levels
        <3>4. ~Touches(f, LowKey(imm), HighKey(imm))
            BY <3>2, <3>3, <1>1
        <3>5. Sane(f) /\ f # {}
            BY <3>2, LevelFiles
        <3>6. NoSharedKey(f, imm)
            BY <3>4, <3>5, <1>12, NotTouching
        <3> QED
            BY <3>1, <3>6, <2>1 DEF NoSharedKey
    <2> QED
        BY <2>2, <2>3, <2>4
<1>14. JobAlone'
    <2>1. SUFFICES ASSUME job.on
          PROVE  /\ SameKeyNewer(Entries(levels'[L] \ job.in0), Entries(job.in0))
                 /\ NoSharedKey(Entries(levels'[L + 1] \ job.in1), Entries(Inputs))
                 /\ \A n \in Levels : n > L + 1 =>
                       \A f \in levels'[n] \ job.deeper : NoSharedKey(f, Entries(Inputs))
        <3>1. Inputs' = Inputs
            BY <1>3
        <3> QED
            BY <3>1, <1>2 DEF JobAlone, Entries, NoSharedKey, SameKeyNewer, L
    <2>2. /\ L \in Nat /\ L + 1 \in Levels /\ L \in Levels
          /\ job.in0 \subseteq levels[L]
        <3>1. L \in Nat /\ L + 1 \in Levels /\ job.in0 \subseteq levels[L]
            BY <2>1 DEF TypeOK, JobTypeOK, L
        <3> QED
            BY <3>1 DEF Levels, CompactionAssumption
    <2>3. /\ SameKeyNewer(Entries(levels[L] \ job.in0), Entries(job.in0))
          /\ NoSharedKey(Entries(levels[L + 1] \ job.in1), Entries(Inputs))
          /\ \A n \in Levels : n > L + 1 =>
                \A f \in levels[n] \ job.deeper : NoSharedKey(f, Entries(Inputs))
        BY <2>1, <1>11 DEF ReadInv, JobAlone, Clean, L
    <2>4. Covered(Inputs)
        BY <2>1, <1>11 DEF SortedInv, JobCovered
    <2>5. ASSUME L + 1 <= p PROVE NoSharedKey(imm, Entries(Inputs))
        <3>1. p > 0
            BY <2>2, <2>5, <1>1
        <3>2. \A m \in Levels : m <= p =>
                  \A f \in levels[m] : ~Touches(f, LowKey(imm), HighKey(imm))
            BY <3>1, <1>1
        <3> QED
            BY <2>1, <2>4, <2>5, <3>2, <1>1, FlushedAway DEF L
    <2>6. SameKeyNewer(Entries(levels'[L] \ job.in0), Entries(job.in0))
        <3>1. SUFFICES ASSUME NEW f \in levels'[L] \ job.in0, NEW g \in job.in0,
                              NEW e \in f, NEW x \in g, e.key = x.key
                       PROVE  e.seq > x.seq
            BY DEF SameKeyNewer, Entries
        <3>2. CASE f \in levels[L]
            BY <3>1, <3>2, <2>3 DEF SameKeyNewer, Entries
        <3>3. CASE f \notin levels[L]
            <4>1. f = imm /\ x \in Tables
                BY <3>1, <3>3, <2>2, <1>1, <1>7
            <4> QED
                BY <4>1, <3>1, <1>6 DEF Newer
        <3> QED
            BY <3>2, <3>3
    <2>7. NoSharedKey(Entries(levels'[L + 1] \ job.in1), Entries(Inputs))
        <3>1. SUFFICES ASSUME NEW f \in levels'[L + 1] \ job.in1
                       PROVE  NoSharedKey(f, Entries(Inputs))
            BY DEF NoSharedKey, Entries
        <3>2. CASE f \in levels[L + 1]
            BY <3>1, <3>2, <2>3 DEF NoSharedKey, Entries
        <3>3. CASE f \notin levels[L + 1]
            <4>1. f = imm /\ p = L + 1
                BY <3>1, <3>3, <2>2, <1>1
            <4> QED
                BY <4>1, <2>2, <2>5
        <3> QED
            BY <3>2, <3>3
    <2>8. ASSUME NEW n \in Levels, n > L + 1, NEW f \in levels'[n] \ job.deeper
          PROVE  NoSharedKey(f, Entries(Inputs))
        <3>1. CASE f \in levels[n]
            BY <3>1, <2>3, <2>8
        <3>2. CASE f \notin levels[n]
            <4>1. f = imm /\ p = n
                BY <3>2, <2>8, <1>1
            <4>2. L + 1 <= p
                BY <4>1, <2>2, <2>8, <1>1
            <4> QED
                BY <4>1, <4>2, <2>5
        <3> QED
            BY <3>1, <3>2
    <2> QED
        BY <2>6, <2>7, <2>8
<1>15. Retained'
    <2>1. Retained
        BY <1>11 DEF ReadInv, Clean
    <2> QED
        BY <2>1, <1>2, <1>3, <1>5 DEF Retained, NewestUpTo, Hits
<1> QED
    BY <1>13, <1>14, <1>15

(* A compaction begins: it moves a file below, or takes the inputs of a job.   *)
LEMMA ReadCompact ==
    ASSUME CompactionAssumption, TypeOK, ReadInv, ~job.on,
           NEW n, NEW c, NEW manual \in BOOLEAN,
           Picked(n, c, manual), Compact(n, c, manual)
    PROVE  ReadInv'
<1>1. /\ tables2' = tables2 /\ sequence' = sequence /\ snaps' = snaps
      /\ past' = [past EXCEPT !.separated = @ \/ Separates(n, c)]
    BY DEF Compact
<1>2. /\ past'.written = past.written /\ past'.raced = past.raced
      /\ past'.separated = (past.separated \/ Separates(n, c))
    BY <1>1 DEF TypeOK
<1>3. n \in Levels /\ n + 1 \in Levels /\ InputsOf(n, c) /\ n \in Nat
      /\ (n = 0 => Closed(c.in0))
    BY DEF Picked, Levels
<1>4. ASSUME ~Separates(n, c)
      PROVE  /\ NoSharedKey(Entries(levels[n] \ c.in0), Entries(c.in0))
             /\ NoSharedKey(Entries(levels[n + 1] \ c.in1), Entries(c.in0 \cup c.in1))
    BY <1>3, <1>4, InputsAlone
<1>5. CASE Moves(c, manual)
    <2>1. c.in1 = {} /\ job' = job
        BY <1>5, MoveStep
    <2>2. PICK f \in levels[n] :
              /\ c.in0 = {f}
              /\ levels'[n] = levels[n] \ {f} /\ levels'[n + 1] = levels[n + 1] \cup {f}
              /\ \A m \in Levels : m # n /\ m # n + 1 => levels'[m] = levels[m]
        BY <1>5, MoveStep
    <2>3. Tables' = Tables
        <3>1. ASSUME NEW e PROVE e \in Tables' <=> e \in Tables
            <4>1. e \in Tables' <=> \E m \in Levels : \E g \in levels'[m] : e \in g
                BY DEF Tables, Entries
            <4>2. e \in Tables <=> \E m \in Levels : \E g \in levels[m] : e \in g
                BY InTables
            <4>3. ASSUME NEW m \in Levels, NEW g \in levels'[m]
                  PROVE  \E i \in Levels : g \in levels[i]
                BY <4>3, <2>2, <1>3
            <4>4. ASSUME NEW m \in Levels, NEW g \in levels[m]
                  PROVE  \E i \in Levels : g \in levels'[i]
                <5>1. CASE g = f
                    BY <5>1, <2>2, <1>3
                <5>2. CASE g # f
                    BY <4>4, <5>2, <2>2, <1>3
                <5> QED
                    BY <5>1, <5>2
            <4> QED
                BY <4>1, <4>2, <4>3, <4>4
        <3> QED
            BY <3>1
    <2>4. levels'[0] \subseteq levels[0]
        <3>1. 0 \in Levels /\ n + 1 # 0
            BY <1>3, WrittenTypes
        <3> QED
            BY <3>1, <2>2
    <2>5. Aged'
        <3>1. \A g, h \in levels'[0] : g = h \/ Newer(g, h) \/ Newer(h, g)
            BY <2>4 DEF ReadInv, Aged
        <3> QED
            BY <3>1, <2>3, <1>1 DEF ReadInv, Aged, Newer
    <2>6. JobSmallest' /\ JobAlone'
        BY <2>1 DEF JobSmallest, JobAlone
    <2>7. ASSUME Clean' PROVE Descend' /\ Retained'
        <3>1. Clean /\ ~Separates(n, c)
            BY <2>7, <1>2 DEF Clean
        <3>2. Retained'
            <4>1. Remaining' = Remaining
                BY <2>3, <1>1 DEF Remaining
            <4> QED
                BY <3>1, <4>1, <1>1, <1>2 DEF ReadInv, Clean, Retained, NewestUpTo, Hits
        <3>3. Descend'
            <4>1. SUFFICES ASSUME NEW a \in Levels, NEW b \in Levels, a < b,
                                  NEW g \in levels'[a], NEW h \in levels'[b],
                                  NEW e \in g, NEW x \in h, e.key = x.key
                           PROVE  e.seq > x.seq
                BY DEF Descend, SameKeyNewer, Entries
            <4>2. ASSUME NEW i \in Levels, NEW j \in Levels, i < j, g \in levels[i], h \in levels[j]
                  PROVE  e.seq > x.seq
                BY <4>1, <4>2, <3>1 DEF ReadInv, Clean, Descend, SameKeyNewer, Entries
            <4>3. a \in Int /\ b \in Int
                BY DEF Levels
            <4>4. CASE g \in levels[a] /\ h \in levels[b]
                BY <4>1, <4>2, <4>4
            <4>5. CASE g \notin levels[a]
                <5>1. g = f /\ a = n + 1
                    BY <4>1, <4>5, <2>2, <1>3
                <5>2. h \in levels[b] /\ n < b
                    BY <5>1, <4>1, <4>3, <2>2, <1>3
                <5> QED
                    BY <5>1, <5>2, <4>2, <1>3
            <4>6. CASE g \in levels[a] /\ h \notin levels[b]
                <5>1. h = f /\ b = n + 1
                    BY <4>1, <4>6, <2>2, <1>3
                <5>2. CASE a < n
                    BY <5>1, <5>2, <4>2, <4>6, <1>3
                <5>3. CASE a = n
                    <6>1. g \in levels[n] \ c.in0 /\ h \in c.in0
                        BY <5>1, <5>3, <4>1, <2>2
                    <6> QED
                        BY <6>1, <4>1, <3>1, <1>4 DEF NoSharedKey, Entries
                <5> QED
                    BY <5>1, <5>2, <5>3, <4>1, <4>3, <1>3
            <4> QED
                BY <4>4, <4>5, <4>6
        <3> QED
            BY <3>2, <3>3
    <2> QED
        BY <2>5, <2>6, <2>7 DEF ReadInv, Clean
<1>6. CASE ~Moves(c, manual)
    <2>1. /\ levels' = levels
          /\ job'.on /\ job'.level = n /\ job'.smallest = SmallestSnapshot
          /\ job'.in0 = c.in0 /\ job'.in1 = c.in1
          /\ job'.deeper = UNION {levels[m] : m \in (n + 2)..(NumLevels - 1)}
        <3>1. /\ levels' = levels
              /\ job' \in [on : {TRUE}, manual : {manual}, level : {n}, in0 : {c.in0},
                           in1 : {c.in1}, deeper : SUBSET Files(past.written),
                           grand : SUBSET Files(past.written), smallest : {SmallestSnapshot}]
              /\ job'.deeper = UNION {levels[m] : m \in (n + 2)..(NumLevels - 1)}
            BY <1>6, StartStep
        <3> QED
            BY <3>1
    <2>2. Inputs' = c.in0 \cup c.in1 /\ Tables' = Tables /\ Remaining' = Remaining
        BY <2>1, <1>1 DEF Inputs, Tables, Remaining, Entries
    <2>3. Aged'
        BY <2>1, <2>2, <1>1 DEF ReadInv, Aged
    <2>4. JobSmallest'
        BY <2>1, <1>1, OldestSnapshot DEF JobSmallest
    <2>5. ASSUME Clean' PROVE Descend' /\ JobAlone' /\ Retained'
        <3>1. Clean /\ ~Separates(n, c)
            BY <2>5, <1>2 DEF Clean
        <3>2. Descend'
            BY <3>1, <2>1 DEF ReadInv, Clean, Descend, Entries
        <3>3. Retained'
            BY <3>1, <2>2, <1>1, <1>2 DEF ReadInv, Clean, Retained, NewestUpTo, Hits
        <3>4. SameKeyNewer(Entries(levels[n] \ c.in0), Entries(c.in0))
            BY <3>1, <1>4 DEF NoSharedKey, SameKeyNewer
        <3>5. NoSharedKey(Entries(levels[n + 1] \ c.in1), Entries(c.in0 \cup c.in1))
            BY <3>1, <1>4
        <3>6. ASSUME NEW m \in Levels, m > n + 1, NEW f \in levels[m] \ job'.deeper PROVE FALSE
            <4>1. m \in (n + 2)..(NumLevels - 1)
                BY <3>6, <1>3 DEF Levels, CompactionAssumption
            <4> QED
                BY <4>1, <3>6, <2>1
        <3>7. JobAlone'
            <4>1. \A m \in Levels : m > n + 1 =>
                      \A f \in levels[m] \ job'.deeper : NoSharedKey(f, Entries(c.in0 \cup c.in1))
                BY <3>6
            <4> QED
                BY <4>1, <3>4, <3>5, <2>1, <2>2 DEF JobAlone, Entries, NoSharedKey, SameKeyNewer
        <3> QED
            BY <3>2, <3>3, <3>7
    <2> QED
        BY <2>3, <2>4, <2>5 DEF ReadInv, Clean
<1> QED
    BY <1>5, <1>6

(* A job ends: what it dropped was hidden from every reader, or a deletion with *)
(* nothing older left to hide.                                               *)
LEMMA ReadWork ==
    ASSUME CompactionAssumption, TypeOK, ReadInv, DoCompactionWork
    PROVE  ReadInv'
<1> DEFINE L == job.level
           all == Entries(Inputs)
<1>1. /\ job.on /\ L \in Levels /\ L + 1 \in Levels /\ L \in Nat
      /\ levels'[L] = levels[L] \ job.in0
      /\ levels'[L + 1] = (levels[L + 1] \ job.in1) \cup Outputs
      /\ \A m \in Levels : m # L /\ m # L + 1 => levels'[m] = levels[m]
      /\ job' = NoJob
    BY WorkStep
<1>2. tables2' = tables2 /\ sequence' = sequence /\ snaps' = snaps /\ past' = past
    BY DEF DoCompactionWork
<1>3. /\ \A f \in Outputs : f # {} /\ f \subseteq all
      /\ \A e \in all : Kept(e, all) <=> e \in Entries(Outputs)
    BY <1>1, OutputsAre
<1>4. /\ job.in0 \subseteq levels[L] /\ job.in1 \subseteq levels[L + 1]
      /\ job.smallest \in Nat
    BY <1>1 DEF TypeOK, JobTypeOK
<1>5. all \subseteq past.written
    BY <1>1, InputFiles
<1>6. \A e \in all : \/ \E f \in job.in0 : e \in f
                     \/ \E f \in job.in1 : e \in f
    BY DEF Entries, Inputs
<1> HIDE DEF L, all
<1>7. \A m \in Levels : \A f \in levels'[m] :
          f \in levels[m] \/ (m = L + 1 /\ f \in Outputs)
    BY <1>1
<1>8. \A e \in all : \E m \in {L, L + 1} : \E f \in levels[m] : e \in f
    BY <1>4, <1>6
<1>9. ASSUME NEW e PROVE e \in Tables' <=> \E m \in Levels : \E f \in levels'[m] : e \in f
    BY DEF Tables, Entries
<1>10. Tables' \subseteq Tables
    <2>1. ASSUME NEW e, NEW m \in Levels, NEW f \in levels'[m], e \in f
          PROVE  \E i \in Levels : \E g \in levels[i] : e \in g
        <3>1. CASE f \in levels[m]
            BY <2>1, <3>1
        <3>2. CASE f \in Outputs
            <4>1. e \in all
                BY <2>1, <3>2, <1>3
            <4> QED
                BY <4>1, <1>1, <1>8
        <3> QED
            BY <2>1, <3>1, <3>2, <1>7
    <2> QED
        BY <2>1, <1>9, InTables
<1>11. ASSUME NEW e \in Tables, e \notin Tables' PROVE e \in all /\ ~Kept(e, all)
    <2>1. PICK m \in Levels : \E g \in levels[m] : e \in g
        BY <1>11, InTables
    <2>2. PICK f \in levels[m] : e \in f
        BY <2>1
    <2>3. f \notin levels'[m]
        BY <2>2, <1>9, <1>11
    <2>4. f \in Inputs
        BY <2>3, <1>1 DEF Inputs
    <2>5. e \in all
        BY <2>2, <2>4 DEF all, Entries
    <2>6. e \notin Entries(Outputs)
        BY <1>1, <1>9, <1>11 DEF Entries
    <2> QED
        BY <2>5, <2>6, <1>3
<1>12. Remaining' \subseteq Remaining
    BY <1>2, <1>10 DEF Remaining
<1>13. Aged'
    <2>1. levels'[0] \subseteq levels[0]
        <3>1. 0 \in Levels /\ L + 1 # 0
            BY <1>1, WrittenTypes
        <3> QED
            BY <3>1, <1>1
    <2>2. \A g, h \in levels'[0] : g = h \/ Newer(g, h) \/ Newer(h, g)
        BY <2>1 DEF ReadInv, Aged
    <2> QED
        BY <2>2, <1>2, <1>10 DEF ReadInv, Aged, Newer
<1>14. JobSmallest' /\ JobAlone'
    BY <1>1 DEF JobSmallest, JobAlone, NoJob
<1>15. SUFFICES ASSUME Clean PROVE Descend' /\ Retained'
    BY <1>2, <1>13, <1>14 DEF ReadInv, Clean
<1>16. /\ SameKeyNewer(Entries(levels[L] \ job.in0), Entries(job.in0))
       /\ NoSharedKey(Entries(levels[L + 1] \ job.in1), all)
       /\ \A n \in Levels : n > L + 1 =>
             \A f \in levels[n] \ job.deeper : NoSharedKey(f, all)
    BY <1>1, <1>15 DEF ReadInv, JobAlone, Clean, L, all
<1>17. ASSUME NEW i \in Levels, NEW j \in Levels, i < j,
              NEW g \in levels[i], NEW h \in levels[j], NEW e \in g, NEW x \in h, e.key = x.key
       PROVE  e.seq > x.seq
    BY <1>15, <1>17 DEF ReadInv, Clean, Descend, SameKeyNewer, Entries
<1>18. ASSUME NEW n \in Levels, n <= L, NEW g \in levels'[n], NEW e \in g, NEW x \in all,
              e.key = x.key
       PROVE  e.seq > x.seq
    <2>1. g \in levels[n] /\ n \in Int /\ n < L + 1
        BY <1>1, <1>7, <1>18 DEF Levels
    <2>2. CASE \E f \in job.in1 : x \in f
        BY <2>1, <2>2, <1>1, <1>4, <1>17, <1>18
    <2>3. CASE \E f \in job.in0 : x \in f
        <3>1. CASE n < L
            BY <2>1, <2>3, <3>1, <1>1, <1>4, <1>17, <1>18
        <3>2. CASE n = L
            <4>1. g \in levels[L] \ job.in0
                BY <3>2, <1>1, <1>18
            <4> QED
                BY <2>3, <4>1, <1>16, <1>18 DEF SameKeyNewer, Entries
        <3> QED
            BY <3>1, <3>2, <2>1, <1>1, <1>18
    <2> QED
        BY <2>2, <2>3, <1>6, <1>18
<1>19. Descend'
    <2>1. SUFFICES ASSUME NEW n \in Levels, NEW m \in Levels, n < m,
                          NEW g \in levels'[n], NEW h \in levels'[m],
                          NEW e \in g, NEW x \in h, e.key = x.key
                   PROVE  e.seq > x.seq
        BY DEF Descend, SameKeyNewer, Entries
    <2>2. n \in Int /\ m \in Int
        BY DEF Levels
    <2>3. CASE g \in levels[n] /\ h \in levels[m]
        BY <2>1, <2>3, <1>17
    <2>4. CASE m = L + 1 /\ h \in Outputs
        <3>1. n <= L /\ x \in all
            BY <2>1, <2>2, <2>4, <1>1, <1>3
        <3> QED
            BY <3>1, <2>1, <1>18
    <2>5. CASE n = L + 1 /\ g \in Outputs
        <3>1. h \in levels[m] /\ L < m /\ L + 1 < m
            BY <2>1, <2>2, <2>5, <1>1
        <3>2. e \in all
            BY <2>1, <2>5, <1>3
        <3>3. PICK i \in {L, L + 1} : \E f \in levels[i] : e \in f
            BY <3>2, <1>8
        <3>4. i \in Levels /\ i < m
            BY <3>1, <3>3, <1>1
        <3> QED
            BY <3>1, <3>3, <3>4, <2>1, <1>17
    <2> QED
        BY <2>1, <2>3, <2>4, <2>5, <1>7
<1>20. Retained'
    <2>1. SUFFICES ASSUME NEW s \in snaps \cup {sequence}, NEW t \in past.written,
                          NewestUpTo(t, s)
                   PROVE  \/ t \in Remaining'
                          \/ t.del /\ \A e \in Remaining' : e.key = t.key => e.seq > t.seq
        BY <1>2 DEF Retained, NewestUpTo, Hits
    <2>2. \/ t \in Remaining
          \/ t.del /\ \A e \in Remaining : e.key = t.key => e.seq > t.seq
        BY <2>1, <1>15 DEF ReadInv, Clean, Retained
    <2>3. SUFFICES ASSUME t \in Tables, t \notin Tables'
                   PROVE  t.del /\ \A e \in Remaining' : e.key = t.key => e.seq > t.seq
        BY <2>2, <1>2, <1>12 DEF Remaining
    <2>4. t \in all /\ ~Kept(t, all)
        BY <2>3, <1>11
    <2>5. t.key \in Nat /\ t.seq \in Nat /\ s \in Nat
        BY WrittenTypes
    <2>6. ~Hidden(t, all)
        <3>1. SUFFICES ASSUME NEW f \in all, f.key = t.key, f.seq > t.seq, f.seq <= job.smallest
                       PROVE  FALSE
            BY DEF Hidden
        <3>2. job.smallest <= s
            BY <1>1 DEF ReadInv, JobSmallest
        <3>3. f \in past.written /\ f.seq \in Nat
            BY <1>5, WrittenTypes
        <3>4. f.seq <= s
            BY <3>1, <3>2, <3>3, <2>5, <1>4
        <3>5. f.seq <= t.seq
            BY <3>1, <3>3, <3>4, <2>1 DEF NewestUpTo, Hits
        <3> QED
            BY <3>1, <3>3, <3>5, <2>5
    <2>7. t.del /\ t.seq <= job.smallest /\ IsBaseLevelForKey(t.key)
        BY <2>4, <2>6 DEF Kept, Obsolete
    <2>8. SUFFICES ASSUME NEW e \in Remaining', e.key = t.key PROVE e.seq > t.seq
        BY <2>7
    <2>9. e \in past.written /\ e.key \in Nat /\ e.seq \in Nat
        BY <1>12, WrittenTypes DEF Remaining
    <2>10. CASE e \in tables2.mem \cup tables2.imm
        BY <2>3, <2>10 DEF ReadInv, Aged, Newer
    <2>11. CASE e \in Tables'
        <3>1. PICK n \in Levels : \E f \in levels'[n] : e \in f
            BY <2>11, <1>9
        <3>2. PICK f \in levels'[n] : e \in f
            BY <3>1
        <3>3. n \in Int
            BY DEF Levels
        <3>4. CASE n <= L
            BY <3>2, <3>4, <2>4, <2>8, <1>18
        <3>5. CASE n = L + 1 /\ f \notin Outputs
            <4>1. f \in levels[L + 1] \ job.in1
                BY <3>2, <3>5, <1>1
            <4> QED
                BY <3>2, <4>1, <2>4, <2>8, <1>16 DEF NoSharedKey, Entries
        <3>6. CASE n > L + 1
            <4>1. f \in levels[n]
                BY <3>2, <3>3, <3>6, <1>1
            <4>2. CASE f \in job.deeper
                <5>1. Sane(f) /\ f # {}
                    BY <4>1, LevelFiles
                <5>2. LowKey(f) <= e.key /\ e.key <= HighKey(f)
                    BY <5>1, <3>2, Span
                <5> QED
                    BY <4>2, <5>2, <2>7, <2>8 DEF IsBaseLevelForKey
            <4>3. CASE f \notin job.deeper
                BY <4>1, <4>3, <3>2, <3>6, <2>4, <2>8, <1>16 DEF NoSharedKey
            <4> QED
                BY <4>2, <4>3
        <3>7. CASE f \in Outputs
            <4>1. e \in all /\ Kept(e, all)
                BY <3>2, <3>7, <1>3 DEF Entries
            <4>2. ~(t.seq > e.seq)
                BY <4>1, <2>4, <2>7, <2>8 DEF Kept, Hidden
            <4>3. t.seq # e.seq
                <5>1. CASE t = e
                    BY <5>1, <4>1, <2>4
                <5>2. CASE t # e
                    BY <5>2, <2>1, <2>8, <2>9 DEF TypeOK, Sane
                <5> QED
                    BY <5>1, <5>2
            <4> QED
                BY <4>2, <4>3, <2>5, <2>9
        <3> QED
            BY <3>2, <3>3, <3>4, <3>5, <3>6, <3>7, <1>1, <1>7
    <2> QED
        BY <2>8, <2>10, <2>11, <1>2 DEF Remaining
<1> QED
    BY <1>19, <1>20

LEMMA ReadNext ==
    ASSUME CompactionAssumption, TypeOK, SortedInv, ReadInv, [LevelsNext]_levelsVars
    PROVE  ReadInv'
<1>1. /\ past \in [written : SUBSET Entry, raced : BOOLEAN, separated : BOOLEAN, manual : Nat]
      /\ CallTypeOK
    BY DEF TypeOK
<1>2. ASSUME NEW batch \in Batches, Write(batch) PROVE ReadInv'
    BY <1>2, ReadWrite
<1>3. ASSUME GetSnapshot PROVE ReadInv'
    BY <1>3, ReadKept DEF GetSnapshot
<1>4. ASSUME NEW s \in snaps, ReleaseSnapshot(s) PROVE ReadInv'
    BY <1>4, ReadKept DEF ReleaseSnapshot
<1>5. ASSUME PickCompaction PROVE ReadInv'
    <2>1. PICK n \in 0..(NumLevels - 2) : \E f \in levels[n] :
              Compact(n, SetupOtherInputs(n, Overlapping(n, {f})), FALSE)
        BY <1>5 DEF PickCompaction
    <2>2. PICK f \in levels[n] : Compact(n, SetupOtherInputs(n, Overlapping(n, {f})), FALSE)
        BY <2>1
    <2>3. ~job.on
        BY <1>5 DEF PickCompaction, Idle
    <2>4. Picked(n, SetupOtherInputs(n, Overlapping(n, {f})), FALSE)
        BY <2>1, PickedAutomatic
    <2> QED
        BY <2>2, <2>3, <2>4, ReadCompact
<1>6. ASSUME CompactPart PROVE ReadInv'
    <2> DEFINE n == call.level
               inputs == RangeInputs(n, call.from, call.hi)
               c == SetupOtherInputs(n, inputs)
    <2>1. call.at = "pass" /\ ~job.on
        BY <1>6 DEF CompactPart, Idle
    <2>2. CASE inputs = {}
        BY <1>6, <2>2, ReadKept DEF CompactPart
    <2>3. CASE inputs # {}
        <3>1. Compact(n, c, TRUE)
            BY <1>6, <2>3 DEF CompactPart
        <3>2. n \in Levels /\ n + 1 \in Levels
            BY <1>1, <2>1 DEF CallTypeOK, Levels, CompactionAssumption
        <3>3. Picked(n, c, TRUE)
            BY <2>3, <3>2, PickedManual
        <3> HIDE DEF c
        <3> QED
            BY <2>1, <3>1, <3>3, ReadCompact
    <2> QED
        BY <2>2, <2>3
<1>7. ASSUME NEW lo \in Keys, NEW hi \in Keys, CompactRange(lo, hi) PROVE ReadInv'
    BY <1>1, <1>7, ReadKept DEF CompactRange
<1>8. ASSUME ForceMemTable PROVE ReadInv'
    BY <1>8, ReadForce
<1>9. ASSUME AwaitFlush PROVE ReadInv'
    BY <1>9, ReadKept DEF AwaitFlush
<1>10. ASSUME UNCHANGED levelsVars PROVE ReadInv'
    BY <1>10, ReadKept DEF levelsVars
<1>11. ASSUME Settled PROVE ReadInv'
    BY <1>10, <1>11 DEF Settled
<1> QED
    BY <1>2, <1>3, <1>4, <1>5, <1>6, <1>7, <1>8, <1>9, <1>10, <1>11, ReadFlush, ReadWork
       DEF LevelsNext, Background

LEMMA InvAtStart ==
    ASSUME CompactionAssumption, LevelsInit
    PROVE  Inv
<1>1. /\ levels = [n \in Levels |-> {}] /\ tables2 = [mem |-> {}, imm |-> {}]
      /\ ~job.on /\ past.written = {}
    BY DEF LevelsInit, NoJob
<1>2. SortedInv
    BY <1>1 DEF SortedInv, JobCovered, LevelsApart, JobApart
<1>3. 0 \in Levels
    BY DEF Levels, CompactionAssumption
<1>4. Tables = {}
    BY <1>1 DEF Tables, Entries
<1>5. Aged
    BY <1>1, <1>3, <1>4 DEF Aged, Newer
<1>6. Descend
    BY <1>1 DEF Descend, SameKeyNewer, Entries
<1>7. JobSmallest /\ JobAlone /\ Retained
    BY <1>1 DEF JobSmallest, JobAlone, Retained
<1> QED
    BY <1>2, <1>5, <1>6, <1>7, TypeAtStart DEF Inv, ReadInv

LEMMA InvNext ==
    ASSUME CompactionAssumption, Inv, [LevelsNext]_levelsVars
    PROVE  Inv'
BY TypeNext, SortedNext, ReadNext DEF Inv

-----------------------------------------------------------------------------
(* Finding the newest version of a key                                       *)

NewestHit(h, S, k, s) == h \in Hits(S, k, s) /\ \A x \in Hits(S, k, s) : x.seq <= h.seq

LEMMA HitsHaveNewest ==
    ASSUME CompactionAssumption, TypeOK, NEW S \in SUBSET past.written, NEW k, NEW s,
           Hits(S, k, s) # {}
    PROVE  NewestHit(Newest(Hits(S, k, s)), S, k, s)
<1>1. Sane(past.written) /\ Hits(S, k, s) \in SUBSET past.written
    BY DEF TypeOK, Hits
<1>2. Sane(Hits(S, k, s))
    BY <1>1, SaneSubset
<1> QED
    BY <1>2, Ends DEF NewestHit

LEMMA OneNewest ==
    ASSUME CompactionAssumption, TypeOK, NEW S \in SUBSET past.written, NEW k, NEW s,
           NEW h, NEW x, NewestHit(h, S, k, s), NewestHit(x, S, k, s)
    PROVE  h = x
<1>1. h \in past.written /\ x \in past.written /\ h.key = x.key
      /\ h.seq <= x.seq /\ x.seq <= h.seq
    BY DEF NewestHit, Hits
<1>2. h.seq \in Nat /\ x.seq \in Nat
    BY <1>1, WrittenTypes
<1>3. h.seq = x.seq
    BY <1>1, <1>2
<1> QED
    BY <1>1, <1>3 DEF TypeOK, Sane

(* Files that lie apart have a first one.                                    *)
LEMMA FirstFile ==
    ASSUME TypeOK, NEW n \in Levels, NEW F \in SUBSET levels[n], F # {},
           \A f, g \in F : f = g \/ Apart(f, g)
    PROVE  First(F) \in F /\ \A g \in F : First(F) = g \/ Before(Smallest(First(F)), Smallest(g))
<1>1. Sane(past.written) /\ F \in SUBSET Files(past.written)
    BY LevelFiles
<1>2. Sane(Entries(F)) /\ Entries(F) # {} /\ Entries(F) \subseteq Entry
    <2>1. Sane(Entries(F)) /\ Entries(F) # {}
        BY <1>1, Hull
    <2> QED
        BY <2>1 DEF Sane
<1>3. PICK e \in Entries(F) : \A x \in Entries(F) : e = x \/ Before(e, x)
    BY <1>2, Ends
<1>4. PICK f \in F : e \in f
    BY DEF Entries
<1>5. \A g \in F : Smallest(g) \in g /\ Smallest(g) \in Entries(F)
    BY LevelFiles, Ends DEF Entries
<1>6. ASSUME NEW g \in F, g # f PROVE Before(Smallest(f), Smallest(g))
    <2>1. ~Before(Smallest(g), e)
        BY <1>2, <1>3, <1>5, BeforeOrder
    <2>2. ~Precedes(g, f)
        BY <2>1, <1>4, <1>5 DEF Precedes
    <2>3. Precedes(f, g)
        BY <2>2, <1>6 DEF Apart
    <2> QED
        BY <2>3, <1>5 DEF Precedes
<1>7. \E i \in F : \A g \in F : i = g \/ Before(Smallest(i), Smallest(g))
    BY <1>6
<1> QED
    BY <1>7 DEF First

(* Above level 0: FindFile finds the file with the newest hit of its level.   *)
LEMMA FindFileFinds ==
    ASSUME CompactionAssumption, TypeOK, LevelsApart, NEW n \in Levels \ {0},
           NEW k \in Nat, NEW s \in Nat
    PROVE  /\ FindFile(n, k, s) \subseteq Entries(levels[n])
           /\ \A h : NewestHit(h, Entries(levels[n]), k, s) => h \in FindFile(n, k, s)
<1> DEFINE sought == [key |-> k, seq |-> s]
           ahead == {f \in levels[n] : ~Before(Largest(f), sought)}
<1>1. FindFile(n, k, s) = IF ahead = {} THEN {} ELSE First(ahead)
    BY DEF FindFile
<1>2. \A f \in ahead : f \in levels[n] /\ ~Before(Largest(f), sought)
    OBVIOUS
<1>3. \A f \in levels[n] : ~Before(Largest(f), sought) => f \in ahead
    OBVIOUS
<1>4. sought.key = k /\ sought.seq = s
    OBVIOUS
<1> HIDE DEF ahead, sought
<1>5. \A f, g \in levels[n] : f = g \/ Apart(f, g)
    BY DEF LevelsApart
<1>6. ASSUME ahead # {}
      PROVE  /\ First(ahead) \in ahead
             /\ \A g \in ahead : First(ahead) = g \/ Before(Smallest(First(ahead)), Smallest(g))
    <2>1. ahead \in SUBSET levels[n]
        BY <1>2
    <2>2. \A f, g \in ahead : f = g \/ Apart(f, g)
        BY <1>2, <1>5
    <2> QED
        BY <1>6, <2>1, <2>2, FirstFile
<1>7. FindFile(n, k, s) \subseteq Entries(levels[n])
    BY <1>1, <1>2, <1>6 DEF Entries
<1>8. ASSUME NEW f \in levels[n]
      PROVE  /\ Largest(f) \in f /\ \A e \in f : Largest(f) = e \/ Before(e, Largest(f))
             /\ Smallest(f) \in f /\ f \subseteq Entry
    <2>1. Sane(f) /\ f # {}
        BY LevelFiles
    <2> QED
        BY <2>1, Ends DEF Sane
<1>9. ASSUME NEW h, NewestHit(h, Entries(levels[n]), k, s)
      PROVE  h \in FindFile(n, k, s)
    <2>1. /\ h \in Entries(levels[n]) /\ h.key = k /\ h.seq <= s
          /\ \A x \in Entries(levels[n]) : x.key = k /\ x.seq <= s => x.seq <= h.seq
        BY <1>9 DEF NewestHit, Hits
    <2>2. PICK f \in levels[n] : h \in f
        BY <2>1 DEF Entries
    <2>3. h \in Entry /\ Largest(f) \in Entry /\ (Largest(f) = h \/ Before(h, Largest(f)))
        BY <1>8, <2>2
    <2>4. ~Before(Largest(f), sought)
        BY <2>1, <2>3, <1>4 DEF Before, Entry
    <2>5. f \in ahead
        BY <2>2, <2>4, <1>3
    <2> DEFINE g == First(ahead)
    <2>6. g \in ahead /\ (g = f \/ Before(Smallest(g), Smallest(f)))
        BY <1>6, <2>5
    <2> HIDE DEF g
    <2>7. g \in levels[n] /\ Largest(g) \in g /\ g \subseteq Entry
          /\ ~Before(Largest(g), sought) /\ Largest(g) \in Entries(levels[n])
        BY <2>6, <1>2, <1>8 DEF Entries
    <2>8. ~Before(Largest(g), h)
        <3>1. SUFFICES ASSUME Before(Largest(g), h) PROVE FALSE
            OBVIOUS
        <3>2. Largest(g) \in Entry
            BY <2>7
        <3>3. Largest(g).key = k /\ Largest(g).seq <= s /\ Largest(g).seq > h.seq
            BY <3>1, <3>2, <2>1, <2>3, <2>7, <1>4 DEF Before, Entry
        <3>4. Largest(g).seq <= h.seq
            BY <3>3, <2>1, <2>7
        <3> QED
            BY <3>2, <3>3, <3>4, <2>3 DEF Entry
    <2>9. ~Precedes(g, f)
        BY <2>2, <2>7, <2>8 DEF Precedes
    <2>10. g = f
        <3>1. SUFFICES ASSUME g # f PROVE FALSE
            OBVIOUS
        <3>2. Precedes(f, g)
            BY <3>1, <2>2, <2>7, <2>9, <1>5 DEF Apart
        <3>3. Before(Smallest(f), Smallest(g)) /\ Before(Smallest(g), Smallest(f))
            BY <3>1, <3>2, <2>2, <2>6, <2>7, <1>8 DEF Precedes
        <3> QED
            BY <3>3, <2>2, <2>7, <1>8, BeforeOrder
    <2> QED
        BY <2>2, <2>5, <2>10, <1>1 DEF g
<1> QED
    BY <1>7, <1>9

(* In level 0 the newest of the files that have the key has its newest hit.    *)
LEMMA NewestFileFinds ==
    ASSUME CompactionAssumption, TypeOK, Aged, NEW k, NEW s
    PROVE  /\ Hits(NewestFile(k, s), k, s) \subseteq Hits(Entries(levels[0]), k, s)
           /\ \A h : NewestHit(h, Entries(levels[0]), k, s) => h \in NewestFile(k, s)
<1> DEFINE having == {f \in levels[0] : Hits(f, k, s) # {}}
<1>1. NewestFile(k, s) =
          IF having = {} THEN {}
          ELSE CHOOSE f \in having : \A g \in having : Newest(g).seq <= Newest(f).seq
    BY DEF NewestFile
<1>2. 0 \in Levels
    BY WrittenTypes
<1>3. ASSUME NEW f \in levels[0]
      PROVE  /\ f \in SUBSET past.written
             /\ Newest(f) \in f /\ Newest(f).seq \in Nat
    <2>1. Sane(f) /\ f # {} /\ f \in SUBSET past.written
        BY <1>2, LevelFiles
    <2>2. Newest(f) \in f
        BY <2>1, Ends
    <2> QED
        BY <2>1, <2>2, WrittenTypes
<1>4. ASSUME NEW h, NewestHit(h, Entries(levels[0]), k, s)
      PROVE  h \in NewestFile(k, s) /\ NewestFile(k, s) \in having
    <2>1. /\ h \in Entries(levels[0]) /\ h.key = k /\ h.seq <= s
          /\ \A x \in Entries(levels[0]) : x.key = k /\ x.seq <= s => x.seq <= h.seq
        BY <1>4 DEF NewestHit, Hits
    <2>2. PICK f \in levels[0] : h \in f
        BY <2>1 DEF Entries
    <2>3. f \in having
        BY <2>1, <2>2 DEF Hits
    <2>4. h.seq \in Nat
        BY <1>3, <2>2, WrittenTypes
    <2>5. ASSUME NEW g \in having, g # f PROVE Newest(g).seq < Newest(f).seq
        <3>1. PICK x \in g : x.key = k /\ x.seq <= s
            BY DEF Hits
        <3>2. g \in levels[0]
            BY <2>5
        <3>3. x.seq <= h.seq /\ x.seq \in Nat
            BY <3>1, <3>2, <2>1, <1>3, WrittenTypes DEF Entries
        <3>4. ~Newer(g, f)
            BY <3>3, <2>2, <2>4 DEF Newer
        <3>5. Newer(f, g)
            BY <3>2, <3>4, <2>5 DEF Aged
        <3> HIDE DEF having
        <3> QED
            BY <3>2, <3>5, <2>2, <1>3 DEF Newer
    <2> HIDE DEF having
    <2>6. \A g \in having : Newest(g).seq <= Newest(f).seq
        <3>1. Newest(f).seq \in Nat
            BY <1>3
        <3>2. \A g \in having : Newest(g).seq \in Nat
            BY <1>3 DEF having
        <3> QED
            BY <3>1, <3>2, <2>5
    <2>7. \E i \in having : \A g \in having : Newest(g).seq <= Newest(i).seq
        BY <2>3, <2>6
    <2> DEFINE i == CHOOSE i \in having : \A g \in having : Newest(g).seq <= Newest(i).seq
    <2>8. i \in having /\ Newest(f).seq <= Newest(i).seq
        BY <2>3, <2>7
    <2> HIDE DEF i
    <2>9. i = f
        <3>1. Newest(f).seq \in Nat /\ Newest(i).seq \in Nat
            BY <2>8, <1>3 DEF having
        <3> QED
            BY <3>1, <2>5, <2>8
    <2> QED
        BY <2>2, <2>3, <2>8, <2>9, <1>1 DEF i
<1>5. Hits(NewestFile(k, s), k, s) \subseteq Hits(Entries(levels[0]), k, s)
    <2>1. CASE having = {}
        BY <1>1, <2>1 DEF Hits
    <2>2. CASE having # {}
        <3>1. PICK x \in Entries(levels[0]) : x \in Hits(Entries(levels[0]), k, s)
            BY <2>2 DEF Hits, Entries
        <3>2. Entries(levels[0]) \in SUBSET past.written
            BY <1>3 DEF Entries
        <3>3. PICK h : NewestHit(h, Entries(levels[0]), k, s)
            BY <3>1, <3>2, HitsHaveNewest
        <3>4. NewestFile(k, s) \in having
            BY <3>3, <1>4
        <3> QED
            BY <3>4 DEF Hits, Entries
    <2> QED
        BY <2>1, <2>2
<1> QED
    BY <1>4, <1>5

(* What Get looks through, one after the other.                              *)
Layer(i) ==
    IF i = 0 THEN tables2.mem ELSE IF i = 1 THEN tables2.imm ELSE Entries(levels[i - 2])
Layers == 0..(NumLevels + 1)

LEMMA LayersAre ==
    ASSUME CompactionAssumption, TypeOK
    PROVE  /\ \A i \in Layers : Layer(i) \in SUBSET past.written /\ Layer(i) \subseteq Remaining
           /\ \A e \in Remaining : \E i \in Layers : e \in Layer(i)
<1>1. NumLevels \in Nat /\ NumLevels > 1
    BY DEF CompactionAssumption
<1>2. Remaining \subseteq past.written
    BY WrittenTypes DEF Remaining
<1>3. ASSUME NEW i \in Layers PROVE Layer(i) \subseteq Remaining
    <2>1. CASE i = 0
        BY <2>1 DEF Layer, Remaining
    <2>2. CASE i = 1
        BY <2>2 DEF Layer, Remaining
    <2>3. CASE i > 1
        <3>1. i - 2 \in Levels /\ Layer(i) = Entries(levels[i - 2])
            BY <2>3, <1>1 DEF Layers, Levels, Layer
        <3> QED
            BY <3>1 DEF Remaining, Tables
    <2> QED
        BY <2>1, <2>2, <2>3 DEF Layers
<1>4. ASSUME NEW e \in Remaining PROVE \E i \in Layers : e \in Layer(i)
    <2>1. CASE e \in tables2.mem
        <3>1. 0 \in Layers /\ Layer(0) = tables2.mem
            BY <1>1 DEF Layers, Layer
        <3> QED
            BY <2>1, <3>1
    <2>2. CASE e \in tables2.imm
        <3>1. 1 \in Layers /\ Layer(1) = tables2.imm
            BY <1>1 DEF Layers, Layer
        <3> QED
            BY <2>2, <3>1
    <2>3. CASE e \in Tables
        <3>1. PICK n \in Levels : e \in Entries(levels[n])
            BY <2>3 DEF Tables
        <3>2. n + 2 \in Layers /\ n + 2 # 0 /\ n + 2 # 1 /\ (n + 2) - 2 = n
            BY <1>1 DEF Layers, Levels
        <3>3. e \in Layer(n + 2)
            BY <3>1, <3>2 DEF Layer
        <3> QED
            BY <3>2, <3>3
    <2> QED
        BY <2>1, <2>2, <2>3 DEF Remaining
<1> QED
    BY <1>2, <1>3, <1>4

(* A key's versions in one of them are newer than those in the ones below.    *)
LEMMA LayersDescend ==
    ASSUME CompactionAssumption, TypeOK, Aged, Descend,
           NEW i \in Layers, NEW j \in Layers, i < j
    PROVE  SameKeyNewer(Layer(i), Layer(j))
<1>1. i \in Int /\ j \in Int /\ 0 <= i
    BY DEF Layers
<1>2. ASSUME NEW m \in Layers, m > 1
      PROVE  m - 2 \in Levels /\ Layer(m) = Entries(levels[m - 2]) /\ Layer(m) \subseteq Tables
    <2>1. m - 2 \in Levels /\ Layer(m) = Entries(levels[m - 2])
        BY <1>2 DEF Layers, Levels, Layer, CompactionAssumption
    <2> QED
        BY <2>1 DEF Tables
<1>3. Newer(tables2.mem, tables2.imm \cup Tables) /\ Newer(tables2.imm, Tables)
    BY DEF Aged
<1>4. CASE i = 0
    <2>1. Layer(i) = tables2.mem /\ Layer(j) \subseteq tables2.imm \cup Tables
        <3>1. j = 1 \/ j > 1
            BY <1>1, <1>4
        <3>2. CASE j = 1
            BY <3>2, <1>4 DEF Layer
        <3>3. CASE j > 1
            BY <3>3, <1>2, <1>4 DEF Layer
        <3> QED
            BY <3>1, <3>2, <3>3
    <2> QED
        BY <2>1, <1>3 DEF Newer, SameKeyNewer
<1>5. CASE i = 1
    <2>1. Layer(i) = tables2.imm /\ Layer(j) \subseteq Tables
        BY <1>1, <1>2, <1>5 DEF Layer
    <2> QED
        BY <2>1, <1>3 DEF Newer, SameKeyNewer
<1>6. CASE i > 1
    <2>1. i - 2 \in Levels /\ Layer(i) = Entries(levels[i - 2])
        BY <1>2, <1>6
    <2>2. j - 2 \in Levels /\ Layer(j) = Entries(levels[j - 2])
        BY <1>1, <1>2, <1>6
    <2>3. i - 2 < j - 2
        BY <1>1
    <2> QED
        BY <2>1, <2>2, <2>3 DEF Descend
<1> QED
    BY <1>1, <1>4, <1>5, <1>6

(* Each of the places finds the newest hit of its layer, and nothing else.    *)
LEMMA SourceFinds ==
    ASSUME CompactionAssumption, TypeOK, LevelsApart, Aged,
           NEW k \in Nat, NEW s \in Nat, NEW i \in Layers
    PROVE  /\ Hits(Source(i, k, s), k, s) \subseteq Hits(Layer(i), k, s)
           /\ \A h : NewestHit(h, Layer(i), k, s) => h \in Hits(Source(i, k, s), k, s)
<1>1. i \in Int /\ 0 <= i /\ i <= NumLevels + 1 /\ NumLevels \in Nat
    BY DEF Layers, CompactionAssumption
<1>2. CASE i = 0 \/ i = 1
    <2>1. Source(i, k, s) = Layer(i)
        BY <1>2 DEF Source, Layer
    <2> QED
        BY <2>1 DEF NewestHit
<1>3. CASE i = 2
    <2>1. Source(i, k, s) = NewestFile(k, s) /\ Layer(i) = Entries(levels[0])
        BY <1>3 DEF Source, Layer
    <2> QED
        BY <2>1, NewestFileFinds DEF NewestHit, Hits
<1>4. CASE i > 2
    <2>1. Source(i, k, s) = FindFile(i - 2, k, s) /\ Layer(i) = Entries(levels[i - 2])
        BY <1>1, <1>4 DEF Source, Layer
    <2>2. i - 2 \in Levels \ {0}
        BY <1>1, <1>4 DEF Levels
    <2>3. /\ FindFile(i - 2, k, s) \subseteq Entries(levels[i - 2])
          /\ \A h : NewestHit(h, Entries(levels[i - 2]), k, s) => h \in FindFile(i - 2, k, s)
        BY <2>2, FindFileFinds
    <2> QED
        BY <2>1, <2>3 DEF NewestHit, Hits
<1> QED
    BY <1>1, <1>2, <1>3, <1>4

(* Get answers with the newest entry of the key that is left.                 *)
LEMMA GetFinds ==
    ASSUME CompactionAssumption, TypeOK, LevelsApart, Aged, Descend,
           NEW k \in Nat, NEW s \in Nat
    PROVE  /\ Hits(Remaining, k, s) = {} => Get(k, s) = {}
           /\ \A h : NewestHit(h, Remaining, k, s) => Get(k, s) = {e \in {h} : ~e.del}
<1> DEFINE having == {i \in Layers : Hits(Source(i, k, s), k, s) # {}}
           first == CHOOSE i \in having : \A j \in having : i <= j
<1>1. Get(k, s) = IF having = {} THEN {}
                  ELSE {e \in {Newest(Hits(Source(first, k, s), k, s))} : ~e.del}
    BY DEF Get, Layers
<1>2. \A i \in Layers : i \in having <=> Hits(Source(i, k, s), k, s) # {}
    OBVIOUS
<1>3. having \subseteq Layers /\ Layers \subseteq Nat
    BY DEF Layers
<1>4. having # {} => first \in having /\ \A j \in having : first <= j
    <2> SUFFICES ASSUME having # {} PROVE first \in having /\ \A j \in having : first <= j
        OBVIOUS
    <2> HIDE DEF having
    <2>1. having \in SUBSET Nat
        BY <1>3
    <2>2. \E i \in having : \A j \in having : i <= j
        BY <2>1, LeastNumber
    <2> QED
        BY <2>2
<1> HIDE DEF having, first
<1>5. ASSUME NEW i \in Layers
      PROVE  /\ Hits(Source(i, k, s), k, s) \subseteq Hits(Layer(i), k, s)
             /\ \A h : NewestHit(h, Layer(i), k, s) => h \in Hits(Source(i, k, s), k, s)
             /\ Layer(i) \in SUBSET past.written /\ Layer(i) \subseteq Remaining
    BY SourceFinds, LayersAre
<1>6. ASSUME NEW i \in having PROVE Hits(Source(i, k, s), k, s) # {} /\ Hits(Layer(i), k, s) # {}
    BY <1>2, <1>3, <1>5
<1>7. ASSUME Hits(Remaining, k, s) = {} PROVE having = {}
    BY <1>3, <1>5, <1>6, <1>7 DEF Hits
<1>8. ASSUME NEW h, NewestHit(h, Remaining, k, s)
      PROVE  Get(k, s) = {e \in {h} : ~e.del}
    <2>1. /\ h \in Remaining /\ h.key = k /\ h.seq <= s
          /\ \A x \in Remaining : x.key = k /\ x.seq <= s => x.seq <= h.seq
        BY <1>8 DEF NewestHit, Hits
    <2>2. PICK j \in Layers : h \in Layer(j)
        BY <2>1, LayersAre
    <2>3. NewestHit(h, Layer(j), k, s)
        BY <2>1, <2>2, <1>5 DEF NewestHit, Hits
    <2>4. h \in Hits(Source(j, k, s), k, s)
        BY <2>3, <1>5
    <2>5. j \in having
        BY <2>4, <1>2
    <2>6. first \in having /\ first <= j
        BY <2>5, <1>4
    <2>7. first \in Layers /\ first \in Nat /\ j \in Nat
        BY <2>6, <1>3
    <2>8. ~(first < j)
        <3>1. SUFFICES ASSUME first < j PROVE FALSE
            OBVIOUS
        <3>2. PICK x \in Layer(first) : x.key = k /\ x.seq <= s
            BY <2>6, <1>6 DEF Hits
        <3>3. x.seq > h.seq
            BY <2>1, <2>2, <2>7, <3>1, <3>2, LayersDescend DEF SameKeyNewer
        <3>4. x \in Remaining /\ x \in past.written /\ h \in past.written
            BY <2>2, <2>7, <3>2, <1>5
        <3>5. x.seq <= h.seq /\ x.seq \in Nat /\ h.seq \in Nat
            BY <2>1, <3>2, <3>4, WrittenTypes
        <3> QED
            BY <3>3, <3>5
    <2>9. first = j
        BY <2>6, <2>7, <2>8
    <2> DEFINE S == Source(j, k, s)
    <2>10. NewestHit(Newest(Hits(S, k, s)), S \cap past.written, k, s)
        <3>1. Hits(S, k, s) = Hits(S \cap past.written, k, s)
            BY <1>5 DEF Hits
        <3> QED
            BY <3>1, <2>4, HitsHaveNewest
    <2>11. NewestHit(h, S \cap past.written, k, s)
        <3>1. Hits(S \cap past.written, k, s) \subseteq Hits(Layer(j), k, s)
            BY <1>5 DEF Hits
        <3>2. h \in past.written
            BY <2>2, <1>5
        <3> QED
            BY <2>3, <2>4, <3>1, <3>2 DEF NewestHit, Hits
    <2>12. Newest(Hits(S, k, s)) = h
        BY <2>10, <2>11, OneNewest
    <2> QED
        BY <2>5, <2>9, <2>12, <1>1
<1> QED
    BY <1>1, <1>7, <1>8

(* So a Get answers what was written last.                                   *)
LEMMA GetsTruth ==
    ASSUME CompactionAssumption, Inv, Clean, NEW s \in snaps \cup {sequence}, NEW k \in Keys
    PROVE  Get(k, s) = Truth(k, s)
<1>1. /\ TypeOK /\ LevelsApart /\ Aged /\ Descend /\ Retained
    BY DEF Inv, SortedInv, ReadInv, Clean
<1>2. k \in Nat /\ s \in Nat
    BY <1>1, WrittenTypes DEF CompactionAssumption
<1>3. /\ Hits(Remaining, k, s) = {} => Get(k, s) = {}
      /\ \A h : NewestHit(h, Remaining, k, s) => Get(k, s) = {e \in {h} : ~e.del}
    BY <1>1, <1>2, GetFinds
<1>4. Remaining \subseteq past.written
    BY <1>1, WrittenTypes DEF Remaining
<1> DEFINE older == Hits(past.written, k, s)
           t == Newest(older)
<1>5. Hits(Remaining, k, s) \subseteq older
    BY <1>4 DEF Hits
<1>6. Truth(k, s) = IF older = {} THEN {} ELSE {e \in {t} : ~e.del}
    BY DEF Truth
<1>7. CASE older = {}
    BY <1>3, <1>5, <1>6, <1>7
<1>8. CASE older # {}
    <2>1. NewestHit(t, past.written, k, s)
        BY <1>1, <1>8, HitsHaveNewest
    <2> HIDE DEF t
    <2>2. t \in past.written /\ t.key = k /\ t.seq <= s /\ \A e \in older : e.seq <= t.seq
        BY <2>1 DEF NewestHit, Hits
    <2>3. NewestUpTo(t, s)
        BY <2>2 DEF NewestUpTo
    <2>4. CASE t \in Remaining
        <3>1. NewestHit(t, Remaining, k, s)
            BY <2>2, <2>4, <1>5 DEF NewestHit, Hits
        <3> QED
            BY <3>1, <1>3, <1>6, <1>8
    <2>5. CASE t.del /\ \A e \in Remaining : e.key = t.key => e.seq > t.seq
        <3>1. ASSUME NEW e \in Hits(Remaining, k, s) PROVE FALSE
            <4>1. e \in past.written /\ e.seq > t.seq /\ e.seq <= t.seq
                BY <2>2, <2>5, <1>4, <1>5 DEF Hits
            <4>2. e.seq \in Nat /\ t.seq \in Nat
                BY <4>1, <2>2, <1>1, WrittenTypes
            <4> QED
                BY <4>1, <4>2
        <3>2. Get(k, s) = {}
            BY <3>1, <1>3
        <3>3. {e \in {t} : ~e.del} = {}
            BY <2>5
        <3> QED
            BY <3>2, <3>3, <1>6, <1>8
    <2> QED
        BY <2>2, <2>3, <2>4, <2>5, <1>1 DEF Retained
<1> QED
    BY <1>7, <1>8

-----------------------------------------------------------------------------
(* The theorems                                                              *)

LEMMA SortedFromInv ==
    ASSUME CompactionAssumption, Inv
    PROVE  LevelsSorted
<1>1. SUFFICES ASSUME ~past.raced, NEW n \in Levels \ {0}, NEW f \in levels[n], NEW g \in levels[n],
                      f # g
               PROVE  Before(Largest(f), Smallest(g)) \/ Before(Largest(g), Smallest(f))
    BY DEF LevelsSorted, DisjointLevels
<1>2. TypeOK /\ Apart(f, g)
    BY <1>1 DEF Inv, SortedInv, LevelsApart
<1>3. Sane(f) /\ f # {} /\ Sane(g) /\ g # {}
    BY <1>2, LevelFiles
<1> QED
    BY <1>2, <1>3, PrecedesEnds DEF Apart

(* The invariant holds of every state: the state's type, the order of the files *)
(* in the levels, and what the reads rely on.                                *)
THEOREM LevelsInv ==
    ASSUME CompactionAssumption
    PROVE  LevelsSpec => []Inv
<1>1. LevelsInit => Inv
    BY InvAtStart
<1>2. Inv /\ [LevelsNext]_levelsVars => Inv'
    BY InvNext
<1> QED
    BY <1>1, <1>2, PTL DEF LevelsSpec

(* Above level 0 the files of a level do not overlap, whatever was flushed,    *)
(* moved and merged, unless a memtable was flushed during a manual compaction. *)
THEOREM LevelsStaySorted ==
    ASSUME CompactionAssumption
    PROVE  LevelsSpec => []LevelsSorted
<1>1. Inv => LevelsSorted
    BY SortedFromInv
<1> QED
    BY <1>1, LevelsInv, PTL

(* A Get answers what was written last, for every key, as of every snapshot     *)
(* that is held and as of now, for any number of levels, keys, writes and      *)
(* snapshots and whatever the compactions cut, moved and dropped, unless one of *)
(* the two sequences of compactions that break it has happened.              *)
THEOREM GetReadsLastWrite ==
    ASSUME CompactionAssumption
    PROVE  LevelsSpec => []SnapshotReads
<1>1. Inv => SnapshotReads
    BY GetsTruth DEF SnapshotReads, Clean
<1> QED
    BY <1>1, LevelsInv, PTL

-----------------------------------------------------------------------------
(* CompactRange                                                              *)

InRange(e) == call.lo <= e.key /\ e.key <= call.hi
NoneInRange(n) == \A e \in Entries(levels[n]) : ~InRange(e)

(* What the call has taken from its level so far is gone, or goes with the job. *)
Held == IF job.on /\ job.manual THEN job.in0 ELSE {}
Done ==
    /\ call.at = "pass" =>
          /\ \A n \in Levels : n < call.level => NoneInRange(n)
          /\ \A e \in Entries(levels[call.level] \ Held) : InRange(e) => call.from <= e.key
    /\ call.at = "done" => \A n \in Levels : n < call.top => NoneInRange(n)

RangeTypeOK ==
    /\ call.lo \in Nat /\ call.hi \in Nat /\ (~past.raced => call.from \in Nat)
    /\ call.since \in Nat /\ call.since <= sequence
    /\ call.at = "done" => call.top \in Levels
    /\ call.at \in {"memtable", "flush"} => call.level = 0 /\ call.from = call.lo
    /\ job.on /\ job.manual => call.at = "pass" /\ job.level = call.level
RangeInv ==
    /\ RangeTypeOK
    /\ call.since = sequence =>
          /\ call.at \in {"flush", "pass", "done"} => tables2.mem = {}
          /\ call.at \in {"pass", "done"} => tables2.imm = {}
          /\ ~past.raced => Done

(* Files that share no entry have a last one.                                *)
LEMMA LastFile ==
    ASSUME TypeOK, NEW n \in Levels, NEW F \in SUBSET levels[n], F # {},
           \A f, g \in F : f = g \/ Smallest(f) # Smallest(g)
    PROVE  Last(F) \in F /\ \A g \in F : Last(F) = g \/ Before(Smallest(g), Smallest(Last(F)))
<1> DEFINE ends == {Smallest(f) : f \in F}
<1>1. \A f \in F : Smallest(f) \in f /\ f \subseteq past.written
    BY LevelFiles, Ends
<1>2. ends \in SUBSET past.written /\ ends # {} /\ Sane(past.written)
    BY <1>1 DEF TypeOK
<1>3. PICK e \in ends : \A x \in ends : e = x \/ Before(x, e)
    <2> HIDE DEF ends
    <2>1. Sane(ends)
        BY <1>2, SaneSubset
    <2> QED
        BY <2>1, <1>2, Ends
<1>4. PICK f \in F : e = Smallest(f)
    OBVIOUS
<1>5. \A g \in F : f = g \/ Before(Smallest(g), Smallest(f))
    BY <1>3, <1>4
<1>6. \E i \in F : \A g \in F : i = g \/ Before(Smallest(g), Smallest(i))
    BY <1>5
<1> QED
    BY <1>6 DEF Last

(* Files of a level share no entry.                                          *)
LEMMA EndsDiffer ==
    ASSUME CompactionAssumption, TypeOK, LevelsApart, Aged, NEW n \in Levels,
           NEW f \in levels[n], NEW g \in levels[n], f # g
    PROVE  Smallest(f) # Smallest(g)
<1>1. Smallest(f) \in f /\ Smallest(g) \in g /\ f \subseteq past.written
    BY LevelFiles, Ends
<1>2. Smallest(f) \in Entry /\ Smallest(f).seq \in Nat
    BY <1>1, WrittenTypes DEF Entry
<1>3. CASE n = 0
    <2>1. Newer(f, g) \/ Newer(g, f)
        BY <1>3 DEF Aged
    <2> QED
        BY <2>1, <1>1, <1>2 DEF Newer
<1>4. CASE n # 0
    <2>1. Apart(f, g)
        BY <1>4 DEF LevelsApart
    <2> QED
        BY <2>1, <1>1, <1>2, BeforeOrder DEF Apart, Precedes
<1> QED
    BY <1>3, <1>4

(* In order of their keys, the first files of the range are taken, and the     *)
(* next part resumes where they end: what is left in the level is not before.  *)
LEMMA PartTaken ==
    ASSUME CompactionAssumption, TypeOK, LevelsApart, Aged,
           NEW n \in Levels, n + 1 \in Levels, NEW from \in Nat, NEW hi \in Nat,
           NEW inputs, inputs = RangeInputs(n, from, hi), inputs # {},
           NEW c, c = SetupOtherInputs(n, inputs)
    PROVE  /\ Resume(c) \in Nat
           /\ \A e \in Entries(levels[n] \ c.in0) :
                 e.key < from \/ hi < e.key \/ (n > 0 /\ Resume(c) <= e.key)
<1>1. n \in Nat
    BY DEF Levels
<1>2. inputs \in SUBSET levels[n]
    <2>1. CASE n > 0
        <3>1. inputs \subseteq GetOverlappingInputs(n, from, hi)
            BY <2>1 DEF RangeInputs
        <3> QED
            BY <1>1, <2>1, <3>1, InputsAbove DEF Direct
    <2>2. CASE n = 0
        <3>1. inputs = GetOverlappingInputs(0, from, hi)
            BY <2>2 DEF RangeInputs
        <3> QED
            BY <2>2, <3>1, InputsOfZero
    <2> QED
        BY <1>1, <2>1, <2>2
<1>3. /\ c.in0 \subseteq levels[n] /\ c.in0 # {} /\ inputs \subseteq c.in0
      /\ n > 0 => c.in0 = inputs \/ IsDirect(n, c.in0)
    <2>1. InputsOf(n, c)
        BY <1>2, Setup
    <2>2. inputs \subseteq c.in0
        BY <1>2, Setup
    <2>3. n > 0 => c.in0 = inputs \/ IsDirect(n, c.in0)
        BY <1>2, Setup
    <2> QED
        BY <2>1, <2>2, <2>3 DEF InputsOf
<1> DEFINE l == Last(c.in0)
<1>4. l \in c.in0 /\ l \in levels[n]
    BY <1>3, EndsDiffer, LastFile
<1> HIDE DEF l
<1>5. Resume(c) = HighKey(l)
    BY DEF Resume, l
<1>6. ASSUME NEW f \in levels[n]
      PROVE  /\ f # {} /\ f \subseteq Entry /\ Smallest(f) \in f /\ Sane(f)
             /\ LowKey(f) \in Nat /\ HighKey(f) \in Nat /\ LowKey(f) <= HighKey(f)
             /\ \A e \in f : LowKey(f) <= e.key /\ e.key <= HighKey(f) /\ e.key \in Nat
             /\ \E e \in f : e.key = LowKey(f)
             /\ \E e \in f : e.key = HighKey(f)
    <2>1. Sane(f) /\ f # {} /\ f \subseteq Entry
        BY LevelFiles DEF Sane
    <2>2. \A e \in f : e.key \in Nat
        BY <2>1 DEF Entry
    <2> QED
        BY <2>1, <2>2, Span, Ends
<1>7. SUFFICES ASSUME NEW g \in levels[n] \ c.in0, NEW e \in g, from <= e.key, e.key <= hi
               PROVE  n > 0 /\ HighKey(l) <= e.key
    <2>1. Resume(c) \in Nat
        BY <1>4, <1>5, <1>6
    <2>2. ASSUME NEW x \in Entries(levels[n] \ c.in0)
          PROVE  x.key < from \/ hi < x.key \/ (n > 0 /\ Resume(c) <= x.key)
        <3>1. PICK g \in levels[n] \ c.in0 : x \in g
            BY DEF Entries
        <3>2. x.key \in Nat
            BY <3>1, <1>6
        <3> QED
            BY <3>1, <3>2, <1>5, <1>7
    <2> QED
        BY <2>1, <2>2
<1>8. Touches(g, from, hi) /\ g \notin inputs
    <2>1. LowKey(g) <= e.key /\ e.key <= HighKey(g) /\ e.key \in Nat
          /\ LowKey(g) \in Nat /\ HighKey(g) \in Nat
        BY <1>6, <1>7
    <2> QED
        BY <2>1, <1>3, <1>7 DEF Touches
<1>9. n > 0
    <2>1. SUFFICES ASSUME n = 0 PROVE FALSE
        BY <1>1
    <2>2. inputs = GetOverlappingInputs(0, from, hi)
        BY <2>1 DEF RangeInputs
    <2>3. Direct(0, from, hi) \subseteq inputs
        BY <2>2, InputsOfZero
    <2> QED
        BY <2>1, <2>3, <1>7, <1>8 DEF Direct
<1> DEFINE files == GetOverlappingInputs(n, from, hi)
           before(f) == {h \in files : h # f /\ Before(Smallest(h), Smallest(f))}
<1>10. inputs = {f \in files : Size(before(f)) < FileLimit} /\ files = Direct(n, from, hi)
    BY <1>1, <1>9, InputsAbove DEF RangeInputs
<1>11. files \subseteq levels[n] /\ g \in files /\ ~(Size(before(g)) < FileLimit)
    <2> HIDE DEF before
    <2> QED
        BY <1>7, <1>8, <1>10 DEF Direct
<1>12. ASSUME NEW f \in inputs PROVE Precedes(f, g)
    <2>1. f \in files /\ f \in levels[n] /\ Size(before(f)) < FileLimit
        BY <1>2, <1>10
    <2>2. SUFFICES ASSUME Precedes(g, f) PROVE FALSE
        BY <2>1, <1>7, <1>8, <1>9 DEF LevelsApart, Apart
    <2>3. Before(Smallest(g), Smallest(f))
        BY <2>1, <2>2, <1>6, <1>7 DEF Precedes
    <2>4. ASSUME NEW h \in before(g) PROVE h \in before(f)
        <3>1. h \in levels[n] /\ Before(Smallest(h), Smallest(g)) /\ h \in files
            BY <1>11
        <3>2. Smallest(h) \in Entry /\ Smallest(g) \in Entry /\ Smallest(f) \in Entry
            BY <3>1, <2>1, <1>6, <1>7
        <3>3. Before(Smallest(h), Smallest(f)) /\ h # f
            BY <3>1, <3>2, <2>3, BeforeOrder
        <3> QED
            BY <3>1, <3>3
    <2>5. Entries(before(g)) \subseteq Entries(before(f)) /\ Entries(before(f)) \subseteq past.written
        <3>1. \A h \in before(f) : h \subseteq past.written
            BY <1>11, LevelFiles
        <3> HIDE DEF before
        <3> QED
            BY <3>1, <2>4 DEF Entries
    <2>6. IsFiniteSet(Entries(before(f)))
        <3> HIDE DEF before
        <3> QED
            BY <2>5, FS_Subset DEF TypeOK, Sane
    <2> HIDE DEF before
    <2>7. /\ Size(before(g)) <= Size(before(f))
          /\ Size(before(g)) \in Nat /\ Size(before(f)) \in Nat
        BY <2>5, <2>6, FS_Subset, FS_CardinalityType DEF Size
    <2>8. FileLimit \in Nat
        BY DEF CompactionAssumption
    <2> QED
        BY <2>1, <2>7, <2>8, <1>11
<1> HIDE DEF before, files
<1>13. Precedes(l, g)
    <2>1. CASE c.in0 = inputs
        BY <2>1, <1>4, <1>12
    <2>2. CASE IsDirect(n, c.in0)
        <3>1. PICK lo \in Nat, up \in Nat : c.in0 = Direct(n, lo, up)
            BY <2>2 DEF IsDirect
        <3>2. PICK f \in inputs : TRUE
            OBVIOUS
        <3>3. Precedes(f, g) /\ f \in levels[n] /\ Touches(f, lo, up)
            BY <3>1, <3>2, <1>2, <1>3, <1>12 DEF Direct
        <3>4. HighKey(f) <= LowKey(g)
            <4>1. PICK x \in f : x.key = HighKey(f)
                BY <3>3, <1>6
            <4>2. PICK y \in g : y.key = LowKey(g)
                BY <1>6, <1>7
            <4>3. Before(x, y) /\ x \in Entry /\ y \in Entry
                BY <3>3, <1>6, <1>7 DEF Precedes
            <4> QED
                BY <4>1, <4>2, <4>3, BeforeOrder
        <3>5. ~Touches(g, lo, up) /\ Touches(l, lo, up)
            BY <3>1, <1>4, <1>7 DEF Direct
        <3>6. LowKey(g) > up /\ LowKey(l) <= up /\ LowKey(l) \in Nat /\ LowKey(g) \in Nat
            BY <3>3, <3>4, <3>5, <1>4, <1>6, <1>7 DEF Touches
        <3>7. ~Precedes(g, l)
            <4>1. PICK x \in l : x.key = LowKey(l)
                BY <1>4, <1>6
            <4>2. PICK y \in g : y.key = LowKey(g)
                BY <1>6, <1>7
            <4>3. x \in Entry /\ y \in Entry /\ ~Before(y, x)
                BY <4>1, <4>2, <3>6, <1>4, <1>6, <1>7, BeforeOrder
            <4> QED
                BY <4>3 DEF Precedes
        <3> QED
            BY <3>7, <1>4, <1>7, <1>9 DEF LevelsApart, Apart
    <2> QED
        BY <2>1, <2>2, <1>3, <1>9
<1>14. HighKey(l) <= e.key
    <2>1. PICK x \in l : x.key = HighKey(l)
        BY <1>4, <1>6
    <2>2. Before(x, e) /\ x \in Entry /\ e \in Entry
        BY <1>4, <1>6, <1>7, <1>13 DEF Precedes
    <2> QED
        BY <2>1, <2>2, BeforeOrder
<1> QED
    BY <1>9, <1>14

(* When no part is left to take, the level has nothing of what remains.        *)
LEMMA NoPartLeft ==
    ASSUME CompactionAssumption, TypeOK, LevelsApart, NEW n \in Levels,
           NEW from \in Nat, NEW hi \in Nat, RangeInputs(n, from, hi) = {},
           NEW e \in Entries(levels[n])
    PROVE  e.key < from \/ hi < e.key
<1> DEFINE files == GetOverlappingInputs(n, from, hi)
<1>1. n \in Nat
    BY DEF Levels
<1>2. Direct(n, from, hi) \subseteq files /\ (n > 0 => files = Direct(n, from, hi))
    <2>1. CASE n > 0
        BY <1>1, <2>1, InputsAbove
    <2>2. CASE n = 0
        BY <2>2, InputsOfZero
    <2> QED
        BY <1>1, <2>1, <2>2
<1>3. files = {}
    <2>1. CASE n = 0
        BY <2>1 DEF RangeInputs
    <2>2. CASE n > 0
        <3> DEFINE before(f) == {h \in files : h # f /\ Before(Smallest(h), Smallest(f))}
        <3>1. {f \in files : Size(before(f)) < FileLimit} = {}
            BY <2>2 DEF RangeInputs
        <3> HIDE DEF files
        <3>2. SUFFICES ASSUME files # {} PROVE FALSE
            OBVIOUS
        <3>3. files \in SUBSET levels[n] /\ \A f, g \in files : f = g \/ Apart(f, g)
            BY <1>2, <2>2 DEF Direct, LevelsApart
        <3> DEFINE f == First(files)
        <3>4. f \in files /\ \A g \in files : f = g \/ Before(Smallest(f), Smallest(g))
            BY <3>2, <3>3, FirstFile
        <3> HIDE DEF f
        <3>5. \A g \in files : Smallest(g) \in Entry
            BY <3>3, LevelFiles, Ends DEF Sane
        <3>6. before(f) = {}
            BY <3>4, <3>5, BeforeOrder
        <3> HIDE DEF before
        <3>7. Size(before(f)) = 0
            BY <3>6, FS_EmptySet DEF Size, Entries
        <3>8. ~(Size(before(f)) < FileLimit)
            BY <3>1, <3>4
        <3>9. FileLimit > 0
            BY DEF CompactionAssumption
        <3> QED
            BY <3>7, <3>8, <3>9
    <2> QED
        BY <1>1, <2>1, <2>2
<1> HIDE DEF files
<1>4. PICK f \in levels[n] : e \in f
    BY DEF Entries
<1>5. Sane(f) /\ f # {} /\ f \subseteq Entry
    BY LevelFiles DEF Sane
<1>6. LowKey(f) <= e.key /\ e.key <= HighKey(f) /\ LowKey(f) \in Nat /\ HighKey(f) \in Nat
    BY <1>4, <1>5, Span
<1>7. e.key \in Nat
    BY <1>4, <1>5 DEF Entry
<1>8. ~Touches(f, from, hi)
    BY <1>2, <1>3 DEF Direct
<1> QED
    BY <1>6, <1>7, <1>8 DEF Touches

(* Entries that go down one level stay out of the levels that are done.        *)
LEMMA DoneKept ==
    ASSUME CompactionAssumption, TypeOK, Done, call' = call, Held = {}, Held' = {},
           call.at = "done" => call.top \in Nat,
           \A m \in Levels : \A e \in Entries(levels'[m]) :
               \/ e \in Entries(levels[m])
               \/ m - 1 \in Levels /\ e \in Entries(levels[m - 1])
    PROVE  Done'
<1>1. ASSUME NEW top \in Nat, \A n \in Levels : n < top => NoneInRange(n),
             NEW n \in Levels, n < top
      PROVE  NoneInRange(n)'
    <2>1. n \in Int
        BY DEF Levels
    <2>2. SUFFICES ASSUME NEW e \in Entries(levels'[n]) PROVE ~InRange(e)
        BY DEF NoneInRange, InRange, Entries
    <2>3. CASE e \in Entries(levels[n])
        BY <2>3, <1>1 DEF NoneInRange
    <2>4. CASE n - 1 \in Levels /\ e \in Entries(levels[n - 1])
        <3>1. n - 1 < top
            BY <1>1, <2>1
        <3> QED
            BY <2>4, <3>1, <1>1 DEF NoneInRange
    <2> QED
        BY <2>2, <2>3, <2>4
<1>2. ASSUME call.at = "done" PROVE \A n \in Levels : n < call.top => NoneInRange(n)'
    <2>1. call.top \in Nat /\ \A m \in Levels : m < call.top => NoneInRange(m)
        BY <1>2 DEF Done
    <2> QED
        BY <2>1, <1>1
<1>3. ASSUME call.at = "pass"
      PROVE  /\ \A n \in Levels : n < call.level => NoneInRange(n)'
             /\ \A e \in Entries(levels'[call.level]) : InRange(e) => call.from <= e.key
    <2>1. call.level \in Nat /\ call.level \in Levels
        BY <1>3 DEF TypeOK, CallTypeOK, Levels, CompactionAssumption
    <2>2. /\ \A n \in Levels : n < call.level => NoneInRange(n)
          /\ \A e \in Entries(levels[call.level]) : InRange(e) => call.from <= e.key
        BY <1>3 DEF Done
    <2>3. ASSUME NEW e \in Entries(levels'[call.level]), InRange(e) PROVE call.from <= e.key
        <3>1. CASE e \in Entries(levels[call.level])
            BY <2>2, <2>3, <3>1
        <3>2. CASE call.level - 1 \in Levels /\ e \in Entries(levels[call.level - 1])
            <4>1. call.level - 1 < call.level
                BY <2>1
            <4> QED
                BY <2>2, <2>3, <3>2, <4>1 DEF NoneInRange
        <3> QED
            BY <2>1, <2>3, <3>1, <3>2
    <2> QED
        BY <2>1, <2>2, <2>3, <1>1
<1> QED
    BY <1>2, <1>3 DEF Done, InRange, Entries

LEMMA RangeWrite ==
    ASSUME CompactionAssumption, TypeOK, RangeInv, NEW batch \in Batches, Write(batch)
    PROVE  RangeInv'
<1>1. /\ call' = call /\ levels' = levels /\ job' = job
      /\ sequence' = sequence + Cardinality(batch)
      /\ past' = [past EXCEPT !.written = @ \cup Stamped(batch)]
      /\ tables2' = IF MemTableFull THEN [mem |-> Stamped(batch), imm |-> tables2.mem]
                    ELSE [tables2 EXCEPT !.mem = @ \cup Stamped(batch)]
    BY DEF Write
<1>2. past'.raced = past.raced
    BY <1>1 DEF TypeOK
<1>3. sequence \in Nat /\ Cardinality(batch) \in Nat
    BY FS_CardinalityType DEF TypeOK, CompactionAssumption
<1>4. call.since \in Nat /\ call.since <= sequence
    BY DEF RangeInv, RangeTypeOK
<1>5. RangeTypeOK'
    BY <1>1, <1>2, <1>3, <1>4 DEF RangeInv, RangeTypeOK
<1>6. CASE Cardinality(batch) = 0
    <2>1. batch = {}
        BY <1>6, FS_EmptySet DEF CompactionAssumption
    <2>2. Stamped(batch) = {}
        BY <2>1 DEF Stamped
    <2>3. tables2 = [mem |-> tables2.mem, imm |-> tables2.imm]
        BY DEF TypeOK
    <2>4. tables2'.mem \in {{}, tables2.mem} /\ tables2'.imm \in {tables2.mem, tables2.imm}
        BY <1>1, <2>2, <2>3
    <2>5. sequence' = sequence /\ Held' = Held
        BY <1>1, <1>3, <1>6 DEF Held
    <2>6. Done => Done'
        BY <1>1, <2>5 DEF Done, NoneInRange, InRange, Entries
    <2>7. SUFFICES ASSUME call.since = sequence
                   PROVE  /\ call.at \in {"flush", "pass", "done"} => tables2'.mem = {}
                          /\ call.at \in {"pass", "done"} => tables2'.imm = {}
                          /\ ~past.raced => Done'
        BY <1>1, <1>2, <1>5, <2>5 DEF RangeInv
    <2>8. /\ call.at \in {"flush", "pass", "done"} => tables2.mem = {}
          /\ call.at \in {"pass", "done"} => tables2.imm = {}
          /\ ~past.raced => Done
        BY <2>7 DEF RangeInv
    <2> QED
        BY <2>4, <2>6, <2>8
<1>7. CASE Cardinality(batch) # 0
    <2>1. call'.since # sequence'
        BY <1>1, <1>3, <1>4, <1>7
    <2> QED
        BY <1>5, <2>1 DEF RangeInv
<1> QED
    BY <1>6, <1>7

(* Nothing that a CompactRange depends on has changed.                        *)
LEMMA RangeKept ==
    ASSUME RangeInv, levels' = levels, tables2' = tables2, job' = job, sequence' = sequence,
           call' = call, past'.raced = past.raced
    PROVE  RangeInv'
<1>1. RangeTypeOK'
    BY DEF RangeInv, RangeTypeOK
<1>2. Held' = Held
    BY DEF Held
<1>3. Done => Done'
    BY <1>2 DEF Done, NoneInRange, InRange, Entries
<1> QED
    BY <1>1, <1>3 DEF RangeInv

LEMMA RangeFlush ==
    ASSUME CompactionAssumption, TypeOK, RangeInv, CompactMemTable
    PROVE  RangeInv'
<1>1. /\ tables2.imm # {} /\ tables2' = [tables2 EXCEPT !.imm = {}]
      /\ past' = [past EXCEPT !.raced = @ \/ job.manual]
      /\ sequence' = sequence /\ job' = job /\ call' = call
    BY DEF CompactMemTable
<1>2. tables2'.mem = tables2.mem /\ tables2'.imm = {} /\ (~past'.raced => ~past.raced)
    BY <1>1 DEF TypeOK
<1>3. RangeTypeOK'
    BY <1>1, <1>2 DEF RangeInv, RangeTypeOK
<1>4. SUFFICES ASSUME call.since = sequence
               PROVE  /\ call.at \in {"flush", "pass", "done"} => tables2'.mem = {}
                      /\ call.at \in {"pass", "done"} => tables2'.imm = {}
                      /\ Done'
    BY <1>1, <1>3 DEF RangeInv
<1>5. /\ call.at \in {"flush", "pass", "done"} => tables2.mem = {}
      /\ call.at \notin {"pass", "done"}
    BY <1>1, <1>4 DEF RangeInv
<1>6. Done'
    BY <1>1, <1>5 DEF Done
<1> QED
    BY <1>2, <1>5, <1>6

(* An automatic compaction takes entries down one level.                      *)
LEMMA RangeAutomatic ==
    ASSUME CompactionAssumption, TypeOK, RangeInv, ~job.on,
           NEW n, NEW c, Picked(n, c, FALSE), Compact(n, c, FALSE), call' = call
    PROVE  RangeInv'
<1>1. /\ tables2' = tables2 /\ sequence' = sequence
      /\ past' = [past EXCEPT !.separated = @ \/ Separates(n, c)]
    BY DEF Compact
<1>2. past'.raced = past.raced
    BY <1>1 DEF TypeOK
<1>3. n \in Levels /\ n + 1 \in Levels /\ n \in Nat
    BY DEF Picked, Levels
<1>4. Held = {}
    BY DEF Held
<1>5. CASE Moves(c, FALSE)
    <2>1. job' = job
        BY <1>5, MoveStep
    <2>2. PICK f \in levels[n] :
              /\ c.in0 = {f}
              /\ levels'[n] = levels[n] \ {f} /\ levels'[n + 1] = levels[n + 1] \cup {f}
              /\ \A m \in Levels : m # n /\ m # n + 1 => levels'[m] = levels[m]
        BY <1>5, MoveStep
    <2>3. RangeTypeOK'
        BY <2>1, <1>1, <1>2 DEF RangeInv, RangeTypeOK
    <2>4. ASSUME NEW m \in Levels, NEW e \in Entries(levels'[m])
          PROVE  \/ e \in Entries(levels[m])
                 \/ m - 1 \in Levels /\ e \in Entries(levels[m - 1])
        <3>1. PICK g \in levels'[m] : e \in g
            BY DEF Entries
        <3>2. CASE g \in levels[m]
            BY <3>1, <3>2 DEF Entries
        <3>3. CASE g \notin levels[m]
            <4>1. m = n + 1 /\ g = f
                BY <3>1, <3>3, <2>2
            <4>2. m - 1 = n
                BY <4>1, <1>3
            <4> QED
                BY <4>1, <4>2, <3>1, <1>3 DEF Entries
        <3> QED
            BY <3>2, <3>3
    <2>5. Held' = {}
        BY <2>1 DEF Held
    <2>6. call.at = "done" => call.top \in Nat
        BY DEF RangeInv, RangeTypeOK, Levels
    <2>7. Done => Done'
        BY <2>4, <2>5, <2>6, <1>4, DoneKept
    <2> QED
        BY <2>3, <2>7, <1>1, <1>2 DEF RangeInv
<1>6. CASE ~Moves(c, FALSE)
    <2>1. levels' = levels /\ job'.on /\ ~job'.manual
        <3>1. /\ levels' = levels
              /\ job' \in [on : {TRUE}, manual : {FALSE}, level : {n}, in0 : {c.in0},
                           in1 : {c.in1}, deeper : SUBSET Files(past.written),
                           grand : SUBSET Files(past.written), smallest : {SmallestSnapshot}]
            BY <1>6, StartStep
        <3> QED
            BY <3>1
    <2>2. RangeTypeOK'
        BY <2>1, <1>1, <1>2 DEF RangeInv, RangeTypeOK
    <2>3. Held' = {}
        BY <2>1 DEF Held
    <2>4. Done => Done'
        BY <2>1, <2>3, <1>4 DEF Done, NoneInRange, InRange, Entries
    <2> QED
        BY <2>2, <2>4, <1>1, <1>2 DEF RangeInv
<1> QED
    BY <1>5, <1>6

LEMMA RangeWork ==
    ASSUME CompactionAssumption, TypeOK, RangeInv, DoCompactionWork
    PROVE  RangeInv'
<1> DEFINE L == job.level
<1>1. /\ job.on /\ L \in Levels /\ L + 1 \in Levels /\ L \in Nat
      /\ levels'[L] = levels[L] \ job.in0
      /\ levels'[L + 1] = (levels[L + 1] \ job.in1) \cup Outputs
      /\ \A m \in Levels : m # L /\ m # L + 1 => levels'[m] = levels[m]
      /\ job' = NoJob
    BY WorkStep
<1>2. /\ tables2' = tables2 /\ sequence' = sequence /\ call' = call /\ past' = past
      /\ ~job'.on
    BY <1>1 DEF DoCompactionWork, NoJob
<1>3. RangeTypeOK'
    BY <1>2 DEF RangeInv, RangeTypeOK
<1>4. Held' = {}
    BY <1>2 DEF Held
<1>5. job.in0 \subseteq levels[L] /\ job.in1 \subseteq levels[L + 1]
    BY <1>1 DEF TypeOK, JobTypeOK
<1>6. \A f \in Outputs : f \subseteq Entries(Inputs)
    BY <1>1, OutputsAre
<1> HIDE DEF L
<1>7. SUFFICES ASSUME Done, ~past.raced PROVE Done'
    BY <1>2, <1>3 DEF RangeInv
<1>8. CASE job.manual
    <2>1. call.at = "pass" /\ L = call.level /\ Held = job.in0
        BY <1>1, <1>8 DEF RangeInv, RangeTypeOK, Held, L
    <2>2. ASSUME NEW m \in Levels, m < L PROVE NoneInRange(m)'
        <3>1. levels'[m] = levels[m] /\ NoneInRange(m)
            BY <2>1, <2>2, <1>1, <1>7 DEF Done, Levels
        <3> QED
            BY <3>1, <1>2 DEF NoneInRange, InRange, Entries
    <2>3. \A e \in Entries(levels'[L]) : InRange(e) => call.from <= e.key
        BY <2>1, <1>1, <1>7 DEF Done
    <2>4. levels'[L] \ Held' = levels'[L]
        BY <1>4
    <2> QED
        BY <2>1, <2>2, <2>3, <2>4, <1>2 DEF Done, InRange, Entries
<1>9. CASE ~job.manual
    <2>1. Held = {}
        BY <1>9 DEF Held
    <2>2. ASSUME NEW m \in Levels, NEW e \in Entries(levels'[m])
          PROVE  \/ e \in Entries(levels[m])
                 \/ m - 1 \in Levels /\ e \in Entries(levels[m - 1])
        <3>1. PICK g \in levels'[m] : e \in g
            BY DEF Entries
        <3>2. CASE g \in levels[m]
            BY <3>1, <3>2 DEF Entries
        <3>3. CASE g \notin levels[m]
            <4>1. m = L + 1 /\ g \in Outputs
                BY <3>1, <3>3, <1>1
            <4>2. m - 1 = L
                BY <4>1, <1>1
            <4>3. e \in Entries(Inputs)
                BY <4>1, <3>1, <1>6
            <4>4. e \in Entries(levels[L]) \/ e \in Entries(levels[L + 1])
                BY <4>3, <1>5 DEF Entries, Inputs
            <4> QED
                BY <4>1, <4>2, <4>4, <1>1
        <3> QED
            BY <3>2, <3>3
    <2>3. call.at = "done" => call.top \in Nat
        BY DEF RangeInv, RangeTypeOK, Levels
    <2> QED
        BY <2>1, <2>2, <2>3, <1>2, <1>4, <1>7, DoneKept
<1> QED
    BY <1>8, <1>9

(* The call takes the next part of its level, or goes on to the next level.    *)
LEMMA RangePart ==
    ASSUME CompactionAssumption, Inv, RangeInv, CompactPart
    PROVE  RangeInv'
<1> DEFINE n == call.level
           inputs == RangeInputs(n, call.from, call.hi)
           c == SetupOtherInputs(n, inputs)
<1>1. TypeOK /\ CallTypeOK /\ Aged /\ (~past.raced => LevelsApart)
    BY DEF Inv, TypeOK, SortedInv, ReadInv
<1>2. call.at = "pass" /\ ~job.on /\ tables2.imm = {}
    BY DEF CompactPart, Idle
<1>3. n \in Levels /\ n + 1 \in Levels /\ n < call.top /\ call.top \in Levels /\ n \in Nat
    BY <1>1, <1>2 DEF CallTypeOK, Levels, CompactionAssumption
<1>4. Held = {}
    BY <1>2 DEF Held
<1>5. /\ call = [at |-> call.at, level |-> call.level, top |-> call.top, lo |-> call.lo,
                 hi |-> call.hi, from |-> call.from, since |-> call.since]
      /\ call.lo \in Nat /\ call.hi \in Nat /\ (~past.raced => call.from \in Nat)
      /\ call.since \in Nat /\ call.since <= sequence
    BY <1>1 DEF CallTypeOK, RangeInv, RangeTypeOK
<1>6. ASSUME ~past.raced, call.since = sequence
      PROVE  /\ \A m \in Levels : m < n => NoneInRange(m)
             /\ \A e \in Entries(levels[n]) : InRange(e) => call.from <= e.key
             /\ tables2.mem = {}
    BY <1>2, <1>4, <1>6 DEF RangeInv, Done
<1>7. CASE inputs = {}
    <2>1. /\ call' = IF n + 1 = call.top THEN [call EXCEPT !.at = "done"]
                     ELSE [call EXCEPT !.level = n + 1, !.from = call.lo]
          /\ levels' = levels /\ tables2' = tables2 /\ sequence' = sequence
          /\ job' = job /\ past' = past
        BY <1>7 DEF CompactPart
    <2>2. /\ call'.lo = call.lo /\ call'.hi = call.hi /\ call'.since = call.since
          /\ call'.top = call.top
          /\ \/ n + 1 = call.top /\ call'.at = "done" /\ call'.from = call.from
             \/ call'.at = "pass" /\ call'.level = n + 1 /\ call'.from = call.lo
        BY <2>1, <1>2, <1>5
    <2>3. RangeTypeOK'
        BY <2>1, <2>2, <1>2, <1>3, <1>5 DEF RangeTypeOK
    <2> HIDE DEF n
    <2>4. ASSUME ~past.raced, call.since = sequence PROVE Done'
        <3>1. NoneInRange(n)
            <4>1. SUFFICES ASSUME NEW e \in Entries(levels[n]), InRange(e) PROVE FALSE
                BY DEF NoneInRange
            <4>2. e.key < call.from \/ call.hi < e.key
                BY <1>1, <1>3, <1>5, <1>7, <2>4, NoPartLeft
            <4>3. e.key \in Nat
                <5>1. e \in past.written
                    BY <4>1, <1>1, <1>3, LevelFiles DEF Entries
                <5> QED
                    BY <5>1, <1>1, WrittenTypes
            <4> QED
                BY <4>1, <4>2, <4>3, <1>5, <1>6, <2>4 DEF InRange
        <3>2. ASSUME NEW m \in Levels, m < n + 1 PROVE NoneInRange(m)'
            <4>1. m < n \/ m = n
                BY <3>2, <1>3 DEF Levels
            <4>2. NoneInRange(m)
                BY <3>1, <4>1, <1>6, <2>4
            <4> QED
                BY <4>2, <2>1, <2>2 DEF NoneInRange, InRange, Entries
        <3>3. CASE n + 1 = call.top /\ call'.at = "done"
            BY <3>2, <3>3, <2>2 DEF Done
        <3>4. CASE call'.at = "pass" /\ call'.level = n + 1 /\ call'.from = call.lo
            BY <3>2, <3>4, <2>2 DEF Done, InRange, Entries
        <3> QED
            BY <3>3, <3>4, <2>2
    <2> QED
        BY <2>1, <2>2, <2>3, <2>4, <1>2, <1>6 DEF RangeInv
<1>8. CASE inputs # {}
    <2>1. /\ Compact(n, c, TRUE)
          /\ call' = [call EXCEPT !.from = Resume(c)]
        BY <1>8 DEF CompactPart
    <2>2. Picked(n, c, TRUE)
        BY <1>1, <1>3, <1>8, PickedManual
    <2>3. ~past.raced => /\ Resume(c) \in Nat
                         /\ \A e \in Entries(levels[n] \ c.in0) :
                               e.key < call.from \/ call.hi < e.key \/ (n > 0 /\ Resume(c) <= e.key)
        BY <1>1, <1>3, <1>5, <1>8, PartTaken
    <2> HIDE DEF c, n
    <2>4. /\ levels' = levels /\ job'.on /\ job'.manual /\ job'.level = n /\ job'.in0 = c.in0
        <3>1. /\ levels' = levels
              /\ job' \in [on : {TRUE}, manual : {TRUE}, level : {n}, in0 : {c.in0},
                           in1 : {c.in1}, deeper : SUBSET Files(past.written),
                           grand : SUBSET Files(past.written), smallest : {SmallestSnapshot}]
            BY <1>1, <2>1, <2>2, StartStep DEF Moves
        <3> QED
            BY <3>1
    <2>5. /\ tables2' = tables2 /\ sequence' = sequence
          /\ past' = [past EXCEPT !.separated = @ \/ Separates(n, c)]
        BY <2>1 DEF Compact
    <2>6. past'.raced = past.raced
        BY <2>5, <1>1 DEF TypeOK
    <2>7. /\ call'.at = "pass" /\ call'.level = n /\ call'.lo = call.lo /\ call'.hi = call.hi
          /\ call'.since = call.since /\ call'.from = Resume(c)
        BY <2>1, <1>2, <1>5 DEF n
    <2>8. RangeTypeOK'
        BY <2>3, <2>4, <2>5, <2>6, <2>7, <1>5 DEF RangeTypeOK
    <2>9. ASSUME ~past.raced, call.since = sequence PROVE Done'
        <3>1. Held' = c.in0
            BY <2>4 DEF Held
        <3>2. \A m \in Levels : m < n => NoneInRange(m)'
            BY <2>4, <2>7, <2>9, <1>6 DEF NoneInRange, InRange, Entries
        <3>3. ASSUME NEW e \in Entries(levels[n] \ c.in0), InRange(e) PROVE Resume(c) <= e.key
            <4>1. e \in Entries(levels[n]) /\ e \in past.written
                BY <3>3, <1>1, <1>3, LevelFiles DEF Entries
            <4>2. e.key \in Nat /\ call.from \in Nat /\ call.from <= e.key /\ e.key <= call.hi
                BY <4>1, <3>3, <2>9, <1>1, <1>5, <1>6, WrittenTypes DEF InRange
            <4> QED
                BY <4>2, <2>3, <2>9, <3>3, <1>5
        <3> QED
            BY <3>1, <3>2, <3>3, <2>4, <2>7 DEF Done, InRange, Entries
    <2> QED
        BY <2>5, <2>6, <2>7, <2>8, <2>9, <1>2, <1>6 DEF RangeInv
<1> QED
    BY <1>7, <1>8

LEMMA RangeNext ==
    ASSUME CompactionAssumption, Inv, RangeInv, [LevelsNext]_levelsVars
    PROVE  RangeInv'
<1>1. /\ TypeOK /\ CallTypeOK /\ RangeTypeOK /\ sequence \in Nat
      /\ past \in [written : SUBSET Entry, raced : BOOLEAN, separated : BOOLEAN, manual : Nat]
      /\ call = [at |-> call.at, level |-> call.level, top |-> call.top, lo |-> call.lo,
                 hi |-> call.hi, from |-> call.from, since |-> call.since]
    BY DEF Inv, TypeOK, CallTypeOK, RangeInv
<1>2. ASSUME NEW batch \in Batches, Write(batch) PROVE RangeInv'
    BY <1>1, <1>2, RangeWrite
<1>3. ASSUME GetSnapshot PROVE RangeInv'
    BY <1>3, RangeKept DEF GetSnapshot
<1>4. ASSUME NEW s \in snaps, ReleaseSnapshot(s) PROVE RangeInv'
    BY <1>4, RangeKept DEF ReleaseSnapshot
<1>5. ASSUME PickCompaction PROVE RangeInv'
    <2>1. PICK n \in 0..(NumLevels - 2) : \E f \in levels[n] :
              Compact(n, SetupOtherInputs(n, Overlapping(n, {f})), FALSE)
        BY <1>5 DEF PickCompaction
    <2>2. PICK f \in levels[n] : Compact(n, SetupOtherInputs(n, Overlapping(n, {f})), FALSE)
        BY <2>1
    <2>3. ~job.on /\ call' = call
        BY <1>5 DEF PickCompaction, Idle
    <2>4. Picked(n, SetupOtherInputs(n, Overlapping(n, {f})), FALSE)
        BY <1>1, <2>1, PickedAutomatic
    <2> QED
        BY <1>1, <2>2, <2>3, <2>4, RangeAutomatic
<1>6. ASSUME NEW lo \in Keys, NEW hi \in Keys, CompactRange(lo, hi) PROVE RangeInv'
    <2>1. /\ call.at \in {"none", "done"}
          /\ call' = [at |-> "memtable", level |-> 0, top |-> MaxLevelWithFiles(lo, hi),
                      lo |-> lo, hi |-> hi, from |-> lo, since |-> sequence]
          /\ sequence' = sequence /\ job' = job
        BY <1>6 DEF CompactRange
    <2>2. lo \in Nat /\ hi \in Nat
        BY DEF CompactionAssumption
    <2>3. ~(job.on /\ job.manual)
        BY <2>1, <1>1 DEF RangeTypeOK
    <2>4. RangeTypeOK'
        BY <2>1, <2>2, <2>3, <1>1 DEF RangeTypeOK
    <2>5. Done' /\ call'.at \notin {"flush", "pass", "done"}
        BY <2>1 DEF Done
    <2> QED
        BY <2>4, <2>5 DEF RangeInv
<1>7. ASSUME ForceMemTable PROVE RangeInv'
    <2>1. /\ call.at = "memtable" /\ tables2' = [mem |-> {}, imm |-> tables2.mem]
          /\ call' = [call EXCEPT !.at = "flush"]
          /\ sequence' = sequence /\ job' = job /\ past' = past
        BY <1>7 DEF ForceMemTable
    <2>2. /\ call'.at = "flush" /\ call'.lo = call.lo /\ call'.hi = call.hi
          /\ call'.from = call.from /\ call'.since = call.since /\ call'.level = call.level
        BY <2>1, <1>1
    <2>3. RangeTypeOK'
        BY <2>1, <2>2, <1>1 DEF RangeTypeOK
    <2>4. Done'
        BY <2>2 DEF Done
    <2> QED
        BY <2>1, <2>2, <2>3, <2>4 DEF RangeInv
<1>8. ASSUME AwaitFlush PROVE RangeInv'
    <2>1. /\ call.at = "flush" /\ tables2.imm = {} /\ call' = [call EXCEPT !.at = "pass"]
          /\ levels' = levels /\ tables2' = tables2 /\ sequence' = sequence /\ job' = job
          /\ past' = past
        BY <1>8 DEF AwaitFlush
    <2>2. /\ call'.at = "pass" /\ call'.lo = call.lo /\ call'.hi = call.hi
          /\ call'.from = call.from /\ call'.since = call.since /\ call'.level = call.level
        BY <2>1, <1>1
    <2>3. RangeTypeOK'
        BY <2>1, <2>2, <1>1 DEF RangeTypeOK
    <2>4. call.level = 0 /\ call.from = call.lo
        BY <2>1, <1>1 DEF RangeTypeOK
    <2>5. Done'
        <3>1. \A m \in Levels : ~(m < 0)
            BY DEF Levels
        <3> QED
            BY <3>1, <2>2, <2>4 DEF Done, InRange
    <2> QED
        BY <2>1, <2>2, <2>3, <2>5 DEF RangeInv
<1>9. ASSUME UNCHANGED levelsVars PROVE RangeInv'
    BY <1>9, RangeKept DEF levelsVars
<1>10. ASSUME Settled PROVE RangeInv'
    BY <1>9, <1>10 DEF Settled
<1> QED
    BY <1>1, <1>2, <1>3, <1>4, <1>5, <1>6, <1>7, <1>8, <1>9, <1>10,
       RangeFlush, RangeWork, RangePart DEF LevelsNext, Background

LEMMA RangeFromInv ==
    ASSUME CompactionAssumption, Inv, RangeInv
    PROVE  RangeMovedDown
<1>1. SUFFICES ASSUME ~past.raced, call.at = "done", call.since = sequence,
                      NEW n \in 0..(call.top - 1), NEW e \in Entries(levels[n])
               PROVE  e.key < call.lo \/ call.hi < e.key
    BY DEF RangeMovedDown
<1>2. call.top \in Levels /\ Done
    BY <1>1 DEF RangeInv, RangeTypeOK
<1>3. n \in Levels /\ n < call.top
    BY <1>2 DEF Levels, CompactionAssumption
<1>4. ~InRange(e)
    BY <1>1, <1>2, <1>3 DEF Done, NoneInRange
<1>5. e.key \in Nat
    <2>1. PICK f \in levels[n] : e \in f
        BY <1>1 DEF Entries
    <2> QED
        BY <2>1, <1>3, LevelFiles, WrittenTypes DEF Inv
<1>6. call.lo \in Nat /\ call.hi \in Nat
    BY DEF RangeInv, RangeTypeOK
<1> QED
    BY <1>4, <1>5, <1>6 DEF InRange

(* What CompactRange promises of its range, when nothing was written since it   *)
(* began: for any range and number of calls, however its parts were cut and    *)
(* grown and whatever automatic compactions ran between them, it leaves no     *)
(* entry of the range above the last level that had one, unless a flush during *)
(* a manual compaction has made files of a level overlap.                     *)
THEOREM CompactRangeMovesDown ==
    ASSUME CompactionAssumption
    PROVE  LevelsSpec => []RangeMovedDown
<1>1. LevelsInit => RangeInv
    <2>1. SUFFICES ASSUME LevelsInit PROVE RangeInv
        OBVIOUS
    <2>2. call = NoCall /\ job = NoJob /\ sequence = 0
        BY <2>1 DEF LevelsInit
    <2>3. RangeTypeOK
        BY <2>2 DEF RangeTypeOK, NoCall, NoJob
    <2>4. Done /\ call.at \notin {"flush", "pass", "done"}
        BY <2>2 DEF Done, NoCall
    <2> QED
        BY <2>3, <2>4 DEF RangeInv
<1>2. Inv /\ RangeInv /\ [LevelsNext]_levelsVars => RangeInv'
    BY RangeNext
<1>3. Inv /\ RangeInv => RangeMovedDown
    BY RangeFromInv
<1>4. LevelsSpec => []Inv
    BY LevelsInv
<1> QED
    BY <1>1, <1>2, <1>3, <1>4, PTL DEF LevelsSpec
==============================================================================
