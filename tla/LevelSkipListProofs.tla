------------------------- MODULE LevelSkipListProofs -------------------------
(* Machine-checked theorems of LevelSkipList, for every set of entries, any   *)
(* number of readers and any greatest height.                                *)
EXTENDS LevelSkipList, TLAPS

SkipTypeOK ==
    /\ link \in [Lists -> [Nodes \cup {HeadNode} -> Nodes \cup {NoNode, Garbage}]]
    /\ top \in Heights
    /\ write \in [at : {"rest", "find", "node", "publish"}, key : Nodes \cup {0},
                  height : Heights, level : Lists]
    /\ write.at # "rest" => write.key \in Nodes
    /\ prev \in [Lists -> Nodes \cup {HeadNode}]
    /\ walk \in [Threads -> [at : {"rest", "walk"}, x : Nodes \cup {HeadNode}, level : Lists]]
    /\ goal \in [Threads -> [kind : {"geq", "less"}, target : Nat, there : SUBSET Nodes,
                             node : Nodes \cup {NoNode}]]

(* The node that follows n in the list of a level, or the end of the list.    *)
Listed(l) == Linked(l) \cup {HeadNode}
IsNext(l, n, m) ==
    /\ m \in Linked(l) \cup {NoNode}
    /\ m = NoNode => \A k \in Linked(l) : k <= n
    /\ m # NoNode => n < m /\ \A k \in Linked(l) : n < k => m <= k

(* Each level is a sorted list, and holds the lists above it.                 *)
Chains == \A l \in Lists : \A n \in Listed(l) : IsNext(l, n, link[l][n])
Nested == \A l, m \in Lists : l <= m => Linked(m) \subseteq Linked(l)
EmptyAbove == \A l \in Lists : top <= l => Linked(l) = {}

(* The new node belongs behind prev[l].                                      *)
SpliceAt(l) ==
    /\ prev[l] \in Listed(l) /\ prev[l] < write.key
    /\ link[l][prev[l]] # NoNode => write.key < link[l][prev[l]]

(* The writer has found its place on the levels it has left behind.           *)
Finding ==
    write.at = "find" =>
        /\ write.level = 0 /\ goal[Writer].kind = "geq" /\ goal[Writer].target = write.key
        /\ \A l \in Lists : link[l][write.key] = Garbage
        /\ \A l \in Lists :
              walk[Writer].at = "rest" \/ walk[Writer].level < l => SpliceAt(l)

(* It links the new node from the bottom up, and knows its place above.       *)
Linking ==
    write.at \in {"node", "publish"} =>
        /\ write.level < write.height /\ write.height <= top
        /\ walk[Writer].at = "rest"
        /\ \A l \in Lists :
              /\ l < write.level => write.key \in Linked(l)
              /\ write.level <= l => SpliceAt(l)
              /\ write.level < l => link[l][write.key] = Garbage
        /\ link[write.level][write.key] =
              IF write.at = "publish" THEN link[write.level][prev[write.level]] ELSE Garbage

Alone == write.at = "rest" => walk[Writer].at = "rest"

(* A search stands before its target, on a node of the level it is on; when   *)
(* it is over, its answer is right for what was there when it began.          *)
Answered(g) ==
    /\ g.node \in Linked(0) \cup {NoNode}
    /\ \A k \in g.there :
          IF g.kind = "geq" THEN g.target <= k => g.node # NoNode /\ g.node <= k
          ELSE (g.target = 0 \/ k < g.target) => k <= g.node
    /\ g.node # NoNode =>
          IF g.kind = "geq" THEN g.target <= g.node ELSE g.target = 0 \/ g.node < g.target
Searching(t) ==
    /\ walk[t].x \in Listed(walk[t].level)
    /\ goal[t].there \subseteq Linked(0)
    /\ walk[t].at = "walk" =>
          /\ goal[t].kind = "geq" => goal[t].target # 0
          /\ goal[t].target # 0 => walk[t].x < goal[t].target
    /\ walk[t].at = "rest" => Answered(goal[t])
Searches == \A t \in Threads : Searching(t)

Sorted == Chains /\ Nested /\ EmptyAbove
Writing == Finding /\ Linking /\ Alone
SkipInv == SkipTypeOK /\ Sorted /\ Writing /\ Searches

-----------------------------------------------------------------------------
(* What holds of the lists and of the writer while only searches move.        *)

LEMMA LinkedType == ASSUME NEW l \in Lists PROVE Linked(l) \subseteq Nodes
  BY DEF Linked

LEMMA SkipInitInv == ASSUME SkipAssumption PROVE SkipInit => SkipInv
  <1> SUFFICES ASSUME SkipInit PROVE SkipInv
    OBVIOUS
  <1>1. \A l \in Lists : Linked(l) = {}
    BY DEF SkipInit, Linked, HeadNode, SkipAssumption
  <1>2. SkipTypeOK
    BY DEF SkipInit, SkipTypeOK, Resting, Lists, Heights, HeadNode, SkipAssumption
  <1>3. Sorted
    BY <1>1 DEF SkipInit, Sorted, Chains, Nested, EmptyAbove, IsNext, Listed
  <1>4. Writing
    BY DEF SkipInit, Writing, Finding, Linking, Alone, Resting, Threads
  <1>5. Searches
    BY <1>1 DEF SkipInit, Searches, Searching, Answered, Listed
  <1>6. QED
    BY <1>2, <1>3, <1>4, <1>5 DEF SkipInv

(* The lists stay what they are while no link is stored.                      *)
LEMMA SortedKept ==
    ASSUME Sorted, UNCHANGED <<link, top>>, \A l \in Lists : Linked(l)' = Linked(l)
    PROVE  Sorted'
  BY DEF Sorted, Chains, Nested, EmptyAbove, IsNext, Listed

(* The other searches keep their place and their answers when lists grow.     *)
LEMMA SearchKept ==
    ASSUME SkipAssumption, SkipTypeOK, NEW t \in Threads, Searching(t),
           walk'[t] = walk[t], goal'[t] = goal[t],
           \A l \in Lists : Linked(l) \subseteq Linked(l)'
    PROVE  Searching(t)'
  <1>1. walk[t].level \in Lists /\ 0 \in Lists
    BY DEF SkipTypeOK, Lists, Heights, SkipAssumption
  <1>2. QED
    BY <1>1 DEF Searching, Answered, Listed

-----------------------------------------------------------------------------
(* Searches *)

LEMMA SameLists == ASSUME UNCHANGED <<link, write>> PROVE \A l \in Lists : Linked(l)' = Linked(l)
  BY DEF Linked

(* A search begins at the head of any list there has been.                    *)
LEMMA BeginSearch ==
    ASSUME SkipAssumption, SkipInv, NEW t \in Threads, NEW kind \in {"geq", "less"},
           NEW target \in Nat, NEW h \in Heights, kind = "geq" => target # 0,
           Begin(t, kind, target, h), \A l \in Lists : Linked(l)' = Linked(l)
    PROVE  /\ Searches'
           /\ walk' \in [Threads -> [at : {"rest", "walk"}, x : Nodes \cup {HeadNode}, level : Lists]]
           /\ goal' \in [Threads -> [kind : {"geq", "less"}, target : Nat, there : SUBSET Nodes,
                                     node : Nodes \cup {NoNode}]]
  <1>1. SkipTypeOK /\ Searches
    BY DEF SkipInv
  <1>2. h - 1 \in Lists /\ 0 \in Lists /\ Linked(0) \subseteq Nodes
    BY LinkedType DEF Heights, Lists, SkipAssumption
  <1>3. /\ walk'[t] = [at |-> "walk", x |-> HeadNode, level |-> h - 1]
        /\ goal'[t] = [kind |-> kind, target |-> target, there |-> Linked(0), node |-> goal[t].node]
        /\ \A u \in Threads \ {t} : walk'[u] = walk[u] /\ goal'[u] = goal[u]
    BY <1>1 DEF Begin, SkipTypeOK
  <1>4. /\ walk' \in [Threads -> [at : {"rest", "walk"}, x : Nodes \cup {HeadNode}, level : Lists]]
        /\ goal' \in [Threads -> [kind : {"geq", "less"}, target : Nat, there : SUBSET Nodes,
                                  node : Nodes \cup {NoNode}]]
    BY <1>1, <1>2 DEF Begin, SkipTypeOK
  <1>5. Searching(t)'
    BY <1>2, <1>3 DEF Searching, Listed, HeadNode
  <1>6. \A u \in Threads \ {t} : Searching(u)'
    <2>1. TAKE u \in Threads \ {t}
    <2>2. Searching(u)
      BY <1>1 DEF Searches
    <2>3. QED
      BY <1>1, <1>3, <2>2, SearchKept
  <1>7. QED
    BY <1>4, <1>5, <1>6 DEF Searches

(* The next node of a list, as the lists' invariant has it.                   *)
LEMMA Follower ==
    ASSUME SkipInv, NEW l \in Lists, NEW n \in Listed(l)
    PROVE  IsNext(l, n, link[l][n])
  BY DEF SkipInv, Sorted, Chains

LEMMA StepSearch ==
    ASSUME SkipAssumption, SkipInv, NEW t \in Threads, Step(t)
    PROVE  /\ Searches'
           /\ walk' \in [Threads -> [at : {"rest", "walk"}, x : Nodes \cup {HeadNode}, level : Lists]]
           /\ goal' \in [Threads -> [kind : {"geq", "less"}, target : Nat, there : SUBSET Nodes,
                                     node : Nodes \cup {NoNode}]]
           /\ prev' \in [Lists -> Nodes \cup {HeadNode}]
  <1> DEFINE w == walk[t]
             g == goal[t]
             n == link[w.level][w.x]
  <1>1. SkipTypeOK /\ Searching(t)
    BY DEF SkipInv, Searches
  <1>2. /\ w.level \in Lists /\ 0 \in Lists /\ w.x \in Listed(w.level) /\ w.at = "walk"
        /\ w.x \in Nodes \cup {HeadNode} /\ g.target \in Nat /\ g.kind \in {"geq", "less"}
        /\ \A l \in Lists : Linked(l) \subseteq Nodes
    BY <1>1, LinkedType DEF SkipTypeOK, Searching, Step, Lists, Heights, SkipAssumption
  <1>3. IsNext(w.level, w.x, n)
    BY <1>2, Follower
  <1>4. n \in Linked(w.level) \cup {NoNode} /\ n \in Nodes \cup {NoNode}
    BY <1>2, <1>3 DEF IsNext
  <1>5. \A l \in Lists : Linked(l)' = Linked(l)
    BY SameLists DEF Step
  <1>6. \A u \in Threads \ {t} : walk'[u] = walk[u] /\ goal'[u] = goal[u]
    BY <1>1 DEF Step, SkipTypeOK
  <1>7. \A u \in Threads \ {t} : Searching(u)'
    <2>1. TAKE u \in Threads \ {t}
    <2>2. Searching(u)
      BY DEF SkipInv, Searches
    <2>3. QED
      BY <1>1, <1>5, <1>6, <2>2, SearchKept
  <1>8. CASE ~Stops(t, n)
    <2>1. /\ walk' = [walk EXCEPT ![t].x = n] /\ UNCHANGED <<prev, goal>> /\ n # NoNode
          /\ g.target # 0 => n < g.target
      BY <1>2, <1>4, <1>8 DEF Step, Stops, SkipAssumption
    <2>2. /\ walk'[t].x = n /\ walk'[t].at = "walk" /\ walk'[t].level = w.level
          /\ walk' \in [Threads -> [at : {"rest", "walk"}, x : Nodes \cup {HeadNode}, level : Lists]]
      BY <1>1, <1>2, <1>4, <2>1 DEF SkipTypeOK
    <2>3. Searching(t)'
      BY <1>1, <1>2, <1>4, <1>5, <2>1, <2>2 DEF Searching, Listed
    <2>4. QED
      BY <1>1, <1>7, <2>1, <2>2, <2>3 DEF Searches, SkipTypeOK
  <1>9. CASE Stops(t, n)
    <2>1. n # NoNode => g.target # 0 /\ g.target <= n
      BY <1>2, <1>4, <1>9 DEF Stops, SkipAssumption
    <2>2. prev' \in [Lists -> Nodes \cup {HeadNode}]
      BY <1>1, <1>2, <1>9 DEF SkipTypeOK, Step
    <2>3. CASE w.level > 0
      <3>1. walk' = [walk EXCEPT ![t].level = @ - 1] /\ UNCHANGED goal /\ w.level - 1 \in Lists
        BY <1>2, <1>9, <2>3 DEF Step, Lists, SkipAssumption
      <3>2. /\ walk'[t].x = w.x /\ walk'[t].at = "walk" /\ walk'[t].level = w.level - 1
            /\ walk' \in [Threads -> [at : {"rest", "walk"}, x : Nodes \cup {HeadNode}, level : Lists]]
        BY <1>1, <1>2, <3>1 DEF SkipTypeOK
      <3>3. Linked(w.level) \subseteq Linked(w.level - 1)
        BY <1>2, <3>1 DEF SkipInv, Sorted, Nested, Lists, SkipAssumption
      <3>4. Searching(t)'
        BY <1>1, <1>2, <1>5, <3>1, <3>2, <3>3 DEF Searching, Listed
      <3>5. QED
        BY <1>1, <1>7, <2>2, <3>1, <3>2, <3>4 DEF Searches, SkipTypeOK
    <2>4. CASE ~(w.level > 0)
      <3>1. w.level = 0
        BY <1>2, <2>4 DEF Lists, SkipAssumption
      <3> DEFINE found == IF g.kind = "geq" THEN n ELSE IF w.x = HeadNode THEN NoNode ELSE w.x
      <3>2. walk' = [walk EXCEPT ![t].at = "rest"] /\ goal' = [goal EXCEPT ![t].node = found]
        BY <1>2, <1>9, <2>4 DEF Step
      <3>3. /\ found \in Linked(0) \cup {NoNode} /\ found \in Nodes \cup {NoNode}
        BY <1>2, <1>4, <3>1 DEF Listed
      <3>4. /\ walk'[t].x = w.x /\ walk'[t].at = "rest" /\ walk'[t].level = w.level
            /\ walk' \in [Threads -> [at : {"rest", "walk"}, x : Nodes \cup {HeadNode}, level : Lists]]
        BY <1>1, <1>2, <3>2 DEF SkipTypeOK
      <3>5. /\ goal'[t].kind = g.kind /\ goal'[t].target = g.target /\ goal'[t].there = g.there
            /\ goal'[t].node = found
            /\ goal' \in [Threads -> [kind : {"geq", "less"}, target : Nat, there : SUBSET Nodes,
                                      node : Nodes \cup {NoNode}]]
        <4> HIDE DEF found
        <4>1. goal \in [Threads -> [kind : {"geq", "less"}, target : Nat, there : SUBSET Nodes,
                                    node : Nodes \cup {NoNode}]]
          BY <1>1 DEF SkipTypeOK
        <4>2. goal' = [goal EXCEPT ![t].node = found] /\ found \in Nodes \cup {NoNode}
          BY <3>2, <3>3
        <4>3. QED
          BY <4>1, <4>2
      <3>6. g.there \subseteq Linked(0)
        BY <1>1 DEF Searching
      <3>7. /\ g.kind = "geq" => g.target # 0
            /\ g.target # 0 => w.x < g.target
        BY <1>1, <1>2 DEF Searching
      <3>8. ASSUME NEW k \in g.there
            PROVE  IF g.kind = "geq" THEN g.target <= k => found # NoNode /\ found <= k
                   ELSE (g.target = 0 \/ k < g.target) => k <= found
        <4>0. \A m \in Nodes : m \in Nat /\ m > 0
          BY DEF SkipAssumption
        <4>1. k \in Linked(0) /\ k \in Nat /\ k > 0
          BY <1>2, <3>6, <3>8, <4>0
        <4>2. w.x \in Nat /\ (n # NoNode => n \in Nat)
          BY <1>2, <1>4, <4>0 DEF HeadNode
        <4>3. n = NoNode => k <= w.x
          BY <1>3, <3>1, <4>1 DEF IsNext
        <4>4. n # NoNode => (w.x < n /\ (w.x < k => n <= k))
          BY <1>3, <3>1, <4>1 DEF IsNext
        <4>5. CASE g.kind = "geq"
          BY <1>2, <3>7, <4>1, <4>2, <4>3, <4>4, <4>5
        <4>6. CASE g.kind # "geq"
          BY <1>2, <2>1, <3>7, <4>1, <4>2, <4>3, <4>4, <4>6 DEF HeadNode
        <4>7. QED
          BY <4>5, <4>6
      <3>9. found # NoNode =>
              IF g.kind = "geq" THEN g.target <= found ELSE g.target = 0 \/ found < g.target
        BY <1>2, <2>1, <3>7
      <3>10. Answered(goal[t])'
        BY <1>2, <1>5, <3>3, <3>5, <3>8, <3>9 DEF Answered
      <3>11. Searching(t)'
        BY <1>1, <1>2, <1>5, <3>4, <3>5, <3>6, <3>10 DEF Searching, Listed
      <3>12. QED
        BY <1>7, <2>2, <3>4, <3>5, <3>11 DEF Searches
    <2>5. QED
      BY <2>3, <2>4
  <1>10. QED
    BY <1>8, <1>9

(* What a reader does is nothing to the writer.                               *)
LEMMA WritingKept ==
    ASSUME Writing, SkipTypeOK, UNCHANGED <<link, top, write, prev>>,
           walk'[Writer] = walk[Writer], goal'[Writer] = goal[Writer]
    PROVE  Writing'
  <1>1. \A l \in Lists : Linked(l)' = Linked(l) /\ Listed(l)' = Listed(l) /\ SpliceAt(l)' = SpliceAt(l)
    BY DEF Linked, Listed, SpliceAt
  <1>2. QED
    BY <1>1 DEF Writing, Finding, Linking, Alone

LEMMA ReaderStep ==
    ASSUME SkipAssumption, SkipInv, NEW t \in Readers,
           Step(t) \/ \E h \in 1..top : (\E k \in Nodes : Seek(t, k, h)) \/ SeekToLast(t, h) \/ Prev(t, h)
    PROVE  SkipInv'
  <1>1. SkipTypeOK /\ Sorted /\ Writing /\ t \in Threads /\ t # Writer /\ Writer \in Threads
    BY DEF SkipInv, Threads, SkipAssumption
  <1>2. 1..top \subseteq Heights /\ Nodes \subseteq Nat /\ 0 \notin Nodes
    BY <1>1 DEF SkipTypeOK, Heights, SkipAssumption
  <1>3. /\ UNCHANGED <<link, top, write, prev>> /\ walk'[Writer] = walk[Writer] /\ goal'[Writer] = goal[Writer]
        /\ Searches'
        /\ walk' \in [Threads -> [at : {"rest", "walk"}, x : Nodes \cup {HeadNode}, level : Lists]]
        /\ goal' \in [Threads -> [kind : {"geq", "less"}, target : Nat, there : SUBSET Nodes,
                                  node : Nodes \cup {NoNode}]]
    <2>1. CASE Step(t)
      <3>1. UNCHANGED <<link, top, write, prev>>
        BY <2>1, <1>1 DEF Step
      <3>2. walk'[Writer] = walk[Writer] /\ goal'[Writer] = goal[Writer]
        BY <2>1, <1>1 DEF Step, SkipTypeOK
      <3>3. QED
        BY <2>1, <1>1, <3>1, <3>2, StepSearch
    <2>2. ASSUME NEW h \in 1..top, NEW kind \in {"geq", "less"}, NEW target \in Nat,
                 kind = "geq" => target # 0, Begin(t, kind, target, h),
                 UNCHANGED <<link, top, write, prev>>
          PROVE  /\ walk'[Writer] = walk[Writer] /\ goal'[Writer] = goal[Writer]
                 /\ Searches'
                 /\ walk' \in [Threads -> [at : {"rest", "walk"}, x : Nodes \cup {HeadNode}, level : Lists]]
                 /\ goal' \in [Threads -> [kind : {"geq", "less"}, target : Nat, there : SUBSET Nodes,
                                           node : Nodes \cup {NoNode}]]
      <3>1. walk'[Writer] = walk[Writer] /\ goal'[Writer] = goal[Writer]
        BY <1>1, <2>2 DEF Begin, SkipTypeOK
      <3>2. \A l \in Lists : Linked(l)' = Linked(l)
        BY <2>2, SameLists
      <3>3. h \in Heights
        BY <1>2
      <3>4. QED
        BY <1>1, <2>2, <3>1, <3>2, <3>3, BeginSearch
    <2>3. CASE \E h \in 1..top, k \in Nodes : Seek(t, k, h)
      <3>1. PICK h \in 1..top, k \in Nodes : Seek(t, k, h)
        BY <2>3
      <3>2. k \in Nat /\ k # 0
        BY <1>2
      <3>3. QED
        BY <3>1, <3>2, <2>2 DEF Seek
    <2>4. CASE \E h \in 1..top : SeekToLast(t, h)
      BY <2>4, <2>2 DEF SeekToLast
    <2>5. CASE \E h \in 1..top : Prev(t, h)
      <3>1. goal[t].node # NoNode => goal[t].node \in Nat
        BY <1>1, <1>2 DEF SkipTypeOK
      <3>2. QED
        BY <2>5, <2>2, <3>1 DEF Prev
    <2>6. QED
      BY <2>1, <2>3, <2>4, <2>5
  <1>4. Sorted'
    BY <1>1, <1>3, SameLists, SortedKept
  <1>5. Writing'
    BY <1>1, <1>3, WritingKept
  <1>6. SkipTypeOK'
    BY <1>1, <1>3 DEF SkipTypeOK
  <1>7. QED
    BY <1>3, <1>4, <1>5, <1>6 DEF SkipInv

(* One load answers Next and SeekToFirst.                                     *)
LEMMA FollowStep ==
    ASSUME SkipAssumption, SkipInv, NEW t \in Readers, Next(t) \/ SeekToFirst(t)
    PROVE  SkipInv'
  <1>1. SkipTypeOK /\ Sorted /\ Writing /\ t \in Threads /\ t # Writer /\ Writer \in Threads /\ 0 \in Lists
    BY DEF SkipInv, Threads, Lists, SkipAssumption
  <1>2. /\ \A m \in Nodes : m \in Nat /\ m > 0
        /\ Linked(0) \subseteq Nodes
    BY <1>1, LinkedType DEF SkipAssumption
  <1>3. PICK n \in Listed(0) : Follow(t, n)
    <2>1. CASE SeekToFirst(t)
      BY <2>1 DEF SeekToFirst, Listed
    <2>2. CASE Next(t)
      <3>1. Answered(goal[t]) /\ goal[t].node # NoNode
        BY <1>1, <2>2 DEF Next, Follow, Free, SkipInv, Searches, Searching
      <3>2. goal[t].node \in Listed(0)
        BY <3>1 DEF Answered, Listed
      <3>3. QED
        BY <2>2, <3>2 DEF Next
    <2>3. QED
      BY <2>1, <2>2
  <1>4. IsNext(0, n, link[0][n]) /\ n \in Nat
    BY <1>1, <1>2, Follower DEF Listed, HeadNode
  <1>5. /\ UNCHANGED <<link, top, write, prev, walk>> /\ walk[t].at = "rest"
        /\ goal' = [goal EXCEPT ![t] = [kind |-> "geq", target |-> n + 1, there |-> Linked(0),
                                        node |-> link[0][n]]]
    BY <1>3 DEF Follow, Free
  <1>6. link[0][n] \in Linked(0) \cup {NoNode} /\ link[0][n] \in Nodes \cup {NoNode}
    BY <1>2, <1>4 DEF IsNext
  <1>7. /\ goal'[t] = [kind |-> "geq", target |-> n + 1, there |-> Linked(0), node |-> link[0][n]]
        /\ \A u \in Threads \ {t} : goal'[u] = goal[u]
        /\ goal' \in [Threads -> [kind : {"geq", "less"}, target : Nat, there : SUBSET Nodes,
                                  node : Nodes \cup {NoNode}]]
    BY <1>1, <1>2, <1>4, <1>5, <1>6 DEF SkipTypeOK
  <1>8. \A l \in Lists : Linked(l)' = Linked(l)
    BY <1>5, SameLists
  <1>9. Answered(goal[t])'
    <2>1. ASSUME NEW k \in Linked(0), n + 1 <= k
          PROVE  link[0][n] # NoNode /\ link[0][n] <= k
      <3>1. k \in Nat /\ n < k /\ ~(k <= n)
        BY <1>2, <1>4, <2>1
      <3>2. QED
        BY <1>4, <3>1 DEF IsNext
    <2>2. link[0][n] # NoNode => n + 1 <= link[0][n]
      BY <1>2, <1>4, <1>6 DEF IsNext
    <2>3. QED
      BY <1>1, <1>6, <1>7, <1>8, <2>1, <2>2 DEF Answered
  <1>10. Searching(t)'
    <2>1. walk[t].level \in Lists /\ walk[t].x \in Listed(walk[t].level)
      BY <1>1 DEF SkipInv, Searches, Searching, SkipTypeOK
    <2>2. QED
      BY <1>1, <1>5, <1>7, <1>8, <1>9, <2>1 DEF Searching, Listed
  <1>11. Searches'
    <2>1. \A u \in Threads \ {t} : Searching(u)'
      BY <1>1, <1>5, <1>7, <1>8, SearchKept DEF SkipInv, Searches
    <2>2. QED
      BY <1>10, <2>1 DEF Searches
  <1>12. SkipTypeOK'
    BY <1>1, <1>5, <1>7 DEF SkipTypeOK
  <1>13. Sorted' /\ Writing'
    BY <1>1, <1>5, <1>7, <1>8, SortedKept, WritingKept
  <1>14. QED
    BY <1>11, <1>12, <1>13 DEF SkipInv

-----------------------------------------------------------------------------
(* The writer *)

(* Where its search stops on a level, the new node belongs.                   *)
LEMMA WriterStep ==
    ASSUME SkipAssumption, SkipInv, Step(Writer)
    PROVE  SkipInv'
  <1> DEFINE w == walk[Writer]
             n == link[w.level][w.x]
  <1>1. /\ SkipTypeOK /\ Sorted /\ Writing /\ Writer \in Threads /\ Searching(Writer)
        /\ UNCHANGED <<link, top, write>> /\ w.at = "walk"
    BY DEF SkipInv, Threads, Searches, Step
  <1>2. \A l \in Lists : Linked(l)' = Linked(l) /\ Listed(l)' = Listed(l)
    BY <1>1 DEF Linked, Listed
  <1>3. /\ Searches'
        /\ walk' \in [Threads -> [at : {"rest", "walk"}, x : Nodes \cup {HeadNode}, level : Lists]]
        /\ goal' \in [Threads -> [kind : {"geq", "less"}, target : Nat, there : SUBSET Nodes,
                                  node : Nodes \cup {NoNode}]]
        /\ prev' \in [Lists -> Nodes \cup {HeadNode}]
    BY <1>1, StepSearch
  <1>4. write.at = "find" /\ write.key \in Nodes /\ goal[Writer].target = write.key /\ goal[Writer].kind = "geq"
    BY <1>1 DEF Writing, Alone, Linking, Finding, SkipTypeOK
  <1>5. /\ w.level \in Lists /\ w.x \in Listed(w.level) /\ w.x < write.key
        /\ write.key \in Nat /\ write.key # 0
    BY <1>1, <1>4 DEF SkipTypeOK, Searching, SkipAssumption
  <1>6. n # NoNode => n \in Linked(w.level) /\ n \in Nat /\ n # write.key
    <2>1. IsNext(w.level, w.x, n) /\ Linked(w.level) \subseteq Nodes /\ Nodes \subseteq Nat
      BY <1>5, Follower, LinkedType DEF SkipAssumption
    <2>2. write.key \notin Linked(w.level)
      BY <1>1, <1>4, <1>5 DEF Writing, Finding, Linked
    <2>3. QED
      BY <2>1, <2>2 DEF IsNext
  <1>7. Finding'
    <2>1. CASE ~Stops(Writer, n)
      <3>1. /\ walk'[Writer].at = w.at /\ walk'[Writer].level = w.level /\ UNCHANGED <<prev, goal>>
        BY <1>1, <2>1 DEF Step, SkipTypeOK
      <3>2. \A l \in Lists : SpliceAt(l)' = SpliceAt(l)
        BY <1>1, <1>2, <3>1 DEF SpliceAt
      <3>3. QED
        BY <1>1, <3>1, <3>2 DEF Writing, Finding
    <2>2. CASE Stops(Writer, n)
      <3>1. /\ prev' = [prev EXCEPT ![w.level] = w.x]
            /\ IF w.level > 0 THEN walk' = [walk EXCEPT ![Writer].level = @ - 1]
               ELSE walk' = [walk EXCEPT ![Writer].at = "rest"]
            /\ goal'[Writer].kind = "geq" /\ goal'[Writer].target = write.key
        BY <1>1, <1>4, <2>2 DEF Step, SkipTypeOK
      <3>2. \A l \in Lists : walk'[Writer].at = "rest" \/ walk'[Writer].level < l =>
                                 l = w.level \/ (w.at = "rest" \/ w.level < l)
        <4>1. w.level \in 0..(MaxHeight - 1) /\ MaxHeight \in Nat
          BY <1>5 DEF Lists, SkipAssumption
        <4>2. CASE w.level > 0
          <5>1. walk'[Writer].at = "walk" /\ walk'[Writer].level = w.level - 1
            BY <1>1, <3>1, <4>2 DEF SkipTypeOK
          <5>2. QED
            BY <4>1, <5>1 DEF Lists
        <4>3. CASE ~(w.level > 0)
          BY <4>1, <4>3 DEF Lists
        <4>4. QED
          BY <4>2, <4>3
      <3>3. ASSUME NEW l \in Lists, l = w.level PROVE SpliceAt(l)'
        <4>1. prev'[w.level] = w.x
          BY <1>1, <1>5, <3>1 DEF SkipTypeOK
        <4>2. n # NoNode => write.key < n
          BY <1>4, <1>5, <1>6, <2>2 DEF Stops
        <4>3. QED
          BY <1>1, <1>2, <1>5, <3>3, <4>1, <4>2 DEF SpliceAt
      <3>4. \A l \in Lists : l # w.level /\ SpliceAt(l) => SpliceAt(l)'
        BY <1>1, <1>2, <1>5, <3>1 DEF SpliceAt, SkipTypeOK
      <3>5. /\ write.level = 0
            /\ \A l \in Lists : link[l][write.key] = Garbage
            /\ \A l \in Lists : w.at = "rest" \/ w.level < l => SpliceAt(l)
        BY <1>1, <1>4 DEF Writing, Finding
      <3>6. \A l \in Lists : walk'[Writer].at = "rest" \/ walk'[Writer].level < l => SpliceAt(l)'
        BY <3>2, <3>3, <3>4, <3>5
      <3>7. QED
        BY <1>1, <3>1, <3>5, <3>6 DEF Finding
    <2>3. QED
      BY <2>1, <2>2
  <1>8. Linking' /\ Alone'
    BY <1>1, <1>4 DEF Linking, Alone
  <1>9. Sorted'
    BY <1>1, <1>2, SortedKept
  <1>10. SkipTypeOK'
    BY <1>1, <1>3 DEF SkipTypeOK
  <1>11. QED
    BY <1>3, <1>7, <1>8, <1>9, <1>10 DEF SkipInv, Writing

LEMMA StartInsertStep ==
    ASSUME SkipAssumption, SkipInv, NEW k \in Nodes, NEW h \in Heights, StartInsert(k, h)
    PROVE  SkipInv'
  <1>1. SkipTypeOK /\ Sorted /\ Writing /\ Writer \in Threads /\ 0 \in Lists /\ 1 \in Heights
    BY DEF SkipInv, Threads, Lists, Heights, SkipAssumption
  <1>2. /\ write.at = "rest" /\ link[0][k] = Garbage /\ UNCHANGED <<link, top>>
        /\ write' = [at |-> "find", key |-> k, height |-> h, level |-> 0]
        /\ prev' = [l \in Lists |-> HeadNode] /\ Begin(Writer, "geq", k, top)
    BY DEF StartInsert
  <1>3. \A l \in Lists : Linked(l)' = Linked(l) /\ Listed(l)' = Listed(l)
    BY <1>2 DEF Linked, Listed
  <1>4. \A l \in Lists : link[l][k] = Garbage
    <2>1. k \notin Linked(0)
      BY <1>2 DEF Linked
    <2>2. \A l \in Lists : k \notin Linked(l)
      BY <1>1, <2>1 DEF Sorted, Nested, Lists
    <2>3. QED
      BY <1>2, <2>2 DEF Linked
  <1>5. k \in Nat /\ k # 0 /\ k > 0 /\ top \in Heights
    BY <1>1 DEF SkipAssumption, SkipTypeOK
  <1>6. /\ Searches'
        /\ walk' \in [Threads -> [at : {"rest", "walk"}, x : Nodes \cup {HeadNode}, level : Lists]]
        /\ goal' \in [Threads -> [kind : {"geq", "less"}, target : Nat, there : SUBSET Nodes,
                                  node : Nodes \cup {NoNode}]]
    BY <1>1, <1>2, <1>3, <1>5, BeginSearch
  <1>7. /\ walk'[Writer].at = "walk" /\ walk'[Writer].level = top - 1
        /\ goal'[Writer].kind = "geq" /\ goal'[Writer].target = k
    BY <1>1, <1>2 DEF Begin, SkipTypeOK
  <1>8. Finding'
    <2>1. ASSUME NEW l \in Lists, walk'[Writer].level < l
          PROVE  SpliceAt(l)'
      <3>1. Linked(l) = {}
        BY <1>1, <1>5, <1>7, <2>1 DEF Sorted, EmptyAbove, Lists, Heights
      <3>2. IsNext(l, HeadNode, link[l][HeadNode])
        BY Follower DEF Listed
      <3>3. link[l][HeadNode] = NoNode
        BY <3>1, <3>2 DEF IsNext
      <3>4. QED
        BY <1>2, <1>3, <1>5, <3>3 DEF SpliceAt, Listed, HeadNode
    <2>2. QED
      BY <1>2, <1>4, <1>7, <2>1 DEF Finding
  <1>9. Linking' /\ Alone'
    BY <1>2 DEF Linking, Alone
  <1>10. Sorted'
    BY <1>1, <1>2, <1>3, SortedKept
  <1>11. SkipTypeOK'
    BY <1>1, <1>2, <1>6 DEF SkipTypeOK, HeadNode
  <1>12. QED
    BY <1>6, <1>8, <1>9, <1>10, <1>11 DEF SkipInv, Writing

LEMMA RaiseHeightStep ==
    ASSUME SkipAssumption, SkipInv, RaiseHeight
    PROVE  SkipInv'
  <1>1. SkipTypeOK /\ Sorted /\ Writing /\ Searches
    BY DEF SkipInv
  <1>2. /\ write.at = "find" /\ walk[Writer].at = "rest" /\ write' = [write EXCEPT !.at = "node"]
        /\ top' = IF write.height > top THEN write.height ELSE top
        /\ UNCHANGED <<link, prev, walk, goal>>
    BY DEF RaiseHeight
  <1>3. /\ write'.at = "node" /\ write'.key = write.key /\ write'.height = write.height
        /\ write'.level = write.level /\ write.height \in Heights /\ top \in Heights
        /\ top' \in Heights /\ top <= top' /\ write.height <= top'
    BY <1>1, <1>2 DEF SkipTypeOK, Heights, SkipAssumption
  <1>4. \A l \in Lists : Linked(l)' = Linked(l) /\ Listed(l)' = Listed(l) /\ SpliceAt(l)' = SpliceAt(l)
    BY <1>2, <1>3 DEF Linked, Listed, SpliceAt
  <1>5. SkipTypeOK'
    BY <1>1, <1>2, <1>3 DEF SkipTypeOK
  <1>6. Sorted'
    <2>1. Chains' /\ Nested'
      BY <1>1, <1>2, <1>4 DEF Sorted, Chains, Nested, IsNext
    <2>2. EmptyAbove'
      BY <1>1, <1>3, <1>4 DEF Sorted, EmptyAbove, Heights, Lists
    <2>3. QED
      BY <2>1, <2>2 DEF Sorted
  <1>7. Writing'
    <2>1. /\ write.level = 0
          /\ \A l \in Lists : link[l][write.key] = Garbage
          /\ \A l \in Lists : SpliceAt(l)
      BY <1>1, <1>2 DEF Writing, Finding
    <2>2. 0 \in Lists /\ \A l \in Lists : ~(l < 0)
      BY DEF Lists, SkipAssumption
    <2>3. Linking'
      BY <1>2, <1>3, <1>4, <2>1, <2>2 DEF Linking, Heights
    <2>4. QED
      BY <1>2, <1>3, <2>3 DEF Writing, Finding, Alone
  <1>8. Searches'
    BY <1>1, <1>2, <1>4, SearchKept DEF Searches
  <1>9. QED
    BY <1>5, <1>6, <1>7, <1>8 DEF SkipInv

(* What the writer knows when it links its node on one level.                 *)
LEMMA AtSplice ==
    ASSUME SkipAssumption, SkipInv, write.at \in {"node", "publish"}
    PROVE  /\ write.level \in Lists /\ write.key \in Nodes /\ write.level < write.height
           /\ SpliceAt(write.level)
           /\ prev[write.level] \in Nodes \cup {HeadNode} /\ prev[write.level] # write.key
           /\ \A l \in Lists : write.key \in Linked(l) => l < write.level
           /\ \A l \in Lists : Linked(l) \subseteq Nodes
           /\ link[write.level][prev[write.level]] \in Linked(write.level) \cup {NoNode}
  <1>1. SkipTypeOK /\ Linking
    BY DEF SkipInv, Writing
  <1>2. write.level \in Lists /\ write.key \in Nodes /\ write.level < write.height
    BY <1>1 DEF SkipTypeOK, Linking
  <1>3. SpliceAt(write.level) /\ write.key \in Nat
    <2>1. write.level \in Nat /\ write.level <= write.level
      BY <1>2 DEF Lists
    <2>2. QED
      BY <1>1, <1>2, <2>1 DEF Linking, SkipAssumption
  <1>4. prev[write.level] \in Nodes \cup {HeadNode} /\ prev[write.level] # write.key
    BY <1>1, <1>2, <1>3 DEF SkipTypeOK, SpliceAt
  <1>5. \A l \in Lists : write.key \in Linked(l) => l < write.level
    <2>1. SUFFICES ASSUME NEW l \in Lists, ~(l < write.level)
                   PROVE  write.key \notin Linked(l)
      OBVIOUS
    <2>2. CASE l = write.level
      BY <1>1, <2>2 DEF Linking, Linked
    <2>3. CASE l # write.level
      BY <1>1, <1>2, <2>1, <2>3 DEF Linking, Linked, Lists
    <2>4. QED
      BY <2>2, <2>3
  <1>6. IsNext(write.level, prev[write.level], link[write.level][prev[write.level]])
    BY <1>2, <1>3, Follower DEF SpliceAt
  <1>7. QED
    BY <1>2, <1>3, <1>4, <1>5, <1>6, LinkedType DEF IsNext

(* The new node's own link is stored before anyone can reach it.              *)
LEMMA SetNextStep ==
    ASSUME SkipAssumption, SkipInv, SetNext
    PROVE  SkipInv'
  <1>1. SkipTypeOK /\ Sorted /\ Writing /\ Searches
    BY DEF SkipInv
  <1>0. PICK lev \in Lists, key \in Nodes, m \in Nodes \cup {NoNode} :
            lev = write.level /\ key = write.key /\ m = link[write.level][prev[write.level]]
    BY AtSplice DEF SetNext
  <1>2. /\ write.at = "node" /\ write' = [write EXCEPT !.at = "publish"]
        /\ link' = [link EXCEPT ![lev][key] = m]
        /\ UNCHANGED <<top, prev, walk, goal>>
    BY <1>0 DEF SetNext
  <1>3. /\ lev \in Lists /\ key \in Nodes /\ lev < write.height /\ SpliceAt(lev)
        /\ prev[lev] \in Nodes \cup {HeadNode} /\ prev[lev] # key
        /\ \A l \in Lists : key \in Linked(l) => l < lev
        /\ \A l \in Lists : Linked(l) \subseteq Nodes
        /\ m \in Linked(lev) \cup {NoNode}
    BY <1>0, <1>2, AtSplice
  <1>4. /\ write'.at = "publish" /\ write'.key = key /\ write'.height = write.height /\ write'.level = lev
        /\ write' \in [at : {"rest", "find", "node", "publish"}, key : Nodes \cup {0},
                       height : Heights, level : Lists]
    BY <1>0, <1>1, <1>2, <1>3 DEF SkipTypeOK
  <1>5. /\ link'[lev][key] = m
        /\ \A l \in Lists, n \in Nodes \cup {HeadNode} : l # lev \/ n # key => link'[l][n] = link[l][n]
        /\ link' \in [Lists -> [Nodes \cup {HeadNode} -> Nodes \cup {NoNode, Garbage}]]
    <2>1. link \in [Lists -> [Nodes \cup {HeadNode} -> Nodes \cup {NoNode, Garbage}]]
      BY <1>1 DEF SkipTypeOK
    <2>2. /\ link'[lev] = [link[lev] EXCEPT ![key] = m]
          /\ \A l \in Lists \ {lev} : link'[l] = link[l]
          /\ link' \in [Lists -> [Nodes \cup {HeadNode} -> Nodes \cup {NoNode, Garbage}]]
      <3>1. link' = [link EXCEPT ![lev] = [link[lev] EXCEPT ![key] = m]]
        BY <1>2, <2>1
      <3>2. QED
        BY <1>3, <2>1, <3>1
    <2>3. /\ link[lev] \in [Nodes \cup {HeadNode} -> Nodes \cup {NoNode, Garbage}]
          /\ key \in Nodes \cup {HeadNode}
      BY <1>3, <2>1
    <2>4. /\ link'[lev][key] = m
          /\ \A n \in Nodes \cup {HeadNode} : n # key => link'[lev][n] = link[lev][n]
      BY <2>2, <2>3
    <2>5. \A l \in Lists, n \in Nodes \cup {HeadNode} : l # lev \/ n # key => link'[l][n] = link[l][n]
      BY <2>2, <2>4
    <2>6. QED
      BY <2>2, <2>4, <2>5
  <1>6. \A l \in Lists : Linked(l)' = Linked(l) /\ Listed(l)' = Listed(l)
    <2>1. TAKE l \in Lists
    <2>2. key \in Linked(l)' <=> key \in Linked(l)
      <3>1. CASE l = lev
        <4>1. key \notin Linked(l)
          BY <1>3, <3>1 DEF Lists
        <4>2. key \notin Linked(l)'
          BY <1>4, <3>1 DEF Linked
        <4>3. QED
          BY <4>1, <4>2
      <3>2. CASE l # lev
        BY <1>0, <1>2, <1>3, <1>4, <1>5, <3>2 DEF Linked
      <3>3. QED
        BY <3>1, <3>2
    <2>3. \A n \in Nodes \ {key} : n \in Linked(l)' <=> n \in Linked(l)
      BY <1>0, <1>2, <1>4, <1>5 DEF Linked
    <2>4. QED
      BY <1>3, <2>2, <2>3 DEF Linked, Listed
  <1>7. \A l \in Lists : \A n \in Listed(l) : link'[l][n] = link[l][n]
    <2>1. TAKE l \in Lists
    <2>2. TAKE n \in Listed(l)
    <2>3. n \in Nodes \cup {HeadNode} /\ key # HeadNode
      BY <1>3 DEF Listed, HeadNode, SkipAssumption
    <2>4. l # lev \/ n # key
      BY <1>3, <2>3 DEF Listed, Lists
    <2>5. QED
      BY <1>5, <2>3, <2>4
  <1>8. Sorted'
    BY <1>1, <1>2, <1>6, <1>7 DEF Sorted, Chains, Nested, EmptyAbove, IsNext
  <1>9. \A l \in Lists : SpliceAt(l) => SpliceAt(l)'
    BY <1>0, <1>2, <1>4, <1>6, <1>7 DEF SpliceAt
  <1>10. Writing'
    <2>1. Linking
      BY <1>1 DEF Writing
    <2>2. link'[lev][key] = link'[lev][prev[lev]]
      BY <1>0, <1>3, <1>5
    <2>3. \A l \in Lists : lev < l => link'[l][key] = link[l][key]
      BY <1>3, <1>5 DEF Lists
    <2>4. Linking'
      BY <1>0, <1>2, <1>4, <1>6, <1>9, <2>1, <2>2, <2>3 DEF Linking
    <2>5. QED
      BY <1>4, <2>4 DEF Writing, Finding, Alone
  <1>11. Searches'
    BY <1>1, <1>2, <1>6, SearchKept DEF Searches
  <1>12. SkipTypeOK'
    BY <1>1, <1>2, <1>3, <1>4, <1>5 DEF SkipTypeOK
  <1>13. QED
    BY <1>8, <1>10, <1>11, <1>12 DEF SkipInv

(* One store puts the node between its neighbours on one level.               *)
LEMMA PublishStep ==
    ASSUME SkipAssumption, SkipInv, Publish
    PROVE  SkipInv'
  <1>1. SkipTypeOK /\ Sorted /\ Writing /\ Searches
    BY DEF SkipInv
  <1>0. PICK lev \in Lists, key \in Nodes, before \in Nodes \cup {HeadNode}, m \in Nodes \cup {NoNode} :
            /\ lev = write.level /\ key = write.key /\ before = prev[write.level]
            /\ m = link[write.level][prev[write.level]]
    BY AtSplice DEF Publish
  <1>2. /\ write.at = "publish"
        /\ link' = [link EXCEPT ![lev][before] = key]
        /\ UNCHANGED <<top, prev, walk, goal>>
    BY <1>0 DEF Publish
  <1>3. /\ lev \in Lists /\ key \in Nodes /\ lev < write.height /\ SpliceAt(lev)
        /\ before \in Nodes \cup {HeadNode} /\ before # key
        /\ \A l \in Lists : key \in Linked(l) => l < lev
        /\ \A l \in Lists : Linked(l) \subseteq Nodes
        /\ m \in Linked(lev) \cup {NoNode}
    BY <1>0, <1>2, AtSplice
  <1>4. /\ \A n \in Nodes : n \in Nat /\ n > 0
        /\ Lists \subseteq Nat /\ Heights \subseteq Nat /\ write.height \in Heights
    BY <1>1 DEF SkipAssumption, Lists, Heights, SkipTypeOK
  <1>5. /\ write.height <= top /\ top \in Heights /\ walk[Writer].at = "rest"
        /\ \A l \in Lists : l < lev => key \in Linked(l)
        /\ \A l \in Lists : lev <= l => SpliceAt(l)
        /\ \A l \in Lists : lev < l => link[l][key] = Garbage
        /\ link[lev][key] = m
    BY <1>0, <1>1, <1>2 DEF Writing, Linking, SkipTypeOK
  <1>6. /\ link'[lev][before] = key /\ link'[lev][key] = m
        /\ \A l \in Lists, n \in Nodes \cup {HeadNode} : l # lev \/ n # before => link'[l][n] = link[l][n]
        /\ link' \in [Lists -> [Nodes \cup {HeadNode} -> Nodes \cup {NoNode, Garbage}]]
    <2>1. link \in [Lists -> [Nodes \cup {HeadNode} -> Nodes \cup {NoNode, Garbage}]]
      BY <1>1 DEF SkipTypeOK
    <2>2. link' = [link EXCEPT ![lev] = [link[lev] EXCEPT ![before] = key]]
      BY <1>2, <2>1
    <2>3. /\ link'[lev] = [link[lev] EXCEPT ![before] = key]
          /\ \A l \in Lists \ {lev} : link'[l] = link[l]
          /\ link' \in [Lists -> [Nodes \cup {HeadNode} -> Nodes \cup {NoNode, Garbage}]]
      BY <1>3, <2>1, <2>2
    <2>4. /\ link[lev] \in [Nodes \cup {HeadNode} -> Nodes \cup {NoNode, Garbage}]
          /\ key \in Nodes \cup {HeadNode}
      BY <1>3, <2>1
    <2>5. /\ link'[lev][before] = key
          /\ \A n \in Nodes \cup {HeadNode} : n # before => link'[lev][n] = link[lev][n]
      BY <1>3, <2>3, <2>4
    <2>6. \A l \in Lists, n \in Nodes \cup {HeadNode} :
              l # lev \/ n # before => link'[l][n] = link[l][n]
      BY <2>3, <2>5
    <2>7. link'[lev][key] = m
      BY <1>3, <1>5, <2>4, <2>5
    <2>8. QED
      BY <2>3, <2>5, <2>6, <2>7
  <1>7. /\ write' \in [at : {"rest", "find", "node", "publish"}, key : Nodes \cup {0},
                       height : Heights, level : Lists]
        /\ \/ write'.at = "rest" /\ lev + 1 = write.height
           \/ /\ write'.at = "node" /\ write'.key = key /\ write'.height = write.height
              /\ write'.level = lev + 1 /\ lev + 1 < write.height
    <2>1. CASE lev + 1 = write.height
      <3>1. write' = Resting
        BY <1>0, <2>1 DEF Publish
      <3>2. QED
        BY <2>1, <3>1 DEF Resting, Heights, Lists, SkipAssumption
    <2>2. CASE lev + 1 # write.height
      <3>1. write' = [write EXCEPT !.at = "node", !.level = @ + 1]
        BY <1>0, <2>2 DEF Publish
      <3>2. lev + 1 < write.height /\ lev + 1 \in Lists
        BY <1>3, <1>4, <2>2 DEF Heights, Lists, SkipAssumption
      <3>3. QED
        BY <1>0, <1>1, <3>1, <3>2 DEF SkipTypeOK
    <2>3. QED
      BY <2>1, <2>2
  <1>8. /\ Linked(lev)' = Linked(lev) \cup {key}
        /\ \A l \in Lists \ {lev} : Linked(l)' = Linked(l)
    <2>1. \A l \in Lists, n \in Nodes : n \in Linked(l)' <=> link'[l][n] # Garbage
      BY <1>7 DEF Linked
    <2>2. \A l \in Lists, n \in Nodes : n \in Linked(l) <=> link[l][n] # Garbage /\ ~(n = key /\ l = lev)
      BY <1>0, <1>2 DEF Linked
    <2>3. key # Garbage /\ m # Garbage
      BY <1>3, <1>4 DEF Garbage, NoNode
    <2>4. before \in Nodes => before \in Linked(lev)
      BY <1>0, <1>3, <1>4 DEF SpliceAt, Listed, HeadNode
    <2>5. \A n \in Nodes : n \in Linked(lev)' <=> n \in Linked(lev) \cup {key}
      BY <1>3, <1>6, <2>1, <2>2, <2>3, <2>4
    <2>6. \A l \in Lists \ {lev}, n \in Nodes : n \in Linked(l)' <=> n \in Linked(l)
      BY <1>3, <1>6, <2>1, <2>2
    <2>7. \A l \in Lists : Linked(l)' \subseteq Nodes
      BY DEF Linked
    <2>8. QED
      BY <1>3, <2>5, <2>6, <2>7
  <1>9. Chains'
    <2>1. ASSUME NEW l \in Lists, l # lev, NEW n \in Listed(l)'
          PROVE  IsNext(l, n, link[l][n])' /\ link'[l][n] = link[l][n]
      <3>1. n \in Listed(l) /\ n \in Nodes \cup {HeadNode}
        BY <1>3, <1>8, <2>1 DEF Listed
      <3>2. link'[l][n] = link[l][n]
        BY <1>6, <2>1, <3>1
      <3>3. IsNext(l, n, link[l][n])
        BY <3>1, Follower
      <3>4. QED
        BY <1>8, <2>1, <3>2, <3>3 DEF IsNext
    <2>2. IsNext(lev, before, m) /\ before < key /\ before \in Nat /\ key \in Nat
          /\ (m # NoNode => key < m /\ m \in Nat) /\ before \in Listed(lev)
      BY <1>0, <1>3, <1>4, Follower DEF SpliceAt, HeadNode
    <2>3. ASSUME NEW l \in Lists, l = lev, NEW n \in Listed(l)'
          PROVE  IsNext(l, n, link[l][n])'
      <3>1. n \in Listed(lev) \cup {key} /\ Linked(l)' = Linked(lev) \cup {key}
        BY <1>8, <2>3 DEF Listed
      <3>2. \A k \in Linked(lev) : k \in Nat /\ k > 0
        BY <1>3, <1>4
      <3>3. CASE n = before
        <4>1. link'[l][n] = key
          BY <1>6, <2>3, <3>3
        <4>2. ASSUME NEW k \in Linked(lev), before < k PROVE key <= k
          BY <2>2, <3>2, <4>2 DEF IsNext
        <4>3. key # NoNode
          BY <2>2 DEF NoNode
        <4>4. key \in Linked(l)' /\ \A k \in Linked(l)' : n < k => key <= k
          BY <2>2, <3>1, <3>3, <4>2
        <4>5. n < key
          BY <2>2, <3>3
        <4>6. QED
          BY <4>1, <4>3, <4>4, <4>5 DEF IsNext
      <3>4. CASE n = key
        <4>1. link'[l][n] = m
          BY <1>6, <2>3, <3>4
        <4>2. ASSUME m = NoNode, NEW k \in Linked(lev) PROVE k <= key
          BY <2>2, <3>2, <4>2 DEF IsNext
        <4>3. ASSUME m # NoNode, NEW k \in Linked(lev), key < k PROVE m <= k
          BY <2>2, <3>2, <4>3 DEF IsNext
        <4>4. m \in Linked(lev) \cup {NoNode}
          BY <1>3
        <4>5. /\ m \in Linked(l)' \cup {NoNode}
              /\ m = NoNode => \A k \in Linked(l)' : k <= n
              /\ m # NoNode => n < m /\ \A k \in Linked(l)' : n < k => m <= k
          <5>1. m = NoNode => \A k \in Linked(l)' : k <= n
            BY <2>2, <3>1, <3>4, <4>2
          <5>2. ASSUME m # NoNode PROVE n < m
            BY <2>2, <3>4, <5>2
          <5>3. ASSUME m # NoNode, NEW k \in Linked(l)', n < k PROVE m <= k
            <6>1. k # key /\ k \in Linked(lev)
              BY <2>2, <3>1, <3>4, <5>3
            <6>2. QED
              BY <3>4, <4>3, <5>3, <6>1
          <5>4. QED
            BY <3>1, <4>4, <5>1, <5>2, <5>3
        <4>6. QED
          BY <4>1, <4>5 DEF IsNext
      <3>5. CASE n # before /\ n # key
        <4> DEFINE o == link[lev][n]
        <4>1. n \in Listed(lev) /\ n \in Nodes \cup {HeadNode} /\ n \in Nat
          BY <1>3, <1>4, <3>1, <3>5 DEF Listed, HeadNode
        <4>2. link'[l][n] = o /\ IsNext(lev, n, o)
          BY <1>3, <1>6, <2>3, <3>5, <4>1, Follower
        <4>3. o # NoNode => o \in Nat
          BY <3>2, <4>2 DEF IsNext
        <4>4. n < before => o # NoNode /\ o <= before
          BY <2>2, <3>2, <4>1, <4>2 DEF IsNext, Listed, HeadNode
        <4>5. before < n => m # NoNode /\ m <= n
          BY <2>2, <4>1 DEF IsNext, Listed, HeadNode
        <4>6. o = NoNode => key <= n
          BY <2>2, <3>5, <4>1, <4>4, <4>5
        <4>7. o # NoNode /\ n < key => o <= key
          BY <2>2, <3>5, <4>1, <4>3, <4>4, <4>5
        <4>8. QED
          BY <3>1, <4>2, <4>6, <4>7 DEF IsNext
      <3>6. QED
        BY <3>3, <3>4, <3>5
    <2>4. QED
      BY <2>1, <2>3 DEF Chains
  <1>10. Nested'
    <2>1. ASSUME NEW l \in Lists, NEW u \in Lists, l <= u
          PROVE  Linked(u)' \subseteq Linked(l)'
      <3>1. Linked(u) \subseteq Linked(l)
        BY <1>1, <2>1 DEF Sorted, Nested
      <3>2. u = lev => l = lev \/ key \in Linked(l)
        BY <1>3, <1>4, <1>5, <2>1
      <3>3. QED
        BY <1>8, <3>1, <3>2
    <2>2. QED
      BY <2>1 DEF Nested
  <1>11. EmptyAbove'
    <2>1. ~(top <= lev) /\ top' = top
      BY <1>2, <1>3, <1>4, <1>5
    <2>2. QED
      BY <1>1, <1>8, <2>1 DEF Sorted, EmptyAbove
  <1>12. Writing'
    <2>1. CASE write'.at = "rest"
      BY <1>2, <1>5, <2>1 DEF Writing, Finding, Linking, Alone
    <2>2. CASE write'.at # "rest"
      <3>1. /\ write'.at = "node" /\ write'.key = key /\ write'.height = write.height
            /\ write'.level = lev + 1 /\ lev + 1 < write.height /\ lev + 1 \in Lists
        BY <1>7, <2>2
      <3>2. ASSUME NEW l \in Lists
            PROVE  /\ l < lev + 1 => key \in Linked(l)'
                   /\ lev + 1 <= l => SpliceAt(l)'
                   /\ lev < l => link'[l][key] = Garbage
        <4>1. l < lev + 1 => l < lev \/ l = lev
          BY <1>3, <1>4
        <4>2. lev + 1 <= l => lev <= l /\ l # lev
          BY <1>3, <1>4
        <4>3. lev < l => l # lev
          BY <1>3, <1>4
        <4>4. l < lev + 1 => key \in Linked(l)'
          BY <1>5, <1>8, <4>1
        <4>5. ASSUME lev + 1 <= l PROVE SpliceAt(l)'
          <5>1. SpliceAt(l) /\ l # lev /\ prev[l] \in Nodes \cup {HeadNode}
            BY <1>1, <1>5, <4>2, <4>5 DEF SkipTypeOK
          <5>2. link'[l][prev[l]] = link[l][prev[l]] /\ Listed(l)' = Listed(l)
            BY <1>6, <1>8, <5>1 DEF Listed
          <5>3. QED
            BY <1>0, <1>2, <3>1, <5>1, <5>2 DEF SpliceAt
        <4>6. lev < l => link'[l][key] = Garbage
          BY <1>3, <1>5, <1>6, <4>3
        <4>7. QED
          BY <4>4, <4>5, <4>6
      <3>3. \A l \in Lists : lev + 1 < l => lev < l
        BY <1>3, <1>4
      <3>4. lev < lev + 1
        BY <1>3, <1>4
      <3>5. Linking'
        BY <1>0, <1>2, <1>5, <3>1, <3>2, <3>3, <3>4 DEF Linking
      <3>6. QED
        BY <3>1, <3>5 DEF Writing, Finding, Alone
    <2>3. QED
      BY <2>1, <2>2
  <1>13. Searches'
    <2>1. \A l \in Lists : Linked(l) \subseteq Linked(l)'
      BY <1>8
    <2>2. QED
      BY <1>1, <1>2, <2>1, SearchKept DEF Searches
  <1>14. SkipTypeOK'
    BY <1>1, <1>2, <1>3, <1>6, <1>7 DEF SkipTypeOK
  <1>15. QED
    BY <1>9, <1>10, <1>11, <1>12, <1>13, <1>14 DEF SkipInv, Sorted

-----------------------------------------------------------------------------
LEMMA SkipStutter == ASSUME SkipAssumption, SkipInv, UNCHANGED skipVars PROVE SkipInv'
  <1>1. /\ SkipTypeOK /\ Sorted /\ Writing /\ Searches
        /\ UNCHANGED <<link, top, write, prev, walk, goal>>
    BY DEF SkipInv, skipVars
  <1>2. \A l \in Lists : Linked(l)' = Linked(l)
    BY <1>1, SameLists
  <1>3. SkipTypeOK' /\ Sorted' /\ Writing'
    BY <1>1, <1>2, SortedKept, WritingKept DEF SkipTypeOK
  <1>4. Searches'
    BY <1>1, <1>2, SearchKept DEF Searches
  <1>5. QED
    BY <1>3, <1>4 DEF SkipInv

LEMMA SkipStep ==
    ASSUME SkipAssumption, SkipInv, [SkipNext]_skipVars
    PROVE  SkipInv'
  <1>1. CASE \E k \in Nodes, h \in Heights : StartInsert(k, h)
    BY <1>1, StartInsertStep
  <1>2. CASE RaiseHeight \/ SetNext \/ Publish
    BY <1>2, RaiseHeightStep, SetNextStep, PublishStep
  <1>3. CASE \E t \in Threads : Step(t)
    BY <1>3, WriterStep, ReaderStep DEF Threads
  <1>4. CASE \E r \in Readers :
               \/ Next(r) \/ SeekToFirst(r)
               \/ \E h \in 1..top : (\E k \in Nodes : Seek(r, k, h)) \/ SeekToLast(r, h) \/ Prev(r, h)
    BY <1>4, FollowStep, ReaderStep
  <1>5. CASE UNCHANGED skipVars
    BY <1>5, SkipStutter
  <1>6. QED
    BY <1>1, <1>2, <1>3, <1>4, <1>5 DEF SkipNext

(* A search without a lock, among nodes that are being linked and heights     *)
(* that are stale, always stands on a node of its level and answers with the  *)
(* neighbour of its target, of all that was in the list when it began.        *)
THEOREM SearchesFind == ASSUME SkipAssumption PROVE SkipSpec => []SearchFinds
  <1>1. SkipInit => SkipInv
    BY SkipInitInv
  <1>2. SkipInv /\ [SkipNext]_skipVars => SkipInv'
    BY SkipStep
  <1>3. SkipInv => SearchFinds
    <2> SUFFICES ASSUME SkipInv, NEW t \in Threads PROVE Searching(t) /\ SkipTypeOK
      BY LinkedType DEF SearchFinds, Searching, Answered, Listed, SkipInv, Lists, SkipAssumption
    <2>1. QED
      BY DEF SkipInv, Searches
  <1>4. QED
    BY <1>1, <1>2, <1>3, PTL DEF SkipSpec
=============================================================================
