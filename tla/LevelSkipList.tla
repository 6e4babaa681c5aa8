---------------------------- MODULE LevelSkipList ----------------------------
(***************************************************************************)
(* The skip list under a memtable (db/skiplist.h, db/memtable.cc): one     *)
(* writer inserts while readers walk, with no lock between them.  A node   *)
(* is its entry, a number in internal key order.  Every load and store of  *)
(* a link is a step; a reader may see any height max_height_ has had.      *)
(***************************************************************************)
EXTENDS Integers

CONSTANTS Nodes,        \* the entries there may be, numbers from 1
          MaxHeight,    \* kMaxHeight, 12 in the code
          Readers,
          Writer        \* the thread that holds the write lock

SkipAssumption ==
    Nodes \subseteq Nat \ {0} /\ MaxHeight \in Nat \ {0} /\ Writer \notin Readers

VARIABLES
    link,     \* link[l][n], next_[l] of node n
    top,      \* max_height_
    write,    \* Insert: [at, key, height, level]
    prev,     \* its array of the nodes to splice behind, one for each level
    walk,     \* the search of each thread: [at, x, level]
    goal      \* what it is for: [kind, target, there, node], node what it found

skipVars == <<link, top, write, prev, walk, goal>>

HeadNode == 0
NoNode == -1        \* NULL
Garbage == -2       \* what NewNode's memory holds
Threads == Readers \cup {Writer}
Heights == 1..MaxHeight
Lists == 0..(MaxHeight - 1)
Resting == [at |-> "rest", key |-> 0, height |-> 1, level |-> 0]

SkipInit ==
    /\ link = [l \in Lists |-> [n \in Nodes \cup {HeadNode} |->
                  IF n = HeadNode THEN NoNode ELSE Garbage]]
    /\ top = 1 /\ write = Resting /\ prev = [l \in Lists |-> HeadNode]
    /\ walk = [t \in Threads |-> [at |-> "rest", x |-> HeadNode, level |-> 0]]
    /\ goal = [t \in Threads |-> [kind |-> "geq", target |-> 0, there |-> {}, node |-> NoNode]]

(* What is in the list of a level: the node being put there is not, until the *)
(* node before it points at it.                                              *)
Linked(l) ==
    {n \in Nodes : /\ link[l][n] # Garbage
                   /\ ~(write.at = "publish" /\ write.key = n /\ write.level = l)}

-----------------------------------------------------------------------------
(* FindGreaterOrEqual, FindLessThan and FindLast are one walk with different  *)
(* ends: kind "geq" returns the next node, "less" the one before.  FindLast   *)
(* has no target, 0 here.                                                    *)

Stops(t, n) == n = NoNode \/ (goal[t].target # 0 /\ n >= goal[t].target)

Begin(t, kind, target, height) ==
    /\ walk' = [walk EXCEPT ![t] = [at |-> "walk", x |-> HeadNode, level |-> height - 1]]
    /\ goal' = [goal EXCEPT ![t] = [kind |-> kind, target |-> target,
                                    there |-> Linked(0), node |-> @.node]]

Step(t) ==
    /\ walk[t].at = "walk"
    /\ LET w == walk[t]
           n == link[w.level][w.x]
       IN \/ /\ ~Stops(t, n)
             /\ walk' = [walk EXCEPT ![t].x = n]
             /\ UNCHANGED <<prev, goal>>
          \/ /\ Stops(t, n)
             /\ prev' = IF t = Writer THEN [prev EXCEPT ![w.level] = w.x] ELSE prev
             /\ IF w.level > 0
                THEN walk' = [walk EXCEPT ![t].level = @ - 1] /\ UNCHANGED goal
                ELSE /\ walk' = [walk EXCEPT ![t].at = "rest"]
                     /\ goal' = [goal EXCEPT ![t].node =
                            IF goal[t].kind = "geq" THEN n
                            ELSE IF w.x = HeadNode THEN NoNode ELSE w.x]
    /\ UNCHANGED <<link, top, write>>

-----------------------------------------------------------------------------
(* Insert                                                                    *)

StartInsert(k, h) ==
    /\ write.at = "rest" /\ link[0][k] = Garbage
    /\ write' = [at |-> "find", key |-> k, height |-> h, level |-> 0]
    /\ prev' = [l \in Lists |-> HeadNode]
    /\ Begin(Writer, "geq", k, top)
    /\ UNCHANGED <<link, top>>

RaiseHeight ==
    /\ write.at = "find" /\ walk[Writer].at = "rest"
    /\ top' = IF write.height > top THEN write.height ELSE top
    /\ write' = [write EXCEPT !.at = "node"]
    /\ UNCHANGED <<link, prev, walk, goal>>

SetNext ==       \* of the new node, without a barrier
    /\ write.at = "node"
    /\ link' = [link EXCEPT ![write.level][write.key] = link[write.level][prev[write.level]]]
    /\ write' = [write EXCEPT !.at = "publish"]
    /\ UNCHANGED <<top, prev, walk, goal>>

PublishFromTheTop ==     \* mutant: the levels are linked from the highest down
    LET l == write.height - 1 - write.level
    IN /\ write.at = "publish"
       /\ link' = [link EXCEPT ![l][prev[l]] = write.key, ![l][write.key] = link[l][prev[l]]]
       /\ write' = IF write.level + 1 = write.height THEN Resting
                   ELSE [write EXCEPT !.at = "node", !.level = @ + 1]
       /\ UNCHANGED <<top, prev, walk, goal>>
Publish ==       \* the release store
    /\ write.at = "publish"
    /\ link' = [link EXCEPT ![write.level][prev[write.level]] = write.key]
    /\ write' = IF write.level + 1 = write.height THEN Resting
                ELSE [write EXCEPT !.at = "node", !.level = @ + 1]
    /\ UNCHANGED <<top, prev, walk, goal>>

-----------------------------------------------------------------------------
(* The iterators of the readers                                              *)

Free(r) == r \in Readers /\ walk[r].at = "rest"
Seek(r, k, h) == Free(r) /\ Begin(r, "geq", k, h) /\ UNCHANGED <<link, top, write, prev>>
SeekToLast(r, h) == Free(r) /\ Begin(r, "less", 0, h) /\ UNCHANGED <<link, top, write, prev>>
Prev(r, h) ==
    /\ Free(r) /\ goal[r].node # NoNode
    /\ Begin(r, "less", goal[r].node, h)
    /\ UNCHANGED <<link, top, write, prev>>
(* Next, and SeekToFirst: one load.                                          *)
Follow(r, n) ==
    /\ Free(r)
    /\ goal' = [goal EXCEPT ![r] = [kind |-> "geq", target |-> n + 1,
                                    there |-> Linked(0), node |-> link[0][n]]]
    /\ UNCHANGED <<link, top, write, prev, walk>>
Next(r) == goal[r].node # NoNode /\ Follow(r, goal[r].node)
SeekToFirst(r) == Follow(r, HeadNode)

SkipNext ==
    \/ \E k \in Nodes, h \in Heights : StartInsert(k, h)
    \/ RaiseHeight \/ SetNext \/ Publish
    \/ \E t \in Threads : Step(t)
    \/ \E r \in Readers :
          \/ Next(r) \/ SeekToFirst(r)
          \/ \E h \in 1..top : (\E k \in Nodes : Seek(r, k, h)) \/ SeekToLast(r, h) \/ Prev(r, h)

SkipSpec == SkipInit /\ [][SkipNext]_skipVars

-----------------------------------------------------------------------------
(* Properties *)

(* Whatever a search meets on its way, half linked nodes and a stale height   *)
(* among it, it never leaves initialized nodes, and its answer misses nothing *)
(* that was in the list when it began: nothing lies between the target and    *)
(* the node found.                                                           *)
SearchFinds ==
    \A t \in Threads :
        LET g == goal[t]
        IN /\ walk[t].x \in Linked(walk[t].level) \cup {HeadNode}
           /\ walk[t].at = "rest" =>
                 /\ g.node \in Nodes \cup {NoNode}
                 /\ \A k \in g.there :
                       IF g.kind = "geq"
                       THEN k >= g.target => g.node # NoNode /\ g.node <= k
                       ELSE (g.target = 0 \/ k < g.target) => g.node >= k
                 /\ g.node # NoNode =>
                       IF g.kind = "geq" THEN g.node >= g.target
                       ELSE g.target = 0 \/ g.node < g.target
=============================================================================
