----------------------------- MODULE LevelCache -----------------------------
(***************************************************************************)
(* leveldb's sharded LRU cache (util/cache.cc) and its two users: the table *)
(* cache (db/table_cache.cc) and the block cache of a table                *)
(* (table/table.cc).  A user looks a key up, reads the file when it is not *)
(* there, without any lock, inserts what it has read, and releases the     *)
(* handle after a Get or leaves that to the cleanups of an iterator        *)
(* (table/iterator.cc).  Entries are reference counted.                    *)
(***************************************************************************)
EXTENDS Integers, Sequences, FiniteSets, SequencesExt, FiniteSetsExt

CONSTANTS Users,        \* threads, each with one handle at a time
          Names,        \* keys: file numbers, or a table's id and an offset
          Shards,       \* kNumShards, 16 in the code
          ShardOf,      \* the shard of a key's hash
          Capacity,     \* of the whole cache, in charges of 1
          MaxCleanups,  \* bound: cleanups of all iterators together
          MaxEntries    \* bound: how many entries are ever allocated

CacheAssumption ==
    /\ IsFiniteSet(Users) /\ Shards \in Nat \ {0} /\ ShardOf \in [Names -> 1..Shards]
    /\ Capacity \in Nat /\ MaxEntries \in Nat /\ MaxCleanups \in Nat

VARIABLES
    entry,    \* the entries allocated: [key, refs, inCache, freed]
    table,    \* the HandleTable: a name's entry, 0 when there is none
    lists,    \* of each shard lru_, oldest first, and in_use_
    usage,    \* usage_ of each shard
    user      \* what a user does: [at, key, handle, cleanups]

cacheVars == <<entry, table, lists, usage, user>>

NoHandle == [at |-> "rest", key |-> 0, handle |-> 0, cleanups |-> <<>>]
CacheInit ==
    /\ entry = <<>> /\ table = [k \in Names |-> 0]
    /\ lists = [s \in 1..Shards |-> [lru |-> <<>>, inUse |-> {}]]
    /\ usage = [s \in 1..Shards |-> 0]
    /\ user = [u \in Users |-> NoHandle]
PerShard == (Capacity + (Shards - 1)) \div Shards

-----------------------------------------------------------------------------
(* The cache as one value, so that its operations compose as the code's do.   *)
(* Each works on one shard, the one of its key.                              *)

Now == [entry |-> entry, table |-> table, lists |-> lists, usage |-> usage]
Becomes(c) ==
    /\ entry' = c.entry /\ table' = c.table
    /\ lists' = c.lists /\ usage' = c.usage

Home(c, e) == ShardOf[c.entry[e].key]
Unlinked(l, e) == [lru |-> Remove(l.lru, e), inUse |-> l.inUse \ {e}]

Ref(c, e) ==
    LET h == c.entry[e]
        idle == h.refs = 1 /\ h.inCache
    IN [c EXCEPT !.entry[e].refs = @ + 1,
                 !.lists[Home(c, e)] =
                     IF idle THEN [Unlinked(@, e) EXCEPT !.inUse = @ \cup {e}] ELSE @]

Unref(c, e) ==
    LET h == [c.entry[e] EXCEPT !.refs = @ - 1]
        idle == h.refs = 1 /\ h.inCache
    IN [c EXCEPT !.entry[e] = [h EXCEPT !.freed = h.refs = 0],
                 !.lists[Home(c, e)] =
                     IF idle THEN [Unlinked(@, e) EXCEPT !.lru = Append(@, e)] ELSE @]

(* The entry has left the hash table already; 0 is the null pointer.         *)
FinishErase(c, e) ==
    IF e = 0 THEN c
    ELSE Unref([c EXCEPT !.entry[e].inCache = FALSE, !.usage[Home(c, e)] = @ - 1,
                         !.lists[Home(c, e)] = Unlinked(@, e)], e)
Removed(c, k) == FinishErase([c EXCEPT !.table[k] = 0], c.table[k])

(* Evicting the oldest idle entries of a shard, n of them.                    *)
EvictOldest(c, s, n) ==
    FoldLeft(LAMBDA d, e : Removed(d, c.entry[e].key), c, SubSeq(c.lists[s].lru, 1, n))
Shrunk(c, s) ==
    LET over == IF c.usage[s] > PerShard THEN c.usage[s] - PerShard ELSE 0
        idle == Len(c.lists[s].lru)
    IN EvictOldest(c, s, IF over < idle THEN over ELSE idle)

Inserted(c, k) ==
    LET e == Len(c.entry) + 1
        cached == PerShard > 0
        h == [key |-> k, refs |-> IF cached THEN 2 ELSE 1, inCache |-> cached, freed |-> FALSE]
        added == [c EXCEPT !.entry = Append(@, h)]
        listed == [added EXCEPT !.table[k] = e, !.usage[ShardOf[k]] = @ + 1,
                                !.lists[ShardOf[k]].inUse = @ \cup {e}]
    IN Shrunk(IF cached THEN FinishErase(listed, c.table[k]) ELSE added, ShardOf[k])

-----------------------------------------------------------------------------
(* The users: FindTable and Get, BlockReader and its iterator                *)

Lookup(u, k) ==
    /\ user[u].at = "rest"
    /\ IF table[k] # 0
       THEN /\ Becomes(Ref(Now, table[k]))
            /\ user' = [user EXCEPT ![u].at = "using", ![u].key = k, ![u].handle = table[k]]
       ELSE /\ user' = [user EXCEPT ![u].at = "loading", ![u].key = k]
            /\ UNCHANGED <<entry, table, lists, usage>>

(* The file was read.  What fill_cache or an mmaped file keeps out of the     *)
(* cache, and what could not be read, is never inserted.                      *)
InsertEntry(u) ==
    /\ user[u].at = "loading" /\ Len(entry) < MaxEntries
    /\ Becomes(Inserted(Now, user[u].key))
    /\ user' = [user EXCEPT ![u].at = "using", ![u].handle = Len(entry) + 1]
Rested(r) == [r EXCEPT !.at = "rest", !.key = 0, !.handle = 0]
NotCached(u) ==
    /\ user[u].at = "loading"
    /\ user' = [user EXCEPT ![u] = Rested(@)]
    /\ UNCHANGED <<entry, table, lists, usage>>

Release(u) ==
    /\ user[u].at = "using"
    /\ Becomes(Unref(Now, user[u].handle))
    /\ user' = [user EXCEPT ![u] = Rested(@)]

(* NewIterator: the handle is released when the iterator is destroyed.  The   *)
(* first cleanup is part of the iterator, the next ones are linked behind it. *)
Registered(list, h) == IF list = <<>> THEN <<h>> ELSE <<list[1], h>> \o Tail(list)
RegisterCleanup(u) ==
    /\ user[u].at = "using"
    /\ FoldSet(LAMBDA v, n : n + Len(user[v].cleanups), 0, Users) < MaxCleanups
    /\ user' = [user EXCEPT ![u] = [Rested(@) EXCEPT
                                        !.cleanups = Registered(@, user[u].handle)]]
    /\ UNCHANGED <<entry, table, lists, usage>>
UnrefFirstOnly(u) ==       \* mutant: the linked cleanups are deleted but not run
    /\ user[u].at = "rest" /\ user[u].cleanups # <<>>
    /\ Becomes(Unref(Now, Head(user[u].cleanups)))
    /\ user' = [user EXCEPT ![u].cleanups = <<>>]
DestroyIterator(u) ==
    /\ user[u].at = "rest" /\ user[u].cleanups # <<>>
    /\ Becomes(FoldLeft(Unref, Now, user[u].cleanups))
    /\ user' = [user EXCEPT ![u].cleanups = <<>>]

Erase(k) ==          \* TableCache::Evict, when the file is deleted
    /\ table[k] # 0
    /\ Becomes(Removed(Now, k)) /\ UNCHANGED user
Prune(s) ==          \* of the whole cache shard by shard, each under its own lock
    /\ lists[s].lru # <<>>
    /\ Becomes(EvictOldest(Now, s, Len(lists[s].lru))) /\ UNCHANGED user

CacheNext ==
    \/ \E u \in Users :
          \/ \E k \in Names : Lookup(u, k)
          \/ InsertEntry(u) \/ NotCached(u) \/ Release(u)
          \/ RegisterCleanup(u) \/ DestroyIterator(u)
    \/ \E k \in Names : Erase(k)
    \/ \E s \in 1..Shards : Prune(s)

CacheSpec == CacheInit /\ [][CacheNext]_cacheVars

-----------------------------------------------------------------------------
(* Properties *)

Held(u, e) ==
    (IF user[u].handle = e THEN 1 ELSE 0)
        + Cardinality({i \in DOMAIN user[u].cleanups : user[u].cleanups[i] = e})
Holds(e) == FoldSet(LAMBDA u, n : n + Held(u, e), 0, Users)

(* An entry's count is its users' handles plus the table's own, whatever was  *)
(* replaced, erased, evicted or pruned while the handles were out.            *)
Counted ==
    \A e \in DOMAIN entry :
        /\ entry[e].refs = Holds(e) + (IF entry[e].inCache THEN 1 ELSE 0)
        /\ entry[e].inCache <=> table[entry[e].key] = e

(* cache.cc:28-35: an entry in the cache is in one list or the other, never   *)
(* both: idle ones wait in lru_ to be evicted, so none is pinned for ever,    *)
(* and usage_ is what the shard's table holds.                                *)
IdleEvictable ==
    \A s \in 1..Shards :
        LET cached == {e \in DOMAIN entry : entry[e].inCache /\ ShardOf[entry[e].key] = s}
            waiting == ToSet(lists[s].lru)
        IN /\ waiting = {e \in cached : Holds(e) = 0}
           /\ lists[s].inUse = cached \ waiting
           /\ Len(lists[s].lru) = Cardinality(waiting)
           /\ usage[s] = Cardinality(cached)

(* An entry is freed exactly when nobody can reach it any more, and what can  *)
(* be reached only through the cache can be evicted.                          *)
FreedWhenUnreachable ==
    /\ Counted /\ IdleEvictable
    /\ \A e \in DOMAIN entry : entry[e].freed <=> entry[e].refs = 0
=============================================================================
