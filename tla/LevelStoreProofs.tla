----------------------------- MODULE LevelStoreProofs -----------------------------
(***************************************************************************)
(* Proofs about module LevelStore: for any writers, bounds and kinds of     *)
(* crash, what was answered OK is found again, the database can be opened   *)
(* again, no file that is still needed is deleted, and readers agree with   *)
(* the disk.  Out of it are the writes that were logged behind a failed     *)
(* append, until a flush, and what comes after an edit was appended to a    *)
(* MANIFEST behind a failed append: hist.behind and hist.misplaced say so,  *)
(* and the invariant is claimed only while the latter is FALSE (IndInv).    *)
(*                                                                         *)
(* The argument is one inductive invariant, StoreInv.  A crash of the       *)
(* machine may cut the MANIFEST that CURRENT names anywhere after its last  *)
(* sync, so what holds of it must hold of each of its prefixes that may be  *)
(* left: Sound(k) says it of the first k edits.  While the database is      *)
(* being opened Recovered says what has been read and is still to be        *)
(* written; while it is open the invariant relates the version in memory,   *)
(* the memtables, the logs, the work of the background thread and the group *)
(* being logged to every prefix, and Sound follows (RunningIsSound).        *)
(***************************************************************************)
EXTENDS LevelStore, TLAPS, FiniteSetTheorems, SequenceTheorems

-----------------------------------------------------------------------------
(* Types *)

Item == [seq : Nat, id : Nat]
Log == [recs : Seq(SUBSET Item), synced : Nat, torn : BOOLEAN]
\* An edit that Recover can read, which Unreadable is not.
Edits == [add : SUBSET Nat, del : SUBSET Nat, log : Int, next : Nat \cup {-1}, seq : Int]
Manifest == [recs : Seq(Edits), synced : Nat, torn : BOOLEAN]
Opening == {"newdb", "recover", "replay", "descriptor", "sync", "current", "install"}
Running == {"open", "closing"}
Active == {"append", "sync", "logged", "failed", "syncError"}
Logging == {"log", "syncEdit", "install"}

LogsOK == DOMAIN logs \subseteq Nat
          /\ \A n \in DOMAIN logs : logs[n] \in Log /\ logs[n].synced <= Len(logs[n].recs)
ManifestsOK ==
    DOMAIN manifests \subseteq Nat \ {0}
    /\ \A n \in DOMAIN manifests :
          manifests[n] \in Manifest /\ manifests[n].synced <= Len(manifests[n].recs)
TablesOK == DOMAIN tables \subseteq Nat /\ \A t \in DOMAIN tables : tables[t] \in SUBSET Item
DbType ==
    [state : {"closed"} \cup Opening \cup Running,
     mem : SUBSET Item, imm : SUBSET Item, logfile : Nat, next : Nat,
     manifest : Nat, lastSeq : Nat, logNumber : Nat, version : SUBSET Nat,
     pending : SUBSET Nat, bgError : BOOLEAN, scheduled : BOOLEAN,
     replay : SUBSET Nat, added : SUBSET Nat]
DbOK == db \in DbType
WritersOK ==
    /\ queue \in Seq(Writers)
    /\ wr \in [Writers -> [pc : {"idle", "queued", "waitbg"} \cup Active, id : Nat,
                           sync : BOOLEAN, over : SUBSET Item]]
LeadOK == lead \in [writers : Seq(Writers), items : SUBSET Item, sync : BOOLEAN]
BgOK == bg \in [pc : {"idle", "build", "merge"} \cup Logging, out : Nat,
                edit : Edits, inputs : SUBSET Nat, merged : Nat]

HistOK == hist \in [ops : Nat, crashes : Nat, faults : Nat, opened : BOOLEAN,
                    acked : SUBSET Item, synced : SUBSET Item, behind : SUBSET Item,
                    misplaced : BOOLEAN]
TypeOK ==
    /\ LogsOK /\ ManifestsOK /\ TablesOK /\ current \in Nat
    /\ DbOK /\ WritersOK /\ LeadOK /\ BgOK /\ HistOK

-----------------------------------------------------------------------------
(* What the files hold *)

Distinct(items) == \A i, j \in items : i.seq = j.seq => i = j
UpTo(items, n) == \A i \in items : i.seq <= n

TableItems(ts, tbls) == UNION {tbls[t] : t \in ts}
LogItems(lgs, n) == UNION {ItemsOf(lgs[m].recs) : m \in {k \in DOMAIN lgs : k >= n}}
SyncedOf(log) == UNION {log.recs[j] : j \in 1..log.synced}
SyncedItems(lgs, n) == UNION {SyncedOf(lgs[m]) : m \in {k \in DOMAIN lgs : k >= n}}

Adds(recs, k) == UNION {recs[i].add : i \in 1..k}
Dels(recs, k) == UNION {recs[i].del : i \in 1..k}
VersionAt(recs, k) == Adds(recs, k) \ Dels(recs, k)

-----------------------------------------------------------------------------
(* The disk *)

\* The MANIFEST that CURRENT names, as it is and as a crash may leave it.
Recs == manifests[current].recs
Prefixes == manifests[current].synced..Len(Recs)
Version(k) == VersionAt(Recs, k)

Sound(k) ==
    LET e == Recs[k]
    IN /\ Version(k) \subseteq DOMAIN tables
       /\ e.log \in Nat /\ e.next \in Nat /\ e.seq \in Nat
       /\ \A t \in Version(k) : t < e.next
       /\ e.log < e.next /\ current < e.next /\ e.next <= Recs[Len(Recs)].next
       /\ UpTo(TableItems(Version(k), tables), e.seq)
       /\ Distinct(TableItems(Version(k), tables) \cup LogItems(logs, e.log))
       /\ Guaranteed \subseteq TableItems(Version(k), tables) \cup SyncedItems(logs, e.log)

Disk ==
    /\ hist.synced \subseteq hist.acked /\ Answered \subseteq Recoverable
    /\ current # 0 => current \in DOMAIN manifests
    /\ current < 2 => ~hist.opened /\ hist.acked = {} /\ LogItems(logs, 0) = {}
    /\ current >= 2 => manifests[current].synced >= 2
    /\ current # 0 => \A k \in Prefixes : k > 0 => Sound(k)

\* Some number bounds the sequence numbers in the logs: they are finite.
Bounded == \E s \in Nat : UpTo(LogItems(logs, 0), s)

-----------------------------------------------------------------------------
(* A database being opened *)

\* What OpenRecover and OpenReplay have read.
Recovered ==
    LET e == Recs[Len(Recs)]
    IN /\ current # 0 /\ Len(Recs) > 0
       /\ db.version = Version(Len(Recs)) /\ db.logNumber = e.log /\ db.manifest = e.next
       /\ db.manifest < db.next
       /\ \A t \in db.added : t \in DOMAIN tables /\ db.manifest < t /\ t < db.next
       /\ UpTo(TableItems(db.version \cup db.added, tables), db.lastSeq)
       /\ TableItems(db.added, tables)
             \cup (UNION {ItemsOf(logs[n].recs) : n \in db.replay}) = LogItems(logs, e.log)
       /\ db.replay \subseteq DOMAIN logs
       /\ \A n \in DOMAIN logs : n >= e.log => n \in db.replay \/ n < db.next

NewLog ==
    /\ db.replay = {} /\ db.logfile \in DOMAIN logs /\ logs[db.logfile] = EmptyLog
    /\ db.manifest < db.logfile /\ db.logfile < db.next
    /\ \A n \in DOMAIN logs : n <= db.logfile

NewEdits == <<Snapshot(db.version),
              Edit(db.added, {}, db.logfile, db.next, db.lastSeq)>>
NewManifest(n) ==
    db.manifest \in DOMAIN manifests
    /\ manifests[db.manifest].recs = NewEdits /\ manifests[db.manifest].synced = n

Open ==
    /\ db.state = "newdb" =>
          /\ current = 0 /\ manifests[1] = Unsynced(<<Edit({}, {}, 0, 2, 0)>>)
          /\ DOMAIN manifests = {1}
    /\ db.state \in {"newdb", "recover"} => db.added = {}
    /\ db.state \in {"replay", "descriptor", "sync", "current"} => Recovered
    /\ db.state \in {"descriptor", "sync", "current"} => NewLog
    /\ db.state = "sync" => NewManifest(0)
    /\ db.state = "current" => NewManifest(2)
    /\ db.state = "install" =>
          /\ NewLog /\ NewManifest(2) /\ current = db.manifest /\ current >= 2
          /\ db.version \cup db.added \subseteq 0..db.next - 1
    /\ db.state \in {"closed"} \cup Opening =>
          /\ bg = NoWork /\ lead = NoLead
          /\ db.bgError = FALSE /\ db.scheduled = FALSE /\ db.mem = {} /\ db.imm = {}
          /\ db.pending = {} /\ (db.state = "closed" => db = Closed)

-----------------------------------------------------------------------------
(* An open database *)

Writing ==
    /\ db.state # "open" => queue = <<>>
    /\ \A w \in Writers : wr[w].pc \in Active =>
          queue # <<>> /\ queue[1] = w /\ Len(lead.writers) > 0
    /\ (\A w \in Writers : wr[w].pc \notin Active) => lead = NoLead
    /\ IsFiniteSet(lead.items) /\ Distinct(lead.items)
    /\ \A i \in lead.items : db.lastSeq < i.seq /\ i.seq <= db.lastSeq + Cardinality(lead.items)

\* What the group being logged has left in the log.
Logged ==
    \A w \in Writers :
       /\ wr[w].pc \in {"sync", "logged", "syncError"} =>
             lead.items \ hist.behind \subseteq ItemsOf(logs[db.logfile].recs)
       /\ wr[w].pc = "logged" /\ lead.sync =>
             lead.items \ hist.behind \subseteq SyncedOf(logs[db.logfile])

Numbers ==
    /\ current = db.manifest /\ db.manifest < db.next /\ current >= 2
    /\ hist.opened /\ current \in DOMAIN manifests
    /\ manifests[current].synced >= 2
    /\ db.logNumber <= db.logfile /\ db.logfile < db.next
    /\ db.logfile \in DOMAIN logs /\ \A n \in DOMAIN logs : n <= db.logfile
    /\ db.version \subseteq DOMAIN tables /\ \A t \in db.version : t < db.next
    /\ \A t \in Adds(Recs, Len(Recs)) \cup Dels(Recs, Len(Recs)) : t < db.next

\* What holds of the MANIFEST's first k edits.
Follows(k) ==
    LET e == Recs[k]
    IN /\ Version(k) \subseteq DOMAIN tables
       /\ TableItems(db.version, tables) \subseteq TableItems(Version(k), tables)
       /\ e.log \in Nat /\ e.next \in Nat /\ e.seq \in Nat
       /\ \A t \in Version(k) : t < e.next
       /\ e.log < e.next /\ current < e.next /\ e.next <= Recs[Len(Recs)].next
       /\ e.next <= db.next /\ e.seq <= db.lastSeq
       /\ UpTo(TableItems(Version(k), tables), e.seq)
       /\ \/ e.log = db.logNumber
          \/ /\ e.log = db.logfile /\ db.imm # {}
             /\ db.imm \subseteq TableItems(Version(k), tables)

\* The version in memory is what the MANIFEST says, but for an edit that is
\* being installed; after an error it may say more.
Installed == (db.version \ bg.edit.del) \cup bg.edit.add
InStep ==
    LET v == Version(Len(Recs))
    IN /\ bg.pc = "idle" /\ ~db.bgError => v = db.version
       /\ bg.pc \in {"build", "merge", "log"} =>
             db.version \subseteq v /\ (~db.bgError => v = db.version)
       /\ bg.pc \in {"syncEdit", "install"} =>
             /\ Installed \subseteq v /\ (~db.bgError => v = Installed)
             /\ Recs[Len(Recs)] = bg.edit
       /\ bg.pc = "install" => manifests[current].synced = Len(Recs)

Unnamed(t) == t \notin Adds(Recs, Len(Recs)) \cup Dels(Recs, Len(Recs)) \cup db.version

Background ==
    /\ bg.pc = "idle" => bg = NoWork
    /\ bg.pc # "idle" => db.scheduled
    /\ bg.pc = "build" => bg.out # 0 /\ Unnamed(bg.out) /\ bg.out < db.next
    /\ bg.pc = "merge" => bg.out = 0 /\ bg.merged # 0
    /\ bg.pc \in Logging => bg.out # 0 \/ bg.merged # 0
    /\ bg.out # 0 => db.imm # {} /\ bg.out # bg.merged
    /\ bg.merged = 0 => bg.inputs = {}
    /\ bg.merged # 0 =>
          /\ bg.merged \in DOMAIN tables /\ bg.merged \in db.pending /\ bg.merged < db.next
          /\ bg.inputs \subseteq db.version /\ bg.merged \notin db.version
          /\ (bg.pc = "merge" \/ bg.out # 0 \/ bg.pc = "log") => Unnamed(bg.merged)

\* The edit being logged: a flush's, or a merge's.
EditAtHand ==
    bg.pc \in Logging =>
       LET e == bg.edit
       IN /\ e \in Edits /\ e.add \subseteq DOMAIN tables
          /\ \A t \in e.add : t < db.next /\ t < e.next
          /\ e.log \in Nat /\ e.next \in Nat /\ e.seq \in Nat
          /\ e.log < e.next /\ current < e.next /\ e.next <= db.next /\ e.seq <= db.lastSeq
          /\ bg.out # 0 => /\ e.add = {bg.out} /\ e.del = {} /\ e.log = db.logfile
                           /\ tables[bg.out] = db.imm
          /\ bg.out = 0 => /\ e.add = {bg.merged} /\ e.del = bg.inputs
                           /\ e.log = db.logNumber
                           /\ tables[bg.merged] = TableItems(bg.inputs, tables)
          /\ UpTo(TableItems(e.add, tables), e.seq)
          /\ bg.pc = "log" =>
                /\ \A t \in e.add : Unnamed(t)
                /\ UpTo(TableItems(Version(Len(Recs)), tables), e.seq)
                /\ \A t \in Version(Len(Recs)) : t < e.next
                /\ \A k \in Prefixes : Recs[k].next <= e.next

\* Where the memtables' items are, but for those behind a failed append.
Memtables ==
    /\ db.mem \cap db.imm = {} /\ hist.behind \cap TableItems(db.version, tables) = {}
    /\ db.mem \ hist.behind \subseteq ItemsOf(logs[db.logfile].recs)
    /\ db.mem \cap Guaranteed \subseteq SyncedOf(logs[db.logfile])
    /\ db.imm # {} => \E n \in DOMAIN logs :
          /\ db.logNumber <= n /\ n < db.logfile
          /\ db.imm \ hist.behind \subseteq ItemsOf(logs[n].recs)
          /\ db.imm \cap Guaranteed \subseteq SyncedOf(logs[n])

\* Everything a reader or a recovery may find.
Pool == LogItems(logs, db.logNumber) \cup db.mem \cup db.imm
        \cup (UNION {TableItems(Version(k), tables) : k \in Prefixes})
Numbered ==
    /\ Distinct(Pool \cup lead.items) /\ UpTo(Pool, db.lastSeq + Cardinality(lead.items))
    /\ UpTo(Contents, db.lastSeq)
    /\ \A w \in Writers : wr[w].pc = "append" => UpTo(Pool, db.lastSeq)

Told == hist.synced \subseteq hist.acked /\ Answered \subseteq Contents

Run ==
    /\ Numbers /\ (\A k \in Prefixes : Follows(k)) /\ InStep /\ Background /\ EditAtHand
    /\ Memtables /\ Numbered /\ Told /\ Logged

StoreInv ==
    /\ TypeOK /\ Bounded /\ Open /\ Writing
    /\ IF db.state \in Running THEN Run ELSE Disk

-----------------------------------------------------------------------------
(* Functions, least and greatest numbers *)

LEMMA PutIs ==
    ASSUME NEW f, NEW n, NEW v
    PROVE  /\ DOMAIN Put(f, n, v) = DOMAIN f \cup {n} /\ Put(f, n, v)[n] = v
           /\ \A m \in DOMAIN f : m # n => Put(f, n, v)[m] = f[m]
BY DEF Put

LEMMA WithoutIs ==
    ASSUME NEW f, NEW S
    PROVE  /\ DOMAIN Without(f, S) = DOMAIN f \ S
           /\ \A m \in DOMAIN f \ S : Without(f, S)[m] = f[m]
BY DEF Without

\* A set of numbers that is not empty has a least one.
LEMMA LeastIs ==
    ASSUME NEW S \in SUBSET Nat, S # {}
    PROVE  Least(S) \in S /\ \A x \in S : Least(S) <= x
<1>1. IsWellFoundedOn(OpToRel(<, Nat), Nat)
    BY NatLessThanWellFounded
<1>2. PICK x \in S : \A y \in S : ~(<<y, x>> \in OpToRel(<, Nat))
    BY <1>1, WFMin
<1>3. \A y \in S : ~(y < x)
    BY <1>2 DEF OpToRel
<1>4. \A y \in S : x <= y
    BY <1>3
<1>. QED
    BY <1>4 DEF Least

\* A bounded one has a greatest one: the least of its upper bounds.
LEMMA GreatestIs ==
    ASSUME NEW S \in SUBSET Nat, S # {}, NEW b \in Nat, \A x \in S : x <= b
    PROVE  Greatest(S) \in S /\ \A x \in S : x <= Greatest(S)
<1>. DEFINE U == {n \in Nat : \A x \in S : x <= n}
<1>1. U \in SUBSET Nat /\ U # {}
    OBVIOUS
<1>. DEFINE g == Least(U)
<1>2. g \in U /\ \A n \in U : g <= n
    BY <1>1, LeastIs
<1>. HIDE DEF g
<1>3. g \in S
  <2>1. SUFFICES ASSUME g \notin S PROVE FALSE
      OBVIOUS
  <2>2. g \in Nat /\ \A x \in S : x \in Nat /\ x <= g /\ x # g
      BY <1>2, <2>1
  <2>3. g - 1 \in Nat
    <3>1. PICK x \in S : TRUE
        OBVIOUS
    <3>. QED
        BY <2>2, <3>1
  <2>4. \A x \in S : x <= g - 1
      BY <2>2, <2>3
  <2>. QED
      BY <1>2, <2>2, <2>3, <2>4
<1>. QED
    BY <1>2, <1>3 DEF Greatest

-----------------------------------------------------------------------------
(* Items of tables and logs *)

LEMMA TableItemsPut ==
    ASSUME NEW f, NEW t, NEW v, NEW T, T \subseteq DOMAIN f, t \notin T
    PROVE  TableItems(T, Put(f, t, v)) = TableItems(T, f)
<1>1. \A u \in T : Put(f, t, v)[u] = f[u]
    BY DEF Put
<1>. QED
    BY <1>1 DEF TableItems

LEMMA TableItemsWithout ==
    ASSUME NEW f, NEW S, NEW T, T \subseteq DOMAIN f, T \cap S = {}
    PROVE  TableItems(T, Without(f, S)) = TableItems(T, f)
<1>1. \A u \in T : Without(f, S)[u] = f[u]
    BY WithoutIs
<1>. QED
    BY <1>1 DEF TableItems

LEMMA TableItemsUnion ==
    ASSUME NEW f, NEW S, NEW T
    PROVE  TableItems(S \cup T, f) = TableItems(S, f) \cup TableItems(T, f)
BY DEF TableItems

LEMMA TableItemsMono ==
    ASSUME NEW f, NEW S, NEW T, S \subseteq T
    PROVE  TableItems(S, f) \subseteq TableItems(T, f)
BY DEF TableItems

LEMMA EmptyLogIs ==
    ItemsOf(EmptyLog.recs) = {} /\ SyncedOf(EmptyLog) = {} /\ EmptyLog \in Log
    /\ EmptyLog.recs = <<>> /\ EmptyLog.synced = 0
BY DEF ItemsOf, Elements, SyncedOf, EmptyLog, Unsynced, Log

LEMMA LogItemsPut ==
    ASSUME NEW f, NEW n, n \notin DOMAIN f, NEW m
    PROVE  /\ LogItems(Put(f, n, EmptyLog), m) = LogItems(f, m)
           /\ SyncedItems(Put(f, n, EmptyLog), m) = SyncedItems(f, m)
<1>. DEFINE g == Put(f, n, EmptyLog)
<1>1. /\ DOMAIN g = DOMAIN f \cup {n} /\ g[n] = EmptyLog
      /\ \A k \in DOMAIN f : g[k] = f[k]
    BY DEF Put
<1>. HIDE DEF g
<1>2. LogItems(g, m) = LogItems(f, m)
    BY <1>1, EmptyLogIs DEF LogItems
<1>3. SyncedItems(g, m) = SyncedItems(f, m)
    BY <1>1, EmptyLogIs DEF SyncedItems
<1>. QED
    BY <1>2, <1>3 DEF g

LEMMA LogItemsMono ==
    ASSUME NEW f, DOMAIN f \subseteq Nat, NEW m \in Nat, NEW n \in Nat, m <= n
    PROVE  /\ LogItems(f, n) \subseteq LogItems(f, m)
           /\ SyncedItems(f, n) \subseteq SyncedItems(f, m)
<1>1. \A k \in DOMAIN f : k >= n => k >= m
    OBVIOUS
<1>. QED
    BY <1>1 DEF LogItems, SyncedItems

LEMMA LogItemsWithout ==
    ASSUME NEW f, NEW S, NEW m, \A n \in S : ~(n >= m)
    PROVE  /\ LogItems(Without(f, S), m) = LogItems(f, m)
           /\ SyncedItems(Without(f, S), m) = SyncedItems(f, m)
<1>. DEFINE g == Without(f, S)
<1>1. DOMAIN g = DOMAIN f \ S /\ \A k \in DOMAIN g : g[k] = f[k]
    BY DEF Without
<1>. HIDE DEF g
<1>2. \A k : (k \in DOMAIN g /\ k >= m) <=> (k \in DOMAIN f /\ k >= m)
    BY <1>1
<1>3. LogItems(g, m) = LogItems(f, m)
    BY <1>1, <1>2 DEF LogItems
<1>4. SyncedItems(g, m) = SyncedItems(f, m)
    BY <1>1, <1>2 DEF SyncedItems
<1>. QED
    BY <1>3, <1>4 DEF g

LEMMA ItemsOfAppend ==
    ASSUME NEW r \in Seq(SUBSET Item), NEW x \in SUBSET Item
    PROVE  ItemsOf(Append(r, x)) = ItemsOf(r) \cup x
<1>1. /\ Len(Append(r, x)) = Len(r) + 1 /\ Append(r, x)[Len(r) + 1] = x
      /\ \A i \in 1..Len(r) : Append(r, x)[i] = r[i]
    OBVIOUS
<1>2. DOMAIN Append(r, x) = 1..Len(r) + 1 /\ DOMAIN r = 1..Len(r) /\ Len(r) \in Nat
    OBVIOUS
<1>. QED
    BY <1>1, <1>2 DEF ItemsOf, Elements

\* What the first n records hold is part of what all hold.
LEMMA SyncedOfIs ==
    ASSUME NEW l \in Log, l.synced <= Len(l.recs)
    PROVE  /\ SyncedOf(l) \subseteq ItemsOf(l.recs)
           /\ l.synced = Len(l.recs) => SyncedOf(l) = ItemsOf(l.recs)
           /\ ItemsOf(l.recs) \in SUBSET Item
<1>1. l.recs \in Seq(SUBSET Item) /\ l.synced \in Nat
    BY DEF Log
<1>2. DOMAIN l.recs = 1..Len(l.recs) /\ Len(l.recs) \in Nat
    BY <1>1
<1>3. \A i \in 1..l.synced : i \in DOMAIN l.recs
    BY <1>1, <1>2
<1>4. \A i \in DOMAIN l.recs : l.recs[i] \in SUBSET Item
    BY <1>1
<1>. QED
    BY <1>1, <1>2, <1>3, <1>4 DEF SyncedOf, ItemsOf, Elements

\* A file that grows.
LEMMA GrownIs ==
    ASSUME NEW file, NEW records, NEW whole
    PROVE  LET g == Grown(file, records, whole)
           IN /\ g.recs = file.recs \o records /\ g.synced = file.synced
              /\ g.torn \in BOOLEAN
              /\ g = [recs |-> file.recs \o records, synced |-> file.synced, torn |-> g.torn]
<1>. DEFINE half == file.torn \/ ~whole
<1>1. half \in BOOLEAN
    OBVIOUS
<1>2. Grown(file, records, whole) =
          [recs |-> file.recs \o records, synced |-> file.synced, torn |-> half]
    BY Zenon DEF Grown
<1>. HIDE DEF half
<1>. QED
    BY <1>1, <1>2

LEMMA LogGrown ==
    ASSUME NEW file \in Log, NEW x \in SUBSET Item, NEW whole
    PROVE  /\ Grown(file, <<x>>, whole).recs = Append(file.recs, x)
           /\ Grown(file, <<x>>, whole).synced = file.synced
           /\ Grown(file, <<x>>, whole) \in Log
<1>. DEFINE g == Grown(file, <<x>>, whole)
<1>1. file.recs \in Seq(SUBSET Item) /\ file.synced \in Nat
    BY DEF Log
<1>2. <<x>> \in Seq(SUBSET Item) /\ file.recs \o <<x>> = Append(file.recs, x)
      /\ Append(file.recs, x) \in Seq(SUBSET Item)
    BY <1>1
<1>3. /\ g.recs = file.recs \o <<x>> /\ g.synced = file.synced /\ g.torn \in BOOLEAN
      /\ g = [recs |-> file.recs \o <<x>>, synced |-> file.synced, torn |-> g.torn]
    BY GrownIs, Zenon
<1>. HIDE DEF g
<1>4. g \in Log
    BY <1>1, <1>2, <1>3 DEF Log
<1>. QED
    BY <1>2, <1>3, <1>4 DEF g

LEMMA ManifestGrown ==
    ASSUME NEW file \in Manifest, NEW edits \in Seq(Edits), NEW whole
    PROVE  /\ Grown(file, edits, whole).recs = file.recs \o edits
           /\ Grown(file, edits, whole).synced = file.synced
           /\ Grown(file, edits, whole) \in Manifest
<1>. DEFINE g == Grown(file, edits, whole)
<1>1. file.recs \in Seq(Edits) /\ file.synced \in Nat
    BY DEF Manifest
<1>2. file.recs \o edits \in Seq(Edits)
    BY <1>1
<1>3. /\ g.recs = file.recs \o edits /\ g.synced = file.synced /\ g.torn \in BOOLEAN
      /\ g = [recs |-> file.recs \o edits, synced |-> file.synced, torn |-> g.torn]
    BY GrownIs, Zenon
<1>. HIDE DEF g
<1>4. g \in Manifest
    BY <1>1, <1>2, <1>3 DEF Manifest
<1>. QED
    BY <1>3, <1>4 DEF g

\* A new file.
LEMMA UnsyncedIs ==
    ASSUME NEW r
    PROVE  /\ Unsynced(r).recs = r /\ Unsynced(r).synced = 0
           /\ r \in Seq(Edits) => Unsynced(r) \in Manifest
BY DEF Unsynced, Manifest

\* A record is appended to log n.
LEMMA LogItemsAppend ==
    ASSUME NEW f, NEW n \in DOMAIN f, f[n] \in Log, f[n].synced <= Len(f[n].recs),
           NEW x \in SUBSET Item,
           NEW g, DOMAIN g = DOMAIN f, 
           NEW t, g[n] = Grown(f[n], <<x>>, t),
           \A k \in DOMAIN f : k # n => g[k] = f[k]
    PROVE     /\ DOMAIN g = DOMAIN f /\ g[n] \in Log /\ g[n].synced = f[n].synced
              /\ g[n].recs = Append(f[n].recs, x) /\ g[n].synced <= Len(g[n].recs)
              /\ ItemsOf(g[n].recs) = ItemsOf(f[n].recs) \cup x
              /\ \A k \in DOMAIN f : k # n => g[k] = f[k]
              /\ SyncedOf(g[n]) = SyncedOf(f[n])
              /\ \A m : /\ SyncedItems(g, m) = SyncedItems(f, m)
                        /\ LogItems(f, m) \subseteq LogItems(g, m)
                        /\ LogItems(g, m) \subseteq LogItems(f, m) \cup x
<1>1. DOMAIN g = DOMAIN f /\ n \in DOMAIN g /\ \A k \in DOMAIN f : k # n => g[k] = f[k]
    OBVIOUS
<1>2. f[n].recs \in Seq(SUBSET Item) /\ f[n].synced \in Nat
    BY DEF Log
<1>3. g[n].recs = Append(f[n].recs, x) /\ g[n].synced = f[n].synced /\ g[n] \in Log
    BY LogGrown
<1>4. Append(f[n].recs, x) \in Seq(SUBSET Item)
      /\ Len(Append(f[n].recs, x)) = Len(f[n].recs) + 1
    BY <1>2
<1>5. g[n] \in Log
    BY <1>3
<1>6. g[n].synced <= Len(g[n].recs)
    BY <1>2, <1>3, <1>4
<1>7. ItemsOf(g[n].recs) = ItemsOf(f[n].recs) \cup x
    BY <1>2, <1>3, ItemsOfAppend
<1>8. SyncedOf(g[n]) = SyncedOf(f[n])
  <2>1. \A j \in 1..f[n].synced : Append(f[n].recs, x)[j] = f[n].recs[j]
      BY <1>2
  <2>2. \A j \in 1..g[n].synced : g[n].recs[j] = f[n].recs[j]
      BY <2>1, <1>3
  <2>. QED
      BY <2>2, <1>3 DEF SyncedOf
<1>9. \A k \in DOMAIN f : SyncedOf(g[k]) = SyncedOf(f[k])
    BY <1>1, <1>8
<1>10. \A m : SyncedItems(g, m) = SyncedItems(f, m)
    BY <1>1, <1>9 DEF SyncedItems
<1>11. \A k \in DOMAIN f : /\ ItemsOf(f[k].recs) \subseteq ItemsOf(g[k].recs)
                           /\ ItemsOf(g[k].recs) \subseteq ItemsOf(f[k].recs) \cup x
    BY <1>1, <1>7
<1>12. \A m : LogItems(f, m) \subseteq LogItems(g, m)
    BY <1>1, <1>11 DEF LogItems
<1>13. \A m : LogItems(g, m) \subseteq LogItems(f, m) \cup x
    BY <1>1, <1>11 DEF LogItems
<1>. QED
    BY <1>1, <1>3, <1>5, <1>6, <1>7, <1>8, <1>10, <1>12, <1>13

\* Log n is synced.
LEMMA LogItemsSync ==
    ASSUME NEW f, NEW n \in DOMAIN f, f[n] \in Log, f[n].synced <= Len(f[n].recs),
           NEW g, DOMAIN g = DOMAIN f, 
           g[n] = [recs |-> f[n].recs, synced |-> Len(f[n].recs), torn |-> f[n].torn],
           \A k \in DOMAIN f : k # n => g[k] = f[k]
    PROVE     /\ DOMAIN g = DOMAIN f /\ g[n] \in Log /\ g[n].recs = f[n].recs
              /\ g[n].synced <= Len(g[n].recs)
              /\ \A k \in DOMAIN f : k # n => g[k] = f[k]
              /\ \A k \in DOMAIN f : g[k].recs = f[k].recs
              /\ SyncedOf(g[n]) = ItemsOf(f[n].recs)
              /\ \A m : /\ LogItems(g, m) = LogItems(f, m)
                        /\ SyncedItems(f, m) \subseteq SyncedItems(g, m)
<1>1. DOMAIN g = DOMAIN f /\ n \in DOMAIN g /\ \A k \in DOMAIN f : k # n => g[k] = f[k]
    OBVIOUS
<1>2. f[n].recs \in Seq(SUBSET Item) /\ f[n].synced \in Nat /\ Len(f[n].recs) \in Nat
    BY DEF Log
<1>3. g[n].recs = f[n].recs /\ g[n].synced = Len(f[n].recs)
    BY <1>1 DEF Log
<1>4. g[n] \in Log
    BY <1>1, <1>2 DEF Log
<1>5. SyncedOf(g[n]) = ItemsOf(f[n].recs)
    BY <1>2, <1>3, <1>4, SyncedOfIs
<1>6. SyncedOf(f[n]) \subseteq ItemsOf(f[n].recs)
    BY SyncedOfIs
<1>7. \A k \in DOMAIN f : g[k].recs = f[k].recs
    BY <1>1, <1>3
<1>8. \A m : LogItems(g, m) = LogItems(f, m)
    BY <1>1, <1>7 DEF LogItems
<1>9. \A k \in DOMAIN f : SyncedOf(f[k]) \subseteq SyncedOf(g[k])
    BY <1>1, <1>5, <1>6
<1>10. \A m : SyncedItems(f, m) \subseteq SyncedItems(g, m)
    BY <1>1, <1>9 DEF SyncedItems
<1>. QED
  <2>1. g[n].synced <= Len(g[n].recs)
      BY <1>2, <1>3
  <2>. QED
      BY <2>1, <1>1, <1>3, <1>4, <1>5, <1>7, <1>8, <1>10

-----------------------------------------------------------------------------
(* Versions *)

LEMMA VersionOfIs ==
    ASSUME NEW r \in Seq(Edits)
    PROVE  VersionOf(r) = VersionAt(r, Len(r))
BY DEF VersionOf, VersionAt, Adds, Dels, Elements

LEMMA VersionAtType ==
    ASSUME NEW r \in Seq(Edits), NEW k \in 0..Len(r)
    PROVE  /\ Adds(r, k) \in SUBSET Nat /\ Dels(r, k) \in SUBSET Nat
           /\ VersionAt(r, k) \in SUBSET Nat
           /\ VersionAt(r, k) \subseteq Adds(r, Len(r))
<1>1. \A i \in 1..k : i \in 1..Len(r) /\ r[i] \in Edits
    OBVIOUS
<1>2. \A i \in 1..k : r[i].add \in SUBSET Nat /\ r[i].del \in SUBSET Nat
    BY <1>1 DEF Edits
<1>3. Adds(r, k) \subseteq Adds(r, Len(r))
    BY <1>1 DEF Adds
<1>. QED
    BY <1>2, <1>3 DEF Adds, Dels, VersionAt

\* A crash leaves a prefix of the MANIFEST, with the versions of the prefix.
LEMMA VersionAtPrefix ==
    ASSUME NEW r \in Seq(Edits), NEW k \in 0..Len(r), NEW j \in 0..k
    PROVE  /\ SubSeq(r, 1, k) \in Seq(Edits) /\ Len(SubSeq(r, 1, k)) = k
           /\ \A i \in 1..k : SubSeq(r, 1, k)[i] = r[i]
           /\ VersionAt(SubSeq(r, 1, k), j) = VersionAt(r, j)
<1>1. SubSeq(r, 1, k) \in Seq(Edits) /\ Len(SubSeq(r, 1, k)) = k
      /\ \A i \in 1..k : SubSeq(r, 1, k)[i] = r[i]
    OBVIOUS
<1>2. \A i \in 1..j : SubSeq(r, 1, k)[i] = r[i]
    BY <1>1
<1>. HIDE <1>1
<1>3. VersionAt(SubSeq(r, 1, k), j) = VersionAt(r, j)
    BY <1>2 DEF VersionAt, Adds, Dels
<1>. QED
    BY <1>1, <1>3

\* An edit that adds tables never named before takes its deletions away, and
\* gives its additions; the versions of the shorter prefixes stay.
LEMMA VersionAtAppend ==
    ASSUME NEW r \in Seq(Edits), NEW e \in Edits,
           e.add \cap Dels(r, Len(r)) = {}, e.add \cap e.del = {}
    PROVE  LET a == Append(r, e)
               n == Len(r)
           IN /\ a \in Seq(Edits) /\ Len(a) = n + 1 /\ a[n + 1] = e
              /\ \A i \in 1..n : a[i] = r[i]
              /\ \A k \in 0..n : VersionAt(a, k) = VersionAt(r, k)
              /\ VersionAt(a, n + 1) = (VersionAt(r, n) \ e.del) \cup e.add
              /\ Adds(a, n + 1) = Adds(r, n) \cup e.add
              /\ Dels(a, n + 1) = Dels(r, n) \cup e.del
<1>. DEFINE a == Append(r, e)
            n == Len(r)
<1>1. /\ a \in Seq(Edits) /\ Len(a) = n + 1 /\ a[n + 1] = e /\ n \in Nat
      /\ \A i \in 1..n : a[i] = r[i]
    OBVIOUS
<1>. HIDE DEF a
<1>2. ASSUME NEW k \in 0..n PROVE VersionAt(a, k) = VersionAt(r, k)
  <2>1. \A i \in 1..k : a[i] = r[i]
      BY <1>1
  <2>. QED
      BY <2>1 DEF VersionAt, Adds, Dels
<1>3. \A i : i \in 1..n + 1 <=> i \in 1..n \/ i = n + 1
    BY <1>1
<1>4. Adds(a, n + 1) = Adds(r, n) \cup e.add
    BY <1>1, <1>3 DEF Adds
<1>5. Dels(a, n + 1) = Dels(r, n) \cup e.del
    BY <1>1, <1>3 DEF Dels
<1>6. VersionAt(a, n + 1) = (VersionAt(r, n) \ e.del) \cup e.add
    BY <1>4, <1>5 DEF VersionAt
<1>. QED
    BY <1>1, <1>2, <1>4, <1>5, <1>6 DEF a

-----------------------------------------------------------------------------
(* The group *)

\* A group's items have the numbers that follow LastSequence, each its own.
LEMMA GroupItemsAre ==
    ASSUME TypeOK, NEW n \in 0..Len(queue)
    PROVE  LET items == GroupItems(db, n)
           IN /\ items \in SUBSET Item /\ IsFiniteSet(items) /\ Distinct(items)
              /\ Cardinality(items) \in Nat
              /\ \A i \in items : db.lastSeq < i.seq /\ i.seq <= db.lastSeq + Cardinality(items)
<1>. DEFINE batches == {i \in 1..n : wr[queue[i]].id # 0}
            upto(i) == {j \in batches : j <= i}
            place(i) == Cardinality(upto(i))
            item(i) == [seq |-> db.lastSeq + place(i), id |-> wr[queue[i]].id]
            items == {item(i) : i \in batches}
<1>1. n \in Nat /\ Len(queue) \in Nat /\ db.lastSeq \in Nat
      /\ \A i \in batches : wr[queue[i]].id \in Nat
    BY DEF TypeOK, WritersOK, DbOK, DbType
<1>2. IsFiniteSet(batches)
  <2>1. IsFiniteSet(1..n)
      BY <1>1, FS_Interval
  <2>2. batches \subseteq 1..n
      OBVIOUS
  <2>. QED
      BY <2>1, <2>2, FS_Subset
<1>. HIDE DEF batches
<1>3. ASSUME NEW i \in batches
      PROVE  /\ IsFiniteSet(upto(i)) /\ place(i) \in Nat /\ place(i) > 0
             /\ place(i) <= Cardinality(batches)
  <2>1. batches \subseteq Nat
      BY <1>1 DEF batches
  <2>2. IsFiniteSet(upto(i)) /\ place(i) <= Cardinality(batches)
      BY <1>2, FS_Subset
  <2>3. i \in upto(i)
      BY <2>1
  <2>4. place(i) \in Nat /\ place(i) # 0
      BY <2>2, <2>3, FS_CardinalityType, FS_EmptySet
  <2>. QED
      BY <2>2, <2>4
<1>4. ASSUME NEW i \in batches, NEW j \in batches, i < j PROVE place(i) < place(j)
  <2>1. batches \subseteq Nat
      BY <1>1 DEF batches
  <2>2. i \in Nat /\ j \in Nat
      BY <2>1
  <2>3. upto(i) \subseteq upto(j)
    <3>1. SUFFICES ASSUME NEW k \in batches, k <= i PROVE k <= j
        OBVIOUS
    <3>. QED
        BY <3>1, <2>1, <2>2, <1>4
  <2>4. j \in upto(j) /\ j \notin upto(i)
      BY <2>1, <2>2, <1>4
  <2>5. IsFiniteSet(upto(j)) /\ place(i) \in Nat /\ place(j) \in Nat
      BY <1>3
  <2>. HIDE DEF upto
  <2>6. place(i) <= place(j) /\ place(i) # place(j)
      BY <2>3, <2>4, <2>5, FS_Subset
  <2>. QED
      BY <2>5, <2>6
<1>. HIDE DEF place
<1>3a. /\ batches \subseteq Nat
       /\ \A i \in batches : place(i) \in Nat /\ place(i) > 0
                              /\ place(i) <= Cardinality(batches)
       /\ \A i, j \in batches : i < j => place(i) < place(j)
  <2>1. batches \subseteq Nat
      BY <1>1 DEF batches
  <2>. QED
      BY <2>1, <1>3, <1>4
<1>5. \A i, j \in batches : place(i) = place(j) => i = j
    BY <1>3a
<1>6. items \in SUBSET Item
    BY <1>1, <1>3a DEF Item
<1>7. Distinct(items)
  <2>1. SUFFICES ASSUME NEW i \in batches, NEW j \in batches, item(i).seq = item(j).seq
                 PROVE  item(i) = item(j)
      BY DEF Distinct
  <2>2. place(i) = place(j)
      BY <2>1, <1>1, <1>3a
  <2>. QED
      BY <2>2, <1>5
<1>8. IsFiniteSet(items) /\ Cardinality(items) = Cardinality(batches)
  <2>. DEFINE f == [i \in batches |-> item(i)]
  <2>1. f \in Surjection(batches, items)
      BY DEF Surjection
  <2>2. \A i, j \in batches : f[i] = f[j] => i = j
    <3>1. SUFFICES ASSUME NEW i \in batches, NEW j \in batches, item(i) = item(j)
                   PROVE  i = j
        OBVIOUS
    <3>2. item(i).seq = item(j).seq
        BY <3>1
    <3>3. place(i) = place(j)
        BY <3>2, <1>1, <1>3a
    <3>. QED
        BY <3>3, <1>5
  <2>3. f \in Injection(batches, items)
      BY <2>2 DEF Injection, IsInjective
  <2>. QED
      BY <2>1, <2>3, <1>2, FS_Surjection
<1>9. \A i \in items : db.lastSeq < i.seq /\ i.seq <= db.lastSeq + Cardinality(items)
  <2>1. SUFFICES ASSUME NEW i \in batches
                 PROVE  /\ db.lastSeq < item(i).seq
                        /\ item(i).seq <= db.lastSeq + Cardinality(batches)
      BY <1>8
  <2>2. item(i).seq = db.lastSeq + place(i)
      OBVIOUS
  <2>3. Cardinality(batches) \in Nat
      BY <1>2, FS_CardinalityType
  <2>. QED
      BY <2>2, <2>3, <1>1, <1>3a
<1>10. Cardinality(items) \in Nat
    BY <1>8, FS_CardinalityType
<1>11. GroupItems(db, n) = items
    BY DEF GroupItems, items, item, place, upto, batches
<1>. QED
    BY <1>6, <1>7, <1>8, <1>9, <1>10, <1>11

-----------------------------------------------------------------------------
(* What an open database promises of its files *)

LEMMA CanBeRead ==
    ASSUME NEW r \in Seq(Edits), NEW i \in DOMAIN r, r[i].next > 0
    PROVE  Readable(r)
<1>1. Unreadable \notin Edits
    BY DEF Unreadable, Edit, Edits
<1>2. \A j \in DOMAIN r : r[j] \in Edits
    OBVIOUS
<1>. QED
    BY <1>1, <1>2 DEF Readable, Elements

LEMMA RecsType ==
    ASSUME TypeOK, current \in DOMAIN manifests
    PROVE  /\ Recs \in Seq(Edits) /\ Len(Recs) \in Nat
           /\ manifests[current].synced \in Nat /\ manifests[current].synced <= Len(Recs)
           /\ Len(Recs) \in Prefixes /\ \A k \in Prefixes : k \in 0..Len(Recs)
BY DEF TypeOK, ManifestsOK, Manifest, Recs, Prefixes

\* What DB::Open would find, in terms of the prefixes.
LEMMA RecoverableIs ==
    ASSUME TypeOK, current \in DOMAIN manifests, Len(Recs) > 0
    PROVE  LET n == Len(Recs)
           IN /\ Version(n) = VersionOf(Recs) /\ LastEdit(Recs) = Recs[n]
              /\ (Version(n) \subseteq DOMAIN tables /\ Recs[n].next > 0) =>
                    /\ Openable
                    /\ Recoverable = TableItems(Version(n), tables)
                                     \cup LogItems(logs, Recs[n].log)
<1>1. Recs \in Seq(Edits) /\ Len(Recs) \in Nat /\ Len(Recs) \in DOMAIN Recs
    BY RecsType
<1>2. Version(Len(Recs)) = VersionOf(Recs)
    BY <1>1, VersionOfIs DEF Version
<1>3. LastEdit(Recs) = Recs[Len(Recs)]
    BY DEF LastEdit
<1>4. ASSUME Version(Len(Recs)) \subseteq DOMAIN tables, Recs[Len(Recs)].next > 0
      PROVE  Openable /\ Recoverable = TableItems(Version(Len(Recs)), tables)
                                       \cup LogItems(logs, Recs[Len(Recs)].log)
  <2>1. Readable(Recs)
      BY <1>1, <1>4, CanBeRead
  <2>2. Openable
      BY <2>1, <1>2, <1>4 DEF Openable, Recs
  <2>. QED
      BY <2>2, <1>2, <1>3 DEF Recoverable, TableItems, LogItems, Recs
<1>. QED
    BY <1>2, <1>3, <1>4

\* Each prefix of the MANIFEST, with the logs it needs, holds what a reader
\* sees, and what has been synced also without what has not.
LEMMA ContentsFound ==
    ASSUME TypeOK, Run, NEW k \in Prefixes
    PROVE  LET e == Recs[k]
           IN /\ Contents \ hist.behind
                     \subseteq TableItems(Version(k), tables) \cup LogItems(logs, e.log)
              /\ Guaranteed \subseteq TableItems(Version(k), tables)
                                       \cup SyncedItems(logs, e.log)
              /\ LogItems(logs, e.log) \subseteq LogItems(logs, db.logNumber)
              /\ TableItems(Version(k), tables) \cup LogItems(logs, e.log) \subseteq Pool
              /\ Contents \subseteq Pool
<1>. DEFINE e == Recs[k]
            T == TableItems(Version(k), tables)
<1>1. Follows(k) /\ Numbers /\ Memtables /\ Told
    BY DEF Run
<1>2. /\ e.log \in Nat /\ TableItems(db.version, tables) \subseteq T
      /\ \/ e.log = db.logNumber
         \/ e.log = db.logfile /\ db.imm # {} /\ db.imm \subseteq T
    BY <1>1 DEF Follows
<1>3. db.logNumber \in Nat /\ db.logfile \in Nat /\ db.logNumber <= db.logfile
      /\ db.logfile \in DOMAIN logs /\ DOMAIN logs \subseteq Nat
    BY <1>1 DEF Numbers, TypeOK, DbOK, DbType, LogsOK
<1>4. db.logNumber <= e.log /\ e.log <= db.logfile
    BY <1>2, <1>3
<1>5. LogItems(logs, e.log) \subseteq LogItems(logs, db.logNumber)
    BY <1>2, <1>3, <1>4, LogItemsMono
<1>6. /\ ItemsOf(logs[db.logfile].recs) \subseteq LogItems(logs, e.log)
      /\ SyncedOf(logs[db.logfile]) \subseteq SyncedItems(logs, e.log)
    BY <1>2, <1>3, <1>4 DEF LogItems, SyncedItems
<1>7. db.mem \ hist.behind \subseteq LogItems(logs, e.log)
      /\ db.mem \cap Guaranteed \subseteq SyncedItems(logs, e.log)
    BY <1>1, <1>6 DEF Memtables
<1>8. db.imm \ hist.behind \subseteq T \cup LogItems(logs, e.log)
      /\ db.imm \cap Guaranteed \subseteq T \cup SyncedItems(logs, e.log)
  <2>1. CASE e.log = db.logNumber /\ db.imm # {}
    <3>1. PICK n \in DOMAIN logs :
              /\ db.logNumber <= n /\ n < db.logfile
              /\ db.imm \ hist.behind \subseteq ItemsOf(logs[n].recs)
              /\ db.imm \cap Guaranteed \subseteq SyncedOf(logs[n])
        BY <1>1, <2>1 DEF Memtables
    <3>2. n >= e.log
        BY <3>1, <2>1, <1>3
    <3>. QED
        BY <3>1, <3>2 DEF LogItems, SyncedItems
  <2>. QED
      BY <2>1, <1>2
<1>9. Contents \ hist.behind \subseteq T \cup LogItems(logs, e.log)
    BY <1>2, <1>7, <1>8 DEF Contents, TableItems
<1>10. Guaranteed \subseteq T \cup SyncedItems(logs, e.log)
  <2>1. Guaranteed \subseteq db.mem \cup db.imm \cup TableItems(db.version, tables)
      BY <1>1 DEF Told, Contents, TableItems, Answered, Guaranteed
  <2>. QED
      BY <2>1, <1>2, <1>7, <1>8
<1>11. T \subseteq Pool
    BY DEF Pool
<1>12. Contents \subseteq Pool
    BY <1>2, <1>11 DEF Contents, TableItems, Pool
<1>. QED
    BY <1>5, <1>9, <1>10, <1>11, <1>12 DEF Pool

LEMMA RunningIsSound ==
    ASSUME TypeOK, Run
    PROVE  Disk /\ Contents \subseteq Recoverable \cup hist.behind
<1>1. Numbers /\ Told /\ Numbered /\ \A k \in Prefixes : Follows(k)
    BY DEF Run
<1>2. /\ current \in DOMAIN manifests /\ current >= 2 /\ manifests[current].synced >= 2
      /\ current \in Nat
    BY <1>1 DEF Numbers, TypeOK
<1>3. Len(Recs) \in Nat /\ Len(Recs) \in Prefixes /\ Len(Recs) > 0
    BY <1>2, RecsType
<1>4. ASSUME NEW k \in Prefixes PROVE Sound(k)
  <2>1. Follows(k)
      BY <1>1
  <2>2. Distinct(TableItems(Version(k), tables) \cup LogItems(logs, Recs[k].log))
      BY <1>1, ContentsFound DEF Numbered, Distinct
  <2>3. Guaranteed \subseteq TableItems(Version(k), tables)
                              \cup SyncedItems(logs, Recs[k].log)
      BY ContentsFound
  <2>. QED
      BY <2>1, <2>2, <2>3 DEF Follows, Sound
<1>5. Sound(Len(Recs))
    BY <1>3, <1>4
<1>6. Recs[Len(Recs)].next > 0 /\ Version(Len(Recs)) \subseteq DOMAIN tables
    BY <1>2, <1>5 DEF Sound
<1>7. Recoverable = TableItems(Version(Len(Recs)), tables)
                    \cup LogItems(logs, Recs[Len(Recs)].log)
    BY <1>2, <1>3, <1>6, RecoverableIs
<1>8. Contents \subseteq Recoverable \cup hist.behind
    BY <1>3, <1>7, ContentsFound
<1>9. hist.synced \subseteq hist.acked /\ Answered \subseteq Recoverable
    BY <1>1, <1>8 DEF Told, Answered, Guaranteed
<1>. QED
    BY <1>2, <1>4, <1>8, <1>9 DEF Disk

\* The invariant implies the properties.
LEMMA InvariantSays ==
    ASSUME StoreInv
    PROVE  AckedSurvive /\ OpenableAgain /\ NothingNeededDeleted /\ ReadersAgreeWithDisk
<1>1. TypeOK /\ Writing
    BY DEF StoreInv
<1>2. Disk /\ (db.state \in Running => Run /\ Contents \subseteq Recoverable \cup hist.behind)
    BY <1>1, RunningIsSound DEF StoreInv
<1>3. AckedSurvive
    BY <1>2 DEF Disk, AckedSurvive, Answered, Guaranteed
<1>4. OpenableAgain
  <2>1. SUFFICES ASSUME hist.opened PROVE Openable
      BY DEF OpenableAgain
  <2>2. current >= 2 /\ current \in Nat
      BY <1>1, <1>2, <2>1 DEF Disk, TypeOK
  <2>3. current \in DOMAIN manifests /\ manifests[current].synced >= 2
      BY <1>2, <2>2 DEF Disk
  <2>4. Len(Recs) \in Nat /\ Len(Recs) \in Prefixes /\ Len(Recs) > 0
      BY <1>1, <2>3, RecsType
  <2>5. Sound(Len(Recs))
      BY <1>2, <2>2, <2>4 DEF Disk
  <2>6. Recs[Len(Recs)].next > 0 /\ Version(Len(Recs)) \subseteq DOMAIN tables
      BY <2>2, <2>5 DEF Sound
  <2>. QED
      BY <1>1, <2>3, <2>4, <2>6, RecoverableIs
<1>5. NothingNeededDeleted
  <2>1. SUFFICES ASSUME db.state \in Running PROVE NothingNeededDeleted
      BY DEF NothingNeededDeleted, Running
  <2>2. Numbers /\ Background /\ EditAtHand /\ Memtables
      BY <1>2, <2>1 DEF Run
  <2>3. db.version \subseteq DOMAIN tables /\ db.logfile \in DOMAIN logs
      BY <2>2 DEF Numbers
  <2>4. bg.inputs \subseteq db.version
      BY <2>2 DEF Background
  <2>5. bg.pc \in {"log", "syncEdit", "install"} => bg.edit.add \subseteq DOMAIN tables
      BY <2>2 DEF EditAtHand, Logging
  <2>6. db.imm # {} => \E n \in DOMAIN logs :
            n # db.logfile /\ db.imm \ hist.behind \subseteq ItemsOf(logs[n].recs)
    <3>1. SUFFICES ASSUME db.imm # {}
                   PROVE  \E n \in DOMAIN logs :
                            n # db.logfile /\ db.imm \ hist.behind \subseteq ItemsOf(logs[n].recs)
        OBVIOUS
    <3>2. PICK n \in DOMAIN logs : /\ db.logNumber <= n /\ n < db.logfile
                                   /\ db.imm \ hist.behind \subseteq ItemsOf(logs[n].recs)
        BY <2>2, <3>1 DEF Memtables
    <3>3. n # db.logfile
        BY <3>2, <1>1 DEF TypeOK, DbOK, DbType, LogsOK
    <3>. QED
        BY <3>2, <3>3
  <2>. QED
      BY <2>3, <2>4, <2>5, <2>6 DEF NothingNeededDeleted, None
<1>6. ReadersAgreeWithDisk
  <2>1. SUFFICES ASSUME db.state \in Running
                 PROVE  /\ Answered \subseteq Contents
                        /\ Contents \subseteq Recoverable \cup hist.behind
                        /\ \A i, j \in Contents : i.seq = j.seq => i = j
                        /\ \A i \in Contents : i.seq <= db.lastSeq
      BY DEF ReadersAgreeWithDisk, Running
  <2>2. Told /\ Numbered /\ Numbers /\ Contents \subseteq Recoverable \cup hist.behind
      BY <1>2, <2>1 DEF Run
  <2>3. current \in DOMAIN manifests
      BY <2>2 DEF Numbers
  <2>4. Len(Recs) \in Prefixes
      BY <1>1, <2>3, RecsType
  <2>5. Contents \subseteq Pool
      BY <1>1, <1>2, <2>1, <2>4, ContentsFound
  <2>. QED
      BY <2>2, <2>5 DEF Told, Numbered, Distinct, UpTo
<1>. QED
    BY <1>3, <1>4, <1>5, <1>6

-----------------------------------------------------------------------------
(* Steps that leave alone what a recovery would read *)

LEMMA DiskKept ==
    ASSUME TypeOK, Disk, 0 \notin DOMAIN manifests', current' = current,
           current # 0 => current \in DOMAIN manifests' /\ manifests'[current] = manifests[current],
           current # 0 => \A k \in Prefixes : k > 0 =>
               \A t \in Version(k) : t \in DOMAIN tables' /\ tables'[t] = tables[t],
           \A n \in Nat : LogItems(logs', n) = LogItems(logs, n)
                          /\ SyncedItems(logs', n) = SyncedItems(logs, n),
           hist'.opened = hist.opened, hist'.acked = hist.acked, hist'.synced = hist.synced /\ hist'.behind = hist.behind
    PROVE  Disk'
<1>1. CASE current = 0
  <2>1. ~Openable /\ hist.acked = {}
      BY <1>1 DEF Disk, Openable, Recoverable, TypeOK, ManifestsOK
  <2>2. Answered' \subseteq Recoverable'
      BY <2>1 DEF Answered
  <2>3. LogItems(logs', 0) = LogItems(logs, 0)
      OBVIOUS
  <2>. QED
      BY <1>1, <2>2, <2>3 DEF Disk
<1>2. CASE current # 0
  <2>1. current \in DOMAIN manifests /\ \A k \in Prefixes : k > 0 => Sound(k)
      BY <1>2 DEF Disk
  <2>2. Recs' = Recs /\ Prefixes' = Prefixes
      BY <1>2 DEF Recs, Prefixes
  <2>3. ASSUME NEW k \in Prefixes, k > 0
        PROVE  /\ Sound(k)' /\ Version(k)' = Version(k)
               /\ TableItems(Version(k), tables') = TableItems(Version(k), tables)
    <3>1. Sound(k)
        BY <2>1, <2>3
    <3>2. Version(k)' = Version(k)
        BY <2>2 DEF Version
    <3>3. \A t \in Version(k) : t \in DOMAIN tables' /\ tables'[t] = tables[t]
        BY <1>2, <2>3
    <3>4. TableItems(Version(k), tables') = TableItems(Version(k), tables)
        BY <3>3 DEF TableItems
    <3>5. Recs[k].log \in Nat
        BY <3>1 DEF Sound
    <3>6. LogItems(logs', Recs[k].log) = LogItems(logs, Recs[k].log)
          /\ SyncedItems(logs', Recs[k].log) = SyncedItems(logs, Recs[k].log)
        BY <3>5
    <3>. QED
        BY <3>1, <3>2, <3>3, <3>4, <3>6, <2>2 DEF Sound, Answered, Guaranteed
  <2>4. Answered \subseteq Recoverable'
    <3>1. CASE Answered = {}
        BY <3>1
    <3>2. CASE Answered # {}
      <4>1. Openable
          BY <3>2 DEF Disk, Recoverable
      <4>2. Len(Recs) > 0 /\ Len(Recs) \in Prefixes
          BY <4>1, <2>1, RecsType DEF Openable, Readable, Recs
      <4>. DEFINE n == Len(Recs)
      <4>3. Sound(n) /\ Version(n) \subseteq DOMAIN tables'
            /\ TableItems(Version(n), tables') = TableItems(Version(n), tables)
          BY <4>2, <2>1, <2>3, <1>2
      <4>4. Recs[n].log \in Nat /\ LogItems(logs', Recs[n].log) = LogItems(logs, Recs[n].log)
          BY <4>3 DEF Sound
      <4>5. /\ Version(n) = VersionOf(Recs) /\ LastEdit(Recs) = Recs[n]
            /\ Recoverable = TableItems(Version(n), tables) \cup LogItems(logs, Recs[n].log)
          BY <4>1, <4>2, <4>3, <2>1, RecoverableIs DEF Sound, TypeOK
      <4>6. Readable(Recs)
          BY <4>1 DEF Openable, Recs
      <4>7. Openable'
          BY <4>3, <4>5, <4>6, <2>2, <1>2 DEF Openable, Recs
      <4>8. Recoverable' = TableItems(Version(n), tables') \cup LogItems(logs', Recs[n].log)
          BY <4>5, <4>7, <2>2 DEF Recoverable, Recs, TableItems, LogItems
      <4>. QED
          BY <4>3, <4>4, <4>5, <4>8 DEF Disk
    <3>. QED
        BY <3>1, <3>2
  <2>5. LogItems(logs', 0) = LogItems(logs, 0)
      OBVIOUS
  <2>. QED
      BY <1>2, <2>1, <2>2, <2>3, <2>4, <2>5 DEF Disk, Answered, Guaranteed
<1>. QED
    BY <1>1, <1>2

LEMMA BoundedKept ==
    ASSUME Bounded, LogItems(logs', 0) \subseteq LogItems(logs, 0)
    PROVE  Bounded'
BY DEF Bounded, UpTo

\* Nobody writes to a database that is not open, and nothing runs in it.
Still == db.state \in {"closed"} \cup Opening

LEMMA StillIs ==
    ASSUME StoreInv, Still
    PROVE  /\ TypeOK /\ Bounded /\ Open /\ Writing /\ Disk
           /\ bg = NoWork /\ lead = NoLead /\ queue = <<>> /\ \A w \in Writers : wr[w].pc \notin Active
           /\ db.bgError = FALSE /\ db.scheduled = FALSE /\ db.mem = {} /\ db.imm = {}
           /\ db.pending = {} /\ db.state \notin Running
<1>1. db.state \notin Running /\ db.state # "open"
    BY DEF Still, Opening, Running
<1>. QED
    BY <1>1 DEF StoreInv, Open, Still, Writing

LEMMA StaysStill ==
    ASSUME StoreInv, Still, Still', UNCHANGED <<queue, wr, lead, bg>>
    PROVE  Writing' /\ WritersOK' /\ LeadOK' /\ BgOK'
<1>1. /\ TypeOK /\ lead = NoLead /\ queue = <<>> /\ \A w \in Writers : wr[w].pc \notin Active
    BY StillIs
<1>2. lead'.items = {} /\ IsFiniteSet({}) /\ \A w \in Writers : wr'[w].pc \notin Active
    BY <1>1, FS_EmptySet DEF NoLead, Active
<1>3. Writing'
    BY <1>1, <1>2 DEF Writing, Distinct
<1>. QED
    BY <1>1, <1>3 DEF TypeOK, WritersOK, LeadOK, BgOK

\* DB::Open gives up.
LEMMA GivesUp ==
    ASSUME StoreInv, Still, db' = Closed, UNCHANGED <<queue, wr, lead, bg>>,
           LogsOK', ManifestsOK', TablesOK', current' \in Nat, HistOK', Bounded', Disk'
    PROVE  StoreInv'
<1>1. Still' /\ db'.state \notin Running
    BY DEF Still, Closed, Running
<1>2. DbOK'
    BY DEF DbOK, DbType, Closed, None
<1>3. Open'
    BY StillIs DEF Open, Closed, None, Opening
<1>. QED
    BY <1>1, <1>2, <1>3, StaysStill DEF StoreInv, TypeOK

-----------------------------------------------------------------------------
(* DB::Open, step by step *)

LEMMA OpenStartKeeps ==
    ASSUME StoreInv, OpenStart
    PROVE  StoreInv'
<1>1. /\ db.state = "closed" /\ Still /\ db' = [Closed EXCEPT !.state = db'.state]
      /\ UNCHANGED <<logs, tables, current, queue, wr, lead, bg, hist>>
      /\ \/ /\ current = 0 /\ db' = [Closed EXCEPT !.state = "newdb"]
            /\ manifests' = [n \in {1} |-> Unsynced(<<Edit({}, {}, 0, 2, 0)>>)]
         \/ /\ current # 0 /\ db' = [Closed EXCEPT !.state = "recover"]
            /\ manifests' = manifests
    BY DEF OpenStart, Still, Closed
<1>2. TypeOK /\ Bounded /\ Open /\ Writing /\ Disk
    BY <1>1, StillIs
<1>3. Still' /\ db'.state \in {"newdb", "recover"} /\ db'.state \notin Running
      /\ db'.added = {}
    BY <1>1 DEF Still, Opening, Closed, Running
<1>4. ManifestsOK'
  <2>1. <<Edit({}, {}, 0, 2, 0)>> \in Seq(Edits) /\ Len(<<Edit({}, {}, 0, 2, 0)>>) = 1
      BY DEF Edits, Edit
  <2>2. /\ Unsynced(<<Edit({}, {}, 0, 2, 0)>>) \in Manifest
        /\ Unsynced(<<Edit({}, {}, 0, 2, 0)>>).synced = 0
        /\ Unsynced(<<Edit({}, {}, 0, 2, 0)>>).recs = <<Edit({}, {}, 0, 2, 0)>>
      BY <2>1, UnsyncedIs
  <2>. QED
      BY <1>1, <1>2, <2>1, <2>2 DEF ManifestsOK, TypeOK
<1>5. TypeOK'
  <2>1. db' = [Closed EXCEPT !.state = "newdb"] \/ db' = [Closed EXCEPT !.state = "recover"]
      BY <1>1
  <2>2. DbOK'
    <3>1. CASE db' = [Closed EXCEPT !.state = "newdb"]
        BY <3>1 DEF DbOK, DbType, Closed, None, Opening
    <3>2. CASE db' = [Closed EXCEPT !.state = "recover"]
        BY <3>2 DEF DbOK, DbType, Closed, None, Opening
    <3>. QED
        BY <2>1, <3>1, <3>2
  <2>. QED
      BY <1>1, <1>2, <1>3, <1>4, <2>2, StaysStill
         DEF TypeOK, LogsOK, TablesOK, HistOK
<1>6. Bounded'
    BY <1>1, <1>2 DEF Bounded
<1>7. Disk'
    BY <1>1, <1>2, <1>4, DiskKept DEF ManifestsOK, Disk, Sound
<1>8. Open'
    BY <1>1, <1>3, StillIs DEF Open, Closed, None, Opening
<1>. QED
    BY <1>1, <1>3, <1>5, <1>6, <1>7, <1>8, StaysStill DEF StoreInv

LEMMA OpenSetFirstKeeps ==
    ASSUME StoreInv, OpenSetFirst
    PROVE  StoreInv'
<1>1. /\ db.state = "newdb" /\ Still /\ db.state \in Opening
      /\ UNCHANGED <<logs, manifests, tables, queue, wr, lead, bg>>
    BY DEF OpenSetFirst, Still, Opening
<1>2. TypeOK /\ Bounded /\ Open /\ Writing /\ Disk
    BY <1>1, StillIs
<1>3. LogsOK' /\ ManifestsOK' /\ TablesOK' /\ Bounded'
    BY <1>1, <1>2 DEF TypeOK, LogsOK, ManifestsOK, TablesOK, Bounded
<1>4. CASE current' = 1 /\ db' = [db EXCEPT !.state = "recover"] /\ UNCHANGED hist
  <2>0. DbOK' /\ db'.state = "recover"
      BY <1>2, <1>4 DEF TypeOK, DbOK, DbType, Opening
  <2>1. DbOK' /\ db'.state = "recover" /\ Still' /\ db'.state \notin Running
      BY <2>0 DEF Opening, Still, Running
  <2>2. HistOK' /\ current' \in Nat
      BY <1>2, <1>4 DEF TypeOK, HistOK
  <2>3. /\ current = 0 /\ DOMAIN manifests = {1}
        /\ manifests[1] = Unsynced(<<Edit({}, {}, 0, 2, 0)>>)
      BY <1>1, <1>2 DEF Open
  <2>4. /\ ~hist.opened /\ LogItems(logs, 0) = {} /\ hist.acked = {} /\ hist.synced = {}
      BY <1>2, <2>3 DEF Disk, Recoverable, Openable
  <2>5. Recs' = <<Edit({}, {}, 0, 2, 0)>> /\ Prefixes' = 0..1
    <3>1. <<Edit({}, {}, 0, 2, 0)>> \in Seq(Edits) /\ Len(<<Edit({}, {}, 0, 2, 0)>>) = 1
        BY DEF Edits, Edit
    <3>2. /\ manifests'[1].recs = <<Edit({}, {}, 0, 2, 0)>> /\ manifests'[1].synced = 0
        BY <2>3, <3>1, <1>1, UnsyncedIs
    <3>. QED
        BY <3>1, <3>2, <1>4 DEF Recs, Prefixes
  <2>6. ASSUME NEW k \in 0..1, k > 0 PROVE Sound(k)'
    <3>1. k = 1 /\ Recs'[k] = Edit({}, {}, 0, 2, 0)
        BY <2>5, <2>6
    <3>2. Version(k)' = {}
        BY <3>1, <2>5 DEF Version, VersionAt, Adds, Edit
    <3>3. TableItems({}, tables') = {} /\ LogItems(logs', 0) = {} /\ Len(Recs') = 1
        BY <2>4, <2>5, <1>1 DEF TableItems
    <3>4. /\ Recs'[k].log = 0 /\ Recs'[k].next = 2 /\ Recs'[k].seq = 0
          /\ Recs'[Len(Recs')].next = 2
        BY <3>1, <3>3 DEF Edit
    <3>5. /\ TableItems(Version(k)', tables') = {}
          /\ TableItems(Version(k)', tables') \cup LogItems(logs', 0) = {}
          /\ current' = 1 /\ hist'.synced = {}
        BY <3>2, <3>3, <2>4, <1>4
    <3>6. /\ UpTo(TableItems(Version(k)', tables'), 0)
          /\ Distinct(TableItems(Version(k)', tables') \cup LogItems(logs', 0))
        BY <3>5 DEF UpTo, Distinct
    <3>7. Version(k)' \subseteq DOMAIN tables' /\ \A t \in Version(k)' : t < 2
        BY <3>2
    <3>. QED
        BY <3>4, <3>5, <3>6, <3>7 DEF Sound, Answered, Guaranteed
  <2>7. Disk'
      BY <2>3, <2>4, <2>5, <2>6, <1>1, <1>4 DEF Disk, Answered, Guaranteed
  <2>8. Open'
      BY <1>1, <1>2, <1>4, <2>1 DEF Open
  <2>. QED
      BY <1>1, <1>3, <2>1, <2>2, <2>7, <2>8, StaysStill DEF StoreInv, TypeOK
<1>5. CASE MayFail /\ FailOpen /\ UNCHANGED current
  <2>1. /\ db' = Closed /\ hist' = [hist EXCEPT !.faults = @ + 1]
      BY <1>5 DEF FailOpen, Fault
  <2>2. HistOK' /\ hist'.opened = hist.opened /\ hist'.acked = hist.acked
        /\ hist'.synced = hist.synced /\ hist'.behind = hist.behind
      BY <2>1, <1>2 DEF TypeOK, HistOK
  <2>3. Disk'
      BY <1>1, <1>2, <1>3, <1>5, <2>2, DiskKept DEF ManifestsOK, Disk, Sound
  <2>. QED
      BY <1>1, <1>2, <1>3, <1>5, <2>1, <2>2, <2>3, GivesUp DEF TypeOK
<1>. QED
    BY <1>4, <1>5 DEF OpenSetFirst

\* What the last edit says, when there is something to recover.
LEMMA LastIsSound ==
    ASSUME TypeOK, Disk, current # 0, Len(Recs) > 0
    PROVE  /\ current \in DOMAIN manifests /\ Recs \in Seq(Edits) /\ Len(Recs) \in Nat
           /\ Len(Recs) \in Prefixes /\ Sound(Len(Recs))
           /\ Recs[Len(Recs)] = LastEdit(Recs) /\ Version(Len(Recs)) = VersionOf(Recs)
           /\ Version(Len(Recs)) \in SUBSET Nat
           /\ Openable
           /\ Recoverable = TableItems(Version(Len(Recs)), tables)
                            \cup LogItems(logs, Recs[Len(Recs)].log)
<1>1. current \in DOMAIN manifests
    BY DEF Disk
<1>2. Recs \in Seq(Edits) /\ Len(Recs) \in Nat /\ Len(Recs) \in Prefixes
    BY <1>1, RecsType
<1>3. Sound(Len(Recs))
    BY <1>2 DEF Disk
<1>4. Version(Len(Recs)) \in SUBSET Nat
    BY <1>2, VersionAtType DEF Version
<1>5. Recs[Len(Recs)].next > 0
    BY <1>3 DEF Sound, TypeOK
<1>. QED
    BY <1>1, <1>2, <1>3, <1>4, <1>5, RecoverableIs DEF Sound

LEMMA OpenRecoverKeeps ==
    ASSUME StoreInv, OpenRecover
    PROVE  StoreInv'
<1>1. /\ db.state = "recover" /\ Still
      /\ UNCHANGED <<logs, manifests, tables, current, queue, wr, lead, bg, hist>>
    BY DEF OpenRecover, Still, Opening, disk
<1>2. TypeOK /\ Bounded /\ Open /\ Writing /\ Disk
    BY <1>1, StillIs
<1>3. LogsOK' /\ ManifestsOK' /\ TablesOK' /\ Bounded' /\ current' \in Nat /\ HistOK'
    BY <1>1, <1>2 DEF TypeOK, LogsOK, ManifestsOK, TablesOK, Bounded, HistOK
<1>4. Disk'
    BY <1>1, <1>2, <1>3, DiskKept DEF ManifestsOK, Disk, Sound
<1>5. CASE ~Openable
    BY <1>1, <1>3, <1>4, <1>5, GivesUp DEF OpenRecover
<1>6. CASE Openable
  <2>. DEFINE n == Len(Recs)
              e == Recs[n]
  <2>1. current # 0 /\ n > 0
      BY <1>2, <1>6 DEF Openable, Readable, Recs, TypeOK, ManifestsOK, Manifest
  <2>2. Sound(n) /\ Version(n) = VersionOf(Recs) /\ e = LastEdit(Recs)
        /\ Version(n) \in SUBSET Nat /\ n \in Nat
      BY <1>2, <2>1, LastIsSound
  <2>3. e.log \in Nat /\ e.next \in Nat /\ e.seq \in Nat
      BY <2>2 DEF Sound
  <2>4. db' = [db EXCEPT !.state = "replay", !.version = Version(n),
                        !.manifest = e.next, !.next = e.next + 1,
                        !.lastSeq = e.seq, !.logNumber = e.log,
                        !.replay = LogsToReplay(e)]
      BY <1>6, <2>2 DEF OpenRecover, Recs
  <2>5. LogsToReplay(e) = {m \in DOMAIN logs : m >= e.log} /\ LogsToReplay(e) \in SUBSET Nat
      BY <1>2 DEF LogsToReplay, TypeOK, LogsOK
  <2>5a. Recs' = Recs /\ n' = n /\ e' = e /\ Recs[Len(Recs)] = e /\ Len(Recs) = n
      BY <1>1 DEF Recs
  <2>. HIDE DEF n, e
  <2>6. DbOK' /\ db'.state = "replay"
    <3>. DEFINE v == Version(n)
                m == e.next
                next == e.next + 1
                seq == e.seq
                log == e.log
                r == LogsToReplay(e)
    <3>1. /\ "replay" \in {"closed"} \cup Opening \cup Running /\ db \in DbType
          /\ v \in SUBSET Nat /\ m \in Nat /\ next \in Nat /\ seq \in Nat /\ log \in Nat
          /\ r \in SUBSET Nat
        BY <1>2, <2>2, <2>3, <2>5 DEF Opening, TypeOK, DbOK
    <3>0. db' = [db EXCEPT !.state = "replay", !.version = v, !.manifest = m, !.next = next,
                           !.lastSeq = seq, !.logNumber = log, !.replay = r]
        BY <2>4
    <3>. HIDE DEF v, m, next, seq, log, r
    <3>2. db' \in DbType
        BY <3>0, <3>1 DEF DbType
    <3>3. db'.state = "replay"
        BY <3>1, <2>4 DEF DbType
    <3>. QED
        BY <3>2, <3>3 DEF DbOK
  <2>7. /\ db'.version = Version(n) /\ db'.manifest = e.next /\ db'.next = e.next + 1
        /\ db'.lastSeq = e.seq /\ db'.logNumber = e.log /\ db'.replay = LogsToReplay(e)
        /\ db'.added = db.added /\ db'.bgError = db.bgError /\ db'.scheduled = db.scheduled
        /\ db'.mem = db.mem /\ db'.imm = db.imm /\ db'.pending = db.pending
      BY <2>4, <1>2 DEF TypeOK, DbOK, DbType
  <2>8. Still' /\ db'.state \notin Running
      BY <2>6 DEF Still, Running, Opening
  <2>9. Recs' = Recs /\ Version(n)' = Version(n) /\ db.added = {}
      BY <1>1, <1>2, <2>5a DEF Version, Open
  <2>10. Recovered'
    <3>1. TableItems({}, tables) = {} /\ Version(n) \cup {} = Version(n)
        BY DEF TableItems
    <3>2. UNION {ItemsOf(logs[m].recs) : m \in LogsToReplay(e)} = LogItems(logs, e.log)
        BY <2>5 DEF LogItems
    <3>3. e.next < e.next + 1
        BY <2>3
    <3>4. UpTo(TableItems(Version(n), tables), e.seq)
        BY <2>2 DEF Sound, e
    <3>5. Recs'[Len(Recs')] = e /\ Len(Recs') = n /\ Len(Recs') > 0 /\ current' # 0
        BY <2>1, <2>5a, <1>1
    <3>6. Version(Len(Recs))' = Version(n)
        BY <2>5a, <2>9 DEF Version
    <3>7. /\ db'.version = Version(Len(Recs))' /\ db'.logNumber = (Recs[Len(Recs)].log)'
          /\ db'.manifest = (Recs[Len(Recs)].next)' /\ db'.manifest < db'.next
        BY <3>3, <3>5, <3>6, <2>7
    <3>8. UpTo(TableItems(db'.version \cup db'.added, tables'), db'.lastSeq)
        BY <3>1, <3>4, <2>7, <2>9, <1>1
    <3>9. TableItems(db'.added, tables')
             \cup (UNION {ItemsOf(logs'[m].recs) : m \in db'.replay})
             = LogItems(logs', (Recs[Len(Recs)].log)')
        BY <3>1, <3>2, <3>5, <2>7, <2>9, <1>1
    <3>10. \A m \in DOMAIN logs' : m >= (Recs[Len(Recs)].log)' => m \in db'.replay
        BY <3>5, <2>5, <2>7, <1>1
    <3>. QED
        BY <3>5, <3>7, <3>8, <3>9, <3>10, <2>5, <2>7, <2>9, <1>1 DEF Recovered
  <2>11. Open'
      BY <1>1, <2>6, <2>7, <2>10, StillIs DEF Open
  <2>. QED
      BY <1>1, <1>3, <1>4, <2>6, <2>8, <2>11, StaysStill DEF StoreInv, TypeOK
<1>. QED
    BY <1>5, <1>6

\* Items that are in a log have numbers.
LEMMA ItemsTyped ==
    ASSUME TypeOK
    PROVE  /\ \A n \in DOMAIN logs : ItemsOf(logs[n].recs) \in SUBSET Item
           /\ \A n : LogItems(logs, n) \in SUBSET Item
           /\ \A T : T \subseteq DOMAIN tables => TableItems(T, tables) \in SUBSET Item
           /\ \A i \in Item : i.seq \in Nat
<1>1. ASSUME NEW n \in DOMAIN logs PROVE ItemsOf(logs[n].recs) \in SUBSET Item
    BY SyncedOfIs DEF TypeOK, LogsOK
<1>2. \A n : LogItems(logs, n) \in SUBSET Item
    BY <1>1 DEF LogItems
<1>3. \A T : T \subseteq DOMAIN tables => TableItems(T, tables) \in SUBSET Item
    BY DEF TypeOK, TablesOK, TableItems
<1>4. \A i \in Item : i.seq \in Nat
    BY DEF Item
<1>. QED
    BY <1>1, <1>2, <1>3, <1>4

LEMMA OpenReplayKeeps ==
    ASSUME StoreInv, OpenReplay
    PROVE  StoreInv'
<1>1. /\ db.state = "replay" /\ Still /\ db.replay # {}
      /\ UNCHANGED <<logs, manifests, current, queue, wr, lead, bg>>
    BY DEF OpenReplay, Still, Opening
<1>2. TypeOK /\ Bounded /\ Open /\ Writing /\ Disk /\ Recovered
    BY <1>1, StillIs DEF Open
<1>3. LogsOK' /\ ManifestsOK' /\ Bounded' /\ current' \in Nat
    BY <1>1, <1>2 DEF TypeOK, LogsOK, ManifestsOK, Bounded
<1>. DEFINE last == Len(Recs)
            e == Recs[last]
            n == Least(db.replay)
            items == ItemsOf(logs[n].recs)
            t == db.next
            top == IF items = {} THEN t ELSE t + 1
            seq == Greatest({db.lastSeq} \cup Seqs(items))
            d == [db EXCEPT !.replay = @ \ {n}, !.lastSeq = seq,
                            !.next = IF top <= n THEN n + 1 ELSE top]
<1>4. /\ current # 0 /\ last > 0 /\ last \in Nat /\ last \in Prefixes /\ Sound(last)
      /\ db.version = Version(last) /\ db.version \in SUBSET Nat
      /\ db.manifest = e.next /\ db.manifest < db.next /\ db.logNumber = e.log
      /\ current \in DOMAIN manifests
    BY <1>2, LastIsSound DEF Recovered
<1>5. /\ n \in db.replay /\ n \in DOMAIN logs /\ n \in Nat
      /\ db.replay \subseteq DOMAIN logs /\ DOMAIN logs \subseteq Nat
  <2>1. db.replay \subseteq DOMAIN logs /\ DOMAIN logs \subseteq Nat
      BY <1>2 DEF Recovered, TypeOK, LogsOK
  <2>2. db.replay \in SUBSET Nat
      BY <2>1
  <2>. QED
      BY <2>1, <2>2, <1>1, LeastIs
<1>6. items \in SUBSET Item /\ items \subseteq LogItems(logs, 0) /\ t \in Nat
      /\ db.lastSeq \in Nat
  <2>1. n >= 0
      BY <1>5
  <2>. QED
      BY <2>1, <1>2, <1>5, ItemsTyped DEF LogItems, TypeOK, DbOK, DbType
<1>7. seq \in Nat /\ db.lastSeq <= seq /\ UpTo(items, seq)
  <2>1. PICK s \in Nat : UpTo(LogItems(logs, 0), s)
      BY <1>2 DEF Bounded
  <2>. DEFINE S == {db.lastSeq} \cup Seqs(items)
              b == db.lastSeq + s
  <2>2. \A i \in items : i.seq \in Nat /\ i.seq <= s
      BY <2>1, <1>6, <1>2, ItemsTyped DEF UpTo
  <2>3. S \in SUBSET Nat /\ S # {} /\ b \in Nat
      BY <2>2, <1>6 DEF Seqs
  <2>4. \A x \in S : x <= b
      BY <2>2, <1>6 DEF Seqs
  <2>5. seq \in S /\ \A x \in S : x <= seq
      BY <2>3, <2>4, GreatestIs
  <2>6. \A i \in items : i.seq \in S
      BY DEF Seqs
  <2>. QED
      BY <2>3, <2>5, <2>6 DEF UpTo
<1>. HIDE DEF seq, n
<1>8. top \in Nat /\ t <= top /\ (items # {} => t < top)
    BY <1>6
<1>9. /\ d.version = db.version /\ d.manifest = db.manifest /\ d.added = db.added
      /\ d.logNumber = db.logNumber /\ d.state = db.state /\ d.replay = db.replay \ {n}
      /\ d.lastSeq = seq /\ d.mem = db.mem /\ d.imm = db.imm /\ d.pending = db.pending
      /\ d.bgError = db.bgError /\ d.scheduled = db.scheduled
      /\ d.next \in Nat /\ n < d.next /\ top <= d.next
    BY <1>2, <1>5, <1>8 DEF TypeOK, DbOK, DbType
<1>10. CASE items # {} /\ MayFail /\ FailOpen /\ UNCHANGED tables
  <2>1. /\ db' = Closed /\ hist' = [hist EXCEPT !.faults = @ + 1] /\ TablesOK'
      BY <1>10, <1>2 DEF FailOpen, Fault, TypeOK, TablesOK
  <2>2. HistOK' /\ hist'.opened = hist.opened /\ hist'.acked = hist.acked
        /\ hist'.synced = hist.synced /\ hist'.behind = hist.behind
      BY <2>1, <1>2 DEF TypeOK, HistOK
  <2>3. Disk'
      BY <1>1, <1>2, <1>3, <1>10, <2>2, DiskKept DEF ManifestsOK, Disk, Sound
  <2>. QED
      BY <1>1, <1>2, <1>3, <2>1, <2>2, <2>3, GivesUp
<1>11. CASE /\ db' = IF items = {} THEN d ELSE [d EXCEPT !.added = @ \cup {t}]
            /\ tables' = IF items = {} THEN tables ELSE Put(tables, t, items)
            /\ UNCHANGED hist
  <2>1. /\ db'.version = db.version /\ db'.manifest = db.manifest
        /\ db'.added = IF items = {} THEN db.added ELSE db.added \cup {t}
        /\ db'.logNumber = db.logNumber /\ db'.state = "replay" /\ db'.replay = db.replay \ {n}
        /\ db'.lastSeq = seq /\ db'.mem = db.mem /\ db'.imm = db.imm
        /\ db'.pending = db.pending
        /\ db'.bgError = db.bgError /\ db'.scheduled = db.scheduled
        /\ db'.next = d.next
      BY <1>9, <1>11, <1>1, <1>2 DEF TypeOK, DbOK, DbType
  <2>2. DbOK'
    <3>1. d.next \in Nat /\ db.replay \ {n} \in SUBSET Nat /\ db.added \cup {t} \in SUBSET Nat
          /\ DbOK /\ seq \in Nat
        BY <1>2, <1>6, <1>7, <1>9 DEF TypeOK, DbOK, DbType
    <3>2. d = [db EXCEPT !.replay = db.replay \ {n}, !.lastSeq = seq, !.next = d.next]
        BY <1>9, <3>1 DEF DbOK, DbType
    <3>3. db' = [db EXCEPT !.replay = db.replay \ {n}, !.lastSeq = seq, !.next = d.next,
                           !.added = db'.added]
        BY <3>1, <3>2, <1>11 DEF DbOK, DbType
    <3>4. db'.added \in SUBSET Nat
        BY <3>1, <2>1 DEF DbOK, DbType
    <3>. DEFINE r == db.replay \ {n}
                q == d.next
                a == db'.added
    <3>5. /\ db \in DbType /\ r \in SUBSET Nat /\ seq \in Nat /\ q \in Nat
          /\ a \in SUBSET Nat
          /\ db' = [db EXCEPT !.replay = r, !.lastSeq = seq, !.next = q, !.added = a]
        BY <3>1, <3>3, <3>4 DEF DbOK
    <3>. HIDE DEF d, r, q, seq, a
    <3>. QED
        BY <3>5 DEF DbOK, DbType
  <2>3. Still' /\ db'.state \notin Running
      BY <2>1 DEF Still, Opening, Running
  <2>4. /\ \A u \in DOMAIN tables : u # t => u \in DOMAIN tables' /\ tables'[u] = tables[u]
        /\ items # {} => t \in DOMAIN tables' /\ tables'[t] = items
      BY <1>11, PutIs DEF Put
  <2>5. TablesOK'
      BY <1>11, <1>2, <1>6 DEF TypeOK, TablesOK, Put
  <2>6. HistOK'
      BY <1>11, <1>2 DEF TypeOK, HistOK
  <2>7. ASSUME NEW k \in Prefixes, k > 0, NEW u \in Version(k)
        PROVE  u \in DOMAIN tables' /\ tables'[u] = tables[u]
    <3>1. Sound(k)
        BY <1>2, <1>4, <2>7 DEF Disk
    <3>2. k \in 0..Len(Recs) /\ Recs \in Seq(Edits)
        BY <1>2, <1>4, RecsType
    <3>3. Version(k) \in SUBSET Nat
        BY <3>2, VersionAtType DEF Version
    <3>4. u \in DOMAIN tables /\ u < Recs[k].next /\ Recs[k].next <= e.next
          /\ Recs[k].next \in Nat /\ u \in Nat
        BY <3>1, <3>3, <2>7 DEF Sound
    <3>5. u # t
        BY <3>4, <1>4, <1>6 DEF Sound
    <3>. QED
        BY <3>4, <3>5, <2>4
  <2>8. Disk'
      BY <2>7, <1>1, <1>2, <1>3, <1>11, DiskKept DEF ManifestsOK, Disk
  <2>9. /\ Recs' = Recs /\ Version(last)' = Version(last)
      BY <1>1 DEF Recs, Version
  <2>10. /\ \A u \in db.version : u \in DOMAIN tables' /\ tables'[u] = tables[u]
         /\ \A u \in db.added : u \in DOMAIN tables' /\ tables'[u] = tables[u]
                                /\ db.manifest < u /\ u < db.next
    <3>1. \A u \in db.added : u \in DOMAIN tables /\ db.manifest < u /\ u < db.next
        BY <1>2 DEF Recovered
    <3>2. db.added \in SUBSET Nat
        BY <1>2 DEF TypeOK, DbOK, DbType
    <3>3. \A u \in db.added : u # t
        BY <3>1, <3>2, <1>6
    <3>. QED
        BY <3>1, <3>3, <2>4, <2>7, <1>4
  <2>11. /\ TableItems(db.version, tables') = TableItems(db.version, tables)
         /\ TableItems(db.added, tables') = TableItems(db.added, tables)
         /\ TableItems(db'.added, tables') = TableItems(db.added, tables) \cup items
      BY <2>1, <2>4, <2>10 DEF TableItems
  <2>12. Recovered'
    <3>1. \A u \in db'.added : u \in DOMAIN tables' /\ db.manifest < u /\ u < d.next
      <4>1. \A u \in db.added : u \in Nat
          BY <1>2 DEF TypeOK, DbOK, DbType
      <4>2. \A u \in db.added : u < d.next
          BY <4>1, <2>10, <1>6, <1>8, <1>9
      <4>3. items # {} => db.manifest < t /\ t < d.next
          BY <1>4, <1>6, <1>8, <1>9
      <4>. QED
          BY <4>2, <4>3, <2>1, <2>4, <2>10
    <3>2. UpTo(TableItems(db'.version \cup db'.added, tables'), seq)
      <4>1. TableItems(db'.version \cup db'.added, tables')
               = TableItems(db.version, tables) \cup TableItems(db.added, tables) \cup items
          BY <2>1, <2>11, TableItemsUnion
      <4>2. UpTo(TableItems(db.version, tables) \cup TableItems(db.added, tables), db.lastSeq)
          BY <1>2, TableItemsUnion DEF Recovered
      <4>3. \A i \in TableItems(db.version, tables) \cup TableItems(db.added, tables) : i.seq \in Nat
        <5>1. db.version \subseteq DOMAIN tables /\ db.added \subseteq DOMAIN tables
            BY <1>2, <1>4 DEF Sound, Recovered
        <5>. QED
            BY <5>1, <1>2, ItemsTyped
      <4>4. UpTo(TableItems(db.version, tables) \cup TableItems(db.added, tables), seq)
          BY <4>2, <4>3, <1>6, <1>7 DEF UpTo
      <4>. QED
          BY <4>1, <4>4, <1>7 DEF UpTo
    <3>3. TableItems(db'.added, tables')
             \cup (UNION {ItemsOf(logs'[m].recs) : m \in db'.replay})
             = LogItems(logs', e.log)
      <4>1. TableItems(db.added, tables)
             \cup (UNION {ItemsOf(logs[m].recs) : m \in db.replay}) = LogItems(logs, e.log)
          BY <1>2 DEF Recovered
      <4>2. UNION {ItemsOf(logs[m].recs) : m \in db.replay}
              = items \cup (UNION {ItemsOf(logs[m].recs) : m \in db.replay \ {n}})
          BY <1>5
      <4>3. /\ UNION {ItemsOf(logs'[m].recs) : m \in db'.replay}
                  = UNION {ItemsOf(logs[m].recs) : m \in db.replay \ {n}}
            /\ LogItems(logs', e.log) = LogItems(logs, e.log)
          BY <2>1, <1>1
      <4>. DEFINE before == UNION {ItemsOf(logs[m].recs) : m \in db.replay}
                  left == UNION {ItemsOf(logs[m].recs) : m \in db.replay \ {n}}
                  added == TableItems(db.added, tables)
      <4>4. added \cup before = (added \cup items) \cup left
          BY <4>2
      <4>. QED
          BY <4>1, <4>3, <4>4, <2>11
    <3>4. \A m \in DOMAIN logs' : m >= e.log => m \in db'.replay \/ m < d.next
      <4>1. \A m \in DOMAIN logs : m >= e.log => m \in db.replay \/ m < db.next
          BY <1>2 DEF Recovered
      <4>2. \A m \in DOMAIN logs : m < db.next => m < d.next
          BY <1>5, <1>6, <1>8, <1>9
      <4>. QED
          BY <4>1, <4>2, <2>1, <1>1, <1>9
    <3>5. db.manifest < d.next
        BY <1>4, <1>6, <1>8, <1>9 DEF Sound
    <3>6. Version(Len(Recs))' = Version(last) /\ (Recs[Len(Recs)])' = e /\ Len(Recs') > 0
          /\ current' # 0
        BY <2>9, <1>1, <1>4 DEF Version
    <3>7. db'.replay \subseteq DOMAIN logs'
        BY <2>1, <1>1, <1>5
    <3>. QED
        BY <3>1, <3>2, <3>3, <3>4, <3>5, <3>6, <3>7, <2>1, <1>4 DEF Recovered
  <2>13. Open'
      BY <1>1, <2>1, <2>12, StillIs DEF Open
  <2>. QED
      BY <1>1, <1>3, <2>2, <2>3, <2>5, <2>6, <2>8, <2>13, StaysStill DEF StoreInv, TypeOK
<1>. QED
    BY <1>10, <1>11 DEF OpenReplay, n, seq

\* A step of DB::Open that fails without touching what is to be recovered.
LEMMA FailsAfter ==
    ASSUME StoreInv, Still, FailOpen, UNCHANGED <<logs, tables, current, queue, wr, lead, bg>>,
           ManifestsOK',
           current # 0 => current \in DOMAIN manifests' /\ manifests'[current] = manifests[current]
    PROVE  StoreInv'
<1>1. TypeOK /\ Bounded /\ Disk
    BY StillIs
<1>2. db' = Closed /\ hist' = [hist EXCEPT !.faults = @ + 1]
    BY DEF FailOpen, Fault
<1>3. HistOK' /\ hist'.opened = hist.opened /\ hist'.acked = hist.acked
      /\ hist'.synced = hist.synced /\ hist'.behind = hist.behind
    BY <1>1, <1>2 DEF TypeOK, HistOK
<1>4. LogsOK' /\ TablesOK' /\ Bounded' /\ current' \in Nat
    BY <1>1 DEF TypeOK, LogsOK, TablesOK, Bounded
<1>5. Disk'
    BY <1>1, <1>3, DiskKept DEF ManifestsOK, Disk, Sound
<1>. QED
    BY <1>2, <1>3, <1>4, <1>5, GivesUp

\* What has been recovered, and the numbers that are free.
LEMMA RecoveredIs ==
    ASSUME StoreInv, Still, Recovered
    PROVE  /\ current # 0 /\ current \in Nat /\ current \in DOMAIN manifests
           /\ Len(Recs) > 0 /\ Len(Recs) \in Prefixes /\ Sound(Len(Recs))
           /\ db.manifest \in Nat /\ db.next \in Nat /\ db.logNumber \in Nat
           /\ current < db.manifest /\ db.logNumber < db.manifest /\ db.manifest < db.next
           /\ db.version \in SUBSET Nat /\ db.version \subseteq DOMAIN tables
           /\ \A t \in db.version : t < db.manifest
           /\ db.added \in SUBSET Nat /\ db.added \subseteq DOMAIN tables
           /\ DOMAIN logs \subseteq Nat
           /\ db.replay = {} => \A n \in DOMAIN logs : n < db.next
<1>1. TypeOK /\ Disk
    BY StillIs
<1>2. /\ current # 0 /\ Len(Recs) > 0 /\ db.version = Version(Len(Recs))
      /\ db.logNumber = Recs[Len(Recs)].log /\ db.manifest = Recs[Len(Recs)].next
      /\ db.manifest < db.next
    BY DEF Recovered
<1>3. /\ current \in DOMAIN manifests /\ Len(Recs) \in Prefixes /\ Sound(Len(Recs))
      /\ db.version \in SUBSET Nat
    BY <1>1, <1>2, LastIsSound
<1>4. /\ db.manifest \in Nat /\ db.next \in Nat /\ db.logNumber \in Nat /\ current \in Nat
      /\ DOMAIN logs \subseteq Nat /\ db.added \in SUBSET Nat
    BY <1>1 DEF TypeOK, DbOK, DbType, LogsOK
<1>5. /\ current < db.manifest /\ db.logNumber < db.manifest
      /\ db.version \subseteq DOMAIN tables /\ \A t \in db.version : t < db.manifest
    BY <1>2, <1>3 DEF Sound
<1>6. db.added \subseteq DOMAIN tables
    BY DEF Recovered
<1>7. db.replay = {} => \A n \in DOMAIN logs : n < db.next
  <2>1. SUFFICES ASSUME db.replay = {}, NEW n \in DOMAIN logs PROVE n < db.next
      OBVIOUS
  <2>2. n >= db.logNumber => n < db.next
      BY <2>1, <1>2 DEF Recovered
  <2>. QED
      BY <2>2, <1>2, <1>4, <1>5
<1>. QED
    BY <1>2, <1>3, <1>4, <1>5, <1>6, <1>7

LEMMA OpenNewLogKeeps ==
    ASSUME StoreInv, OpenNewLog
    PROVE  StoreInv'
<1>1. /\ db.state = "replay" /\ Still /\ db.replay = {}
      /\ UNCHANGED <<manifests, tables, current, queue, wr, lead, bg>>
    BY DEF OpenNewLog, Still, Opening
<1>2. TypeOK /\ Bounded /\ Open /\ Writing /\ Disk /\ Recovered
    BY <1>1, StillIs DEF Open
<1>3. ManifestsOK' /\ TablesOK' /\ current' \in Nat
    BY <1>1, <1>2 DEF TypeOK, ManifestsOK, TablesOK
<1>4. CASE MayFail /\ FailOpen /\ UNCHANGED logs
    BY <1>1, <1>2, <1>3, <1>4, FailsAfter DEF Disk
<1>5. CASE /\ logs' = Put(logs, db.next, EmptyLog)
           /\ db' = [db EXCEPT !.state = "descriptor", !.logfile = db.next, !.next = @ + 1]
           /\ UNCHANGED hist
  <2>1. /\ db.next \in Nat /\ db.next \notin DOMAIN logs /\ db.manifest \in Nat
        /\ \A n \in DOMAIN logs : n \in Nat /\ n < db.next
        /\ db.manifest < db.next
      BY <1>1, <1>2, RecoveredIs
  <2>2. DbOK' /\ db'.state = "descriptor"
    <3>1. "descriptor" \in {"closed"} \cup Opening \cup Running /\ DbOK /\ db.next + 1 \in Nat
        BY <1>2, <2>1 DEF Opening, TypeOK
    <3>. QED
        BY <3>1, <1>5, <2>1 DEF DbOK, DbType
  <2>3. /\ db'.version = db.version /\ db'.manifest = db.manifest /\ db'.added = db.added
        /\ db'.logNumber = db.logNumber /\ db'.replay = {} /\ db'.lastSeq = db.lastSeq
        /\ db'.mem = db.mem /\ db'.imm = db.imm /\ db'.pending = db.pending
        /\ db'.bgError = db.bgError /\ db'.scheduled = db.scheduled
        /\ db'.next = db.next + 1 /\ db'.logfile = db.next
      BY <1>1, <1>2, <1>5 DEF TypeOK, DbOK, DbType
  <2>4. Still' /\ db'.state \notin Running
      BY <2>2 DEF Still, Opening, Running
  <2>5. /\ DOMAIN logs' = DOMAIN logs \cup {db.next} /\ logs'[db.next] = EmptyLog
        /\ \A n \in DOMAIN logs : logs'[n] = logs[n]
      BY <1>5, <2>1 DEF Put
  <2>6. LogsOK'
      BY <1>2, <2>1, <2>5, EmptyLogIs DEF TypeOK, LogsOK
  <2>7. \A n \in Nat : LogItems(logs', n) = LogItems(logs, n)
                       /\ SyncedItems(logs', n) = SyncedItems(logs, n)
      BY <1>5, <2>1, LogItemsPut
  <2>8. Bounded'
      BY <1>2, <2>7, BoundedKept
  <2>9. HistOK'
      BY <1>2, <1>5 DEF TypeOK, HistOK
  <2>10. Disk'
      BY <1>1, <1>2, <1>3, <1>5, <2>7, DiskKept DEF ManifestsOK, Disk, Sound
  <2>11. Recs' = Recs /\ Version(Len(Recs))' = Version(Len(Recs))
      BY <1>1 DEF Recs, Version
  <2>12. Recovered'
    <3>1. Recs[Len(Recs)].log \in Nat
        BY <1>1, <1>2, RecoveredIs DEF Sound
    <3>2. TableItems(db.added, tables) \cup (UNION {ItemsOf(logs'[n].recs) : n \in {}})
             = LogItems(logs', Recs[Len(Recs)].log)
        BY <1>1, <1>2, <2>7, <3>1 DEF Recovered
    <3>3. \A n \in DOMAIN logs' : n < db'.next
        BY <2>1, <2>3, <2>5
    <3>4. db'.manifest < db'.next
        BY <2>1, <2>3
    <3>5. \A t \in db.added : t \in DOMAIN tables /\ db.manifest < t /\ t < db.next + 1
      <4>1. db.added \in SUBSET Nat
          BY <1>1, <1>2, RecoveredIs
      <4>. QED
          BY <4>1, <1>2, <2>1 DEF Recovered
    <3>. QED
        BY <3>2, <3>3, <3>4, <3>5, <2>3, <2>11, <1>1, <1>2 DEF Recovered
  <2>13. NewLog'
      BY <2>1, <2>3, <2>5 DEF NewLog
  <2>14. Open'
      BY <1>1, <2>2, <2>3, <2>12, <2>13, StillIs DEF Open
  <2>. QED
      BY <1>1, <1>3, <2>2, <2>4, <2>6, <2>8, <2>9, <2>10, <2>14, StaysStill DEF StoreInv, TypeOK
<1>. QED
    BY <1>1, <1>4, <1>5 DEF OpenNewLog

\* The edits of the MANIFEST that Open writes.
LEMMA NewEditsAre ==
    ASSUME db.version \in SUBSET Nat, db.added \in SUBSET Nat, db.logfile \in Nat,
           db.next \in Nat, db.lastSeq \in Nat
    PROVE  /\ NewEdits \in Seq(Edits) /\ Len(NewEdits) = 2
           /\ NewEdits[2] = Edit(db.added, {}, db.logfile, db.next, db.lastSeq)
           /\ VersionAt(NewEdits, 2) = db.version \cup db.added
           /\ Adds(NewEdits, 2) = db.version \cup db.added /\ Dels(NewEdits, 2) = {}
           /\ Unsynced(NewEdits) \in Manifest
           /\ Unsynced(NewEdits).recs = NewEdits /\ Unsynced(NewEdits).synced = 0
<1>1. Snapshot(db.version) \in Edits
      /\ Edit(db.added, {}, db.logfile, db.next, db.lastSeq) \in Edits
    BY DEF Snapshot, Edit, Edits
<1>2. /\ NewEdits \in Seq(Edits) /\ Len(NewEdits) = 2
      /\ NewEdits[1] = Snapshot(db.version)
      /\ NewEdits[2] = Edit(db.added, {}, db.logfile, db.next, db.lastSeq)
    BY <1>1 DEF NewEdits
<1>3. /\ NewEdits[1].add = db.version /\ NewEdits[1].del = {}
      /\ NewEdits[2].add = db.added /\ NewEdits[2].del = {}
    BY <1>2 DEF Snapshot, Edit
<1>4. \A i : i \in 1..2 <=> i = 1 \/ i = 2
    OBVIOUS
<1>5. Adds(NewEdits, 2) = db.version \cup db.added
    BY <1>3, <1>4 DEF Adds
<1>6. Dels(NewEdits, 2) = {}
    BY <1>3, <1>4 DEF Dels
<1>7. VersionAt(NewEdits, 2) = db.version \cup db.added
    BY <1>5, <1>6 DEF VersionAt
<1>8. /\ Unsynced(NewEdits) \in Manifest
      /\ Unsynced(NewEdits).recs = NewEdits /\ Unsynced(NewEdits).synced = 0
    BY <1>2, UnsyncedIs
<1>. QED
    BY <1>2, <1>5, <1>6, <1>7, <1>8

\* What Open has read stays as it is in steps that only write the new MANIFEST.
LEMMA RecoveredKept ==
    ASSUME StoreInv, Still, Recovered, NewLog, Recs' = Recs,
           UNCHANGED <<logs, tables, current>>,
           db' = [db EXCEPT !.state = db'.state]
    PROVE  Recovered' /\ NewLog' /\ NewEdits' = NewEdits
           /\ db'.manifest = db.manifest /\ db'.logfile = db.logfile
<1>1. TypeOK
    BY StillIs
<1>2. /\ db'.version = db.version /\ db'.manifest = db.manifest /\ db'.added = db.added
      /\ db'.logNumber = db.logNumber /\ db'.replay = db.replay /\ db'.lastSeq = db.lastSeq
      /\ db'.next = db.next /\ db'.logfile = db.logfile
    BY <1>1 DEF TypeOK, DbOK, DbType
<1>3. Version(Len(Recs))' = Version(Len(Recs))
    BY DEF Version
<1>. QED
    BY <1>2, <1>3 DEF Recovered, NewLog, NewEdits

LEMMA StateKept ==
    ASSUME DbOK, db' = [db EXCEPT !.state = db'.state]
    PROVE  /\ db'.version = db.version /\ db'.manifest = db.manifest /\ db'.added = db.added
           /\ db'.logNumber = db.logNumber /\ db'.replay = db.replay /\ db'.lastSeq = db.lastSeq
           /\ db'.mem = db.mem /\ db'.imm = db.imm /\ db'.pending = db.pending
           /\ db'.bgError = db.bgError /\ db'.scheduled = db.scheduled
           /\ db'.next = db.next /\ db'.logfile = db.logfile
BY DEF DbOK, DbType

LEMMA OpenDescriptorKeeps ==
    ASSUME StoreInv, OpenDescriptor
    PROVE  StoreInv'
<1>1. /\ db.state = "descriptor" /\ Still
      /\ manifests' = Put(manifests, db.manifest, Unsynced(NewEdits))
      /\ db' = [db EXCEPT !.state = "sync"]
      /\ UNCHANGED <<logs, tables, current, queue, wr, lead, bg, hist>>
    BY DEF OpenDescriptor, Still, Opening, NewEdits
<1>2. TypeOK /\ Bounded /\ Open /\ Writing /\ Disk /\ Recovered /\ NewLog
    BY <1>1, StillIs DEF Open
<1>3. DbOK' /\ db'.state = "sync"
    BY <1>1, <1>2 DEF TypeOK, DbOK, DbType, Opening
<1>4. Still' /\ db'.state \notin Running
    BY <1>3 DEF Still, Opening, Running
<1>5. db.manifest \in Nat /\ db.manifest # current /\ db.manifest # 0 /\ current \in DOMAIN manifests
      /\ current # 0
    BY <1>1, <1>2, RecoveredIs
<1>6. /\ DOMAIN manifests' = DOMAIN manifests \cup {db.manifest}
      /\ manifests'[db.manifest] = Unsynced(NewEdits)
      /\ \A n \in DOMAIN manifests : n # db.manifest => manifests'[n] = manifests[n]
    BY <1>1 DEF Put
<1>7. manifests'[current] = manifests[current] /\ Recs' = Recs
    BY <1>1, <1>5, <1>6 DEF Recs
<1>8. ManifestsOK'
  <2>1. /\ Unsynced(NewEdits) \in Manifest /\ Len(NewEdits) = 2
        /\ Unsynced(NewEdits).recs = NewEdits /\ Unsynced(NewEdits).synced = 0
      BY <1>2, NewEditsAre DEF TypeOK, DbOK, DbType
  <2>. QED
      BY <1>2, <1>5, <1>6, <2>1 DEF TypeOK, ManifestsOK
<1>9. LogsOK' /\ TablesOK' /\ current' \in Nat /\ HistOK' /\ Bounded'
    BY <1>1, <1>2 DEF TypeOK, LogsOK, TablesOK, HistOK, Bounded
<1>10. Disk'
    BY <1>1, <1>2, <1>5, <1>6, <1>7, <1>8, DiskKept DEF ManifestsOK, Disk, Sound
<1>11. db' = [db EXCEPT !.state = db'.state]
    BY <1>1, <1>3
<1>12. Recovered' /\ NewLog' /\ NewEdits' = NewEdits /\ db'.manifest = db.manifest
    BY <1>1, <1>2, <1>7, <1>11, RecoveredKept
<1>13. NewManifest(0)'
  <2>1. Unsynced(NewEdits).recs = NewEdits /\ Unsynced(NewEdits).synced = 0
      BY <1>2, NewEditsAre DEF TypeOK, DbOK, DbType
  <2>. QED
      BY <2>1, <1>6, <1>12 DEF NewManifest
<1>14. Open'
    BY <1>1, <1>2, <1>3, <1>11, <1>12, <1>13, StillIs, StateKept DEF Open, TypeOK
<1>. QED
    BY <1>1, <1>3, <1>4, <1>8, <1>9, <1>10, <1>14, StaysStill DEF StoreInv, TypeOK

\* A MANIFEST is synced.
LEMMA SyncedIs ==
    ASSUME NEW f, NEW n \in DOMAIN f, f[n] \in Manifest, NEW k \in Nat,
           NEW g, g = [f EXCEPT ![n].synced = k]
    PROVE  /\ DOMAIN g = DOMAIN f /\ g[n].recs = f[n].recs /\ g[n].synced = k
           /\ g[n] \in Manifest /\ \A m \in DOMAIN f : m # n => g[m] = f[m]
BY DEF Manifest

LEMMA OpenSyncKeeps ==
    ASSUME StoreInv, OpenSync
    PROVE  StoreInv'
<1>1. /\ db.state = "sync" /\ Still
      /\ UNCHANGED <<logs, tables, current, queue, wr, lead, bg>>
    BY DEF OpenSync, Still, Opening
<1>2. TypeOK /\ Bounded /\ Open /\ Writing /\ Disk /\ Recovered /\ NewLog /\ NewManifest(0)
    BY <1>1, StillIs DEF Open
<1>3. db.manifest \in Nat /\ db.manifest # current /\ current \in DOMAIN manifests /\ current # 0
      /\ db.manifest \in DOMAIN manifests
      /\ manifests[db.manifest].recs = NewEdits /\ manifests[db.manifest] \in Manifest
    BY <1>1, <1>2, RecoveredIs DEF NewManifest, TypeOK, ManifestsOK
<1>4. CASE MayFail /\ FailOpen /\ manifests' = Without(manifests, {db.manifest})
  <2>1. /\ DOMAIN manifests' = DOMAIN manifests \ {db.manifest}
        /\ \A n \in DOMAIN manifests : n # db.manifest => manifests'[n] = manifests[n]
      BY <1>4 DEF Without
  <2>2. ManifestsOK'
      BY <1>2, <2>1 DEF TypeOK, ManifestsOK
  <2>3. current # db.manifest
      BY <1>3
  <2>. QED
      BY <1>1, <1>3, <1>4, <2>1, <2>2, <2>3, FailsAfter
<1>5. CASE /\ manifests' = [manifests EXCEPT ![db.manifest].synced = 2]
           /\ db' = [db EXCEPT !.state = "current"]
           /\ UNCHANGED hist
  <2>1. DbOK' /\ db'.state = "current"
      BY <1>2, <1>5 DEF TypeOK, DbOK, DbType, Opening
  <2>2. Still' /\ db'.state \notin Running
      BY <2>1 DEF Still, Opening, Running
  <2>3. /\ DOMAIN manifests' = DOMAIN manifests
        /\ manifests'[db.manifest].recs = NewEdits /\ manifests'[db.manifest].synced = 2
        /\ manifests'[db.manifest] \in Manifest
        /\ \A n \in DOMAIN manifests : n # db.manifest => manifests'[n] = manifests[n]
      BY <1>3, <1>5, SyncedIs
  <2>4. ManifestsOK'
    <3>1. Len(NewEdits) = 2
        BY <1>2, NewEditsAre DEF TypeOK, DbOK, DbType
    <3>2. manifests'[db.manifest].synced <= Len(manifests'[db.manifest].recs)
        BY <2>3, <3>1
    <3>. QED
        BY <1>2, <1>3, <2>3, <3>2 DEF TypeOK, ManifestsOK
  <2>5. manifests'[current] = manifests[current] /\ Recs' = Recs
      BY <1>1, <1>3, <2>3 DEF Recs
  <2>6. LogsOK' /\ TablesOK' /\ current' \in Nat /\ HistOK' /\ Bounded'
      BY <1>1, <1>2, <1>5 DEF TypeOK, LogsOK, TablesOK, HistOK, Bounded
  <2>7. Disk'
      BY <1>1, <1>2, <1>3, <1>5, <2>3, <2>4, <2>5, DiskKept DEF ManifestsOK, Disk, Sound
  <2>8. db' = [db EXCEPT !.state = db'.state]
      BY <1>5, <2>1
  <2>9. Recovered' /\ NewLog' /\ NewEdits' = NewEdits /\ db'.manifest = db.manifest
      BY <1>1, <1>2, <2>5, <2>8, RecoveredKept
  <2>10. NewManifest(2)'
      BY <2>3, <2>9, <1>3 DEF NewManifest
  <2>11. Open'
      BY <1>1, <1>2, <2>1, <2>8, <2>9, <2>10, StillIs, StateKept DEF Open, TypeOK
  <2>. QED
      BY <1>1, <2>1, <2>2, <2>4, <2>6, <2>7, <2>11, StaysStill DEF StoreInv, TypeOK
<1>. QED
    BY <1>4, <1>5 DEF OpenSync

\* From CURRENT on the new MANIFEST and the tables written from the logs hold
\* what the old MANIFEST and the logs held.
LEMMA OpenSetCurrentKeeps ==
    ASSUME StoreInv, OpenSetCurrent
    PROVE  StoreInv'
<1>1. /\ db.state = "current" /\ Still
      /\ UNCHANGED <<logs, tables, queue, wr, lead, bg>>
    BY DEF OpenSetCurrent, Still, Opening
<1>2. TypeOK /\ Bounded /\ Open /\ Writing /\ Disk /\ Recovered /\ NewLog /\ NewManifest(2)
    BY <1>1, StillIs DEF Open
<1>3. /\ db.manifest \in Nat /\ current < db.manifest /\ current \in DOMAIN manifests
      /\ current # 0 /\ current \in Nat
      /\ db.manifest \in DOMAIN manifests
      /\ manifests[db.manifest].recs = NewEdits /\ manifests[db.manifest].synced = 2
      /\ db.version \in SUBSET Nat /\ db.version \subseteq DOMAIN tables
      /\ \A t \in db.version : t < db.manifest
      /\ db.added \in SUBSET Nat /\ db.added \subseteq DOMAIN tables
      /\ Len(Recs) > 0 /\ db.next \in Nat /\ db.manifest < db.next
    BY <1>1, <1>2, RecoveredIs DEF NewManifest
<1>4. CASE /\ MayFail /\ FailOpen /\ UNCHANGED current
           /\ manifests' = Without(manifests, {db.manifest})
  <2>1. /\ DOMAIN manifests' = DOMAIN manifests \ {db.manifest}
        /\ \A n \in DOMAIN manifests : n # db.manifest => manifests'[n] = manifests[n]
      BY <1>4 DEF Without
  <2>2. ManifestsOK'
      BY <1>2, <2>1 DEF TypeOK, ManifestsOK
  <2>3. current # db.manifest
      BY <1>3
  <2>. QED
      BY <1>1, <1>3, <1>4, <2>1, <2>2, <2>3, FailsAfter
<1>5. CASE /\ current' = db.manifest
           /\ db' = [db EXCEPT !.state = "install"]
           /\ UNCHANGED <<manifests, hist>>
  <2>1. DbOK' /\ db'.state = "install"
      BY <1>2, <1>5 DEF TypeOK, DbOK, DbType, Opening
  <2>2. Still' /\ db'.state \notin Running
      BY <2>1 DEF Still, Opening, Running
  <2>3. ManifestsOK' /\ LogsOK' /\ TablesOK' /\ current' \in Nat /\ HistOK' /\ Bounded'
      BY <1>1, <1>2, <1>3, <1>5 DEF TypeOK, LogsOK, ManifestsOK, TablesOK, HistOK, Bounded
  <2>4. db' = [db EXCEPT !.state = db'.state]
      BY <1>5, <2>1
  <2>5. /\ db'.version = db.version /\ db'.manifest = db.manifest /\ db'.added = db.added
        /\ db'.logNumber = db.logNumber /\ db'.replay = db.replay /\ db'.lastSeq = db.lastSeq
        /\ db'.next = db.next /\ db'.logfile = db.logfile
      BY <2>4, <1>2, StateKept DEF TypeOK
  <2>6. NewLog' /\ NewManifest(2)' /\ NewEdits' = NewEdits
      BY <1>1, <1>2, <1>5, <2>5 DEF NewLog, NewManifest, NewEdits
  <2>. DEFINE files == db.version \cup db.added
              items == TableItems(files, tables)
  <2>7. /\ db.logfile \in Nat /\ db.lastSeq \in Nat
        /\ db.manifest < db.logfile /\ db.logfile < db.next
        /\ \A n \in DOMAIN logs : n <= db.logfile
        /\ db.replay = {} /\ logs[db.logfile] = EmptyLog /\ DOMAIN logs \subseteq Nat
      BY <1>2 DEF NewLog, TypeOK, DbOK, DbType, LogsOK
  <2>8. /\ Recs' = NewEdits /\ Len(Recs') = 2 /\ Prefixes' = {2}
        /\ Recs'[2] = Edit(db.added, {}, db.logfile, db.next, db.lastSeq)
        /\ Version(2)' = files
    <3>1. Recs' = NewEdits /\ manifests'[current'].synced = 2
        BY <1>3, <1>5 DEF Recs
    <3>2. /\ Len(NewEdits) = 2 /\ VersionAt(NewEdits, 2) = files
          /\ NewEdits[2] = Edit(db.added, {}, db.logfile, db.next, db.lastSeq)
        BY <1>3, <2>7, NewEditsAre
    <3>3. 2..2 = {2}
        OBVIOUS
    <3>. QED
        BY <3>1, <3>2, <3>3 DEF Prefixes, Version
  <2>9. items = Recoverable
    <3>1. Recoverable = TableItems(db.version, tables) \cup LogItems(logs, Recs[Len(Recs)].log)
        BY <1>2, <1>3, LastIsSound DEF Recovered
    <3>2. TableItems(db.added, tables) = LogItems(logs, Recs[Len(Recs)].log)
        BY <1>2, <2>7 DEF Recovered
    <3>. QED
        BY <3>1, <3>2, TableItemsUnion
  <2>10. LogItems(logs, db.logfile) = {}
    <3>1. \A n \in DOMAIN logs : n >= db.logfile => n = db.logfile
        BY <2>7
    <3>. QED
        BY <3>1, <2>7, EmptyLogIs DEF LogItems
  <2>11. Guaranteed \subseteq items /\ Answered \subseteq items
      BY <1>2, <2>9 DEF Disk, Answered, Guaranteed
  <2>12. Distinct(items)
    <3>1. Sound(Len(Recs))
        BY <1>2, <1>3, LastIsSound
    <3>2. Recoverable = TableItems(Version(Len(Recs)), tables) \cup LogItems(logs, Recs[Len(Recs)].log)
        BY <1>2, <1>3, LastIsSound
    <3>. QED
        BY <3>1, <3>2, <2>9 DEF Sound
  <2>13. files \subseteq DOMAIN tables /\ \A t \in files : t < db.next
    <3>1. \A t \in db.version : t < db.next
        BY <1>3
    <3>2. \A t \in db.added : t < db.next
        BY <1>2 DEF Recovered
    <3>. QED
        BY <3>1, <3>2, <1>3
  <2>14. UpTo(items, db.lastSeq)
      BY <1>2 DEF Recovered
  <2>15. Sound(2)'
    <3>1. Recs'[2].log = db.logfile /\ Recs'[2].next = db.next /\ Recs'[2].seq = db.lastSeq
        BY <2>8 DEF Edit
    <3>a. db.logfile < db.next /\ current' < db.next /\ db.next <= db.next
        BY <1>3, <1>5, <2>7
    <3>b. items \cup {} = items
        OBVIOUS
    <3>. HIDE DEF files, items
    <3>2. TableItems(files, tables) = items
        BY DEF items
    <3>. QED
        BY <3>1, <3>a, <3>b, <3>2, <2>7, <2>8, <2>10, <2>11, <2>12, <2>13, <2>14, <1>1, <1>3, <1>5
           DEF Sound, Answered, Guaranteed
  <2>16. Recoverable' = items
    <3>1. TypeOK'
        BY <1>1, <2>1, <2>2, <2>3, StaysStill DEF TypeOK
    <3>2. Readable(Recs')
      <4>0. Recs' \in Seq(Edits)
          BY <2>8, <1>3, <2>7, NewEditsAre
      <4>1. 2 \in DOMAIN Recs' /\ Recs'[2].next > 0
        <5>1. Recs' \in Seq(Edits)
            BY <2>8, <1>3, <2>7, NewEditsAre
        <5>2. Recs'[2].next = db.next
            BY <2>8 DEF Edit
        <5>. QED
            BY <5>1, <5>2, <2>8, <1>3
      <4>. QED
          BY <4>0, <4>1, CanBeRead
    <3>3. VersionOf(Recs') = files /\ LastEdit(Recs').log = db.logfile
      <4>1. Recs' \in Seq(Edits)
          BY <2>8, <1>3, <2>7, NewEditsAre
      <4>2. VersionOf(Recs') = VersionAt(Recs', 2)
          BY <4>1, <2>8, VersionOfIs
      <4>3. VersionAt(Recs', 2) = files
          BY <2>8 DEF Version
      <4>4. LastEdit(Recs').log = db.logfile
          BY <2>8 DEF LastEdit, Edit
      <4>. QED
          BY <4>2, <4>3, <4>4
    <3>4. Openable'
        BY <3>2, <3>3, <2>13, <1>1, <1>3, <1>5 DEF Openable, Recs
    <3>5. Recoverable' = TableItems(VersionOf(Recs'), tables') \cup LogItems(logs', LastEdit(Recs').log)
        BY <3>4 DEF Recoverable, TableItems, LogItems, Recs
    <3>. QED
        BY <3>3, <3>5, <2>10, <1>1
  <2>17. Disk'
    <3>1. \A k \in Prefixes' : k > 0 => Sound(k)'
        BY <2>8, <2>15
    <3>2. ~(current' < 2) /\ current' # 0 /\ current' \in DOMAIN manifests'
          /\ manifests'[current'].synced >= 2
        BY <1>3, <1>5
    <3>3. hist'.synced \subseteq hist'.acked /\ Answered' \subseteq Recoverable'
        BY <1>2, <1>5, <2>11, <2>16 DEF Disk, Answered, Guaranteed
    <3>. QED
        BY <3>1, <3>2, <3>3 DEF Disk
  <2>18. Open'
    <3>1. db'.version \cup db'.added \subseteq 0..db'.next - 1
      <4>1. \A t \in files : t \in Nat /\ t < db.next
          BY <1>3, <2>13
      <4>. QED
          BY <4>1, <2>5, <1>3
    <3>2. current' = db'.manifest /\ current' >= 2
        BY <1>3, <1>5, <2>5
    <3>. QED
        BY <1>1, <1>2, <2>1, <2>4, <2>6, <3>1, <3>2, StillIs, StateKept DEF Open, TypeOK
  <2>. QED
      BY <1>1, <2>1, <2>2, <2>3, <2>17, <2>18, StaysStill DEF StoreInv, TypeOK
<1>. QED
    BY <1>4, <1>5 DEF OpenSetCurrent

-----------------------------------------------------------------------------
(* Scheduling, garbage, and steps of an open database *)

LEMMA ScheduleIs ==
    ASSUME NEW d \in DbType
    PROVE  LET s == MaybeScheduleCompaction(d)
           IN /\ s \in DbType /\ (d.scheduled => s.scheduled)
              /\ s.state = d.state /\ s.mem = d.mem /\ s.imm = d.imm /\ s.logfile = d.logfile
              /\ s.next = d.next /\ s.manifest = d.manifest /\ s.lastSeq = d.lastSeq
              /\ s.logNumber = d.logNumber /\ s.version = d.version /\ s.pending = d.pending
              /\ s.bgError = d.bgError /\ s.added = d.added /\ s.replay = d.replay
<1>1. CASE MaybeScheduleCompaction(d) = d
    BY <1>1
<1>2. CASE MaybeScheduleCompaction(d) = [d EXCEPT !.scheduled = TRUE]
    BY <1>2 DEF DbType
<1>. QED
    BY <1>1, <1>2 DEF MaybeScheduleCompaction

\* What is left when garbage has been collected.
LEMMA Deleted ==
    ASSUME TypeOK, NEW d, NEW held, DeleteObsoleteFiles(d, held), d.logNumber \in Nat
    PROVE  /\ DOMAIN logs' \subseteq DOMAIN logs /\ \A n \in DOMAIN logs' : logs'[n] = logs[n]
           /\ \A n \in DOMAIN logs : n >= d.logNumber => n \in DOMAIN logs'
           /\ DOMAIN manifests' \subseteq DOMAIN manifests
           /\ \A n \in DOMAIN manifests' : manifests'[n] = manifests[n]
           /\ \A n \in DOMAIN manifests : n >= d.manifest => n \in DOMAIN manifests'
           /\ DOMAIN tables' \subseteq DOMAIN tables
           /\ \A t \in DOMAIN tables' : tables'[t] = tables[t]
           /\ \A t \in DOMAIN tables : t \in d.version \cup d.pending \cup held => t \in DOMAIN tables'
           /\ d.bgError => UNCHANGED <<logs, manifests, tables>>
           /\ \A n \in Nat : n >= d.logNumber =>
                 LogItems(logs', n) = LogItems(logs, n) /\ SyncedItems(logs', n) = SyncedItems(logs, n)
           /\ LogItems(logs', 0) \subseteq LogItems(logs, 0)
           /\ LogsOK' /\ ManifestsOK' /\ TablesOK'
<1>1. CASE d.bgError
  <2>1. UNCHANGED <<logs, manifests, tables>>
      BY <1>1 DEF DeleteObsoleteFiles
  <2>. QED
      BY <2>1 DEF TypeOK, LogsOK, ManifestsOK, TablesOK
<1>2. CASE ~d.bgError
  <2>. DEFINE oldLogs == DOMAIN logs \ {n \in DOMAIN logs : n >= d.logNumber}
              oldManifests == DOMAIN manifests \ {n \in DOMAIN manifests : n >= d.manifest}
              oldTables == DOMAIN tables \ (DOMAIN tables \cap (d.version \cup d.pending \cup held))
  <2>1. /\ logs' = Without(logs, oldLogs) /\ manifests' = Without(manifests, oldManifests)
        /\ tables' = Without(tables, oldTables)
      BY <1>2 DEF DeleteObsoleteFiles, Kept
  <2>2. /\ DOMAIN logs' = DOMAIN logs \ oldLogs /\ \A n \in DOMAIN logs' : logs'[n] = logs[n]
      BY <2>1 DEF Without
  <2>3. /\ DOMAIN manifests' = DOMAIN manifests \ oldManifests
        /\ \A n \in DOMAIN manifests' : manifests'[n] = manifests[n]
      BY <2>1 DEF Without
  <2>4. /\ DOMAIN tables' = DOMAIN tables \ oldTables
        /\ \A t \in DOMAIN tables' : tables'[t] = tables[t]
      BY <2>1 DEF Without
  <2>5. ASSUME NEW n \in Nat, n >= d.logNumber
        PROVE  LogItems(logs', n) = LogItems(logs, n) /\ SyncedItems(logs', n) = SyncedItems(logs, n)
    <3>1. \A m \in oldLogs : ~(m >= n)
        BY <2>5 DEF TypeOK, LogsOK
    <3>. QED
        BY <3>1, <2>1, LogItemsWithout
  <2>6. LogItems(logs', 0) \subseteq LogItems(logs, 0)
      BY <2>2 DEF LogItems
  <2>7. LogsOK' /\ ManifestsOK' /\ TablesOK'
      BY <2>2, <2>3, <2>4 DEF TypeOK, LogsOK, ManifestsOK, TablesOK
  <2>. QED
      BY <1>2, <2>2, <2>3, <2>4, <2>5, <2>6, <2>7
<1>. QED
    BY <1>1, <1>2

LEMMA StaysRunning ==
    ASSUME TypeOK', Bounded', Writing', Run', db'.state \in Running
    PROVE  StoreInv'
<1>1. Open'
    BY DEF Open, Opening, Running
<1>. QED
    BY <1>1 DEF StoreInv

LEMMA OpenInstallKeeps ==
    ASSUME StoreInv, OpenInstall
    PROVE  StoreInv'
<1>. DEFINE d == [db EXCEPT !.state = "open", !.version = @ \cup db.added,
                            !.added = {}, !.logNumber = db.logfile]
            files == db.version \cup db.added
            items == TableItems(files, tables)
<1>1. /\ db.state = "install" /\ Still /\ DeleteObsoleteFiles(d, {})
      /\ db' = MaybeScheduleCompaction(d)
      /\ hist' = [hist EXCEPT !.opened = TRUE, !.behind = @ \ InTables(d)]
      /\ UNCHANGED <<current, queue, wr, lead, bg>>
    BY DEF OpenInstall, Still, Opening
<1>2. TypeOK /\ Bounded /\ Open /\ Writing /\ Disk
    BY <1>1, StillIs
<1>3. /\ bg = NoWork /\ lead = NoLead /\ queue = <<>> /\ \A w \in Writers : wr[w].pc \notin Active
      /\ db.bgError = FALSE /\ db.mem = {} /\ db.imm = {} /\ db.pending = {}
    BY <1>1, StillIs
<1>4. /\ NewLog /\ NewManifest(2) /\ current = db.manifest /\ current >= 2
      /\ files \subseteq 0..db.next - 1
    BY <1>1, <1>2 DEF Open
<1>5. /\ db.version \in SUBSET Nat /\ db.added \in SUBSET Nat /\ db.logfile \in Nat
      /\ db.next \in Nat /\ db.lastSeq \in Nat /\ current \in Nat
    BY <1>2 DEF TypeOK, DbOK, DbType
<1>6. d \in DbType
  <2>1. "open" \in {"closed"} \cup Opening \cup Running /\ files \in SUBSET Nat /\ {} \in SUBSET Nat
      BY <1>5 DEF Running
  <2>. QED
      BY <1>2, <1>5, <2>1 DEF TypeOK, DbOK, DbType
<1>7. /\ d.state = "open" /\ d.version = files /\ d.added = {} /\ d.logNumber = db.logfile
      /\ d.mem = {} /\ d.imm = {} /\ d.pending = {} /\ d.bgError = FALSE
      /\ d.next = db.next /\ d.manifest = db.manifest /\ d.lastSeq = db.lastSeq
      /\ d.logfile = db.logfile
    BY <1>2, <1>3 DEF TypeOK, DbOK, DbType
<1>. HIDE DEF d
<1>8. /\ DbOK' /\ db'.state = "open" /\ db'.version = files /\ db'.logNumber = db.logfile
      /\ db'.mem = {} /\ db'.imm = {} /\ db'.bgError = FALSE
      /\ db'.next = db.next /\ db'.manifest = db.manifest /\ db'.lastSeq = db.lastSeq
      /\ db'.logfile = db.logfile
    BY <1>1, <1>6, <1>7, ScheduleIs DEF DbOK
<1>9. /\ DOMAIN logs' \subseteq DOMAIN logs /\ \A n \in DOMAIN logs' : logs'[n] = logs[n]
      /\ \A n \in DOMAIN logs : n >= db.logfile => n \in DOMAIN logs'
      /\ DOMAIN manifests' \subseteq DOMAIN manifests
      /\ \A n \in DOMAIN manifests' : manifests'[n] = manifests[n]
      /\ \A n \in DOMAIN manifests : n >= db.manifest => n \in DOMAIN manifests'
      /\ DOMAIN tables' \subseteq DOMAIN tables
      /\ \A t \in DOMAIN tables' : tables'[t] = tables[t]
      /\ \A t \in DOMAIN tables : t \in files => t \in DOMAIN tables'
      /\ LogItems(logs', db.logfile) = LogItems(logs, db.logfile)
      /\ LogItems(logs', 0) \subseteq LogItems(logs, 0)
      /\ LogsOK' /\ ManifestsOK' /\ TablesOK'
  <2>1. db.logfile >= d.logNumber
      BY <1>5, <1>7
  <2>. QED
      BY <1>1, <1>2, <1>5, <1>7, <2>1, Deleted
<1>10. /\ db.logfile \in DOMAIN logs /\ logs[db.logfile] = EmptyLog
       /\ db.manifest < db.logfile /\ db.logfile < db.next
       /\ \A n \in DOMAIN logs : n <= db.logfile
       /\ current \in DOMAIN manifests
       /\ manifests[current].recs = NewEdits /\ manifests[current].synced = 2
       /\ DOMAIN logs \subseteq Nat
    BY <1>2, <1>4 DEF NewLog, NewManifest, TypeOK, LogsOK
<1>11. /\ current \in DOMAIN manifests' /\ manifests'[current] = manifests[current]
       /\ db.logfile \in DOMAIN logs'
    BY <1>4, <1>5, <1>9, <1>10
<1>12. /\ Recs = NewEdits /\ Recs' = NewEdits /\ Len(Recs') = 2 /\ Prefixes = {2} /\ Prefixes' = {2}
       /\ Version(2) = files /\ Version(2)' = files
       /\ Adds(NewEdits, 2) = files /\ Dels(NewEdits, 2) = {}
       /\ Recs'[2] = Edit(db.added, {}, db.logfile, db.next, db.lastSeq)
  <2>1. Recs = NewEdits /\ Recs' = NewEdits
      BY <1>1, <1>10, <1>11 DEF Recs
  <2>2. /\ Len(NewEdits) = 2 /\ VersionAt(NewEdits, 2) = files
        /\ Adds(NewEdits, 2) = files /\ Dels(NewEdits, 2) = {}
        /\ NewEdits[2] = Edit(db.added, {}, db.logfile, db.next, db.lastSeq)
      BY <1>5, NewEditsAre
  <2>3. manifests[current].synced = 2 /\ manifests'[current'].synced = 2 /\ 2..2 = {2}
      BY <1>1, <1>10, <1>11
  <2>. HIDE DEF files
  <2>. QED
      BY <2>1, <2>2, <2>3 DEF Prefixes, Version
<1>13. Sound(2)
    BY <1>2, <1>4, <1>5, <1>12 DEF Disk
<1>14. /\ files \subseteq DOMAIN tables /\ files \subseteq DOMAIN tables'
       /\ TableItems(files, tables') = items
       /\ \A t \in files : t < db.next
  <2>1. files \subseteq DOMAIN tables
      BY <1>12, <1>13 DEF Sound
  <2>2. \A t \in files : t \in DOMAIN tables' /\ tables'[t] = tables[t]
      BY <2>1, <1>9
  <2>3. TableItems(files, tables') = items
      BY <2>2 DEF TableItems
  <2>. QED
      BY <2>1, <2>2, <2>3, <1>4, <1>5
<1>15. /\ UpTo(items, db.lastSeq) /\ Distinct(items)
  <2>1. Recs[2].seq = db.lastSeq
      BY <1>12 DEF Edit
  <2>. QED
      BY <2>1, <1>12, <1>13 DEF Sound, Distinct
<1>16. LogItems(logs, db.logfile) = {}
  <2>1. \A n \in DOMAIN logs : n >= db.logfile => n = db.logfile
      BY <1>5, <1>10
  <2>. QED
      BY <2>1, <1>10, EmptyLogIs DEF LogItems
<1>17. Answered \subseteq items /\ hist.synced \subseteq hist.acked
  <2>1. Recoverable = TableItems(Version(Len(Recs)), tables) \cup LogItems(logs, Recs[Len(Recs)].log)
      BY <1>2, <1>4, <1>12, LastIsSound
  <2>2. Recoverable = items
      BY <2>1, <1>12, <1>16 DEF Edit
  <2>. QED
      BY <2>2, <1>2 DEF Disk
<1>. HIDE DEF files, items
<1>18. /\ HistOK' /\ hist'.opened = TRUE /\ hist'.acked = hist.acked
       /\ hist'.synced = hist.synced /\ hist'.behind = hist.behind \ items
  <2>1. InTables(d) = items
      BY <1>7 DEF InTables, TableItems, items
  <2>. QED
      BY <2>1, <1>1, <1>2 DEF TypeOK, HistOK
<1>19. TypeOK'
    BY <1>1, <1>2, <1>8, <1>9, <1>18 DEF TypeOK, WritersOK, LeadOK, BgOK
<1>20. Bounded'
    BY <1>2, <1>9, BoundedKept
<1>21. Writing'
    BY <1>1, <1>3, FS_EmptySet DEF Writing, NoLead, Active, Distinct
<1>22. Numbers'
  <2>1. db'.logNumber <= db'.logfile /\ db'.manifest < db'.next /\ db'.logfile < db'.next
      BY <1>4, <1>5, <1>8, <1>10
  <2>2. \A n \in DOMAIN logs' : n <= db'.logfile
      BY <1>8, <1>9, <1>10
  <2>3. manifests'[current'].synced >= 2
      BY <1>1, <1>10, <1>11
  <2>4. Adds(Recs', Len(Recs')) \cup Dels(Recs', Len(Recs')) = files
      BY <1>12
  <2>. QED
      BY <2>1, <2>2, <2>3, <2>4, <1>1, <1>4, <1>8, <1>11, <1>14, <1>18 DEF Numbers
<1>23. \A k \in Prefixes' : Follows(k)'
  <2>1. /\ Recs'[2].log = db.logfile /\ Recs'[2].next = db.next /\ Recs'[2].seq = db.lastSeq
      BY <1>12 DEF Edit
  <2>2. /\ db.logfile < db.next /\ current' < db.next /\ db.next <= db.next
        /\ db.lastSeq <= db.lastSeq
      BY <1>1, <1>4, <1>5, <1>10
  <2>3. Follows(2)'
      BY <2>1, <2>2, <1>5, <1>8, <1>12, <1>14, <1>15 DEF Follows
  <2>. QED
      BY <2>3, <1>12
<1>24. bg'.pc = "idle" /\ bg' = NoWork /\ bg'.out = 0 /\ bg'.merged = 0 /\ bg'.inputs = {}
    BY <1>1, <1>3 DEF NoWork
<1>25. InStep'
    BY <1>8, <1>12, <1>24 DEF InStep
<1>26. Background' /\ EditAtHand'
    BY <1>24 DEF Background, EditAtHand, Logging
<1>27. Memtables'
    BY <1>8, <1>14, <1>18 DEF Memtables
<1>28. Numbered'
  <2>1. Pool' = items
    <3>1. LogItems(logs', db'.logNumber) = {}
        BY <1>8, <1>9, <1>16
    <3>. QED
        BY <3>1, <1>8, <1>12, <1>14 DEF Pool
  <2>2. Contents' = items
      BY <1>8, <1>14 DEF Contents, TableItems
  <2>3. lead'.items = {} /\ Cardinality({}) = 0 /\ db.lastSeq + 0 = db.lastSeq
      BY <1>1, <1>3, <1>5, FS_EmptySet DEF NoLead
  <2>. QED
      BY <2>1, <2>2, <2>3, <1>8, <1>15 DEF Numbered
<1>29. Told'
    BY <1>8, <1>14, <1>17, <1>18 DEF Told, Contents, TableItems, Answered, Guaranteed
<1>30. Logged'
    BY <1>1, <1>3 DEF Logged, Active
<1>31. Run'
    BY <1>22, <1>23, <1>25, <1>26, <1>27, <1>28, <1>29, <1>30 DEF Run
<1>. QED
    BY <1>8, <1>19, <1>20, <1>21, <1>31, StaysRunning DEF Running

-----------------------------------------------------------------------------
(* The writers *)

LEMMA RunningIs ==
    ASSUME StoreInv, db.state \in Running
    PROVE  /\ TypeOK /\ Bounded /\ Writing /\ Run
           /\ Numbers /\ (\A k \in Prefixes : Follows(k)) /\ InStep /\ Background /\ EditAtHand
           /\ Memtables /\ Numbered /\ Told /\ Logged
BY DEF StoreInv, Run

\* A step that changes the writers' states, and what nobody has been told.
LEMMA QueueStepKeeps ==
    ASSUME StoreInv, db.state \in Running,
           UNCHANGED <<logs, manifests, tables, current, db, lead, bg>>,
           HistOK', hist'.opened = hist.opened, hist'.acked = hist.acked,
           hist'.synced = hist.synced /\ hist'.behind = hist.behind, WritersOK', Writing', Logged',
           \A w \in Writers : wr'[w].pc = "append" => wr[w].pc = "append"
    PROVE  StoreInv'
<1>1. TypeOK /\ Bounded /\ Run
    BY RunningIs
<1>2. TypeOK'
    BY <1>1 DEF TypeOK, LogsOK, ManifestsOK, TablesOK, DbOK, LeadOK, BgOK
<1>3. Bounded'
    BY <1>1 DEF Bounded
<1>4. Recs' = Recs /\ Prefixes' = Prefixes /\ Pool' = Pool /\ Contents' = Contents
    BY DEF Recs, Prefixes, Pool, Contents, Version
<1>5. Numbers'
    BY <1>1, <1>4 DEF Run, Numbers
<1>6. \A k \in Prefixes' : Follows(k)'
    BY <1>1, <1>4 DEF Run, Follows, Version
<1>7. InStep' /\ Background' /\ EditAtHand' /\ Memtables'
    BY <1>1, <1>4 DEF Run, InStep, Background, EditAtHand, Memtables, Version, Unnamed, Installed, Answered, Guaranteed
<1>8. Numbered' /\ Told'
    BY <1>1, <1>4 DEF Run, Numbered, Told, Answered, Guaranteed
<1>9. Run'
    BY <1>5, <1>6, <1>7, <1>8 DEF Run
<1>. QED
    BY <1>2, <1>3, <1>9, StaysRunning

\* The writer that is being served is the front one: when the front writer
\* is queued nobody is being served.
LEMMA FrontIs ==
    ASSUME StoreInv, NEW w \in Writers, Front(w)
    PROVE  /\ db.state \in Running /\ db.state = "open" /\ Len(queue) \in Nat /\ Len(queue) > 0
           /\ queue[1] = w /\ queue \in Seq(Writers)
           /\ \A x \in Writers : wr[x].pc \notin Active
           /\ lead = NoLead
<1>1. db.state = "open" /\ queue # <<>> /\ queue[1] = w /\ wr[w].pc = "queued"
    BY DEF Front
<1>2. db.state \in Running
    BY <1>1 DEF Running
<1>3. Writing /\ queue \in Seq(Writers)
    BY <1>2, RunningIs DEF TypeOK, WritersOK
<1>4. \A x \in Writers : wr[x].pc \notin Active
    BY <1>1, <1>3 DEF Writing, Active
<1>. QED
    BY <1>1, <1>2, <1>3, <1>4 DEF Writing

\* The front writer leaves the queue and nobody is being served.
LEMMA LeaveIs ==
    ASSUME StoreInv, NEW w \in Writers, Front(w), Leave(1, wr)
    PROVE  WritersOK' /\ \A x \in Writers : wr'[x].pc \notin Active
<1>1. /\ Len(queue) \in Nat /\ queue \in Seq(Writers) /\ db.state \in Running
      /\ \A x \in Writers : wr[x].pc \notin Active
    BY FrontIs
<1>2. WritersOK
    BY <1>1, RunningIs DEF TypeOK
<1>3. queue' \in Seq(Writers)
    BY <1>1 DEF Leave
<1>4. wr' = [x \in Writers |-> IF x \in {queue[i] : i \in 1..1} THEN Idle ELSE wr[x]]
    BY DEF Leave
<1>5. Idle \in [pc : {"idle", "queued", "waitbg"} \cup Active, id : Nat,
                sync : BOOLEAN, over : SUBSET Item] /\ Idle.pc \notin Active
    BY DEF Idle, Active
<1>. HIDE DEF Idle
<1>6. wr' \in [Writers -> [pc : {"idle", "queued", "waitbg"} \cup Active, id : Nat,
                           sync : BOOLEAN, over : SUBSET Item]]
    BY <1>2, <1>4, <1>5 DEF WritersOK
<1>7. \A x \in Writers : wr'[x].pc \notin Active
    BY <1>1, <1>4, <1>5
<1>. QED
    BY <1>3, <1>6, <1>7 DEF WritersOK

\* Nobody is being served: nothing is being logged.
LEMMA NobodyServed ==
    ASSUME \A x \in Writers : wr'[x].pc \notin Active, lead' = NoLead, db'.state = "open"
    PROVE  Writing' /\ Logged' /\ \A x \in Writers : wr'[x].pc # "append"
<1>1. lead'.items = {} /\ IsFiniteSet({})
    BY FS_EmptySet DEF NoLead
<1>2. Writing'
    BY <1>1 DEF Writing, Distinct
<1>3. \A x \in Writers : wr'[x].pc \notin {"append", "sync", "logged", "syncError"}
    BY DEF Active
<1>4. Logged'
    BY <1>3 DEF Logged
<1>. QED
    BY <1>2, <1>3, <1>4

\* One more operation of the clients.
LEMMA OpCounted ==
    ASSUME HistOK, hist' = [hist EXCEPT !.ops = @ + 1]
    PROVE  /\ HistOK' /\ hist'.opened = hist.opened /\ hist'.acked = hist.acked
           /\ hist'.synced = hist.synced /\ hist'.behind = hist.behind
    BY DEF HistOK

LEMMA WriteKeeps ==
    ASSUME StoreInv, NEW w \in Writers, NEW sync \in BOOLEAN, NEW id \in Nat,
           Write(w, sync, id)
    PROVE  StoreInv'
<1>. DEFINE record == [pc |-> "queued", id |-> id, sync |-> sync,
                       over |-> IF id = 0 /\ queue = <<>> THEN db.mem ELSE {}]
<1>1. /\ db.state = "open" /\ db.state \in Running /\ wr[w].pc = "idle"
      /\ wr' = [wr EXCEPT ![w] = record] /\ queue' = Append(queue, w)
      /\ hist' = [hist EXCEPT !.ops = @ + 1]
      /\ UNCHANGED <<logs, manifests, tables, current, db, lead, bg>>
    BY DEF Write, disk, Running
<1>2. TypeOK /\ Writing /\ Logged
    BY <1>1, RunningIs
<1>3. record \in [pc : {"idle", "queued", "waitbg"} \cup Active, id : Nat,
                  sync : BOOLEAN, over : SUBSET Item] /\ record.pc = "queued"
    BY <1>2 DEF TypeOK, DbOK, DbType
<1>. HIDE DEF record
<1>4. /\ HistOK' /\ hist'.opened = hist.opened /\ hist'.acked = hist.acked
      /\ hist'.synced = hist.synced /\ hist'.behind = hist.behind
    BY <1>1, <1>2, OpCounted DEF TypeOK
<1>5. queue' \in Seq(Writers) /\ (queue # <<>> => queue' # <<>> /\ queue'[1] = queue[1])
    BY <1>1, <1>2 DEF TypeOK, WritersOK
<1>6. WritersOK'
    BY <1>1, <1>2, <1>3, <1>5 DEF TypeOK, WritersOK
<1>7. \A x \in Writers : wr'[x] = IF x = w THEN record ELSE wr[x]
    BY <1>1, <1>2 DEF TypeOK, WritersOK
<1>8. wr[w].pc \notin Active /\ wr'[w].pc \notin Active
    BY <1>1, <1>3, <1>7 DEF Active
<1>9. \A x \in Writers : (wr'[x].pc \in Active => wr[x].pc \in Active /\ wr'[x] = wr[x])
                         /\ (wr[x].pc \in Active => wr'[x].pc \in Active)
    BY <1>7, <1>8
<1>10. Writing'
    BY <1>1, <1>2, <1>5, <1>9 DEF Writing
<1>11. Logged' /\ \A x \in Writers : wr'[x].pc = "append" => wr[x].pc = "append"
    BY <1>1, <1>2, <1>9 DEF Logged, Active
<1>. QED
    BY <1>1, <1>4, <1>6, <1>10, <1>11, QueueStepKeeps

LEMMA RefuseWriteKeeps ==
    ASSUME StoreInv, NEW w \in Writers, RefuseWrite(w)
    PROVE  StoreInv'
<1>1. /\ Front(w) /\ Leave(1, wr)
      /\ UNCHANGED <<logs, manifests, tables, current, db, lead, bg, hist>>
    BY DEF RefuseWrite, disk
<1>2. db.state \in Running /\ db.state = "open" /\ lead = NoLead
    BY <1>1, FrontIs
<1>3. HistOK'
    BY <1>1, <1>2, RunningIs DEF TypeOK, HistOK
<1>4. WritersOK' /\ Writing' /\ Logged' /\ \A x \in Writers : wr'[x].pc # "append"
    BY <1>1, <1>2, LeaveIs, NobodyServed
<1>. QED
    BY <1>1, <1>2, <1>3, <1>4, QueueStepKeeps

LEMMA AwaitBackgroundKeeps ==
    ASSUME StoreInv, NEW w \in Writers, AwaitBackground(w)
    PROVE  StoreInv'
<1>1. /\ Front(w) /\ wr' = [wr EXCEPT ![w].pc = "waitbg"]
      /\ UNCHANGED <<logs, manifests, tables, current, db, queue, lead, bg, hist>>
    BY DEF AwaitBackground, MustSwitch, disk
<1>2. /\ db.state \in Running /\ db.state = "open" /\ lead = NoLead
      /\ \A x \in Writers : wr[x].pc \notin Active
    BY <1>1, FrontIs
<1>3. HistOK' /\ WritersOK
    BY <1>1, <1>2, RunningIs DEF TypeOK, HistOK
<1>4. \A x \in Writers : wr'[x].pc \notin Active
    BY <1>1, <1>2, <1>3 DEF WritersOK, Active
<1>5. WritersOK'
    BY <1>1, <1>3 DEF WritersOK
<1>6. Writing' /\ Logged' /\ \A x \in Writers : wr'[x].pc # "append"
    BY <1>1, <1>2, <1>4, NobodyServed
<1>. QED
    BY <1>1, <1>2, <1>3, <1>5, <1>6, QueueStepKeeps

\* The items that a reader or a recovery may find are items.
LEMMA PoolType ==
    ASSUME TypeOK, Run
    PROVE  Pool \in SUBSET Item /\ Contents \subseteq Pool
<1>1. current \in DOMAIN manifests
    BY DEF Run, Numbers
<1>2. Len(Recs) \in Prefixes
    BY <1>1, RecsType
<1>3. Contents \subseteq Pool
    BY <1>2, ContentsFound
<1>4. ASSUME NEW k \in Prefixes PROVE TableItems(Version(k), tables) \in SUBSET Item
  <2>1. Version(k) \subseteq DOMAIN tables
      BY DEF Run, Follows
  <2>. QED
      BY <2>1 DEF TableItems, TypeOK, TablesOK
<1>5. LogItems(logs, db.logNumber) \in SUBSET Item
  <2>1. \A n \in DOMAIN logs : ItemsOf(logs[n].recs) \in SUBSET Item
      BY SyncedOfIs DEF TypeOK, LogsOK
  <2>. QED
      BY <2>1 DEF LogItems
<1>. QED
    BY <1>3, <1>4, <1>5 DEF Pool, TypeOK, DbOK, DbType

\* The front writer's batch joins its group.
LEMMA GroupSizeIs ==
    ASSUME queue # <<>>, queue \in Seq(Writers)
    PROVE  GroupSize \in 1..Len(queue)
<1>. DEFINE joins(k) == \A i \in 2..k : wr[queue[i]].sync => wr[queue[1]].sync
            sizes == {k \in 1..Len(queue) : joins(k)}
<1>1. Len(queue) \in Nat /\ Len(queue) > 0
    OBVIOUS
<1>2. 1 \in sizes
    BY <1>1
<1>3. sizes \in SUBSET Nat /\ sizes # {} /\ \A k \in sizes : k <= Len(queue)
    BY <1>2
<1>4. GroupSize = Greatest(sizes)
    BY DEF GroupSize
<1>5. \A k \in sizes : k \in 1..Len(queue)
    OBVIOUS
<1>. HIDE DEF sizes
<1>6. Greatest(sizes) \in sizes
    BY <1>1, <1>3, GreatestIs
<1>. QED
    BY <1>4, <1>5, <1>6

\* What has higher numbers than the rest is new, and can be told apart from it.
LEMMA NewItemsAre ==
    ASSUME NEW P \in SUBSET Item, NEW Q \in SUBSET Item, NEW s \in Nat,
           UpTo(P, s), Distinct(P), Distinct(Q), \A i \in Q : s < i.seq
    PROVE  Distinct(P \cup Q) /\ P \cap Q = {}
<1>1. \A i \in P : i.seq \in Nat /\ i.seq <= s
    BY DEF UpTo, Item
<1>2. \A i \in Q : i.seq \in Nat /\ s < i.seq
    BY DEF Item
<1>3. \A i \in P, j \in Q : i.seq # j.seq
    BY <1>1, <1>2
<1>. QED
    BY <1>3 DEF Distinct

\* MakeRoomForWrite is done: a forced compaction returns, or the group is formed.
LEMMA ProceedIs ==
    ASSUME StoreInv, NEW w \in Writers, Front(w), NEW d, d.lastSeq = db.lastSeq, Proceed(w, d),
           d.state = "open"
    PROVE  /\ db' = d /\ WritersOK' /\ LeadOK' /\ Writing' /\ Logged'
           /\ \A n \in Nat : n <= db.lastSeq => n <= db'.lastSeq + Cardinality(lead'.items)
<1>1. /\ db.state \in Running /\ db.state = "open" /\ queue # <<>>
      /\ Len(queue) \in Nat /\ Len(queue) > 0
      /\ queue[1] = w /\ queue \in Seq(Writers) /\ lead = NoLead
      /\ \A x \in Writers : wr[x].pc \notin Active
    BY FrontIs DEF Front
<1>2. TypeOK /\ WritersOK /\ LeadOK /\ db.lastSeq \in Nat
    BY <1>1, RunningIs DEF TypeOK, DbOK, DbType
<1>3. CASE Forcing(w)
  <2>1. Leave(1, wr) /\ db' = d /\ lead' = lead
      BY <1>3 DEF Proceed
  <2>2. WritersOK' /\ Writing' /\ Logged'
      BY <1>1, <2>1, LeaveIs, NobodyServed
  <2>3. LeadOK'
      BY <1>2, <2>1 DEF LeadOK
  <2>4. Cardinality(lead'.items) = 0
      BY <1>1, <2>1, FS_EmptySet DEF NoLead
  <2>. QED
      BY <1>2, <2>1, <2>2, <2>3, <2>4
<1>4. CASE ~Forcing(w)
  <2>. DEFINE g == GroupSize
              items == GroupItems(db, g)
  <2>1. GroupItems(d, g) = items
      BY DEF GroupItems
  <2>2. /\ lead' = [writers |-> SubSeq(queue, 1, g), items |-> items, sync |-> wr[w].sync]
        /\ wr' = [wr EXCEPT ![w].pc = "append"] /\ db' = d /\ queue' = queue
      BY <1>4, <2>1 DEF Proceed
  <2>3. g \in 1..Len(queue)
      BY <1>1, GroupSizeIs
  <2>. HIDE DEF g
  <2>4. /\ items \in SUBSET Item /\ IsFiniteSet(items) /\ Distinct(items)
        /\ Cardinality(items) \in Nat
        /\ \A i \in items : db.lastSeq < i.seq /\ i.seq <= db.lastSeq + Cardinality(items)
    <3>1. g \in 0..Len(queue)
        BY <2>3
    <3>. QED
        BY <3>1, <1>2, GroupItemsAre
  <2>. HIDE DEF items
  <2>5. SubSeq(queue, 1, g) \in Seq(Writers) /\ Len(SubSeq(queue, 1, g)) = g /\ g > 0
      BY <1>1, <2>3
  <2>6. wr[w].sync \in BOOLEAN
      BY <1>2 DEF WritersOK
  <2>7. LeadOK' /\ lead'.items = items /\ lead'.writers = SubSeq(queue, 1, g)
      BY <2>2, <2>4, <2>5, <2>6 DEF LeadOK
  <2>8. WritersOK'
    <3>1. "append" \in {"idle", "queued", "waitbg"} \cup Active
        BY DEF Active
    <3>2. queue' \in Seq(Writers)
        BY <1>1, <2>2
    <3>3. wr' \in [Writers -> [pc : {"idle", "queued", "waitbg"} \cup Active, id : Nat,
                              sync : BOOLEAN, over : SUBSET Item]]
        BY <3>1, <1>2, <2>2 DEF WritersOK
    <3>. QED
        BY <3>2, <3>3 DEF WritersOK
  <2>9. /\ \A x \in Writers : wr'[x].pc \in Active => x = w
        /\ wr'[w].pc = "append" /\ "append" \in Active
      BY <1>1, <1>2, <2>2 DEF WritersOK, Active
  <2>10. Writing'
      BY <1>1, <2>2, <2>4, <2>5, <2>7, <2>9 DEF Writing
  <2>11. Logged'
      BY <2>9 DEF Logged, Active
  <2>. QED
      BY <1>2, <2>2, <2>4, <2>7, <2>8, <2>10, <2>11
<1>. QED
    BY <1>3, <1>4

LEMMA StartWriteKeeps ==
    ASSUME StoreInv, NEW w \in Writers, StartWrite(w)
    PROVE  StoreInv'
<1>1. /\ Front(w) /\ Proceed(w, db)
      /\ UNCHANGED <<logs, manifests, tables, current, bg, hist>>
    BY DEF StartWrite, disk
<1>2. /\ db.state \in Running /\ db.state = "open" /\ lead = NoLead
      /\ \A x \in Writers : wr[x].pc \notin Active
    BY <1>1, FrontIs
<1>3. TypeOK /\ Bounded /\ Run
    BY <1>2, RunningIs
<1>4. /\ db' = db /\ WritersOK' /\ LeadOK' /\ Writing' /\ Logged'
      /\ \A n \in Nat : n <= db.lastSeq => n <= db.lastSeq + Cardinality(lead'.items)
    BY <1>1, <1>2, ProceedIs
<1>5. TypeOK'
    BY <1>1, <1>3, <1>4 DEF TypeOK, LogsOK, ManifestsOK, TablesOK, DbOK, BgOK, HistOK
<1>6. Bounded'
    BY <1>1, <1>3 DEF Bounded
<1>7. Recs' = Recs /\ Prefixes' = Prefixes /\ Pool' = Pool /\ Contents' = Contents
    BY <1>1, <1>4 DEF Recs, Prefixes, Pool, Contents, Version
<1>8. Numbers' /\ \A k \in Prefixes' : Follows(k)'
    BY <1>1, <1>3, <1>4, <1>7 DEF Run, Numbers, Follows, Version
<1>9. InStep' /\ Background' /\ EditAtHand' /\ Memtables'
    BY <1>1, <1>3, <1>4, <1>7
       DEF Run, InStep, Background, EditAtHand, Memtables, Version, Unnamed, Installed, Answered, Guaranteed
<1>10. UpTo(Pool, db.lastSeq)
  <2>1. Cardinality(lead.items) = 0 /\ db.lastSeq \in Nat
      BY <1>2, <1>3, FS_EmptySet DEF NoLead, TypeOK, DbOK, DbType
  <2>. QED
      BY <1>3, <2>1 DEF Run, Numbered
<1>11. Pool \in SUBSET Item
    BY <1>3, PoolType
<1>12. Numbered'
  <2>1. UpTo(Pool, db.lastSeq + Cardinality(lead'.items))
      BY <1>4, <1>10, <1>11 DEF UpTo, Item
  <2>2. Distinct(Pool)
      BY <1>3 DEF Run, Numbered, Distinct
  <2>3. /\ lead'.items \in SUBSET Item /\ Distinct(lead'.items) /\ db.lastSeq \in Nat
        /\ \A i \in lead'.items : db.lastSeq < i.seq
      BY <1>3, <1>4 DEF LeadOK, Writing, TypeOK, DbOK, DbType
  <2>4. Distinct(Pool \cup lead'.items)
      BY <1>10, <1>11, <2>2, <2>3, NewItemsAre
  <2>. QED
      BY <1>3, <1>4, <1>7, <1>10, <2>1, <2>4 DEF Run, Numbered
<1>13. Told'
    BY <1>1, <1>3, <1>7 DEF Run, Told, Answered, Guaranteed
<1>14. Run'
    BY <1>4, <1>8, <1>9, <1>12, <1>13 DEF Run
<1>. QED
    BY <1>2, <1>4, <1>5, <1>6, <1>14, StaysRunning

LEMMA SwitchMemTableKeeps ==
    ASSUME StoreInv, NEW w \in Writers, SwitchMemTable(w)
    PROVE  StoreInv'
<1>. DEFINE n == db.next
            e == [db EXCEPT !.next = n + 1, !.logfile = n, !.imm = db.mem, !.mem = {}]
            d == MaybeScheduleCompaction(e)
<1>1. /\ Front(w) /\ db.imm = {}
      /\ UNCHANGED <<manifests, tables, current, bg>>
      /\ \/ /\ logs' = Put(logs, n, EmptyLog) /\ Proceed(w, d) /\ hist' = hist
         \/ /\ hist' = Fault /\ Leave(1, wr) /\ UNCHANGED <<logs, db, lead>>
    BY DEF SwitchMemTable, MustSwitch, None
<1>2. /\ db.state \in Running /\ db.state = "open" /\ lead = NoLead
      /\ \A x \in Writers : wr[x].pc \notin Active
    BY <1>1, FrontIs
<1>3. TypeOK /\ Bounded /\ Run
    BY <1>2, RunningIs
<1>4. CASE hist' = Fault /\ Leave(1, wr) /\ UNCHANGED <<logs, db, lead>>
  <2>1. /\ HistOK' /\ hist'.opened = hist.opened /\ hist'.acked = hist.acked
        /\ hist'.synced = hist.synced /\ hist'.behind = hist.behind
      BY <1>3, <1>4 DEF TypeOK, HistOK, Fault
  <2>2. WritersOK' /\ Writing' /\ Logged' /\ \A x \in Writers : wr'[x].pc # "append"
      BY <1>1, <1>2, <1>4, LeaveIs, NobodyServed
  <2>. QED
      BY <1>1, <1>2, <1>4, <2>1, <2>2, QueueStepKeeps
<1>5. CASE logs' = Put(logs, n, EmptyLog) /\ Proceed(w, d) /\ hist' = hist
  <2>1. /\ db.next \in Nat /\ db.logfile \in Nat /\ db.lastSeq \in Nat /\ db.logNumber \in Nat
        /\ db.mem \in SUBSET Item /\ DbOK
      BY <1>3 DEF TypeOK, DbOK, DbType
  <2>2. e \in DbType
    <3>1. n + 1 \in Nat /\ {} \in SUBSET Item
        BY <2>1
    <3>. QED
        BY <3>1, <2>1 DEF DbOK, DbType
  <2>3. /\ e.state = "open" /\ e.next = n + 1 /\ e.logfile = n /\ e.imm = db.mem /\ e.mem = {}
        /\ e.lastSeq = db.lastSeq /\ e.logNumber = db.logNumber /\ e.version = db.version
        /\ e.pending = db.pending /\ e.bgError = db.bgError /\ e.manifest = db.manifest
        /\ e.scheduled = db.scheduled
      BY <1>2, <2>1 DEF DbOK, DbType
  <2>. HIDE DEF e
  <2>4. /\ d \in DbType /\ d.state = "open" /\ d.next = n + 1 /\ d.logfile = n /\ d.imm = db.mem
        /\ d.mem = {} /\ d.lastSeq = db.lastSeq /\ d.logNumber = db.logNumber
        /\ d.version = db.version /\ d.pending = db.pending /\ d.bgError = db.bgError
        /\ d.manifest = db.manifest /\ (db.scheduled => d.scheduled)
      BY <2>2, <2>3, ScheduleIs
  <2>. HIDE DEF d
  <2>5. /\ db' = d /\ WritersOK' /\ LeadOK' /\ Writing' /\ Logged'
        /\ \A s \in Nat : s <= db.lastSeq => s <= db'.lastSeq + Cardinality(lead'.items)
      BY <1>1, <1>5, <2>4, ProceedIs
  <2>. HIDE DEF n
  <2>6. /\ db'.state = "open" /\ db'.next = db.next + 1 /\ db'.logfile = db.next /\ db'.imm = db.mem
        /\ db'.mem = {} /\ db'.lastSeq = db.lastSeq /\ db'.logNumber = db.logNumber
        /\ db'.version = db.version /\ db'.pending = db.pending /\ db'.bgError = db.bgError
        /\ db'.manifest = db.manifest /\ (db.scheduled => db'.scheduled) /\ DbOK'
      BY <2>4, <2>5 DEF DbOK, n
  <2>7. Numbers /\ (\A k \in Prefixes : Follows(k)) /\ InStep /\ Background /\ EditAtHand
        /\ Memtables /\ Numbered /\ Told
      BY <1>3 DEF Run
  <2>8. /\ db.logNumber <= db.logfile /\ db.logfile < db.next /\ db.logfile \in DOMAIN logs
        /\ (\A m \in DOMAIN logs : m <= db.logfile) /\ DOMAIN logs \subseteq Nat
      BY <1>3, <2>7 DEF Numbers, TypeOK, LogsOK
  <2>9. db.next \notin DOMAIN logs
      BY <2>1, <2>8
  <2>10. /\ DOMAIN logs' = DOMAIN logs \cup {db.next} /\ logs'[db.next] = EmptyLog
         /\ \A m \in DOMAIN logs : logs'[m] = logs[m]
      BY <1>5, <2>9 DEF Put, n
  <2>11. \A m : LogItems(logs', m) = LogItems(logs, m)
                /\ SyncedItems(logs', m) = SyncedItems(logs, m)
      BY <1>5, <2>9, LogItemsPut DEF n
  <2>12. LogsOK'
      BY <1>3, <2>1, <2>10, EmptyLogIs DEF TypeOK, LogsOK, Log
  <2>13. TypeOK'
      BY <1>1, <1>3, <1>5, <2>5, <2>6, <2>12
         DEF TypeOK, ManifestsOK, TablesOK, BgOK, HistOK
  <2>14. Bounded'
      BY <1>3, <2>11 DEF Bounded
  <2>15. Recs' = Recs /\ Prefixes' = Prefixes
      BY <1>1 DEF Recs, Prefixes
  <2>16. Numbers'
    <3>1. /\ db'.manifest < db'.next /\ db'.logNumber <= db'.logfile /\ db'.logfile < db'.next
          /\ db'.logfile \in DOMAIN logs' /\ \A m \in DOMAIN logs' : m <= db'.logfile
        BY <1>3, <2>1, <2>6, <2>7, <2>8, <2>10 DEF Numbers, TypeOK, DbOK, DbType
    <3>2. (\A t \in db'.version : t < db'.next)
          /\ \A t \in Adds(Recs', Len(Recs')) \cup Dels(Recs', Len(Recs')) : t < db'.next
      <4>1. \A t : t \in Int /\ t < db.next => t < db'.next
          BY <2>1, <2>6
      <4>2. db.version \subseteq Int /\ Adds(Recs, Len(Recs)) \subseteq Int
            /\ Dels(Recs, Len(Recs)) \subseteq Int
        <5>1. Recs \in Seq(Edits) /\ Len(Recs) \in 0..Len(Recs)
            BY <1>3, <2>7, RecsType DEF Numbers
        <5>2. Adds(Recs, Len(Recs)) \in SUBSET Nat /\ Dels(Recs, Len(Recs)) \in SUBSET Nat
            BY <5>1, VersionAtType
        <5>. QED
            BY <5>2, <2>1 DEF DbOK, DbType
      <4>. QED
          BY <4>1, <4>2, <2>6, <2>7, <2>15 DEF Numbers
    <3>. QED
        BY <3>1, <3>2, <1>1, <1>5, <2>6, <2>7 DEF Numbers
  <2>17. ASSUME NEW k \in Prefixes' PROVE Follows(k)'
    <3>1. Follows(k) /\ Recs[k].log = db.logNumber
        BY <1>1, <2>7, <2>15 DEF Follows
    <3>2. Recs[k].next <= db'.next
        BY <3>1, <2>1, <2>6 DEF Follows
    <3>. QED
        BY <3>1, <3>2, <1>1, <2>6, <2>15 DEF Follows, Version
  <2>18. bg.out = 0 /\ bg.pc # "build"
      BY <1>1, <2>7 DEF Background
  <2>19. InStep'
      BY <1>1, <2>6, <2>7, <2>15 DEF InStep, Version, Installed
  <2>20. Background'
      BY <1>1, <1>3, <2>1, <2>6, <2>7, <2>15, <2>18
         DEF Background, Unnamed, TypeOK, BgOK
  <2>21. EditAtHand'
    <3>1. SUFFICES ASSUME bg.pc \in Logging PROVE EditAtHand'
        BY <1>1 DEF EditAtHand
    <3>2. \A t \in bg.edit.add : t < db.next => t < db'.next
        BY <2>1, <2>6, <3>1, <2>7 DEF EditAtHand, Edits
    <3>3. bg.edit.next <= db'.next
        BY <2>1, <2>6, <3>1, <2>7 DEF EditAtHand
    <3>. QED
        BY <3>1, <3>2, <3>3, <1>1, <2>6, <2>7, <2>15, <2>18
           DEF EditAtHand, Version, Unnamed
  <2>22. Memtables'
    <3>1. /\ db.mem \ hist.behind \subseteq ItemsOf(logs[db.logfile].recs)
          /\ db.mem \cap Guaranteed \subseteq SyncedOf(logs[db.logfile])
          /\ hist.behind \cap TableItems(db.version, tables) = {}
        BY <2>7 DEF Memtables
    <3>2. db.logfile \in DOMAIN logs' /\ logs'[db.logfile] = logs[db.logfile]
        BY <2>8, <2>10
    <3>3. db'.logNumber <= db.logfile /\ db.logfile < db'.logfile
        BY <2>6, <2>8
    <3>. QED
        BY <3>1, <3>2, <3>3, <1>1, <1>5, <2>6 DEF Memtables, Guaranteed
  <2>23. Pool' = Pool /\ Contents' = Contents
    <3>1. Pool' = Pool
        BY <1>1, <2>6, <2>11, <2>15 DEF Pool, Version
    <3>2. Contents' = Contents
        BY <1>1, <2>6 DEF Contents
    <3>. QED
        BY <3>1, <3>2
  <2>24. UpTo(Pool, db.lastSeq)
    <3>1. Cardinality(lead.items) = 0
        BY <1>2, FS_EmptySet DEF NoLead
    <3>. QED
        BY <2>1, <2>7, <3>1 DEF Numbered
  <2>25. Numbered'
    <3>1. UpTo(Pool, db'.lastSeq + Cardinality(lead'.items))
        BY <1>3, <2>5, <2>24, PoolType DEF UpTo, Item
    <3>2. Pool \in SUBSET Item /\ Distinct(Pool)
        BY <1>3, <2>7, PoolType DEF Numbered, Distinct
    <3>3. /\ lead'.items \in SUBSET Item /\ Distinct(lead'.items)
          /\ \A i \in lead'.items : db.lastSeq < i.seq
        BY <2>5, <2>6 DEF LeadOK, Writing
    <3>4. Distinct(Pool \cup lead'.items)
        BY <2>1, <2>24, <3>2, <3>3, NewItemsAre
    <3>. QED
        BY <3>1, <3>4, <2>6, <2>7, <2>23, <2>24 DEF Numbered
  <2>26. Told'
      BY <1>5, <2>7, <2>23 DEF Told, Answered, Guaranteed
  <2>27. Run'
      BY <2>5, <2>16, <2>17, <2>19, <2>20, <2>21, <2>22, <2>25, <2>26 DEF Run
  <2>. QED
      BY <2>5, <2>6, <2>13, <2>14, <2>27, StaysRunning DEF Running
<1>. QED
    BY <1>1, <1>4, <1>5

\* A thread that is being served is the front of the queue of an open database.
LEMMA ServedIs ==
    ASSUME StoreInv, NEW w \in Writers, wr[w].pc \in Active
    PROVE  /\ db.state = "open" /\ db.state \in Running /\ queue # <<>> /\ queue[1] = w
           /\ Len(lead.writers) > 0 /\ queue \in Seq(Writers)
           /\ lead.items \in SUBSET Item /\ lead.sync \in BOOLEAN
           /\ IsFiniteSet(lead.items) /\ Distinct(lead.items) /\ Cardinality(lead.items) \in Nat
           /\ \A i \in lead.items :
                 db.lastSeq < i.seq /\ i.seq <= db.lastSeq + Cardinality(lead.items)
           /\ db.logfile \in DOMAIN logs /\ logs[db.logfile] \in Log
           /\ logs[db.logfile].synced <= Len(logs[db.logfile].recs)
           /\ \A x \in Writers : wr[x].pc \in Active => x = w
<1>1. Writing /\ TypeOK
    BY DEF StoreInv
<1>2. /\ queue # <<>> /\ queue[1] = w /\ Len(lead.writers) > 0 /\ db.state = "open"
      /\ \A x \in Writers : wr[x].pc \in Active => x = w
    BY <1>1 DEF Writing
<1>3. db.state \in Running
    BY <1>2 DEF Running
<1>4. db.logfile \in DOMAIN logs
    BY <1>3, RunningIs DEF Numbers
<1>5. Cardinality(lead.items) \in Nat
    BY <1>1, FS_CardinalityType DEF Writing
<1>. QED
    BY <1>1, <1>2, <1>3, <1>4, <1>5 DEF Writing, TypeOK, LogsOK, LeadOK, WritersOK

\* A step of the thread that is being served, which goes on being served.
LEMMA StaysServed ==
    ASSUME StoreInv, NEW w \in Writers, wr[w].pc \in Active, NEW pc \in Active,
           wr' = [wr EXCEPT ![w].pc = pc], UNCHANGED <<queue, lead, db>>
    PROVE  /\ WritersOK' /\ LeadOK' /\ DbOK' /\ Writing' /\ wr'[w].pc = pc
           /\ \A x \in Writers : wr'[x].pc \in Active => x = w
<1>1. TypeOK /\ Writing /\ WritersOK
    BY DEF StoreInv, TypeOK
<1>2. \A x \in Writers : wr'[x].pc = IF x = w THEN pc ELSE wr[x].pc
    BY <1>1 DEF WritersOK
<1>3. \A x \in Writers : wr[x].pc \in Active => x = w
    BY ServedIs
<1>4. \A x \in Writers : wr'[x].pc \in Active => x = w
    BY <1>2, <1>3
<1>5. WritersOK'
  <2>1. pc \in {"idle", "queued", "waitbg"} \cup Active
      OBVIOUS
  <2>. QED
      BY <2>1, <1>1 DEF WritersOK
<1>6. Writing'
    BY <1>1, <1>2, <1>4 DEF Writing
<1>. QED
    BY <1>1, <1>2, <1>4, <1>5, <1>6 DEF TypeOK, LeadOK, DbOK

LEMMA AppendRecordKeeps ==
    ASSUME StoreInv, NEW w \in Writers, AppendRecord(w)
    PROVE  StoreInv'
<1>1. wr[w].pc = "append" /\ wr[w].pc \in Active
      /\ UNCHANGED <<manifests, tables, current, db, queue, lead, bg>>
    BY DEF AppendRecord, Active
<1>. DEFINE n == db.logfile
            torn == logs[n].torn
<1>2. PICK ok \in BOOLEAN, landed \in BOOLEAN :
          /\ ok => landed \/ torn
          /\ logs' = [logs EXCEPT ![n] =
                         Grown(@, <<IF landed THEN lead.items ELSE {}>>, landed)]
          /\ hist' = [hist EXCEPT !.faults = IF ok THEN @ ELSE @ + 1,
                                  !.behind = IF torn THEN @ \cup lead.items ELSE @]
          /\ wr' = [wr EXCEPT ![w].pc = IF ~ok THEN "failed"
                                        ELSE IF lead.sync THEN "sync" ELSE "logged"]
    BY DEF AppendRecord
<1>. DEFINE pc == IF ~ok THEN "failed" ELSE IF lead.sync THEN "sync" ELSE "logged"
            record == IF landed THEN lead.items ELSE {}
<1>3. /\ db.state = "open" /\ db.state \in Running
      /\ lead.items \in SUBSET Item
      /\ Distinct(lead.items) /\ Cardinality(lead.items) \in Nat
      /\ \A i \in lead.items :
            db.lastSeq < i.seq /\ i.seq <= db.lastSeq + Cardinality(lead.items)
      /\ n \in DOMAIN logs /\ logs[n] \in Log /\ logs[n].synced <= Len(logs[n].recs)
    BY <1>1, ServedIs
<1>4. TypeOK /\ Bounded /\ Run
    BY <1>3, RunningIs
<1>5. Numbers /\ (\A k \in Prefixes : Follows(k)) /\ InStep /\ Background /\ EditAtHand
      /\ Memtables /\ Numbered /\ Told
    BY <1>4 DEF Run
<1>6. pc \in Active /\ pc # "append" /\ (pc \in {"sync", "logged", "syncError"} => ok)
      /\ (pc = "logged" => ~lead.sync)
    BY DEF Active
<1>7. wr' = [wr EXCEPT ![w].pc = pc]
    BY <1>2
<1>. HIDE DEF pc
<1>8. /\ WritersOK' /\ LeadOK' /\ DbOK' /\ Writing' /\ wr'[w].pc = pc
      /\ \A x \in Writers : wr'[x].pc \in Active => x = w
    BY <1>1, <1>6, <1>7, StaysServed
<1>9a. torn \in BOOLEAN /\ record \in SUBSET Item /\ record \subseteq lead.items
    BY <1>3 DEF Log
<1>9. /\ DOMAIN logs' = DOMAIN logs /\ \A k \in DOMAIN logs : k # n => logs'[k] = logs[k]
      /\ logs'[n] = Grown(logs[n], <<record>>, landed)
    BY <1>2, <1>3
<1>10. /\ logs'[n] \in Log /\ logs'[n].synced <= Len(logs'[n].recs)
       /\ ItemsOf(logs'[n].recs) = ItemsOf(logs[n].recs) \cup record
       /\ SyncedOf(logs'[n]) = SyncedOf(logs[n])
       /\ \A m : /\ SyncedItems(logs', m) = SyncedItems(logs, m)
                 /\ LogItems(logs', m) \subseteq LogItems(logs, m) \cup record
  <2>. HIDE DEF record, torn
  <2>1. /\ n \in DOMAIN logs /\ logs[n] \in Log /\ logs[n].synced <= Len(logs[n].recs)
        /\ record \in SUBSET Item /\ DOMAIN logs' = DOMAIN logs
        /\ logs'[n] = Grown(logs[n], <<record>>, landed)
        /\ \A k \in DOMAIN logs : k # n => logs'[k] = logs[k]
      BY <1>3, <1>9, <1>9a
  <2>. HIDE DEF n
  <2>. QED
      BY <2>1, LogItemsAppend
<1>13. \A k \in DOMAIN logs : /\ ItemsOf(logs[k].recs) \subseteq ItemsOf(logs'[k].recs)
                               /\ SyncedOf(logs'[k]) = SyncedOf(logs[k])
    BY <1>9, <1>9a, <1>10
<1>14. \A m : LogItems(logs', m) \subseteq LogItems(logs, m) \cup lead.items
    BY <1>9, <1>9a, <1>10
<1>15. LogsOK'
    BY <1>4, <1>9, <1>10 DEF TypeOK, LogsOK
<1>16. /\ HistOK' /\ hist'.opened = hist.opened /\ hist'.acked = hist.acked
       /\ hist'.synced = hist.synced
       /\ hist'.behind = (IF torn THEN hist.behind \cup lead.items ELSE hist.behind)
  <2>. DEFINE behind == IF torn THEN hist.behind \cup lead.items ELSE hist.behind
              faults == IF ok THEN hist.faults ELSE hist.faults + 1
  <2>1. behind \in SUBSET Item /\ faults \in Nat /\ HistOK
      BY <1>3, <1>4 DEF TypeOK, HistOK
  <2>2. hist' = [hist EXCEPT !.faults = faults, !.behind = behind]
      BY <1>2
  <2>. HIDE DEF behind, faults
  <2>3. /\ HistOK' /\ hist'.opened = hist.opened /\ hist'.acked = hist.acked
        /\ hist'.synced = hist.synced /\ hist'.behind = behind
      BY <2>1, <2>2 DEF HistOK
  <2>. QED
      BY <2>3 DEF behind
<1>17. TypeOK'
    BY <1>1, <1>4, <1>8, <1>15, <1>16 DEF TypeOK, ManifestsOK, TablesOK, BgOK
<1>18. db.lastSeq \in Nat
    BY <1>4 DEF TypeOK, DbOK, DbType
<1>19. Bounded'
  <2>1. PICK s \in Nat : UpTo(LogItems(logs, 0), s)
      BY <1>4 DEF Bounded
  <2>2. PICK r \in Nat : r >= s /\ r >= db.lastSeq + Cardinality(lead.items)
    <3>1. s + db.lastSeq + Cardinality(lead.items) \in Nat
          /\ s + db.lastSeq + Cardinality(lead.items) >= s
          /\ s + db.lastSeq + Cardinality(lead.items) >= db.lastSeq + Cardinality(lead.items)
        BY <1>3, <1>18
    <3>. QED
        BY <3>1
  <2>3. LogItems(logs, 0) \in SUBSET Item
    <3>1. \A k \in DOMAIN logs : ItemsOf(logs[k].recs) \in SUBSET Item
        BY <1>4, SyncedOfIs DEF TypeOK, LogsOK
    <3>. QED
        BY <3>1 DEF LogItems
  <2>4. \A i \in LogItems(logs, 0) \cup lead.items : i.seq <= r
    <3>1. \A i \in LogItems(logs, 0) : i.seq \in Nat /\ i.seq <= s
        BY <2>1, <2>3 DEF UpTo, Item
    <3>2. \A i \in lead.items : i.seq \in Nat /\ i.seq <= db.lastSeq + Cardinality(lead.items)
        BY <1>3 DEF Item
    <3>. QED
        BY <3>1, <3>2, <2>2, <1>3, <1>18
  <2>. QED
      BY <2>4, <1>14 DEF Bounded, UpTo
<1>20. Recs' = Recs /\ Prefixes' = Prefixes /\ Contents' = Contents
    BY <1>1 DEF Recs, Prefixes, Contents
<1>21. Numbers' /\ \A k \in Prefixes' : Follows(k)'
    BY <1>1, <1>5, <1>9, <1>13, <1>16, <1>20 DEF Numbers, Follows, Version
<1>22. InStep' /\ Background' /\ EditAtHand'
    BY <1>1, <1>5, <1>20 DEF InStep, Background, EditAtHand, Version, Unnamed, Installed
<1>24. UpTo(Pool, db.lastSeq)
    BY <1>1, <1>5 DEF Numbered
<1>24a. Contents \cap lead.items = {}
  <2>1. UpTo(Contents, db.lastSeq) /\ Contents \in SUBSET Item
      BY <1>4, <1>5, PoolType DEF Numbered
  <2>. QED
      BY <2>1, <1>3, <1>18 DEF UpTo, Item
<1>23. Memtables'
  <2>1. /\ db.mem \ hist.behind \subseteq ItemsOf(logs'[n].recs)
        /\ db.mem \cap Guaranteed \subseteq SyncedOf(logs'[n])
      BY <1>3, <1>5, <1>13 DEF Memtables
  <2>3. hist.behind \subseteq hist'.behind /\ Guaranteed' \subseteq Guaranteed
      BY <1>16 DEF Guaranteed
  <2>4. db.mem \cap db.imm = {} /\ hist'.behind \cap TableItems(db.version, tables) = {}
    <3>1. TableItems(db.version, tables) \subseteq Contents
        BY DEF TableItems, Contents
    <3>. QED
        BY <3>1, <1>5, <1>16, <1>24a DEF Memtables
  <2>2. ASSUME db.imm # {}
        PROVE  \E m \in DOMAIN logs' :
                  /\ db.logNumber <= m /\ m < db.logfile
                  /\ db.imm \ hist.behind \subseteq ItemsOf(logs'[m].recs)
                  /\ db.imm \cap Guaranteed \subseteq SyncedOf(logs'[m])
      BY <2>2, <1>5, <1>9, <1>13 DEF Memtables
  <2>. QED
      BY <2>1, <2>2, <2>3, <2>4, <1>1 DEF Memtables
<1>25. Pool' \subseteq Pool \cup lead.items /\ Pool \in SUBSET Item
    BY <1>1, <1>4, <1>14, <1>20, PoolType DEF Pool, Version
<1>26. Numbered'
  <2>1. \A i \in Pool : i.seq \in Nat /\ i.seq <= db.lastSeq
      BY <1>24, <1>25 DEF UpTo, Item
  <2>2. \A i \in lead.items : i.seq \in Nat /\ db.lastSeq < i.seq
                              /\ i.seq <= db.lastSeq + Cardinality(lead.items)
      BY <1>3 DEF Item
  <2>3. Distinct(Pool \cup lead.items)
      BY <1>5 DEF Numbered
  <2>4. UpTo(Pool \cup lead.items, db.lastSeq + Cardinality(lead.items))
      BY <2>1, <2>2, <1>3, <1>18 DEF UpTo
  <2>5. Distinct(Pool' \cup lead.items) /\ UpTo(Pool', db.lastSeq + Cardinality(lead.items))
      BY <2>3, <2>4, <1>25 DEF Distinct, UpTo
  <2>6. \A x \in Writers : wr'[x].pc # "append"
      BY <1>6, <1>8 DEF Active
  <2>7. UpTo(Contents, db.lastSeq)
      BY <1>5 DEF Numbered
  <2>. QED
      BY <2>5, <2>6, <2>7, <1>1, <1>20 DEF Numbered
<1>27. Told'
    BY <1>5, <1>16, <1>20 DEF Told, Answered, Guaranteed
<1>28. Logged'
  <2>1. ok => lead.items \ hist'.behind \subseteq ItemsOf(logs'[n].recs)
      BY <1>2, <1>10, <1>16
  <2>. QED
      BY <2>1, <1>1, <1>6, <1>8 DEF Logged, Active
<1>29. Run'
    BY <1>21, <1>22, <1>23, <1>26, <1>27, <1>28 DEF Run
<1>. QED
    BY <1>1, <1>3, <1>8, <1>17, <1>19, <1>29, StaysRunning

\* A signal makes no writer the one being served.
LEMMA SignalledIs ==
    ASSUME WritersOK
    PROVE  /\ Signalled \in [Writers -> [pc : {"idle", "queued", "waitbg"} \cup Active, id : Nat,
                                         sync : BOOLEAN, over : SUBSET Item]]
           /\ \A x \in Writers : Signalled[x].pc \in Active => Signalled[x] = wr[x]
           /\ \A x \in Writers : wr[x].pc \in Active => Signalled[x] = wr[x]
<1>1. \A x \in Writers : wr[x] \in [pc : {"idle", "queued", "waitbg"} \cup Active, id : Nat,
                                    sync : BOOLEAN, over : SUBSET Item]
    BY DEF WritersOK
<1>2. \A x \in Writers : wr[x].pc = "waitbg" =>
          /\ [wr[x] EXCEPT !.pc = "queued"] \in [pc : {"idle", "queued", "waitbg"} \cup Active,
                id : Nat, sync : BOOLEAN, over : SUBSET Item]
          /\ [wr[x] EXCEPT !.pc = "queued"].pc \notin Active
          /\ wr[x].pc \notin Active
    BY <1>1 DEF Active
<1>3. \A x \in Writers : Signalled[x] =
          IF wr[x].pc = "waitbg" THEN [wr[x] EXCEPT !.pc = "queued"] ELSE wr[x]
    BY DEF Signalled
<1>4. \A x \in Writers : Signalled[x] \in [pc : {"idle", "queued", "waitbg"} \cup Active,
                                           id : Nat, sync : BOOLEAN, over : SUBSET Item]
    BY <1>1, <1>2, <1>3
<1>5. Signalled = [x \in Writers |-> Signalled[x]]
    BY DEF Signalled
<1>6. \A x \in Writers : (Signalled[x].pc \in Active => Signalled[x] = wr[x])
                         /\ (wr[x].pc \in Active => Signalled[x] = wr[x])
    BY <1>2, <1>3
<1>. QED
    BY <1>4, <1>5, <1>6

LEMMA SyncRecordKeeps ==
    ASSUME StoreInv, NEW w \in Writers, SyncRecord(w)
    PROVE  StoreInv'
<1>. DEFINE n == db.logfile
            g == [logs EXCEPT ![n].synced = Len(logs[n].recs)]
<1>1. /\ wr[w].pc = "sync" /\ wr[w].pc \in Active
      /\ UNCHANGED <<manifests, tables, current, db, queue, lead, bg>>
      /\ \/ logs' = g /\ wr' = [wr EXCEPT ![w].pc = "logged"] /\ hist' = hist
         \/ logs' = logs /\ wr' = [wr EXCEPT ![w].pc = "syncError"] /\ hist' = Fault
    BY DEF SyncRecord, Active
<1>2. /\ db.state = "open" /\ db.state \in Running
      /\ n \in DOMAIN logs /\ logs[n] \in Log /\ logs[n].synced <= Len(logs[n].recs)
    BY <1>1, ServedIs
<1>3. TypeOK /\ Bounded /\ Run
    BY <1>2, RunningIs
<1>4. Numbers /\ (\A k \in Prefixes : Follows(k)) /\ InStep /\ Background /\ EditAtHand
      /\ Memtables /\ Numbered /\ Told /\ Logged
    BY <1>3 DEF Run
<1>5. lead.items \ hist.behind \subseteq ItemsOf(logs[n].recs)
    BY <1>1, <1>4 DEF Logged
<1>6. CASE logs' = logs /\ wr' = [wr EXCEPT ![w].pc = "syncError"] /\ hist' = Fault
  <2>1. /\ HistOK' /\ hist'.opened = hist.opened /\ hist'.acked = hist.acked
        /\ hist'.synced = hist.synced /\ hist'.behind = hist.behind
      BY <1>3, <1>6 DEF TypeOK, HistOK, Fault
  <2>2. /\ WritersOK' /\ Writing' /\ wr'[w].pc = "syncError"
        /\ \A x \in Writers : wr'[x].pc \in Active => x = w
    <3>1. "syncError" \in Active
        BY DEF Active
    <3>. QED
        BY <3>1, <1>1, <1>6, StaysServed
  <2>3. Logged' /\ \A x \in Writers : wr'[x].pc # "append"
      BY <2>1, <2>2, <1>1, <1>5, <1>6 DEF Logged, Active
  <2>. QED
      BY <1>1, <1>2, <1>6, <2>1, <2>2, <2>3, QueueStepKeeps
<1>7. CASE logs' = g /\ wr' = [wr EXCEPT ![w].pc = "logged"] /\ hist' = hist
  <2>1. /\ WritersOK' /\ LeadOK' /\ DbOK' /\ Writing' /\ wr'[w].pc = "logged"
        /\ \A x \in Writers : wr'[x].pc \in Active => x = w
    <3>1. "logged" \in Active
        BY DEF Active
    <3>. QED
        BY <3>1, <1>1, <1>7, StaysServed
  <2>1a. /\ DOMAIN g = DOMAIN logs /\ \A k \in DOMAIN logs : k # n => g[k] = logs[k]
         /\ g[n] = [recs |-> logs[n].recs, synced |-> Len(logs[n].recs), torn |-> logs[n].torn]
      BY <1>2 DEF Log
  <2>. HIDE DEF g
  <2>2. /\ DOMAIN g = DOMAIN logs /\ g[n] \in Log /\ g[n].synced <= Len(g[n].recs)
        /\ \A k \in DOMAIN logs : k # n => g[k] = logs[k]
        /\ \A k \in DOMAIN logs : g[k].recs = logs[k].recs
        /\ SyncedOf(g[n]) = ItemsOf(logs[n].recs)
        /\ \A m : LogItems(g, m) = LogItems(logs, m)
      BY <1>2, <2>1a, LogItemsSync
  <2>3. /\ DOMAIN logs' = DOMAIN logs /\ logs'[n] \in Log /\ logs'[n].synced <= Len(logs'[n].recs)
        /\ \A k \in DOMAIN logs : k # n => logs'[k] = logs[k]
        /\ \A k \in DOMAIN logs : logs'[k].recs = logs[k].recs
        /\ SyncedOf(logs'[n]) = ItemsOf(logs[n].recs)
        /\ \A m : LogItems(logs', m) = LogItems(logs, m)
      BY <1>7, <2>2
  <2>4. LogsOK'
      BY <1>3, <2>3 DEF TypeOK, LogsOK
  <2>5. TypeOK'
      BY <1>1, <1>3, <1>7, <2>1, <2>4 DEF TypeOK, ManifestsOK, TablesOK, BgOK, HistOK
  <2>6. Bounded'
      BY <1>3, <2>3 DEF Bounded
  <2>7. /\ Recs' = Recs /\ Prefixes' = Prefixes /\ Contents' = Contents /\ Pool' = Pool
      BY <1>1, <2>3 DEF Recs, Prefixes, Contents, Pool, Version
  <2>8. Numbers' /\ \A k \in Prefixes' : Follows(k)'
      BY <1>1, <1>4, <1>7, <2>3, <2>7 DEF Numbers, Follows, Version
  <2>9. InStep' /\ Background' /\ EditAtHand'
      BY <1>1, <1>4, <2>7 DEF InStep, Background, EditAtHand, Version, Unnamed, Installed
  <2>10. Memtables'
    <3>1. /\ db.mem \ hist.behind \subseteq ItemsOf(logs'[n].recs)
          /\ db.mem \cap Guaranteed \subseteq SyncedOf(logs'[n])
      <4>1. SyncedOf(logs[n]) \subseteq ItemsOf(logs[n].recs)
          BY <1>2, SyncedOfIs
      <4>. QED
          BY <4>1, <1>2, <1>4, <2>3 DEF Memtables
    <3>2. ASSUME db.imm # {}
          PROVE  \E m \in DOMAIN logs' :
                    /\ db.logNumber <= m /\ m < db.logfile
                    /\ db.imm \ hist.behind \subseteq ItemsOf(logs'[m].recs)
                    /\ db.imm \cap Guaranteed \subseteq SyncedOf(logs'[m])
      <4>1. PICK m \in DOMAIN logs :
                /\ db.logNumber <= m /\ m < db.logfile
                /\ db.imm \ hist.behind \subseteq ItemsOf(logs[m].recs)
                /\ db.imm \cap Guaranteed \subseteq SyncedOf(logs[m])
          BY <3>2, <1>4 DEF Memtables
      <4>2. m # n
          BY <4>1, <1>3 DEF TypeOK, LogsOK, DbOK, DbType
      <4>. QED
          BY <4>1, <4>2, <2>3
    <3>. QED
        BY <3>1, <3>2, <1>1, <1>4, <1>7 DEF Memtables, Guaranteed
  <2>11. Numbered' /\ Told'
      BY <1>1, <1>4, <1>7, <2>1, <2>7 DEF Numbered, Told, Active, Answered, Guaranteed
  <2>12. Logged'
      BY <1>1, <1>2, <1>5, <1>7, <2>1, <2>3 DEF Logged, Active
  <2>13. Run'
      BY <2>8, <2>9, <2>10, <2>11, <2>12 DEF Run
  <2>. QED
      BY <1>1, <1>2, <2>1, <2>5, <2>6, <2>13, StaysRunning
<1>. QED
    BY <1>1, <1>6, <1>7

LEMMA FinishWriteKeeps ==
    ASSUME StoreInv, NEW w \in Writers, FinishWrite(w)
    PROVE  StoreInv'
<1>. DEFINE ok == wr[w].pc = "logged"
            error == wr[w].pc = "syncError"
            items == lead.items
            last == db.lastSeq + Cardinality(items)
            ws == IF error THEN Signalled ELSE wr
            n == Len(lead.writers)
<1>1. /\ wr[w].pc \in {"logged", "failed", "syncError"} /\ wr[w].pc \in Active
      /\ db' = [db EXCEPT !.mem = IF ok THEN @ \cup items ELSE @,
                          !.lastSeq = last, !.bgError = @ \/ error]
      /\ Leave(n, ws)
      /\ hist' = IF ok THEN [hist EXCEPT !.acked = @ \cup items,
                    !.synced = IF lead.sync THEN @ \cup items ELSE @]
                 ELSE hist
      /\ lead' = NoLead
      /\ UNCHANGED <<logs, manifests, tables, current, bg>>
    BY DEF FinishWrite, SequenceAfter, Active, disk
<1>2. /\ db.state = "open" /\ db.state \in Running /\ queue # <<>> /\ queue[1] = w
      /\ n > 0 /\ queue \in Seq(Writers) /\ items \in SUBSET Item
      /\ Cardinality(items) \in Nat
      /\ \A i \in items : db.lastSeq < i.seq /\ i.seq <= last
      /\ \A x \in Writers : wr[x].pc \in Active => x = w
    BY <1>1, ServedIs
<1>3. TypeOK /\ Bounded /\ Run
    BY <1>2, RunningIs
<1>4. Numbers /\ (\A k \in Prefixes : Follows(k)) /\ InStep /\ Background /\ EditAtHand
      /\ Memtables /\ Numbered /\ Told /\ Logged
    BY <1>3 DEF Run
<1>5. /\ db.lastSeq \in Nat /\ last \in Nat /\ db.lastSeq <= last /\ db.mem \in SUBSET Item
      /\ n \in Nat /\ Len(queue) \in Nat
    BY <1>2, <1>3 DEF TypeOK, DbOK, DbType, LeadOK
<1>6. /\ DbOK' /\ db'.lastSeq = last /\ db'.mem = (IF ok THEN db.mem \cup items ELSE db.mem)
      /\ db'.state = "open" /\ db'.imm = db.imm /\ db'.logfile = db.logfile
      /\ db'.next = db.next /\ db'.manifest = db.manifest /\ db'.logNumber = db.logNumber
      /\ db'.version = db.version /\ db'.pending = db.pending /\ db'.scheduled = db.scheduled
      /\ (~db'.bgError => ~db.bgError)
  <2>. DEFINE m == IF ok THEN db.mem \cup items ELSE db.mem
              b == db.bgError \/ error
  <2>1. m \in SUBSET Item /\ b \in BOOLEAN /\ db \in DbType
      BY <1>2, <1>3, <1>5 DEF TypeOK, DbOK
  <2>2. db' = [db EXCEPT !.mem = m, !.lastSeq = last, !.bgError = b]
      BY <1>1
  <2>3. ~b => ~db.bgError
      OBVIOUS
  <2>. HIDE DEF m, b, last
  <2>4. /\ db' \in DbType /\ db'.lastSeq = last /\ db'.mem = m /\ db'.bgError = b
        /\ db'.state = db.state /\ db'.imm = db.imm /\ db'.logfile = db.logfile
        /\ db'.next = db.next /\ db'.manifest = db.manifest
        /\ db'.logNumber = db.logNumber /\ db'.version = db.version
        /\ db'.pending = db.pending /\ db'.scheduled = db.scheduled
      BY <2>1, <2>2, <1>5 DEF DbType
  <2>. QED
      BY <2>3, <2>4, <1>2 DEF DbOK, m
<1>7. /\ ok => items \ hist.behind \subseteq ItemsOf(logs[db.logfile].recs)
      /\ ok /\ lead.sync => items \ hist.behind \subseteq SyncedOf(logs[db.logfile])
    BY <1>4 DEF Logged
<1>8. /\ HistOK' /\ hist'.opened = hist.opened /\ hist'.behind = hist.behind
      /\ hist'.acked = (IF ok THEN hist.acked \cup items ELSE hist.acked)
      /\ hist'.synced = (IF ok /\ lead.sync THEN hist.synced \cup items ELSE hist.synced)
    BY <1>1, <1>2, <1>3 DEF TypeOK, HistOK
<1>9. queue' \in Seq(Writers)
    BY <1>1, <1>2, <1>5 DEF Leave
<1>10. /\ wr' \in [Writers -> [pc : {"idle", "queued", "waitbg"} \cup Active, id : Nat,
                               sync : BOOLEAN, over : SUBSET Item]]
       /\ \A x \in Writers : wr'[x].pc \notin Active
  <2>1. ws \in [Writers -> [pc : {"idle", "queued", "waitbg"} \cup Active, id : Nat,
                               sync : BOOLEAN, over : SUBSET Item]]
        /\ \A x \in Writers : ws[x].pc \in Active => x = w
    <3>1. /\ Signalled \in [Writers -> [pc : {"idle", "queued", "waitbg"} \cup Active, id : Nat,
                               sync : BOOLEAN, over : SUBSET Item]]
          /\ \A x \in Writers : Signalled[x].pc \in Active => wr[x].pc \in Active
        BY <1>3, SignalledIs DEF TypeOK
    <3>. QED
        BY <3>1, <1>2, <1>3 DEF TypeOK, WritersOK
  <2>2. Idle \in [pc : {"idle", "queued", "waitbg"} \cup Active, id : Nat,
                  sync : BOOLEAN, over : SUBSET Item] /\ Idle.pc \notin Active
      BY DEF Idle, Active
  <2>. HIDE DEF ws, Idle
  <2>3. w \in {queue[i] : i \in 1..n}
      BY <1>2, <1>5
  <2>4. wr' = [x \in Writers |-> IF x \in {queue[i] : i \in 1..n} THEN Idle ELSE ws[x]]
      BY <1>1 DEF Leave
  <2>5. \A x \in Writers : wr'[x] = Idle \/ (x # w /\ wr'[x] = ws[x])
      BY <2>3, <2>4
  <2>6. wr' \in [Writers -> [pc : {"idle", "queued", "waitbg"} \cup Active, id : Nat,
                             sync : BOOLEAN, over : SUBSET Item]]
      BY <2>1, <2>2, <2>4
  <2>. QED
      BY <2>1, <2>2, <2>5, <2>6
<1>11. Writing' /\ Logged' /\ \A x \in Writers : wr'[x].pc # "append"
    BY <1>1, <1>6, <1>10, NobodyServed
<1>12. TypeOK'
  <2>1. NoLead \in [writers : Seq(Writers), items : SUBSET Item, sync : BOOLEAN]
      BY DEF NoLead
  <2>. QED
      BY <2>1, <1>1, <1>3, <1>6, <1>8, <1>9, <1>10
         DEF TypeOK, LogsOK, ManifestsOK, TablesOK, WritersOK, LeadOK, BgOK
<1>13. Bounded'
    BY <1>1, <1>3 DEF Bounded
<1>. HIDE DEF ok, error, last
<1>14. Recs' = Recs /\ Prefixes' = Prefixes /\ Pool' \subseteq Pool \cup items
  <2>1. db'.mem \subseteq db.mem \cup items
      BY <1>6
  <2>2. Recs' = Recs /\ Prefixes' = Prefixes
      BY <1>1 DEF Recs, Prefixes
  <2>. QED
      BY <2>1, <2>2, <1>1, <1>6 DEF Pool, Version
<1>15. Contents' \subseteq Contents \cup items /\ (ok => Contents' = Contents \cup items)
       /\ Contents \subseteq Contents'
    BY <1>1, <1>6 DEF Contents
<1>16. Numbers'
    BY <1>1, <1>4, <1>6, <1>8, <1>14 DEF Numbers
<1>17. ASSUME NEW k \in Prefixes' PROVE Follows(k)'
  <2>1. Follows(k)
      BY <1>4, <1>14, <1>17
  <2>2. Recs[k].seq <= db'.lastSeq
      BY <2>1, <1>5, <1>6 DEF Follows
  <2>. QED
      BY <2>1, <2>2, <1>1, <1>6, <1>14 DEF Follows, Version
<1>18. InStep' /\ Background'
    BY <1>1, <1>4, <1>6, <1>14 DEF InStep, Background, Version, Unnamed, Installed
<1>19. EditAtHand'
  <2>1. SUFFICES ASSUME bg.pc \in Logging PROVE EditAtHand'
      BY <1>1 DEF EditAtHand
  <2>2. bg.edit.seq <= db'.lastSeq
      BY <2>1, <1>4, <1>5, <1>6 DEF EditAtHand
  <2>. QED
      BY <2>1, <2>2, <1>1, <1>4, <1>6, <1>14 DEF EditAtHand, Version, Unnamed
<1>20. UpTo(Contents, db.lastSeq) /\ Contents \in SUBSET Item
    BY <1>3, <1>4, PoolType DEF Numbered
<1>21. Contents \cap items = {}
    BY <1>2, <1>5, <1>20 DEF UpTo, Item
<1>22. Guaranteed \subseteq Contents /\ db.mem \subseteq Contents /\ db.imm \subseteq Contents
    BY <1>4 DEF Told, Contents, Answered, Guaranteed
<1>23. Memtables'
  <2>1. db'.mem \ hist.behind \subseteq ItemsOf(logs[db.logfile].recs)
      BY <1>4, <1>6, <1>7 DEF Memtables
  <2>4. db'.mem \cap db.imm = {} /\ hist.behind \cap TableItems(db.version, tables) = {}
      BY <1>4, <1>6, <1>21, <1>22 DEF Memtables
  <2>2. db'.mem \cap Guaranteed' \subseteq SyncedOf(logs[db.logfile])
    <3>1. db.mem \cap Guaranteed \subseteq SyncedOf(logs[db.logfile])
        BY <1>4 DEF Memtables
    <3>2. db'.mem \cap Guaranteed' \subseteq
              (db.mem \cap Guaranteed) \cup (IF ok /\ lead.sync THEN items \ hist.behind ELSE {})
        BY <1>6, <1>8, <1>21, <1>22 DEF Guaranteed
    <3>. QED
        BY <3>1, <3>2, <1>7
  <2>3. db.imm \cap Guaranteed' = db.imm \cap Guaranteed
      BY <1>8, <1>21, <1>22 DEF Guaranteed
  <2>. QED
      BY <2>1, <2>2, <2>3, <2>4, <1>1, <1>4, <1>6, <1>8 DEF Memtables
<1>24. Numbered'
  <2>1. lead'.items = {} /\ Cardinality({}) = 0
      BY <1>1, FS_EmptySet DEF NoLead
  <2>2. db'.lastSeq + Cardinality(lead'.items) = last /\ last = db.lastSeq + Cardinality(items)
      BY <2>1, <1>2, <1>5, <1>6 DEF last
  <2>4. Distinct(Pool') /\ UpTo(Pool', last)
      BY <1>2, <1>4, <1>14, <2>2 DEF Numbered, Distinct, UpTo
  <2>3. UpTo(Contents', db'.lastSeq)
      BY <1>2, <1>5, <1>6, <1>15, <1>20 DEF UpTo, Item
  <2>. QED
      BY <2>1, <2>2, <2>3, <2>4, <1>11 DEF Numbered, Distinct
<1>25. Told'
    BY <1>4, <1>8, <1>15 DEF Told, Answered, Guaranteed
<1>26. Run'
    BY <1>11, <1>16, <1>17, <1>18, <1>19, <1>23, <1>24, <1>25 DEF Run
<1>. QED
    BY <1>6, <1>11, <1>12, <1>13, <1>26, StaysRunning DEF Running

-----------------------------------------------------------------------------
(* The background thread *)

\* What a step of the background thread leaves alone, but for installing.
Steady ==
    /\ UNCHANGED <<current, queue, lead>> /\ wr' \in {wr, Signalled}
    /\ db'.state = db.state /\ db'.mem = db.mem /\ db'.logfile = db.logfile
    /\ db'.manifest = db.manifest /\ db'.lastSeq = db.lastSeq
    /\ db.next <= db'.next /\ (db.bgError => db'.bgError)
    /\ HistOK' /\ hist'.opened = hist.opened /\ hist'.acked = hist.acked
    /\ hist'.synced = hist.synced
    /\ DbOK' /\ BgOK' /\ TablesOK'
Untouched ==
    /\ Steady /\ logs' = logs /\ hist'.behind = hist.behind
    /\ db'.imm = db.imm /\ db'.logNumber = db.logNumber /\ db'.version = db.version

\* A step that tells the callers nothing, whether it fails or not.
SameHist ==
    /\ HistOK' /\ hist'.opened = hist.opened /\ hist'.acked = hist.acked
    /\ hist'.synced = hist.synced /\ hist'.behind = hist.behind

LEMMA FaultIs ==
    ASSUME HistOK, hist' = hist \/ hist' = Fault
    PROVE  SameHist
BY DEF SameHist, HistOK, Fault

\* The MANIFEST's edits stay; at most a part of one more follows them.
SameEdits ==
    \/ manifests' = manifests
    \/ \E t \in BOOLEAN : manifests' = [manifests EXCEPT ![db.manifest] = Grown(@, <<>>, t)]

\* The tables that the MANIFEST or the version in memory name.
NamedKept ==
    \A t \in DOMAIN tables : ~Unnamed(t) => t \in DOMAIN tables' /\ tables'[t] = tables[t]

LEMMA WritersKept ==
    ASSUME StoreInv, Steady, db.state \in Running,
           DOMAIN logs' \subseteq DOMAIN logs, db.logfile \in DOMAIN logs',
           \A n \in DOMAIN logs' : logs'[n] = logs[n],
           lead.items \ hist'.behind = lead.items \ hist.behind
    PROVE  /\ WritersOK' /\ LeadOK' /\ Writing' /\ Logged'
           /\ \A w \in Writers : wr'[w].pc = "append" => wr[w].pc = "append"
<1>1. TypeOK /\ Writing /\ Logged
    BY RunningIs
<1>2. wr' = wr \/ wr' = Signalled
    BY DEF Steady
<1>3. \A w \in Writers : (wr'[w].pc \in Active => wr'[w] = wr[w])
                         /\ (wr[w].pc \in Active => wr'[w] = wr[w])
    BY <1>1, <1>2, SignalledIs DEF TypeOK
<1>4. WritersOK'
    BY <1>1, <1>2, SignalledIs DEF TypeOK, WritersOK, Steady
<1>5. LeadOK'
    BY <1>1 DEF TypeOK, LeadOK, Steady
<1>6. Writing'
    BY <1>1, <1>3 DEF Writing, Steady
<1>7. Logged'
    BY <1>1, <1>3 DEF Logged, Active, Steady
<1>. QED
    BY <1>3, <1>4, <1>5, <1>6, <1>7 DEF Active

LEMMA WorkStepKeeps ==
    ASSUME StoreInv, Untouched, db.state \in Running, ManifestsOK',
           \A t \in db.version : t \in DOMAIN tables' /\ tables'[t] = tables[t],
           Numbers', \A k \in Prefixes' : Follows(k)', InStep', Background', EditAtHand',
           Pool' \subseteq Pool
    PROVE  StoreInv'
<1>1. TypeOK /\ Bounded /\ Memtables /\ Numbered /\ Told /\ Steady /\ logs' = logs
      /\ db.logfile \in DOMAIN logs /\ hist'.behind = hist.behind
    BY RunningIs DEF Untouched, Numbers
<1>2. WritersOK' /\ LeadOK' /\ Writing' /\ Logged'
      /\ \A w \in Writers : wr'[w].pc = "append" => wr[w].pc = "append"
    BY <1>1, WritersKept
<1>3. TypeOK'
    BY <1>1, <1>2 DEF TypeOK, LogsOK, Steady
<1>4. Bounded'
    BY <1>1 DEF Bounded
<1>5. Memtables'
  <2>1. TableItems(db.version, tables') = TableItems(db.version, tables)
      BY DEF TableItems
  <2>. QED
      BY <1>1, <2>1 DEF Memtables, Steady, Untouched, Guaranteed
<1>6. Contents' = Contents
    BY DEF Contents, Steady, Untouched
<1>7. Numbered' /\ Told'
    BY <1>1, <1>2, <1>6 DEF Numbered, Told, Distinct, UpTo, Steady, Answered, Guaranteed
<1>8. Run'
    BY <1>2, <1>5, <1>7 DEF Run
<1>. QED
    BY <1>1, <1>2, <1>3, <1>4, <1>8, StaysRunning DEF Steady

\* A step that leaves the MANIFEST and the tables it names alone.
LEMMA NamedStay ==
    ASSUME StoreInv, Untouched, db.state \in Running, SameEdits, NamedKept
    PROVE  /\ Recs' = Recs /\ Prefixes' = Prefixes /\ ManifestsOK' /\ Numbers'
           /\ (\A k \in Prefixes' : Follows(k)') /\ Pool' \subseteq Pool
           /\ \A t \in db.version : t \in DOMAIN tables' /\ tables'[t] = tables[t]
           /\ \A k \in Prefixes : /\ Version(k)' = Version(k)
                                  /\ TableItems(Version(k), tables') = TableItems(Version(k), tables)
<1>1. TypeOK /\ Numbers /\ (\A k \in Prefixes : Follows(k)) /\ Steady /\ logs' = logs
      /\ current' = current /\ current \in DOMAIN manifests /\ current = db.manifest
      /\ current >= 2 /\ manifests[current].synced >= 2
    BY RunningIs DEF Untouched, Steady, Numbers
<1>0. /\ DOMAIN manifests' = DOMAIN manifests
      /\ \A n \in DOMAIN manifests :
            /\ manifests'[n].recs = manifests[n].recs
            /\ manifests'[n].synced = manifests[n].synced
            /\ manifests'[n] \in Manifest
  <2>1. CASE manifests' = manifests
      BY <2>1, <1>1 DEF TypeOK, ManifestsOK
  <2>2. ASSUME NEW t \in BOOLEAN, manifests' = [manifests EXCEPT ![db.manifest] = Grown(@, <<>>, t)]
        PROVE  <1>0!:
    <3>1. manifests[current] \in Manifest /\ manifests[current].recs \in Seq(Edits)
        BY <1>1 DEF TypeOK, ManifestsOK, Manifest
    <3>2. <<>> \in Seq(Edits) /\ manifests[current].recs \o <<>> = manifests[current].recs
        BY <3>1
    <3>3. /\ Grown(manifests[current], <<>>, t).recs = manifests[current].recs
          /\ Grown(manifests[current], <<>>, t).synced = manifests[current].synced
          /\ Grown(manifests[current], <<>>, t) \in Manifest
        BY <3>1, <3>2, ManifestGrown
    <3>. QED
        BY <2>2, <3>3, <1>1 DEF TypeOK, ManifestsOK
  <2>. QED
      BY <2>1, <2>2 DEF SameEdits
<1>2. Recs' = Recs /\ Prefixes' = Prefixes /\ \A k : Version(k)' = Version(k)
    BY <1>0, <1>1 DEF Recs, Prefixes, Version
<1>3. ManifestsOK'
    BY <1>0, <1>1 DEF TypeOK, ManifestsOK
<1>4. Recs \in Seq(Edits) /\ Len(Recs) \in Nat /\ Len(Recs) \in Prefixes
      /\ \A k \in Prefixes : k \in 0..Len(Recs)
    BY <1>1, RecsType
<1>5. \A k \in Prefixes : Version(k) \subseteq Adds(Recs, Len(Recs))
    BY <1>4, VersionAtType DEF Version
<1>6. db.version \subseteq DOMAIN tables
    BY <1>1 DEF Numbers
<1>7. \A t \in db.version : t \in DOMAIN tables' /\ tables'[t] = tables[t]
    BY <1>6 DEF NamedKept, Unnamed
<1>8. ASSUME NEW k \in Prefixes
      PROVE  /\ \A t \in Version(k) : t \in DOMAIN tables' /\ tables'[t] = tables[t]
             /\ TableItems(Version(k), tables') = TableItems(Version(k), tables)
  <2>1. Version(k) \subseteq DOMAIN tables
      BY <1>1 DEF Follows
  <2>2. \A t \in Version(k) : t \in DOMAIN tables' /\ tables'[t] = tables[t]
      BY <2>1, <1>5 DEF NamedKept, Unnamed
  <2>. QED
      BY <2>2 DEF TableItems
<1>9. TableItems(db.version, tables') = TableItems(db.version, tables)
    BY <1>7 DEF TableItems
<1>10. db.next \in Nat /\ db'.next \in Nat /\ db.next <= db'.next
    BY <1>1 DEF TypeOK, DbOK, DbType, Steady
<1>11. ASSUME NEW k \in Prefixes' PROVE Follows(k)'
  <2>1. Follows(k) /\ Recs[k].next \in Nat /\ Recs[k].next <= db.next
      BY <1>1, <1>2, <1>11 DEF Follows
  <2>2. Recs[k].next <= db'.next
      BY <2>1, <1>10
  <2>3. Version(k) \subseteq DOMAIN tables'
      BY <1>2, <1>8, <1>11
  <2>. QED
      BY <2>1, <2>2, <2>3, <1>1, <1>2, <1>8, <1>9, <1>11 DEF Follows, Steady, Untouched
<1>12. Numbers'
  <2>1. Adds(Recs, Len(Recs)) \subseteq Nat /\ Dels(Recs, Len(Recs)) \subseteq Nat
        /\ db.version \subseteq Nat /\ db.manifest \in Nat /\ db.logfile \in Nat
    <3>1. Len(Recs) \in 0..Len(Recs)
        BY <1>4
    <3>. QED
        BY <3>1, <1>1, <1>4, VersionAtType DEF TypeOK, DbOK, DbType
  <2>2. \A t \in Nat : t < db.next => t < db'.next
      BY <1>10
  <2>3. /\ \A t \in Adds(Recs, Len(Recs)) \cup Dels(Recs, Len(Recs)) : t < db'.next
        /\ \A t \in db.version : t < db'.next
        /\ db.manifest < db'.next /\ db.logfile < db'.next
      BY <1>1, <2>1, <2>2 DEF Numbers
  <2>4. db.version \subseteq DOMAIN tables'
      BY <1>7
  <2>. QED
      BY <2>3, <2>4, <1>0, <1>1, <1>2 DEF Numbers, Steady, Untouched
<1>13. Pool' \subseteq Pool
    BY <1>1, <1>2, <1>8 DEF Pool, Untouched, Steady
<1>. QED
    BY <1>2, <1>3, <1>7, <1>8, <1>11, <1>12, <1>13

\* What holds of the thread's work before and after.
LEMMA WorkIs ==
    ASSUME StoreInv, db.state \in Running
    PROVE  /\ db \in DbType /\ db.next \in Nat /\ db.lastSeq \in Nat /\ db.logfile \in Nat
           /\ db.logNumber \in Nat /\ db.version \in SUBSET Nat /\ db.pending \in SUBSET Nat
           /\ db.imm \in SUBSET Item
           /\ bg.out \in Nat /\ bg.merged \in Nat /\ bg.inputs \in SUBSET Nat /\ bg.edit \in Edits
           /\ bg.pc \in {"idle", "build", "merge"} \cup Logging
           /\ current \in Nat /\ current >= 2 /\ current < db.next /\ db.next > 0
           /\ \A t : ~Unnamed(t) => t \in Nat /\ t < db.next
           /\ HistOK /\ TablesOK /\ ManifestsOK /\ BgOK /\ WritersOK
<1>1. TypeOK /\ Numbers
    BY RunningIs
<1>2. /\ current \in Nat /\ current >= 2 /\ current < db.next /\ db.next \in Nat
      /\ current \in DOMAIN manifests
    BY <1>1 DEF Numbers, TypeOK, DbOK, DbType
<1>3. Recs \in Seq(Edits) /\ Len(Recs) \in 0..Len(Recs)
    BY <1>1, <1>2, RecsType
<1>4. Adds(Recs, Len(Recs)) \subseteq Nat /\ Dels(Recs, Len(Recs)) \subseteq Nat
    BY <1>3, VersionAtType
<1>5. \A t : ~Unnamed(t) => t \in Nat /\ t < db.next
    BY <1>1, <1>4 DEF Unnamed, Numbers, TypeOK, DbOK, DbType
<1>6. db.next > 0
    BY <1>2
<1>. QED
    BY <1>1, <1>2, <1>5, <1>6 DEF TypeOK, DbOK, DbType, BgOK

\* An error: the compaction that a flush interrupted goes on, other work ends.
LEMMA ErrorIs ==
    ASSUME StoreInv, db.state \in Running, bg.pc # "idle", BackgroundError(db)
    PROVE  /\ DbOK' /\ BgOK' /\ wr' = Signalled /\ db'.bgError = TRUE
           /\ db'.state = db.state /\ db'.mem = db.mem /\ db'.imm = db.imm
           /\ db'.logfile = db.logfile /\ db'.manifest = db.manifest
           /\ db'.lastSeq = db.lastSeq /\ db'.logNumber = db.logNumber
           /\ db'.version = db.version /\ db'.next = db.next
           /\ \/ /\ Nested /\ bg'.pc = "merge" /\ bg'.out = 0 /\ bg'.inputs = bg.inputs
                 /\ bg'.merged = bg.merged /\ db'.pending = db.pending \ {bg.out}
                 /\ db'.scheduled = db.scheduled
              \/ ~Nested /\ bg' = NoWork
<1>1. /\ db \in DbType /\ db.pending \in SUBSET Nat /\ BgOK
    BY WorkIs
<1>2. CASE Nested
  <2>1. /\ db' = [db EXCEPT !.bgError = TRUE, !.pending = @ \ {bg.out}]
        /\ bg' = [bg EXCEPT !.pc = "merge", !.out = 0, !.edit = NoEdit] /\ wr' = Signalled
      BY <1>2 DEF BackgroundError, BackToMerge
  <2>2. NoEdit \in Edits /\ "merge" \in {"idle", "build", "merge"} \cup Logging
      BY DEF NoEdit, Edits
  <2>3. BgOK'
      BY <1>1, <2>1, <2>2 DEF BgOK
  <2>4. DbOK'
      BY <1>1, <2>1 DEF DbOK, DbType
  <2>. QED
      BY <1>1, <1>2, <2>1, <2>3, <2>4 DEF DbType, BgOK
<1>3. CASE ~Nested
  <2>. DEFINE d == [db EXCEPT !.bgError = TRUE, !.pending = @ \ {bg.out, bg.merged}]
              e == [d EXCEPT !.scheduled = FALSE]
  <2>1. db' = MaybeScheduleCompaction(e) /\ bg' = NoWork /\ wr' = Signalled
      BY <1>3 DEF BackgroundError, EndBackground
  <2>2. d \in DbType
      BY <1>1 DEF DbType
  <2>3. e \in DbType
      BY <2>2 DEF DbType
  <2>4. /\ e.state = db.state /\ e.mem = db.mem /\ e.imm = db.imm /\ e.logfile = db.logfile
        /\ e.manifest = db.manifest /\ e.lastSeq = db.lastSeq /\ e.logNumber = db.logNumber
        /\ e.version = db.version /\ e.next = db.next /\ e.bgError = TRUE
      BY <1>1 DEF DbType
  <2>. HIDE DEF e
  <2>5. BgOK'
      BY <2>1 DEF BgOK, NoWork, NoEdit, Edits
  <2>. QED
      BY <1>3, <2>1, <2>3, <2>4, <2>5, ScheduleIs DEF DbOK
<1>. QED
    BY <1>2, <1>3

\* A step of the thread that fails and leaves the MANIFEST and the tables
\* that are needed alone.
LEMMA ErrorKeeps ==
    ASSUME StoreInv, db.state \in Running, bg.pc # "idle", BackgroundError(db),
           UNCHANGED <<logs, current, queue, lead>>, SameEdits, SameHist,
           TablesOK', NamedKept,
           \A t \in DOMAIN tables : t \in DOMAIN tables'
    PROVE  StoreInv'
<1>1. /\ DbOK' /\ BgOK' /\ wr' = Signalled /\ db'.bgError = TRUE
      /\ db'.state = db.state /\ db'.mem = db.mem /\ db'.imm = db.imm
      /\ db'.logfile = db.logfile /\ db'.manifest = db.manifest
      /\ db'.lastSeq = db.lastSeq /\ db'.logNumber = db.logNumber
      /\ db'.version = db.version /\ db'.next = db.next
      /\ \/ /\ Nested /\ bg'.pc = "merge" /\ bg'.out = 0 /\ bg'.inputs = bg.inputs
            /\ bg'.merged = bg.merged /\ db'.pending = db.pending \ {bg.out}
            /\ db'.scheduled = db.scheduled
         \/ ~Nested /\ bg' = NoWork
    BY ErrorIs
<1>3. db.next <= db'.next
    BY <1>1, WorkIs
<1>4. Steady /\ Untouched
    BY <1>1, <1>3 DEF Steady, Untouched, SameHist
<1>5. /\ Recs' = Recs /\ Prefixes' = Prefixes /\ ManifestsOK' /\ Numbers'
      /\ (\A k \in Prefixes' : Follows(k)') /\ Pool' \subseteq Pool
      /\ (\A t \in db.version : t \in DOMAIN tables' /\ tables'[t] = tables[t])
    BY <1>4, NamedStay
<1>6. InStep /\ Background /\ EditAtHand /\ bg.pc \in {"idle", "build", "merge"} \cup Logging
    BY RunningIs, WorkIs
<1>7. CASE ~Nested /\ bg' = NoWork
  <2>1. bg'.pc = "idle" /\ bg'.out = 0 /\ bg'.merged = 0 /\ bg'.inputs = {}
      BY <1>7 DEF NoWork
  <2>2. InStep' /\ Background' /\ EditAtHand'
      BY <2>1, <1>1, <1>7 DEF InStep, Background, EditAtHand, Logging
  <2>. QED
      BY <2>2, <1>4, <1>5, WorkStepKeeps
<1>8. CASE /\ Nested /\ bg'.pc = "merge" /\ bg'.out = 0 /\ bg'.inputs = bg.inputs
           /\ bg'.merged = bg.merged /\ db'.pending = db.pending \ {bg.out}
           /\ db'.scheduled = db.scheduled
  <2>1. bg.out # 0 /\ bg.merged # 0 /\ bg.out # bg.merged /\ bg.pc # "merge"
      BY <1>6, <1>8 DEF Nested, Background
  <2>2. db.version \subseteq Version(Len(Recs))
    <3>1. CASE bg.pc \in {"build", "log"}
        BY <1>6, <3>1 DEF InStep
    <3>2. CASE bg.pc \in {"syncEdit", "install"}
      <4>1. bg.edit.del = {}
          BY <1>6, <2>1, <3>2 DEF EditAtHand, Logging
      <4>. QED
          BY <1>6, <3>2, <4>1 DEF InStep, Installed
    <3>. QED
        BY <3>1, <3>2, <2>1, <1>6 DEF Logging
  <2>3. InStep'
      BY <2>2, <1>1, <1>5, <1>8 DEF InStep, Version
  <2>4. Background'
    <3>1. /\ bg.merged \in DOMAIN tables /\ bg.merged \in db.pending /\ bg.merged < db.next
          /\ bg.inputs \subseteq db.version /\ bg.merged \notin db.version
          /\ Unnamed(bg.merged) /\ db.scheduled
        BY <1>6, <2>1 DEF Background
    <3>. QED
        BY <3>1, <2>1, <1>1, <1>5, <1>8 DEF Background, Unnamed, Logging
  <2>5. EditAtHand'
      BY <1>8 DEF EditAtHand, Logging
  <2>. QED
      BY <2>3, <2>4, <2>5, <1>4, <1>5, WorkStepKeeps
<1>. QED
    BY <1>1, <1>7, <1>8

LEMMA BackgroundCallKeeps ==
    ASSUME StoreInv, db.state \in Running, BackgroundCall
    PROVE  StoreInv'
<1>1. /\ db.scheduled /\ bg.pc = "idle" /\ bg = NoWork
      /\ UNCHANGED <<logs, manifests, current, queue, lead, hist>>
      /\ tables' = IF bg'.pc = "merge" THEN Put(tables, db.next, {}) ELSE tables
    BY RunningIs DEF BackgroundCall, Background
<1>2. /\ db \in DbType /\ db.next \in Nat /\ db.next > 0 /\ db.pending \in SUBSET Nat
      /\ db.version \in SUBSET Nat /\ \A t : ~Unnamed(t) => t \in Nat /\ t < db.next
      /\ HistOK /\ TablesOK /\ InStep
    BY WorkIs, RunningIs
<1>3. Unnamed(db.next)
    BY <1>2
<1>4. HistOK'
    BY <1>1, <1>2 DEF HistOK
<1>5. CASE EndBackground(db)
  <2>. DEFINE e == [db EXCEPT !.scheduled = FALSE]
  <2>1. db' = MaybeScheduleCompaction(e) /\ bg' = NoWork /\ wr' = Signalled
      BY <1>5 DEF EndBackground
  <2>2. e \in DbType
      BY <1>2 DEF DbType
  <2>3. /\ e.state = db.state /\ e.mem = db.mem /\ e.imm = db.imm /\ e.logfile = db.logfile
        /\ e.manifest = db.manifest /\ e.lastSeq = db.lastSeq /\ e.logNumber = db.logNumber
        /\ e.version = db.version /\ e.next = db.next /\ e.bgError = db.bgError
      BY <1>2 DEF DbType
  <2>. HIDE DEF e
  <2>4. /\ DbOK' /\ db'.state = db.state /\ db'.mem = db.mem /\ db'.imm = db.imm
        /\ db'.logfile = db.logfile /\ db'.manifest = db.manifest
        /\ db'.lastSeq = db.lastSeq /\ db'.logNumber = db.logNumber
        /\ db'.version = db.version /\ db'.next = db.next /\ db'.bgError = db.bgError
      BY <2>1, <2>2, <2>3, ScheduleIs DEF DbOK
  <2>5. bg'.pc = "idle" /\ bg'.out = 0 /\ bg'.merged = 0 /\ bg'.inputs = {} /\ BgOK'
      BY <2>1 DEF NoWork, BgOK, NoEdit, Edits
  <2>6. tables' = tables /\ TablesOK'
      BY <1>1, <1>2, <2>5 DEF TablesOK
  <2>7. Steady /\ Untouched
      BY <1>1, <1>2, <1>4, <2>1, <2>4, <2>5, <2>6 DEF Steady, Untouched
  <2>8. /\ Recs' = Recs /\ Prefixes' = Prefixes /\ ManifestsOK' /\ Numbers'
        /\ (\A k \in Prefixes' : Follows(k)') /\ Pool' \subseteq Pool
        /\ (\A t \in db.version : t \in DOMAIN tables' /\ tables'[t] = tables[t])
      BY <1>1, <2>6, <2>7, NamedStay DEF NamedKept, SameEdits
  <2>9. InStep' /\ Background' /\ EditAtHand'
      BY <1>1, <1>2, <2>1, <2>4, <2>5, <2>8
         DEF InStep, Background, EditAtHand, Logging, Version
  <2>. QED
      BY <2>7, <2>8, <2>9, WorkStepKeeps
<1>6. CASE /\ ~Halted /\ db.imm # {} /\ BeginFlush(NoWork) /\ UNCHANGED wr
  <2>1. /\ bg' = [NoWork EXCEPT !.pc = "build", !.out = db.next]
        /\ db' = [db EXCEPT !.next = @ + 1, !.pending = @ \cup {db.next}]
      BY <1>6 DEF BeginFlush
  <2>2. DbOK'
    <3>1. db.next + 1 \in Nat /\ db.pending \cup {db.next} \in SUBSET Nat
        BY <1>2
    <3>. QED
        BY <1>2, <2>1, <3>1 DEF DbOK, DbType
  <2>3. /\ db'.state = db.state /\ db'.mem = db.mem /\ db'.imm = db.imm
        /\ db'.logfile = db.logfile /\ db'.manifest = db.manifest
        /\ db'.lastSeq = db.lastSeq /\ db'.logNumber = db.logNumber
        /\ db'.version = db.version /\ db'.next = db.next + 1 /\ db'.bgError = db.bgError
        /\ db'.scheduled = db.scheduled
      BY <1>2, <2>1 DEF DbType
  <2>4. /\ bg'.pc = "build" /\ bg'.out = db.next /\ bg'.merged = 0 /\ bg'.inputs = {} /\ BgOK'
    <3>1. NoEdit \in Edits /\ {} \in SUBSET Nat
        BY DEF NoEdit, Edits
    <3>2. bg' = [pc |-> "build", out |-> db.next, edit |-> NoEdit, inputs |-> {}, merged |-> 0]
        BY <2>1 DEF NoWork
    <3>. QED
        BY <1>2, <3>1, <3>2 DEF BgOK
  <2>5. tables' = tables /\ TablesOK'
      BY <1>1, <1>2, <2>4 DEF TablesOK
  <2>6. Steady /\ Untouched
      BY <1>1, <1>2, <1>4, <1>6, <2>2, <2>3, <2>4, <2>5 DEF Steady, Untouched
  <2>7. /\ Recs' = Recs /\ Prefixes' = Prefixes /\ ManifestsOK' /\ Numbers'
        /\ (\A k \in Prefixes' : Follows(k)') /\ Pool' \subseteq Pool
        /\ (\A t \in db.version : t \in DOMAIN tables' /\ tables'[t] = tables[t])
      BY <1>1, <2>5, <2>6, NamedStay DEF NamedKept, SameEdits
  <2>8. ~db.bgError
      BY <1>6 DEF Halted
  <2>9. InStep'
      BY <1>1, <1>2, <2>3, <2>4, <2>7, <2>8 DEF InStep, Version
  <2>10. Background'
      BY <1>1, <1>2, <1>3, <1>6, <2>3, <2>4, <2>7 DEF Background, Unnamed, Logging
  <2>11. EditAtHand'
      BY <2>4 DEF EditAtHand, Logging
  <2>. QED
      BY <2>6, <2>7, <2>9, <2>10, <2>11, WorkStepKeeps
<1>7. CASE /\ ~Halted /\ db.imm = {}
           /\ \E inputs \in SUBSET db.version :
                 bg' = [NoWork EXCEPT !.pc = "merge", !.inputs = inputs, !.merged = db.next]
           /\ db' = [db EXCEPT !.next = @ + 1, !.pending = @ \cup {db.next}]
           /\ UNCHANGED wr
  <2>1. PICK inputs \in SUBSET db.version :
            bg' = [NoWork EXCEPT !.pc = "merge", !.inputs = inputs, !.merged = db.next]
      BY <1>7
  <2>2. DbOK'
    <3>1. db.next + 1 \in Nat /\ db.pending \cup {db.next} \in SUBSET Nat
        BY <1>2
    <3>. QED
        BY <1>2, <1>7, <3>1 DEF DbOK, DbType
  <2>3. /\ db'.state = db.state /\ db'.mem = db.mem /\ db'.imm = db.imm
        /\ db'.logfile = db.logfile /\ db'.manifest = db.manifest
        /\ db'.lastSeq = db.lastSeq /\ db'.logNumber = db.logNumber
        /\ db'.version = db.version /\ db'.next = db.next + 1 /\ db'.bgError = db.bgError
        /\ db'.scheduled = db.scheduled /\ db'.pending = db.pending \cup {db.next}
      BY <1>2, <1>7 DEF DbType
  <2>4. /\ bg'.pc = "merge" /\ bg'.out = 0 /\ bg'.merged = db.next /\ bg'.inputs = inputs
      BY <2>1 DEF NoWork
  <2>5. BgOK'
    <3>1. inputs \in SUBSET Nat /\ NoEdit \in Edits
        BY <1>2 DEF NoEdit, Edits
    <3>2. bg' = [pc |-> "merge", out |-> 0, edit |-> NoEdit, inputs |-> inputs,
                 merged |-> db.next]
        BY <2>1 DEF NoWork
    <3>. QED
        BY <1>2, <3>1, <3>2 DEF BgOK
  <2>6. /\ tables' = Put(tables, db.next, {}) /\ DOMAIN tables' = DOMAIN tables \cup {db.next}
        /\ \A t \in DOMAIN tables : t # db.next => tables'[t] = tables[t]
      BY <1>1, <2>4 DEF Put
  <2>7. TablesOK'
      BY <1>2, <2>6 DEF TablesOK, Put
  <2>8. Steady /\ Untouched
      BY <1>1, <1>2, <1>4, <1>7, <2>2, <2>3, <2>5, <2>7 DEF Steady, Untouched
  <2>9. NamedKept
      BY <1>3, <2>6 DEF NamedKept
  <2>10. /\ Recs' = Recs /\ Prefixes' = Prefixes /\ ManifestsOK' /\ Numbers'
         /\ (\A k \in Prefixes' : Follows(k)') /\ Pool' \subseteq Pool
         /\ (\A t \in db.version : t \in DOMAIN tables' /\ tables'[t] = tables[t])
      BY <1>1, <2>8, <2>9, NamedStay DEF SameEdits
  <2>11. ~db.bgError
      BY <1>7 DEF Halted
  <2>12. InStep'
      BY <1>1, <1>2, <2>3, <2>4, <2>10, <2>11 DEF InStep, Version
  <2>13. Background'
      BY <1>1, <1>2, <1>3, <2>3, <2>4, <2>6, <2>10 DEF Background, Unnamed, Logging
  <2>14. EditAtHand'
      BY <2>4 DEF EditAtHand, Logging
  <2>. QED
      BY <2>8, <2>10, <2>12, <2>13, <2>14, WorkStepKeeps
<1>. QED
    BY <1>5, <1>6, <1>7 DEF BackgroundCall, None

LEMMA FlushFirstKeeps ==
    ASSUME StoreInv, db.state \in Running, FlushFirst
    PROVE  StoreInv'
<1>1. /\ bg.pc = "merge" /\ db.imm # {}
      /\ bg' = [bg EXCEPT !.pc = "build", !.out = db.next]
      /\ db' = [db EXCEPT !.next = @ + 1, !.pending = @ \cup {db.next}]
      /\ UNCHANGED <<logs, manifests, tables, current, queue, wr, lead, hist>>
    BY DEF FlushFirst, BeginFlush, disk, None
<1>2. /\ db \in DbType /\ db.next \in Nat /\ db.next > 0 /\ db.pending \in SUBSET Nat
      /\ (\A t : ~Unnamed(t) => t \in Nat /\ t < db.next)
      /\ HistOK /\ TablesOK /\ BgOK /\ InStep /\ Background /\ bg.merged \in Nat
    BY WorkIs, RunningIs
<1>3. Unnamed(db.next)
    BY <1>2
<1>4. HistOK' /\ TablesOK'
    BY <1>1, <1>2 DEF HistOK, TablesOK
<1>5. DbOK'
  <2>1. db.next + 1 \in Nat /\ db.pending \cup {db.next} \in SUBSET Nat
      BY <1>2
  <2>. QED
      BY <1>1, <1>2, <2>1 DEF DbOK, DbType
<1>6. /\ db'.state = db.state /\ db'.mem = db.mem /\ db'.imm = db.imm
      /\ db'.logfile = db.logfile /\ db'.manifest = db.manifest
      /\ db'.lastSeq = db.lastSeq /\ db'.logNumber = db.logNumber
      /\ db'.version = db.version /\ db'.next = db.next + 1 /\ db'.bgError = db.bgError
      /\ db'.scheduled = db.scheduled /\ db'.pending = db.pending \cup {db.next}
    BY <1>1, <1>2 DEF DbType
<1>7. /\ bg'.pc = "build" /\ bg'.out = db.next /\ bg'.merged = bg.merged
      /\ bg'.inputs = bg.inputs /\ BgOK'
    BY <1>1, <1>2 DEF BgOK
<1>8. Steady /\ Untouched
    BY <1>1, <1>2, <1>4, <1>5, <1>6, <1>7 DEF Steady, Untouched
<1>9. /\ Recs' = Recs /\ Prefixes' = Prefixes /\ ManifestsOK' /\ Numbers'
      /\ (\A k \in Prefixes' : Follows(k)') /\ Pool' \subseteq Pool
      /\ (\A t \in db.version : t \in DOMAIN tables' /\ tables'[t] = tables[t])
    BY <1>1, <1>8, NamedStay DEF NamedKept, SameEdits
<1>10. InStep'
    BY <1>1, <1>2, <1>6, <1>7, <1>9 DEF InStep, Version
<1>11. Background'
  <2>1. /\ bg.merged # 0 /\ bg.merged \in DOMAIN tables /\ bg.merged \in db.pending
        /\ bg.merged < db.next /\ bg.inputs \subseteq db.version
        /\ bg.merged \notin db.version /\ Unnamed(bg.merged) /\ db.scheduled
      BY <1>1, <1>2 DEF Background
  <2>2. db.next # bg.merged /\ bg.merged < db'.next /\ db.next < db'.next
      BY <2>1, <1>2, <1>6
  <2>. QED
      BY <2>1, <2>2, <1>1, <1>2, <1>3, <1>6, <1>7, <1>9 DEF Background, Unnamed, Logging
<1>12. EditAtHand'
    BY <1>7 DEF EditAtHand, Logging
<1>. QED
    BY <1>8, <1>9, <1>10, <1>11, <1>12, WorkStepKeeps

\* No item of a version that a recovery may find is newer than LastSequence.
LEMMA VersionUpTo ==
    ASSUME TypeOK, Numbers, NEW k \in Prefixes, Follows(k)
    PROVE  UpTo(TableItems(Version(k), tables), db.lastSeq)
<1>1. /\ UpTo(TableItems(Version(k), tables), Recs[k].seq) /\ Recs[k].seq \in Nat
      /\ Recs[k].seq <= db.lastSeq /\ db.lastSeq \in Nat
      /\ TableItems(Version(k), tables) \in SUBSET Item
    BY DEF Follows, TypeOK, DbOK, DbType, TableItems, TablesOK
<1>. QED
    BY <1>1 DEF UpTo, Item

LEMMA BuildTableKeeps ==
    ASSUME StoreInv, db.state \in Running, BuildTable
    PROVE  StoreInv'
<1>1. bg.pc = "build" /\ UNCHANGED <<logs, manifests, current, queue, lead>>
    BY DEF BuildTable
<1>2. /\ db \in DbType /\ db.next \in Nat /\ db.lastSeq \in Nat /\ db.logfile \in Nat
      /\ db.logNumber \in Nat /\ db.pending \in SUBSET Nat /\ db.imm \in SUBSET Item
      /\ bg.out \in Nat /\ bg.merged \in Nat /\ current \in Nat /\ current < db.next
      /\ (\A t : ~Unnamed(t) => t \in Nat /\ t < db.next)
      /\ HistOK /\ TablesOK /\ BgOK /\ InStep /\ Background /\ TypeOK /\ Numbers /\ Numbered
      /\ \A k \in Prefixes : Follows(k)
    BY WorkIs, RunningIs
<1>3. /\ bg.out # 0 /\ Unnamed(bg.out) /\ bg.out < db.next /\ db.imm # {}
      /\ bg.out # bg.merged /\ db.scheduled
    BY <1>1, <1>2 DEF Background
<1>4. ASSUME tables' = Put(tables, bg.out, db.imm)
      PROVE  /\ DOMAIN tables' = DOMAIN tables \cup {bg.out} /\ tables'[bg.out] = db.imm
             /\ TablesOK' /\ NamedKept
  <2>1. /\ DOMAIN tables' = DOMAIN tables \cup {bg.out} /\ tables'[bg.out] = db.imm
        /\ \A t \in DOMAIN tables : t # bg.out => tables'[t] = tables[t]
      BY <1>4 DEF Put
  <2>. QED
      BY <1>2, <1>3, <2>1 DEF TablesOK, NamedKept
<1>5. CASE /\ tables' = Put(tables, bg.out, db.imm) /\ BackgroundError(db)
           /\ UNCHANGED hist
    BY <1>1, <1>2, <1>4, <1>5, ErrorKeeps, FaultIs DEF SameEdits
<1>6. CASE hist' = Fault /\ BackgroundError(db) /\ UNCHANGED tables
  <2>1. NamedKept /\ TablesOK'
      BY <1>2, <1>6 DEF NamedKept, TablesOK
  <2>. QED
      BY <1>1, <1>2, <1>6, <2>1, ErrorKeeps, FaultIs DEF SameEdits
<1>7. CASE /\ tables' = Put(tables, bg.out, db.imm)
           /\ db' = [db EXCEPT !.pending = @ \ {bg.out}]
           /\ bg' = [bg EXCEPT !.pc = "log",
                      !.edit = Edit({bg.out}, {}, db.logfile, db.next, db.lastSeq)]
           /\ UNCHANGED <<wr, hist>>
  <2>. DEFINE e == Edit({bg.out}, {}, db.logfile, db.next, db.lastSeq)
  <2>1. /\ DOMAIN tables' = DOMAIN tables \cup {bg.out} /\ tables'[bg.out] = db.imm
        /\ TablesOK' /\ NamedKept
      BY <1>4, <1>7
  <2>2. DbOK'
    <3>1. db.pending \ {bg.out} \in SUBSET Nat
        BY <1>2
    <3>. QED
        BY <1>2, <1>7, <3>1 DEF DbOK, DbType
  <2>3. /\ db'.state = db.state /\ db'.mem = db.mem /\ db'.imm = db.imm
        /\ db'.logfile = db.logfile /\ db'.manifest = db.manifest
        /\ db'.lastSeq = db.lastSeq /\ db'.logNumber = db.logNumber
        /\ db'.version = db.version /\ db'.next = db.next /\ db'.bgError = db.bgError
        /\ db'.scheduled = db.scheduled /\ db'.pending = db.pending \ {bg.out}
      BY <1>2, <1>7 DEF DbType
  <2>4. /\ e \in Edits /\ e.add = {bg.out} /\ e.del = {} /\ e.log = db.logfile
        /\ e.next = db.next /\ e.seq = db.lastSeq
      BY <1>2 DEF Edit, Edits
  <2>5. /\ bg'.pc = "log" /\ bg'.out = bg.out /\ bg'.merged = bg.merged
        /\ bg'.inputs = bg.inputs /\ bg'.edit = e /\ BgOK'
    <3>1. "log" \in {"idle", "build", "merge"} \cup Logging /\ bg' = [bg EXCEPT !.pc = "log", !.edit = e]
        BY <1>7 DEF Logging
    <3>. HIDE DEF e
    <3>. QED
        BY <1>2, <2>4, <3>1 DEF BgOK
  <2>. HIDE DEF e
  <2>6. HistOK' /\ db.next <= db'.next
      BY <1>2, <1>7, <2>3 DEF HistOK, Untouched
  <2>7. Steady /\ Untouched
      BY <1>1, <1>7, <2>1, <2>2, <2>3, <2>5, <2>6 DEF Steady, Untouched
  <2>8. /\ Recs' = Recs /\ Prefixes' = Prefixes /\ ManifestsOK' /\ Numbers'
        /\ (\A k \in Prefixes' : Follows(k)') /\ Pool' \subseteq Pool
        /\ (\A t \in db.version : t \in DOMAIN tables' /\ tables'[t] = tables[t])
        /\ \A k \in Prefixes : /\ Version(k)' = Version(k)
                               /\ TableItems(Version(k), tables') = TableItems(Version(k), tables)
      BY <1>1, <2>1, <2>7, NamedStay DEF SameEdits
  <2>9. InStep'
      BY <1>1, <1>2, <2>3, <2>5, <2>8 DEF InStep, Version
  <2>10. Background'
    <3>1. bg.merged # 0 =>
            /\ bg.merged \in DOMAIN tables /\ bg.merged \in db.pending /\ bg.merged < db.next
            /\ bg.inputs \subseteq db.version /\ bg.merged \notin db.version
            /\ Unnamed(bg.merged)
        BY <1>2, <1>3 DEF Background
    <3>2. bg.merged = 0 => bg.inputs = {}
        BY <1>2 DEF Background
    <3>. QED
        BY <3>1, <3>2, <1>3, <2>1, <2>3, <2>5, <2>8 DEF Background, Unnamed, Logging
  <2>11. EditAtHand'
    <3>1. Len(Recs) \in Prefixes /\ current \in DOMAIN manifests /\ Recs \in Seq(Edits)
        BY <1>2, RecsType DEF Numbers
    <3>2. db.logfile < db.next
        BY <1>2 DEF Numbers
    <3>3. UpTo(TableItems({bg.out}, tables'), db.lastSeq)
      <4>1. UpTo(db.imm, db.lastSeq)
          BY <1>2 DEF Numbered, UpTo, Contents
      <4>. QED
          BY <4>1, <2>1 DEF TableItems, UpTo
    <3>4. UpTo(TableItems(Version(Len(Recs)), tables), db.lastSeq)
        BY <1>2, <3>1, VersionUpTo
    <3>5. \A t \in Version(Len(Recs)) : t < db.next
        BY <1>2 DEF Version, VersionAt, Unnamed
    <3>6. \A k \in Prefixes : Recs[k].next <= db.next
        BY <1>2 DEF Follows
    <3>7. /\ e.log \in Nat /\ e.next \in Nat /\ e.seq \in Nat /\ e.log < e.next /\ current < e.next
          /\ e.next <= db'.next /\ e.seq <= db'.lastSeq
        BY <1>2, <2>3, <2>4, <3>2
    <3>8. /\ \A t \in e.add : t < db'.next /\ t < e.next
          /\ e.add \subseteq DOMAIN tables' /\ \A t \in e.add : Unnamed(t)'
        BY <1>3, <2>1, <2>3, <2>4, <2>8 DEF Unnamed
    <3>9. UpTo(TableItems(e.add, tables'), e.seq)
        BY <2>4, <3>3
    <3>10. /\ UpTo(TableItems(Version(Len(Recs)), tables'), e.seq)
           /\ \A t \in Version(Len(Recs)) : t < e.next
           /\ \A k \in Prefixes : Recs[k].next <= e.next
        BY <2>4, <2>8, <3>1, <3>4, <3>5, <3>6
    <3>. QED
        BY <3>7, <3>8, <3>9, <3>10, <1>1, <1>3, <2>1, <2>3, <2>4, <2>5, <2>8
           DEF EditAtHand, Version
  <2>. QED
      BY <2>7, <2>8, <2>9, <2>10, <2>11, WorkStepKeeps
<1>. QED
    BY <1>5, <1>6, <1>7 DEF BuildTable

LEMMA FinishMergeKeeps ==
    ASSUME StoreInv, db.state \in Running, FinishMerge
    PROVE  StoreInv'
<1>1. bg.pc = "merge" /\ UNCHANGED <<logs, manifests, current, queue, lead>>
    BY DEF FinishMerge
<1>2. /\ db \in DbType /\ db.next \in Nat /\ db.lastSeq \in Nat /\ db.logfile \in Nat
      /\ db.logNumber \in Nat /\ db.pending \in SUBSET Nat /\ db.version \in SUBSET Nat
      /\ bg.inputs \in SUBSET Nat
      /\ bg.out \in Nat /\ bg.merged \in Nat /\ current \in Nat /\ current < db.next
      /\ (\A t : ~Unnamed(t) => t \in Nat /\ t < db.next)
      /\ HistOK /\ TablesOK /\ BgOK /\ InStep /\ Background /\ TypeOK /\ Numbers /\ Numbered
      /\ \A k \in Prefixes : Follows(k)
    BY WorkIs, RunningIs
<1>3. /\ bg.merged # 0 /\ bg.merged \in DOMAIN tables /\ bg.merged \in db.pending
      /\ bg.merged < db.next /\ bg.inputs \subseteq db.version
      /\ bg.merged \notin db.version /\ Unnamed(bg.merged) /\ db.scheduled
    BY <1>1, <1>2 DEF Background
<1>4. CASE BackgroundError(db) /\ tables' = tables /\ (hist' = hist \/ hist' = Fault)
  <2>1. NamedKept /\ TablesOK'
      BY <1>2, <1>4 DEF NamedKept, TablesOK
  <2>. QED
      BY <1>1, <1>2, <1>4, <2>1, ErrorKeeps, FaultIs DEF SameEdits
<1>5. CASE /\ tables' = [t \in DOMAIN tables |-> IF t # bg.merged THEN tables[t]
                           ELSE UNION {tables[u] : u \in bg.inputs \cap DOMAIN tables}]
           /\ bg' = [bg EXCEPT !.pc = "log", !.out = 0,
                      !.edit = Edit({bg.merged}, bg.inputs, db.logNumber, db.next,
                                    db.lastSeq)]
           /\ UNCHANGED <<db, wr, hist>>
  <2>. DEFINE e == Edit({bg.merged}, bg.inputs, db.logNumber, db.next, db.lastSeq)
              items == TableItems(bg.inputs, tables)
  <2>1. bg.inputs \subseteq DOMAIN tables /\ bg.merged \notin bg.inputs
      BY <1>2, <1>3 DEF Numbers
  <2>2. items \in SUBSET Item /\ items = UNION {tables[u] : u \in bg.inputs \cap DOMAIN tables}
      BY <1>2, <2>1 DEF TableItems, TablesOK
  <2>3. items \subseteq Contents
      BY <1>3 DEF TableItems, Contents
  <2>. HIDE DEF items
  <2>4. /\ DOMAIN tables' = DOMAIN tables /\ tables'[bg.merged] = items
        /\ \A t \in DOMAIN tables : t # bg.merged => tables'[t] = tables[t]
      BY <1>3, <1>5, <2>2
  <2>5. TablesOK' /\ NamedKept
      BY <1>2, <1>3, <2>2, <2>4 DEF TablesOK, NamedKept
  <2>6. TableItems(bg.inputs, tables') = items
    <3>1. \A t \in bg.inputs : tables'[t] = tables[t]
        BY <2>1, <2>4
    <3>. QED
        BY <3>1 DEF TableItems, items
  <2>7. /\ e \in Edits /\ e.add = {bg.merged} /\ e.del = bg.inputs /\ e.log = db.logNumber
        /\ e.next = db.next /\ e.seq = db.lastSeq
      BY <1>2 DEF Edit, Edits
  <2>8. /\ bg'.pc = "log" /\ bg'.out = 0 /\ bg'.merged = bg.merged
        /\ bg'.inputs = bg.inputs /\ bg'.edit = e /\ BgOK'
    <3>1. "log" \in {"idle", "build", "merge"} \cup Logging
          /\ bg' = [bg EXCEPT !.pc = "log", !.out = 0, !.edit = e]
        BY <1>5 DEF Logging
    <3>. HIDE DEF e
    <3>. QED
        BY <1>2, <2>7, <3>1 DEF BgOK
  <2>. HIDE DEF e
  <2>9. HistOK' /\ DbOK' /\ db.next <= db'.next
      BY <1>2, <1>5 DEF HistOK, DbOK
  <2>10. Steady /\ Untouched
      BY <1>1, <1>5, <2>5, <2>8, <2>9 DEF Steady, Untouched
  <2>11. /\ Recs' = Recs /\ Prefixes' = Prefixes /\ ManifestsOK' /\ Numbers'
         /\ (\A k \in Prefixes' : Follows(k)') /\ Pool' \subseteq Pool
         /\ (\A t \in db.version : t \in DOMAIN tables' /\ tables'[t] = tables[t])
         /\ \A k \in Prefixes : /\ Version(k)' = Version(k)
                                /\ TableItems(Version(k), tables') = TableItems(Version(k), tables)
      BY <1>1, <2>5, <2>10, NamedStay DEF SameEdits
  <2>12. InStep'
      BY <1>1, <1>2, <1>5, <2>8, <2>11 DEF InStep, Version
  <2>13. Background'
      BY <1>3, <1>5, <2>4, <2>8, <2>11 DEF Background, Unnamed, Logging
  <2>14. EditAtHand'
    <3>1. Len(Recs) \in Prefixes /\ current \in DOMAIN manifests /\ Recs \in Seq(Edits)
        BY <1>2, RecsType DEF Numbers
    <3>2. db.logNumber < db.next
        BY <1>2 DEF Numbers
    <3>3. UpTo(items, db.lastSeq)
        BY <1>2, <2>3 DEF Numbered, UpTo
    <3>4. TableItems({bg.merged}, tables') = items
        BY <2>4 DEF TableItems
    <3>5. UpTo(TableItems(Version(Len(Recs)), tables), db.lastSeq)
        BY <1>2, <3>1, VersionUpTo
    <3>6. \A t \in Version(Len(Recs)) : t < db.next
        BY <1>2 DEF Version, VersionAt, Unnamed
    <3>7. \A k \in Prefixes : Recs[k].next <= db.next
        BY <1>2 DEF Follows
    <3>8. /\ e.log \in Nat /\ e.next \in Nat /\ e.seq \in Nat /\ e.log < e.next /\ current < e.next
          /\ e.next <= db'.next /\ e.seq <= db'.lastSeq
        BY <1>2, <1>5, <2>7, <3>2
    <3>9. /\ \A t \in e.add : t < db'.next /\ t < e.next
          /\ e.add \subseteq DOMAIN tables' /\ \A t \in e.add : Unnamed(t)'
        BY <1>3, <1>5, <2>4, <2>7, <2>11 DEF Unnamed
    <3>10. UpTo(TableItems(e.add, tables'), e.seq)
        BY <2>7, <3>3, <3>4
    <3>11. /\ UpTo(TableItems(Version(Len(Recs)), tables'), e.seq)
           /\ \A t \in Version(Len(Recs)) : t < e.next
           /\ \A k \in Prefixes : Recs[k].next <= e.next
        BY <2>7, <2>11, <3>1, <3>5, <3>6, <3>7
    <3>12. tables'[bg.merged] = TableItems(bg.inputs, tables')
        BY <2>4, <2>6
    <3>. QED
        BY <3>8, <3>9, <3>10, <3>11, <3>12, <1>1, <1>5, <2>7, <2>8, <2>11
           DEF EditAtHand, Version
  <2>. QED
      BY <2>10, <2>11, <2>12, <2>13, <2>14, WorkStepKeeps
<1>. QED
    BY <1>4, <1>5 DEF FinishMerge

\* The edit is in the MANIFEST: one more prefix, that says what the thread
\* is about to install.
EditLanded ==
    \E t \in BOOLEAN :
       manifests' = [manifests EXCEPT ![db.manifest] = Grown(@, <<bg.edit>>, t)]

LEMMA EditIs ==
    ASSUME StoreInv, db.state \in Running, bg.pc = "log", Untouched, EditLanded,
           tables' = tables
    PROVE  LET n == Len(Recs)
               v == Version(n)
           IN /\ Recs' = Append(Recs, bg.edit) /\ Len(Recs') = n + 1 /\ n \in Nat
              /\ Recs'[n + 1] = bg.edit /\ ManifestsOK'
              /\ VersionAt(Recs', n + 1) = (v \ bg.edit.del) \cup bg.edit.add
              /\ \A t : Unnamed(t)' <=> Unnamed(t) /\ t \notin bg.edit.add
              /\ Numbers' /\ (\A k \in Prefixes' : Follows(k)') /\ Pool' \subseteq Pool
<1>. DEFINE e == bg.edit
            n == Len(Recs)
            v == Version(n)
            w == (v \ e.del) \cup e.add
<1>1. /\ Numbers /\ (\A k \in Prefixes : Follows(k)) /\ InStep /\ Background /\ EditAtHand
      /\ Memtables /\ Numbered /\ Told /\ TypeOK /\ bg.pc \in Logging /\ ManifestsOK
    BY RunningIs DEF Logging, TypeOK
<1>2. /\ db.next \in Nat /\ db.lastSeq \in Nat /\ db.version \in SUBSET Nat
      /\ bg.inputs \in SUBSET Nat /\ e \in Edits /\ current \in Nat /\ current < db.next
      /\ (\A t : ~Unnamed(t) => t \in Nat /\ t < db.next)
      /\ current = db.manifest /\ current \in DOMAIN manifests
    BY <1>1, WorkIs DEF Numbers
<1>3. /\ Recs \in Seq(Edits) /\ n \in Nat /\ n \in Prefixes
      /\ manifests[current].synced \in Nat /\ manifests[current].synced <= n
      /\ manifests[current].synced >= 2 /\ manifests[current] \in Manifest
    BY <1>1, <1>2, RecsType DEF Numbers, ManifestsOK
<1>4. /\ e.add \subseteq DOMAIN tables /\ (\A t \in e.add : t < db.next /\ t < e.next)
      /\ e.log \in Nat /\ e.next \in Nat /\ e.seq \in Nat
      /\ e.log < e.next /\ current < e.next /\ e.next <= db.next /\ e.seq <= db.lastSeq
      /\ (bg.out # 0 => /\ e.add = {bg.out} /\ e.del = {} /\ e.log = db.logfile
                        /\ tables[bg.out] = db.imm)
      /\ (bg.out = 0 => /\ e.add = {bg.merged} /\ e.del = bg.inputs
                        /\ e.log = db.logNumber
                        /\ tables[bg.merged] = TableItems(bg.inputs, tables))
      /\ UpTo(TableItems(e.add, tables), e.seq)
      /\ (\A t \in e.add : Unnamed(t)) /\ UpTo(TableItems(v, tables), e.seq)
      /\ (\A t \in v : t < e.next) /\ (\A k \in Prefixes : Recs[k].next <= e.next)
    BY <1>1 DEF EditAtHand
<1>5. bg.inputs \subseteq db.version /\ db.version \subseteq v
  <2>1. bg.inputs \subseteq db.version
      BY <1>1 DEF Background
  <2>. QED
      BY <2>1, <1>1 DEF InStep
<1>0. PICK half \in BOOLEAN :
          manifests' = [manifests EXCEPT ![db.manifest] = Grown(@, <<bg.edit>>, half)]
    BY DEF EditLanded
<1>6. /\ DOMAIN manifests' = DOMAIN manifests
      /\ manifests'[current] = Grown(manifests[current], <<e>>, half)
      /\ \A k \in DOMAIN manifests : k # current => manifests'[k] = manifests[k]
    BY <1>0, <1>2
<1>7. /\ manifests'[current].recs = Append(Recs, e)
      /\ manifests'[current].synced = manifests[current].synced
      /\ manifests'[current] \in Manifest
  <2>1. <<e>> \in Seq(Edits) /\ Recs \o <<e>> = Append(Recs, e)
      BY <1>2, <1>3
  <2>2. /\ Grown(manifests[current], <<e>>, half).recs = Recs \o <<e>>
        /\ Grown(manifests[current], <<e>>, half).synced = manifests[current].synced
        /\ Grown(manifests[current], <<e>>, half) \in Manifest
      BY <2>1, <1>3, ManifestGrown, Zenon DEF Recs
  <2>. QED
      BY <2>1, <2>2, <1>6
<1>8. Recs' = Append(Recs, e) /\ current' = current
    BY <1>7 DEF Recs, Untouched, Steady
<1>. HIDE DEF e
<1>9. /\ Append(Recs, e) \in Seq(Edits) /\ Len(Append(Recs, e)) = n + 1
      /\ Append(Recs, e)[n + 1] = e /\ \A i \in 1..n : Append(Recs, e)[i] = Recs[i]
    BY <1>2, <1>3
<1>10. ManifestsOK'
  <2>1. manifests'[current] \in Manifest
      BY <1>7
  <2>2. manifests'[current].synced <= Len(manifests'[current].recs)
      BY <1>3, <1>7, <1>9
  <2>. QED
      BY <2>1, <2>2, <1>1, <1>6 DEF ManifestsOK
<1>11. e.add \cap Dels(Recs, n) = {} /\ e.add \cap e.del = {}
  <2>1. e.add \cap Dels(Recs, n) = {} /\ e.add \cap db.version = {}
      BY <1>4 DEF Unnamed
  <2>. QED
      BY <2>1, <1>4, <1>5
<1>12. /\ \A k \in 0..n : VersionAt(Append(Recs, e), k) = VersionAt(Recs, k)
       /\ VersionAt(Append(Recs, e), n + 1) = (VersionAt(Recs, n) \ e.del) \cup e.add
       /\ Adds(Append(Recs, e), n + 1) = Adds(Recs, n) \cup e.add
       /\ Dels(Append(Recs, e), n + 1) = Dels(Recs, n) \cup e.del
    BY <1>2, <1>3, <1>11, VersionAtAppend
<1>13. VersionAt(Recs', n + 1) = w /\ \A k \in 0..n : VersionAt(Recs', k) = VersionAt(Recs, k)
    BY <1>8, <1>12 DEF Version
<1>14. \A t : Unnamed(t)' <=> Unnamed(t) /\ t \notin e.add
  <2>1. db'.version = db.version
      BY DEF Untouched
  <2>2. e.del \subseteq db.version
      BY <1>4, <1>5
  <2>. QED
      BY <2>1, <2>2, <1>8, <1>9, <1>12 DEF Unnamed
<1>15. \A k : k \in Prefixes' <=> k \in Prefixes \/ k = n + 1
    BY <1>3, <1>7, <1>8, <1>9 DEF Prefixes
<1>. HIDE DEF v, w
<1>16. TableItems(w, tables) \subseteq Pool /\ TableItems(db.version, tables) \subseteq TableItems(w, tables)
       /\ w \subseteq DOMAIN tables /\ (\A t \in w : t < e.next)
       /\ UpTo(TableItems(w, tables), e.seq)
  <2>1. v \subseteq DOMAIN tables
      BY <1>1, <1>3 DEF Follows, v
  <2>2. TableItems(e.add, tables) \subseteq Contents
    <3>1. CASE bg.out # 0
        BY <3>1, <1>4 DEF TableItems, Contents
    <3>2. CASE bg.out = 0
        BY <3>2, <1>4, <1>5 DEF TableItems, Contents
    <3>. QED
        BY <3>1, <3>2
  <2>3. Contents \subseteq Pool
      BY <1>1, RunningIs, PoolType
  <2>4. TableItems(v, tables) \subseteq Pool
      BY <1>3 DEF Pool, v
  <2>5. TableItems(w, tables) \subseteq TableItems(v, tables) \cup TableItems(e.add, tables)
      BY DEF TableItems, w
  <2>6. TableItems(db.version, tables) \subseteq TableItems(w, tables)
    <3>1. CASE bg.out # 0
        BY <3>1, <1>4, <1>5 DEF TableItems, w
    <3>2. CASE bg.out = 0
      <4>1. SUFFICES ASSUME NEW t \in db.version
                     PROVE  tables[t] \subseteq TableItems(w, tables)
          BY DEF TableItems
      <4>2. CASE t \in bg.inputs
        <5>1. tables[t] \subseteq tables[bg.merged] /\ bg.merged \in w
            BY <3>2, <4>2, <1>4 DEF TableItems, w
        <5>. QED
            BY <5>1 DEF TableItems
      <4>3. CASE t \notin bg.inputs
        <5>1. t \in w
            BY <3>2, <4>1, <4>3, <1>4, <1>5 DEF w
        <5>. QED
            BY <5>1 DEF TableItems
      <4>. QED
          BY <4>2, <4>3
    <3>. QED
        BY <3>1, <3>2
  <2>7. w \subseteq DOMAIN tables /\ \A t \in w : t < e.next
      BY <2>1, <1>4 DEF w
  <2>8. UpTo(TableItems(w, tables), e.seq)
      BY <2>5, <1>4 DEF UpTo
  <2>. QED
      BY <2>2, <2>3, <2>4, <2>5, <2>6, <2>7, <2>8
<1>17. ASSUME NEW k \in Prefixes' PROVE Follows(k)'
  <2>0. /\ db'.version = db.version /\ db'.logNumber = db.logNumber /\ db'.imm = db.imm
        /\ db'.logfile = db.logfile /\ db'.lastSeq = db.lastSeq /\ db.next <= db'.next
        /\ db'.next \in Nat
      BY DEF Untouched, Steady, DbOK, DbType
  <2>1. CASE k \in Prefixes
    <3>1. Follows(k) /\ k \in 1..n
      <4>1. k \in 1..n
          BY <2>1, <1>3 DEF Prefixes
      <4>. QED
          BY <4>1, <1>1, <2>1
    <3>2. Recs'[k] = Recs[k] /\ Version(k)' = Version(k) /\ Recs'[Len(Recs')].next = e.next
        BY <3>1, <1>3, <1>8, <1>9, <1>13 DEF Version
    <3>3. Recs[k].next <= e.next /\ Recs[k].next <= db'.next
      <4>1. Recs[k].next \in Nat /\ Recs[k].next <= db.next
          BY <3>1 DEF Follows
      <4>2. Recs[k].next <= e.next
          BY <2>1, <1>4
      <4>. QED
          BY <2>0, <4>1, <4>2, <1>2
    <3>4. \/ Recs'[k].log = db'.logNumber
          \/ /\ Recs'[k].log = db'.logfile /\ db'.imm # {}
             /\ db'.imm \subseteq TableItems(Version(k)', tables')
        BY <2>0, <3>1, <3>2, <1>8 DEF Follows
    <3>. QED
        BY <2>0, <3>1, <3>2, <3>3, <3>4, <1>8 DEF Follows
  <2>2. CASE k = n + 1
    <3>1. Recs'[k] = e /\ Recs'[Len(Recs')] = e
        BY <2>2, <1>8, <1>9
    <3>2. Version(k)' = w
        BY <2>2, <1>13 DEF Version
    <3>3. e.next <= db'.next /\ e.next <= e.next
        BY <2>0, <1>2, <1>4
    <3>4. \/ e.log = db.logNumber
          \/ e.log = db.logfile /\ db.imm # {} /\ db.imm \subseteq TableItems(w, tables)
      <4>1. CASE bg.out # 0
        <5>1. db.imm # {} /\ bg.out \in w /\ tables[bg.out] = db.imm /\ e.log = db.logfile
            BY <4>1, <1>1, <1>4 DEF Background, w
        <5>. QED
            BY <5>1 DEF TableItems
      <4>2. CASE bg.out = 0
          BY <4>2, <1>4
      <4>. QED
          BY <4>1, <4>2
    <3>. HIDE DEF w
    <3>. QED
        BY <2>0, <3>1, <3>2, <3>3, <3>4, <1>4, <1>8, <1>16 DEF Follows
  <2>. QED
      BY <2>1, <2>2, <1>15, <1>17
<1>18. Numbers'
  <2>1. /\ db'.version = db.version /\ db'.logNumber = db.logNumber /\ logs' = logs
        /\ db'.logfile = db.logfile /\ db.next <= db'.next /\ db'.next \in Nat
        /\ db'.manifest = db.manifest /\ hist'.opened = hist.opened
      BY DEF Untouched, Steady, DbOK, DbType
  <2>2. \A t : ~Unnamed(t) \/ t \in e.add => t < db'.next
    <3>1. e.add \subseteq Nat
        BY <1>2 DEF Edits
    <3>. QED
        BY <3>1, <2>1, <1>2, <1>4
  <2>3. \A t \in Adds(Recs', Len(Recs')) \cup Dels(Recs', Len(Recs')) : t < db'.next
      BY <2>2, <1>14 DEF Unnamed
  <2>4. \A t \in db.version : t < db'.next
      BY <2>2 DEF Unnamed
  <2>5. db.manifest < db'.next /\ db.logfile < db'.next
      BY <2>1, <1>1, <1>2, WorkIs DEF Numbers
  <2>6. manifests'[current].synced >= 2 /\ current \in DOMAIN manifests'
      BY <1>2, <1>3, <1>6, <1>7
  <2>. QED
      BY <2>1, <2>3, <2>4, <2>5, <2>6, <1>1, <1>8 DEF Numbers
<1>19. Pool' \subseteq Pool
  <2>1. logs' = logs /\ db'.logNumber = db.logNumber
      BY DEF Untouched
  <2>2. ASSUME NEW k \in Prefixes' PROVE TableItems(VersionAt(Recs', k), tables') \subseteq Pool
    <3>1. CASE k \in Prefixes
      <4>1. k \in 0..n
          BY <3>1, <1>1, <1>2, RecsType
      <4>2. VersionAt(Recs', k) = Version(k)
          BY <4>1, <1>13 DEF Version
      <4>. QED
          BY <3>1, <4>2 DEF Pool
    <3>2. CASE k = n + 1
        BY <3>2, <1>13, <1>16
    <3>. QED
        BY <3>1, <3>2, <1>15, <2>2
  <2>. QED
      BY <2>1, <2>2 DEF Pool, Version, Untouched, Steady
<1>. QED
    BY <1>3, <1>8, <1>9, <1>10, <1>13, <1>14, <1>17, <1>18, <1>19 DEF e, w, v

LEMMA LogEditKeeps ==
    ASSUME StoreInv, db.state \in Running, LogEdit, ~hist'.misplaced
    PROVE  StoreInv'
<1>1. bg.pc = "log" /\ UNCHANGED <<logs, tables, current, queue, lead>>
    BY DEF LogEdit
<1>2. PICK ok \in BOOLEAN, landed \in BOOLEAN :
          /\ ok => landed
          /\ IF landed THEN EditLanded ELSE SameEdits
          /\ SameHist
          /\ IF ok THEN bg' = [bg EXCEPT !.pc = "syncEdit"] /\ UNCHANGED <<db, wr>>
             ELSE BackgroundError(db)
  <2>. DEFINE m == manifests[db.manifest]
  <2>1. PICK ok \in BOOLEAN, recs \in {<<>>, <<bg.edit>>, <<Unreadable>>} :
            /\ m.torn \/ recs = <<bg.edit>> \/ (~ok /\ recs = <<>>)
            /\ manifests' = [manifests EXCEPT ![db.manifest] =
                                Grown(@, recs, recs = <<bg.edit>>)]
            /\ hist' = [hist EXCEPT !.faults = IF ok THEN @ ELSE @ + 1,
                                    !.misplaced = @ \/ m.torn]
            /\ IF ok THEN bg' = [bg EXCEPT !.pc = "syncEdit"] /\ UNCHANGED <<db, wr>>
               ELSE BackgroundError(db)
      BY DEF LogEdit
  <2>2. /\ HistOK /\ bg.edit \in Edits /\ current \in DOMAIN manifests
        /\ current = db.manifest /\ ManifestsOK
      BY WorkIs, RunningIs DEF Numbers
  <2>3. m.recs \in Seq(Edits) /\ m.torn \in BOOLEAN
      BY <2>2 DEF ManifestsOK, Manifest
  <2>4. ~m.torn
      BY <2>1, <2>2, <2>3 DEF HistOK
  <2>5. SameHist
    <3>. DEFINE faults == IF ok THEN hist.faults ELSE hist.faults + 1
                misplaced == hist.misplaced \/ m.torn
    <3>1. faults \in Nat /\ misplaced \in BOOLEAN
        BY <2>2 DEF HistOK
    <3>2. hist' = [hist EXCEPT !.faults = faults, !.misplaced = misplaced]
        BY <2>1
    <3>. HIDE DEF faults, misplaced
    <3>. QED
        BY <2>2, <3>1, <3>2 DEF SameHist, HistOK
  <2>. DEFINE t == recs = <<bg.edit>>
  <2>a. t \in BOOLEAN /\ manifests' = [manifests EXCEPT ![db.manifest] = Grown(@, recs, t)]
      BY <2>1
  <2>. HIDE DEF m, t
  <2>6. CASE recs = <<bg.edit>>
    <3>1. manifests' = [manifests EXCEPT ![db.manifest] = Grown(@, <<bg.edit>>, t)]
        BY <2>a, <2>6
    <3>. QED
        BY <2>1, <2>5, <2>a, <3>1 DEF EditLanded
  <2>7. CASE recs # <<bg.edit>>
    <3>1. ~ok /\ recs = <<>>
        BY <2>1, <2>4, <2>7
    <3>2. manifests' = [manifests EXCEPT ![db.manifest] = Grown(@, <<>>, t)]
        BY <2>a, <3>1
    <3>. QED
        BY <2>1, <2>5, <2>a, <3>1, <3>2 DEF SameEdits
  <2>. QED
      BY <2>6, <2>7
<1>3. /\ DbOK /\ BgOK /\ HistOK /\ TablesOK /\ InStep /\ Background /\ EditAtHand /\ TypeOK
      /\ bg.edit \in Edits
    BY RunningIs, WorkIs DEF TypeOK
<1>4. TablesOK' /\ NamedKept /\ \A t \in db.version : tables'[t] = tables[t]
    BY <1>1, <1>3 DEF TablesOK, NamedKept
<1>5. db.version \subseteq DOMAIN tables'
    BY <1>1, RunningIs DEF Numbers
<1>6. CASE ~landed
    BY <1>1, <1>2, <1>4, <1>6, ErrorKeeps
<1>7. CASE ok
  <2>1. EditLanded /\ bg' = [bg EXCEPT !.pc = "syncEdit"] /\ UNCHANGED <<db, wr>>
      BY <1>2, <1>7
  <2>2. /\ bg'.pc = "syncEdit" /\ bg'.out = bg.out /\ bg'.merged = bg.merged
        /\ bg'.inputs = bg.inputs /\ bg'.edit = bg.edit
      BY <1>3, <2>1 DEF BgOK
  <2>3. BgOK'
    <3>1. "syncEdit" \in {"idle", "build", "merge"} \cup Logging
        BY DEF Logging
    <3>. QED
        BY <3>1, <1>3, <2>1 DEF BgOK
  <2>4. Steady /\ Untouched
    <3>1. db.next <= db.next
        BY WorkIs
    <3>. QED
        BY <3>1, <1>1, <1>2, <1>3, <1>4, <2>1, <2>3 DEF Steady, Untouched, DbOK, SameHist
  <2>. DEFINE n == Len(Recs)
              v == Version(n)
  <2>5. /\ Len(Recs') = n + 1 /\ Recs'[n + 1] = bg.edit /\ ManifestsOK'
        /\ VersionAt(Recs', n + 1) = (v \ bg.edit.del) \cup bg.edit.add
        /\ (\A t : Unnamed(t)' <=> Unnamed(t) /\ t \notin bg.edit.add)
        /\ Numbers' /\ (\A k \in Prefixes' : Follows(k)') /\ Pool' \subseteq Pool
      BY <1>1, <2>1, <2>4, EditIs
  <2>6. InStep'
    <3>1. db.version \subseteq v /\ (~db.bgError => v = db.version)
        BY <1>1, <1>3 DEF InStep
    <3>2. Version(Len(Recs))' = (v \ bg.edit.del) \cup bg.edit.add
        BY <2>5 DEF Version
    <3>3. Installed' = (db.version \ bg.edit.del) \cup bg.edit.add
        BY <2>1, <2>2 DEF Installed
    <3>. HIDE DEF v
    <3>4. Installed' \subseteq Version(Len(Recs))'
        BY <3>1, <3>2, <3>3
    <3>5. ~db.bgError => Version(Len(Recs))' = Installed'
        BY <3>1, <3>2, <3>3
    <3>6. Recs'[Len(Recs')] = bg'.edit
        BY <2>2, <2>5
    <3>. QED
        BY <3>4, <3>5, <3>6, <2>1, <2>2 DEF InStep
  <2>7. Background'
    <3>1. /\ (bg.out # 0 \/ bg.merged # 0) /\ db.scheduled
          /\ bg.out # 0 => db.imm # {} /\ bg.out # bg.merged /\ bg.edit.add = {bg.out}
          /\ bg.merged = 0 => bg.inputs = {}
          /\ bg.merged # 0 =>
                /\ bg.merged \in DOMAIN tables /\ bg.merged \in db.pending
                /\ bg.merged < db.next /\ bg.inputs \subseteq db.version
                /\ bg.merged \notin db.version /\ Unnamed(bg.merged)
        BY <1>1, <1>3 DEF Background, Logging, EditAtHand
    <3>2. db.scheduled /\ (bg.out # 0 \/ bg.merged # 0)
        BY <1>1, <1>3 DEF Background, Logging
    <3>3. \A m : (m = bg.merged /\ m # 0 /\ bg.out # 0) => Unnamed(m)'
        BY <3>1, <2>5
    <3>. QED
        BY <3>1, <3>2, <3>3, <1>1, <2>1, <2>2 DEF Background, Unnamed
  <2>8. EditAtHand'
    <3>1. bg.pc \in Logging
        BY <1>1 DEF Logging
    <3>. QED
        BY <3>1, <1>1, <1>3, <2>1, <2>2 DEF EditAtHand
  <2>. QED
      BY <1>1, <1>4, <1>5, <2>4, <2>5, <2>6, <2>7, <2>8, WorkStepKeeps
<1>8. CASE landed /\ ~ok
  <2>1. EditLanded /\ BackgroundError(db) /\ bg.pc # "idle"
      BY <1>1, <1>2, <1>8
  <2>2. /\ DbOK' /\ BgOK' /\ wr' = Signalled /\ db'.bgError = TRUE
        /\ db'.state = db.state /\ db'.mem = db.mem /\ db'.imm = db.imm
        /\ db'.logfile = db.logfile /\ db'.manifest = db.manifest
        /\ db'.lastSeq = db.lastSeq /\ db'.logNumber = db.logNumber
        /\ db'.version = db.version /\ db'.next = db.next
        /\ \/ /\ Nested /\ bg'.pc = "merge" /\ bg'.out = 0 /\ bg'.inputs = bg.inputs
              /\ bg'.merged = bg.merged /\ db'.pending = db.pending \ {bg.out}
              /\ db'.scheduled = db.scheduled
           \/ ~Nested /\ bg' = NoWork
      BY <2>1, ErrorIs
  <2>3. Steady /\ Untouched
    <3>1. db.next <= db'.next
        BY <2>2, WorkIs
    <3>. QED
        BY <3>1, <1>1, <1>2, <1>3, <1>4, <2>1, <2>2 DEF Steady, Untouched, SameHist
  <2>. DEFINE n == Len(Recs)
              v == Version(n)
  <2>4. /\ Len(Recs') = n + 1 /\ ManifestsOK'
        /\ VersionAt(Recs', n + 1) = (v \ bg.edit.del) \cup bg.edit.add
        /\ (\A t : Unnamed(t)' <=> Unnamed(t) /\ t \notin bg.edit.add)
        /\ Numbers' /\ (\A k \in Prefixes' : Follows(k)') /\ Pool' \subseteq Pool
      BY <1>1, <2>1, <2>3, EditIs
  <2>5. CASE ~Nested /\ bg' = NoWork
    <3>1. bg'.pc = "idle" /\ bg'.out = 0 /\ bg'.merged = 0 /\ bg'.inputs = {}
        BY <2>5 DEF NoWork
    <3>2. InStep' /\ Background' /\ EditAtHand'
        BY <3>1, <2>2, <2>5 DEF InStep, Background, EditAtHand, Logging
    <3>. QED
        BY <3>2, <1>1, <1>4, <1>5, <2>3, <2>4, WorkStepKeeps
  <2>6. CASE /\ Nested /\ bg'.pc = "merge" /\ bg'.out = 0 /\ bg'.inputs = bg.inputs
             /\ bg'.merged = bg.merged /\ db'.pending = db.pending \ {bg.out}
             /\ db'.scheduled = db.scheduled
    <3>1. bg.out # 0 /\ bg.merged # 0 /\ bg.out # bg.merged /\ bg.pc \in Logging
        BY <1>1, <1>3, <2>6 DEF Nested, Background, Logging
    <3>2. bg.edit.add = {bg.out} /\ bg.edit.del = {}
        BY <1>3, <3>1 DEF EditAtHand
    <3>3. db.version \subseteq v
        BY <1>1, <1>3 DEF InStep
    <3>4. Version(Len(Recs))' = (v \ bg.edit.del) \cup bg.edit.add
        BY <2>4 DEF Version
    <3>. HIDE DEF v
    <3>5. db.version \subseteq Version(Len(Recs))'
        BY <3>2, <3>3, <3>4
    <3>6. InStep'
        BY <3>5, <2>2, <2>6 DEF InStep
    <3>7. /\ bg.merged \in DOMAIN tables /\ bg.merged \in db.pending /\ bg.merged < db.next
          /\ bg.inputs \subseteq db.version /\ bg.merged \notin db.version
          /\ Unnamed(bg.merged) /\ db.scheduled
        BY <1>1, <1>3, <3>1 DEF Background
    <3>8. \A m : m = bg.merged => Unnamed(m)'
        BY <3>1, <3>2, <3>7, <2>4
    <3>9. Background'
        BY <3>1, <3>7, <3>8, <1>1, <2>2, <2>6 DEF Background, Unnamed, Logging
    <3>10. EditAtHand'
        BY <2>6 DEF EditAtHand, Logging
    <3>. QED
        BY <3>6, <3>9, <3>10, <1>1, <1>4, <1>5, <2>3, <2>4, WorkStepKeeps
  <2>. QED
      BY <2>2, <2>5, <2>6
<1>. QED
    BY <1>6, <1>7, <1>8

LEMMA SyncEditKeeps ==
    ASSUME StoreInv, db.state \in Running, SyncEdit
    PROVE  StoreInv'
<1>1. bg.pc = "syncEdit" /\ UNCHANGED <<logs, tables, current, queue, lead>>
    BY DEF SyncEdit
<1>2. /\ DbOK /\ BgOK /\ HistOK /\ TablesOK /\ InStep /\ Background /\ EditAtHand /\ TypeOK
      /\ Numbers /\ (\A k \in Prefixes : Follows(k)) /\ ManifestsOK
      /\ current \in DOMAIN manifests /\ current = db.manifest
    BY RunningIs DEF TypeOK, Numbers
<1>3. TablesOK' /\ NamedKept
    BY <1>1, <1>2 DEF TablesOK, NamedKept
<1>4. CASE MayFail /\ hist' = Fault /\ BackgroundError(db) /\ UNCHANGED manifests
    BY <1>1, <1>2, <1>3, <1>4, ErrorKeeps, FaultIs DEF SameEdits
<1>5. CASE /\ manifests' = [manifests EXCEPT ![db.manifest].synced =
                                            Len(manifests[db.manifest].recs)]
           /\ bg' = [bg EXCEPT !.pc = "install"]
           /\ UNCHANGED <<db, wr, hist>>
  <2>1. /\ bg'.pc = "install" /\ bg'.out = bg.out /\ bg'.merged = bg.merged
        /\ bg'.inputs = bg.inputs /\ bg'.edit = bg.edit
      BY <1>2, <1>5 DEF BgOK
  <2>2. BgOK'
    <3>1. "install" \in {"idle", "build", "merge"} \cup Logging
        BY DEF Logging
    <3>. QED
        BY <3>1, <1>2, <1>5 DEF BgOK
  <2>3. Steady /\ Untouched
    <3>1. db.next <= db.next
        BY WorkIs
    <3>. QED
        BY <3>1, <1>1, <1>2, <1>3, <1>5, <2>2 DEF Steady, Untouched, DbOK, HistOK
  <2>4. /\ Recs \in Seq(Edits) /\ Len(Recs) \in Nat /\ Len(Recs) \in Prefixes
        /\ manifests[current].synced \in Nat /\ manifests[current].synced <= Len(Recs)
        /\ manifests[current].synced >= 2 /\ manifests[current] \in Manifest
      BY <1>2, RecsType DEF Numbers, ManifestsOK
  <2>5. /\ DOMAIN manifests' = DOMAIN manifests
        /\ manifests'[current].recs = Recs /\ manifests'[current].synced = Len(Recs)
        /\ manifests'[current] = [recs |-> Recs, synced |-> Len(Recs),
                                  torn |-> manifests[current].torn]
        /\ \A k \in DOMAIN manifests : k # current => manifests'[k] = manifests[k]
      BY <1>2, <1>5, <2>4 DEF Recs, Manifest
  <2>6. ManifestsOK'
    <3>1. [recs |-> Recs, synced |-> Len(Recs), torn |-> manifests[current].torn] \in Manifest /\ Len(Recs) <= Len(Recs)
        BY <2>4 DEF Manifest
    <3>. QED
        BY <3>1, <1>2, <2>5 DEF ManifestsOK
  <2>7. Recs' = Recs /\ Prefixes' = {Len(Recs)}
    <3>1. Recs' = Recs /\ manifests'[current'].synced = Len(Recs)
        BY <1>1, <2>5 DEF Recs
    <3>2. Len(Recs)..Len(Recs) = {Len(Recs)}
        BY <2>4
    <3>. QED
        BY <3>1, <3>2 DEF Prefixes
  <2>8. Numbers'
    <3>1. Len(Recs) >= 2
        BY <2>4
    <3>. QED
        BY <3>1, <1>1, <1>2, <1>5, <2>5, <2>7 DEF Numbers
  <2>9. \A k \in Prefixes' : Follows(k)'
      BY <1>1, <1>2, <1>5, <2>4, <2>7 DEF Follows, Version
  <2>10. InStep'
    <3>1. manifests'[current'].synced = Len(Recs')
        BY <1>1, <2>5, <2>7
    <3>. QED
        BY <3>1, <1>1, <1>2, <1>5, <2>1, <2>7 DEF InStep, Version, Installed
  <2>11. Background'
      BY <1>1, <1>2, <1>5, <2>1, <2>7 DEF Background, Unnamed, Logging
  <2>12. EditAtHand'
    <3>1. bg.pc \in Logging
        BY <1>1 DEF Logging
    <3>. QED
        BY <3>1, <1>1, <1>2, <1>5, <2>1 DEF EditAtHand
  <2>13. Pool' \subseteq Pool
      BY <1>1, <1>5, <2>4, <2>7 DEF Pool, Version
  <2>14. \A t \in db.version : t \in DOMAIN tables' /\ tables'[t] = tables[t]
      BY <1>1, <1>2 DEF Numbers
  <2>. QED
      BY <1>1, <2>3, <2>6, <2>8, <2>9, <2>10, <2>11, <2>12, <2>13, <2>14, WorkStepKeeps
<1>. QED
    BY <1>4, <1>5 DEF SyncEdit

LEMMA InstallKeeps ==
    ASSUME StoreInv, db.state \in Running, Install
    PROVE  StoreInv'
<1>. DEFINE e == bg.edit
            d == [db EXCEPT !.version = (@ \ e.del) \cup e.add,
                            !.logNumber = e.log,
                            !.imm = IF bg.out # 0 THEN {} ELSE @,
                            !.pending = IF bg.out # 0 THEN @ ELSE @ \ {bg.merged}]
            held == IF Nested THEN bg.inputs ELSE {}
            n == Len(Recs)
            v == Version(n)
<1>1. /\ bg.pc = "install" /\ bg.pc \in Logging /\ DeleteObsoleteFiles(d, held)
      /\ UNCHANGED <<current, queue, lead>>
      /\ hist' = [hist EXCEPT !.behind = @ \ InTables(d)]
      /\ IF Nested THEN BackToMerge /\ db' = d /\ wr' = Signalled ELSE EndBackground(d)
    BY DEF Install, Logging, None
<1>2. /\ db \in DbType /\ db.next \in Nat /\ db.lastSeq \in Nat /\ db.logfile \in Nat
      /\ db.logNumber \in Nat /\ db.pending \in SUBSET Nat /\ db.version \in SUBSET Nat
      /\ db.imm \in SUBSET Item /\ bg.inputs \in SUBSET Nat /\ e \in Edits
      /\ bg.out \in Nat /\ bg.merged \in Nat /\ current \in Nat /\ HistOK /\ BgOK
    BY WorkIs
<1>3. /\ TypeOK /\ Bounded /\ Numbers /\ (\A k \in Prefixes : Follows(k)) /\ InStep
      /\ Background /\ EditAtHand /\ Memtables /\ Numbered /\ Told
    BY RunningIs
<1>4. /\ e.add \subseteq DOMAIN tables /\ (\A t \in e.add : t < db.next)
      /\ e.log \in Nat
      /\ (bg.out # 0 => /\ e.add = {bg.out} /\ e.del = {} /\ e.log = db.logfile
                        /\ tables[bg.out] = db.imm)
      /\ (bg.out = 0 => /\ e.add = {bg.merged} /\ e.del = bg.inputs
                        /\ e.log = db.logNumber
                        /\ tables[bg.merged] = TableItems(bg.inputs, tables))
    BY <1>1, <1>3 DEF EditAtHand
<1>5. /\ bg.inputs \subseteq db.version /\ db.scheduled
      /\ (bg.out # 0 => db.imm # {} /\ bg.out # bg.merged)
      /\ (bg.merged # 0 =>
            /\ bg.merged \in DOMAIN tables /\ bg.merged \in db.pending /\ bg.merged < db.next
            /\ bg.merged \notin db.version
            /\ (bg.out # 0 => Unnamed(bg.merged)))
    BY <1>1, <1>3 DEF Background
<1>6. /\ current \in DOMAIN manifests /\ current = db.manifest /\ current >= 2
      /\ db.logNumber <= db.logfile /\ db.logfile < db.next /\ db.logfile \in DOMAIN logs
      /\ db.version \subseteq DOMAIN tables
    BY <1>3 DEF Numbers
<1>7. /\ Recs \in Seq(Edits) /\ n \in Nat /\ manifests[current].synced = n /\ Prefixes = {n}
      /\ Recs[n] = e
  <2>1. Recs \in Seq(Edits) /\ n \in Nat
      BY <1>3, <1>6, RecsType
  <2>2. manifests[current].synced = n /\ Recs[n] = e
      BY <1>1, <1>3 DEF InStep
  <2>3. n..n = {n}
      BY <2>1
  <2>. HIDE DEF n
  <2>. QED
      BY <2>1, <2>2, <2>3 DEF Prefixes, n
<1>8. Follows(n) /\ v \subseteq DOMAIN tables
    BY <1>3, <1>7 DEF Follows
<1>9. /\ d \in DbType /\ d.state = db.state /\ d.mem = db.mem /\ d.logfile = db.logfile
      /\ d.manifest = db.manifest /\ d.lastSeq = db.lastSeq /\ d.logNumber = e.log
      /\ d.version = Installed /\ d.next = db.next /\ d.bgError = db.bgError
      /\ d.imm = (IF bg.out # 0 THEN {} ELSE db.imm) /\ d.scheduled = db.scheduled
      /\ (bg.out # 0 => d.pending = db.pending)
  <2>1. Installed \in SUBSET Nat /\ Installed = (db.version \ e.del) \cup e.add
      BY <1>2 DEF Installed, Edits
  <2>2. (IF bg.out # 0 THEN {} ELSE db.imm) \in SUBSET Item
        /\ (IF bg.out # 0 THEN db.pending ELSE db.pending \ {bg.merged}) \in SUBSET Nat
      BY <1>2
  <2>. HIDE DEF e
  <2>3. d \in DbType
      BY <1>2, <1>4, <2>1, <2>2 DEF DbType
  <2>. QED
      BY <1>2, <2>1, <2>3 DEF DbType
<1>. HIDE DEF d
<1>10. /\ DOMAIN logs' \subseteq DOMAIN logs /\ (\A m \in DOMAIN logs' : logs'[m] = logs[m])
       /\ (\A m \in DOMAIN logs : m >= e.log => m \in DOMAIN logs')
       /\ DOMAIN manifests' \subseteq DOMAIN manifests
       /\ (\A m \in DOMAIN manifests' : manifests'[m] = manifests[m])
       /\ (\A m \in DOMAIN manifests : m >= db.manifest => m \in DOMAIN manifests')
       /\ DOMAIN tables' \subseteq DOMAIN tables
       /\ (\A t \in DOMAIN tables' : tables'[t] = tables[t])
       /\ (\A t \in DOMAIN tables : t \in Installed \cup d.pending \cup held => t \in DOMAIN tables')
       /\ (db.bgError => UNCHANGED <<logs, manifests, tables>>)
       /\ LogItems(logs', e.log) = LogItems(logs, e.log)
       /\ LogItems(logs', 0) \subseteq LogItems(logs, 0)
       /\ LogsOK' /\ ManifestsOK' /\ TablesOK'
  <2>1. d.logNumber \in Nat /\ e.log >= e.log
      BY <1>4, <1>9
  <2>. HIDE DEF held, e
  <2>. QED
      BY <2>1, <1>1, <1>3, <1>4, <1>9, Deleted
<1>11. /\ DbOK' /\ db'.state = db.state /\ db'.mem = db.mem /\ db'.logfile = db.logfile
       /\ db'.manifest = db.manifest /\ db'.lastSeq = db.lastSeq /\ db'.logNumber = e.log
       /\ db'.version = Installed /\ db'.next = db.next /\ db'.bgError = db.bgError
       /\ db'.imm = (IF bg.out # 0 THEN {} ELSE db.imm) /\ wr' = Signalled
       /\ db'.pending = d.pending
  <2>1. CASE Nested
    <3>1. db' = d /\ wr' = Signalled
        BY <1>1, <2>1
    <3>. QED
        BY <3>1, <1>9 DEF DbOK
  <2>2. CASE ~Nested
    <3>. DEFINE x == [d EXCEPT !.scheduled = FALSE]
    <3>1. db' = MaybeScheduleCompaction(x) /\ wr' = Signalled
        BY <1>1, <2>2 DEF EndBackground
    <3>2. x \in DbType
        BY <1>9 DEF DbType
    <3>3. /\ x.state = d.state /\ x.mem = d.mem /\ x.imm = d.imm /\ x.logfile = d.logfile
          /\ x.manifest = d.manifest /\ x.lastSeq = d.lastSeq /\ x.logNumber = d.logNumber
          /\ x.version = d.version /\ x.next = d.next /\ x.bgError = d.bgError
          /\ x.pending = d.pending
        BY <1>9 DEF DbType
    <3>. HIDE DEF x
    <3>. QED
        BY <3>1, <3>2, <3>3, <1>9, ScheduleIs DEF DbOK
  <2>. QED
      BY <2>1, <2>2
<1>. HIDE DEF e
<1>12. /\ BgOK' /\ \/ ~Nested /\ bg' = NoWork
                   \/ /\ Nested /\ bg'.pc = "merge" /\ bg'.out = 0 /\ bg'.inputs = bg.inputs
                      /\ bg'.merged = bg.merged /\ db'.scheduled
  <2>1. CASE Nested
    <3>1. /\ bg' = [bg EXCEPT !.pc = "merge", !.out = 0, !.edit = NoEdit] /\ db'.scheduled
        BY <1>1, <1>5, <1>9, <2>1 DEF BackToMerge
    <3>2. NoEdit \in Edits /\ "merge" \in {"idle", "build", "merge"} \cup Logging
        BY DEF NoEdit, Edits
    <3>. QED
        BY <1>2, <2>1, <3>1, <3>2 DEF BgOK
  <2>2. CASE ~Nested
    <3>1. bg' = NoWork
        BY <1>1, <2>2 DEF EndBackground
    <3>. QED
        BY <2>2, <3>1 DEF BgOK, NoWork, NoEdit, Edits
  <2>. QED
      BY <2>1, <2>2
<1>13. Steady
  <2>1. db.next <= db'.next
      BY <1>2, <1>11
  <2>2. HistOK' /\ hist'.opened = hist.opened /\ hist'.acked = hist.acked
        /\ hist'.synced = hist.synced
      BY <1>1, <1>2 DEF HistOK
  <2>. QED
      BY <2>1, <2>2, <1>1, <1>10, <1>11, <1>12 DEF Steady
<1>14. db.logfile \in DOMAIN logs' /\ current \in DOMAIN manifests'
       /\ manifests'[current] = manifests[current]
  <2>1. db.logfile >= e.log
      BY <1>2, <1>4, <1>6
  <2>2. current >= db.manifest
      BY <1>2, <1>6
  <2>. QED
      BY <2>1, <2>2, <1>6, <1>10
\* The new tables hold what the version held, and a flush's the memtable.
<1>31. /\ hist'.behind = hist.behind \ TableItems(Installed, tables)
       /\ hist.behind \cap TableItems(Installed, tables) \subseteq (IF bg.out # 0 THEN db.imm ELSE {})
       /\ TableItems(Installed, tables) \subseteq Contents
  <2>1. InTables(d) = TableItems(Installed, tables)
      BY <1>9 DEF InTables, TableItems
  <2>2. hist'.behind = hist.behind \ TableItems(Installed, tables)
      BY <2>1, <1>1, <1>2 DEF HistOK
  <2>3. TableItems(Installed, tables) \subseteq
            TableItems(db.version, tables) \cup (IF bg.out # 0 THEN db.imm ELSE {})
    <3>1. CASE bg.out # 0
        BY <3>1, <1>4 DEF Installed, TableItems, e
    <3>2. CASE bg.out = 0
        BY <3>2, <1>4, <1>5 DEF Installed, TableItems, e
    <3>. QED
        BY <3>1, <3>2
  <2>4. hist.behind \cap TableItems(db.version, tables) = {}
      BY <1>3 DEF Memtables
  <2>5. TableItems(Installed, tables) \subseteq Contents
      BY <2>3 DEF Contents, TableItems
  <2>. QED
      BY <2>2, <2>3, <2>4, <2>5
<1>15. WritersOK' /\ LeadOK' /\ Writing' /\ Logged'
       /\ \A w \in Writers : wr'[w].pc = "append" => wr[w].pc = "append"
  <2>1. lead.items \cap Contents = {}
    <3>1. /\ UpTo(Contents, db.lastSeq) /\ lead.items \in SUBSET Item
          /\ \A i \in lead.items : db.lastSeq < i.seq
        BY <1>3, RunningIs DEF Numbered, Writing, TypeOK, LeadOK
    <3>. QED
        BY <3>1, <1>2 DEF UpTo, Item
  <2>2. lead.items \ hist'.behind = lead.items \ hist.behind
      BY <2>1, <1>31
  <2>. QED
      BY <2>2, <1>10, <1>13, <1>14, WritersKept
<1>16. TypeOK'
    BY <1>1, <1>2, <1>10, <1>11, <1>12, <1>13, <1>15 DEF TypeOK, Steady
<1>17. Bounded'
    BY <1>3, <1>10, BoundedKept
<1>18. Recs' = Recs /\ Prefixes' = {n} /\ Version(n) = v /\ VersionAt(Recs', n) = v
       /\ Version(Len(Recs))' = v
    BY <1>1, <1>7, <1>14 DEF Recs, Prefixes, Version
<1>19. Installed \subseteq v /\ (~db.bgError => v = Installed)
    BY <1>1, <1>3 DEF InStep
<1>20. \A t \in v : t \in DOMAIN tables' /\ tables'[t] = tables[t]
    BY <1>8, <1>10, <1>19
<1>. HIDE DEF v
<1>21. /\ TableItems(v, tables') = TableItems(v, tables)
       /\ TableItems(Installed, tables') = TableItems(Installed, tables)
       /\ Installed \subseteq DOMAIN tables' /\ v \subseteq DOMAIN tables'
  <2>1. \A t \in Installed : t \in DOMAIN tables' /\ tables'[t] = tables[t]
      BY <1>19, <1>20
  <2>. QED
      BY <2>1, <1>20 DEF TableItems
<1>22. Contents' = Contents
  <2>1. Contents' = db.mem \cup (IF bg.out # 0 THEN {} ELSE db.imm) \cup TableItems(Installed, tables)
      BY <1>11, <1>21 DEF Contents, TableItems
  <2>2. Contents = db.mem \cup db.imm \cup TableItems(db.version, tables)
      BY DEF Contents, TableItems
  <2>3. CASE bg.out # 0
    <3>1. Installed = db.version \cup {bg.out}
        BY <1>4, <2>3 DEF Installed, e
    <3>2. TableItems(Installed, tables) = TableItems(db.version, tables) \cup db.imm
        BY <1>4, <2>3, <3>1 DEF TableItems
    <3>. QED
        BY <2>1, <2>2, <2>3, <3>2
  <2>4. CASE bg.out = 0
    <3>1. Installed = (db.version \ bg.inputs) \cup {bg.merged}
        BY <1>4, <2>4 DEF Installed, e
    <3>2. TableItems(Installed, tables) =
              TableItems(db.version \ bg.inputs, tables) \cup TableItems(bg.inputs, tables)
        BY <1>4, <2>4, <3>1 DEF TableItems
    <3>3. db.version = (db.version \ bg.inputs) \cup bg.inputs
        BY <1>5
    <3>4. TableItems(db.version, tables) =
              TableItems(db.version \ bg.inputs, tables) \cup TableItems(bg.inputs, tables)
        BY <3>3, TableItemsUnion
    <3>. QED
        BY <2>1, <2>2, <2>4, <3>2, <3>4
  <2>. QED
      BY <2>3, <2>4
<1>23. Numbers'
  <2>1. e.log <= db.logfile
      BY <1>2, <1>4, <1>6
  <2>2. \A t \in Installed : t < db.next
      BY <1>3, <1>4 DEF Installed, Numbers, e
  <2>. QED
      BY <2>1, <2>2, <1>1, <1>3, <1>10, <1>11, <1>14, <1>18, <1>21 DEF Numbers
<1>24. ASSUME NEW k \in Prefixes' PROVE Follows(k)'
  <2>1. k = n
      BY <1>18, <1>24
  <2>2. Version(k)' = v /\ Recs'[k] = e /\ Len(Recs') = n
      BY <2>1, <1>7, <1>18 DEF Version
  <2>3. /\ e.log \in Nat /\ e.next \in Nat /\ e.seq \in Nat /\ (\A t \in v : t < e.next)
        /\ e.log < e.next /\ current < e.next /\ e.next <= e.next
        /\ e.next <= db.next /\ e.seq <= db.lastSeq /\ UpTo(TableItems(v, tables), e.seq)
      BY <1>7, <1>8, <1>18 DEF Follows
  <2>4. TableItems(Installed, tables) \subseteq TableItems(v, tables)
      BY <1>19, TableItemsMono
  <2>5. Recs'[Len(Recs')] = e
      BY <2>2, <1>7, <1>18
  <2>. QED
      BY <2>2, <2>3, <2>4, <2>5, <1>1, <1>11, <1>21 DEF Follows
<1>25. InStep' /\ Background' /\ EditAtHand'
  <2>1. CASE ~Nested /\ bg' = NoWork
    <3>1. bg'.pc = "idle" /\ bg'.out = 0 /\ bg'.merged = 0 /\ bg'.inputs = {}
        BY <2>1 DEF NoWork
    <3>. QED
        BY <2>1, <3>1, <1>11, <1>18, <1>19 DEF InStep, Background, EditAtHand, Logging
  <2>2. CASE /\ Nested /\ bg'.pc = "merge" /\ bg'.out = 0 /\ bg'.inputs = bg.inputs
             /\ bg'.merged = bg.merged /\ db'.scheduled
    <3>1. bg.out # 0 /\ bg.merged # 0 /\ bg.out # bg.merged
        BY <1>5, <2>2 DEF Nested
    <3>2. bg.merged \in DOMAIN tables /\ bg.merged \in db.pending /\ bg.merged < db.next
          /\ bg.merged \notin db.version /\ Unnamed(bg.merged)
        BY <1>5, <3>1
    <3>3. Installed = db.version \cup {bg.out}
        BY <1>4, <3>1 DEF Installed, e
    <3>4. bg.merged \in DOMAIN tables' /\ bg.merged \in db'.pending
        BY <3>1, <3>2, <1>9, <1>10, <1>11
    <3>5. bg.inputs \subseteq db'.version /\ bg.merged \notin db'.version
        BY <3>1, <3>2, <3>3, <1>5, <1>11
    <3>6. \A m : m = bg.merged => Unnamed(m)'
        BY <3>2, <3>5, <1>18 DEF Unnamed
    <3>7. Background'
        BY <3>1, <3>2, <3>4, <3>5, <3>6, <1>11, <2>2 DEF Background, Unnamed, Logging
    <3>8. InStep'
        BY <2>2, <1>11, <1>18, <1>19 DEF InStep
    <3>. QED
        BY <3>7, <3>8, <2>2 DEF EditAtHand, Logging
  <2>. QED
      BY <2>1, <2>2, <1>12
<1>26. db.logNumber <= e.log
    BY <1>2, <1>4, <1>6
<1>27. Memtables'
  <2>1. ItemsOf(logs'[db.logfile].recs) = ItemsOf(logs[db.logfile].recs)
        /\ SyncedOf(logs'[db.logfile]) = SyncedOf(logs[db.logfile])
      BY <1>10, <1>14
  <2>5. /\ db.mem \cap db.imm = {} /\ db.mem \ hist.behind \subseteq ItemsOf(logs[db.logfile].recs)
        /\ db.mem \cap Guaranteed \subseteq SyncedOf(logs[db.logfile])
      BY <1>3 DEF Memtables
  <2>6. db.mem \ hist'.behind = db.mem \ hist.behind
      BY <2>5, <1>31
  <2>7. db.mem \cap Guaranteed' = db.mem \cap Guaranteed
      BY <2>6, <1>13 DEF Guaranteed, Steady
  <2>8. hist'.behind \cap TableItems(Installed, tables') = {}
      BY <1>21, <1>31
  <2>9. db.mem \cap db'.imm = {}
      BY <2>5, <1>11
  <2>2. CASE bg.out # 0
      BY <2>1, <2>2, <2>5, <2>6, <2>7, <2>8, <2>9, <1>11 DEF Memtables
  <2>3. CASE bg.out = 0 /\ db.imm # {}
    <3>1. PICK m \in DOMAIN logs :
              /\ db.logNumber <= m /\ m < db.logfile
              /\ db.imm \ hist.behind \subseteq ItemsOf(logs[m].recs)
              /\ db.imm \cap Guaranteed \subseteq SyncedOf(logs[m])
        BY <1>3, <2>3 DEF Memtables
    <3>4. hist'.behind = hist.behind /\ Guaranteed' = Guaranteed
        BY <2>3, <1>13, <1>31 DEF Guaranteed, Steady
    <3>2. e.log = db.logNumber /\ m >= e.log
        BY <2>3, <3>1, <1>2, <1>3, <1>4 DEF TypeOK, LogsOK
    <3>3. m \in DOMAIN logs' /\ logs'[m] = logs[m]
        BY <3>2, <1>10
    <3>. QED
        BY <2>1, <2>3, <2>5, <2>6, <2>7, <2>8, <2>9, <3>1, <3>2, <3>3, <3>4, <1>11 DEF Memtables
  <2>4. CASE bg.out = 0 /\ db.imm = {}
      BY <2>1, <2>4, <2>5, <2>6, <2>7, <2>8, <2>9, <1>11 DEF Memtables
  <2>. QED
      BY <2>2, <2>3, <2>4
<1>28. Pool' \subseteq Pool
  <2>1. LogItems(logs, e.log) \subseteq LogItems(logs, db.logNumber)
      BY <1>2, <1>3, <1>4, <1>26, LogItemsMono DEF TypeOK, LogsOK
  <2>2. Pool' = LogItems(logs', e.log) \cup db.mem \cup db'.imm \cup TableItems(v, tables')
      BY <1>11, <1>18 DEF Pool, Version
  <2>4. db'.imm \subseteq db.imm
      BY <1>11
  <2>3. Pool = LogItems(logs, db.logNumber) \cup db.mem \cup db.imm \cup TableItems(v, tables)
      BY <1>7, <1>18 DEF Pool
  <2>. QED
      BY <2>1, <2>2, <2>3, <2>4, <1>10, <1>21
<1>29. Numbered' /\ Told'
  <2>1. Answered' \subseteq Contents
      BY <1>3, <1>13, <1>31 DEF Told, Answered, Steady
  <2>. QED
      BY <2>1, <1>1, <1>3, <1>11, <1>13, <1>15, <1>22, <1>28
         DEF Numbered, Told, Distinct, UpTo, Steady
<1>30. Run'
    BY <1>15, <1>23, <1>24, <1>25, <1>27, <1>29 DEF Run
<1>. QED
    BY <1>11, <1>15, <1>16, <1>17, <1>30, StaysRunning

-----------------------------------------------------------------------------
(* Closing and crashing *)

LEMMA CloseKeeps ==
    ASSUME StoreInv, Close
    PROVE  StoreInv'
<1>1. /\ db.state = "open" /\ db.state \in Running /\ queue = <<>>
      /\ db' = [db EXCEPT !.state = "closing"] /\ hist' = [hist EXCEPT !.crashes = @ + 1]
      /\ UNCHANGED <<logs, manifests, tables, current, queue, wr, lead, bg>>
    BY DEF Close, disk, Running
<1>2. /\ TypeOK /\ Bounded /\ Writing /\ Run
    BY <1>1, RunningIs
<1>3. /\ db'.state = "closing" /\ db'.mem = db.mem /\ db'.imm = db.imm
      /\ db'.logfile = db.logfile /\ db'.next = db.next /\ db'.manifest = db.manifest
      /\ db'.lastSeq = db.lastSeq /\ db'.logNumber = db.logNumber
      /\ db'.version = db.version /\ db'.pending = db.pending
      /\ db'.bgError = db.bgError /\ db'.scheduled = db.scheduled
    BY <1>1, <1>2 DEF TypeOK, DbOK, DbType
<1>4. DbOK' /\ db'.state \in Running
    BY <1>1, <1>2 DEF TypeOK, DbOK, DbType, Running
<1>5. /\ HistOK' /\ hist'.opened = hist.opened /\ hist'.acked = hist.acked
      /\ hist'.synced = hist.synced /\ hist'.behind = hist.behind
    BY <1>1, <1>2 DEF TypeOK, HistOK
<1>6. TypeOK'
    BY <1>1, <1>2, <1>4, <1>5 DEF TypeOK, LogsOK, ManifestsOK, TablesOK, WritersOK, LeadOK, BgOK
<1>7. Bounded' /\ Writing'
    BY <1>1, <1>2, <1>3 DEF Bounded, Writing
<1>8. Recs' = Recs /\ Prefixes' = Prefixes /\ Pool' = Pool /\ Contents' = Contents
    BY <1>1, <1>3 DEF Recs, Prefixes, Pool, Contents, Version
<1>9. Numbers' /\ \A k \in Prefixes' : Follows(k)'
    BY <1>1, <1>2, <1>3, <1>5, <1>8 DEF Run, Numbers, Follows, Version
<1>10. InStep' /\ Background' /\ EditAtHand'
    BY <1>1, <1>2, <1>3, <1>8
    DEF Run, InStep, Background, EditAtHand, Version, Unnamed, Installed
<1>11. Memtables' /\ Numbered' /\ Told' /\ Logged'
    BY <1>1, <1>2, <1>3, <1>5, <1>8 DEF Run, Memtables, Numbered, Told, Logged, Answered, Guaranteed
<1>. QED
    BY <1>4, <1>6, <1>7, <1>9, <1>10, <1>11, StaysRunning DEF Run

\* What holds of the disk at every moment.
LEMMA DiskIs ==
    ASSUME StoreInv
    PROVE  TypeOK /\ Bounded /\ Disk
BY RunningIsSound DEF StoreInv

\* Nothing is left but the disk.
LEMMA Stops ==
    ASSUME LogsOK', ManifestsOK', TablesOK', current' \in Nat, HistOK', Bounded', Disk',
           db' = Closed, queue' = <<>>, lead' = NoLead, bg' = NoWork,
           wr' \in [Writers -> [pc : {"idle", "queued", "waitbg"} \cup Active, id : Nat,
                                sync : BOOLEAN, over : SUBSET Item]],
           \A w \in Writers : wr'[w].pc \notin Active
    PROVE  StoreInv'
<1>1. DbOK' /\ db'.state = "closed"
    BY DEF DbOK, DbType, Closed, None
<1>2. WritersOK'
    BY DEF WritersOK
<1>3. LeadOK' /\ BgOK'
    BY DEF LeadOK, BgOK, NoLead, NoWork, NoEdit, Edits
<1>4. lead'.items = {} /\ IsFiniteSet({})
    BY FS_EmptySet DEF NoLead
<1>5. Writing'
    BY <1>1, <1>4 DEF Writing, Distinct
<1>6. Open'
    BY <1>1 DEF Open, Closed, None, Opening
<1>. QED
    BY <1>1, <1>2, <1>3, <1>5, <1>6 DEF StoreInv, TypeOK, Running

LEMMA CloseDoneKeeps ==
    ASSUME StoreInv, CloseDone
    PROVE  StoreInv'
<1>1. /\ db.state = "closing" /\ db.state \in Running /\ ~db.scheduled /\ db' = Closed
      /\ UNCHANGED <<logs, manifests, tables, current, queue, wr, lead, bg, hist>>
    BY DEF CloseDone, disk, Running
<1>2. /\ TypeOK /\ Bounded /\ Writing /\ Background /\ Disk
    BY <1>1, RunningIs, DiskIs
<1>3. bg = NoWork
    BY <1>1, <1>2 DEF Background
<1>4. queue = <<>>
    BY <1>1, <1>2 DEF Writing
<1>5. \A w \in Writers : wr[w].pc \notin Active
    BY <1>2, <1>4 DEF Writing
<1>6. lead = NoLead
    BY <1>2, <1>5 DEF Writing
<1>7. 0 \notin DOMAIN manifests
    BY <1>2 DEF TypeOK, ManifestsOK
<1>8. \A k \in Prefixes : Version(k)' = Version(k)
    BY <1>1 DEF Version, Recs
<1>9. Disk'
  <2>1. current # 0 => \A k \in Prefixes : k > 0 => \A t \in Version(k) : t \in DOMAIN tables
      BY <1>2 DEF Disk, Sound
  <2>2. current # 0 => current \in DOMAIN manifests
      BY <1>2 DEF Disk
  <2>. QED
      BY <1>1, <1>2, <1>7, <2>1, <2>2, DiskKept
<1>10. LogsOK' /\ ManifestsOK' /\ TablesOK' /\ current' \in Nat /\ HistOK' /\ Bounded'
    BY <1>1, <1>2 DEF TypeOK, LogsOK, ManifestsOK, TablesOK, HistOK, Bounded
<1>11. wr' \in [Writers -> [pc : {"idle", "queued", "waitbg"} \cup Active, id : Nat,
                            sync : BOOLEAN, over : SUBSET Item]]
    BY <1>1, <1>2 DEF TypeOK, WritersOK
<1>. QED
    BY <1>1, <1>3, <1>4, <1>5, <1>6, <1>9, <1>10, <1>11, Stops

(* The machine's crash cuts each file somewhere after its last sync *)

\* What is cut from the logs is gone; what was synced is not.
LEMMA LogsCut ==
    ASSUME LogsOK, NEW g \in Left(logs, TRUE)
    PROVE  /\ DOMAIN g = DOMAIN logs
           /\ \A n \in DOMAIN g : g[n] \in Log /\ g[n].synced <= Len(g[n].recs)
           /\ \A m : /\ LogItems(g, m) \subseteq LogItems(logs, m)
                     /\ SyncedItems(logs, m) \subseteq SyncedItems(g, m)
                     /\ SyncedItems(g, m) \subseteq LogItems(g, m)
<1>0. PICK c \in [DOMAIN logs -> 0..Longest(logs)] :
          /\ \A i \in DOMAIN logs : c[i] \in logs[i].synced..Len(logs[i].recs)
          /\ g = [i \in DOMAIN logs |->
                     [logs[i] EXCEPT !.recs = SubSeq(@, 1, c[i]), !.synced = c[i]]]
    BY DEF Left
<1>1. ASSUME NEW n \in DOMAIN logs
      PROVE  /\ g[n] \in Log /\ g[n].synced <= Len(g[n].recs)
             /\ ItemsOf(g[n].recs) \subseteq ItemsOf(logs[n].recs)
             /\ SyncedOf(logs[n]) \subseteq SyncedOf(g[n])
             /\ SyncedOf(g[n]) \subseteq ItemsOf(g[n].recs)
  <2>. DEFINE r == logs[n].recs
              k == c[n]
  <2>1. /\ k \in logs[n].synced..Len(r) /\ logs[n].torn \in BOOLEAN
        /\ g[n] = [recs |-> SubSeq(r, 1, k), synced |-> k, torn |-> logs[n].torn]
      BY <1>0 DEF LogsOK, Log
  <2>2. r \in Seq(SUBSET Item) /\ logs[n].synced \in Nat /\ logs[n].synced <= Len(r)
        /\ Len(r) \in Nat
      BY DEF LogsOK, Log
  <2>. HIDE DEF r, k
  <2>3. k \in Nat /\ k <= Len(r) /\ logs[n].synced <= k
      BY <2>1, <2>2
  <2>4. SubSeq(r, 1, k) \in Seq(SUBSET Item) /\ Len(SubSeq(r, 1, k)) = k
        /\ \A i \in 1..k : SubSeq(r, 1, k)[i] = r[i]
      BY <2>2, <2>3
  <2>5. g[n] \in Log /\ g[n].synced = k /\ g[n].recs = SubSeq(r, 1, k)
      BY <2>1, <2>3, <2>4 DEF Log
  <2>6. DOMAIN SubSeq(r, 1, k) = 1..k /\ DOMAIN r = 1..Len(r)
      BY <2>2, <2>4
  <2>7. ItemsOf(g[n].recs) \subseteq ItemsOf(r)
      BY <2>2, <2>3, <2>4, <2>5, <2>6 DEF ItemsOf, Elements
  <2>8. SyncedOf(logs[n]) \subseteq SyncedOf(g[n])
    <3>1. \A j \in 1..logs[n].synced : j \in 1..k /\ g[n].recs[j] = r[j]
        BY <2>2, <2>3, <2>4, <2>5
    <3>. QED
        BY <3>1, <2>5 DEF SyncedOf, r
  <2>9. g[n].synced <= Len(g[n].recs)
      BY <2>3, <2>4, <2>5
  <2>. QED
      BY <2>5, <2>7, <2>8, <2>9, SyncedOfIs DEF r
<1>2. DOMAIN g = DOMAIN logs
    BY <1>0
<1>3. \A m : LogItems(g, m) \subseteq LogItems(logs, m)
    BY <1>1, <1>2 DEF LogItems
<1>4. \A m : SyncedItems(logs, m) \subseteq SyncedItems(g, m)
    BY <1>1, <1>2 DEF SyncedItems
<1>5. \A m : SyncedItems(g, m) \subseteq LogItems(g, m)
    BY <1>1, <1>2 DEF SyncedItems, LogItems
<1>. QED
    BY <1>1, <1>2, <1>3, <1>4, <1>5

\* Of a MANIFEST a prefix is left.
LEMMA ManifestsCut ==
    ASSUME ManifestsOK, NEW g \in Left(manifests, TRUE), NEW n \in DOMAIN manifests
    PROVE  LET r == manifests[n].recs
           IN /\ DOMAIN g = DOMAIN manifests
              /\ \E k \in manifests[n].synced..Len(r) :
                    /\ k \in 0..Len(r) /\ g[n] \in Manifest /\ g[n].synced = k
                    /\ g[n].recs = SubSeq(r, 1, k) /\ Len(g[n].recs) = k
<1>. DEFINE r == manifests[n].recs
<1>0. PICK c \in [DOMAIN manifests -> 0..Longest(manifests)] :
          /\ \A i \in DOMAIN manifests : c[i] \in manifests[i].synced..Len(manifests[i].recs)
          /\ g = [i \in DOMAIN manifests |->
                     [manifests[i] EXCEPT !.recs = SubSeq(@, 1, c[i]), !.synced = c[i]]]
    BY DEF Left
<1>. DEFINE k == c[n]
<1>1. /\ k \in manifests[n].synced..Len(r) /\ manifests[n].torn \in BOOLEAN
      /\ g[n] = [recs |-> SubSeq(r, 1, k), synced |-> k, torn |-> manifests[n].torn]
    BY <1>0 DEF ManifestsOK, Manifest
<1>2. r \in Seq(Edits) /\ manifests[n].synced \in Nat /\ Len(r) \in Nat
    BY DEF ManifestsOK, Manifest
<1>3. DOMAIN g = DOMAIN manifests
    BY <1>0
<1>. HIDE DEF r
<1>4. k \in Nat /\ k \in 0..Len(r)
    BY <1>1, <1>2
<1>5. SubSeq(r, 1, k) \in Seq(Edits) /\ Len(SubSeq(r, 1, k)) = k
    BY <1>2, <1>4
<1>6. g[n] \in Manifest
    BY <1>1, <1>4, <1>5 DEF Manifest
<1>7. g[n].synced = k /\ g[n].recs = SubSeq(r, 1, k) /\ Len(g[n].recs) = k
    BY <1>1, <1>5
<1>. HIDE DEF k
<1>. QED
    BY <1>1, <1>3, <1>4, <1>6, <1>7 DEF r

\* Whatever the machine's crash leaves of the disk, a recovery finds what was
\* synced there.
LEMMA DiskCut ==
    ASSUME TypeOK, Disk, logs' \in Left(logs, TRUE), manifests' \in Left(manifests, TRUE),
           UNCHANGED <<tables, current>>, hist'.opened = hist.opened,
           hist'.synced = hist.synced /\ hist'.behind = hist.behind,
           hist'.acked = hist.synced \cup (hist.acked \cap Recoverable')
    PROVE  Disk' /\ LogsOK' /\ ManifestsOK' /\ LogItems(logs', 0) \subseteq LogItems(logs, 0)
<1>1. /\ DOMAIN logs' = DOMAIN logs
      /\ \A n \in DOMAIN logs' : logs'[n] \in Log /\ logs'[n].synced <= Len(logs'[n].recs)
      /\ \A m : /\ LogItems(logs', m) \subseteq LogItems(logs, m)
                /\ SyncedItems(logs, m) \subseteq SyncedItems(logs', m)
                /\ SyncedItems(logs', m) \subseteq LogItems(logs', m)
    BY LogsCut DEF TypeOK
<1>2. LogsOK'
    BY <1>1 DEF TypeOK, LogsOK
<1>3. ASSUME NEW n \in DOMAIN manifests
      PROVE  \E k \in manifests[n].synced..Len(manifests[n].recs) :
                /\ k \in 0..Len(manifests[n].recs)
                /\ manifests'[n] \in Manifest /\ manifests'[n].synced = k
                /\ manifests'[n].recs = SubSeq(manifests[n].recs, 1, k)
                /\ Len(manifests'[n].recs) = k
    BY ManifestsCut DEF TypeOK
<1>4. DOMAIN manifests' = DOMAIN manifests
    BY DEF Left
<1>5. ManifestsOK'
  <2>1. ASSUME NEW n \in DOMAIN manifests
        PROVE  manifests'[n] \in Manifest /\ manifests'[n].synced <= Len(manifests'[n].recs)
    <3>1. manifests'[n] \in Manifest /\ manifests'[n].synced = Len(manifests'[n].recs)
        BY <1>3
    <3>. QED
        BY <3>1 DEF Manifest
  <2>. QED
      BY <2>1, <1>4 DEF TypeOK, ManifestsOK
<1>6. hist'.synced \subseteq hist'.acked
    OBVIOUS
<1>7. hist.synced \subseteq hist.acked /\ (current # 0 => current \in DOMAIN manifests)
      /\ (current < 2 => ~hist.opened /\ hist.acked = {} /\ LogItems(logs, 0) = {})
      /\ (current >= 2 => manifests[current].synced >= 2) /\ current \in Nat
    BY DEF Disk, TypeOK
<1>8. current' < 2 => ~hist'.opened /\ hist'.acked = {} /\ LogItems(logs', 0) = {}
    BY <1>1, <1>7
<1>9. CASE current = 0
  <2>1. hist'.acked = {} /\ hist'.synced = {}
      BY <1>6, <1>8, <1>9
  <2>. QED
      BY <2>1, <1>1, <1>2, <1>5, <1>8, <1>9 DEF Disk, Answered, Guaranteed
<1>10. CASE current # 0
  <2>1. PICK k \in manifests[current].synced..Len(Recs) :
            /\ k \in 0..Len(Recs) /\ manifests'[current].synced = k
            /\ Recs' = SubSeq(Recs, 1, k) /\ Len(Recs') = k
      BY <1>3, <1>7, <1>10 DEF Recs
  <2>2. /\ Recs \in Seq(Edits) /\ Len(Recs) \in Nat /\ manifests[current].synced \in Nat
        /\ k \in Prefixes /\ k \in Nat
      BY <2>1, <1>7, <1>10, RecsType DEF Prefixes
  <2>3. /\ Recs' \in Seq(Edits) /\ (\A i \in 1..k : Recs'[i] = Recs[i])
        /\ VersionAt(Recs', k) = VersionAt(Recs, k)
    <3>1. k \in 0..k
        BY <2>2
    <3>. QED
        BY <3>1, <2>1, <2>2, VersionAtPrefix
  <2>4. Prefixes' = {k}
    <3>1. k..k = {k}
        BY <2>2
    <3>. QED
        BY <3>1, <2>1 DEF Prefixes
  <2>5. current' >= 2 => manifests'[current'].synced >= 2
    <3>1. manifests[current].synced <= k
        BY <2>1, <2>2
    <3>. QED
        BY <3>1, <2>1, <2>2, <1>7
  <2>6. CASE k = 0
    <3>1. ~(current >= 2)
        BY <2>6, <2>1, <2>5
    <3>2. hist'.acked = {}
        BY <3>1, <1>7, <1>8
    <3>3. \A j \in Prefixes' : ~(j > 0)
        BY <2>4, <2>6
    <3>. QED
        BY <3>2, <3>3, <1>2, <1>1, <1>4, <1>5, <1>6, <1>7, <1>8, <2>5 DEF Disk, Answered, Guaranteed
  <2>7. CASE k > 0
    <3>. DEFINE e == Recs[k]
                T == TableItems(Version(k), tables)
    <3>1. Sound(k)
        BY <2>2, <2>7, <1>10 DEF Disk
    <3>2. Recs'[k] = e /\ VersionAt(Recs', k) = Version(k) /\ Recs'[Len(Recs')] = e
          /\ k \in DOMAIN Recs'
        BY <2>1, <2>2, <2>3, <2>7 DEF Version
    <3>3. /\ Version(k) \subseteq DOMAIN tables
          /\ e.log \in Nat /\ e.next \in Nat /\ e.seq \in Nat
          /\ (\A t \in Version(k) : t < e.next)
          /\ e.log < e.next /\ current < e.next /\ e.next <= e.next
          /\ UpTo(T, e.seq) /\ Distinct(T \cup LogItems(logs, e.log))
          /\ Guaranteed \subseteq T \cup SyncedItems(logs, e.log)
        BY <3>1 DEF Sound
    <3>4. Distinct(T \cup LogItems(logs', e.log))
        BY <3>3, <1>1 DEF Distinct
    <3>5. Guaranteed' \subseteq T \cup SyncedItems(logs', e.log)
        BY <3>3, <1>1 DEF Guaranteed
    <3>. HIDE DEF e, T
    <3>6. \A j \in Prefixes' : Sound(j)'
      <4>1. SUFFICES ASSUME NEW j, j = k PROVE Sound(j)'
          BY <2>4
      <4>2. Version(j)' = Version(k) /\ Recs'[j] = e
          BY <3>2, <4>1 DEF Version
      <4>. QED
          BY <4>1, <4>2, <3>2, <3>3, <3>4, <3>5 DEF Sound, T
    <3>7. VersionOf(Recs') = Version(k) /\ LastEdit(Recs') = e
      <4>1. VersionOf(Recs') = VersionAt(Recs', k)
          BY <2>1, <2>3, VersionOfIs
      <4>. QED
          BY <4>1, <3>2 DEF LastEdit
    <3>8. Openable'
      <4>1. e.next > 0
          BY <3>3, <1>7
      <4>2. Readable(Recs')
          BY <4>1, <2>3, <3>2, CanBeRead
      <4>. QED
          BY <4>2, <3>3, <3>7, <1>4, <1>7, <1>10 DEF Openable, Recs
    <3>9. Recoverable' = T \cup LogItems(logs', e.log)
        BY <3>7, <3>8 DEF Recoverable, TableItems, LogItems, Recs, T
    <3>10. Answered' \subseteq Recoverable'
        BY <3>5, <3>9, <1>1 DEF Answered, Guaranteed
    <3>. QED
        BY <3>6, <3>10, <1>1, <1>2, <1>4, <1>5, <1>6, <1>7, <1>8, <2>5 DEF Disk
  <2>. QED
      BY <2>2, <2>6, <2>7
<1>. QED
    BY <1>9, <1>10

LEMMA CrashKeeps ==
    ASSUME StoreInv, NEW machine \in BOOLEAN, Crash(machine)
    PROVE  StoreInv'
<1>1. /\ logs' \in Left(logs, machine) /\ manifests' \in Left(manifests, machine)
      /\ UNCHANGED <<tables, current>>
      /\ db' = Closed /\ queue' = <<>> /\ wr' = [w \in Writers |-> Idle]
      /\ lead' = NoLead /\ bg' = NoWork
      /\ hist' = [hist EXCEPT !.crashes = @ + 1,
                    !.acked = IF machine THEN hist.synced \cup (@ \cap Recoverable') ELSE @]
    BY DEF Crash
<1>2. TypeOK /\ Bounded /\ Disk
    BY DiskIs
<1>. DEFINE acked == IF machine THEN hist.synced \cup (hist.acked \cap Recoverable')
                     ELSE hist.acked
<1>3. hist'.opened = hist.opened /\ hist'.synced = hist.synced /\ hist'.behind = hist.behind /\ hist'.acked = acked /\ HistOK'
  <2>1. hist.acked \in SUBSET Item /\ hist.synced \in SUBSET Item /\ HistOK
      BY <1>2 DEF TypeOK, HistOK
  <2>2. acked \in SUBSET Item
      BY <2>1
  <2>. HIDE DEF acked
  <2>3. hist' = [hist EXCEPT !.crashes = @ + 1, !.acked = acked]
      BY <1>1, <2>1 DEF HistOK, acked
  <2>4. hist.crashes + 1 \in Nat
      BY <2>1 DEF HistOK
  <2>5. HistOK'
      BY <2>1, <2>2, <2>3, <2>4 DEF HistOK
  <2>. QED
      BY <2>1, <2>3, <2>5 DEF HistOK
<1>4. LogsOK' /\ ManifestsOK' /\ Disk' /\ Bounded'
  <2>1. CASE machine = TRUE
    <3>1. logs' \in Left(logs, TRUE) /\ manifests' \in Left(manifests, TRUE)
          /\ hist'.acked = hist.synced \cup (hist.acked \cap Recoverable')
        BY <1>1, <1>3, <2>1
    <3>. QED
        BY <3>1, <1>1, <1>2, <1>3, DiskCut, BoundedKept
  <2>2. CASE machine = FALSE
    <3>1. logs' = logs /\ manifests' = manifests /\ hist'.acked = hist.acked
        BY <1>1, <1>3, <2>2 DEF Left
    <3>2. 0 \notin DOMAIN manifests
        BY <1>2 DEF TypeOK, ManifestsOK
    <3>3. current # 0 => \A k \in Prefixes : k > 0 => \A t \in Version(k) : t \in DOMAIN tables
        BY <1>2 DEF Disk, Sound
    <3>4. current # 0 => current \in DOMAIN manifests
        BY <1>2 DEF Disk
    <3>5. Disk'
        BY <3>1, <3>2, <3>3, <3>4, <1>1, <1>2, <1>3, DiskKept
    <3>. QED
        BY <3>1, <3>5, <1>2 DEF TypeOK, LogsOK, ManifestsOK, Bounded
  <2>. QED
      BY <2>1, <2>2
<1>5. TablesOK' /\ current' \in Nat
    BY <1>1, <1>2 DEF TypeOK, TablesOK
<1>6. Idle \in [pc : {"idle", "queued", "waitbg"} \cup Active, id : Nat,
                sync : BOOLEAN, over : SUBSET Item] /\ Idle.pc \notin Active
    BY DEF Idle, Active
<1>. HIDE DEF Idle
<1>7. /\ wr' \in [Writers -> [pc : {"idle", "queued", "waitbg"} \cup Active, id : Nat,
                              sync : BOOLEAN, over : SUBSET Item]]
      /\ \A w \in Writers : wr'[w].pc \notin Active
    BY <1>1, <1>6
<1>. QED
    BY <1>1, <1>3, <1>4, <1>5, <1>7, Stops

-----------------------------------------------------------------------------
(* The invariant *)

LEMMA InitInv == Init => StoreInv
<1>. SUFFICES ASSUME Init PROVE StoreInv
    OBVIOUS
<1>1. /\ logs = <<>> /\ manifests = <<>> /\ tables = <<>> /\ current = 0
      /\ db = Closed /\ queue = <<>> /\ wr = [w \in Writers |-> Idle]
      /\ lead = NoLead /\ bg = NoWork /\ hist.opened = FALSE
      /\ hist.acked = {} /\ hist.synced = {} /\ HistOK
    BY DEF Init, HistOK
<1>2. DOMAIN logs = {} /\ DOMAIN manifests = {} /\ DOMAIN tables = {}
    BY <1>1
<1>3. LogsOK /\ ManifestsOK /\ TablesOK
    BY <1>2 DEF LogsOK, ManifestsOK, TablesOK
<1>4. DbOK /\ db.state = "closed"
    BY <1>1 DEF DbOK, DbType, Closed, None
<1>5. WritersOK /\ \A w \in Writers : wr[w].pc \notin Active
    BY <1>1 DEF WritersOK, Idle, Active
<1>6. LeadOK /\ BgOK
    BY <1>1 DEF LeadOK, BgOK, NoLead, NoWork, NoEdit, Edits
<1>7. LogItems(logs, 0) = {}
    BY <1>2 DEF LogItems
<1>8. Bounded
    BY <1>7 DEF Bounded, UpTo
<1>9. lead.items = {} /\ IsFiniteSet({})
    BY <1>1, FS_EmptySet DEF NoLead
<1>10. Writing
    BY <1>1, <1>5, <1>9 DEF Writing, Distinct
<1>11. Open
    BY <1>1, <1>4 DEF Open, Closed, None, Opening
<1>12. Disk
    BY <1>1, <1>7 DEF Disk, Answered, Guaranteed
<1>. QED
    BY <1>1, <1>3, <1>4, <1>5, <1>6, <1>8, <1>10, <1>11, <1>12 DEF StoreInv, TypeOK, Running

LEMMA OpenStepKeeps ==
    ASSUME StoreInv, OpenStep
    PROVE  StoreInv'
BY OpenStartKeeps, OpenSetFirstKeeps, OpenRecoverKeeps, OpenReplayKeeps, OpenNewLogKeeps,
   OpenDescriptorKeeps, OpenSyncKeeps, OpenSetCurrentKeeps, OpenInstallKeeps DEF OpenStep

LEMMA WriteStepKeeps ==
    ASSUME StoreInv, NEW w \in Writers, WriteStep(w)
    PROVE  StoreInv'
BY RefuseWriteKeeps, StartWriteKeeps, AwaitBackgroundKeeps, SwitchMemTableKeeps,
   AppendRecordKeeps, SyncRecordKeeps, FinishWriteKeeps DEF WriteStep

LEMMA BackgroundStepKeeps ==
    ASSUME StoreInv, BackgroundStep, ~hist'.misplaced
    PROVE  StoreInv'
<1>1. db.state \in Running
  <2>1. SUFFICES ASSUME db.state \notin Running PROVE FALSE
      OBVIOUS
  <2>2. Still
      BY <2>1 DEF StoreInv, TypeOK, DbOK, DbType, Still
  <2>3. bg.pc = "idle" /\ ~db.scheduled
    <3>1. bg = NoWork /\ db.scheduled = FALSE
        BY <2>2, StillIs
    <3>. QED
        BY <3>1 DEF NoWork
  <2>. QED
      BY <2>3 DEF BackgroundStep, BackgroundCall, FlushFirst, BuildTable, FinishMerge,
                  LogEdit, SyncEdit, Install
<1>. QED
    BY <1>1, BackgroundCallKeeps, FlushFirstKeeps, BuildTableKeeps, FinishMergeKeeps,
       LogEditKeeps, SyncEditKeeps, InstallKeeps DEF BackgroundStep

LEMMA StutterKeeps ==
    ASSUME StoreInv, UNCHANGED vars
    PROVE  StoreInv'
<1>1. UNCHANGED <<logs, manifests, tables, current, db, queue, wr, lead, bg, hist>>
    BY DEF vars
<1>2. TypeOK' /\ Bounded' /\ Open' /\ Writing'
  <2>1. TypeOK'
      BY <1>1 DEF StoreInv, TypeOK, LogsOK, ManifestsOK, TablesOK, DbOK, WritersOK,
                  LeadOK, BgOK, HistOK
  <2>2. Bounded' /\ Writing'
      BY <1>1 DEF StoreInv, Bounded, Writing
  <2>3. Open'
      BY <1>1 DEF StoreInv, Open, Recovered, NewLog, NewManifest, NewEdits, Version, Recs
  <2>. QED
      BY <2>1, <2>2, <2>3
<1>3. Recs' = Recs /\ Prefixes' = Prefixes /\ (\A k : Version(k)' = Version(k))
    BY <1>1 DEF Recs, Prefixes, Version
<1>4. CASE db.state \in Running
  <2>1. Numbers' /\ (\A k \in Prefixes' : Follows(k)')
      BY <1>1, <1>3, <1>4 DEF StoreInv, Run, Numbers, Follows
  <2>2. InStep' /\ Background' /\ EditAtHand' /\ Memtables' /\ Told' /\ Logged'
      BY <1>1, <1>3, <1>4 DEF StoreInv, Run, InStep, Background, EditAtHand, Memtables, Told,
         Logged, Unnamed, Installed, Contents, Version, Answered, Guaranteed
  <2>3. Numbered'
      BY <1>1, <1>3, <1>4 DEF StoreInv, Run, Numbered, Pool, Contents
  <2>. QED
      BY <1>1, <1>2, <1>4, <2>1, <2>2, <2>3, StaysRunning DEF Run
<1>5. CASE db.state \notin Running
  <2>1. Recoverable' = Recoverable
      BY <1>1 DEF Recoverable, Openable
  <2>2. Disk'
      BY <1>1, <1>3, <1>5, <2>1 DEF StoreInv, Disk, Sound, Answered, Guaranteed
  <2>. QED
      BY <1>1, <1>2, <1>5, <2>2 DEF StoreInv
<1>. QED
    BY <1>4, <1>5

LEMMA NextKeeps ==
    ASSUME StoreAssumption, StoreInv, [Next]_vars, ~hist'.misplaced
    PROVE  StoreInv'
<1>1. ASSUME OpenStep \/ BackgroundStep \/ Close \/ CloseDone PROVE StoreInv'
    BY <1>1, OpenStepKeeps, BackgroundStepKeeps, CloseKeeps, CloseDoneKeeps
<1>2. ASSUME NEW machine \in Machines, Crash(machine) PROVE StoreInv'
    BY <1>2, CrashKeeps DEF StoreAssumption
<1>3. ASSUME NEW w \in Writers, WriteStep(w) PROVE StoreInv'
    BY <1>3, WriteStepKeeps
<1>4. ASSUME NEW w \in Writers, NEW sync \in Syncs, Write(w, sync, hist.ops + 1)
      PROVE  StoreInv'
  <2>1. hist.ops + 1 \in Nat /\ sync \in BOOLEAN
      BY DEF StoreInv, TypeOK, HistOK, StoreAssumption
  <2>. QED
      BY <1>4, <2>1, WriteKeeps
<1>5. ASSUME NEW w \in Writers, Write(w, FALSE, 0) PROVE StoreInv'
    BY <1>5, WriteKeeps
<1>6. ASSUME Quiet \/ UNCHANGED vars PROVE StoreInv'
    BY <1>6, StutterKeeps DEF Quiet
<1>. QED
    BY <1>1, <1>2, <1>3, <1>4, <1>5, <1>6 DEF Next

\* A MANIFEST that has been appended to behind a failed append stays so.
Known == "misplaced" \in DOMAIN hist /\ hist.misplaced \in BOOLEAN

LEMMA MisplacedStays ==
    ASSUME Known, [Next]_vars
    PROVE  Known' /\ (hist.misplaced => hist'.misplaced)
<1>1. ASSUME hist' = hist \/ hist' = Fault PROVE Known' /\ hist'.misplaced = hist.misplaced
    BY <1>1 DEF Known, Fault
<1>2. ASSUME OpenStep PROVE Known' /\ hist'.misplaced = hist.misplaced
  <2>1. ASSUME OpenInstall PROVE Known' /\ hist'.misplaced = hist.misplaced
      BY <2>1 DEF OpenInstall, Known
  <2>2. hist' = hist \/ hist' = Fault \/ OpenInstall
      BY <1>2 DEF OpenStep, OpenStart, OpenSetFirst, OpenRecover, OpenReplay, OpenNewLog,
                  OpenDescriptor, OpenSync, OpenSetCurrent, FailOpen
  <2>. QED
      BY <1>1, <2>1, <2>2
<1>3. ASSUME BackgroundStep PROVE Known' /\ (hist.misplaced => hist'.misplaced)
  <2>1. ASSUME Install PROVE Known' /\ hist'.misplaced = hist.misplaced
      BY <2>1 DEF Install, Known
  <2>2. ASSUME LogEdit PROVE Known' /\ (hist.misplaced => hist'.misplaced)
    <3>1. PICK faults, torn : hist' = [hist EXCEPT !.faults = faults,
                                                   !.misplaced = @ \/ torn]
        BY <2>2 DEF LogEdit
    <3>. QED
        BY <3>1 DEF Known
  <2>3. hist' = hist \/ hist' = Fault \/ Install \/ LogEdit
      BY <1>3 DEF BackgroundStep, BackgroundCall, FlushFirst, BuildTable, FinishMerge, SyncEdit
  <2>. QED
      BY <1>1, <2>1, <2>2, <2>3
<1>4. ASSUME Close \/ CloseDone \/ Quiet \/ UNCHANGED vars
      PROVE  Known' /\ hist'.misplaced = hist.misplaced
    BY <1>4 DEF Close, CloseDone, Quiet, vars, Known
<1>5. ASSUME NEW machine, Crash(machine) PROVE Known' /\ hist'.misplaced = hist.misplaced
    BY <1>5 DEF Crash, Known
<1>6. ASSUME NEW w, WriteStep(w) PROVE Known' /\ hist'.misplaced = hist.misplaced
  <2>1. ASSUME AppendRecord(w) PROVE Known' /\ hist'.misplaced = hist.misplaced
      BY <2>1 DEF AppendRecord, Known
  <2>2. ASSUME FinishWrite(w) PROVE Known' /\ hist'.misplaced = hist.misplaced
      BY <2>2 DEF FinishWrite, Known
  <2>3. hist' = hist \/ hist' = Fault \/ AppendRecord(w) \/ FinishWrite(w)
      BY <1>6 DEF WriteStep, RefuseWrite, StartWrite, AwaitBackground, SwitchMemTable, SyncRecord
  <2>. QED
      BY <1>1, <2>1, <2>2, <2>3
<1>7. ASSUME NEW w, NEW sync, NEW id, Write(w, sync, id)
      PROVE  Known' /\ hist'.misplaced = hist.misplaced
    BY <1>7 DEF Write, Known
<1>. QED
    BY <1>2, <1>3, <1>4, <1>5, <1>6, <1>7 DEF Next

IndInv == Known /\ (~hist.misplaced => StoreInv)

LEMMA StoreInvariant == ASSUME StoreAssumption PROVE Spec => []IndInv
<1>1. Init => IndInv
    BY InitInv DEF Init, IndInv, Known
<1>2. IndInv /\ [Next]_vars => IndInv'
    BY NextKeeps, MisplacedStays DEF IndInv
<1>. QED
    BY <1>1, <1>2, PTL DEF Spec

-----------------------------------------------------------------------------
(* The theorems *)

LEMMA InvariantImplies ==
    /\ IndInv => AckedSurvive /\ OpenableAgain /\ ReadersAgreeWithDisk
    /\ IndInv => (~hist.misplaced => NothingNeededDeleted)
BY InvariantSays DEF IndInv, AckedSurvive, OpenableAgain, ReadersAgreeWithDisk

\* What a Write has answered OK to is found again (options.h:195-201): at
\* every moment, what DB::Open would read from the MANIFEST that CURRENT
\* names, its tables and its logs holds every write that has been
\* acknowledged and not lost with a machine, and every synced one, but for
\* those logged behind a failed append and not flushed yet, and if nothing was
\* appended to a MANIFEST behind a failed append.
THEOREM AcknowledgedWritesSurvive == ASSUME StoreAssumption PROVE Spec => []AckedSurvive
BY StoreInvariant, InvariantImplies, PTL

\* A database that DBImpl has opened once can always be opened again: CURRENT
\* names a MANIFEST that can be read, and the tables it lists are there
\* (VersionSet::Recover, DeleteObsoleteFiles), whatever crashes and failures
\* come between, if nothing was appended to a MANIFEST behind a failed append.
THEOREM AlwaysOpenableAgain == ASSUME StoreAssumption PROVE Spec => []OpenableAgain
BY StoreInvariant, InvariantImplies, PTL

\* While nothing was appended to a MANIFEST behind a failed append,
\* DeleteObsoleteFiles never deletes a table of the current version, an input
\* or an output of the running compaction, the log in use, or the log that
\* holds the immutable memtable.
THEOREM NeededFilesKept ==
    ASSUME StoreAssumption
    PROVE  Spec => [](~hist.misplaced => NothingNeededDeleted)
BY StoreInvariant, InvariantImplies, PTL

\* While the database is open, what a reader sees (the two memtables and the
\* current version) holds all that was acknowledged and nothing that a
\* recovery would not find, with one write to a sequence number and none
\* above LastSequence; the exceptions are those of AcknowledgedWritesSurvive.
THEOREM ReadersSeeTheDisk == ASSUME StoreAssumption PROVE Spec => []ReadersAgreeWithDisk
BY StoreInvariant, InvariantImplies, PTL
=============================================================================
