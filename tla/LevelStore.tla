----------------------------- MODULE LevelStore -----------------------------
(***************************************************************************)
(* leveldb's DBImpl as a store that survives crashes (db/db_impl.cc,       *)
(* db/version_set.cc, db/builder.cc, db/filename.cc): DB::Open and its     *)
(* recovery, the queue of writers and their group commit, the switch of    *)
(* log and memtable, the background thread that writes tables and the      *)
(* MANIFEST, and the deletion of obsolete files.                           *)
(*                                                                         *)
(* A write is an item [seq, id]; a memtable, a table and a record of a log  *)
(* are sets of items.                                                      *)
(* Which files a level compaction picks and which items it drops is module *)
(* LevelCompaction's: here it replaces tables by one with the same items.  *)
(* A file's metadata is durable at once, its contents once synced.  An      *)
(* append that fails may leave part of a record; the writer counts the      *)
(* bytes as if they were there, so what it appends to the same file later   *)
(* may be unreadable (module LevelLog has the bytes).                       *)
(* reuse_logs is false, its default.                                       *)
(***************************************************************************)
EXTENDS Integers, Sequences, FiniteSets

CONSTANTS Writers,           \* threads calling Write
          BufferLimit,       \* items in a memtable before it counts as full
          CompactionTrigger, \* tables that call for a compaction
          StopTrigger,       \* tables at which writers wait
          MaxOps, MaxCrashes, MaxFaults,       \* bounds
          Machines,          \* TRUE in it: the machine may crash, FALSE: the process
          Syncs              \* the values of WriteOptions::sync that callers use

StoreAssumption == Machines \subseteq BOOLEAN /\ Syncs \subseteq BOOLEAN

VARIABLES
    logs,       \* logs[n]: log n's records, how many of them are synced, and
                \* whether the file lacks part of a record the writer counts
    manifests,  \* manifests[n]: the same of MANIFEST-n
    tables,     \* tables[n]: the items of table n
    current,    \* the MANIFEST that CURRENT names, 0 without CURRENT
    db,         \* DBImpl and VersionSet, under mutex_
    queue,      \* writers_
    wr,         \* wr[w]: the Writer of a thread
    lead,       \* what the front writer is logging
    bg,         \* the background thread
    hist        \* what the callers have been told

vars == <<logs, manifests, tables, current, db, queue, wr, lead, bg, hist>>
disk == <<logs, manifests, tables, current>>

None == {}                      \* no immutable memtable: it is never empty
NoLead == [writers |-> <<>>, items |-> {}, sync |-> FALSE]
NoEdit == [add |-> {}, del |-> {}, log |-> 0, next |-> 0, seq |-> 0]
Unsynced(records) == [recs |-> records, synced |-> 0, torn |-> FALSE]
EmptyLog == Unsynced(<<>>)
Grown(file, records, whole) ==
    [recs |-> file.recs \o records, synced |-> file.synced, torn |-> file.torn \/ ~whole]
NoWork == [pc |-> "idle", out |-> 0, edit |-> NoEdit, inputs |-> {}, merged |-> 0]
Closed == [state |-> "closed", mem |-> {}, imm |-> None, logfile |-> 0, next |-> 2,
           manifest |-> 0, lastSeq |-> 0, logNumber |-> 0, version |-> {},
           pending |-> {}, bgError |-> FALSE, scheduled |-> FALSE,
           replay |-> {}, added |-> {}]
Idle == [pc |-> "idle", id |-> 0, sync |-> FALSE, over |-> {}]

Init ==
    /\ logs = <<>> /\ manifests = <<>> /\ tables = <<>> /\ current = 0
    /\ db = Closed /\ queue = <<>> /\ wr = [w \in Writers |-> Idle]
    /\ lead = NoLead /\ bg = NoWork
    /\ hist = [ops |-> 0, crashes |-> 0, faults |-> 0, opened |-> FALSE,
               acked |-> {}, synced |-> {}, behind |-> {}, misplaced |-> FALSE]

Least(S) == CHOOSE n \in S : \A m \in S : n <= m
Greatest(S) == CHOOSE n \in S : \A m \in S : m <= n
Without(f, S) == [x \in DOMAIN f \ S |-> f[x]]
Put(f, n, v) == [x \in DOMAIN f \cup {n} |-> IF x = n THEN v ELSE f[x]]
Elements(s) == {s[i] : i \in DOMAIN s}
ItemsOf(records) == UNION Elements(records)
Seqs(items) == {i.seq : i \in items}
Fault == [hist EXCEPT !.faults = @ + 1]
MayFail == hist.faults < MaxFaults

-----------------------------------------------------------------------------
(* The MANIFEST: a sequence of edits; the first of a new one lists all files *)

Edit(add, del, log, next, seq) ==
    [add |-> add, del |-> del, log |-> log, next |-> next, seq |-> seq]
Snapshot(version) == Edit(version, {}, -1, -1, -1)     \* WriteSnapshot

\* What a reader makes of an edit behind part of another: Open gives it up.
Unreadable == Edit({}, {}, -1, -2, -1)

Readable(edits) ==
    /\ \E i \in DOMAIN edits : edits[i].next > 0
    /\ Unreadable \notin Elements(edits)
LastEdit(edits) == edits[Len(edits)]
VersionOf(edits) ==
    (UNION {e.add : e \in Elements(edits)}) \ (UNION {e.del : e \in Elements(edits)})

(* What DB::Open would find now: the items of the tables of the version that *)
(* CURRENT's MANIFEST describes, and of the logs it says are still needed.   *)
Openable ==
    /\ current \in DOMAIN manifests
    /\ Readable(manifests[current].recs)
    /\ VersionOf(manifests[current].recs) \subseteq DOMAIN tables
Recoverable ==
    IF ~Openable THEN {}
    ELSE LET edits == manifests[current].recs
         IN (UNION {tables[t] : t \in VersionOf(edits)})
            \cup (UNION {ItemsOf(logs[n].recs) :
                           n \in {m \in DOMAIN logs : m >= LastEdit(edits).log}})

-----------------------------------------------------------------------------
(* Scheduling and garbage *)

NeedsCompaction(d) == Cardinality(d.version) >= CompactionTrigger
MaybeScheduleCompaction(d) ==
    IF d.bgError \/ d.state = "closing" \/ (d.imm = None /\ ~NeedsCompaction(d)) THEN d
    ELSE [d EXCEPT !.scheduled = TRUE]

NotSignalled == wr              \* mutant: the waiting writer is not woken
(* bg_cv_.SignalAll wakes the writer that waits in MakeRoomForWrite.          *)
Signalled == [w \in Writers |->
    IF wr[w].pc = "waitbg" THEN [wr[w] EXCEPT !.pc = "queued"] ELSE wr[w]]

KeptButPending(d, held) ==      \* mutant: an output being written is garbage
    [logs |-> {n \in DOMAIN logs : n >= d.logNumber},
     manifests |-> {n \in DOMAIN manifests : n >= d.manifest},
     tables |-> DOMAIN tables \cap (d.version \cup held)]
(* What DeleteObsoleteFiles keeps, given the state d and the tables that      *)
(* versions still referenced hold.                                           *)
Kept(d, held) ==
    [logs |-> {n \in DOMAIN logs : n >= d.logNumber},
     manifests |-> {n \in DOMAIN manifests : n >= d.manifest},
     tables |-> DOMAIN tables \cap (d.version \cup d.pending \cup held)]

DeleteAlways(d, held) ==        \* mutant: garbage is collected after an error
    LET keep == Kept(d, held)
    IN /\ logs' = Without(logs, DOMAIN logs \ keep.logs)
       /\ manifests' = Without(manifests, DOMAIN manifests \ keep.manifests)
       /\ tables' = Without(tables, DOMAIN tables \ keep.tables)
DeleteObsoleteFiles(d, held) ==
    LET keep == Kept(d, held)
    IN IF d.bgError THEN UNCHANGED <<logs, manifests, tables>>
       ELSE /\ logs' = Without(logs, DOMAIN logs \ keep.logs)
            /\ manifests' = Without(manifests, DOMAIN manifests \ keep.manifests)
            /\ tables' = Without(tables, DOMAIN tables \ keep.tables)

InTables(d) == UNION {tables[t] : t \in d.version}

-----------------------------------------------------------------------------
(* DB::Open *)

FailOpen == db' = Closed /\ hist' = Fault

OpenStart ==
    /\ db.state = "closed"
    /\ IF current = 0
       THEN /\ manifests' = [n \in {1} |-> Unsynced(<<Edit({}, {}, 0, 2, 0)>>)]
            /\ db' = [Closed EXCEPT !.state = "newdb"]
       ELSE /\ db' = [Closed EXCEPT !.state = "recover"]
            /\ UNCHANGED manifests
    /\ UNCHANGED <<logs, tables, current, queue, wr, lead, bg, hist>>

(* NewDB's SetCurrentFile: the temporary file is synced, then renamed.        *)
OpenSetFirst ==
    /\ db.state = "newdb"
    /\ \/ /\ current' = 1
          /\ db' = [db EXCEPT !.state = "recover"]
          /\ UNCHANGED hist
       \/ MayFail /\ FailOpen /\ UNCHANGED current
    /\ UNCHANGED <<logs, manifests, tables, queue, wr, lead, bg>>

RegisteredLog(e) == {n \in DOMAIN logs : n = e.log}   \* mutant: later logs ignored
LogsToReplay(e) == {n \in DOMAIN logs : n >= e.log}

(* VersionSet::Recover and the listing of the logs to replay.                 *)
OpenRecover ==
    /\ db.state = "recover"
    /\ IF ~Openable THEN db' = Closed
       ELSE LET edits == manifests[current].recs
                e == LastEdit(edits)
            IN db' = [db EXCEPT !.state = "replay", !.version = VersionOf(edits),
                        !.manifest = e.next, !.next = e.next + 1,
                        !.lastSeq = e.seq, !.logNumber = e.log,
                        !.replay = LogsToReplay(e)]
    /\ UNCHANGED <<disk, queue, wr, lead, bg, hist>>

(* RecoverLogFile: the oldest log is read into a memtable and that written as *)
(* a table; the log's number is marked used.                                 *)
OpenReplay ==
    /\ db.state = "replay" /\ db.replay # {}
    /\ LET n == Least(db.replay)
           items == ItemsOf(logs[n].recs)
           t == db.next
           top == IF items = {} THEN t ELSE t + 1
           d == [db EXCEPT !.replay = @ \ {n},
                           !.lastSeq = Greatest({@} \cup Seqs(items)),
                           !.next = IF top <= n THEN n + 1 ELSE top]
       IN \/ /\ db' = IF items = {} THEN d ELSE [d EXCEPT !.added = @ \cup {t}]
             /\ tables' = IF items = {} THEN tables ELSE Put(tables, t, items)
             /\ UNCHANGED hist
          \/ items # {} /\ MayFail /\ FailOpen /\ UNCHANGED tables
    /\ UNCHANGED <<logs, manifests, current, queue, wr, lead, bg>>

OpenNewLog ==
    /\ db.state = "replay" /\ db.replay = {}
    /\ \/ /\ logs' = Put(logs, db.next, EmptyLog)
          /\ db' = [db EXCEPT !.state = "descriptor", !.logfile = db.next,
                              !.next = @ + 1]
          /\ UNCHANGED hist
       \/ MayFail /\ FailOpen /\ UNCHANGED logs
    /\ UNCHANGED <<manifests, tables, current, queue, wr, lead, bg>>

(* LogAndApply at open: a new MANIFEST with a snapshot and the edit, a sync,  *)
(* CURRENT, then the new version.  On an error the new MANIFEST is removed.   *)
OpenDescriptor ==
    /\ db.state = "descriptor"
    /\ manifests' = Put(manifests, db.manifest,
          Unsynced(<<Snapshot(db.version),
                     Edit(db.added, {}, db.logfile, db.next, db.lastSeq)>>))
    /\ db' = [db EXCEPT !.state = "sync"]
    /\ UNCHANGED <<logs, tables, current, queue, wr, lead, bg, hist>>

OpenSync ==
    /\ db.state = "sync"
    /\ \/ /\ manifests' = [manifests EXCEPT ![db.manifest].synced = 2]
          /\ db' = [db EXCEPT !.state = "current"]
          /\ UNCHANGED hist
       \/ MayFail /\ FailOpen /\ manifests' = Without(manifests, {db.manifest})
    /\ UNCHANGED <<logs, tables, current, queue, wr, lead, bg>>

OpenSetCurrent ==
    /\ db.state = "current"
    /\ \/ /\ current' = db.manifest
          /\ db' = [db EXCEPT !.state = "install"]
          /\ UNCHANGED <<manifests, hist>>
       \/ /\ MayFail /\ FailOpen /\ UNCHANGED current
          /\ manifests' = Without(manifests, {db.manifest})
    /\ UNCHANGED <<logs, tables, queue, wr, lead, bg>>

OpenInstall ==
    /\ db.state = "install"
    /\ LET d == [db EXCEPT !.state = "open", !.version = @ \cup db.added,
                           !.added = {}, !.logNumber = db.logfile]
       IN /\ DeleteObsoleteFiles(d, {})
          /\ db' = MaybeScheduleCompaction(d)
          /\ hist' = [hist EXCEPT !.opened = TRUE, !.behind = @ \ InTables(d)]
    /\ UNCHANGED <<current, queue, wr, lead, bg>>

-----------------------------------------------------------------------------
(* DBImpl::Write *)

Full == Cardinality(db.mem) > BufferLimit
Front(w) == /\ db.state = "open" /\ queue # <<>> /\ queue[1] = w
            /\ wr[w].pc = "queued"
ForcingIfFull(w) == wr[w].id = 0 /\ Full    \* mutant: force means nothing to a small memtable
Forcing(w) == wr[w].id = 0

(* A NULL batch asks for the memtable's compaction (TEST_CompactMemTable); it *)
(* promises one only to a caller who finds nobody in the queue (over).        *)
Write(w, sync, id) ==
    /\ db.state = "open" /\ wr[w].pc = "idle" /\ hist.ops < MaxOps
    /\ wr' = [wr EXCEPT ![w] = [pc |-> "queued", id |-> id, sync |-> sync,
                                over |-> IF id = 0 /\ queue = <<>>
                                         THEN db.mem ELSE {}]]
    /\ queue' = Append(queue, w)
    /\ hist' = [hist EXCEPT !.ops = @ + 1]
    /\ UNCHANGED <<disk, db, lead, bg>>

(* The end of Write: the writers of the group get the status and leave.       *)
Leave(n, ws) ==
    /\ queue' = SubSeq(queue, n + 1, Len(queue))
    /\ wr' = [w \in Writers |->
                IF w \in {queue[i] : i \in 1..n} THEN Idle ELSE ws[w]]

(* BuildBatchGroup: no sync write behind a front writer that does not sync.   *)
GroupSize ==
    LET sync == wr[queue[1]].sync
        joins(k) == \A i \in 2..k : wr[queue[i]].sync => sync
    IN Greatest({k \in 1..Len(queue) : joins(k)})
GroupItems(d, n) ==
    LET batches == {i \in 1..n : wr[queue[i]].id # 0}
        place(i) == Cardinality({j \in batches : j <= i})
    IN {[seq |-> d.lastSeq + place(i), id |-> wr[queue[i]].id] : i \in batches}

(* MakeRoomForWrite has returned OK with state d.                             *)
Proceed(w, d) ==
    IF Forcing(w)
    THEN /\ Leave(1, wr) /\ db' = d /\ UNCHANGED lead
    ELSE /\ lead' = [writers |-> SubSeq(queue, 1, GroupSize),
                     items |-> GroupItems(d, GroupSize), sync |-> wr[w].sync]
         /\ wr' = [wr EXCEPT ![w].pc = "append"]
         /\ db' = d
         /\ UNCHANGED queue

RefuseWrite(w) ==
    /\ Front(w) /\ db.bgError
    /\ Leave(1, wr)
    /\ UNCHANGED <<disk, db, lead, bg, hist>>

StartWrite(w) ==
    /\ Front(w) /\ ~db.bgError /\ ~Forcing(w) /\ ~Full
    /\ Proceed(w, db)
    /\ UNCHANGED <<disk, bg, hist>>

MustSwitch(w) == Front(w) /\ ~db.bgError /\ (Forcing(w) \/ Full)

AwaitBackground(w) ==
    /\ MustSwitch(w)
    /\ db.imm # None \/ Cardinality(db.version) >= StopTrigger
    /\ wr' = [wr EXCEPT ![w].pc = "waitbg"]
    /\ UNCHANGED <<disk, db, queue, lead, bg, hist>>

(* A new log and memtable; the old log is closed, and not synced.             *)
SwitchMemTable(w) ==
    /\ MustSwitch(w) /\ db.imm = None /\ Cardinality(db.version) < StopTrigger
    /\ LET n == db.next
           d == [db EXCEPT !.next = n + 1, !.logfile = n, !.imm = db.mem, !.mem = {}]
       IN \/ /\ logs' = Put(logs, n, EmptyLog)
             /\ Proceed(w, MaybeScheduleCompaction(d))
             /\ UNCHANGED hist
          \/ /\ MayFail /\ hist' = Fault    \* ReuseFileNumber
             /\ Leave(1, wr)
             /\ UNCHANGED <<logs, db, lead>>
    /\ UNCHANGED <<manifests, tables, current, bg>>

(* Log the group, without the mutex.  A failed append may have put the whole  *)
(* record in the file, or a part, and Write goes on with the log either way:  *)
(* behind a part later records are found or not.  The Append of a trailer,    *)
(* whose failure goes unnoticed, needs no case of its own: its few bytes are  *)
(* copied to a buffer that the last Flush has emptied, unless that failed.    *)
AppendRecord(w) ==
    /\ wr[w].pc = "append"
    /\ LET torn == logs[db.logfile].torn
       IN \E ok, landed \in BOOLEAN :
          /\ ok => landed \/ torn
          /\ ok \/ MayFail
          /\ logs' = [logs EXCEPT ![db.logfile] =
                         Grown(@, <<IF landed THEN lead.items ELSE {}>>, landed)]
          /\ hist' = [hist EXCEPT !.faults = IF ok THEN @ ELSE @ + 1,
                                  !.behind = IF torn THEN @ \cup lead.items ELSE @]
          /\ wr' = [wr EXCEPT ![w].pc = IF ~ok THEN "failed"
                                        ELSE IF lead.sync THEN "sync" ELSE "logged"]
    /\ UNCHANGED <<manifests, tables, current, db, queue, lead, bg>>

SyncRecord(w) ==
    /\ wr[w].pc = "sync"
    /\ \/ /\ logs' = [logs EXCEPT ![db.logfile].synced = Len(logs[db.logfile].recs)]
          /\ wr' = [wr EXCEPT ![w].pc = "logged"]
          /\ UNCHANGED hist
       \/ /\ MayFail /\ hist' = Fault
          /\ wr' = [wr EXCEPT ![w].pc = "syncError"]
          /\ UNCHANGED logs
    /\ UNCHANGED <<manifests, tables, current, db, queue, lead, bg>>

SequenceIfLogged(ok) ==          \* mutant: a failed append uses no numbers
    IF ok THEN db.lastSeq + Cardinality(lead.items) ELSE db.lastSeq
SequenceAfter(ok) == db.lastSeq + Cardinality(lead.items)

(* Insert into the memtable, take the mutex, and answer the whole group.      *)
FinishWrite(w) ==
    /\ wr[w].pc \in {"logged", "failed", "syncError"}
    /\ LET ok == wr[w].pc = "logged"
           items == lead.items
           error == wr[w].pc = "syncError"
       IN /\ db' = [db EXCEPT !.mem = IF ok THEN @ \cup items ELSE @,
                              !.lastSeq = SequenceAfter(ok),
                              !.bgError = @ \/ error]
          /\ Leave(Len(lead.writers), IF error THEN Signalled ELSE wr)
          /\ hist' = IF ok THEN [hist EXCEPT !.acked = @ \cup items,
                        !.synced = IF lead.sync THEN @ \cup items ELSE @]
                     ELSE hist
    /\ lead' = NoLead
    /\ UNCHANGED <<disk, bg>>

-----------------------------------------------------------------------------
(* The background thread *)

(* BackgroundCall's end, in the critical section that ends the work.          *)
EndBackground(d) ==
    /\ db' = MaybeScheduleCompaction([d EXCEPT !.scheduled = FALSE])
    /\ bg' = NoWork
    /\ wr' = Signalled

BeginFlush(work) ==
    /\ bg' = [work EXCEPT !.pc = "build", !.out = db.next]
    /\ db' = [db EXCEPT !.next = @ + 1, !.pending = @ \cup {db.next}]

Halted == db.bgError \/ db.state = "closing"
BackgroundCall ==
    /\ db.scheduled /\ bg.pc = "idle"
    /\ \/ /\ Halted \/ (db.imm = None /\ ~NeedsCompaction(db))
          /\ EndBackground(db)
       \/ /\ ~Halted /\ db.imm # None
          /\ BeginFlush(NoWork)
          /\ UNCHANGED wr
       \/ /\ ~Halted /\ db.imm = None /\ NeedsCompaction(db)
          /\ \E inputs \in SUBSET db.version :
                /\ Cardinality(inputs) > 1      \* one input is moved, not rewritten
                /\ bg' = [NoWork EXCEPT !.pc = "merge", !.inputs = inputs,
                                        !.merged = db.next]
          /\ db' = [db EXCEPT !.next = @ + 1, !.pending = @ \cup {db.next}]
          /\ UNCHANGED wr
    /\ tables' = IF bg'.pc = "merge" THEN Put(tables, db.next, {}) ELSE tables
    /\ UNCHANGED <<logs, manifests, current, queue, lead, hist>>

(* DoCompactionWork looks at imm_ between two keys.                           *)
FlushFirst ==
    /\ bg.pc = "merge" /\ db.imm # None /\ db.state = "open"
    /\ BeginFlush(bg)
    /\ UNCHANGED <<disk, queue, wr, lead, hist>>

(* RecordBackgroundError.  A flush that fails amid a compaction does not end  *)
(* the compaction, which will try it again; otherwise CleanupCompaction.      *)
Nested == bg.out # 0 /\ bg.merged # 0
BackToMerge == bg' = [bg EXCEPT !.pc = "merge", !.out = 0, !.edit = NoEdit]
BackgroundError(d) ==
    IF Nested
    THEN /\ db' = [d EXCEPT !.bgError = TRUE, !.pending = @ \ {bg.out}]
         /\ BackToMerge /\ wr' = Signalled
    ELSE EndBackground([d EXCEPT !.bgError = TRUE, !.pending = @ \ {bg.out, bg.merged}])

(* WriteLevel0Table: build and sync the table; then LogAndApply's edit.       *)
BuildTable ==
    /\ bg.pc = "build"
    /\ \/ /\ db.state = "open"
          /\ tables' = Put(tables, bg.out, db.imm)
          /\ db' = [db EXCEPT !.pending = @ \ {bg.out}]
          /\ bg' = [bg EXCEPT !.pc = "log",
                      !.edit = Edit({bg.out}, {}, db.logfile, db.next, db.lastSeq)]
          /\ UNCHANGED <<wr, hist>>
       \/ /\ db.state = "closing"      \* "Deleting DB during memtable compaction"
          /\ tables' = Put(tables, bg.out, db.imm)
          /\ BackgroundError(db)
          /\ UNCHANGED hist
       \/ /\ MayFail /\ hist' = Fault
          /\ BackgroundError(db)
          /\ UNCHANGED tables
    /\ UNCHANGED <<logs, manifests, current, queue, lead>>

(* The merged table is finished; InstallCompactionResults' edit.              *)
FinishMerge ==
    /\ bg.pc = "merge"
    /\ \/ /\ db.state = "open"
          /\ tables' = [t \in DOMAIN tables |-> IF t # bg.merged THEN tables[t]
                           ELSE UNION {tables[u] : u \in bg.inputs \cap DOMAIN tables}]
          /\ bg' = [bg EXCEPT !.pc = "log", !.out = 0,
                      !.edit = Edit({bg.merged}, bg.inputs, db.logNumber, db.next,
                                    db.lastSeq)]
          /\ UNCHANGED <<db, wr, hist>>
       \/ /\ db.state = "closing"      \* "Deleting DB during compaction"
          /\ BackgroundError(db)
          /\ UNCHANGED <<tables, hist>>
       \/ /\ MayFail /\ hist' = Fault
          /\ BackgroundError(db)
          /\ UNCHANGED tables
    /\ UNCHANGED <<logs, manifests, current, queue, lead>>

(* LogAndApply's record, written without the mutex.  A failed append leaves   *)
(* it whole, or at the end of the file a part that Recover ignores.  The      *)
(* merge that a failed flush interrupted appends to the same descriptor_log_; *)
(* behind a part its edit is read, passed over or refused by Recover.         *)
LogEdit ==
    /\ bg.pc = "log"
    /\ LET torn == manifests[db.manifest].torn
       IN \E ok \in BOOLEAN, landed \in {<<>>, <<bg.edit>>, <<Unreadable>>} :
          /\ ok \/ MayFail
          /\ torn \/ landed = <<bg.edit>> \/ (~ok /\ landed = <<>>)
          /\ manifests' = [manifests EXCEPT ![db.manifest] =
                              Grown(@, landed, landed = <<bg.edit>>)]
          /\ hist' = [hist EXCEPT !.faults = IF ok THEN @ ELSE @ + 1,
                                  !.misplaced = @ \/ torn]
          /\ IF ok THEN bg' = [bg EXCEPT !.pc = "syncEdit"] /\ UNCHANGED <<db, wr>>
             ELSE BackgroundError(db)
    /\ UNCHANGED <<logs, tables, current, queue, lead>>

SyncEdit ==
    /\ bg.pc = "syncEdit"
    /\ \/ /\ manifests' = [manifests EXCEPT ![db.manifest].synced =
                                            Len(manifests[db.manifest].recs)]
          /\ bg' = [bg EXCEPT !.pc = "install"]
          /\ UNCHANGED <<db, wr, hist>>
       \/ /\ MayFail /\ hist' = Fault
          /\ BackgroundError(db)
          /\ UNCHANGED manifests
    /\ UNCHANGED <<logs, tables, current, queue, lead>>

(* The new version; CompactMemTable or the compaction cleans up after itself. *)
Install ==
    /\ bg.pc = "install"
    /\ LET flush == bg.out # 0
           d == [db EXCEPT !.version = (@ \ bg.edit.del) \cup bg.edit.add,
                           !.logNumber = bg.edit.log,
                           !.imm = IF flush THEN None ELSE @,
                           !.pending = IF flush THEN @ ELSE @ \ {bg.merged}]
       IN /\ DeleteObsoleteFiles(d, IF Nested THEN bg.inputs ELSE {})
          /\ hist' = [hist EXCEPT !.behind = @ \ InTables(d)]
          /\ IF Nested THEN BackToMerge /\ db' = d /\ wr' = Signalled
             ELSE EndBackground(d)
    /\ UNCHANGED <<current, queue, lead>>

-----------------------------------------------------------------------------
(* ~DBImpl waits for the background thread, which stops where it can.         *)
Close ==
    /\ db.state = "open" /\ queue = <<>> /\ hist.crashes < MaxCrashes
    /\ db' = [db EXCEPT !.state = "closing"]
    /\ hist' = [hist EXCEPT !.crashes = @ + 1]
    /\ UNCHANGED <<disk, queue, wr, lead, bg>>

CloseDone ==
    /\ db.state = "closing" /\ ~db.scheduled
    /\ db' = Closed
    /\ UNCHANGED <<disk, queue, wr, lead, bg, hist>>

(* The process or the machine dies.  A process leaves what it has written;    *)
(* of a machine's files some of what was not synced is gone.                  *)
Longest(f) == Greatest({0} \cup {Len(f[n].recs) : n \in DOMAIN f})
Left(f, machine) ==
    LET keeps == {k \in [DOMAIN f -> 0..Longest(f)] : \A n \in DOMAIN f :
                     k[n] \in f[n].synced..Len(f[n].recs)}
    IN IF ~machine THEN {f}
       ELSE {[n \in DOMAIN f |->
                 [f[n] EXCEPT !.recs = SubSeq(@, 1, k[n]), !.synced = k[n]]] : k \in keeps}

Crash(machine) ==
    /\ hist.crashes < MaxCrashes /\ db.state # "closed"
    /\ logs' \in Left(logs, machine) /\ manifests' \in Left(manifests, machine)
    /\ UNCHANGED <<tables, current>>
    /\ db' = Closed /\ queue' = <<>> /\ wr' = [w \in Writers |-> Idle]
    /\ lead' = NoLead /\ bg' = NoWork
    /\ hist' = [hist EXCEPT !.crashes = @ + 1,
                  !.acked = IF machine THEN hist.synced \cup (@ \cap Recoverable') ELSE @]

Quiet ==      \* an open database nobody calls
    /\ db.state = "open" /\ queue = <<>> /\ ~db.scheduled /\ bg.pc = "idle"
    /\ UNCHANGED vars

WriteStep(w) ==
    \/ RefuseWrite(w) \/ StartWrite(w) \/ AwaitBackground(w) \/ SwitchMemTable(w)
    \/ AppendRecord(w) \/ SyncRecord(w) \/ FinishWrite(w)
BackgroundStep ==
    \/ BackgroundCall \/ FlushFirst \/ BuildTable \/ FinishMerge
    \/ LogEdit \/ SyncEdit \/ Install
OpenStep ==
    \/ OpenStart \/ OpenSetFirst \/ OpenRecover \/ OpenReplay \/ OpenNewLog
    \/ OpenDescriptor \/ OpenSync \/ OpenSetCurrent \/ OpenInstall

Next ==
    \/ OpenStep \/ BackgroundStep \/ Close \/ CloseDone \/ Quiet
    \/ \E machine \in Machines : Crash(machine)
    \/ \E w \in Writers : WriteStep(w)
    \/ \E w \in Writers, sync \in Syncs : Write(w, sync, hist.ops + 1)
    \/ \E w \in Writers : Write(w, FALSE, 0)

Spec == Init /\ [][Next]_vars

FairSpec ==
    /\ Spec
    /\ WF_vars(OpenStep) /\ WF_vars(BackgroundStep) /\ WF_vars(CloseDone)
    /\ \A w \in Writers : WF_vars(WriteStep(w))

-----------------------------------------------------------------------------
(* Properties *)

Contents == db.mem \cup db.imm \cup UNION {tables[t] : t \in db.version}

\* What a Write has answered OK to, and what it has synced, but for what was
\* appended to a log behind a failed append and is in no table yet.
Answered == hist.acked \ hist.behind
Guaranteed == hist.synced \ hist.behind

(* options.h:195-201: what a Write has answered OK to is found again: after  *)
(* the death of the process all of it, after the machine's what was synced;  *)
(* and that at every moment of a write, a flush, a compaction or a recovery. *)
(* Out of it are the writes logged behind a failed append until a flush has   *)
(* them in a table, and a database whose MANIFEST was appended to behind a    *)
(* failed append.                                                            *)
AckedSurvive ==
    ~hist.misplaced => Answered \subseteq Recoverable /\ Guaranteed \subseteq Recoverable

(* A database that has been opened once can be opened again: CURRENT names a *)
(* complete MANIFEST, and the tables it lists are in the directory; unless    *)
(* an edit was appended to a MANIFEST behind a failed append.                 *)
OpenableAgain == hist.opened /\ ~hist.misplaced => Openable

(* No file that the current version, a running compaction, the log in use or *)
(* the immutable memtable's log needs has been deleted.                      *)
NothingNeededDeleted ==
    db.state \in {"open", "closing"} =>
        /\ db.version \cup bg.inputs \subseteq DOMAIN tables
        /\ bg.pc \in {"log", "syncEdit", "install"} => bg.edit.add \subseteq DOMAIN tables
        /\ db.logfile \in DOMAIN logs
        /\ db.imm # None => \E n \in DOMAIN logs :
              n # db.logfile /\ db.imm \ hist.behind \subseteq ItemsOf(logs[n].recs)

(* A reader sees everything answered OK, nothing that is not on the disk, and *)
(* no two writes under one sequence number, at most LastSequence.  What was   *)
(* logged behind a failed append a reader may see though a recovery would not. *)
ReadersAgreeWithDisk ==
    db.state = "open" /\ ~hist.misplaced =>
        /\ Answered \subseteq Contents
        /\ Contents \subseteq Recoverable \cup hist.behind
        /\ \A i, j \in Contents : i.seq = j.seq => i = j
        /\ \A i \in Contents : i.seq <= db.lastSeq

(* Every Write returns, whatever it waits for: the front of the queue, the    *)
(* background thread, or an error.                                           *)
WriteReturns == \A w \in Writers : w \in Elements(queue) ~> w \notin Elements(queue)

(* db_impl.h:50-51: TEST_CompactMemTable forces the memtable to be compacted: *)
(* what was in it at the call is not in it when the call has returned OK,     *)
(* however long it waited for the background thread and whoever called        *)
(* meanwhile; of a caller who waits behind a write this is not true, for that  *)
(* write's group takes the NULL batch along.                                  *)
ForcedCompactionFlushes ==
    [][\A w \in DOMAIN wr :
         (/\ wr[w].pc # "idle" /\ wr[w].id = 0 /\ ~db.bgError
          /\ wr'[w].pc = "idle" /\ db'.state = "open"
          /\ hist'.faults = hist.faults)
             => wr[w].over \cap db'.mem = {}]_vars
=============================================================================
