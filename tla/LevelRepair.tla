----------------------------- MODULE LevelRepair -----------------------------
(***************************************************************************)
(* RepairDB (db/repair.cc): the files of a directory whose descriptor is   *)
(* lost are turned into one database again.  Every log becomes a table,    *)
(* every table is scanned and, when it is damaged, copied, and all of them *)
(* go to level 0 of a new descriptor.  It may fail, or its process may die, *)
(* at any step, and it is then run again.  A crash of the machine, which    *)
(* could take a copy that RepairTable never syncs, is left out.             *)
(***************************************************************************)
EXTENDS Integers, Sequences, FiniteSets

CONSTANTS UserKeys, Writes,       \* user keys; how many writes there were
          MaxFile,            \* file numbers of the database found
          MaxNumber,          \* bound on the numbers repair allocates
          MaxCrashes, MaxFaults

RepairAssumption == MaxFile \in Nat /\ MaxNumber \in Nat /\ MaxFile <= MaxNumber

VARIABLES
    tables,   \* the table files: number -> [data, whole], or Absent
    logs,     \* the log files: number -> data, {} when there is none
    lost,     \* the files of the directory lost/: their data by kind and number
    rep,      \* the Repairer: [at, logs, numbers, listed, next, n, copy, data]
    listed,   \* the tables of the descriptor CURRENT names, {} when none
    before    \* what could be read before the repair, crashes, faults,
              \* and what ArchiveFile replaced in lost/

repairVars == <<tables, logs, lost, rep, listed, before>>

Numbers == 1..MaxNumber
Absent == [data |-> {}, whole |-> FALSE, there |-> FALSE]
Table(data, whole) == [data |-> data, whole |-> whole, there |-> TRUE]
NothingLost == [log |-> [n \in Numbers |-> {}], table |-> [n \in Numbers |-> {}]]
There == {n \in Numbers : tables[n].there}
Off == [at |-> "off", logs |-> {}, numbers |-> {}, listed |-> {}, next |-> 0,
        n |-> 0, copy |-> 0, data |-> {}]

WrittenTo(n, key, file) == {[key |-> key[s], seq |-> s] : s \in {t \in 1..Writes : file[t] = n}}
(* The files in which each write lies, the logs among them and the damaged.    *)
Directory(key, file, isLog, bad) ==
    /\ tables = [n \in Numbers |->
                    IF n > MaxFile \/ n \in isLog \/ WrittenTo(n, key, file) = {} THEN Absent
                    ELSE Table(WrittenTo(n, key, file), n \notin bad)]
    /\ logs = [n \in Numbers |-> IF n \in isLog THEN WrittenTo(n, key, file) ELSE {}]
    /\ lost = NothingLost /\ rep = Off /\ listed = {}
    /\ before = [readable |-> {[key |-> key[s], seq |-> s] : s \in 1..Writes},
                 crashes |-> 0, faults |-> 0, replaced |-> {}]
(* A database as crashes and compactions leave it: the logs hold the newest    *)
(* entries, the later the log the newer, and a table may have any number, for  *)
(* a compaction gives old entries a new one; the entries of one key in a table *)
(* have none between them elsewhere.  Damaged tables miss something.           *)
RepairInit ==
    \E key \in [1..Writes -> UserKeys], file \in [1..Writes -> 1..MaxFile],
       isLog \in SUBSET (1..MaxFile), bad \in SUBSET (1..MaxFile) :
        /\ \A s, t \in 1..Writes : s < t /\ file[s] \in isLog =>
              file[t] \in isLog /\ file[s] <= file[t]
        /\ \A s, t, u \in 1..Writes :
              s < t /\ t < u /\ key[s] = key[t] /\ key[t] = key[u] /\ file[s] = file[u] =>
                  file[t] = file[s]
        /\ isLog \cap bad = {}
        /\ \A n \in isLog \cup bad : WrittenTo(n, key, file) # {}
        /\ Directory(key, file, isLog, bad)

-----------------------------------------------------------------------------
Fails(f) == f => before.faults < MaxFaults
FaultCounted(f) == before' = [before EXCEPT !.faults = IF f THEN @ + 1 ELSE @]

NextTooLow ==     \* mutant: the largest number found, not the one after
    LET used == There \cup {n \in Numbers : logs[n] # {}}
    IN IF used = {} THEN 1 ELSE CHOOSE n \in used : \A m \in used : m <= n
NextFileNumber ==
    LET used == There \cup {n \in Numbers : logs[n] # {}}
    IN IF used = {} THEN 1 ELSE 1 + CHOOSE n \in used : \A m \in used : m <= n

FindFiles ==
    /\ rep.at = "off" /\ NextFileNumber <= MaxNumber
    /\ rep' = [Off EXCEPT !.at = "convert", !.next = NextFileNumber,
                          !.logs = {n \in Numbers : logs[n] # {}}, !.numbers = There]
    /\ UNCHANGED <<tables, logs, lost, listed, before>>

(* ConvertLogToTable: a table that cannot be built is deleted again.           *)
ConvertLog(n, fails) ==
    /\ rep.at = "convert" /\ n \in rep.logs /\ rep.next <= MaxNumber /\ Fails(fails)
    /\ tables' = IF fails THEN tables ELSE [tables EXCEPT ![rep.next] = Table(logs[n], TRUE)]
    /\ rep' = [rep EXCEPT !.at = "archive", !.n = n, !.next = @ + 1,
                          !.numbers = IF fails THEN @ ELSE @ \cup {rep.next}]
    /\ FaultCounted(fails) /\ UNCHANGED <<logs, lost, listed>>
(* ArchiveFile renames the file to lost/ under the name it has, replacing the  *)
(* file of that name which an earlier run may have put there; that the rename   *)
(* failed is only logged, and the file stays where it is.                      *)
Archived(fails, old, new) ==
    before' = IF fails THEN [before EXCEPT !.faults = before.faults + 1]
              ELSE [before EXCEPT !.replaced = before.replaced \cup (old \ new)]
ArchiveLog(fails) ==
    /\ rep.at = "archive" /\ Fails(fails)
    /\ IF fails THEN UNCHANGED <<lost, logs>>
       ELSE /\ lost' = [lost EXCEPT !.log[rep.n] = logs[rep.n]]
            /\ logs' = [logs EXCEPT ![rep.n] = {}]
    /\ rep' = [rep EXCEPT !.at = "convert", !.logs = @ \ {rep.n}]
    /\ Archived(fails, lost.log[rep.n], logs[rep.n]) /\ UNCHANGED <<tables, listed>>

(* ScanTable: a table that reads without an error is listed.                   *)
ScanTable(n) ==
    /\ rep.at = "convert" /\ rep.logs = {} /\ n \in rep.numbers
    /\ rep' = IF tables[n].whole
              THEN [rep EXCEPT !.numbers = @ \ {n}, !.listed = @ \cup {n}]
              ELSE [rep EXCEPT !.at = "repair", !.numbers = @ \ {n}, !.n = n]
    /\ UNCHANGED <<tables, logs, lost, listed, before>>

(* RepairTable: the copy has no footer until its builder has finished, which   *)
(* is after the original was moved away.                                      *)
StartCopy(fails) ==
    /\ rep.at = "repair" /\ rep.next <= MaxNumber /\ Fails(fails)
    /\ IF fails
       THEN rep' = [rep EXCEPT !.at = "convert", !.next = @ + 1] /\ UNCHANGED tables
       ELSE /\ tables' = [tables EXCEPT ![rep.next] = Table({}, FALSE)]
            /\ rep' = [rep EXCEPT !.at = "copied", !.copy = rep.next, !.next = @ + 1]
    /\ FaultCounted(fails) /\ UNCHANGED <<logs, lost, listed>>
ArchiveTable(fails) ==
    /\ rep.at = "copied" /\ Fails(fails)
    /\ IF fails THEN UNCHANGED <<lost, tables>>
       ELSE /\ lost' = [lost EXCEPT !.table[rep.n] = tables[rep.n].data]
            /\ tables' = [tables EXCEPT ![rep.n] = Absent]
    /\ rep' = [rep EXCEPT !.at = IF tables[rep.n].data = {} THEN "convert" ELSE "finish",
                          !.data = tables[rep.n].data]
    /\ Archived(fails, lost.table[rep.n], tables[rep.n].data) /\ UNCHANGED <<logs, listed>>
FinishCopy(fails) ==
    /\ rep.at = "finish" /\ Fails(fails)
    /\ tables' = [tables EXCEPT ![rep.copy] =
                      IF fails THEN Absent ELSE Table(rep.data, TRUE)]
    /\ rep' = [rep EXCEPT !.at = IF fails THEN "convert" ELSE "rename"]
    /\ FaultCounted(fails) /\ UNCHANGED <<logs, lost, listed>>
RenameCopy(fails) ==
    /\ rep.at = "rename" /\ Fails(fails)
    /\ tables' = IF fails THEN [tables EXCEPT ![rep.copy] = Absent]
                 ELSE [tables EXCEPT ![rep.n] = tables[rep.copy], ![rep.copy] = Absent]
    /\ rep' = [rep EXCEPT !.at = "convert", !.listed = IF fails THEN @ ELSE @ \cup {rep.n}]
    /\ FaultCounted(fails) /\ UNCHANGED <<logs, lost, listed>>

(* WriteDescriptor: from the new manifest under a temporary name to CURRENT.   *)
WriteDescriptor(fails) ==
    /\ rep.at = "convert" /\ rep.logs = {} /\ rep.numbers = {} /\ Fails(fails)
    /\ listed' = IF fails THEN listed ELSE rep.listed
    /\ rep' = IF fails THEN Off ELSE [rep EXCEPT !.at = "done"]
    /\ FaultCounted(fails) /\ UNCHANGED <<tables, logs, lost>>

(* The process dies, and may leave the table of a log half built: without a    *)
(* footer.                                                                    *)
Crash(partial) ==
    /\ rep.at \notin {"off", "done"} /\ before.crashes < MaxCrashes
    /\ partial => rep.at = "convert" /\ rep.logs # {} /\ rep.next <= MaxNumber
    /\ tables' = IF partial THEN [tables EXCEPT ![rep.next] = Table({}, FALSE)] ELSE tables
    /\ rep' = Off /\ before' = [before EXCEPT !.crashes = @ + 1]
    /\ UNCHANGED <<logs, lost, listed>>

RepairNext ==
    \/ FindFiles
    \/ \E n \in Numbers : ScanTable(n) \/ (\E f \in BOOLEAN : ConvertLog(n, f))
    \/ \E f \in BOOLEAN : ArchiveLog(f) \/ StartCopy(f) \/ ArchiveTable(f) \/ FinishCopy(f)
    \/ \E f \in BOOLEAN : RenameCopy(f) \/ WriteDescriptor(f) \/ Crash(f)

RepairSpec == RepairInit /\ [][RepairNext]_repairVars

-----------------------------------------------------------------------------
(* Properties *)

InTables == UNION {tables[n].data : n \in There}
InLogs == UNION {logs[n] : n \in Numbers}

InLost == UNION {lost.log[n] \cup lost.table[n] : n \in Numbers}

(* However often the repair fails, is cut short and run again, every entry that *)
(* could be read is in a file of the database or has been moved to lost/, but    *)
(* for those of a table in lost/ that another was moved onto.  That accident     *)
(* takes a number given out again while its table is in lost/ only, and deaths   *)
(* of the process alone do not bring it about.  And a repair that met no failure *)
(* and no crash lists all it could read in its descriptor.                      *)
RepairKeeps ==
    /\ before.readable \subseteq InTables \cup InLogs \cup InLost \cup before.replaced
    /\ before.faults = 0 => before.replaced = {}
    /\ rep.at = "done" /\ before.crashes + before.faults = 0 =>
          before.readable \subseteq UNION {tables[n].data : n \in listed}

(* version_set.cc:355-356: level-0 files are searched "from newest to oldest", *)
(* that is by file number: the first that has the key has its newest entry.    *)
RepairedReadsNewest ==
    rep.at = "done" =>
        \A k \in UserKeys, n, m \in listed :
            \A e \in tables[n].data, f \in tables[m].data :
                n > m /\ e.key = k /\ f.key = k /\ e.seq < f.seq =>
                    \E g \in tables[n].data : g.key = k /\ g.seq > f.seq
=============================================================================
