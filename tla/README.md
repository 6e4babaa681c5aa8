# Gifting in TLA+

Gifting (`src/Gifting`) is an iOS app that keeps a list of people, their
birthdays and three presents for each, with a flag per present that says
whether it was bought. The people live in Core Data on the device and in a
Firebase Realtime Database that the app reaches over HTTP. The repository also
holds the source of the libraries under the Firebase client: leveldb, a
key-value store, and nanopb, an encoder and decoder of protocol buffers. This
directory holds TLA+ models of the app and of the two libraries, the TLC
configurations that check them on small instances, and theorems about them that
TLAPS proves for every value of the constants.

The repository has no tests of the app's behaviour; the code, its comments and
its README are all there is to model from. It is also in the middle of a move:
`GiftingCore` holds byte-identical copies of `PersonController`,
`Person+Convenience`, `Person+Encodable` and `PersonRepresentation`. The models
cite the copies under `Gifting/Gifting`. The libraries come without their
tests; their headers, comments and assertions say what they promise.

## 1. Inventory

### The app

| Part | State it keeps | Operations | Model |
|---|---|---|---|
| `PersonController` | none but its contexts | `createPerson`, `update`, `delete`, `put`, `deletePersonFromServer`, `fetchPersonFromServer` with its import, `saveToPersistentStore` | `PersonSync`, `SyncHistory`, `SyncBook` |
| `CoreDataStack`, entity `Person` | persistent store, `mainContext` | load, fetch, save, automatic merge from the store | `PersonSync` |
| `Person+Convenience`, `+Encodable`, `PersonRepresentation` | - | initialisers, encoding | `PersonSync` (flags and defaults only) |
| `WishDetailViewController` | the form's fields, `isBoughtFirst..Third`, `person` | fill in, type, pick or otherwise edit a date, three buy buttons, `save`, go back | `WishDetail` |
| `ChangeBuyButton` | `isBought`, its title | toggle | `WishDetail` |
| `WishListTVC` | the table, the lazy fetched results controller | show, swipe to delete, segues, batch updates | partly, in `PersonSync` and `WishDetail` |
| Birthday formats | - | `MMM d` parsing and formatting, section titles | left out |
| `AppDelegate` | - | empty lifecycle hooks | `Terminate` in `PersonSync` |
| Firebase database (external) | identifier to record | PUT, DELETE, GET all | `PersonSync` |
| Cells, colours, launch animation, widget, `Notification.swift` | none that is read back, or commented out | - | left out |

### leveldb (`src/Gifting/Pods/leveldb-library`)

| Part | State it keeps | Operations | Model |
|---|---|---|---|
| log (`db/log_*`) | a file of blocks, the writer's offset in its block, the reader's place | add a record, read the next, resynchronise, begin at an offset | `LevelLog` |
| `DBImpl`, `VersionSet` on disk (`db/db_impl`, `version_set`, `builder`, `filename`) | log, descriptors, tables, CURRENT; memtables, queue of writers, the background work | open and recover, write in groups, switch memtables, flush, install a version, collect garbage, close | `LevelStore` |
| versions and compactions (`db/version_set`, `db_impl`) | the files of each level, compaction pointers, snapshots | flush to a level, pick, expand, merge, move, `CompactRange`, `Get` | `LevelCompaction` |
| iterators (`db/db_iter`, `table/merger`, `two_level_iterator`) | a place and a direction at each layer | seek, first, last, next, prev | `LevelIter` |
| skip list, memtable, arena | nodes and links; blocks of memory | insert, search without a lock; add, get, allocate | `LevelSkipList`, `LevelMemTable` |
| blocks, tables, filters (`table/*`, `util/bloom`, `comparator`) | the table being built; an iterator's place | add, flush, finish; open, look up | `LevelBlock`, `LevelTable`, `LevelTableFile` |
| caches (`util/cache`, `db/table_cache`, `table/table`) | entries with counts, two lists and a hash table for each shard | look up, insert, erase, evict, prune, release | `LevelCache` |
| POSIX environment (`util/env_posix`) | queue of work and its thread, limiters, table of locks | schedule, open a file, lock, unlock | `LevelEnv`, `LevelLock` |
| repair (`db/repair`) | what it has found and salvaged | find, convert, extract, repair, write a descriptor | `LevelRepair` |
| codings, checksums (`util/coding`, `crc32c`, `db/write_batch`, `version_edit`, `filename`) | - | encode, decode; extend, mask | `LevelCoding`, `LevelChecksum` |
| C interface, dump, histogram, ports, hash | - | - | left out |

### nanopb (`src/Gifting/Pods/nanopb`)

| Part | State it keeps | Operations | Model |
|---|---|---|---|
| encoder (`pb_encode.c`) | output stream | sizing and writing passes, fields, submessages, callbacks, extensions | `PbEncode` |
| decoder (`pb_decode.c`, `pb_common.c`) | input streams, one inside the other; the fields seen | defaults, tags, fields of every kind, skipping, required fields | `PbDecode` |
| decoder's memory (`PB_ENABLE_MALLOC`) | blocks behind pointer fields | allocate, free what is replaced, `pb_release` | `PbMemory` |

The other pods (Firebase's Objective-C) are left out: the app calls
`FirebaseApp.configure()` only, and talks to its database by URLSession.

How the parts interact:

* Everything the user does runs on the main thread and edits the main context.
  An edit starts a URLSession data task whose result only gets logged. The save
  of the context is a separate call; `delete` makes none.
* The launch (`WishListTVC.personController`) sends one GET. Its handler runs on
  a background queue, makes a private context, and applies the reply one record
  at a time: fetch by identifier, then update or insert. One save at the end
  writes the lot.
* `automaticallyMergesChangesFromParent` brings that save into the main context
  in a later turn of the main thread, and the table follows the main context.
* The open form holds copies of a person's fields and is told nothing of merges.
* The process may end at any time; no hook saves anything.
* In leveldb, threads that write queue up and the first of them writes for a
  group, the log and the skip list without the mutex; one background thread
  flushes and compacts, with the mutex released around every read and write of
  a file; readers walk versions, tables and the skip list without it. What one
  part takes for granted of another is what that one's model checks: `DBImpl`
  that a log loses its tail only, versions that tables answer, tables that
  blocks do, iterators that their children are sorted lists.
* nanopb is one thread's; its callbacks are the caller's, and an encoder runs
  them twice, once to measure and once to write.

What is hard, and would hardly be reached by a test:

* two contexts over one store, without a merge policy, each loading its objects
  at a different moment: the later save fails as a whole, and its error is
  printed and dropped;
* a reply that was read from the server before the edits it is then applied over;
* requests that are lost, or arrive in another order than they were sent, with
  no retry;
* deletions that are pending until some unrelated edit saves the context;
* four copies of one flag on the form;
* in leveldb: a crash between any two operations on files, failing ones, writers
  and the background thread waiting for each other, files collected while
  something still needs them, long sequences of compactions, changes of an
  iterator's direction, a list searched while it is being linked;
* in nanopb: messages cut anywhere, fields that come twice, oneofs that change,
  callbacks that write something else at the second pass.

What makes each part correct:

* sync: one object per identifier; a context overwrites only what it has read;
  nothing stays unsaved behind the import's back; an undisturbed edit makes
  device and server agree; an undisturbed launch makes the list show the server;
  the import comes to an end;
* form: its copies of a flag agree with each other and with what a press stores;
* leveldb: what was acknowledged is found again after a crash, and the database
  opens; a read as of any snapshot gives what was written; every write returns;
  damage is reported and costs no more than its block; nothing that is in use is
  freed or deleted;
* nanopb: what is decoded is what was sent, lengths are those of what follows,
  and every block of memory has one owner.

`PROJECT.json` lists the hazards one by one, with the source line of each and
the properties that cover it.

## 2. Plan

The order in which the models were built, the most important behaviour first:

1. `PersonSync`, the core of the app, with `PersonSyncProofs`; `AddressBook`,
   what the device promises of its list and its store, and `SyncBook`, the
   mapping under which `PersonSync` implements it; `SyncHistory`, which extends
   `PersonSync` with history variables; `SyncProofs` about both; `WishDetail`,
   the form, with `WishDetailProofs`.
2. leveldb from the disk up: `LevelLog`, `LevelStore`, `LevelCompaction`,
   `LevelIter`, then the parts they rest on: `LevelSkipList`, `LevelMemTable`,
   `LevelBlock`, `LevelTable`, `LevelTableFile`, `LevelCache`, `LevelEnv`,
   `LevelLock`, `LevelRepair`, `LevelCoding`, `LevelChecksum`; the proofs in
   `LevelSkipListProofs`, `LevelStoreProofs`, `LevelFilesProofs` (`LevelEnv`,
   `LevelLock` and `LevelRepair`), `LevelLogProofs` and `LevelCompactionProofs`.
3. nanopb: `PbEncode`, `PbDecode`, `PbMemory`.

What could follow:

4. The form over `PersonSync`, where an import is merged behind an open form and
   Save sends the old text back; two devices on one database.
5. Theorems: `LevelCache`'s counts; `PbMemory`'s owners; `LevelMemTable`'s
   snapshots.
6. A refinement of `LevelStore` to a store of acknowledged writes, and of
   `LevelCompaction`'s levels to it.

## 3. The modules

### PersonSync

| Variable | Code |
|---|---|
| `app` | process not running; GET sent and list not yet loaded; list shown |
| `rows` | the SQLite store behind `CoreDataStack.container` |
| `main` | registered objects of `CoreDataStack.mainContext`: state, values, snapshot |
| `fetch` | progress of the launch's `fetchPersonFromServer` |
| `reply` | decoded representations the loop has still to apply |
| `bg` | registered objects of `backgroundMoc` |
| `bgStale`, `unmerged` | rows changed by one context that the other has not seen |
| `server` | the database |
| `tasks` | PUT and DELETE data tasks in flight |

A person is `<<identifier, copy>>`: the data model has no uniqueness constraint,
so two managed objects with one identifier must be expressible for
`UniqueIdentifiers` to say anything. A record is a `wish` (name, birthday and the
three choices, which are always written together) and a `bought` flag (the three
flags, which behave alike and are optional on the server). Two fields, so that a
merge property by property can mix two writes.

| Action | Code |
|---|---|
| `createPerson`, `update` | the functions of that name, each with its `put` and save |
| `delete` | `delete(person:)` with `deletePersonFromServer`, and no save |
| `Launch`, `performFetch` | `WishListTVC`'s two lazy properties |
| `ServerReplies`, `FetchFails` | the GET's handler up to the loop, and its early returns |
| `ApplyRepresentation` | one turn of the loop |
| `SaveBackground` | the loop's final save and the release of its context |
| `MergeToMain` | the automatic merge |
| `Deliver`, `Lose` | the fate of a PUT or DELETE |
| `Terminate` | iOS ends the process |

Choices worth knowing:

* `put` saves before its callers save again. Both saves are in one turn of the
  main thread and nothing is edited between them, so the second has nothing to
  write unless the first failed, and then fails alike or retries what
  `StoreMayFail` already allows; one save stands for both.
* The request is sent before or after the save depending on the caller; the
  record it carries is encoded at once, and delivery is a later step either way.
* The record the reply holds is the server's at the moment it answered. A
  dictionary has no order, so the loop takes any record next.
* A behaviour starts with an empty store, or with what the migration makes of
  the store of an earlier data model (`Gifting 2` and `Gifting 3` have none of
  the three flags, which then read false), and with any database, records
  without flags included. The only place where the import's `?? false` counts is
  a person of such a store.
* A new UUID is an identifier nothing has heard of (`Unheard`). An identifier
  can be used again once every trace of it is gone, so a behaviour may be as
  long as one likes over few identifiers.

Core Data is external. What the models take for granted of it:

* a save with the default `NSErrorMergePolicy` fails as a whole if an object it
  would update or delete has a row that changed since the context read it;
* whether an object whose properties are all assigned equal values counts as
  changed is left open (`Touched`): both outcomes are explored;
* a merge refreshes clean objects and reapplies local changes property by
  property; the snapshot of a deleted object is brought up to date as well;
* the list's objects are filled when the fetched results controller fetches.

### SyncHistory

Two variables no step reads. `quiet`: this launch began with nothing in flight
and the user has edited nothing since. `steady`: identifiers whose last edit was
made on a settled app, and which have since met none of the accidents that do
lose an edit (a lost request, a GET served while the request was in flight, a
termination with the edit unsaved). The accidents are the content of the
property: dropping any one of them makes `SteadyIdsAgree` fail.

### AddressBook and SyncBook

`AddressBook` knows no contexts, snapshots, requests or server: only what is
`kept`, what is `shown`, which objects' edits are `pending`, and which imported
`news` are kept but not shown. Its promises: an edit shows at once; it is kept
with every other pending edit or not at all; it is refused only over news (or by
a store that fails); an import takes effect in the store at one moment, once per
launch, and takes nobody away; a merge leaves an unedited person as imported and
an edited one a mixture of the two records; closing forgets the pending edits.

`SyncBook` maps `kept` to `rows`, `shown` to the list's view of `main`,
`pending` to the changed objects of `main`, and `news` to `unmerged`.
`ImplementsBook` is `AddressBook`'s specification under that mapping: the GET's
reply, the turns of the import loop and the fate of requests are stutters,
`SaveBackground` and `FetchFails` are the import, and everything else is one
step. The device's store is all it speaks of; what the server holds is
`SyncHistory`'s subject.

### WishDetail

The form over the people of the main context. A flag lives in four places, so
the model keeps four sets of buttons: the stored person's `bought`, the
controller's `isBought`, each button's own `pressed`, and `titled`, the buttons
that say "bought". `buyButton` is one touch and runs both targets: the button's
own `buttonPressed` and the controller's action, which toggles its flag and
saves. `importPerson` is the interface to `PersonSync`: any person may change
behind the open form.

A birthday is a day, or no date at all (`Nil`): `inputView` puts the picker in the
place of the keyboard and of nothing else, so Cut, Paste or a keyboard of one's own
may leave any text in the field, of an existing person too, and `birthdayEdited` is
all of these. A name and a field that does not parse end the app in `save`, at
the forced unwrap (line 71); nothing promises otherwise, so this is shown and no
property. A form whose person has been deleted cannot arise on
one device: the swipe is on the list, and the import never deletes.

### LevelStore

| Variable | Code |
|---|---|
| `logs`, `manifests`, `tables`, `current` | the files of the database; of a log and a descriptor also how much is synced and whether part of a record is missing in it (`torn`) |
| `db` | `DBImpl` and `VersionSet`: what `mutex_` guards |
| `queue`, `wr`, `lead` | `writers_`, each thread's `Writer`, the group the front one logs |
| `bg` | the background thread: where it stands in a flush or a merge |
| `hist` | what callers were told: answered OK, synced; what was logged behind a failed append (`behind`), whether an edit was (`misplaced`); and counters for the bounds |

A write is an item, its sequence number and its writer's number; a memtable, a
table and a record of a log are sets of items.

An action is a stretch of code under the mutex or one operation on a file
without it, so that a crash (`Crash`, of the process or of the machine) falls
between any two. Opening is nine actions, from `OpenStart` to `OpenInstall`; a
write joins the queue (`Write`), and its group is formed and given room
(`StartWrite`, `AwaitBackground`, `SwitchMemTable`), logged, synced and answered
(`AppendRecord`, `SyncRecord`, `FinishWrite`); the background thread flushes or
merges (`BackgroundCall`, `BuildTable`, `FinishMerge`, with `FlushFirst` when a
memtable fills during a merge) and installs an edit (`LogEdit`, `SyncEdit`,
`Install`). Most of the operations on files may fail, up to a bound; a failed
sync leaves it open what is on the disk. A failed append leaves the record whole or
a part of it while the writer's offset moves on as if it were whole, and `Write`
goes on using the log: of what is appended to it later (`behind`) each record is
found again or not. `LogEdit` does the same for a descriptor: in most cases
nothing more is appended to it, since the error stops the background thread, but a
merge that a failed flush interrupted still appends its own edit, which `Recover`
then reads, passes over, or refuses the database for (`Unreadable`). Which bytes
are left is `LevelLog`'s subject. A NULL batch, which `TEST_CompactMemTable`
writes, has the number 0 for an id. Garbage collection
(`DeleteObsoleteFiles`) is part of the actions that call it. Metadata of a file
is durable at once, its contents when synced: that is what the code assumes of a
file system. `reuse_logs` is off, its default, here; `LevelLog` has the log that
is appended to.

### LevelLog

The writer emits a fragment, or part of one or of the trailer before it when the
append fails, the latter unnoticed; a crash keeps any prefix no shorter than what
was synced; bytes of it may change; then the reader works block by block, and one
of its reads may fail (`ReadFails`), which it takes for the end of the file. A byte is a cell that says of which fragment it is,
so that a misplaced header is seen for what it is. A checksum is perfect. `frag`
keeps of each fragment, beside its header, where it was put and which record it
is part of, which no step of the reader looks at.

### LevelCompaction and LevelIter

A file is the set of its entries. `Background` is one background job, from
picking its files to installing the result, since `LevelStore` has what happens
between; `CompactRange` is a call with parts of its own between which anything
else may happen, a memtable forced out among it. `job` and `call` carry what is
left of them. `past.written` is what was ever put, the reference for reads.

`LevelIter` has the three iterators as values: `layout` is two children, one of
up to two blocks cut anywhere, and which blocks cannot be read; the caller's five
moves are the actions, each with a reference list beside it (`cursor`).

### The parts under them

* `LevelSkipList`: each load and store of a link is a step; a reader may see any
  height the list has had, and what a node's memory held before.
* `LevelMemTable`: an entry in the arena's cells, the key formats, `Get`.
* `LevelBlock`: the builder and the iterator with binary search and restarts;
  one entry may be damaged. `LevelTable`: index keys, filters and blocks while a
  table is built, with failing flushes, and the look-up. `LevelTableFile`
  extends it with opening a file of which one part is damaged and with reads that
  verify checksums or not, through the block cache; `ApproximateOffsetOf` answers
  with the metaindex block's offset past the last key (`OffsetsAscend`).
* `LevelCache`: the shards as one value, so that an operation composes as the
  code's calls do; two users and the cleanups that outlive a `Get`.
* `LevelEnv`, `LevelLock`: `Schedule` and its thread, the limiters; `LockFile`
  step by step beside the kernel's record locks, which a process loses when it
  closes any descriptor of the file.
* `LevelRepair`: the phases of `RepairDB`, its process dying between any two and
  the runs after it. `lost` is the directory lost/ by kind and number of file: moving
  a file there replaces the one of its name, and `NextFileNumber` does not look
  there. `LevelCoding`: records item by item, whole or cut.
  `LevelChecksum`: the CRC at its real width, from any alignment.

### nanopb

`PbEncode` is pure: an output stream goes in and out of each operator. `PbDecode`
reads, field by field, what its encoder wrote: one message or two, whole or cut,
plain, ended by a zero or by their length, with the writer's type or another
version of it; `MCPbTypes` has the types. `PbMemory` leaves the bytes out and
lets any field come, whole or failing, and keeps the blocks and pointers.

### MC modules

`MCPersonSync`, `MCSync` (the sync with its book and its history) and
`MCWishDetail` define symmetry sets. `MCLevelDB` puts the store, the environment
and the lock side by side, and `MCLevelParts` the sixteen parts that need no
other: a behaviour is one of one part, named by the variable `part`, and the
variables of the rest do not move. A property of a part is the implication that
it holds when `part` is that one. The parts do not interact in these
modules: they are put together so that each model runs once.
`MCLevelCompaction` has the batches of the run `reads_latest`.

## 4. What the runs check

| Run | Checks | Shows |
|---|---|---|
| `sync_two_people` | `UniqueIdentifiers`, `PendingOnlyAfterImport`, `ContextInv`, `SteadyIdsAgree`, `QuietLaunchHeals`, `ListIsStored`, `NoLostUpdate` | with a store that works, no interleaving of edits, import, merges, restarts and lost requests duplicates a person or overwrites what was not read; an undisturbed edit makes device and server agree |
| `sync_one_person` | `FetchSettles`, `QuietLaunchShows` | under fairness the import ends and is merged; a quiet launch comes to show everyone |
| `sync_failing_store` | `SnapshotsCurrent`, `ImplementsBook` | with saves and fetches that throw at any time, the contexts still overwrite nothing they have not read, and each step is the address book's or a stutter |
| `detail_form` | `FlagsTogether`, `PressTellsTruth` | whatever is typed, the copies of a flag agree, and a press that saves leaves every title true of what it stored |
| `level_db` | `AckedSurvive`, `OpenableAgain`, `NothingNeededDeleted`, `ReadersAgreeWithDisk`, `WriteReturns`, `ForcedCompactionFlushes`, `LimitsKept`, `ScheduledRuns`, `LockedOnce` | a database of two writers with a crash and a failure anywhere deletes nothing in use and answers every write; it keeps what it acknowledged and opens again, with the exceptions below |
| `level_parts` | 18 invariants, below | each part keeps its promise to the others |
| `background_changes` | `BackgroundChangesKept` (violated) | an update during the import makes the import's save conflict, and the whole reply is dropped |
| `termination` | `DeletesSurviveTermination` (violated) | a deleted person is back in the next launch's list |
| `detail_bought` | `BoughtStaysBought` (violated) | saving the form, or pressing one button, unmarks presents bought earlier |
| `reads_latest` | `ReadsLatest` (violated) | a Get can find an overwritten value after a chain of compactions |
| `log_failed_append` | `SyncedRecordSurvives` (violated) | a record synced after a failed append is not read |
| `one_process` | `OneProcessAtATime` (violated) | a refused second open lets another process in |

The invariants of `level_parts`, by part:

| Part | Invariants |
|---|---|
| skip list | `SearchFinds` |
| compactions, `CompactRange` | `SnapshotReads`, `LevelsSorted`, `RangesMovedDown` |
| iterators | `IteratorFollowsList`, `NoSilentGap` |
| cache | `FreedWhenUnreachable` |
| block | `BlockIterFollowsList` |
| memtable, table, damaged table file | `TableGetFinds` |
| repair | `RepairKeeps` |
| codings, checksum | `RecordsReadBack` |
| log, sound | `CrashLosesOnlyTheTail`, `NoRecordAfterOffsetMissed` |
| log, with a failed append, a changed byte, appended to again | `OnlyWholeRecords`, `DamageStaysInItsBlock` |
| nanopb's codings | `DecodesWhatWasSent`, `EncodesAsSized` |
| nanopb's memory | `BlocksOwnedOnce` |

`AckedSurvive`, `OpenableAgain` and `ReadersAgreeWithDisk` do not hold of
everything. What was logged behind a failed append is out of them until a flush has
it in a table (`hist.behind`): it may be acknowledged, synced and seen by readers,
and yet be unreadable to a recovery, which is the finding of `log_failed_append`.
And nothing is said once an edit was appended to a MANIFEST behind part of another
(`hist.misplaced`): versions may then be lost, and `DB::Open` may fail. For
everything else they hold, other writes and later ones in other logs included.

`RepairKeeps` has an exception too. `ArchiveFile` moves a table onto the one of its
name in lost/, and a number whose table is in lost/ only may be given out
again; what the replaced table held is `before.replaced`. The run meets it (a
copy that cannot be finished is deleted after its original was moved; a later run
gives the number to a copy that stays unfinished, and yet a later one archives that)
and shows that it takes a failure: when processes only die, nothing is replaced.

`SnapshotReads` has a premise: until a compaction leaves a file in its level that
has a user key in common with one it takes (`past.separated`), and no memtable was
flushed during a manual compaction (`past.raced`). Without the premise it is
`ReadsLatest`, which the run `reads_latest` refutes with smaller files, lower level
limits and memtables flushed deeper. `RangesMovedDown` and `LevelsSorted` have the
second premise: a flush during a manual compaction can make files of a level
overlap, and a second `CompactRange`, whose parts go by the files' first keys and
resume at the last key taken, then skips one of them. It takes some thirty steps
and two calls, more than the runs' bound of one.

### Findings

* **The import can be dropped whole** (`background_changes`).
  `CoreDataStack.swift:26` says that whatever changes in the background context
  is merged into the main one. A conflict on one person fails the background
  save, the error is logged, and every other record of the reply is gone until
  the next launch.
* **A deletion does not survive the app** (`termination`). `delete` never saves
  and the hooks whose comments speak of saving data are empty.
* **Bought presents become unbought** (`detail_bought`). The form's flags start
  false and are never read from the person; `save()` writes them all.
* **Entries hop across levels** (`reads_latest`). `SetupOtherInputs` takes what
  overlaps in user keys, and above level 0 leaves a file of the same level that
  goes on with the last user key of a chosen one. When an output is cut between
  two versions of a key, a later compaction can move the newer below the older;
  `version_set.cc:346-348` argues from their never doing so. The same in the level
  below, of which only the files that overlap are taken, lets a deletion be dropped
  while the older version it hides is left behind, and a `Get` finds that one: the
  instance of `level_parts` meets it as soon as five numbers are written and
  `LeftBehind` does not look at the lower level.
* **A failed append misplaces what follows** (`log_failed_append`).
  `EmitPhysicalRecord` advances `block_offset_` by the whole fragment whatever
  `Append` returned. `DBImpl` does stop on a failed sync, but not on a failed
  append, so later writes to the same log are acknowledged and may not be found
  again; hence the exception of `AckedSurvive`.
* **A refused open drops the lock** (`one_process`). `LockFile` opens the lock
  file before it looks into the process's own table and closes it when the name
  is there; the kernel then drops the process's record lock.

More statements fail when asked, and have no run:

* `db_impl.h:50` says that `TEST_CompactMemTable` forces the memtable's contents to be
  compacted. A NULL batch that waits behind a write is taken into its group and
  answered without a switch of memtables; `ForcedCompactionFlushes` is about the
  callers who find nobody in the queue, and fails without that condition;
* a synced write does not cover what was written before it: the unsynced tail of an
  older log may be lost while a synced record of the next one is kept;
* a birthday field that is empty or no date ends the app at any save, of an existing
  person too (`save` in `WishDetail`);
* `LevelCompaction!LevelsNeverOverlap`: a memtable flushed to a deep level during
  a manual compaction overlaps its output, hence the premise of `LevelsSorted`;
* `LevelRepair!RepairedReadsNewest`: what repair copies, or makes of an old log,
  gets a number above those of newer tables;
* `LevelLog!SeekReportsNothing`, on a log read from an initial offset;
* `LevelLog!SyncedRecordSurvives`, also on a log appended to after a torn tail.

`db.h` says of `CompactRange` that deleted and overwritten versions are discarded;
the level it stops at is computed before the memtable is flushed, so versions
flushed deeper stay.

### Bounds

The app:

* `Ident`: two people are needed for a conflict over one to cost another its
  import, and no action relates three. One person allows two record values. The
  runs with a failing store have one person in two copies, since such a store
  can duplicate a person.
* `Copy`: two, so that a duplicate can exist; the two violations use one.
* `Wish`: one value suffices where `bought` alone tells records apart; two in the
  runs in which a merge may mix two writes.
* `Task`: the requests in flight at once. Two reorder; the failing-store run,
  which looks at the device, has one. An edit waits for a free one, which is a
  bound of the model, not of the code.
* `Person`, `Text`, `Day`, `Button`: two people, two texts, one day beside a field
  that is no date, the three buttons of the storyboard.
* Symmetry is used in runs that check no liveness.

leveldb and nanopb, where a bound stands for a size of the code it is named in
the module's CONSTANTS:

* `LevelStore` has three instances. The first: two writers, three writes or NULL
  batches, each synced or not, one crash and one failing operation; a memtable is
  full after one item, two tables call for a merge and three stop the writers.
  Here writers wait for the immutable memtable, and never for the tables. The second
  (`Steady`) has no crash, one writer who syncs, and a write more: enough for a
  flush within a merge, the failed append of its edit, and the merge's edit behind
  it. The third (`Stopped`) has neither crashes nor failures, two writers with
  five calls, a memtable of two items, so that a NULL batch finds one that is not
  full, and stops the writers at two tables: here they wait for the tables too.
  What a failed append leaves behind shows within three writes: one that fails,
  one behind it and a crash.
* `LevelLog`: blocks of 5 cells with headers of 2, records of none, two and four
  bytes, so that records fill, cross and just miss a boundary, in up to three
  fragments and with trailers; two of them, with one failing append, one changed
  byte and one reopening, and any read may fail.
* `LevelCompaction`: two keys in four levels with five sequence numbers and one
  snapshot; three keys for `CompactRange`. Files of one or two entries make
  outputs cut; level limits of two or three entries make compactions cascade.
* `LevelIter`: three entries of two keys dealt to two children in every way, one
  or two blocks of the second unreadable, every snapshot; any sequence of moves.
* `LevelCache`: two users, three names in two shards with one place each, three
  entries and two cleanups. `LevelSkipList`: three nodes, two levels, one reader
  beside the writer.
* `LevelBlock`, `LevelTable`: the keys of two bytes of two or three values that
  make separators shorten, fail to, and end in the top byte; two or three entries
  in blocks of every size; a hash with collisions.
* `LevelRepair`: three entries in any tables and logs of up to three numbers, two
  deaths, one failure and numbers up to five, so that there are three runs and a
  table in lost/ can be replaced.
* `LevelCoding`: varints of base 4 in words of 32 and longs of 512 values, cut
  everywhere. `LevelChecksum` keeps bytes, words and polynomial as they are, with
  records up to eleven bytes from each alignment, split anywhere.
* nanopb: bytes of 16 values, nine pairs of types, and messages that reach each
  kind of field; for the memory up to four fields of two types.
* An unsigned sum that could overflow a 32-bit word is written on halves or left
  to the scaled widths; TLC's integers never wrap.

Deadlock is checked in the runs of the app and in `log_failed_append`: the app
can always be launched or ended. The runs of leveldb and nanopb say
`CHECK_DEADLOCK FALSE`: a
builder that has finished, a message that was read, and a bound that is reached
are ends.

### Fairness

* Sync: weak, for what a thread or queue of the device must eventually run: the
  list's load, the GET's completion (URLSession calls the handler of every task,
  with data or an error), each turn of the import loop, its save, and the merge
  on the main queue. Nothing makes the user act, a PUT arrive, the GET succeed,
  or iOS end the process.
* leveldb: weak, for a thread that can go on: opening, the background thread,
  closing, each writer that has called, and `BGThread`. A waiting writer can go on
  only when the code has signalled it, and the background thread only when it
  was scheduled, so that a signal left out shows (`WriteReturns`, `ScheduledRuns`).
  Nothing makes a caller call, or an operation succeed or fail.

## 5. What is proved

`PersonSyncProofs`, `SyncProofs`, `WishDetailProofs`, `LevelFilesProofs` (the
locks, the limiters and the repair), `LevelSkipListProofs`, `LevelStoreProofs`,
`LevelLogProofs` and `LevelCompactionProofs`; every proof is checked to its leaves.
The only assumptions are the named ones of the modules (`Nil` is no record,
`StoreMayFail` is Boolean; each thread has a process; files are finite in number
and the limits are naturals; a list's entries are positive numbers, it has a
level, and its writer is not one of its readers; a crash is a process's or a
machine's; a repair has more numbers to give than there are files; a log's
header is smaller than its block, and a record may be of any size; there are two
levels or more, a file may hold an entry, keys are ordered as naturals are, and a
batch is finite and writes a key once), and for four
theorems that `StoreMayFail` is false. The sets of
people, texts, requests, buttons, processes, threads, files, entries, readers and
writers may be of any size, and so may the bounds on writes, failures and crashes
and the limits that call for a compaction, cut its outputs or let its inputs grow.

| Theorem | States |
|---|---|
| `ContextsConsistent` | `Spec => []ContextInv` |
| `TypeCorrect`, `SnapshotsStayCurrent` | conjuncts of it |
| `UpdatesNotLost` | `Spec => NoLostUpdate` |
| `PendingAfterImport` | `~StoreMayFail => (Spec => []PendingOnlyAfterImport)` |
| `PersonsUnique` | `~StoreMayFail => (Spec => []UniqueIdentifiers)` |
| `SyncImplementsBook` | `Spec => ImplementsBook` |
| `ListStaysStored` | `Spec => []ListIsStored` |
| `SteadyPeopleAgree` | `~StoreMayFail => (HistorySpec => []SteadyIdsAgree)` |
| `QuietLaunchRepairs` | `~StoreMayFail => (HistorySpec => []QuietLaunchHeals)` |
| `FlagsStayTogether` | `Spec => []FlagsTogether` |
| `PressesTellTruth` | `Spec => PressTellsTruth` |
| `DatabaseLockedOnce` | `LockSpec => []LockedOnce` |
| `LimitsAlwaysKept` | `EnvSpec => []LimitsKept` |
| `SearchesFind` | `SkipSpec => []SearchFinds` |
| `AcknowledgedWritesSurvive` | `Spec => []AckedSurvive` |
| `AlwaysOpenableAgain` | `Spec => []OpenableAgain` |
| `NeededFilesKept` | `Spec => [](~hist.misplaced => NothingNeededDeleted)` |
| `ReadersSeeTheDisk` | `Spec => []ReadersAgreeWithDisk` |
| `RepairAlwaysKeeps` | `RepairSpec => []RepairKeeps` |
| `LogReturnsOnlyWholeRecords` | `LogSpec => []OnlyWholeRecords` |
| `LogCrashLosesOnlyTheTail` | `LogSpec => []CrashLosesOnlyTheTail` |
| `LogReaderStartsAtOffset` | `LogSpec => []NoRecordAfterOffsetMissed` |
| `LogDamageStaysInItsBlock` | `LogSpec => []DamageStaysInItsBlock` |
| `LevelsInv` | `LevelsSpec => []Inv`: the types, `SortedInv`, `ReadInv` |
| `LevelsStaySorted` | `LevelsSpec => []LevelsSorted` |
| `GetReadsLastWrite` | `LevelsSpec => []SnapshotReads` |
| `CompactRangeMovesDown` | `LevelsSpec => []RangeMovedDown` |

The argument for the sync:

* `SnapshotsCurrent` is the property of interest, and not inductive: whether a
  save keeps the other context's snapshots honest depends on which objects have
  rows (`ObjectsFitRows`) and on which phases the volatile variables may be
  non-empty in (`Phases`). `ContextInv` is their conjunction with `TypeOK`, it
  is inductive whether or not the store fails, and `ContextsConsistent` proves it
  with one step per action.
* `UpdatesNotLost` follows from it: a save that writes a row either finds no
  conflict, and then `SnapshotsCurrent` says the snapshot is the row, or writes
  nothing.
* `PendingOnlyAfterImport` holds because a main-context save can only be refused
  by an import that was saved and not yet merged, hence one that is over. It
  needs a store that does not fail.
* `UniqueIdentifiers` needs both. An object is added for an identifier only by
  `createPerson`, with an identifier nothing has heard of, or by the import,
  which saw no row for it; an unsaved object with that identifier would be
  `PendingOnlyAfterImport`'s exception, and the import would be over.

* `SyncImplementsBook` adds two facts to `ContextInv`: an unedited object shows
  what it was read with, and while the list is shown every stored person who is
  not news has an object in the main context. Without the second, a save could
  keep somebody the list does not show. `SaveKeeps` is the heart of it: whatever
  the main context holds, its save makes the store equal to the list outside the
  news, or changes neither. `NextBook` has one lemma per abstract action.
* `HistoryInv` adds to these invariants what holds of each steady person
  (`SteadyAt`) and of a quiet launch (`QuietInv`). A steady person has at most
  one request in flight; what it says, or the server when there is none, is
  what is `Promised`. The list says what is promised, and so do the rows until
  an edit may be pending (`MayPend`): without the rows a relaunch would forget
  it. An import under way has, of a steady person, only objects that say what
  their rows say, so that its save and its merge change nothing. A quiet launch
  keeps everyone unedited and the background context free of stale objects, so
  that the import's save is not refused; `ImportsServer` says that each record
  already applied is in the one object of its person. That there is only one is
  `UniqueIdentifiers`, which needs a store that does not fail; so does `SaidAlone`:
  the list shows nobody else under the identifier just edited. What the list
  shows of a person at rest is read off the rows by `RestIsStored`, which rests
  on the second fact of the refinement.

The form's `FormInv` is `FlagsTogether` with the types. `PressTellsTruth` is about
the flags alone: with the controller's and the buttons' equal before a press, the one
Toggle of each leaves them equal and the titles above them (`PressTogether`).

For the lock, `LockInv` adds to `LockedOnce` that every thread from its insertion
into the table to its removal has its process in the table, alone (`OneEach`),
and that the kernel's lock of a holder is still there unless a close dropped it
(`StillOwned`): `LockedOnce` alone says nothing of a thread between the table
and the kernel. For the limiters, `LimitsKept` is inductive with the types; its
proof counts the files of a kind before and after one of them changes.

The skip list's `SkipInv`: each level is a sorted chain from the head that a
node has joined for good (`Chains`), a level's nodes are the level below's too
(`Nested`), the levels above the height are empty (`EmptyAbove`). While a node is
being linked it is in the levels it has been published in and between its
neighbours in the others (`Finding`, `Linking`). A search then stands, whatever
height it has read and whatever links it still sees, on a node before its target,
and of the nodes that were in the list when it began none lies between
(`Searches`); `SearchFinds` is what that says when the search is over.

The store's `StoreInv` proves its four properties together, since none is
inductive without the others; it holds as long as no edit was appended to a MANIFEST
behind part of another, and `IndInv` says so: `hist.misplaced`, once true, stays
(`MisplacedStays`). Up to then every edit of the MANIFEST that CURRENT names can be
read: after a failed append at most its end is missing. What was logged behind
a failed append (`hist.behind`) is taken out of what the logs have to hold, until
`Install` has it in a table. The machine may crash at any moment, so what holds
of the MANIFEST has to hold of every prefix of it that a crash may leave:
`Sound(k)` says of the first `k` edits, for each `k` from the last sync to the
end, that their tables are there, that the numbers they record are above all that
is in use, and that their tables and the logs they keep hold what was synced,
with one write to a sequence number. While the database is being opened
`Recovered` says what of the logs has been read and what has still to be; from
the new descriptor on, `NewManifest` and `NewLog`. While it is open (`Run`):

* `Follows(k)` relates the version in memory to each prefix: a prefix may lag
  behind in the log it keeps, and then holds no fewer items in its tables; after a
  failed append or sync it may be ahead of the version, never short of it.
* `InStep`, `Background` and `EditAtHand` follow a flush or a merge, also a flush
  inside a merge, from the output nobody names yet (`Unnamed`) to the edit that is
  in the MANIFEST but not in memory; a merged table has its inputs' items.
* `Memtables` puts each memtable's items in its log, the synced ones in the log's
  synced part, but for those in `hist.behind`, of which none is in a table of the
  version; `Writing` and `Logged` do so for the group being logged, whose
  numbers are above `LastSequence`.
* `Numbered`: no two writes in any log or table have one number, and none is above
  `LastSequence` but the group's.

`RunningIsSound` derives `Sound` for every prefix from it, so that a crash
(`DiskCut`), a close, and an open database that gives up all come to the same
facts about the disk. Each action has a lemma; `EditLanded` and `EditIs` are the
step at which an edit reaches the MANIFEST, whether or not the append was
reported as done. TLC checked `StoreInv` on instances of `level_db` first.

The repair's `RepairInv`: an entry that could be read when it began is in a
table it has still to scan or will list, in a log it has still to convert, or in
the table at hand (`Accounted`), as long as no crash or failure came between; in
any case it is in a file or in lost/ (`Kept`). What keeps the two true over the
many renamings is that a number not given out yet names no file (`Allocated`), and
that the table under repair and its copy are apart from those already scanned, the
original being there until lost/ holds what the copy has (`CopyApart`). `Kept`
allows for what a move into lost/ has replaced. That there is nothing of the kind
as long as no operation failed is `NoneReplaced`: the number of a table in lost/ stays in
use then, by the repaired table or by a file above it (`TablesOnce`), the table
under repair is a damaged one and its copy's number is not in lost/
(`UnderRepair`), and no log is both in the directory and in lost/ (`LogsOnce`). That
`NextFileNumber` is above every file's number, a greatest element, comes from the
least of the differences to `MaxNumber`.

The log has two invariants. `Sound` holds whatever happened to the file: cells lie
where their fragment was put (`CellsInPlace`) and in order (`CellsInOrder`); a
fragment that continues a record is a header or more behind every earlier
fragment but the one before it (`ContinuationApart`), so that a reader past the
latter, in a trailer or not, cannot take one up with an older beginning in its
scratch; a record's fragments follow each other (`FragmentsOfRecords`). A trailer
cut short counts as any misplacement: of what stands before a fragment the proof uses
only that it is zeros (`Padding`). The
reader's scratch then is the beginning of one record whose last fragment it has
read (`ScratchWhole`), and what it returned are records (`OutWhole`).
`OnlyWholeRecords` is what that says.

`Complete` is about a log that no append failed on and that one writer wrote:
fragments tile the blocks (`Tiled`), the file holds them but for what a crash took
or the medium changed (`Filled`), and are the cut of its records (`Cut`). The
reader's buffer ends at a block boundary or with the file (`Framed`), the reader
is always between two fragments (`AtCut`), also when it gives up the rest of a
block; and every record that is due has been returned or is ahead of it with the
fragments before in the scratch (`NothingMissed`). On an undamaged log read from
its start nothing is reported (`NothingDropped`). A read that fails ends the reading in the phase "error",
of which `Complete` says no more and the three other theorems nothing; they are
read off `Sound` and `Complete` together. TLC checked both on instances with up to
three records, a failing append, a changed byte and a reopening first.

The levels' `Inv` has, beside the types, an order of files and an order of
versions.

* `SortedInv`: two files of a level above 0 lie one before the other
  (`LevelsApart`); the output of the running job fits between the files of the
  level below that it did not take (`JobApart`), since these lie before or after
  all of its inputs. For a job the background thread picked, every key between the
  least and the greatest of its inputs lies in one of them (`JobCovered`), which is
  why a memtable flushed while it ran, put no deeper than where nothing overlaps
  it, cannot come between. A manual job is cut to a part of its range and is not
  covered, hence the premise `~past.raced`. In level 0 `GetOverlappingInputs` is
  the least closed set of files; a gap in what it spans would cut it in two,
  one of which would be closed and smaller (`OverlappedCovered`).
* `ReadInv`: the memtables and the files of level 0 are ordered by age (`Aged`);
  of a key, what is in a higher level is newer (`Descend`); a job leaves nothing
  behind in its two levels, and nothing but `deeper` below, that has a key with an
  input and would break that (`JobAlone`); no snapshot is below the one the job drops for
  (`JobSmallest`). Then the newest version of a key up to any snapshot is still
  somewhere, unless it is a deletion and every version it hid is gone
  (`Retained`).
* The loop of `DoCompactionWork` is a function of the number of its turns. That
  there is such a function, and that what has been kept and dropped and how the
  outputs lie (`Merged`) is right after each turn, both go by the least number of
  turns for which it is not (`OutputsAre`).
* `GetFinds`: a Get that goes through the memtables, level 0 from the newest file
  and one file of each level below stops at the newest version there is, because
  every layer it passes is newer than the next (`LayersDescend`) and `FindFile`'s
  file is the only one of its level that can have the key. `Retained` makes that
  version the one written last.

For `CompactRange`, `RangeInv` says that nothing of the range is left in the levels
the call has gone through, nor below `call.from` in the one it is in but for what
the running part takes (`Done`, `Held`). `PartTaken` is the step where that could
fail: a part is cut at a size and then grown, and the next one resumes at its last
key. Files of one level that overlap break it, whence the premise; while the levels
are sorted nothing before that key stays behind. TLC checked the parts on small
instances first.

Only model-checked: the liveness properties (fairness and `ENABLED` are out of
the prover's reach), and of leveldb and nanopb the parts that `level_parts`
lists, but for the skip list, the compactions, the repair and the log. What a recursive definition
computes for every input is beyond the prover too, which concerns the codings,
blocks and checksums most: the induction it would take has a predicate for a
parameter. (A least element of a set of numbers can be had, and is.)

## 6. Not modelled

The app:

* A second device on the same database. The import never deletes, so that is
  where a person removed elsewhere would stay for ever.
* The text of a field, the `MMM d` format and the section titles: Foundation's
  formatter decides them by the device's locale and time zone.
* The table's batch updates: which batches are consistent is UIKit's rule, which
  is not in the repository.
* A store that does not load (`fatalError`), and anything with no state that is
  read back: cells, fonts, colours, the launch animation, the widget, which is
  the template's, and `Notification.swift`, which is commented out.
* The vendored Firebase client, of which the app calls `FirebaseApp.configure()`
  only.

leveldb:

* `reuse_logs` in `DBImpl` (the log's part is in `LevelLog`), `DestroyDB` (which
  unlocks the directory before it deletes the lock file), `GetProperty`,
  `SanitizeOptions`, the sleep of a millisecond when level 0 grows, statistics.
* Read samples of an iterator; compression, which is not built in; the
  destruction of a cache; what `Footer` reads of a file shorter than itself.
* In `LevelTableFile`, index and filter blocks read without `paranoid_checks` are
  unverified whatever `verify_checksums` says, and a block cached by a read that
  did not verify serves one that would: the model does as the code does and
  `TableGetFinds` excepts both.
* The C interface, the dump tool, the histogram, ports, the hash (any function
  in the models) and the remaining operations on files, one system call each.

nanopb:

* A `realloc` that fails, oneofs that mix static and pointer members, a static
  submessage of a oneof that comes twice, callbacks that read less than their
  field, and builds with `PB_WITHOUT_64BIT` or `PB_BUFFER_ONLY`.
