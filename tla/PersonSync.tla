----------------------------- MODULE PersonSync -----------------------------
(***************************************************************************)
(* PersonController over Core Data and a Firebase database.                *)
(*                                                                         *)
(* The app keeps its people in a persistent store (rows), edits them in    *)
(* the main managed object context (main), sends one PUT or DELETE per     *)
(* edit (tasks) to a server that every launch reads once (fetch, reply)    *)
(* and copies into the store through a private background context (bg).    *)
(*                                                                         *)
(* Covered: create, update, delete, the launch's GET and its record by     *)
(* record import, the two contexts' saves with their optimistic-locking    *)
(* conflicts, the merge into the main context, requests that arrive in any *)
(* order or never, termination at any moment and relaunch.                 *)
(* Not covered: a second device on the same database, and the text of a    *)
(* record (Wish stands for name, birthday and the three choices).          *)
(***************************************************************************)

CONSTANTS
    Ident,          \* person identifiers (UUID strings)
    Copy,           \* tells apart two managed objects with one identifier
    Wish,           \* what a record says besides its flags
    Task,           \* URLSession data tasks: the bound on requests in flight
    Nil,            \* Swift's nil: no object, no record, no flag
    StoreMayFail    \* may a save or a fetch throw for a reason of its own?

Rec == [wish : Wish, bought : BOOLEAN]

\* A record on the server; the flags are optional (a legacy record has none).
Rep == [wish : Wish, bought : BOOLEAN \cup {Nil}]

Request == [id : Ident, body : Rec \cup {Nil}]      \* body Nil: a DELETE

\* Managed objects. Nothing in the data model makes an identifier unique.
Obj == Ident \X Copy
identifier(o) == o[1]

\* A registered object: what the context shows (rec), the snapshot it was
\* read with (base, Nil for a new object) and what a save would do with it.
Registered == [st : {"clean", "inserted", "updated", "deleted"},
               rec : Rec, base : Rec \cup {Nil}]

ASSUME NilAssumption == /\ Nil \notin Rec
                        /\ Nil \notin Rep
                        /\ Nil \notin Request
                        /\ Nil \notin Registered
                        /\ Nil \notin BOOLEAN
ASSUME StoreMayFailAssumption == StoreMayFail \in BOOLEAN

VARIABLES
    app,        \* "down", "starting" (GET sent, list not loaded) or "ready"
    rows,       \* the persistent store
    main,       \* CoreDataStack.mainContext
    fetch,      \* the launch's GET: idle, requested, handling, done, failed
    reply,      \* decoded records the import has still to apply
    bg,         \* backgroundMoc
    bgStale,    \* objects of bg whose row changed after bg read it
    unmerged,   \* objects saved by bg and not yet merged into main
    server,     \* the Firebase database
    tasks       \* PUT and DELETE requests in flight

vars == <<app, rows, main, fetch, reply, bg, bgStale, unmerged, server, tasks>>

NoObjects == [o \in Obj |-> Nil]
NoReply   == [i \in Ident |-> Nil]

TypeOK ==
    /\ app \in {"down", "starting", "ready"}
    /\ rows \in [Obj -> Rec \cup {Nil}]
    /\ main \in [Obj -> Registered \cup {Nil}]
    /\ fetch \in {"idle", "requested", "handling", "done", "failed"}
    /\ reply \in [Ident -> Rep \cup {Nil}]
    /\ bg \in [Obj -> Registered \cup {Nil}]
    /\ bgStale \subseteq Obj
    /\ unmerged \subseteq Obj
    /\ server \in [Ident -> Rep \cup {Nil}]
    /\ tasks \in [Task -> Request \cup {Nil}]

\* A fresh install, or the store of an earlier version of the data model, which
\* had none of the flags: the migration leaves them false. The database may
\* hold anything.
Init ==
    /\ app = "down"
    /\ rows \in [Obj -> [wish : Wish, bought : {FALSE}] \cup {Nil}]
    /\ \A o, p \in Obj : rows[o] # Nil /\ rows[p] # Nil /\ identifier(o) = identifier(p)
                             => o = p
    /\ main = NoObjects
    /\ fetch = "idle"
    /\ reply = NoReply
    /\ bg = NoObjects
    /\ bgStale = {}
    /\ unmerged = {}
    /\ server \in [Ident -> Rep \cup {Nil}]
    /\ tasks = [t \in Task |-> Nil]

-----------------------------------------------------------------------------
(* Records and objects                                                     *)

\* isBought ?? false
AsRec(rep) == [wish |-> rep.wish, bought |-> rep.bought = TRUE]

\* The failable initialiser refuses a record without flags. It also refuses
\* one whose identifier is not a UUID, which this app never sends: no person
\* has it, so the record is refused each time, as one with Nil flags is.
Insertable(rep) == rep.bought # Nil

\* Assigning every property marks an object updated; whether it still counts
\* as changed when no value differs is up to Core Data.
Touched(old, new) == IF old = new THEN {"clean", "updated"} ELSE {"updated"}

Clean(r)         == [st |-> "clean", rec |-> r, base |-> r]
Inserted(r)      == [st |-> "inserted", rec |-> r, base |-> Nil]
Changed(m, st, r) == [st |-> st, rec |-> r, base |-> m.base]

IsFree(o) == rows[o] = Nil /\ main[o] = Nil /\ bg[o] = Nil

\* A new UUID is one that nothing has heard of.
Unheard(i) ==
    /\ server[i] = Nil /\ reply[i] = Nil
    /\ \A t \in Task : tasks[t] # Nil => tasks[t].id # i
    /\ \A o \in Obj : identifier(o) = i => IsFree(o)

\* The objects the list shows.
Visible == {o \in Obj : main[o] # Nil /\ main[o].st # "deleted"}

-----------------------------------------------------------------------------
(* Saving a context                                                        *)

\* What a save of the context contents m writes.
Dirty(m) == {o \in Obj : m[o] # Nil /\ m[o].st # "clean"}

RowsAfter(m) ==
    [o \in Obj |-> IF o \notin Dirty(m) THEN rows[o]
                   ELSE IF m[o].st = "deleted" THEN Nil ELSE m[o].rec]

ObjectsAfter(m) ==
    [o \in Obj |-> IF o \notin Dirty(m) THEN m[o]
                   ELSE IF m[o].st = "deleted" THEN Nil ELSE Clean(m[o].rec)]

\* NSErrorMergePolicy: a save fails as a whole when one object it would
\* update or delete has a row that changed after the context read it.
Conflict(m, changed) == \E o \in Dirty(m) \cap changed : m[o].st # "inserted"

\* Bug to catch: with another merge policy every save overwrites.
saveTrumping(m) ==
    /\ rows' = RowsAfter(m)
    /\ main' = ObjectsAfter(m)
    /\ bgStale' = bgStale \cup {o \in Dirty(m) : bg[o] # Nil}

\* saveToPersistentStore() of the main context holding m: an error is logged,
\* and everything stays pending.
saveToPersistentStore(m) ==
    \/ /\ ~Conflict(m, unmerged)
       /\ rows' = RowsAfter(m)
       /\ main' = ObjectsAfter(m)
       /\ bgStale' = bgStale \cup {o \in Dirty(m) : bg[o] # Nil}
    \/ /\ StoreMayFail \/ Conflict(m, unmerged)
       /\ main' = m
       /\ UNCHANGED <<rows, bgStale>>

Send(i, body) ==
    \E t \in Task :
        /\ tasks[t] = Nil
        /\ tasks' = [tasks EXCEPT ![t] = [id |-> i, body |-> body]]

\* Bug to catch: put() sends without saving.
putUnsaved(o, m) ==
    /\ Send(identifier(o), m[o].rec)
    /\ main' = m
    /\ UNCHANGED <<rows, bgStale>>

\* put(person) encodes the person as it is now; its save and its callers' save
\* run in the same turn of the main thread, so one save stands for both.
put(o, m) ==
    /\ Send(identifier(o), m[o].rec)
    /\ saveToPersistentStore(m)

-----------------------------------------------------------------------------
(* The user's operations, on the main thread                               *)

createPerson(o, r) ==
    /\ app = "ready"
    /\ Unheard(identifier(o))
    /\ put(o, [main EXCEPT ![o] = Inserted(r)])
    /\ UNCHANGED <<app, fetch, reply, bg, unmerged, server>>

update(o, r) ==
    /\ app = "ready"
    /\ o \in Visible
    /\ \E st \in IF main[o].st = "clean" THEN Touched(main[o].rec, r)
                                         ELSE {main[o].st} :
           put(o, [main EXCEPT ![o] = Changed(main[o], st, r)])
    /\ UNCHANGED <<app, fetch, reply, bg, unmerged, server>>

\* Bug to catch: the server is not told.
deleteLocally(o) ==
    /\ app = "ready"
    /\ o \in Visible
    /\ main' = [main EXCEPT ![o] = IF main[o].st = "inserted" THEN Nil
                                   ELSE Changed(main[o], "deleted", main[o].rec)]
    /\ UNCHANGED <<app, rows, fetch, reply, bg, bgStale, unmerged, server, tasks>>

\* delete(person:) does not save; an object that was never saved just goes.
delete(o) ==
    /\ app = "ready"
    /\ o \in Visible
    /\ main' = [main EXCEPT ![o] = IF main[o].st = "inserted" THEN Nil
                                   ELSE Changed(main[o], "deleted", main[o].rec)]
    /\ Send(identifier(o), Nil)
    /\ UNCHANGED <<app, rows, fetch, reply, bg, bgStale, unmerged, server>>

-----------------------------------------------------------------------------
(* The launch and its GET                                                  *)

\* WishListTVC's personController property starts the GET.
Launch ==
    /\ app = "down"
    /\ app' = "starting"
    /\ fetch' = "requested"
    /\ UNCHANGED <<rows, main, reply, bg, bgStale, unmerged, server, tasks>>

\* The lazy fetchedResultsController loads the list.
performFetch ==
    /\ app = "starting"
    /\ app' = "ready"
    /\ main' = [o \in Obj |-> IF rows[o] = Nil THEN Nil ELSE Clean(rows[o])]
    /\ unmerged' = {}
    /\ UNCHANGED <<rows, fetch, reply, bg, bgStale, server, tasks>>

\* No connection, no data, or data that does not decode: an empty database
\* answers null, which is no dictionary.
FetchFails ==
    /\ fetch = "requested"
    /\ fetch' = "failed"
    /\ UNCHANGED <<app, rows, main, reply, bg, bgStale, unmerged, server, tasks>>

ServerReplies ==
    /\ fetch = "requested"
    /\ \E i \in Ident : server[i] # Nil
    /\ fetch' = "handling"
    /\ reply' = server
    /\ UNCHANGED <<app, rows, main, bg, bgStale, unmerged, server, tasks>>

\* The background context's fetch request matches what the store holds now.
Matches(i) == {o \in Obj : identifier(o) = i /\ rows[o] # Nil}

updateWithPersonRepresentation(o, rep) ==
    \E st \in Touched(rows[o], AsRec(rep)) :
        bg' = [bg EXCEPT ![o] = Changed(Clean(rows[o]), st, AsRec(rep))]

\* Bug to catch: the initialiser refuses a flag that is false.
insertPersonIfBought(i, rep) ==
    \/ /\ rep.bought = TRUE
       /\ \E o \in Obj : /\ identifier(o) = i /\ IsFree(o)
                         /\ bg' = [bg EXCEPT ![o] = Inserted(AsRec(rep))]
    \/ rep.bought # TRUE /\ UNCHANGED bg

insertPerson(i, rep) ==
    \/ /\ Insertable(rep)
       /\ \E o \in Obj : /\ identifier(o) = i /\ IsFree(o)
                         /\ bg' = [bg EXCEPT ![o] = Inserted(AsRec(rep))]
    \/ ~Insertable(rep) /\ UNCHANGED bg

\* Bug to catch: the loop waits for a record it can use.
ApplyUsableOnly(i) ==
    /\ fetch = "handling"
    /\ reply[i] # Nil
    /\ \/ \E o \in Matches(i) : updateWithPersonRepresentation(o, reply[i])
       \/ /\ Matches(i) = {} /\ Insertable(reply[i])
          /\ insertPerson(i, reply[i])
    /\ reply' = [reply EXCEPT ![i] = Nil]
    /\ UNCHANGED <<app, rows, main, fetch, bgStale, unmerged, server, tasks>>

\* One turn of the import loop. A fetch that throws is logged and taken for
\* "no such person".
ApplyRepresentation(i) ==
    /\ fetch = "handling"
    /\ reply[i] # Nil
    /\ \/ \E o \in Matches(i) : updateWithPersonRepresentation(o, reply[i])
       \/ /\ StoreMayFail \/ Matches(i) = {}
          /\ insertPerson(i, reply[i])
    /\ reply' = [reply EXCEPT ![i] = Nil]
    /\ UNCHANGED <<app, rows, main, fetch, bgStale, unmerged, server, tasks>>

\* Bug to catch: the main context is not told of the import's save.
SaveBackgroundUnannounced ==
    /\ fetch = "handling"
    /\ reply = NoReply
    /\ rows' = IF Conflict(bg, bgStale) THEN rows ELSE RowsAfter(bg)
    /\ fetch' = "done"
    /\ bg' = NoObjects
    /\ bgStale' = {}
    /\ UNCHANGED <<app, main, reply, unmerged, server, tasks>>

\* saveToPersistentStore(context: backgroundMoc), after which the context is
\* released: what could not be saved is gone, and completion(nil) follows.
SaveBackground ==
    /\ fetch = "handling"
    /\ reply = NoReply
    /\ \/ /\ ~Conflict(bg, bgStale)
          /\ rows' = RowsAfter(bg)
          /\ unmerged' = unmerged \cup Dirty(bg)
       \/ /\ StoreMayFail \/ Conflict(bg, bgStale)
          /\ UNCHANGED <<rows, unmerged>>
    /\ fetch' = "done"
    /\ bg' = NoObjects
    /\ bgStale' = {}
    /\ UNCHANGED <<app, main, reply, server, tasks>>

-----------------------------------------------------------------------------
(* Core Data, the network and iOS                                          *)

\* A refreshed object keeps the properties changed locally.
Reapplied(m, row) ==
    [wish   |-> IF m.rec.wish = m.base.wish THEN row.wish ELSE m.rec.wish,
     bought |-> IF m.rec.bought = m.base.bought THEN row.bought ELSE m.rec.bought]

Merged(o) ==
    IF main[o] = Nil \/ main[o].st = "clean" THEN Clean(rows[o])
    ELSE IF main[o].st = "updated"
         THEN [st |-> "updated", rec |-> Reapplied(main[o], rows[o]), base |-> rows[o]]
         ELSE [main[o] EXCEPT !.base = rows[o]]

\* Bug to catch: only the objects the list has already are refreshed.
MergeKnownOnly ==
    /\ app = "ready"
    /\ unmerged # {}
    /\ main' = [o \in Obj |-> IF o \in unmerged /\ main[o] # Nil THEN Merged(o) ELSE main[o]]
    /\ unmerged' = {}
    /\ UNCHANGED <<app, rows, fetch, reply, bg, bgStale, server, tasks>>

\* automaticallyMergesChangesFromParent, in a later turn of the main thread.
MergeToMain ==
    /\ app = "ready"
    /\ unmerged # {}
    /\ main' = [o \in Obj |-> IF o \in unmerged THEN Merged(o) ELSE main[o]]
    /\ unmerged' = {}
    /\ UNCHANGED <<app, rows, fetch, reply, bg, bgStale, server, tasks>>

\* The server takes a request; requests in flight are not ordered.
Deliver(t) ==
    /\ tasks[t] # Nil
    /\ server' = [server EXCEPT ![tasks[t].id] = tasks[t].body]
    /\ tasks' = [tasks EXCEPT ![t] = Nil]
    /\ UNCHANGED <<app, rows, main, fetch, reply, bg, bgStale, unmerged>>

\* A request fails, or is refused with a status nobody reads: no retry.
Lose(t) ==
    /\ tasks[t] # Nil
    /\ tasks' = [tasks EXCEPT ![t] = Nil]
    /\ UNCHANGED <<app, rows, main, fetch, reply, bg, bgStale, unmerged, server>>

\* iOS ends the process; no AppDelegate hook saves anything.
Terminate ==
    /\ app # "down"
    /\ app' = "down"
    /\ main' = NoObjects
    /\ fetch' = "idle"
    /\ reply' = NoReply
    /\ bg' = NoObjects
    /\ bgStale' = {}
    /\ unmerged' = {}
    /\ UNCHANGED <<rows, server, tasks>>

-----------------------------------------------------------------------------
UserStep ==
    \E o \in Obj :
        \/ \E r \in Rec : createPerson(o, r) \/ update(o, r)
        \/ delete(o)

Next ==
    \/ UserStep
    \/ Launch
    \/ performFetch
    \/ FetchFails
    \/ ServerReplies
    \/ \E i \in Ident : ApplyRepresentation(i)
    \/ SaveBackground
    \/ MergeToMain
    \/ \E t \in Task : Deliver(t) \/ Lose(t)
    \/ Terminate

Spec == Init /\ [][Next]_vars

\* URLSession calls every task's handler, and threads and the main queue run.
\* Nothing makes the user act, a request succeed or iOS end the app.
Fairness ==
    /\ WF_vars(performFetch)
    /\ WF_vars(ServerReplies \/ FetchFails)
    /\ WF_vars(\E i \in Ident : ApplyRepresentation(i))
    /\ WF_vars(SaveBackground)
    /\ WF_vars(MergeToMain)

FairSpec == Spec /\ Fairness

-----------------------------------------------------------------------------
(* Properties                                                              *)

\* In the store or in a context, waiting to be stored.
IsLive(o) == rows[o] # Nil \/ main[o] # Nil \/ bg[o] # Nil

\* One person is one managed object: however creation, the import, refused
\* saves and restarts interleave, no identifier ever has two. Nothing in the
\* data model enforces it; it rests on put() saving before it sends and on
\* one GET per launch (PersonController.put, fetchPersonFromServer).
UniqueIdentifiers ==
    \A o, p \in Obj :
        IsLive(o) /\ IsLive(p) /\ identifier(o) = identifier(p) => o = p

\* A create or an update can stay unsaved only after the import of this launch
\* is over: until then saveToPersistentStore() of the main context succeeds.
\* This is why the import never meets a person it cannot find by fetch.
PendingOnlyAfterImport ==
    \A o \in Obj : main[o] # Nil /\ main[o].st \in {"inserted", "updated"}
                       => fetch = "done"

\* What a context knows of a row it holds is the row, except where the stack
\* has seen the other context save it.
SnapshotsCurrent ==
    \A o \in Obj :
        /\ (main[o] # Nil /\ o \notin unmerged) => main[o].base = rows[o]
        /\ (bg[o] # Nil /\ o \notin bgStale) => bg[o].base = rows[o]

\* How the launch's phases bound what the volatile state may hold.
Phases ==
    /\ app = "down" => fetch = "idle"
    /\ app # "ready" => main = NoObjects
    /\ fetch # "handling" => bg = NoObjects /\ bgStale = {} /\ reply = NoReply
    /\ unmerged # {} => fetch = "done"

\* How the two contexts' objects relate to the rows: an object is new exactly
\* while it has no row, the contexts never both make the same object, and the
\* import has no record left of a person it has already applied.
ObjectsFitRows ==
    \A o \in Obj :
        /\ main[o] # Nil => (main[o].st = "inserted" <=> main[o].base = Nil)
        /\ main[o] # Nil => (main[o].base = Nil <=> rows[o] = Nil)
        /\ bg[o] # Nil => bg[o].st # "deleted"
        /\ bg[o] # Nil => (bg[o].st = "inserted" <=> bg[o].base = Nil)
        /\ (bg[o] # Nil /\ bg[o].base = Nil) => (rows[o] = Nil /\ main[o] = Nil)
        /\ bg[o] # Nil => reply[identifier(o)] = Nil
        /\ o \in unmerged => rows[o] # Nil

\* The inductive invariant of every build, whether the store fails or not.
ContextInv == TypeOK /\ Phases /\ ObjectsFitRows /\ SnapshotsCurrent

\* No lost update inside the app: a stored person is overwritten or removed
\* only by a context that had read exactly what it replaces, so the import
\* and the user's edits never silently undo each other in the store.
NoLostUpdate ==
    [][\A o \in Obj :
          (rows[o] # Nil /\ rows'[o] # rows[o]) =>
              ((main[o] # Nil /\ main[o].base = rows[o])
                  \/ (bg[o] # Nil /\ bg[o].base = rows[o]))]_vars

\* The comment of CoreDataStack.container: whatever changes in the background
\* context reaches the main one. Stated of the step that releases that
\* context: what it had changed is in the store, from where it is merged.
BackgroundChangesKept ==
    [][\A o \in Obj :
          /\ app' # "down"
          /\ bg[o] # Nil /\ bg[o].rec # bg[o].base
          /\ bg'[o] = Nil
          => rows'[o] = bg[o].rec]_vars

\* AppDelegate's comments: the data is saved before the process ends. A person
\* the user has deleted is not in the store the next launch loads.
DeletesSurviveTermination ==
    [][\A o \in Obj : app = "ready" /\ app' = "down" /\ rows'[o] # Nil
                          => o \in Visible \/ main[o] = Nil]_vars

\* The launch's GET always comes to an end the list reflects, unless iOS ends
\* the app first: the import finishes and its merge is done.
FetchSettles ==
    fetch = "requested" ~>
        \/ fetch = "idle"
        \/ fetch \in {"done", "failed"} /\ app = "ready" /\ unmerged = {}
=============================================================================
