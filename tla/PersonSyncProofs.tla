-------------------------- MODULE PersonSyncProofs --------------------------
(* Machine-checked theorems of PersonSync, for every set of identifiers,    *)
(* texts and requests in flight.                                            *)
EXTENDS PersonSync, TLAPS

States == {"clean", "inserted", "updated", "deleted"}

-----------------------------------------------------------------------------
(* What the operators on records and objects return                         *)

\* An object's identifier is an identifier.
LEMMA IdentifierType == \A o \in Obj : identifier(o) \in Ident
  BY DEF Obj, identifier

\* An imported record is a whole local record.
LEMMA AsRecType == \A rep \in Rep : AsRec(rep) \in Rec
  BY DEF AsRec, Rep, Rec

\* Nil is none of the values it stands beside.
LEMMA NilIsApart ==
    /\ \A x \in Registered : x # Nil
    /\ \A x \in Rec : x # Nil
    /\ \A x \in Rep : x # Nil
    /\ \A x \in Request : x # Nil
  BY NilAssumption

\* A registered object as read, as created and as changed.
LEMMA CleanType ==
    \A r \in Rec : /\ Clean(r) \in Registered
                   /\ Clean(r).st = "clean" /\ Clean(r).rec = r /\ Clean(r).base = r
  BY DEF Clean, Registered

LEMMA InsertedType ==
    \A r \in Rec : /\ Inserted(r) \in Registered
                   /\ Inserted(r).st = "inserted" /\ Inserted(r).rec = r
                   /\ Inserted(r).base = Nil
  BY DEF Inserted, Registered

LEMMA ChangedType ==
    \A m \in Registered, st \in States, r \in Rec :
        /\ Changed(m, st, r) \in Registered
        /\ Changed(m, st, r).st = st /\ Changed(m, st, r).rec = r
        /\ Changed(m, st, r).base = m.base
  BY DEF Changed, Registered, States

\* The components of a registered object.
LEMMA RegisteredFields ==
    \A m \in Registered : m.st \in States /\ m.rec \in Rec /\ m.base \in Rec \cup {Nil}
  BY DEF Registered, States

\* Merging mixes two whole records into one.
LEMMA ReappliedType ==
    \A m \in Registered, row \in Rec : Reapplied(m, row) \in Rec
  BY DEF Reapplied, Registered, Rec

-----------------------------------------------------------------------------
(* What saving a context does                                               *)

Contexts == [Obj -> Registered \cup {Nil}]

\* The rows after a save: the context's word on what it changed.
LEMMA RowsAfterSave ==
    ASSUME TypeOK, NEW m \in Contexts
    PROVE  /\ RowsAfter(m) \in [Obj -> Rec \cup {Nil}]
           /\ \A o \in Obj :
                 /\ m[o] = Nil \/ m[o].st = "clean" => RowsAfter(m)[o] = rows[o]
                 /\ m[o] # Nil /\ m[o].st = "deleted" => RowsAfter(m)[o] = Nil
                 /\ m[o] # Nil /\ m[o].st \in {"inserted", "updated"}
                        => RowsAfter(m)[o] = m[o].rec /\ m[o].rec # Nil
  BY RegisteredFields, NilIsApart DEF TypeOK, Contexts, RowsAfter, Dirty

\* The context after a save: clean, without what it deleted.
LEMMA ObjectsAfterSave ==
    ASSUME NEW m \in Contexts
    PROVE  /\ ObjectsAfter(m) \in Contexts
           /\ \A o \in Obj :
                 /\ m[o] = Nil \/ m[o].st = "clean" => ObjectsAfter(m)[o] = m[o]
                 /\ m[o] # Nil /\ m[o].st = "deleted" => ObjectsAfter(m)[o] = Nil
                 /\ m[o] # Nil /\ m[o].st \in {"inserted", "updated"} =>
                       /\ ObjectsAfter(m)[o] # Nil
                       /\ ObjectsAfter(m)[o].st = "clean"
                       /\ ObjectsAfter(m)[o].rec = m[o].rec
                       /\ ObjectsAfter(m)[o].base = m[o].rec
  BY RegisteredFields, NilIsApart, CleanType DEF Contexts, ObjectsAfter, Dirty

\* What ContextInv says of the main context, of contents m it might have.
Fits(m) ==
    /\ m \in Contexts
    /\ \A o \in Obj :
          /\ m[o] # Nil => (m[o].st = "inserted" <=> m[o].base = Nil)
          /\ m[o] # Nil => (m[o].base = Nil <=> rows[o] = Nil)
          /\ (m[o] # Nil /\ o \notin unmerged) => m[o].base = rows[o]
          /\ (bg[o] # Nil /\ bg[o].base = Nil) => m[o] = Nil

LEMMA MainFits == ContextInv => Fits(main)
  BY DEF ContextInv, TypeOK, ObjectsFitRows, SnapshotsCurrent, Fits, Contexts

\* Saving the main context, whether it succeeds or is refused, keeps the
\* invariant: what it overwrites behind the background context is stale there.
LEMMA SaveMain ==
    ASSUME ContextInv, app = "ready", NEW m, Fits(m), saveToPersistentStore(m),
           tasks' \in [Task -> Request \cup {Nil}],
           UNCHANGED <<app, fetch, reply, bg, unmerged, server>>
    PROVE  ContextInv'
  <1> USE DEF ContextInv
  <1>1. m \in Contexts
    BY DEF Fits
  <1>2. CASE /\ ~Conflict(m, unmerged)
             /\ rows' = RowsAfter(m)
             /\ main' = ObjectsAfter(m)
             /\ bgStale' = bgStale \cup {o \in Dirty(m) : bg[o] # Nil}
    <2>1. TypeOK'
      BY <1>1, <1>2, RowsAfterSave, ObjectsAfterSave DEF TypeOK, Contexts, Dirty
    <2>2. \A o \in Obj : m[o] # Nil => m[o].st \in States
      BY <1>1, RegisteredFields, NilIsApart DEF Contexts
    <2>3. Phases'
      <3>1. \A o \in Dirty(m) : o \in Obj /\ m[o] # Nil
        BY DEF Dirty
      <3>2. fetch # "handling" => bgStale' = {}
        BY <1>2, <3>1, NilIsApart DEF Phases, NoObjects
      <3>3. QED
        BY <3>2 DEF Phases
    <2>4. ASSUME NEW o \in Obj, m[o] = Nil \/ m[o].st = "clean"
          PROVE  /\ rows'[o] = rows[o] /\ main'[o] = m[o]
                 /\ o \notin bgStale' => o \notin bgStale
      BY <1>1, <1>2, <2>4, RowsAfterSave, ObjectsAfterSave
    <2>5. ASSUME NEW o \in Obj, m[o] # Nil, m[o].st = "deleted"
          PROVE  main'[o] = Nil /\ o \notin unmerged /\ (bg[o] # Nil => o \in bgStale')
      BY <1>1, <1>2, <2>5, ObjectsAfterSave DEF Conflict, Dirty
    <2>6. ASSUME NEW o \in Obj, m[o] # Nil, m[o].st \in {"inserted", "updated"}
          PROVE  /\ rows'[o] # Nil
                 /\ main'[o].st = "clean" /\ main'[o].base = rows'[o]
                 /\ bg[o] # Nil => o \in bgStale'
      BY <1>1, <1>2, <2>6, RowsAfterSave, ObjectsAfterSave DEF Dirty
    <2>7. ObjectsFitRows'
      <3>1. SUFFICES ASSUME NEW o \in Obj
            PROVE  /\ main'[o] # Nil => (main'[o].st = "inserted" <=> main'[o].base = Nil)
                   /\ main'[o] # Nil => (main'[o].base = Nil <=> rows'[o] = Nil)
                   /\ (bg[o] # Nil /\ bg[o].base = Nil) => (rows'[o] = Nil /\ main'[o] = Nil)
                   /\ o \in unmerged => rows'[o] # Nil
        BY DEF ObjectsFitRows
      <3>2. CASE m[o] = Nil \/ m[o].st = "clean"
        BY <2>4, <3>2 DEF ObjectsFitRows, Fits
      <3>3. CASE m[o] # Nil /\ m[o].st = "deleted"
        BY <2>5, <3>3 DEF Fits
      <3>4. CASE m[o] # Nil /\ m[o].st \in {"inserted", "updated"}
        BY <2>6, <3>4 DEF Fits
      <3>5. QED
        BY <2>2, <3>2, <3>3, <3>4 DEF States
    <2>8. SnapshotsCurrent'
      <3>1. SUFFICES ASSUME NEW o \in Obj
            PROVE  /\ (main'[o] # Nil /\ o \notin unmerged) => main'[o].base = rows'[o]
                   /\ (bg[o] # Nil /\ o \notin bgStale') => bg[o].base = rows'[o]
        BY DEF SnapshotsCurrent
      <3>2. CASE m[o] = Nil \/ m[o].st = "clean"
        BY <2>4, <3>2 DEF SnapshotsCurrent, Fits
      <3>3. CASE m[o] # Nil /\ m[o].st = "deleted"
        BY <2>5, <3>3
      <3>4. CASE m[o] # Nil /\ m[o].st \in {"inserted", "updated"}
        BY <2>6, <3>4
      <3>5. QED
        BY <2>2, <3>2, <3>3, <3>4 DEF States
    <2>9. QED
      BY <2>1, <2>3, <2>7, <2>8
  <1>3. CASE main' = m /\ UNCHANGED <<rows, bgStale>>
    <2>1. TypeOK'
      BY <1>1, <1>3 DEF TypeOK, Contexts
    <2>2. Phases'
      BY <1>3 DEF Phases
    <2>3. ObjectsFitRows' /\ SnapshotsCurrent'
      BY <1>3 DEF ObjectsFitRows, SnapshotsCurrent, Fits
    <2>4. QED
      BY <2>1, <2>2, <2>3
  <1>4. QED
    BY <1>2, <1>3 DEF saveToPersistentStore

\* A request in flight is one of this person.
LEMMA SendType ==
    ASSUME TypeOK, NEW i \in Ident, NEW body \in Rec \cup {Nil}, Send(i, body)
    PROVE  tasks' \in [Task -> Request \cup {Nil}]
  BY DEF TypeOK, Send, Request

-----------------------------------------------------------------------------
(* Every step keeps the invariant                                           *)

\* A fresh or migrated install is in order.
LEMMA InitContextInv == Init => ContextInv
  <1>1. [wish : Wish, bought : {FALSE}] \subseteq Rec
    BY DEF Rec
  <1>2. QED
    BY <1>1 DEF Init, ContextInv, TypeOK, Phases, ObjectsFitRows, SnapshotsCurrent,
                NoObjects, NoReply

\* createPerson and update save the main context with one object edited: a
\* new one of a person nobody has heard of, or a known one as it was read.
EditSaves(o, r, m) ==
    /\ app = "ready"
    /\ Fits(m) /\ saveToPersistentStore(m)
    /\ tasks' \in [Task -> Request \cup {Nil}]
    /\ UNCHANGED <<app, fetch, reply, bg, unmerged, server>>
    /\ m[o] # Nil /\ \A p \in Obj \ {o} : m[p] = main[p]
    /\ m[o].rec = r /\ m[o].st # "deleted"
    /\ main[o] # Nil => (main[o].st # "deleted" /\ m[o].base = main[o].base)
    /\ main[o] = Nil => (Unheard(identifier(o)) /\ m[o].st = "inserted")
    /\ m[o].st = "clean" => (main[o].st = "clean" /\ main[o].rec = r)

LEMMA CreateSaves ==
    ASSUME ContextInv, NEW o \in Obj, NEW r \in Rec, createPerson(o, r)
    PROVE  \E m \in Contexts : EditSaves(o, r, m)
  <1> DEFINE m == [main EXCEPT ![o] = Inserted(r)]
  <1>1. TypeOK /\ Fits(main) /\ Unheard(identifier(o)) /\ IsFree(o)
    BY MainFits DEF ContextInv, createPerson, Unheard
  <1>2. m \in Contexts /\ m[o] = Inserted(r) /\ \A p \in Obj \ {o} : m[p] = main[p]
    BY <1>1, InsertedType DEF TypeOK, Contexts
  <1>3. m[o] # Nil /\ main[o] = Nil /\ m[o].st = "inserted" /\ m[o].rec = r
    BY <1>1, <1>2, InsertedType, NilIsApart DEF IsFree
  <1>4. Fits(m)
    BY <1>1, <1>2, InsertedType DEF Fits, IsFree, ContextInv, ObjectsFitRows
  <1>5. tasks' \in [Task -> Request \cup {Nil}]
    <2>1. Send(identifier(o), r)
      BY <1>2, InsertedType DEF createPerson, put
    <2>2. QED
      BY <1>1, <2>1, IdentifierType, SendType
  <1>6. /\ app = "ready" /\ saveToPersistentStore(m)
        /\ UNCHANGED <<app, fetch, reply, bg, unmerged, server>>
    BY DEF createPerson, put
  <1>7. EditSaves(o, r, m)
    BY <1>1, <1>2, <1>3, <1>4, <1>5, <1>6 DEF EditSaves
  <1>8. QED
    BY <1>2, <1>7

LEMMA UpdateSaves ==
    ASSUME ContextInv, NEW o \in Obj, NEW r \in Rec, update(o, r)
    PROVE  \E m \in Contexts : EditSaves(o, r, m)
  <1>1. TypeOK /\ Fits(main)
    BY MainFits DEF ContextInv
  <1>2. main[o] \in Registered /\ main[o] # Nil /\ main[o].st \in States \ {"deleted"}
    BY <1>1, RegisteredFields DEF update, Visible, TypeOK
  <1>3. PICK st \in IF main[o].st = "clean" THEN Touched(main[o].rec, r)
                                             ELSE {main[o].st} :
            put(o, [main EXCEPT ![o] = Changed(main[o], st, r)])
    BY DEF update
  <1>4. /\ st \in States \ {"deleted"} /\ (st = "inserted" <=> main[o].st = "inserted")
        /\ st = "clean" => (main[o].st = "clean" /\ main[o].rec = r)
    <2>1. CASE main[o].st = "clean"
      <3>1. main[o].rec \in Rec
        BY <1>2, RegisteredFields
      <3>2. st \in Touched(main[o].rec, r)
        BY <1>3, <2>1
      <3>3. QED
        BY <2>1, <3>1, <3>2 DEF Touched, States
    <2>2. CASE main[o].st # "clean"
      BY <1>2, <1>3, <2>2
    <2>3. QED
      BY <2>1, <2>2
  <1> DEFINE m == [main EXCEPT ![o] = Changed(main[o], st, r)]
  <1>5. /\ m \in Contexts /\ m[o] = Changed(main[o], st, r)
        /\ \A p \in Obj \ {o} : m[p] = main[p]
    BY <1>1, <1>2, <1>4, ChangedType DEF TypeOK, Contexts
  <1>6. m[o] # Nil /\ m[o].st = st /\ m[o].rec = r /\ m[o].base = main[o].base
    BY <1>2, <1>4, <1>5, ChangedType, NilIsApart
  <1>7. Fits(m)
    BY <1>1, <1>2, <1>4, <1>5, <1>6 DEF Fits
  <1>8. tasks' \in [Task -> Request \cup {Nil}]
    <2>1. Send(identifier(o), r)
      BY <1>3, <1>6 DEF put
    <2>2. QED
      BY <1>1, <2>1, IdentifierType, SendType
  <1>9. /\ app = "ready" /\ saveToPersistentStore(m)
        /\ UNCHANGED <<app, fetch, reply, bg, unmerged, server>>
    BY <1>3 DEF update, put
  <1>10. EditSaves(o, r, m)
    <2> HIDE DEF m
    <2>1. m[o].st # "deleted" /\ (m[o].st = "clean" => (main[o].st = "clean" /\ main[o].rec = r))
      BY <1>4, <1>6
    <2>2. QED
      BY <1>2, <1>5, <1>6, <1>7, <1>8, <1>9, <2>1 DEF EditSaves
  <1>11. QED
    BY <1>5, <1>10

LEMMA EditKeeps ==
    ASSUME ContextInv, NEW o \in Obj, NEW r \in Rec, createPerson(o, r) \/ update(o, r)
    PROVE  ContextInv'
  <1>1. PICK m \in Contexts : EditSaves(o, r, m)
    BY CreateSaves, UpdateSaves
  <1>2. QED
    BY <1>1, SaveMain DEF EditSaves

\* delete(person:): the row stays until some later save.
LEMMA DeleteKeeps ==
    ASSUME ContextInv, NEW o \in Obj, delete(o)
    PROVE  ContextInv'
  <1>1. TypeOK /\ Phases /\ ObjectsFitRows /\ SnapshotsCurrent
    BY DEF ContextInv
  <1>2. /\ main[o] \in Registered /\ main[o] # Nil /\ main[o].rec \in Rec
        /\ app = "ready"
        /\ UNCHANGED <<app, rows, fetch, reply, bg, bgStale, unmerged, server>>
    BY <1>1, RegisteredFields DEF delete, Visible, TypeOK
  <1>3. \A p \in Obj \ {o} : main'[p] = main[p]
    BY <1>1 DEF delete, TypeOK
  <1>4. \/ main[o].st = "inserted" /\ main'[o] = Nil
        \/ /\ main[o].st # "inserted"
           /\ main'[o] \in Registered /\ main'[o] # Nil
           /\ main'[o].st = "deleted" /\ main'[o].base = main[o].base
    <2>1. CASE main[o].st = "inserted"
      BY <1>1, <2>1 DEF delete, TypeOK
    <2>2. CASE main[o].st # "inserted"
      <3>1. main'[o] = Changed(main[o], "deleted", main[o].rec)
        BY <1>1, <2>2 DEF delete, TypeOK
      <3>2. "deleted" \in States
        BY DEF States
      <3>3. /\ main'[o] \in Registered
            /\ main'[o].st = "deleted" /\ main'[o].base = main[o].base
        BY <1>2, <3>1, <3>2, ChangedType
      <3>4. QED
        BY <2>2, <3>3, NilIsApart
    <2>3. QED
      BY <2>1, <2>2
  <1>5. TypeOK'
    <2>1. main' \in [Obj -> Registered \cup {Nil}]
      <3>1. main' = [main EXCEPT ![o] = main'[o]]
        BY <1>1 DEF delete, TypeOK
      <3>2. QED
        BY <1>1, <1>4, <3>1 DEF TypeOK
    <2>2. tasks' \in [Task -> Request \cup {Nil}]
      BY <1>1, IdentifierType, SendType DEF delete
    <2>3. QED
      BY <1>1, <1>2, <2>1, <2>2 DEF TypeOK
  <1>6. Phases'
    BY <1>1, <1>2 DEF Phases
  <1>7. ObjectsFitRows'
    BY <1>1, <1>2, <1>3, <1>4 DEF ObjectsFitRows
  <1>8. SnapshotsCurrent'
    BY <1>1, <1>2, <1>3, <1>4 DEF SnapshotsCurrent
  <1>9. QED
    BY <1>5, <1>6, <1>7, <1>8 DEF ContextInv

\* Launching, failing to fetch, and receiving the reply touch no object.
LEMMA LaunchKeeps ==
    ASSUME ContextInv, Launch \/ FetchFails \/ ServerReplies
    PROVE  ContextInv'
  <1>1. TypeOK'
    BY DEF ContextInv, TypeOK, Launch, FetchFails, ServerReplies
  <1>2. Phases'
    BY DEF ContextInv, Phases, Launch, FetchFails, ServerReplies
  <1>3. UNCHANGED <<rows, main, bg, bgStale, unmerged>>
    BY DEF Launch, FetchFails, ServerReplies
  <1>4. ObjectsFitRows'
    <2>1. CASE UNCHANGED reply
      BY <1>3, <2>1 DEF ContextInv, ObjectsFitRows
    <2>2. CASE fetch # "handling"
      BY <1>3, <2>2, NilIsApart DEF ContextInv, Phases, NoObjects, ObjectsFitRows
    <2>3. QED
      BY <2>1, <2>2 DEF Launch, FetchFails, ServerReplies
  <1>5. SnapshotsCurrent'
    BY <1>3 DEF ContextInv, SnapshotsCurrent
  <1>6. QED
    BY <1>1, <1>2, <1>4, <1>5 DEF ContextInv

\* Loading the list reads every row as it is.
LEMMA LoadKeeps ==
    ASSUME ContextInv, performFetch
    PROVE  ContextInv'
  <1>1. TypeOK /\ Phases /\ ObjectsFitRows /\ SnapshotsCurrent
    BY DEF ContextInv
  <1>2. UNCHANGED <<rows, fetch, reply, bg, bgStale, server, tasks>> /\ unmerged' = {}
    BY DEF performFetch
  <1>3. \A o \in Obj : main'[o] = IF rows[o] = Nil THEN Nil ELSE Clean(rows[o])
    BY DEF performFetch
  <1>4. \A o \in Obj :
            main'[o] # Nil => /\ rows[o] # Nil /\ rows[o] \in Rec
                              /\ main'[o] = Clean(rows[o])
                              /\ main'[o].st = "clean" /\ main'[o].base = rows[o]
    BY <1>1, <1>3, CleanType DEF TypeOK
  <1>5. TypeOK'
    <2>1. main' \in [Obj -> Registered \cup {Nil}]
      BY <1>1, CleanType DEF performFetch, TypeOK
    <2>2. QED
      BY <1>1, <1>2, <2>1 DEF TypeOK, performFetch
  <1>6. Phases'
    BY <1>1, <1>2 DEF Phases, performFetch
  <1>7. ObjectsFitRows'
    BY <1>1, <1>2, <1>3, <1>4 DEF ObjectsFitRows
  <1>8. SnapshotsCurrent'
    BY <1>1, <1>2, <1>4 DEF SnapshotsCurrent
  <1>9. QED
    BY <1>5, <1>6, <1>7, <1>8 DEF ContextInv

\* One turn of the import loop registers one object, of the person it applies
\* and with the server's words, read from its row or made where nothing is;
\* or none, for a record the initialiser refuses.
LEMMA ApplyRegisters ==
    ASSUME ContextInv, NEW i \in Ident, ApplyRepresentation(i)
    PROVE  \/ /\ UNCHANGED bg /\ ~Insertable(reply[i])
              /\ StoreMayFail \/ Matches(i) = {}
           \/ \E o \in Obj, x \in Registered :
                 /\ identifier(o) = i
                 /\ bg' = [bg EXCEPT ![o] = x]
                 /\ x.rec = AsRec(reply[i])
                 /\ x.st = "clean" => x.rec = rows[o]
                 /\ x.st # "deleted"
                 /\ (x.st = "inserted" <=> x.base = Nil)
                 /\ x.base = rows[o]
                 /\ x.base = Nil => IsFree(o)
                 /\ x.base = Nil => (StoreMayFail \/ Matches(i) = {})
  <1>1. TypeOK /\ reply[i] \in Rep /\ AsRec(reply[i]) \in Rec
    BY AsRecType DEF ContextInv, TypeOK, ApplyRepresentation
  <1>2. ASSUME NEW o \in Matches(i), updateWithPersonRepresentation(o, reply[i])
        PROVE  \E x \in Registered :
                 /\ identifier(o) = i
                 /\ bg' = [bg EXCEPT ![o] = x]
                 /\ x.rec = AsRec(reply[i])
                 /\ x.st = "clean" => x.rec = rows[o]
                 /\ x.st \notin {"inserted", "deleted"}
                 /\ x.base # Nil /\ x.base = rows[o]
    <2>1. o \in Obj /\ identifier(o) = i /\ rows[o] \in Rec /\ rows[o] # Nil
      BY <1>1 DEF Matches, TypeOK
    <2>2. PICK st \in Touched(rows[o], AsRec(reply[i])) :
              bg' = [bg EXCEPT ![o] = Changed(Clean(rows[o]), st, AsRec(reply[i]))]
      BY <1>2 DEF updateWithPersonRepresentation
    <2>3. /\ st \in States \ {"inserted", "deleted"}
          /\ st = "clean" => rows[o] = AsRec(reply[i])
      BY <1>1, <2>1, <2>2 DEF Touched, States
    <2> DEFINE x == Changed(Clean(rows[o]), st, AsRec(reply[i]))
    <2>4. x \in Registered /\ x.st = st /\ x.rec = AsRec(reply[i]) /\ x.base = rows[o]
      BY <1>1, <2>1, <2>3, CleanType, ChangedType
    <2> HIDE DEF x
    <2>5. bg' = [bg EXCEPT ![o] = x]
      BY <2>2 DEF x
    <2>6. QED
      BY <2>1, <2>3, <2>4, <2>5
  <1>3. ASSUME insertPerson(i, reply[i]), Insertable(reply[i])
        PROVE  \E o \in Obj, x \in Registered :
                 /\ identifier(o) = i
                 /\ bg' = [bg EXCEPT ![o] = x]
                 /\ x.rec = AsRec(reply[i])
                 /\ x.st = "inserted" /\ x.base = Nil /\ IsFree(o)
    <2>1. PICK o \in Obj : /\ identifier(o) = i /\ IsFree(o)
                           /\ bg' = [bg EXCEPT ![o] = Inserted(AsRec(reply[i]))]
      BY <1>3 DEF insertPerson
    <2>2. QED
      BY <1>1, <2>1, InsertedType
  <1>4. CASE \E o \in Matches(i) : updateWithPersonRepresentation(o, reply[i])
    BY <1>2, <1>4 DEF Matches
  <1>5. CASE (StoreMayFail \/ Matches(i) = {}) /\ insertPerson(i, reply[i])
    BY <1>3, <1>5 DEF IsFree, insertPerson
  <1>6. QED
    BY <1>4, <1>5 DEF ApplyRepresentation

LEMMA ApplyKeeps ==
    ASSUME ContextInv, NEW i \in Ident, ApplyRepresentation(i)
    PROVE  ContextInv'
  <1>1. TypeOK /\ Phases /\ ObjectsFitRows /\ SnapshotsCurrent
    BY DEF ContextInv
  <1>2. /\ UNCHANGED <<app, rows, main, fetch, bgStale, unmerged, server, tasks>>
        /\ reply' = [reply EXCEPT ![i] = Nil] /\ fetch = "handling"
    BY DEF ApplyRepresentation
  <1>3. reply' \in [Ident -> Rep \cup {Nil}] /\ reply'[i] = Nil
        /\ \A j \in Ident : reply[j] = Nil => reply'[j] = Nil
    BY <1>1, <1>2 DEF TypeOK
  <1>4. Phases'
    BY <1>1, <1>2 DEF Phases
  <1>5. CASE UNCHANGED bg
    <2>1. TypeOK' /\ SnapshotsCurrent'
      BY <1>1, <1>2, <1>3, <1>5 DEF TypeOK, SnapshotsCurrent
    <2>2. ObjectsFitRows'
      BY <1>1, <1>2, <1>3, <1>5, IdentifierType DEF ObjectsFitRows
    <2>3. QED
      BY <1>4, <2>1, <2>2 DEF ContextInv
  <1>6. ASSUME NEW o \in Obj, NEW x \in Registered,
               identifier(o) = i,
               bg' = [bg EXCEPT ![o] = x],
               x.st # "deleted",
               x.st = "inserted" <=> x.base = Nil,
               x.base = rows[o],
               x.base = Nil => IsFree(o)
        PROVE  ContextInv'
    <2>1. bg'[o] = x /\ \A p \in Obj \ {o} : bg'[p] = bg[p]
      BY <1>1, <1>6 DEF TypeOK
    <2>2. TypeOK'
      BY <1>1, <1>2, <1>3, <1>6 DEF TypeOK
    <2>3. ObjectsFitRows'
      BY <1>1, <1>2, <1>3, <1>6, <2>1, IdentifierType DEF ObjectsFitRows, IsFree
    <2>4. SnapshotsCurrent'
      BY <1>1, <1>2, <1>6, <2>1 DEF SnapshotsCurrent
    <2>5. QED
      BY <1>4, <2>2, <2>3, <2>4 DEF ContextInv
  <1>7. QED
    BY <1>5, <1>6, ApplyRegisters

\* The import's save: what it writes is what it had read, or new, and the
\* main context is told of every row written.
LEMMA SaveBackgroundKeeps ==
    ASSUME ContextInv, SaveBackground
    PROVE  ContextInv'
  <1>1. TypeOK /\ Phases /\ ObjectsFitRows /\ SnapshotsCurrent /\ bg \in Contexts
    BY DEF ContextInv, TypeOK, Contexts
  <1>2. /\ UNCHANGED <<app, main, reply, server, tasks>>
        /\ fetch = "handling" /\ fetch' = "done" /\ reply = NoReply
        /\ bg' = NoObjects /\ bgStale' = {}
    BY DEF SaveBackground
  <1>3. \A o \in Obj : bg'[o] = Nil
    BY <1>2 DEF NoObjects
  <1>4. CASE /\ ~Conflict(bg, bgStale)
             /\ rows' = RowsAfter(bg)
             /\ unmerged' = unmerged \cup Dirty(bg)
    <2>1. \A o \in Obj : bg[o] # Nil => bg[o].st \in States
      BY <1>1, RegisteredFields, NilIsApart DEF Contexts
    <2>2. ASSUME NEW o \in Obj, bg[o] = Nil \/ bg[o].st = "clean"
          PROVE  rows'[o] = rows[o] /\ (o \in unmerged' <=> o \in unmerged)
      BY <1>1, <1>4, <2>2, RowsAfterSave DEF Dirty
    <2>3. ASSUME NEW o \in Obj, bg[o] # Nil, bg[o].st = "inserted"
          PROVE  rows'[o] # Nil /\ o \in unmerged' /\ main[o] = Nil
      BY <1>1, <1>4, <2>3, RowsAfterSave DEF Dirty, ObjectsFitRows
    <2>4. ASSUME NEW o \in Obj, bg[o] # Nil, bg[o].st = "updated"
          PROVE  rows'[o] # Nil /\ o \in unmerged' /\ rows[o] # Nil
      <3>1. o \in Dirty(bg) /\ o \notin bgStale
        BY <1>4, <2>4 DEF Conflict, Dirty
      <3>2. rows[o] # Nil
        BY <1>1, <2>4, <3>1 DEF ObjectsFitRows, SnapshotsCurrent
      <3>3. QED
        BY <1>1, <1>4, <2>4, <3>1, <3>2, RowsAfterSave
    <2>5. \A o \in Obj : bg[o] = Nil \/ bg[o].st \in {"clean", "inserted", "updated"}
      BY <1>1, <2>1 DEF ObjectsFitRows, States
    <2>6. TypeOK'
      BY <1>1, <1>2, <1>4, RowsAfterSave DEF TypeOK, NoObjects, Dirty
    <2>7. Phases'
      BY <1>1, <1>2 DEF Phases
    <2>8. ObjectsFitRows'
      <3>1. SUFFICES ASSUME NEW o \in Obj
            PROVE  /\ main[o] # Nil => (main[o].st = "inserted" <=> main[o].base = Nil)
                   /\ main[o] # Nil => (main[o].base = Nil <=> rows'[o] = Nil)
                   /\ o \in unmerged' => rows'[o] # Nil
        BY <1>2, <1>3 DEF ObjectsFitRows
      <3>2. CASE bg[o] = Nil \/ bg[o].st = "clean"
        BY <1>1, <2>2, <3>2 DEF ObjectsFitRows
      <3>3. CASE bg[o] # Nil /\ bg[o].st = "inserted"
        BY <2>3, <3>3
      <3>4. CASE bg[o] # Nil /\ bg[o].st = "updated"
        BY <1>1, <2>4, <3>4 DEF ObjectsFitRows
      <3>5. QED
        BY <2>5, <3>2, <3>3, <3>4
    <2>9. SnapshotsCurrent'
      <3>1. SUFFICES ASSUME NEW o \in Obj
            PROVE  (main[o] # Nil /\ o \notin unmerged') => main[o].base = rows'[o]
        BY <1>2, <1>3 DEF SnapshotsCurrent
      <3>2. CASE bg[o] = Nil \/ bg[o].st = "clean"
        BY <1>1, <2>2, <3>2 DEF SnapshotsCurrent
      <3>3. CASE bg[o] # Nil /\ bg[o].st \in {"inserted", "updated"}
        BY <2>3, <2>4, <3>3
      <3>4. QED
        BY <2>5, <3>2, <3>3
    <2>10. QED
      BY <2>6, <2>7, <2>8, <2>9 DEF ContextInv
  <1>5. CASE UNCHANGED <<rows, unmerged>>
    <2>1. TypeOK'
      BY <1>1, <1>2, <1>5 DEF TypeOK, NoObjects
    <2>2. Phases'
      BY <1>1, <1>2, <1>5 DEF Phases
    <2>3. ObjectsFitRows' /\ SnapshotsCurrent'
      BY <1>1, <1>2, <1>3, <1>5 DEF ObjectsFitRows, SnapshotsCurrent
    <2>4. QED
      BY <2>1, <2>2, <2>3 DEF ContextInv
  <1>6. QED
    BY <1>4, <1>5 DEF SaveBackground

\* Merging takes every object saved by the import to its row.
LEMMA MergedType ==
    ASSUME ContextInv, NEW o \in unmerged
    PROVE  /\ Merged(o) \in Registered /\ Merged(o).base = rows[o]
           /\ Merged(o).st # "inserted" /\ rows[o] # Nil
  <1>1. o \in Obj /\ rows[o] \in Rec /\ rows[o] # Nil
    BY DEF ContextInv, TypeOK, ObjectsFitRows
  <1>2. CASE main[o] = Nil \/ main[o].st = "clean"
    BY <1>1, <1>2, CleanType DEF Merged
  <1>3. CASE main[o] # Nil /\ main[o].st # "clean"
    <2>1. main[o] \in Registered /\ main[o].st # "inserted"
      BY <1>1, <1>3 DEF ContextInv, TypeOK, ObjectsFitRows
    <2>2. CASE main[o].st = "updated"
      <3>1. Reapplied(main[o], rows[o]) \in Rec
        BY <1>1, <2>1, ReappliedType
      <3>2. Merged(o) = [st |-> "updated", rec |-> Reapplied(main[o], rows[o]),
                         base |-> rows[o]]
        BY <1>3, <2>2 DEF Merged
      <3>3. QED
        BY <1>1, <3>1, <3>2 DEF Registered
    <2>3. CASE main[o].st # "updated"
      <3>1. Merged(o) = [main[o] EXCEPT !.base = rows[o]]
        BY <1>3, <2>3 DEF Merged
      <3>2. QED
        BY <1>1, <2>1, <3>1 DEF Registered
    <2>4. QED
      BY <2>2, <2>3
  <1>4. QED
    BY <1>2, <1>3

LEMMA MergeKeeps ==
    ASSUME ContextInv, MergeToMain
    PROVE  ContextInv'
  <1>1. TypeOK /\ Phases /\ ObjectsFitRows /\ SnapshotsCurrent
    BY DEF ContextInv
  <1>2. /\ UNCHANGED <<app, rows, fetch, reply, bg, bgStale, server, tasks>>
        /\ unmerged' = {} /\ app = "ready" /\ fetch = "done"
    BY <1>1 DEF MergeToMain, Phases
  <1>3. ASSUME NEW o \in unmerged
        PROVE  /\ main'[o] \in Registered /\ main'[o] # Nil /\ rows[o] # Nil
               /\ main'[o].base = rows[o] /\ main'[o].st # "inserted"
    <2>1. main'[o] = Merged(o)
      BY <1>1 DEF MergeToMain, TypeOK
    <2>2. QED
      BY <2>1, MergedType, NilIsApart
  <1>4. \A o \in Obj \ unmerged : main'[o] = main[o]
    BY DEF MergeToMain
  <1>5. TypeOK'
    <2>1. main' \in [Obj -> Registered \cup {Nil}]
      BY <1>1, <1>3, <1>4 DEF MergeToMain, TypeOK
    <2>2. QED
      BY <1>1, <1>2, <2>1 DEF TypeOK
  <1>6. Phases'
    BY <1>1, <1>2 DEF Phases
  <1>7. \A o \in Obj : bg[o] = Nil
    BY <1>1, <1>2 DEF Phases, NoObjects
  <1>8. ObjectsFitRows'
    BY <1>1, <1>2, <1>3, <1>4, <1>7 DEF ObjectsFitRows
  <1>9. SnapshotsCurrent'
    BY <1>1, <1>2, <1>3, <1>4, <1>7 DEF SnapshotsCurrent
  <1>10. QED
    BY <1>5, <1>6, <1>8, <1>9 DEF ContextInv

\* A request's fate changes nothing on the device.
LEMMA NetworkKeeps ==
    ASSUME ContextInv, NEW t \in Task, Deliver(t) \/ Lose(t)
    PROVE  ContextInv'
  <1>1. TypeOK /\ tasks[t] \in Request
    BY DEF ContextInv, TypeOK, Deliver, Lose
  <1>2. tasks[t].id \in Ident /\ tasks[t].body \in Rep \cup {Nil}
    BY <1>1 DEF Request, Rec, Rep
  <1>3. UNCHANGED <<app, rows, main, fetch, reply, bg, bgStale, unmerged>>
    BY DEF Deliver, Lose
  <1>4. TypeOK'
    BY <1>1, <1>2, <1>3 DEF TypeOK, Deliver, Lose
  <1>5. Phases' /\ ObjectsFitRows' /\ SnapshotsCurrent'
    BY <1>3 DEF ContextInv, Phases, ObjectsFitRows, SnapshotsCurrent
  <1>6. QED
    BY <1>4, <1>5 DEF ContextInv

\* Termination takes both contexts with it.
LEMMA TerminateKeeps ==
    ASSUME ContextInv, Terminate
    PROVE  ContextInv'
  BY DEF Terminate, ContextInv, TypeOK, Phases, ObjectsFitRows, SnapshotsCurrent,
         NoObjects, NoReply

\* Every step of the system, or none.
LEMMA NextContextInv == ContextInv /\ [Next]_vars => ContextInv'
  <1> SUFFICES ASSUME ContextInv, [Next]_vars PROVE ContextInv'
    OBVIOUS
  <1>1. CASE UserStep
    BY <1>1, EditKeeps, DeleteKeeps DEF UserStep
  <1>2. CASE Launch \/ FetchFails \/ ServerReplies
    BY <1>2, LaunchKeeps
  <1>3. CASE performFetch
    BY <1>3, LoadKeeps
  <1>4. CASE \E i \in Ident : ApplyRepresentation(i)
    BY <1>4, ApplyKeeps
  <1>5. CASE SaveBackground
    BY <1>5, SaveBackgroundKeeps
  <1>6. CASE MergeToMain
    BY <1>6, MergeKeeps
  <1>7. CASE \E t \in Task : Deliver(t) \/ Lose(t)
    BY <1>7, NetworkKeeps
  <1>8. CASE Terminate
    BY <1>8, TerminateKeeps
  <1>9. CASE UNCHANGED vars
    BY <1>9 DEF vars, ContextInv, TypeOK, Phases, ObjectsFitRows, SnapshotsCurrent
  <1>10. QED
    BY <1>1, <1>2, <1>3, <1>4, <1>5, <1>6, <1>7, <1>8, <1>9 DEF Next

\* In every behaviour the two contexts, the store and the import stay in step:
\* the inductive invariant of PersonController over CoreDataStack.
THEOREM ContextsConsistent == Spec => []ContextInv
  <1>1. QED
    BY InitContextInv, NextContextInv, PTL DEF Spec

\* Every variable keeps its type.
THEOREM TypeCorrect == Spec => []TypeOK
  <1>1. ContextInv => TypeOK
    BY DEF ContextInv
  <1>2. QED
    BY <1>1, ContextsConsistent, PTL

\* What a context knows of a row it holds is the row, unless the stack knows
\* better.
THEOREM SnapshotsStayCurrent == Spec => []SnapshotsCurrent
  <1>1. ContextInv => SnapshotsCurrent
    BY DEF ContextInv
  <1>2. QED
    BY <1>1, ContextsConsistent, PTL

-----------------------------------------------------------------------------
(* No update is lost between the contexts                                   *)

\* What NoLostUpdate asks of one step.
ReplacesWhatWasRead ==
    \A o \in Obj :
        (rows[o] # Nil /\ rows'[o] # rows[o]) =>
            ((main[o] # Nil /\ main[o].base = rows[o])
                \/ (bg[o] # Nil /\ bg[o].base = rows[o]))

LEMMA NextReplacesWhatWasRead ==
    ASSUME ContextInv, [Next]_vars
    PROVE  ReplacesWhatWasRead
  <1> SUFFICES ASSUME NEW o \in Obj, rows[o] # Nil, rows'[o] # rows[o]
               PROVE  \/ main[o] # Nil /\ main[o].base = rows[o]
                      \/ bg[o] # Nil /\ bg[o].base = rows[o]
    BY DEF ReplacesWhatWasRead
  <1>1. TypeOK /\ ObjectsFitRows /\ SnapshotsCurrent /\ bg \in Contexts
    BY DEF ContextInv, TypeOK, Contexts
  <1>2. ASSUME NEW p \in Obj, NEW r \in Rec, createPerson(p, r) \/ update(p, r)
        PROVE  main[o] # Nil /\ main[o].base = rows[o]
    <2>1. PICK m \in Contexts : EditSaves(p, r, m)
      BY <1>2, CreateSaves, UpdateSaves
    <2>2. rows' = RowsAfter(m) /\ ~Conflict(m, unmerged)
      BY <2>1 DEF EditSaves, saveToPersistentStore
    <2>3. m[o] # Nil /\ m[o].st # "clean"
      BY <1>1, <2>2, RowsAfterSave
    <2>4. m[o].st # "inserted" /\ m[o].base = rows[o]
      <3>1. m[o].st # "inserted"
        BY <2>1, <2>3 DEF EditSaves, Fits
      <3>2. o \notin unmerged
        BY <2>2, <2>3, <3>1 DEF Conflict, Dirty
      <3>3. QED
        BY <2>1, <2>3, <3>1, <3>2 DEF EditSaves, Fits
    <2>5. main[o] # Nil
      BY <2>1, <2>3 DEF EditSaves, Unheard, IsFree
    <2>6. QED
      BY <2>1, <2>4, <2>5 DEF EditSaves
  <1>3. CASE SaveBackground
    <2>1. rows' = RowsAfter(bg) /\ ~Conflict(bg, bgStale)
      BY <1>3 DEF SaveBackground
    <2>2. bg[o] # Nil /\ bg[o].st # "clean"
      BY <1>1, <2>1, RowsAfterSave
    <2>3. bg[o].st # "inserted"
      BY <1>1, <2>2 DEF ObjectsFitRows
    <2>4. o \notin bgStale
      BY <2>1, <2>2, <2>3 DEF Conflict, Dirty
    <2>5. QED
      BY <1>1, <2>2, <2>4 DEF SnapshotsCurrent
  <1>4. CASE \E p \in Obj : delete(p)
    BY <1>4 DEF delete
  <1>5. CASE UserStep
    BY <1>2, <1>4, <1>5 DEF UserStep
  <1>6. CASE \E i \in Ident : ApplyRepresentation(i)
    BY <1>6 DEF ApplyRepresentation
  <1>7. CASE \E t \in Task : Deliver(t) \/ Lose(t)
    BY <1>7 DEF Deliver, Lose
  <1>8. QED
    BY <1>3, <1>5, <1>6, <1>7
       DEF Next, vars, Launch, performFetch, FetchFails, ServerReplies,
           MergeToMain, Terminate

\* The import and the user's edits never silently undo each other in the store.
THEOREM UpdatesNotLost == Spec => NoLostUpdate
  <1>1. ContextInv /\ [Next]_vars => [ReplacesWhatWasRead]_vars
    BY NextReplacesWhatWasRead
  <1>2. Spec => [][ReplacesWhatWasRead]_vars
    BY <1>1, ContextsConsistent, PTL DEF Spec
  <1>3. QED
    BY <1>2 DEF ReplacesWhatWasRead, NoLostUpdate

-----------------------------------------------------------------------------
(* One person is one managed object, where the store works                  *)

\* A save of the main context that works leaves nothing pending, and one that
\* is refused has met the import's rows: the import is over.
LEMMA NextPending ==
    ASSUME ~StoreMayFail, ContextInv, PendingOnlyAfterImport, [Next]_vars
    PROVE  PendingOnlyAfterImport'
  <1>1. TypeOK /\ Phases
    BY DEF ContextInv
  <1>2. ASSUME NEW p \in Obj, NEW r \in Rec, createPerson(p, r) \/ update(p, r)
        PROVE  PendingOnlyAfterImport'
    <2>1. PICK m \in Contexts : EditSaves(p, r, m)
      BY <1>2, CreateSaves, UpdateSaves
    <2>2. CASE main' = ObjectsAfter(m)
      <3>1. \A o \in Obj : m[o] = Nil \/ m[o].st \in States
        BY RegisteredFields, NilIsApart DEF Contexts
      <3>2. \A o \in Obj : main'[o] = Nil \/ main'[o].st = "clean"
        BY <2>2, <3>1, ObjectsAfterSave DEF States
      <3>3. QED
        BY <3>2 DEF PendingOnlyAfterImport
    <2>3. CASE Conflict(m, unmerged)
      BY <1>1, <2>1, <2>3 DEF Conflict, Phases, EditSaves, PendingOnlyAfterImport
    <2>4. QED
      BY <2>1, <2>2, <2>3 DEF EditSaves, saveToPersistentStore
  <1>3. ASSUME NEW p \in Obj, delete(p)
        PROVE  PendingOnlyAfterImport'
    <2>1. \A o \in Obj \ {p} : main'[o] = main[o]
      BY <1>1, <1>3 DEF delete, TypeOK
    <2>2. main'[p] = Nil \/ main'[p].st = "deleted"
      BY <1>1, <1>3 DEF delete, TypeOK, Changed
    <2>3. QED
      BY <1>3, <2>1, <2>2 DEF delete, PendingOnlyAfterImport
  <1>4. CASE UserStep
    BY <1>2, <1>3, <1>4 DEF UserStep
  <1>5. CASE Launch \/ performFetch \/ FetchFails \/ ServerReplies
    <2>1. CASE performFetch
      <3>1. \A o \in Obj : main'[o] = Nil \/ main'[o].st = "clean"
        BY <2>1 DEF performFetch, Clean
      <3>2. QED
        BY <3>1 DEF PendingOnlyAfterImport
    <2>2. CASE Launch \/ FetchFails \/ ServerReplies
      <3>1. UNCHANGED main /\ fetch # "done"
        BY <1>1, <2>2 DEF Launch, FetchFails, ServerReplies, Phases
      <3>2. QED
        BY <3>1 DEF PendingOnlyAfterImport
    <2>3. QED
      BY <1>5, <2>1, <2>2
  <1>6. CASE \E i \in Ident : ApplyRepresentation(i)
    BY <1>6 DEF ApplyRepresentation, PendingOnlyAfterImport
  <1>7. CASE SaveBackground
    BY <1>7 DEF SaveBackground, PendingOnlyAfterImport
  <1>8. CASE MergeToMain
    BY <1>1, <1>8 DEF MergeToMain, Phases, PendingOnlyAfterImport
  <1>9. CASE \E t \in Task : Deliver(t) \/ Lose(t)
    BY <1>9 DEF Deliver, Lose, PendingOnlyAfterImport
  <1>10. CASE Terminate
    BY <1>10 DEF Terminate, NoObjects, PendingOnlyAfterImport
  <1>11. CASE UNCHANGED vars
    BY <1>11 DEF vars, PendingOnlyAfterImport
  <1>12. QED
    BY <1>4, <1>5, <1>6, <1>7, <1>8, <1>9, <1>10, <1>11 DEF Next

\* A step that brings no object to life makes no duplicate.
LEMMA NoNewObject ==
    ASSUME UniqueIdentifiers, \A o \in Obj : IsLive(o)' => IsLive(o)
    PROVE  UniqueIdentifiers'
  BY DEF UniqueIdentifiers

\* Nor does one that brings a single object to life, of an identifier no
\* other object has.
LEMMA OneNewObject ==
    ASSUME UniqueIdentifiers, NEW n \in Obj,
           \A o \in Obj : IsLive(o)' => (IsLive(o) \/ o = n),
           \A o \in Obj : (identifier(o) = identifier(n) /\ IsLive(o)) => o = n
    PROVE  UniqueIdentifiers'
  BY DEF UniqueIdentifiers

\* What a save of the main context leaves was in the store or the context.
LEMMA SaveLive ==
    ASSUME TypeOK, NEW m \in Contexts, saveToPersistentStore(m), UNCHANGED bg,
           NEW o \in Obj, IsLive(o)'
    PROVE  IsLive(o) \/ m[o] # Nil
  <1>1. CASE rows' = RowsAfter(m) /\ main' = ObjectsAfter(m)
    BY <1>1, RowsAfterSave, ObjectsAfterSave DEF IsLive
  <1>2. CASE main' = m /\ UNCHANGED rows
    BY <1>2 DEF IsLive
  <1>3. QED
    BY <1>1, <1>2 DEF saveToPersistentStore

\* The import makes an object only of a person no object is of: a stored one
\* its fetch finds, and none is waiting in the main context to be stored.
LEMMA ApplyUnique ==
    ASSUME ~StoreMayFail, ContextInv, PendingOnlyAfterImport, UniqueIdentifiers,
           NEW i \in Ident, ApplyRepresentation(i)
    PROVE  UniqueIdentifiers'
  <1>1. TypeOK /\ ObjectsFitRows /\ fetch = "handling" /\ reply[i] # Nil
        /\ UNCHANGED <<rows, main>>
    BY DEF ContextInv, ApplyRepresentation
  <1>2. CASE UNCHANGED bg
    BY <1>1, <1>2, NoNewObject DEF IsLive
  <1>3. ASSUME NEW o \in Obj, NEW x \in Registered,
               identifier(o) = i, bg' = [bg EXCEPT ![o] = x], x.base = rows[o],
               x.base = Nil => Matches(i) = {}
        PROVE  UniqueIdentifiers'
    <2>1. \A p \in Obj : IsLive(p)' => (IsLive(p) \/ p = o)
      BY <1>1, <1>3 DEF IsLive, TypeOK
    <2>2. CASE rows[o] # Nil
      <3>1. IsLive(o)
        BY <2>2 DEF IsLive
      <3>2. QED
        BY <2>1, <3>1, NoNewObject
    <2>3. CASE rows[o] = Nil
      <3>1. ASSUME NEW p \in Obj, identifier(p) = i
            PROVE  ~IsLive(p)
        <4>1. rows[p] = Nil
          BY <1>3, <2>3, <3>1 DEF Matches
        <4>2. bg[p] = Nil
          BY <1>1, <3>1 DEF ObjectsFitRows
        <4>3. main[p] = Nil
          BY <1>1, <4>1 DEF ObjectsFitRows, PendingOnlyAfterImport
        <4>4. QED
          BY <4>1, <4>2, <4>3 DEF IsLive
      <3>2. QED
        BY <1>3, <2>1, <3>1, OneNewObject
    <2>4. QED
      BY <2>2, <2>3
  <1>4. QED
    BY <1>2, <1>3, ApplyRegisters

LEMMA NextUnique ==
    ASSUME ~StoreMayFail, ContextInv, PendingOnlyAfterImport, UniqueIdentifiers,
           [Next]_vars
    PROVE  UniqueIdentifiers'
  <1>1. TypeOK /\ ObjectsFitRows /\ bg \in Contexts
    BY DEF ContextInv, TypeOK, Contexts
  <1>2. ASSUME NEW o \in Obj, NEW r \in Rec, createPerson(o, r) \/ update(o, r)
        PROVE  UniqueIdentifiers'
    <2>1. PICK m \in Contexts : EditSaves(o, r, m)
      BY <1>2, CreateSaves, UpdateSaves
    <2>2. \A p \in Obj : IsLive(p)' => (IsLive(p) \/ p = o)
      <3>1. \A p \in Obj : IsLive(p)' => (IsLive(p) \/ m[p] # Nil)
        BY <1>1, <2>1, SaveLive DEF EditSaves
      <3>2. \A p \in Obj \ {o} : m[p] # Nil => IsLive(p)
        BY <2>1 DEF EditSaves, IsLive
      <3>3. QED
        BY <3>1, <3>2
    <2>3. CASE main[o] # Nil
      <3>1. IsLive(o)
        BY <2>3 DEF IsLive
      <3>2. QED
        BY <2>2, <3>1, NoNewObject
    <2>4. CASE main[o] = Nil
      <3>1. \A p \in Obj : identifier(p) = identifier(o) => ~IsLive(p)
        BY <2>1, <2>4 DEF EditSaves, Unheard, IsFree, IsLive
      <3>2. QED
        BY <2>2, <3>1, OneNewObject
    <2>5. QED
      BY <2>3, <2>4
  <1>3. ASSUME NEW o \in Obj, delete(o)
        PROVE  UniqueIdentifiers'
    <2>1. UNCHANGED <<rows, bg>> /\ main[o] # Nil
          /\ \A p \in Obj \ {o} : main'[p] = main[p]
      BY <1>1, <1>3 DEF delete, Visible, TypeOK
    <2>2. \A p \in Obj : IsLive(p)' => IsLive(p)
      BY <2>1 DEF IsLive
    <2>3. QED
      BY <2>2, NoNewObject
  <1>4. CASE UserStep
    BY <1>2, <1>3, <1>4 DEF UserStep
  <1>5. CASE Launch \/ FetchFails \/ ServerReplies \/ UNCHANGED vars
               \/ \E t \in Task : Deliver(t) \/ Lose(t)
    <2>1. UNCHANGED <<rows, main, bg>>
      BY <1>5 DEF Launch, FetchFails, ServerReplies, vars, Deliver, Lose
    <2>2. QED
      BY <2>1, NoNewObject DEF IsLive
  <1>6. CASE performFetch
    <2>1. \A o \in Obj : IsLive(o)' => IsLive(o)
      BY <1>6 DEF performFetch, IsLive
    <2>2. QED
      BY <2>1, NoNewObject
  <1>7. CASE \E i \in Ident : ApplyRepresentation(i)
    BY <1>7, ApplyUnique
  <1>8. CASE SaveBackground
    <2>1. \A o \in Obj : IsLive(o)' => IsLive(o)
      BY <1>1, <1>8, RowsAfterSave DEF SaveBackground, IsLive, NoObjects
    <2>2. QED
      BY <2>1, NoNewObject
  <1>9. CASE MergeToMain
    <2>1. \A o \in Obj : IsLive(o)' => IsLive(o)
      BY <1>1, <1>9 DEF MergeToMain, IsLive, ObjectsFitRows
    <2>2. QED
      BY <2>1, NoNewObject
  <1>10. CASE Terminate
    <2>1. \A o \in Obj : IsLive(o)' => IsLive(o)
      BY <1>10 DEF Terminate, NoObjects, IsLive
    <2>2. QED
      BY <2>1, NoNewObject
  <1>11. QED
    BY <1>4, <1>5, <1>6, <1>7, <1>8, <1>9, <1>10 DEF Next

\* Where the store does not fail on its own, an edit can stay unsaved only
\* once the launch's import is over.
THEOREM PendingAfterImport ==
    ASSUME ~StoreMayFail
    PROVE  Spec => []PendingOnlyAfterImport
  <1>1. Init => PendingOnlyAfterImport
    BY DEF Init, NoObjects, PendingOnlyAfterImport
  <1>2. ContextInv /\ PendingOnlyAfterImport /\ [Next]_vars => PendingOnlyAfterImport'
    BY NextPending
  <1>3. QED
    BY <1>1, <1>2, ContextsConsistent, PTL DEF Spec

\* And no person is ever two objects, though no constraint of the data model
\* forbids it.
THEOREM PersonsUnique ==
    ASSUME ~StoreMayFail
    PROVE  Spec => []UniqueIdentifiers
  <1>1. Init => UniqueIdentifiers
    BY DEF Init, NoObjects, IsLive, UniqueIdentifiers
  <1>2. ContextInv /\ PendingOnlyAfterImport /\ UniqueIdentifiers /\ [Next]_vars
            => UniqueIdentifiers'
    BY NextUnique
  <1>3. QED
    BY <1>1, <1>2, ContextsConsistent, PendingAfterImport, PTL DEF Spec
=============================================================================
