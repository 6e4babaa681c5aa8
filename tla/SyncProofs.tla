----------------------------- MODULE SyncProofs -----------------------------
(* PersonSync implements AddressBook, for every set of people, texts and    *)
(* requests in flight, with a store that fails or does not; and what the    *)
(* device and the server owe each other where the store does not fail on    *)
(* its own.                                                                 *)
EXTENDS SyncBook, SyncHistory, PersonSyncProofs

-----------------------------------------------------------------------------
(* What the list shows of a context                                         *)

Shows(m) == [o \in Obj |-> IF m[o] # Nil /\ m[o].st # "deleted" THEN m[o].rec ELSE Nil]

\* What an unedited object shows is what was read, and a stored person that is
\* not news is in the context.
Listed(m) ==
    \A o \in Obj :
        /\ (m[o] # Nil /\ m[o].st = "clean") => m[o].rec = m[o].base
        /\ (rows[o] # Nil /\ o \notin unmerged) => m[o] # Nil

\* Beside ContextInv, what the refinement needs.
ListInv ==
    /\ app = "ready" => Listed(main)
    /\ app # "ready" => main = NoObjects

BookInv == ContextInv /\ ListInv

\* The mapped variables in the terms of the proofs.
LEMMA ListShows == List = Shows(main)
  BY DEF List, Visible, Shows

LEMMA NobodyShown == Shows(NoObjects) = [o \in Obj |-> Nil] /\ Dirty(NoObjects) = {}
  BY DEF Shows, NoObjects, Dirty

LEMMA ShowsType == \A m \in Contexts : Shows(m) \in [Obj -> Rec \cup {Nil}]
  BY RegisteredFields, NilIsApart DEF Shows, Contexts

\* A save keeps everything that shows except news, or leaves it all pending;
\* it shows the same afterwards.
LEMMA SaveKeeps ==
    ASSUME ContextInv, NEW m, Fits(m), Listed(m), saveToPersistentStore(m),
           UNCHANGED unmerged
    PROVE  /\ Listed(main)'
           /\ Shows(main') = Shows(m)
           /\ \/ /\ Dirty(m) \cap unmerged = {}
                 /\ rows' = [o \in Obj |-> IF o \in unmerged THEN rows[o] ELSE Shows(m)[o]]
                 /\ Dirty(main') = {}
              \/ /\ StoreMayFail \/ Dirty(m) \cap unmerged # {}
                 /\ main' = m /\ rows' = rows
  <1>1. m \in Contexts /\ TypeOK /\ unmerged \subseteq Obj
    BY DEF Fits, ContextInv, TypeOK
  <1>2. \A o \in Obj : m[o] # Nil => m[o].st \in States
    BY <1>1, RegisteredFields, NilIsApart DEF Contexts
  <1>3. CASE ~Conflict(m, unmerged) /\ rows' = RowsAfter(m) /\ main' = ObjectsAfter(m)
    <2>1. ASSUME NEW o \in Obj, m[o] = Nil \/ m[o].st = "clean"
          PROVE  rows'[o] = rows[o] /\ main'[o] = m[o] /\ o \notin Dirty(m)
      BY <1>1, <1>3, <2>1, RowsAfterSave, ObjectsAfterSave DEF Dirty
    <2>2. ASSUME NEW o \in Obj, m[o] # Nil, m[o].st = "deleted"
          PROVE  rows'[o] = Nil /\ main'[o] = Nil /\ o \notin unmerged
      BY <1>1, <1>3, <2>2, RowsAfterSave, ObjectsAfterSave DEF Conflict, Dirty
    <2>3. ASSUME NEW o \in Obj, m[o] # Nil, m[o].st \in {"inserted", "updated"}
          PROVE  /\ rows'[o] = m[o].rec /\ main'[o] # Nil /\ main'[o].st = "clean"
                 /\ main'[o].rec = m[o].rec /\ main'[o].base = m[o].rec
                 /\ o \notin unmerged
      <3>1. m[o].st = "inserted" => o \notin unmerged
        BY <2>3 DEF Fits, ContextInv, ObjectsFitRows
      <3>2. m[o].st = "updated" => o \notin unmerged
        BY <1>3, <2>3 DEF Conflict, Dirty
      <3>3. QED
        BY <1>1, <1>3, <2>3, <3>1, <3>2, RowsAfterSave, ObjectsAfterSave
    <2>4. Listed(main)'
      <3>1. SUFFICES ASSUME NEW o \in Obj
            PROVE  /\ (main'[o] # Nil /\ main'[o].st = "clean") => main'[o].rec = main'[o].base
                   /\ (rows'[o] # Nil /\ o \notin unmerged) => main'[o] # Nil
        BY DEF Listed
      <3>2. CASE m[o] = Nil \/ m[o].st = "clean"
        BY <2>1, <3>2 DEF Listed
      <3>3. CASE m[o] # Nil /\ m[o].st = "deleted"
        BY <2>2, <3>3
      <3>4. CASE m[o] # Nil /\ m[o].st \in {"inserted", "updated"}
        BY <2>3, <3>4
      <3>5. QED
        BY <1>2, <3>2, <3>3, <3>4 DEF States
    <2>5. Shows(main') = Shows(m)
      <3>1. \A o \in Obj : Shows(main')[o] = Shows(m)[o]
        BY <1>2, <2>1, <2>2, <2>3 DEF Shows, States
      <3>2. QED
        BY <3>1 DEF Shows
    <2>6. Dirty(m) \cap unmerged = {} /\ Dirty(main') = {}
      BY <1>2, <2>1, <2>2, <2>3 DEF Dirty, States
    <2>7. rows' = [o \in Obj |-> IF o \in unmerged THEN rows[o] ELSE Shows(m)[o]]
      <3>1. ASSUME NEW o \in Obj
            PROVE  rows'[o] = IF o \in unmerged THEN rows[o] ELSE Shows(m)[o]
        <4>1. CASE m[o] = Nil
          BY <2>1, <4>1 DEF Listed, Shows
        <4>2. CASE m[o] # Nil /\ m[o].st = "clean"
          BY <2>1, <4>2 DEF Listed, Fits, Shows
        <4>3. CASE m[o] # Nil /\ m[o].st = "deleted"
          BY <2>2, <4>3 DEF Shows
        <4>4. CASE m[o] # Nil /\ m[o].st \in {"inserted", "updated"}
          BY <2>3, <4>4 DEF Shows
        <4>5. QED
          BY <1>2, <4>1, <4>2, <4>3, <4>4 DEF States
      <3>2. rows' \in [Obj -> Rec \cup {Nil}]
        BY <1>1, <1>3, RowsAfterSave
      <3>3. QED
        BY <3>1, <3>2
    <2>8. QED
      BY <2>4, <2>5, <2>6, <2>7
  <1>4. CASE (StoreMayFail \/ Conflict(m, unmerged)) /\ main' = m /\ UNCHANGED rows
    <2>1. Listed(main)'
      BY <1>4 DEF Listed
    <2>2. Conflict(m, unmerged) => Dirty(m) \cap unmerged # {}
      BY DEF Conflict
    <2>3. QED
      BY <1>4, <2>1, <2>2
  <1>5. QED
    BY <1>3, <1>4 DEF saveToPersistentStore

-----------------------------------------------------------------------------
(* Every step is a step of the address book, or none                        *)

\* createPerson and update are edits, kept at once or pending.
LEMMA EditBook ==
    ASSUME BookInv, NEW o \in Obj, NEW r \in Rec, createPerson(o, r) \/ update(o, r)
    PROVE  Book!Edit(o, r) /\ ListInv'
  <1>1. PICK m \in Contexts : EditSaves(o, r, m)
    BY CreateSaves, UpdateSaves DEF BookInv
  <1>2. ContextInv /\ main \in Contexts /\ Listed(main) /\ app = "ready"
    BY <1>1 DEF BookInv, ListInv, EditSaves, ContextInv, TypeOK, Contexts
  <1>3. Listed(m)
    <2>1. ASSUME NEW p \in Obj
          PROVE  /\ (m[p] # Nil /\ m[p].st = "clean") => m[p].rec = m[p].base
                 /\ (rows[p] # Nil /\ p \notin unmerged) => m[p] # Nil
      <3>1. CASE p = o
        BY <1>1, <1>2, <3>1 DEF EditSaves, Listed
      <3>2. CASE p # o
        BY <1>1, <1>2, <3>2 DEF EditSaves, Listed
      <3>3. QED
        BY <3>1, <3>2
    <2>2. QED
      BY <2>1 DEF Listed
  <1>4. Shows(m) = [List EXCEPT ![o] = r]
    <2>1. Shows(m)[o] = r /\ \A p \in Obj \ {o} : Shows(m)[p] = Shows(main)[p]
      BY <1>1 DEF EditSaves, Shows
    <2>2. QED
      BY <2>1, ListShows DEF Shows
  <1>5. PICK edited \in {{o}, {}} : /\ Dirty(m) = Dirty(main) \cup edited
                                    /\ edited = {} => List[o] = r
    <2>1. \A p \in Obj \ {o} : p \in Dirty(m) <=> p \in Dirty(main)
      BY <1>1 DEF EditSaves, Dirty
    <2>2. CASE m[o].st = "clean"
      <3>1. main[o] # Nil /\ main[o].st = "clean" /\ main[o].rec = r
        BY <1>1, <2>2 DEF EditSaves
      <3>2. o \notin Dirty(m) /\ o \notin Dirty(main) /\ List[o] = r
        BY <2>2, <3>1, ListShows DEF Dirty, Shows
      <3>3. Dirty(m) = Dirty(main) \cup {}
        BY <2>1, <3>2 DEF Dirty
      <3>4. QED
        BY <3>2, <3>3
    <2>3. CASE m[o].st # "clean"
      <3>1. o \in Dirty(m)
        BY <1>1, <2>3 DEF EditSaves, Dirty
      <3>2. Dirty(m) = Dirty(main) \cup {o}
        BY <2>1, <3>1 DEF Dirty
      <3>3. QED
        BY <3>2
    <2>4. QED
      BY <2>2, <2>3
  <1>6. /\ Listed(main)'
        /\ List' = [List EXCEPT ![o] = r]
        /\ \/ /\ Dirty(m) \cap unmerged = {}
              /\ rows' = [p \in Obj |-> IF p \in unmerged THEN rows[p] ELSE List'[p]]
              /\ Dirty(main') = {}
           \/ /\ StoreMayFail \/ Dirty(m) \cap unmerged # {}
              /\ main' = m /\ rows' = rows
    <2>1. List' = Shows(main')
      BY DEF List, Visible, Shows
    <2>2. Fits(m) /\ saveToPersistentStore(m) /\ UNCHANGED unmerged
      BY <1>1 DEF EditSaves
    <2>3. QED
      BY <1>2, <1>3, <1>4, <2>1, <2>2, SaveKeeps
  <1>7. List[o] = Nil => rows[o] = Nil
    <2>1. CASE main[o] = Nil
      BY <1>1, <2>1 DEF EditSaves, Unheard, IsFree
    <2>2. CASE main[o] # Nil
      <3>1. List[o] = main[o].rec
        BY <1>1, <2>2, ListShows DEF EditSaves, Shows
      <3>2. main[o].rec # Nil
        BY <1>2, <2>2, RegisteredFields, NilIsApart DEF Contexts
      <3>3. QED
        BY <3>1, <3>2
    <2>3. QED
      BY <2>1, <2>2
  <1>8. UNCHANGED <<app, unmerged, ImportOver>>
    BY <1>1 DEF EditSaves, ImportOver
  <1>9. Book!Edit(o, r)
    <2>1. CASE Dirty(main') = {} /\ Dirty(m) \cap unmerged = {}
               /\ rows' = [p \in Obj |-> IF p \in unmerged THEN rows[p] ELSE List'[p]]
      BY <1>2, <1>5, <1>6, <1>7, <1>8, <2>1 DEF Book!Edit, Book!Keep, Dirty
    <2>2. CASE (StoreMayFail \/ Dirty(m) \cap unmerged # {}) /\ main' = m /\ rows' = rows
      <3>1. Dirty(main)' = Dirty(main) \cup edited
        BY <1>5, <2>2 DEF Dirty
      <3>2. QED
        BY <1>2, <1>5, <1>6, <1>7, <1>8, <2>2, <3>1 DEF Book!Edit
    <2>3. QED
      BY <1>6, <2>1, <2>2
  <1>10. QED
    BY <1>2, <1>6, <1>8, <1>9 DEF ListInv

\* delete(person:) leaves a kept person to the next save.
LEMMA DeleteBook ==
    ASSUME BookInv, NEW o \in Obj, delete(o)
    PROVE  Book!Delete(o) /\ ListInv'
  <1>1. TypeOK /\ ObjectsFitRows /\ Listed(main) /\ main[o] # Nil /\ o \in Visible
    BY DEF BookInv, ContextInv, ListInv, delete, Visible
  <1>2. main[o] \in Registered /\ main[o].rec \in Rec /\ main[o].st # "deleted"
    BY <1>1, RegisteredFields DEF TypeOK, Visible
  <1>3. \A p \in Obj \ {o} : main'[p] = main[p]
    BY <1>1 DEF delete, TypeOK
  <1>4. \/ main[o].st = "inserted" /\ main'[o] = Nil /\ rows[o] = Nil
        \/ /\ main[o].st # "inserted" /\ rows[o] # Nil
           /\ main'[o] # Nil /\ main'[o].st = "deleted"
    <2>1. CASE main[o].st = "inserted"
      BY <1>1, <2>1 DEF delete, TypeOK, ObjectsFitRows
    <2>2. CASE main[o].st # "inserted"
      <3>1. main'[o] = Changed(main[o], "deleted", main[o].rec)
        BY <1>1, <2>2 DEF delete, TypeOK
      <3>2. "deleted" \in States
        BY DEF States
      <3>3. main'[o] \in Registered /\ main'[o].st = "deleted"
        BY <1>2, <3>1, <3>2, ChangedType
      <3>4. QED
        BY <1>1, <2>2, <3>3, NilIsApart DEF ObjectsFitRows
    <2>3. QED
      BY <2>1, <2>2
  <1>5. List[o] # Nil
    BY <1>1, <1>2, NilIsApart DEF List
  <1>6. List' = [List EXCEPT ![o] = Nil]
    <2>1. List'[o] = Nil /\ \A p \in Obj \ {o} : List'[p] = List[p]
      BY <1>3, <1>4 DEF List, Visible
    <2>2. QED
      BY <2>1 DEF List
  <1>7. Dirty(main)' = IF rows[o] = Nil THEN Dirty(main) \ {o} ELSE Dirty(main) \cup {o}
    BY <1>3, <1>4 DEF Dirty
  <1>8. app = "ready" /\ UNCHANGED <<app, rows, unmerged, ImportOver>>
    BY DEF delete, ImportOver
  <1>9. Listed(main)'
    BY <1>1, <1>3, <1>4, <1>8 DEF Listed
  <1>10. QED
    BY <1>5, <1>6, <1>7, <1>8, <1>9 DEF Book!Delete, ListInv

\* Loading the list shows everything kept.
LEMMA LoadBook ==
    ASSUME BookInv, performFetch
    PROVE  Book!Show /\ ListInv'
  <1>1. TypeOK /\ main = NoObjects
    BY DEF BookInv, ContextInv, ListInv, performFetch
  <1>2. \A o \in Obj : main'[o] = IF rows[o] = Nil THEN Nil ELSE Clean(rows[o])
    BY DEF performFetch
  <1>3. \A o \in Obj : rows[o] # Nil => /\ main'[o] # Nil /\ main'[o].st = "clean"
                                        /\ main'[o].rec = rows[o] /\ main'[o].base = rows[o]
    BY <1>1, <1>2, CleanType, NilIsApart DEF TypeOK
  <1>4. \A o \in Obj : List'[o] = rows[o]
    BY <1>2, <1>3 DEF List, Visible
  <1>5. List' = rows
    BY <1>1, <1>4 DEF List, TypeOK
  <1>6. Dirty(main)' = {} /\ Dirty(main) = {}
    BY <1>1, <1>2, <1>3, NobodyShown DEF Dirty
  <1>7. Listed(main)'
    BY <1>2, <1>3 DEF Listed, performFetch
  <1>8. QED
    BY <1>5, <1>6, <1>7 DEF Book!Show, performFetch, ListInv, ImportOver

\* The background context's save, or a GET that fails, is the import.
LEMMA ImportBook ==
    ASSUME BookInv, SaveBackground \/ FetchFails
    PROVE  Book!Import /\ ListInv'
  <1>1. TypeOK /\ Phases /\ ObjectsFitRows /\ bg \in Contexts
    BY DEF BookInv, ContextInv, TypeOK, Contexts
  <1>2. /\ app # "down" /\ ~ImportOver /\ ImportOver'
        /\ UNCHANGED <<app, main>>
    BY <1>1 DEF SaveBackground, FetchFails, Phases, ImportOver
  <1>3. UNCHANGED List /\ UNCHANGED Dirty(main)
    BY <1>2 DEF List, Visible, Dirty
  <1>4. /\ rows' \in [Obj -> Rec \cup {Nil}]
        /\ \E S \in SUBSET Obj :
              /\ \A o \in S : rows'[o] # Nil
              /\ \A o \in Obj \ S : rows'[o] = rows[o]
              /\ unmerged' = unmerged \cup S
    <2>1. CASE UNCHANGED <<rows, unmerged>>
      <3>1. /\ {} \in SUBSET Obj
            /\ \A o \in {} : rows'[o] # Nil
            /\ \A o \in Obj \ {} : rows'[o] = rows[o]
            /\ unmerged' = unmerged \cup {}
        BY <2>1
      <3>2. rows' \in [Obj -> Rec \cup {Nil}]
        BY <1>1, <2>1 DEF TypeOK
      <3>3. QED
        BY <3>1, <3>2
    <2>2. CASE rows' = RowsAfter(bg) /\ unmerged' = unmerged \cup Dirty(bg)
      <3>1. \A o \in Obj : bg[o] = Nil \/ bg[o].st \in {"clean", "inserted", "updated"}
        <4>1. \A o \in Obj : bg[o] # Nil => bg[o].st \in States
          BY <1>1, RegisteredFields, NilIsApart DEF Contexts
        <4>2. QED
          BY <1>1, <4>1 DEF ObjectsFitRows, States
      <3>2. Dirty(bg) \in SUBSET Obj
        BY DEF Dirty
      <3>3. \A o \in Dirty(bg) : rows'[o] # Nil
        BY <1>1, <2>2, <3>1, RowsAfterSave DEF Dirty
      <3>4. \A o \in Obj \ Dirty(bg) : rows'[o] = rows[o]
        BY <2>2 DEF RowsAfter
      <3>5. rows' \in [Obj -> Rec \cup {Nil}]
        BY <1>1, <2>2, RowsAfterSave
      <3>6. QED
        BY <2>2, <3>2, <3>3, <3>4, <3>5
    <2>3. QED
      BY <2>1, <2>2 DEF SaveBackground, FetchFails
  <1>5. Book!Import
    BY <1>2, <1>3, <1>4 DEF Book!Import, Book!Rec, Rec
  <1>6. ListInv'
    <2>1. \A o \in Obj : (rows'[o] # Nil /\ o \notin unmerged')
                             => (rows[o] # Nil /\ o \notin unmerged)
      BY <1>4
    <2>2. QED
      BY <1>2, <2>1 DEF BookInv, ListInv, Listed
  <1>7. QED
    BY <1>5, <1>6

\* What one merged object comes to show: the row, where nothing is pending;
\* still nothing, where a deletion is; else a mixture, property by property.
LEMMA MergedShows ==
    ASSUME ContextInv, NEW o \in unmerged
    PROVE  /\ Merged(o) # Nil
           /\ o \notin Dirty(main) =>
                 /\ Merged(o).st = "clean" /\ Merged(o).rec = rows[o]
                 /\ Merged(o).base = rows[o]
           /\ o \in Dirty(main) =>
                 /\ Merged(o).st = main[o].st
                 /\ main[o].st # "deleted" =>
                       (main[o].rec # Nil /\ Merged(o).rec \in Book!Mixed(main[o].rec, rows[o]))
  <1>1. o \in Obj /\ rows[o] \in Rec /\ rows[o] # Nil
    BY DEF ContextInv, TypeOK, ObjectsFitRows
  <1>2. Merged(o) # Nil
    BY MergedType, NilIsApart
  <1>3. CASE o \notin Dirty(main)
    <2>1. Merged(o) = Clean(rows[o])
      BY <1>1, <1>3 DEF Dirty, Merged
    <2>2. QED
      BY <1>1, <1>2, <1>3, <2>1, CleanType
  <1>4. CASE o \in Dirty(main)
    <2>1. /\ main[o] # Nil /\ main[o].st # "clean"
          /\ main[o] \in Registered /\ main[o].st # "inserted"
      BY <1>1, <1>4 DEF Dirty, ContextInv, TypeOK, ObjectsFitRows
    <2>2. main[o].rec \in Rec /\ main[o].rec # Nil
      BY <2>1, RegisteredFields, NilIsApart
    <2>3. CASE main[o].st = "updated"
      <3>1. Merged(o) = [st |-> "updated", rec |-> Reapplied(main[o], rows[o]),
                         base |-> rows[o]]
        BY <2>1, <2>3 DEF Merged
      <3>2. Reapplied(main[o], rows[o]) \in Book!Mixed(main[o].rec, rows[o])
        BY <2>2 DEF Reapplied, Book!Mixed
      <3>3. QED
        BY <1>2, <1>4, <2>2, <2>3, <3>1, <3>2
    <2>4. CASE main[o].st = "deleted"
      <3>1. Merged(o) = [main[o] EXCEPT !.base = rows[o]]
        BY <2>1, <2>4 DEF Merged
      <3>2. QED
        BY <1>2, <1>4, <2>1, <2>4, <3>1 DEF Registered
    <2>5. QED
      BY <2>1, <2>3, <2>4, RegisteredFields DEF States
  <1>5. QED
    BY <1>3, <1>4

\* The automatic merge shows the news.
LEMMA NewsBook ==
    ASSUME BookInv, MergeToMain
    PROVE  Book!ShowNews /\ ListInv'
  <1>1. /\ ContextInv /\ TypeOK /\ Listed(main) /\ unmerged \subseteq Obj
        /\ app = "ready" /\ unmerged # {} /\ unmerged' = {}
        /\ UNCHANGED <<app, rows, ImportOver>>
    BY DEF BookInv, ContextInv, TypeOK, ListInv, MergeToMain, ImportOver
  <1>2. ContextInv'
    BY <1>1, MergeKeeps
  <1>3. \A o \in unmerged : main'[o] = Merged(o)
    BY <1>1 DEF MergeToMain
  <1>4. \A o \in Obj \ unmerged : main'[o] = main[o]
    BY DEF MergeToMain
  <1>5. List' \in [Obj -> Rec \cup {Nil}]
    <2>1. main' \in Contexts /\ List' = Shows(main')
      BY <1>2 DEF ContextInv, TypeOK, Contexts, List, Visible, Shows
    <2>2. QED
      BY <2>1, ShowsType
  <1>6. ASSUME NEW o \in Obj
        PROVE  /\ o \notin unmerged => List'[o] = List[o]
               /\ o \in unmerged \ Dirty(main) => List'[o] = rows[o]
               /\ o \in unmerged \cap Dirty(main) =>
                      List'[o] \in Book!Mixed(List[o], rows[o])
               /\ o \in Dirty(main') <=> o \in Dirty(main)
    <2>1. CASE o \notin unmerged
      BY <1>4, <2>1 DEF List, Visible, Dirty
    <2>2. CASE o \in unmerged \ Dirty(main)
      <3>1. /\ main'[o] # Nil /\ main'[o].st = "clean" /\ main'[o].rec = rows[o]
        BY <1>1, <1>3, <2>2, MergedShows
      <3>2. List'[o] = rows[o] /\ o \notin Dirty(main')
        BY <3>1 DEF List, Visible, Dirty
      <3>3. QED
        BY <2>2, <3>2
    <2>3. CASE o \in unmerged \cap Dirty(main)
      <3>1. /\ main'[o] # Nil /\ main'[o].st = main[o].st
            /\ main[o].st # "deleted" =>
                  (main[o].rec # Nil /\ main'[o].rec \in Book!Mixed(main[o].rec, rows[o]))
        BY <1>1, <1>3, <2>3, MergedShows
      <3>2. main[o] # Nil /\ main[o].st # "clean" /\ o \in Dirty(main')
        BY <2>3, <3>1 DEF Dirty
      <3>3. CASE main[o].st = "deleted"
        <4>1. List[o] = Nil /\ List'[o] = Nil
          BY <3>1, <3>3 DEF List, Visible
        <4>2. QED
          BY <2>3, <3>2, <4>1 DEF Book!Mixed
      <3>4. CASE main[o].st # "deleted"
        <4>1. List[o] = main[o].rec /\ List'[o] = main'[o].rec
          BY <3>1, <3>2, <3>4 DEF List, Visible
        <4>2. QED
          BY <2>3, <3>1, <3>2, <3>4, <4>1
      <3>5. QED
        BY <3>3, <3>4
    <2>4. QED
      BY <2>1, <2>2, <2>3
  <1>7. Dirty(main)' = Dirty(main)
    BY <1>6 DEF Dirty
  <1>8. Book!ShowNews
    BY <1>1, <1>5, <1>6, <1>7 DEF Book!ShowNews, Book!Rec, Rec
  <1>9. Listed(main)'
    <2>1. ASSUME NEW o \in Obj
          PROVE  /\ (main'[o] # Nil /\ main'[o].st = "clean") => main'[o].rec = main'[o].base
                 /\ rows[o] # Nil => main'[o] # Nil
      <3>1. CASE o \notin unmerged
        BY <1>1, <1>4, <3>1 DEF Listed
      <3>2. CASE o \in unmerged /\ o \notin Dirty(main)
        BY <1>1, <1>3, <3>2, MergedShows
      <3>3. CASE o \in unmerged /\ o \in Dirty(main)
        BY <1>1, <1>3, <3>3, MergedShows DEF Dirty
      <3>4. QED
        BY <3>1, <3>2, <3>3
    <2>2. QED
      BY <1>1, <2>1 DEF Listed
  <1>10. QED
    BY <1>1, <1>8, <1>9 DEF ListInv

\* Launch and termination open and close the book.
LEMMA OpenCloseBook ==
    ASSUME BookInv, Launch \/ Terminate
    PROVE  (Book!Start \/ Book!Close) /\ ListInv'
  <1>1. CASE Launch
    <2>1. main = NoObjects /\ ~ImportOver /\ ~ImportOver'
      BY <1>1 DEF BookInv, ListInv, ContextInv, Phases, Launch, ImportOver
    <2>2. UNCHANGED List /\ UNCHANGED Dirty(main)
      BY <1>1 DEF Launch, List, Visible, Dirty
    <2>3. UNCHANGED ImportOver
      BY <2>1 DEF ImportOver
    <2>4. Book!Start
      BY <1>1, <2>2, <2>3 DEF Launch, Book!Start
    <2>5. ListInv'
      BY <1>1, <2>1 DEF Launch, ListInv
    <2>6. QED
      BY <2>4, <2>5
  <1>2. CASE Terminate
    <2>1. main' = NoObjects /\ ImportOver' = FALSE
      BY <1>2 DEF Terminate, ImportOver
    <2>2. List' = [o \in Obj |-> Nil] /\ Dirty(main)' = {}
      BY <2>1 DEF List, Visible, NoObjects, Dirty
    <2>3. Book!Close
      BY <1>2, <2>1, <2>2 DEF Terminate, Book!Close, Book!Nobody
    <2>4. ListInv'
      BY <1>2, <2>1 DEF Terminate, ListInv
    <2>5. QED
      BY <2>3, <2>4
  <1>3. QED
    BY <1>1, <1>2

\* The GET's reply, the import loop and the fate of a request show nothing.
LEMMA HiddenStep ==
    ASSUME BookInv,
           \/ ServerReplies \/ UNCHANGED vars
           \/ \E i \in Ident : ApplyRepresentation(i)
           \/ \E t \in Task : Deliver(t) \/ Lose(t)
    PROVE  UNCHANGED Book!vars /\ ListInv'
  <1>1. UNCHANGED <<app, rows, main, unmerged, ImportOver>>
    BY DEF ServerReplies, vars, ApplyRepresentation, Deliver, Lose, ImportOver
  <1>2. UNCHANGED List /\ UNCHANGED Dirty(main)
    BY <1>1 DEF List, Visible, Dirty
  <1>3. UNCHANGED Book!vars
    BY <1>1, <1>2 DEF Book!vars
  <1>4. ListInv'
    BY <1>1 DEF BookInv, ListInv, Listed
  <1>5. QED
    BY <1>3, <1>4

LEMMA InitBook == Init => Book!Init /\ ListInv
  <1> SUFFICES ASSUME Init PROVE Book!Init /\ ListInv
    OBVIOUS
  <1>1. main = NoObjects /\ TypeOK
    BY InitContextInv DEF Init, ContextInv
  <1>2. ImportOver = FALSE
    <2>1. ~ImportOver
      BY DEF Init, ImportOver
    <2>2. QED
      BY <2>1 DEF ImportOver
  <1>3. List = [o \in Obj |-> Nil] /\ Dirty(main) = {}
    BY <1>1 DEF List, Visible, NoObjects, Dirty
  <1>4. QED
    BY <1>1, <1>2, <1>3 DEF Init, TypeOK, Rec, ListInv, Book!Init, Book!Nobody, Book!Rec

\* Each step of the program is a step of the address book or leaves it alone.
LEMMA NextBook == BookInv /\ [Next]_vars => [Book!Next]_(Book!vars) /\ BookInv'
  <1> SUFFICES ASSUME BookInv, [Next]_vars
               PROVE  [Book!Next]_(Book!vars) /\ ListInv'
    BY NextContextInv DEF BookInv
  <1>1. ASSUME NEW o \in Obj, NEW r \in Rec, createPerson(o, r) \/ update(o, r)
        PROVE  Book!Next /\ ListInv'
    BY <1>1, EditBook DEF Book!Next, Book!Rec, Rec
  <1>2. ASSUME NEW o \in Obj, delete(o)
        PROVE  Book!Next /\ ListInv'
    BY <1>2, DeleteBook DEF Book!Next
  <1>3. CASE UserStep
    BY <1>1, <1>2, <1>3 DEF UserStep
  <1>4. CASE Launch \/ Terminate
    BY <1>4, OpenCloseBook DEF Book!Next
  <1>5. CASE performFetch
    BY <1>5, LoadBook DEF Book!Next
  <1>6. CASE SaveBackground \/ FetchFails
    BY <1>6, ImportBook DEF Book!Next
  <1>7. CASE MergeToMain
    BY <1>7, NewsBook DEF Book!Next
  <1>8. CASE \/ ServerReplies \/ UNCHANGED vars
             \/ \E i \in Ident : ApplyRepresentation(i)
             \/ \E t \in Task : Deliver(t) \/ Lose(t)
    BY <1>8, HiddenStep
  <1>9. QED
    BY <1>3, <1>4, <1>5, <1>6, <1>7, <1>8 DEF Next

-----------------------------------------------------------------------------
(* The theorems                                                             *)

LEMMA BookInvariant == Spec => []BookInv
  <1>1. Init => BookInv
    BY InitContextInv, InitBook DEF BookInv
  <1>2. BookInv /\ [Next]_vars => BookInv'
    BY NextBook
  <1>3. QED
    BY <1>1, <1>2, PTL DEF Spec

\* PersonController over its two contexts does what AddressBook promises: a
\* save is all or nothing, an import lands at one moment and never undoes a
\* pending edit, and nothing else changes what is shown or kept.
THEOREM SyncImplementsBook == Spec => ImplementsBook
  <1>1. Init => Book!Init
    BY InitBook
  <1>2. BookInv /\ [Next]_vars => [Book!Next]_(Book!vars)
    BY NextBook
  <1>3. QED
    BY <1>1, <1>2, BookInvariant, PTL DEF Spec, ImplementsBook, Book!Spec

\* The list differs from the store only in pending edits and unmerged news.
THEOREM ListStaysStored == Spec => []ListIsStored
  <1>1. BookInv => ListIsStored
    <2> SUFFICES ASSUME BookInv, app = "ready",
                        NEW o \in Obj, o \notin Dirty(main) \cup unmerged
                 PROVE  List[o] = rows[o]
      BY DEF ListIsStored, Book!ShownIsKept
    <2>1. SnapshotsCurrent /\ Listed(main)
      BY DEF BookInv, ContextInv, ListInv
    <2>2. CASE main[o] = Nil
      BY <2>1, <2>2 DEF Listed, List, Visible
    <2>3. CASE main[o] # Nil
      <3>1. main[o].st = "clean" /\ main[o].rec = main[o].base
        BY <2>1, <2>3 DEF Dirty, Listed
      <3>2. main[o].base = rows[o]
        BY <2>1, <2>3 DEF SnapshotsCurrent
      <3>3. QED
        BY <2>3, <3>1, <3>2 DEF List, Visible
    <2>4. QED
      BY <2>2, <2>3
  <1>2. QED
    BY <1>1, BookInvariant, PTL

-----------------------------------------------------------------------------
(* The device and the server                                                 *)

\* What f, the list or the rows, says of i.
Words(f, i) == {f[o] : o \in {p \in Obj : identifier(p) = i /\ f[p] # Nil}}

\* The requests for i in flight, and what the server says of i in the end.
Sent(i) == {t \in Task : tasks[t] # Nil /\ tasks[t].id = i}
Promised(i) ==
    IF InFlight(i) THEN {tasks[t].body : t \in {u \in Sent(i) : tasks[u].body # Nil}}
                   ELSE OnServer(i)

\* No edit of this object, or of i, is pending in the main context.
Unedited(o) == main[o] = Nil \/ main[o].st = "clean"
AtRest(i) == \A o \in Obj : identifier(o) = i => Unedited(o)

\* An edit of a steady identifier can be pending only now.
MayPend == app = "ready" /\ fetch \in {"done", "failed"} /\ unmerged = {}

\* Of a steady identifier the list says what the last request for it says;
\* until an edit of it may be pending so do the rows, and an import that is
\* under way can only write what is there.
SteadyAt(i) ==
    /\ \A t, u \in Sent(i) : t = u
    /\ app = "ready" => Words(List, i) = Promised(i)
    /\ ~MayPend => AtRest(i) /\ Words(rows, i) = Promised(i)
    /\ fetch = "handling" =>
          /\ ~InFlight(i) /\ reply[i] \in {Nil, server[i]}
          /\ \A o \in Obj : (identifier(o) = i /\ bg[o] # Nil)
                                => rows[o] # Nil /\ bg[o].rec = rows[o]

\* The import of a quiet launch holds what the server says of everyone it has
\* applied, in the one object of that person, if there is one.
ImportsServer(i) ==
    /\ reply[i] \in {Nil, server[i]}
    /\ \A o \in Obj : (identifier(o) = i /\ bg[o] # Nil) =>
          /\ server[i] # Nil /\ bg[o].rec = AsRec(server[i])
          /\ bg[o].st = "clean" => rows[o] = bg[o].rec
    /\ (server[i] # Nil /\ reply[i] = Nil) =>
          /\ \A o \in Obj : (identifier(o) = i /\ rows[o] # Nil) => bg[o] # Nil
          /\ Insertable(server[i]) => \E o \in Obj : identifier(o) = i /\ bg[o] # Nil

\* After it the rows say what the server says.
Imported(i) ==
    server[i] # Nil =>
        /\ Words(rows, i) \subseteq OnServer(i)
        /\ Insertable(server[i]) => Words(rows, i) # {}

QuietInv ==
    quiet =>
        /\ app # "down" /\ bgStale = {}
        /\ \A t \in Task : tasks[t] = Nil
        /\ \A o \in Obj : Unedited(o)
        /\ fetch = "handling" => \A i \in Ident : ImportsServer(i)
        /\ fetch = "done" => \A i \in Ident : Imported(i)

\* What PersonSync keeps in any case.
SyncInv == BookInv /\ PendingOnlyAfterImport /\ UniqueIdentifiers

HistoryInv ==
    /\ SyncInv
    /\ steady \subseteq Ident
    /\ \A i \in steady : SteadyAt(i)
    /\ QuietInv

-----------------------------------------------------------------------------
(* What the list and the requests say *)

\* The list in the words of SyncHistory.
LEMMA DeviceWords ==
    ASSUME TypeOK, NEW i
    PROVE  OnDevice(i) = Words(List, i)
<1>1. \A o \in Obj : List[o] = IF o \in Visible THEN main[o].rec ELSE Nil
  BY DEF List
<1>2. \A o \in Visible : o \in Obj /\ main[o].rec # Nil
  BY RegisteredFields, NilIsApart DEF Visible, TypeOK
<1>3. QED
  BY <1>1, <1>2 DEF OnDevice, Words, Visible

\* Unedited and with nothing to merge, the list says of a person what is stored.
RestMeansStored ==
    BookInv /\ app = "ready" /\ unmerged = {} =>
        \A i \in Ident : AtRest(i) => Words(List, i) = Words(rows, i)

LEMMA RestIsStored == RestMeansStored
<1>. SUFFICES ASSUME BookInv, app = "ready", unmerged = {}, NEW i \in Ident, AtRest(i)
              PROVE  Words(List, i) = Words(rows, i)
  BY DEF RestMeansStored
<1>1. SnapshotsCurrent /\ Listed(main)
  BY DEF BookInv, ContextInv, ListInv
<1>2. ASSUME NEW o \in Obj, identifier(o) = i
      PROVE  List[o] = rows[o]
  <2>1. CASE main[o] = Nil
    BY <1>1, <2>1 DEF Listed, List, Visible
  <2>2. CASE main[o] # Nil
    <3>1. main[o].st = "clean"
      BY <1>2, <2>2 DEF AtRest, Unedited
    <3>2. main[o].rec = main[o].base /\ main[o].base = rows[o]
      BY <1>1, <2>2, <3>1 DEF Listed, SnapshotsCurrent
    <3>3. QED
      BY <2>2, <3>1, <3>2 DEF List, Visible
  <2>3. QED
    BY <2>1, <2>2
<1>3. QED
  BY <1>2 DEF Words

LEMMA RestIsStoredNext == RestMeansStored'
  BY RestIsStored, PTL

\* A local record is on the server what it is on the device.
LEMMA RecIsRep == \A r \in Rec : AsRec(r) = r /\ r \in Rep
  BY DEF AsRec, Rec, Rep

\* A step that leaves requests, server and reply alone owes the same.
LEMMA SameRequests ==
    ASSUME NEW i, \A t \in Task : (t \in Sent(i)') <=> (t \in Sent(i)),
           \A t \in Sent(i) : tasks'[t] = tasks[t], server'[i] = server[i]
    PROVE  /\ Sent(i)' = Sent(i) /\ (InFlight(i)' <=> InFlight(i))
           /\ Promised(i)' = Promised(i)
<1>1. Sent(i)' = Sent(i)
  BY DEF Sent
<1>2. InFlight(i)' <=> InFlight(i)
  <2>1. InFlight(i) <=> Sent(i) # {}
    BY DEF InFlight, Sent
  <2>2. InFlight(i)' <=> Sent(i)' # {}
    BY DEF InFlight, Sent
  <2>3. QED
    BY <1>1, <2>1, <2>2
<1>3. {tasks[t].body : t \in {u \in Sent(i) : tasks[u].body # Nil}}'
        = {tasks[t].body : t \in {u \in Sent(i) : tasks[u].body # Nil}}
  BY <1>1
<1>4. OnServer(i)' = OnServer(i)
  BY DEF OnServer
<1>5. QED
  BY <1>1, <1>2, <1>3, <1>4 DEF Promised

\* A step that is about someone else keeps what is steady of i.
LEMMA SteadyElsewhere ==
    ASSUME NEW i, SteadyAt(i), UNCHANGED <<app, fetch, unmerged>>,
           \A t \in Task : (t \in Sent(i)') <=> (t \in Sent(i)),
           \A t \in Sent(i) : tasks'[t] = tasks[t],
           server'[i] = server[i], reply'[i] = reply[i],
           \A o \in Obj : identifier(o) = i =>
               /\ List'[o] = List[o] /\ bg'[o] = bg[o]
               /\ Unedited(o) => Unedited(o)' /\ rows'[o] = rows[o]
    PROVE  SteadyAt(i)'
<1>1. /\ Sent(i)' = Sent(i) /\ (InFlight(i)' <=> InFlight(i))
      /\ Promised(i)' = Promised(i) /\ MayPend' = MayPend
  BY SameRequests DEF MayPend
<1>2. \A t, u \in Sent(i)' : t = u
  BY <1>1 DEF SteadyAt
<1>3. Words(List, i)' = Words(List, i)
  BY DEF Words
<1>4. ~MayPend => /\ AtRest(i)' /\ Words(rows, i)' = Words(rows, i)
                  /\ \A o \in Obj : identifier(o) = i => rows'[o] = rows[o]
  <2>1. SUFFICES ASSUME ~MayPend
        PROVE  /\ AtRest(i)' /\ Words(rows, i)' = Words(rows, i)
               /\ \A o \in Obj : identifier(o) = i => rows'[o] = rows[o]
    OBVIOUS
  <2>2. \A o \in Obj : identifier(o) = i => Unedited(o)' /\ rows'[o] = rows[o]
    BY <2>1 DEF SteadyAt, AtRest
  <2>3. QED
    BY <2>2 DEF AtRest, Words
<1>5. fetch = "handling" => ~MayPend
  BY DEF MayPend
<1>6. QED
  BY <1>1, <1>2, <1>3, <1>4, <1>5 DEF SteadyAt

-----------------------------------------------------------------------------
(* Edits *)

\* What createPerson, update (said: the record) and delete (said: Nil) do.
Edited(o, said) ==
    /\ app = "ready" /\ UNCHANGED <<app, fetch, reply, bg, unmerged, server>>
    /\ Send(identifier(o), said)
    /\ List'[o] = said
    /\ \A p \in Obj \ {o} : /\ List'[p] = List[p]
                            /\ Unedited(p) => Unedited(p)' /\ rows'[p] = rows[p]

LEMMA PutEdits ==
    ASSUME SyncInv, NEW o \in Obj, NEW r \in Rec, createPerson(o, r) \/ update(o, r)
    PROVE  Edited(o, r)
<1>1. PICK m \in Contexts : EditSaves(o, r, m)
  BY CreateSaves, UpdateSaves DEF SyncInv, BookInv
<1>2. BookInv /\ TypeOK
  BY DEF SyncInv, BookInv, ContextInv
<1>3. List' = [List EXCEPT ![o] = r]
  BY <1>2, EditBook DEF Book!Edit
<1>4. List'[o] = r /\ \A p \in Obj \ {o} : List'[p] = List[p]
  BY <1>3 DEF List
<1>5. ASSUME NEW p \in Obj, p # o, Unedited(p)
      PROVE  Unedited(p)' /\ rows'[p] = rows[p]
  <2>1. m[p] = main[p] /\ (m[p] = Nil \/ m[p].st = "clean")
    BY <1>1, <1>5 DEF EditSaves, Unedited
  <2>2. CASE rows' = RowsAfter(m) /\ main' = ObjectsAfter(m)
    BY <1>2, <2>1, <2>2, RowsAfterSave, ObjectsAfterSave DEF Unedited
  <2>3. CASE main' = m /\ rows' = rows
    BY <2>1, <2>3 DEF Unedited
  <2>4. QED
    BY <1>1, <2>2, <2>3 DEF EditSaves, saveToPersistentStore
<1>6. Send(identifier(o), r)
  <2>1. CASE createPerson(o, r)
    <3>1. Inserted(r).rec = r /\ [main EXCEPT ![o] = Inserted(r)][o] = Inserted(r)
      BY <1>2, InsertedType DEF TypeOK
    <3>2. QED
      BY <2>1, <3>1 DEF createPerson, put
  <2>2. CASE update(o, r)
    <3>1. PICK st : put(o, [main EXCEPT ![o] = Changed(main[o], st, r)])
      BY <2>2 DEF update
    <3>2. [main EXCEPT ![o] = Changed(main[o], st, r)][o].rec = r
      BY <1>2 DEF TypeOK, Changed
    <3>3. QED
      BY <3>1, <3>2 DEF put
  <2>3. QED
    BY <2>1, <2>2
<1>7. app = "ready" /\ UNCHANGED <<app, fetch, reply, bg, unmerged, server>>
  BY <1>1 DEF EditSaves
<1>8. QED
  BY <1>4, <1>5, <1>6, <1>7 DEF Edited

LEMMA DeleteEdits ==
    ASSUME SyncInv, NEW o \in Obj, delete(o)
    PROVE  Edited(o, Nil)
<1>1. BookInv /\ TypeOK
  BY DEF SyncInv, BookInv, ContextInv
<1>2. List' = [List EXCEPT ![o] = Nil]
  BY <1>1, DeleteBook DEF Book!Delete
<1>3. List'[o] = Nil /\ \A p \in Obj \ {o} : List'[p] = List[p]
  BY <1>2 DEF List
<1>4. \A p \in Obj \ {o} : main'[p] = main[p] /\ rows'[p] = rows[p]
  BY <1>1 DEF delete, TypeOK
<1>5. \A p \in Obj \ {o} : Unedited(p) => Unedited(p)' /\ rows'[p] = rows[p]
  BY <1>4 DEF Unedited
<1>6. /\ app = "ready" /\ Send(identifier(o), Nil)
      /\ UNCHANGED <<app, fetch, reply, bg, unmerged, server>>
  BY DEF delete
<1>7. QED
  BY <1>3, <1>5, <1>6 DEF Edited

\* After an edit the list says of this person what was said, and nothing else.
LEMMA SaidAlone ==
    ASSUME SyncInv, NEW o \in Obj,
           \/ \E r \in Rec : createPerson(o, r) \/ update(o, r)
           \/ delete(o),
           NEW p \in Obj, p # o, identifier(p) = identifier(o)
    PROVE  List'[p] = Nil
<1>1. ContextInv /\ BookInv /\ PendingOnlyAfterImport /\ UniqueIdentifiers /\ TypeOK
  BY DEF SyncInv, BookInv, ContextInv
<1>2. CASE delete(o)
  <2>1. main[o] # Nil /\ List'[p] = List[p]
    BY <1>2, DeleteEdits DEF delete, Visible, Edited
  <2>2. main[p] = Nil
    BY <1>1, <2>1 DEF UniqueIdentifiers, IsLive
  <2>3. QED
    BY <2>1, <2>2 DEF List, Visible
<1>3. CASE \E r \in Rec : createPerson(o, r) \/ update(o, r)
  <2>1. PICK r \in Rec : createPerson(o, r) \/ update(o, r)
    BY <1>3
  <2>2. List'[p] = List[p]
    BY <2>1, PutEdits DEF Edited
  <2>3. PICK m \in Contexts : EditSaves(o, r, m)
    BY <1>1, <2>1, CreateSaves, UpdateSaves
  <2>4. main[p] = Nil
    <3>1. CASE main[o] = Nil
      BY <2>3, <3>1 DEF EditSaves, Unheard, IsFree
    <3>2. CASE main[o] # Nil
      BY <1>1, <3>2 DEF UniqueIdentifiers, IsLive
    <3>3. QED
      BY <3>1, <3>2
  <2>5. QED
    BY <2>2, <2>4 DEF List, Visible
<1>4. QED
  BY <1>2, <1>3

\* The edit of a settled person makes it steady.
LEMMA EditSettled ==
    ASSUME SyncInv, NEW o \in Obj, NEW said \in Rec \cup {Nil},
           \/ \E r \in Rec : createPerson(o, r) \/ update(o, r)
           \/ delete(o),
           Edited(o, said), Settled(identifier(o))
    PROVE  SteadyAt(identifier(o))'
<1>. DEFINE i == identifier(o)
<1>0. i \in Ident /\ TypeOK
  BY IdentifierType DEF SyncInv, BookInv, ContextInv
<1>1. PICK t \in Task : tasks[t] = Nil /\ tasks' = [tasks EXCEPT ![t] = [id |-> i, body |-> said]]
  BY DEF Edited, Send
<1>2. tasks'[t] = [id |-> i, body |-> said] /\ tasks'[t] # Nil
      /\ \A u \in Task \ {t} : tasks'[u] = tasks[u]
  <2>1. [id |-> i, body |-> said] \in Request
    BY <1>0 DEF Request
  <2>2. QED
    BY <1>0, <1>1, <2>1, NilIsApart DEF TypeOK
<1>3. Sent(i)' = {t}
  <2>1. \A u \in Task \ {t} : tasks[u] = Nil \/ tasks[u].id # i
    BY DEF Settled, InFlight
  <2>2. QED
    BY <1>2, <2>1 DEF Sent
<1>4. InFlight(i)'
  BY <1>2 DEF InFlight
<1>5. Promised(i)' = IF said = Nil THEN {} ELSE {said}
  <2>1. Promised(i)' = {tasks'[u].body : u \in {v \in {t} : tasks'[v].body # Nil}}
    BY <1>3, <1>4 DEF Promised
  <2>2. tasks'[t].body = said
    BY <1>2
  <2>3. QED
    BY <2>1, <2>2
<1>6. Words(List, i)' = IF said = Nil THEN {} ELSE {said}
  <2>1. List'[o] = said
    BY DEF Edited
  <2>2. \A p \in Obj : identifier(p) = i /\ p # o => List'[p] = Nil
    BY SaidAlone
  <2>3. QED
    BY <2>1, <2>2 DEF Words
<1>7. MayPend' /\ fetch' # "handling"
  BY DEF Edited, Settled, MayPend
<1>8. QED
  BY <1>3, <1>5, <1>6, <1>7 DEF SteadyAt

\* An edit keeps what is steady of everybody else.
LEMMA EditElsewhere ==
    ASSUME SyncInv, NEW o \in Obj, NEW said \in Rec \cup {Nil}, Edited(o, said),
           NEW i \in Ident, i # identifier(o), SteadyAt(i)
    PROVE  SteadyAt(i)'
<1>0. TypeOK
  BY DEF SyncInv, BookInv, ContextInv
<1>1. PICK t \in Task : /\ tasks[t] = Nil
                        /\ tasks' = [tasks EXCEPT ![t] = [id |-> identifier(o), body |-> said]]
  BY DEF Edited, Send
<1>2. tasks'[t].id # i /\ \A u \in Task \ {t} : tasks'[u] = tasks[u]
  BY <1>0, <1>1 DEF TypeOK
<1>3. /\ \A u \in Task : (u \in Sent(i)') <=> (u \in Sent(i))
      /\ \A u \in Sent(i) : tasks'[u] = tasks[u]
  BY <1>1, <1>2 DEF Sent
<1>4. \A p \in Obj : identifier(p) = i =>
          /\ List'[p] = List[p] /\ bg'[p] = bg[p]
          /\ Unedited(p) => Unedited(p)' /\ rows'[p] = rows[p]
  BY DEF Edited
<1>5. UNCHANGED <<app, fetch, unmerged>> /\ server'[i] = server[i] /\ reply'[i] = reply[i]
  BY DEF Edited
<1>6. QED
  BY <1>3, <1>4, <1>5, SteadyElsewhere

-----------------------------------------------------------------------------
(* The other steps *)

LEMMA NextSync == ~StoreMayFail => (SyncInv /\ [Next]_vars => SyncInv')
  BY NextBook, NextPending, NextUnique DEF SyncInv, BookInv

\* Requests and server left alone, the same is owed.
LEMMA NothingSent ==
    ASSUME NEW i, UNCHANGED <<tasks, server>>
    PROVE  /\ Sent(i)' = Sent(i) /\ (InFlight(i)' <=> InFlight(i))
           /\ Promised(i)' = Promised(i)
<1>1. \A t \in Task : (t \in Sent(i)') <=> (t \in Sent(i))
  BY DEF Sent
<1>2. QED
  BY <1>1, SameRequests

\* A launch, or the end of a GET that failed.
LEMMA SteadyLaunch ==
    ASSUME SyncInv, NEW i, SteadyAt(i), Launch \/ FetchFails
    PROVE  SteadyAt(i)'
<1>1. /\ Sent(i)' = Sent(i) /\ Promised(i)' = Promised(i)
      /\ UNCHANGED <<rows, main, unmerged>> /\ ~MayPend /\ fetch' # "handling"
  BY NothingSent DEF Launch, FetchFails, MayPend
<1>2. AtRest(i)' /\ Words(rows, i)' = Promised(i)'
  BY <1>1 DEF SteadyAt, AtRest, Unedited, Words
<1>3. app' = "ready" => Words(List, i)' = Promised(i)'
  <2>1. app' = "ready" => app = "ready"
    BY DEF Launch, FetchFails
  <2>2. List' = List
    BY <1>1 DEF List, Visible
  <2>3. QED
    BY <1>1, <2>1, <2>2 DEF SteadyAt, Words
<1>4. QED
  BY <1>1, <1>2, <1>3 DEF SteadyAt

\* The GET is served, with no request for this person in flight.
LEMMA SteadyReply ==
    ASSUME SyncInv, NEW i \in Ident, SteadyAt(i), ~InFlight(i), ServerReplies
    PROVE  SteadyAt(i)'
<1>1. /\ Sent(i)' = Sent(i) /\ Promised(i)' = Promised(i) /\ ~InFlight(i)'
      /\ UNCHANGED <<app, rows, main, unmerged>> /\ ~MayPend
  BY NothingSent DEF ServerReplies, MayPend
<1>2. AtRest(i)' /\ Words(rows, i)' = Promised(i)'
  BY <1>1 DEF SteadyAt, AtRest, Unedited, Words
<1>3. app' = "ready" => Words(List, i)' = Promised(i)'
  <2>1. List' = List
    BY <1>1 DEF List, Visible
  <2>2. QED
    BY <1>1, <2>1 DEF SteadyAt, Words
<1>4. reply'[i] \in {Nil, server'[i]} /\ \A o \in Obj : bg'[o] = Nil
  <2>1. bg' = NoObjects
    BY DEF ServerReplies, SyncInv, BookInv, ContextInv, Phases
  <2>2. QED
    BY <2>1 DEF ServerReplies, NoObjects
<1>5. \A t, u \in Sent(i)' : t = u
  BY <1>1 DEF SteadyAt
<1>6. QED
  BY <1>1, <1>2, <1>3, <1>4, <1>5 DEF SteadyAt

\* Loading the list.
LEMMA SteadyLoad ==
    ASSUME SyncInv, SyncInv', NEW i \in Ident, SteadyAt(i), performFetch
    PROVE  SteadyAt(i)'
<1>1. /\ Sent(i)' = Sent(i) /\ Promised(i)' = Promised(i) /\ (InFlight(i)' <=> InFlight(i))
      /\ UNCHANGED <<rows, fetch, reply, bg, server>> /\ ~MayPend
      /\ app' = "ready" /\ unmerged' = {}
  BY NothingSent DEF performFetch, MayPend
<1>2. AtRest(i)' /\ Words(rows, i)' = Promised(i)'
  <2>1. \A o \in Obj : Unedited(o)'
    BY DEF performFetch, Clean, Unedited
  <2>2. QED
    BY <1>1, <2>1 DEF SteadyAt, AtRest, Words
<1>3. Words(List, i)' = Promised(i)'
  <2>1. Words(List, i)' = Words(rows, i)'
    BY <1>1, <1>2, RestIsStoredNext DEF RestMeansStored, SyncInv
  <2>2. QED
    BY <1>2, <2>1
<1>4. QED
  BY <1>1, <1>2, <1>3 DEF SteadyAt

\* Words(rows, i) says what each row of i says.
LEMMA RowsSay ==
    ASSUME NEW o \in Obj, rows[o] # Nil
    PROVE  rows[o] \in Words(rows, identifier(o))
  BY DEF Words

\* A turn of the import's loop reads what the rows of a steady person say.
LEMMA SteadyApply ==
    ASSUME ~StoreMayFail, SyncInv, NEW j \in Ident, ApplyRepresentation(j),
           NEW i \in Ident, SteadyAt(i)
    PROVE  SteadyAt(i)'
<1>1. /\ Sent(i)' = Sent(i) /\ Promised(i)' = Promised(i) /\ (InFlight(i)' <=> InFlight(i))
      /\ UNCHANGED <<app, rows, main, fetch, unmerged, server>>
      /\ fetch = "handling" /\ reply[j] # Nil /\ reply' = [reply EXCEPT ![j] = Nil]
  BY NothingSent DEF ApplyRepresentation
<1>2. ~MayPend /\ ~InFlight(i) /\ reply[i] \in {Nil, server[i]} /\ Words(rows, i) = OnServer(i)
  BY <1>1 DEF SteadyAt, MayPend, Promised
<1>3. AtRest(i)' /\ Words(rows, i)' = Promised(i)'
  BY <1>1, <1>2 DEF SteadyAt, AtRest, Unedited, Words
<1>4. app' = "ready" => Words(List, i)' = Promised(i)'
  <2>1. List' = List
    BY <1>1 DEF List, Visible
  <2>2. QED
    BY <1>1, <2>1 DEF SteadyAt, Words
<1>5. reply'[i] \in {Nil, server'[i]}
  BY <1>1, <1>2 DEF SyncInv, BookInv, ContextInv, TypeOK
<1>6. ASSUME NEW o \in Obj, identifier(o) = i, bg'[o] # Nil
      PROVE  rows[o] # Nil /\ bg'[o].rec = rows[o]
  <2>1. CASE bg'[o] = bg[o]
    BY <1>1, <1>6, <2>1 DEF SteadyAt
  <2>2. CASE bg'[o] # bg[o]
    <3>1. PICK p \in Obj, x \in Registered :
              /\ identifier(p) = j /\ bg' = [bg EXCEPT ![p] = x]
              /\ x.rec = AsRec(reply[j]) /\ x.base = rows[p]
              /\ x.base = Nil => Matches(j) = {}
      BY <2>2, ApplyRegisters DEF SyncInv, BookInv
    <3>2. o = p /\ i = j /\ bg'[o] = x
      BY <1>6, <2>2, <3>1 DEF SyncInv, BookInv, ContextInv, TypeOK
    <3>3. Words(rows, i) = {AsRec(server[i])} /\ reply[j] = server[i]
      BY <1>1, <1>2, <3>2 DEF OnServer
    <3>4. rows[o] # Nil
      <4>1. Matches(i) # {}
        BY <3>3 DEF Words, Matches
      <4>2. QED
        BY <3>1, <3>2, <4>1
    <3>5. rows[o] = AsRec(server[i])
      BY <1>6, <3>3, <3>4, RowsSay
    <3>6. QED
      BY <3>1, <3>2, <3>3, <3>4, <3>5
  <2>3. QED
    BY <2>1, <2>2
<1>7. \A t, u \in Sent(i)' : t = u
  BY <1>1 DEF SteadyAt
<1>8. QED
  BY <1>1, <1>2, <1>3, <1>4, <1>5, <1>6, <1>7 DEF SteadyAt

\* So what it writes is there already.
LEMMA SteadySave ==
    ASSUME SyncInv, SaveBackground, NEW i \in Ident, SteadyAt(i)
    PROVE  SteadyAt(i)'
<1>1. /\ Sent(i)' = Sent(i) /\ Promised(i)' = Promised(i)
      /\ UNCHANGED <<app, main>> /\ fetch = "handling" /\ fetch' = "done" /\ ~MayPend
  BY NothingSent DEF SaveBackground, MayPend
<1>2. ASSUME NEW o \in Obj, identifier(o) = i
      PROVE  rows'[o] = rows[o]
  <2>1. TypeOK /\ ObjectsFitRows /\ bg \in Contexts
    BY DEF SyncInv, BookInv, ContextInv, TypeOK, Contexts
  <2>2. CASE rows' = RowsAfter(bg)
    <3>1. CASE bg[o] = Nil \/ bg[o].st = "clean"
      BY <2>1, <2>2, <3>1, RowsAfterSave
    <3>2. CASE bg[o] # Nil /\ bg[o].st # "clean"
      <4>1. bg[o].st \in {"inserted", "updated"}
        <5>1. bg[o].st \in States /\ bg[o].st # "deleted"
          BY <2>1, <3>2, RegisteredFields DEF Contexts, ObjectsFitRows
        <5>2. QED
          BY <3>2, <5>1 DEF States
      <4>2. rows'[o] = bg[o].rec
        BY <2>1, <2>2, <3>2, <4>1, RowsAfterSave
      <4>3. QED
        BY <1>1, <1>2, <3>2, <4>2 DEF SteadyAt
    <3>3. QED
      BY <3>1, <3>2
  <2>3. QED
    BY <2>2 DEF SaveBackground
<1>3. AtRest(i)' /\ Words(rows, i)' = Promised(i)'
  <2>1. Words(rows, i)' = Words(rows, i)
    BY <1>2 DEF Words
  <2>2. QED
    BY <1>1, <2>1 DEF SteadyAt, AtRest, Unedited
<1>4. app' = "ready" => Words(List, i)' = Promised(i)'
  <2>1. List' = List
    BY <1>1 DEF List, Visible
  <2>2. QED
    BY <1>1, <2>1 DEF SteadyAt, Words
<1>5. \A t, u \in Sent(i)' : t = u
  BY <1>1 DEF SteadyAt
<1>6. QED
  BY <1>1, <1>3, <1>4, <1>5 DEF SteadyAt

\* And what is merged is shown already.
LEMMA SteadyMerge ==
    ASSUME SyncInv, SyncInv', MergeToMain, NEW i \in Ident, SteadyAt(i)
    PROVE  SteadyAt(i)'
<1>1. /\ Sent(i)' = Sent(i) /\ Promised(i)' = Promised(i)
      /\ UNCHANGED <<app, rows, fetch>> /\ app = "ready" /\ unmerged # {} /\ unmerged' = {}
      /\ ~MayPend
  BY NothingSent DEF MergeToMain, MayPend
<1>2. fetch = "done"
  BY <1>1 DEF SyncInv, BookInv, ContextInv, Phases
<1>3. AtRest(i)'
  <2>1. SUFFICES ASSUME NEW o \in Obj, identifier(o) = i
        PROVE  main'[o] = Nil \/ main'[o].st = "clean"
    BY DEF AtRest, Unedited
  <2>2. main[o] = Nil \/ main[o].st = "clean"
    BY <1>1, <2>1 DEF SteadyAt, AtRest, Unedited
  <2>3. CASE o \in unmerged
    BY <2>2, <2>3 DEF MergeToMain, Merged, Clean
  <2>4. CASE o \notin unmerged
    BY <2>2, <2>4 DEF MergeToMain
  <2>5. QED
    BY <2>3, <2>4
<1>4. Words(rows, i)' = Promised(i)'
  BY <1>1 DEF SteadyAt, Words
<1>5. Words(List, i)' = Promised(i)'
  <2>1. Words(List, i)' = Words(rows, i)'
    BY <1>1, <1>3, RestIsStoredNext DEF RestMeansStored, SyncInv
  <2>2. QED
    BY <1>4, <2>1
<1>6. \A t, u \in Sent(i)' : t = u
  BY <1>1 DEF SteadyAt
<1>7. QED
  BY <1>1, <1>2, <1>3, <1>4, <1>5, <1>6 DEF SteadyAt


\* A request that arrives, or never will, is no business of anyone else.
LEMMA SteadyNetwork ==
    ASSUME SyncInv, NEW t \in Task, Deliver(t) \/ Lose(t),
           NEW i \in Ident, i # tasks[t].id, SteadyAt(i)
    PROVE  SteadyAt(i)'
<1>1. /\ tasks[t] # Nil /\ tasks' = [tasks EXCEPT ![t] = Nil]
      /\ UNCHANGED <<app, rows, main, fetch, reply, bg, bgStale, unmerged>>
      /\ server' = server \/ server' = [server EXCEPT ![tasks[t].id] = tasks[t].body]
  BY DEF Deliver, Lose
<1>2. TypeOK
  BY DEF SyncInv, BookInv, ContextInv
<1>3. tasks'[t] = Nil /\ \A u \in Task \ {t} : tasks'[u] = tasks[u]
  BY <1>1, <1>2 DEF TypeOK
<1>4. /\ \A u \in Task : (u \in Sent(i)') <=> (u \in Sent(i))
      /\ \A u \in Sent(i) : tasks'[u] = tasks[u]
  BY <1>1, <1>3 DEF Sent
<1>5. server'[i] = server[i]
  BY <1>1, <1>2 DEF TypeOK
<1>6. \A o \in Obj : identifier(o) = i =>
          /\ List'[o] = List[o] /\ bg'[o] = bg[o]
          /\ Unedited(o) => Unedited(o)' /\ rows'[o] = rows[o]
  BY <1>1 DEF List, Visible, Unedited
<1>7. UNCHANGED <<app, fetch, unmerged>> /\ reply'[i] = reply[i]
  BY <1>1
<1>8. QED
  BY <1>4, <1>5, <1>6, <1>7, SteadyElsewhere

\* The last request for a steady person arrives: the server says what it said.
LEMMA SteadyDeliver ==
    ASSUME SyncInv, NEW t \in Task, Deliver(t), NEW i \in Ident, i = tasks[t].id,
           SteadyAt(i)
    PROVE  SteadyAt(i)'
<1>1. /\ tasks[t] # Nil /\ tasks' = [tasks EXCEPT ![t] = Nil]
      /\ UNCHANGED <<app, rows, main, fetch, reply, bg, unmerged>>
      /\ server' = [server EXCEPT ![i] = tasks[t].body]
  BY DEF Deliver
<1>2. TypeOK
  BY DEF SyncInv, BookInv, ContextInv
<1>3. Sent(i) = {t} /\ InFlight(i)
  BY <1>1 DEF SteadyAt, Sent, InFlight
<1>4. ~InFlight(i)' /\ Sent(i)' = {}
  <2>1. tasks'[t] = Nil /\ \A u \in Task \ {t} : tasks'[u] = tasks[u]
    BY <1>1, <1>2 DEF TypeOK
  <2>2. \A u \in Task : tasks'[u] = Nil \/ tasks'[u].id # i
    BY <1>3, <2>1 DEF Sent
  <2>3. QED
    BY <2>2 DEF InFlight, Sent
<1>5. Promised(i)' = Promised(i)
  <2>1. tasks[t].body \in Rec \cup {Nil} /\ server'[i] = tasks[t].body
    BY <1>1, <1>2 DEF TypeOK, Request
  <2>2. Promised(i) = IF tasks[t].body = Nil THEN {} ELSE {tasks[t].body}
    BY <1>3 DEF Promised
  <2>3. Promised(i)' = IF server'[i] = Nil THEN {} ELSE {AsRec(server'[i])}
    BY <1>4 DEF Promised, OnServer
  <2>4. QED
    BY <2>1, <2>2, <2>3, RecIsRep
<1>6. fetch # "handling" /\ MayPend' = MayPend
  BY <1>1, <1>3 DEF SteadyAt, MayPend
<1>7. ~MayPend' => AtRest(i)' /\ Words(rows, i)' = Promised(i)'
  BY <1>1, <1>5, <1>6 DEF SteadyAt, AtRest, Unedited, Words
<1>8. app' = "ready" => Words(List, i)' = Promised(i)'
  <2>1. List' = List
    BY <1>1 DEF List, Visible
  <2>2. QED
    BY <1>1, <1>5, <2>1 DEF SteadyAt, Words
<1>9. QED
  BY <1>1, <1>4, <1>6, <1>7, <1>8 DEF SteadyAt

\* With nothing of this person unsaved, the store says all when the app ends.
LEMMA SteadyTerminate ==
    ASSUME SyncInv, Terminate, NEW i \in Ident, ~Unsaved(i), SteadyAt(i)
    PROVE  SteadyAt(i)'
<1>1. /\ app' = "down" /\ fetch' = "idle" /\ main' = NoObjects /\ UNCHANGED rows
      /\ Sent(i)' = Sent(i) /\ Promised(i)' = Promised(i)
  BY NothingSent DEF Terminate
<1>2. AtRest(i)'
  BY <1>1 DEF AtRest, Unedited, NoObjects
<1>3. Words(rows, i) = Promised(i)
  <2>1. CASE MayPend
    <3>1. AtRest(i)
      BY DEF Unsaved, Dirty, AtRest, Unedited
    <3>2. Words(List, i) = Words(rows, i)
      BY <2>1, <3>1, RestIsStored DEF RestMeansStored, MayPend, SyncInv
    <3>3. QED
      BY <2>1, <3>2 DEF SteadyAt, MayPend
  <2>2. CASE ~MayPend
    BY <2>2 DEF SteadyAt
  <2>3. QED
    BY <2>1, <2>2
<1>4. Words(rows, i)' = Promised(i)'
  BY <1>1, <1>3 DEF Words
<1>5. \A u, v \in Sent(i)' : u = v
  BY <1>1 DEF SteadyAt
<1>6. QED
  BY <1>1, <1>2, <1>4, <1>5 DEF SteadyAt

-----------------------------------------------------------------------------
(* A quiet launch *)

\* Before the reply, after a failure, and while only the list changes, there is
\* nothing to keep of the import.
LEMMA QuietStarts ==
    ASSUME SyncInv, Launch, \A t \in Task : tasks[t] = Nil
    PROVE  QuietInv'
<1>1. /\ app' = "starting" /\ fetch' = "requested"
      /\ UNCHANGED <<main, bgStale, tasks>> /\ main = NoObjects /\ bgStale = {}
  BY DEF Launch, SyncInv, BookInv, ContextInv, Phases
<1>2. \A o \in Obj : Unedited(o)'
  BY <1>1 DEF Unedited, NoObjects
<1>3. QED
  BY <1>1, <1>2 DEF QuietInv

LEMMA SameImport ==
    ASSUME UNCHANGED <<rows, reply, bg, server>>, NEW i
    PROVE  (ImportsServer(i)' <=> ImportsServer(i)) /\ (Imported(i)' <=> Imported(i))
<1>1. ImportsServer(i)' <=> ImportsServer(i)
  BY DEF ImportsServer
<1>2. Imported(i)' <=> Imported(i)
  BY DEF Imported, Words, OnServer
<1>3. QED
  BY <1>1, <1>2

LEMMA QuietLists ==
    ASSUME SyncInv, QuietInv, quiet, quiet', performFetch \/ FetchFails \/ MergeToMain
    PROVE  QuietInv'
<1>1. /\ app' # "down" /\ UNCHANGED <<rows, reply, bg, bgStale, server, tasks>>
      /\ fetch' = fetch \/ fetch' = "failed"
  BY DEF performFetch, FetchFails, MergeToMain, QuietInv
<1>2. ASSUME NEW o \in Obj
      PROVE  main'[o] = Nil \/ main'[o].st = "clean"
  <2>1. main[o] = Nil \/ main[o].st = "clean"
    BY DEF QuietInv, Unedited
  <2>2. CASE performFetch
    BY <2>2 DEF performFetch, Clean
  <2>3. CASE FetchFails
    BY <2>1, <2>3 DEF FetchFails
  <2>4. CASE MergeToMain
    BY <2>1, <2>4 DEF MergeToMain, Merged, Clean
  <2>5. QED
    BY <2>2, <2>3, <2>4
<1>3. /\ fetch' = "handling" => \A i \in Ident : ImportsServer(i)'
      /\ fetch' = "done" => \A i \in Ident : Imported(i)'
  BY <1>1, SameImport DEF QuietInv
<1>4. \A t \in Task : tasks'[t] = Nil
  BY <1>1 DEF QuietInv
<1>5. \A o \in Obj : Unedited(o)'
  BY <1>2 DEF Unedited
<1>6. QED
  BY <1>1, <1>3, <1>4, <1>5 DEF QuietInv

\* The GET brings what the server says, and nothing is on its way to change it.
LEMMA QuietReply ==
    ASSUME SyncInv, QuietInv, quiet, ServerReplies
    PROVE  QuietInv'
<1>1. /\ UNCHANGED <<app, main, bg, bgStale, server, tasks>>
      /\ fetch' = "handling" /\ reply' = server /\ bg = NoObjects
  BY DEF ServerReplies, SyncInv, BookInv, ContextInv, Phases
<1>2. \A i \in Ident : ImportsServer(i)'
  BY <1>1 DEF ImportsServer, NoObjects
<1>3. app' # "down" /\ bgStale' = {} /\ \A t \in Task : tasks'[t] = Nil
  BY <1>1 DEF QuietInv
<1>4. \A o \in Obj : Unedited(o)'
  BY <1>1 DEF QuietInv, Unedited
<1>5. QED
  BY <1>1, <1>2, <1>3, <1>4 DEF QuietInv

\* A turn of the loop brings one more person into the background context, as
\* the server has them, unless they are not here and cannot be made.
LEMMA QuietApply ==
    ASSUME ~StoreMayFail, SyncInv, SyncInv', QuietInv, quiet,
           NEW j \in Ident, ApplyRepresentation(j)
    PROVE  QuietInv'
<1>1. /\ UNCHANGED <<app, rows, main, fetch, bgStale, server, tasks>>
      /\ fetch = "handling" /\ reply[j] # Nil /\ reply' = [reply EXCEPT ![j] = Nil]
  BY DEF ApplyRepresentation
<1>2. TypeOK /\ ContextInv
  BY DEF SyncInv, BookInv, ContextInv
<1>3. \A i \in Ident : ImportsServer(i)
  BY <1>1 DEF QuietInv
<1>4. reply'[j] = Nil /\ reply[j] = server[j] /\ \A i \in Ident \ {j} : reply'[i] = reply[i]
  BY <1>1, <1>2, <1>3 DEF TypeOK, ImportsServer
<1>5. \A o \in Obj : identifier(o) = j => bg[o] = Nil
  BY <1>1, <1>2 DEF ContextInv, ObjectsFitRows
<1>6. ASSUME UNCHANGED bg, ~Insertable(reply[j]), Matches(j) = {}
      PROVE  \A i \in Ident : ImportsServer(i)'
  <2>1. \A o \in Obj : identifier(o) = j => rows[o] = Nil
    BY <1>6 DEF Matches
  <2>2. ImportsServer(j)'
    BY <1>1, <1>4, <1>5, <1>6, <2>1 DEF ImportsServer
  <2>3. \A i \in Ident \ {j} : ImportsServer(i)'
    BY <1>1, <1>3, <1>4, <1>6 DEF ImportsServer
  <2>4. QED
    BY <2>2, <2>3
<1>7. ASSUME \E o \in Obj, x \in Registered :
                /\ identifier(o) = j /\ bg' = [bg EXCEPT ![o] = x]
                /\ x.rec = AsRec(reply[j])
                /\ x.st = "clean" => x.rec = rows[o]
      PROVE  \A i \in Ident : ImportsServer(i)'
  <2>1. PICK o \in Obj, x \in Registered :
              /\ identifier(o) = j /\ bg' = [bg EXCEPT ![o] = x]
              /\ x.rec = AsRec(reply[j])
              /\ x.st = "clean" => x.rec = rows[o]
    BY <1>7
  <2>2. bg'[o] = x /\ x # Nil /\ \A p \in Obj \ {o} : bg'[p] = bg[p]
    BY <1>2, <2>1, NilIsApart DEF TypeOK
  <2>3. \A p \in Obj : identifier(p) = j /\ rows[p] # Nil => p = o
    <3>1. UniqueIdentifiers'
      BY DEF SyncInv
    <3>2. IsLive(o)'
      BY <2>2 DEF IsLive
    <3>3. \A p \in Obj : rows[p] # Nil => IsLive(p)'
      BY <1>1 DEF IsLive
    <3>4. QED
      BY <2>1, <3>1, <3>2, <3>3 DEF UniqueIdentifiers
  <2>4. ImportsServer(j)'
    <3>1. \A p \in Obj : identifier(p) = j /\ p # o => bg'[p] = Nil
      BY <1>5, <2>2
    <3>2. QED
      BY <1>1, <1>4, <2>1, <2>2, <2>3, <3>1 DEF ImportsServer
  <2>5. ASSUME NEW i \in Ident \ {j}
        PROVE  ImportsServer(i)'
    <3>1. \A p \in Obj : identifier(p) = i => bg'[p] = bg[p]
      BY <2>1, <2>2
    <3>2. ImportsServer(i) /\ reply'[i] = reply[i] /\ rows' = rows /\ server' = server
      BY <1>1, <1>3, <1>4
    <3>3. QED
      BY <3>1, <3>2 DEF ImportsServer
  <2>6. QED
    BY <2>4, <2>5
<1>8. \A i \in Ident : ImportsServer(i)'
  BY <1>2, <1>6, <1>7, ApplyRegisters
<1>9. /\ app' # "down" /\ bgStale' = {} /\ \A t \in Task : tasks'[t] = Nil
      /\ \A o \in Obj : Unedited(o)'
  BY <1>1 DEF QuietInv, Unedited
<1>10. QED
  BY <1>1, <1>8, <1>9 DEF QuietInv

\* The import's save meets no conflict, for the user has saved nothing: then
\* every row of a person on the server says what the server says.
LEMMA QuietSave ==
    ASSUME ~StoreMayFail, SyncInv, QuietInv, quiet, SaveBackground
    PROVE  QuietInv'
<1>1. /\ rows' = RowsAfter(bg) /\ fetch = "handling" /\ fetch' = "done" /\ reply = NoReply
      /\ UNCHANGED <<app, main, server, tasks>> /\ bgStale' = {}
  BY DEF SaveBackground, Conflict, QuietInv
<1>2. TypeOK /\ ObjectsFitRows /\ bg \in Contexts
  BY DEF SyncInv, BookInv, ContextInv, TypeOK, Contexts
<1>3. ASSUME NEW i \in Ident, server[i] # Nil
      PROVE  /\ \A o \in Obj : (identifier(o) = i /\ rows'[o] # Nil) => rows'[o] = AsRec(server[i])
             /\ Insertable(server[i]) => \E o \in Obj : identifier(o) = i /\ rows'[o] # Nil
  <2>1. ImportsServer(i) /\ reply[i] = Nil
    BY <1>1 DEF QuietInv, NoReply
  <2>2. ASSUME NEW o \in Obj, identifier(o) = i, bg[o] # Nil
        PROVE  rows'[o] = AsRec(server[i]) /\ rows'[o] # Nil
    <3>1. /\ bg[o].rec = AsRec(server[i]) /\ bg[o].rec # Nil
          /\ bg[o].st = "clean" => rows[o] = bg[o].rec
      BY <1>2, <2>1, <2>2, RegisteredFields, NilIsApart DEF ImportsServer, Contexts
    <3>2. bg[o].st \in {"clean", "inserted", "updated"}
      BY <1>2, <2>2, RegisteredFields DEF Contexts, ObjectsFitRows, States
    <3>3. rows'[o] = bg[o].rec
      BY <1>1, <1>2, <2>2, <3>1, <3>2, RowsAfterSave
    <3>4. QED
      BY <3>1, <3>3
  <2>3. ASSUME NEW o \in Obj, identifier(o) = i, bg[o] = Nil
        PROVE  rows'[o] = Nil
    <3>1. rows[o] = Nil
      BY <1>3, <2>1, <2>3 DEF ImportsServer
    <3>2. QED
      BY <1>1, <1>2, <2>3, <3>1, RowsAfterSave
  <2>4. QED
    BY <1>3, <2>1, <2>2, <2>3 DEF ImportsServer
<1>4. ASSUME NEW i \in Ident
      PROVE  Imported(i)'
  <2>1. SUFFICES ASSUME server'[i] # Nil
        PROVE  /\ Words(rows, i)' \subseteq OnServer(i)'
               /\ Insertable(server'[i]) => Words(rows, i)' # {}
    BY DEF Imported
  <2>2. server[i] # Nil
    BY <1>1, <2>1
  <2>3. QED
    BY <1>1, <1>3, <2>2 DEF Words, OnServer
<1>5. /\ app' # "down" /\ \A t \in Task : tasks'[t] = Nil
      /\ \A o \in Obj : Unedited(o)'
  BY <1>1 DEF QuietInv, Unedited
<1>6. QED
  BY <1>1, <1>4, <1>5 DEF QuietInv

-----------------------------------------------------------------------------
(* Every step of the history keeps its invariant *)

\* The history variables watch, and change nothing.
LEMMA HistoryIsPersonSync == [HistoryNext]_hvars => [Next]_vars
<1>1. (\E o \in Obj : EditStep(o)) => UserStep
  BY DEF EditStep, UserStep
<1>2. LaunchStep \/ ReplyStep \/ TerminateStep => Next
  BY DEF LaunchStep, ReplyStep, TerminateStep, Next
<1>3. (\E t \in Task : LoseStep(t)) => Next
  BY DEF LoseStep, Next
<1>4. OtherStep => Next
  BY DEF OtherStep, Next
<1>5. QED
  BY <1>1, <1>2, <1>3, <1>4 DEF HistoryNext, Next, hvars

LEMMA EditHistory ==
    ASSUME HistoryInv, NEW o \in Obj, EditStep(o)
    PROVE  (\A i \in steady' : SteadyAt(i)') /\ QuietInv' /\ steady' \subseteq Ident
<1>0. SyncInv /\ identifier(o) \in Ident /\ steady \subseteq Ident
      /\ \A i \in steady : SteadyAt(i)
  BY IdentifierType DEF HistoryInv
<1>1. \/ \E r \in Rec : createPerson(o, r) \/ update(o, r)
      \/ delete(o)
  BY DEF EditStep
<1>2. PICK said \in Rec \cup {Nil} : Edited(o, said)
  BY <1>0, <1>1, PutEdits, DeleteEdits
<1>3. \A i \in steady \ {identifier(o)} : SteadyAt(i)'
  BY <1>0, <1>2, EditElsewhere
<1>4. Settled(identifier(o)) => SteadyAt(identifier(o))'
  BY <1>0, <1>2, EditSettled DEF EditStep
<1>5. QED
  BY <1>0, <1>3, <1>4 DEF EditStep, QuietInv

LEMMA WatchedHistory ==
    ASSUME ~StoreMayFail, HistoryInv, SyncInv',
           \/ LaunchStep \/ ReplyStep \/ TerminateStep
           \/ \E t \in Task : LoseStep(t)
    PROVE  (\A i \in steady' : SteadyAt(i)') /\ QuietInv' /\ steady' \subseteq Ident
<1>0. SyncInv /\ QuietInv /\ steady \subseteq Ident /\ \A i \in steady : SteadyAt(i)
  BY DEF HistoryInv
<1>1. CASE LaunchStep
  <2>1. QuietInv'
    <3>1. CASE quiet'
      BY <1>0, <1>1, <3>1, QuietStarts DEF LaunchStep
    <3>2. CASE ~quiet'
      BY <3>2 DEF QuietInv
    <3>3. QED
      BY <3>1, <3>2
  <2>2. QED
    BY <1>0, <1>1, <2>1, SteadyLaunch DEF LaunchStep
<1>2. CASE ReplyStep
  <2>1. QuietInv'
    <3>1. CASE quiet
      BY <1>0, <1>2, <3>1, QuietReply DEF ReplyStep
    <3>2. CASE ~quiet
      BY <1>2, <3>2 DEF QuietInv, ReplyStep
    <3>3. QED
      BY <3>1, <3>2
  <2>2. \A i \in steady' : i \in Ident /\ SteadyAt(i) /\ ~InFlight(i)
    BY <1>0, <1>2 DEF ReplyStep
  <2>3. QED
    BY <1>0, <1>2, <2>1, <2>2, SteadyReply DEF ReplyStep
<1>3. CASE TerminateStep
  <2>1. \A i \in steady' : i \in Ident /\ SteadyAt(i) /\ ~Unsaved(i)
    BY <1>0, <1>3 DEF TerminateStep
  <2>2. QED
    BY <1>0, <1>3, <2>1, SteadyTerminate DEF TerminateStep, QuietInv
<1>4. CASE \E t \in Task : LoseStep(t)
  <2>1. PICK t \in Task : LoseStep(t)
    BY <1>4
  <2>2. QuietInv'
    BY <1>0, <2>1 DEF QuietInv, LoseStep, Lose
  <2>3. \A i \in steady' : i \in Ident /\ SteadyAt(i) /\ i # tasks[t].id
    BY <1>0, <2>1 DEF LoseStep
  <2>4. QED
    BY <1>0, <2>1, <2>2, <2>3, SteadyNetwork DEF LoseStep
<1>5. QED
  BY <1>1, <1>2, <1>3, <1>4

LEMMA UnwatchedHistory ==
    ASSUME ~StoreMayFail, HistoryInv, SyncInv', OtherStep \/ UNCHANGED hvars
    PROVE  (\A i \in steady' : SteadyAt(i)') /\ QuietInv' /\ steady' \subseteq Ident
<1>0. SyncInv /\ QuietInv /\ steady \subseteq Ident /\ \A i \in steady : SteadyAt(i)
  BY DEF HistoryInv
<1>1. quiet' = quiet /\ steady' = steady
  BY DEF OtherStep, hvars, historyVars
<1>2. CASE performFetch
  <2>1. QuietInv'
    BY <1>0, <1>1, <1>2, QuietLists DEF QuietInv
  <2>2. QED
    BY <1>0, <1>1, <1>2, <2>1, SteadyLoad
<1>3. CASE FetchFails
  <2>1. QuietInv'
    BY <1>0, <1>1, <1>3, QuietLists DEF QuietInv
  <2>2. QED
    BY <1>0, <1>1, <1>3, <2>1, SteadyLaunch
<1>4. CASE \E j \in Ident : ApplyRepresentation(j)
  <2>1. PICK j \in Ident : ApplyRepresentation(j)
    BY <1>4
  <2>2. QuietInv'
    BY <1>0, <1>1, <2>1, QuietApply DEF QuietInv
  <2>3. QED
    BY <1>0, <1>1, <2>1, <2>2, SteadyApply
<1>5. CASE SaveBackground
  <2>1. QuietInv'
    BY <1>0, <1>1, <1>5, QuietSave DEF QuietInv
  <2>2. QED
    BY <1>0, <1>1, <1>5, <2>1, SteadySave
<1>6. CASE MergeToMain
  <2>1. QuietInv'
    BY <1>0, <1>1, <1>6, QuietLists DEF QuietInv
  <2>2. QED
    BY <1>0, <1>1, <1>6, <2>1, SteadyMerge
<1>7. CASE \E t \in Task : Deliver(t)
  <2>1. PICK t \in Task : Deliver(t)
    BY <1>7
  <2>2. QuietInv'
    BY <1>0, <1>1, <2>1 DEF QuietInv, Deliver
  <2>3. QED
    BY <1>0, <1>1, <2>1, <2>2, SteadyDeliver, SteadyNetwork
<1>8. CASE UNCHANGED hvars
  <2>1. UNCHANGED <<app, rows, main, fetch, reply, bg, bgStale, unmerged, server, tasks>>
    BY <1>8 DEF hvars, vars
  <2>2. ASSUME NEW i, SteadyAt(i)
        PROVE  SteadyAt(i)'
    <3>1. \A t \in Task : (t \in Sent(i)') <=> (t \in Sent(i))
      BY <2>1 DEF Sent
    <3>2. \A o \in Obj : identifier(o) = i =>
              /\ List'[o] = List[o] /\ bg'[o] = bg[o]
              /\ Unedited(o) => Unedited(o)' /\ rows'[o] = rows[o]
      BY <2>1 DEF List, Visible, Unedited
    <3>3. /\ UNCHANGED <<app, fetch, unmerged>> /\ server'[i] = server[i] /\ reply'[i] = reply[i]
          /\ \A t \in Sent(i) : tasks'[t] = tasks[t]
      BY <2>1
    <3>4. QED
      BY <2>2, <3>1, <3>2, <3>3, SteadyElsewhere
  <2>3. QuietInv'
    <3>1. \A o \in Obj : Unedited(o)' <=> Unedited(o)
      BY <2>1 DEF Unedited
    <3>2. \A i \in Ident : /\ ImportsServer(i)' <=> ImportsServer(i)
                           /\ Imported(i)' <=> Imported(i)
      BY <2>1, SameImport
    <3>3. QED
      BY <1>0, <1>1, <2>1, <3>1, <3>2 DEF QuietInv
  <2>4. QED
    BY <1>0, <1>1, <2>2, <2>3
<1>9. QED
  BY <1>2, <1>3, <1>4, <1>5, <1>6, <1>7, <1>8 DEF OtherStep

LEMMA NextHistory ==
    ~StoreMayFail => (HistoryInv /\ [HistoryNext]_hvars => HistoryInv')
<1>. SUFFICES ASSUME ~StoreMayFail, HistoryInv, [HistoryNext]_hvars
              PROVE  HistoryInv'
  OBVIOUS
<1>1. SyncInv'
  BY HistoryIsPersonSync, NextSync DEF HistoryInv
<1>2. (\A i \in steady' : SteadyAt(i)') /\ QuietInv' /\ steady' \subseteq Ident
  BY <1>1, EditHistory, WatchedHistory, UnwatchedHistory DEF HistoryNext
<1>3. QED
  BY <1>1, <1>2 DEF HistoryInv

LEMMA InitHistory == HistoryInit => HistoryInv
<1>. SUFFICES ASSUME HistoryInit PROVE HistoryInv
  OBVIOUS
<1>1. BookInv
  BY InitContextInv, InitBook DEF HistoryInit, BookInv
<1>2. PendingOnlyAfterImport
  BY DEF HistoryInit, Init, NoObjects, PendingOnlyAfterImport
<1>3. UniqueIdentifiers
  BY DEF HistoryInit, Init, NoObjects, IsLive, UniqueIdentifiers
<1>4. QED
  BY <1>1, <1>2, <1>3 DEF HistoryInv, SyncInv, QuietInv, HistoryInit

-----------------------------------------------------------------------------
(* The theorems *)

\* Where the store does not fail on its own, whatever is in flight, refused,
\* lost or restarted for others: of every steady person whose last request has
\* arrived the list says exactly what the server says.
THEOREM SteadyPeopleAgree ==
    ASSUME ~StoreMayFail
    PROVE  HistorySpec => []SteadyIdsAgree
<1>1. HistoryInv => SteadyIdsAgree
  <2>. SUFFICES ASSUME HistoryInv, app = "ready", NEW i \in steady, ~InFlight(i)
                PROVE  OnDevice(i) = OnServer(i)
    BY DEF SteadyIdsAgree
  <2>1. TypeOK /\ SteadyAt(i)
    BY DEF HistoryInv, SyncInv, BookInv, ContextInv
  <2>2. Words(List, i) = OnServer(i)
    BY <2>1 DEF SteadyAt, Promised
  <2>3. QED
    BY <2>1, <2>2, DeviceWords
<1>2. QED
  BY <1>1, InitHistory, NextHistory, PTL DEF HistorySpec

\* Where the store does not fail on its own, a launch with nothing in flight
\* and an idle user ends with everyone on the server shown as the server has
\* them, whatever earlier launches, lost requests and restarts left behind.
THEOREM QuietLaunchRepairs ==
    ASSUME ~StoreMayFail
    PROVE  HistorySpec => []QuietLaunchHeals
<1>1. HistoryInv => QuietLaunchHeals
  <2>. SUFFICES ASSUME HistoryInv, quiet, app = "ready", fetch = "done", unmerged = {},
                       NEW i \in Ident, server[i] # Nil
                PROVE  /\ OnDevice(i) \subseteq OnServer(i)
                       /\ Insertable(server[i]) => OnDevice(i) # {}
    BY DEF QuietLaunchHeals
  <2>1. /\ TypeOK /\ BookInv /\ Imported(i) /\ AtRest(i)
    BY DEF HistoryInv, SyncInv, BookInv, ContextInv, QuietInv, AtRest
  <2>2. OnDevice(i) = Words(rows, i)
    BY <2>1, DeviceWords, RestIsStored DEF RestMeansStored
  <2>3. QED
    BY <2>1, <2>2 DEF Imported
<1>2. QED
  BY <1>1, InitHistory, NextHistory, PTL DEF HistorySpec
=============================================================================
