------------------------------ MODULE SyncBook ------------------------------
(* PersonSync implements AddressBook: contexts, snapshots, requests and     *)
(* conflicts, seen from the list and the store.                             *)
EXTENDS PersonSync

\* What the list says.
List == [o \in Obj |-> IF o \in Visible THEN main[o].rec ELSE Nil]

ImportOver == fetch \in {"done", "failed"}

Book == INSTANCE AddressBook WITH
            phase <- app, kept <- rows, shown <- List,
            pending <- Dirty(main), news <- unmerged, imported <- ImportOver

\* Each save, refused or not, each merge, each import, each end of the app is
\* one step of the address book or none: a save keeps everything shown at once,
\* an import lands as a whole (CoreDataStack, PersonController's saves).
ImplementsBook == Book!Spec

\* The list and the store differ only where an edit is pending or an import
\* still to be merged; the code keeps them apart in two contexts and a file.
ListIsStored == Book!ShownIsKept
=============================================================================
