------------------------------- MODULE MCSync -------------------------------
(* Small instances of the synchronization, with the book of a person and the *)
(* history variables.                                                       *)
EXTENDS SyncBook, SyncHistory, TLC

\* Identifiers, copies, texts and tasks are only compared with each other.
Symmetry == Permutations(Ident) \cup Permutations(Copy)
                \cup Permutations(Wish) \cup Permutations(Task)
=============================================================================
