---------------------------- MODULE MCPersonSync ----------------------------
(* Small instances of PersonSync for TLC.                                  *)
EXTENDS PersonSync, TLC

\* Identifiers, copies, texts and tasks are only compared with each other.
Symmetry == Permutations(Ident) \cup Permutations(Copy)
                \cup Permutations(Wish) \cup Permutations(Task)
=============================================================================
