---------------------------- MODULE MCWishDetail ----------------------------
(* Small instances of WishDetail for TLC.                                  *)
EXTENDS WishDetail, TLC

\* People, texts, days and buttons are only compared with each other.
Symmetry == Permutations(Person) \cup Permutations(Text)
                \cup Permutations(Day) \cup Permutations(Button)
=============================================================================
