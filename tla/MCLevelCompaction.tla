-------------------------- MODULE MCLevelCompaction --------------------------
(* A small instance of LevelCompaction for TLC. *)
EXTENDS LevelCompaction

\* A write of one key, or a put of all.
SmallBatches == {{[key |-> k, del |-> d]} : k \in Keys, d \in BOOLEAN}
                    \cup {{[key |-> k, del |-> FALSE] : k \in Keys}}
==============================================================================
