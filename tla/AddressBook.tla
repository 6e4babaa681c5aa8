---------------------------- MODULE AddressBook -----------------------------
(***************************************************************************)
(* What the device promises of the people it shows (shown) and of those it *)
(* keeps (kept), without saying how: no contexts, snapshots, requests or   *)
(* server.                                                                 *)
(*                                                                         *)
(* An edit shows at once and is kept, together with every edit still       *)
(* pending, or stays pending. It may be refused only over something newer  *)
(* that is kept and not shown yet. One import per launch takes effect at   *)
(* one moment, takes nobody away, and shows later, without undoing edits   *)
(* that are pending. Closing the app forgets what is pending and no more.  *)
(***************************************************************************)

CONSTANTS
    Obj,            \* the people's objects
    Wish,           \* what a record says besides its flags
    Nil,            \* no record
    StoreMayFail    \* may keeping an edit fail for no reason the user gave?

Rec == [wish : Wish, bought : BOOLEAN]

VARIABLES
    phase,      \* "down", "starting" or "ready"
    kept,       \* survives the app
    shown,      \* the list
    pending,    \* edited, deleted included, and not kept yet
    news,       \* kept by the import and not shown yet
    imported    \* this launch's import is over

vars == <<phase, kept, shown, pending, news, imported>>

Nobody == [o \in Obj |-> Nil]

TypeOK ==
    /\ phase \in {"down", "starting", "ready"}
    /\ kept \in [Obj -> Rec \cup {Nil}]
    /\ shown \in [Obj -> Rec \cup {Nil}]
    /\ pending \subseteq Obj
    /\ news \subseteq Obj
    /\ imported \in BOOLEAN

Init ==
    /\ phase = "down"
    /\ kept \in [Obj -> Rec \cup {Nil}]
    /\ shown = Nobody
    /\ pending = {} /\ news = {}
    /\ imported = FALSE

Start ==
    /\ phase = "down"
    /\ phase' = "starting"
    /\ UNCHANGED <<kept, shown, pending, news, imported>>

Show ==
    /\ phase = "starting"
    /\ phase' = "ready"
    /\ shown' = kept
    /\ news' = {}
    /\ UNCHANGED <<kept, pending, imported>>

\* Everything shown is kept, except where the import knows better.
Keep ==
    /\ kept' = [o \in Obj |-> IF o \in news THEN kept[o] ELSE shown'[o]]
    /\ pending' = {}

\* To write what is shown already may count as an edit or not.
Edit(o, r) ==
    /\ phase = "ready"
    /\ shown[o] = Nil => kept[o] = Nil
    /\ shown' = [shown EXCEPT ![o] = r]
    /\ \E edited \in {{o}, {}} :
          /\ edited = {} => shown[o] = r
          /\ \/ /\ (pending \cup edited) \cap news = {}
                /\ Keep
             \/ /\ StoreMayFail \/ (pending \cup edited) \cap news # {}
                /\ pending' = pending \cup edited
                /\ UNCHANGED kept
    /\ UNCHANGED <<phase, news, imported>>

\* Somebody who was never kept is gone; a kept person goes with the next edit.
Delete(o) ==
    /\ phase = "ready"
    /\ shown[o] # Nil
    /\ shown' = [shown EXCEPT ![o] = Nil]
    /\ pending' = IF kept[o] = Nil THEN pending \ {o} ELSE pending \cup {o}
    /\ UNCHANGED <<phase, kept, news, imported>>

Import ==
    /\ phase # "down"
    /\ ~imported
    /\ imported' = TRUE
    /\ kept' \in [Obj -> Rec \cup {Nil}]
    /\ \E S \in SUBSET Obj :
          /\ \A o \in S : kept'[o] # Nil
          /\ \A o \in Obj \ S : kept'[o] = kept[o]
          /\ news' = news \cup S
    /\ UNCHANGED <<phase, shown, pending>>

\* What a pending edit may become when the news of its object show.
Mixed(mine, theirs) ==
    IF mine = Nil THEN {Nil}
    ELSE [wish : {mine.wish, theirs.wish}, bought : {mine.bought, theirs.bought}]

ShowNews ==
    /\ phase = "ready"
    /\ news # {}
    /\ news' = {}
    /\ shown' \in [Obj -> Rec \cup {Nil}]
    /\ \A o \in Obj :
          /\ o \notin news => shown'[o] = shown[o]
          /\ o \in news \ pending => shown'[o] = kept[o]
          /\ o \in news \cap pending => shown'[o] \in Mixed(shown[o], kept[o])
    /\ UNCHANGED <<phase, kept, pending, imported>>

Close ==
    /\ phase # "down"
    /\ phase' = "down"
    /\ shown' = Nobody
    /\ pending' = {} /\ news' = {}
    /\ imported' = FALSE
    /\ UNCHANGED kept

Next ==
    \/ Start \/ Show
    \/ \E o \in Obj : Delete(o) \/ \E r \in Rec : Edit(o, r)
    \/ Import \/ ShowNews
    \/ Close

Spec == Init /\ [][Next]_vars

-----------------------------------------------------------------------------
\* The list and the store differ only where something is pending or new.
ShownIsKept ==
    phase = "ready" =>
        \A o \in Obj : o \notin pending \cup news => shown[o] = kept[o]
=============================================================================
