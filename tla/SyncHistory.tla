---------------------------- MODULE SyncHistory -----------------------------
(* PersonSync with two history variables, which no step reads: what the     *)
(* device and the server owe each other when nothing goes wrong in between. *)
EXTENDS PersonSync

VARIABLES
    quiet,      \* this launch began with no request in flight, and the user
                \* has edited nothing since
    steady      \* identifiers whose last edit met a settled app and has met
                \* no accident since

historyVars == <<quiet, steady>>
hvars == <<vars, historyVars>>

InFlight(i) == \E t \in Task : tasks[t] # Nil /\ tasks[t].id = i

\* The GET is over and merged, and the last request for i has arrived.
Settled(i) == fetch \in {"done", "failed"} /\ unmerged = {} /\ ~InFlight(i)

Unsaved(i) == \E o \in Obj : identifier(o) = i /\ o \in Dirty(main)

HistoryInit == Init /\ quiet = FALSE /\ steady = {}

EditStep(o) ==
    /\ (\E r \in Rec : createPerson(o, r) \/ update(o, r)) \/ delete(o)
    /\ quiet' = FALSE
    /\ steady' = IF Settled(identifier(o)) THEN steady \cup {identifier(o)}
                                           ELSE steady \ {identifier(o)}

LaunchStep ==
    /\ Launch
    /\ quiet' = \A t \in Task : tasks[t] = Nil
    /\ UNCHANGED steady

\* The GET is served while an edit is still on its way.
ReplyStep ==
    /\ ServerReplies
    /\ steady' = {i \in steady : ~InFlight(i)}
    /\ UNCHANGED quiet

LoseStep(t) ==
    /\ Lose(t)
    /\ steady' = steady \ {tasks[t].id}
    /\ UNCHANGED quiet

TerminateStep ==
    /\ Terminate
    /\ quiet' = FALSE
    /\ steady' = {i \in steady : ~Unsaved(i)}

OtherStep ==
    /\ \/ performFetch
       \/ FetchFails
       \/ \E i \in Ident : ApplyRepresentation(i)
       \/ SaveBackground
       \/ MergeToMain
       \/ \E t \in Task : Deliver(t)
    /\ UNCHANGED historyVars

HistoryNext ==
    \/ \E o \in Obj : EditStep(o)
    \/ LaunchStep
    \/ ReplyStep
    \/ \E t \in Task : LoseStep(t)
    \/ TerminateStep
    \/ OtherStep

HistorySpec == HistoryInit /\ [][HistoryNext]_hvars

FairHistorySpec == HistorySpec /\ Fairness

-----------------------------------------------------------------------------
\* What the list shows for i, and what the server says of it.
OnDevice(i) == {main[o].rec : o \in {p \in Visible : identifier(p) = i}}
OnServer(i) == IF server[i] = Nil THEN {} ELSE {AsRec(server[i])}

\* Device and server agree on every person whose last edit was made after the
\* launch's GET had settled, with no earlier request for the same person still
\* in flight, once that edit has arrived: through saves, deletes that stay
\* pending, and later launches with their imports. Every exception named in
\* steady is a way the code really loses an edit.
SteadyIdsAgree ==
    app = "ready" => \A i \in steady : InFlight(i) \/ OnDevice(i) = OnServer(i)

\* A launch with nothing in flight and an idle user repairs the list: whatever
\* earlier launches did, everyone on the server is shown as the server has
\* them, save legacy records never seen here, which the failable initialiser
\* refuses (PersonController.fetchPersonFromServer).
QuietLaunchHeals ==
    quiet /\ app = "ready" /\ fetch = "done" /\ unmerged = {} =>
        \A i \in Ident : server[i] # Nil =>
            /\ OnDevice(i) \subseteq OnServer(i)
            /\ Insertable(server[i]) => OnDevice(i) # {}

\* And such a launch comes to show them: unless the GET fails, the user edits
\* or iOS ends the app.
QuietLaunchShows ==
    \A i \in Ident :
        quiet /\ fetch = "requested" /\ server[i] # Nil /\ Insertable(server[i])
            ~> \/ ~quiet
               \/ fetch = "failed"
               \/ app = "ready" /\ OnDevice(i) = OnServer(i)
=============================================================================
