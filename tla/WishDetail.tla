----------------------------- MODULE WishDetail -----------------------------
(***************************************************************************)
(* WishDetailViewController: the form on which a person is added or        *)
(* edited, with its three buy buttons.                                     *)
(*                                                                         *)
(* A flag lives in four places: in the stored person, in the controller's  *)
(* isBoughtFirst..Third, in each ChangeBuyButton's own isBought, and in    *)
(* the title the button shows. A set of buttons stands for each.           *)
(* Covered: opening from a row and from "+", typing, the date picker, the  *)
(* buttons, Save, going back, and the launch's import changing the people  *)
(* behind an open form. The gift texts are one with the name, a birthday   *)
(* is a day, and what PersonController does with an edit is PersonSync's.  *)
(***************************************************************************)

CONSTANTS
    Person,     \* managed objects
    Text,       \* what the name and gift fields may say, the name not empty
    Day,        \* what the date picker offers
    Button,     \* firstBuyButton, secondBuyButton, thirdBuyButton
    Nil         \* no person, an empty field, a birthday text that is no date

Record == [text : Text, birthday : Day, bought : SUBSET Button]

ASSUME NilAssumption ==
    Nil \notin Person /\ Nil \notin Text /\ Nil \notin Day /\ Nil \notin Record

VARIABLES
    people,     \* the people in the main context
    screen,     \* "list", "detail" or "crashed"
    person,     \* the form's person, Nil on ADD PERSON
    text,       \* nameTextField and the gift fields
    birthday,   \* birthdayTextField: the day it says, if it says one
    isBought,   \* isBoughtFirst, isBoughtSecond, isBoughtThird
    pressed,    \* ChangeBuyButton.isBought of each button
    titled      \* the buttons titled "bought"

formVars == <<person, text, birthday, isBought, pressed, titled>>
vars == <<people, screen, formVars>>

TypeOK ==
    /\ people \in [Person -> Record \cup {Nil}]
    /\ screen \in {"list", "detail", "crashed"}
    /\ person \in Person \cup {Nil}
    /\ text \in Text \cup {Nil}
    /\ birthday \in Day \cup {Nil}
    /\ isBought \subseteq Button
    /\ pressed \subseteq Button
    /\ titled \subseteq Button

Init ==
    /\ people = [p \in Person |-> Nil]
    /\ screen = "list"
    /\ person = Nil /\ text = Nil /\ birthday = Nil
    /\ isBought = {} /\ pressed = {} /\ titled = {}

-----------------------------------------------------------------------------
(* Opening and leaving the form                                            *)

\* viewDidLoad and updateViews: texts and titles come from the person; the
\* controller's flags and the buttons' own start out false.
openPerson(p) ==
    /\ screen = "list"
    /\ people[p] # Nil
    /\ screen' = "detail"
    /\ person' = p
    /\ text' = people[p].text
    /\ birthday' = people[p].birthday
    /\ titled' = people[p].bought
    /\ isBought' = {} /\ pressed' = {}
    /\ UNCHANGED people

openAdd ==
    /\ screen = "list"
    /\ screen' = "detail"
    /\ person' = Nil /\ text' = Nil /\ birthday' = Nil
    /\ isBought' = {} /\ pressed' = {} /\ titled' = {}
    /\ UNCHANGED people

goBack ==
    /\ screen = "detail"
    /\ screen' = "list"
    /\ UNCHANGED <<people, formVars>>

-----------------------------------------------------------------------------
(* Editing the form                                                        *)

typeText(t) ==
    /\ screen = "detail"
    /\ text' = t
    /\ UNCHANGED <<people, screen, person, birthday, isBought, pressed, titled>>

\* dateChanged sets the day the picker shows; but the picker stands in for
\* the keyboard only, so Cut, Paste and a keyboard of one's own leave in the
\* field any day, or a text that is none (Nil).
birthdayEdited(d) ==
    /\ screen = "detail"
    /\ birthday' = d
    /\ UNCHANGED <<people, screen, person, text, isBought, pressed, titled>>

Stored(flags) == [text |-> text, birthday |-> birthday, bought |-> flags]

\* save() with the controller's flags, going on to the screen next: nothing
\* without a name, a crash on a date that does not parse, else an update or,
\* as often as it is called without a person, a new one.
save(flags, next) ==
    \/ /\ text = Nil
       /\ screen' = next
       /\ UNCHANGED people
    \/ /\ text # Nil /\ birthday = Nil
       /\ screen' = "crashed"
       /\ UNCHANGED people
    \/ /\ text # Nil /\ birthday # Nil
       /\ screen' = next
       /\ \E p \in Person :
             /\ IF person = Nil THEN people[p] = Nil ELSE p = person
             /\ people' = [people EXCEPT ![p] = Stored(flags)]

Toggle(S, b) == IF b \in S THEN S \ {b} ELSE S \cup {b}

\* Bugs to catch: the button forgets that it was set; the title is set from
\* the flag as it was before the press.
buttonPressedAgain(b) ==
    /\ pressed' = pressed \cup {b}
    /\ titled' = IF b \in pressed THEN titled \ {b} ELSE titled \cup {b}

buttonTitledBefore(b) ==
    /\ pressed' = Toggle(pressed, b)
    /\ titled' = IF b \in pressed THEN titled \cup {b} ELSE titled \ {b}

\* ChangeBuyButton.buttonPressed: the title follows the button's own flag.
buttonPressed(b) ==
    /\ pressed' = Toggle(pressed, b)
    /\ titled' = IF b \in pressed THEN titled \ {b} ELSE titled \cup {b}

\* A touch reaches both targets: the button itself and firstBuyButton(_:).
buyButton(b) ==
    /\ screen = "detail"
    /\ buttonPressed(b)
    /\ isBought' = Toggle(isBought, b)
    /\ save(Toggle(isBought, b), "detail")
    /\ UNCHANGED <<person, text, birthday>>

\* save(_:) pops the screen whatever save() did.
saveAndPop ==
    /\ screen = "detail"
    /\ save(isBought, "list")
    /\ UNCHANGED formVars

-----------------------------------------------------------------------------
(* Behind the form                                                         *)

\* The merged import brings a person or changes one; the form is not told.
importPerson(p, r) ==
    /\ screen # "crashed"
    /\ people' = [people EXCEPT ![p] = r]
    /\ UNCHANGED <<screen, formVars>>

\* A swipe on the list.
deletePerson(p) ==
    /\ screen = "list"
    /\ people[p] # Nil
    /\ people' = [people EXCEPT ![p] = Nil]
    /\ UNCHANGED <<screen, formVars>>

\* The next launch begins on the list.
relaunch ==
    /\ screen = "crashed"
    /\ screen' = "list"
    /\ UNCHANGED <<people, formVars>>

Next ==
    \/ \E p \in Person : openPerson(p) \/ deletePerson(p)
    \/ openAdd
    \/ goBack
    \/ \E t \in Text \cup {Nil} : typeText(t)
    \/ \E d \in Day \cup {Nil} : birthdayEdited(d)
    \/ \E b \in Button : buyButton(b)
    \/ saveAndPop
    \/ \E p \in Person, r \in Record : importPerson(p, r)
    \/ relaunch

Spec == Init /\ [][Next]_vars

-----------------------------------------------------------------------------
(* Properties                                                              *)

\* The controller's flags and the buttons' own, toggled by two targets of one
\* touch and never assigned from each other, do not drift apart; and a button
\* whose own flag is set says "bought".
FlagsTogether ==
    screen = "detail" => (pressed = isBought /\ pressed \subseteq titled)

\* A press that saves an existing person tells the truth of what it stored:
\* its own title is the stored flag, and no gift is stored as bought under a
\* button that offers to buy it, though the title follows the button's own
\* flag and the store follows the controller's.
PressTellsTruth ==
    [][\A b \in Button :
          (buyButton(b) /\ person # Nil /\ people'[person] = Stored(isBought'))
              => ((b \in titled' <=> b \in people'[person].bought)
                  /\ people'[person].bought \subseteq titled')]_vars

\* The README's promise to keep track of what to give: a gift stored as bought
\* is not unmarked by saving the form or by the button of another gift.
BoughtStaysBought ==
    [][\A b \in Button, p \in Person :
          (people[p] # Nil /\ b \in people[p].bought
               /\ (saveAndPop \/ \E c \in Button \ {b} : buyButton(c)))
              => b \in people'[p].bought]_vars
=============================================================================
