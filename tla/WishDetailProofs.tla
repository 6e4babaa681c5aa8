-------------------------- MODULE WishDetailProofs --------------------------
(* Machine-checked theorems of WishDetail, for every set of people, texts,  *)
(* days and buttons.                                                        *)
EXTENDS WishDetail, TLAPS

FormInv == TypeOK /\ FlagsTogether

\* A press leaves both flags of the button equal if they were, and its title
\* tells them.
LEMMA PressTogether ==
    ASSUME TypeOK, pressed = isBought, pressed \subseteq titled,
           NEW b \in Button, buttonPressed(b), isBought' = Toggle(isBought, b)
    PROVE  /\ pressed' = isBought' /\ pressed' \subseteq titled'
           /\ pressed' \subseteq Button /\ titled' \subseteq Button
           /\ b \in titled' <=> b \in isBought'
  BY DEF TypeOK, buttonPressed, Toggle

\* What save() stores is a whole record; the screen goes on or the app ends.
LEMMA SaveType ==
    ASSUME TypeOK, NEW flags \in SUBSET Button, NEW next \in {"list", "detail"},
           save(flags, next)
    PROVE  /\ people' \in [Person -> Record \cup {Nil}]
           /\ screen' \in {next, "crashed"}
  <1>1. CASE text # Nil /\ birthday # Nil
    <2>1. Stored(flags) \in Record
      BY <1>1 DEF TypeOK, Stored, Record
    <2>2. QED
      BY <1>1, <2>1 DEF TypeOK, save
  <1>2. CASE ~(text # Nil /\ birthday # Nil)
    BY <1>2 DEF TypeOK, save
  <1>3. QED
    BY <1>1, <1>2

LEMMA InitFormInv == Init => FormInv
  BY DEF Init, FormInv, TypeOK, FlagsTogether

\* The form of a person opens with every flag of the screen down.
LEMMA OpenStep ==
    ASSUME FormInv, NEW p \in Person, openPerson(p)
    PROVE  FormInv'
  <1>1. people[p] \in Record
    BY DEF FormInv, TypeOK, openPerson
  <1>2. /\ people[p].text \in Text /\ people[p].birthday \in Day
        /\ people[p].bought \subseteq Button
    BY <1>1 DEF Record
  <1>3. QED
    BY <1>2, NilAssumption
       DEF FormInv, TypeOK, FlagsTogether, openPerson

LEMMA BuyStep ==
    ASSUME FormInv, NEW b \in Button, buyButton(b)
    PROVE  FormInv'
  <1>1. /\ TypeOK /\ pressed = isBought /\ pressed \subseteq titled
        /\ buttonPressed(b) /\ isBought' = Toggle(isBought, b)
        /\ save(Toggle(isBought, b), "detail")
        /\ screen = "detail" /\ UNCHANGED <<person, text, birthday>>
    BY DEF FormInv, FlagsTogether, buyButton
  <1>2. Toggle(isBought, b) \subseteq Button
    BY <1>1 DEF TypeOK, Toggle
  <1>3. people' \in [Person -> Record \cup {Nil}] /\ screen' \in {"detail", "crashed"}
    BY <1>1, <1>2, SaveType
  <1>4. /\ pressed' = isBought' /\ pressed' \subseteq titled'
        /\ pressed' \subseteq Button /\ titled' \subseteq Button
    BY <1>1, PressTogether
  <1>5. QED
    BY <1>1, <1>3, <1>4 DEF FormInv, TypeOK, FlagsTogether

LEMMA NextFormInv == FormInv /\ [Next]_vars => FormInv'
  <1> SUFFICES ASSUME FormInv, [Next]_vars PROVE FormInv'
    OBVIOUS
  <1>1. CASE \E p \in Person : openPerson(p)
    BY <1>1, OpenStep
  <1>2. CASE \E p \in Person : deletePerson(p)
    BY <1>2 DEF FormInv, TypeOK, FlagsTogether, deletePerson, formVars
  <1>3. CASE openAdd
    BY <1>3 DEF FormInv, TypeOK, FlagsTogether, openAdd
  <1>4. CASE goBack \/ relaunch
    BY <1>4 DEF FormInv, TypeOK, FlagsTogether, goBack, relaunch, formVars
  <1>5. CASE \E t \in Text \cup {Nil} : typeText(t)
    BY <1>5 DEF FormInv, TypeOK, FlagsTogether, typeText
  <1>6. CASE \E d \in Day \cup {Nil} : birthdayEdited(d)
    BY <1>6 DEF FormInv, TypeOK, FlagsTogether, birthdayEdited
  <1>7. CASE \E b \in Button : buyButton(b)
    BY <1>7, BuyStep
  <1>8. CASE saveAndPop
    <2>1. TypeOK /\ save(isBought, "list") /\ UNCHANGED formVars
      BY <1>8 DEF FormInv, saveAndPop
    <2>2. people' \in [Person -> Record \cup {Nil}] /\ screen' \in {"list", "crashed"}
      BY <2>1, SaveType DEF TypeOK
    <2>3. QED
      BY <2>1, <2>2 DEF FormInv, TypeOK, FlagsTogether, formVars
  <1>9. CASE \E p \in Person, r \in Record : importPerson(p, r)
    BY <1>9 DEF FormInv, TypeOK, FlagsTogether, importPerson, formVars
  <1>10. CASE UNCHANGED vars
    BY <1>10 DEF FormInv, TypeOK, FlagsTogether, vars, formVars
  <1>11. QED
    BY <1>1, <1>2, <1>3, <1>4, <1>5, <1>6, <1>7, <1>8, <1>9, <1>10 DEF Next

LEMMA FormInvariant == Spec => []FormInv
  <1>1. QED
    BY InitFormInv, NextFormInv, PTL DEF Spec

\* The controller's flags and the buttons' own never drift apart, however
\* many buttons there are and whatever save() does in between.
THEOREM FlagsStayTogether == Spec => []FlagsTogether
  <1>1. FormInv => FlagsTogether
    BY DEF FormInv
  <1>2. QED
    BY <1>1, FormInvariant, PTL

\* What PressTellsTruth asks of one step.
TruthfulPress ==
    \A b \in Button :
        (buyButton(b) /\ person # Nil /\ people'[person] = Stored(isBought'))
            => ((b \in titled' <=> b \in people'[person].bought)
                /\ people'[person].bought \subseteq titled')

\* A press that saves says of every gift on the form what it stored, however
\* often the buttons were pressed and saved before.
THEOREM PressesTellTruth == Spec => PressTellsTruth
  <1>1. ASSUME FormInv
        PROVE  TruthfulPress
    <2> SUFFICES ASSUME NEW b \in Button, buyButton(b),
                        people'[person] = Stored(isBought')
                 PROVE  /\ b \in titled' <=> b \in people'[person].bought
                        /\ people'[person].bought \subseteq titled'
      BY DEF TruthfulPress
    <2>1. /\ TypeOK /\ pressed = isBought /\ pressed \subseteq titled
          /\ buttonPressed(b) /\ isBought' = Toggle(isBought, b)
      BY <1>1 DEF FormInv, FlagsTogether, buyButton
    <2>2. isBought' \subseteq titled' /\ (b \in titled' <=> b \in isBought')
      BY <2>1, PressTogether
    <2>3. people'[person].bought = isBought'
      BY DEF Stored
    <2>4. QED
      BY <2>2, <2>3
  <1>2. FormInv => [TruthfulPress]_vars
    BY <1>1
  <1>3. Spec => [][TruthfulPress]_vars
    BY <1>2, FormInvariant, PTL
  <1>4. QED
    BY <1>3 DEF TruthfulPress, PressTellsTruth
=============================================================================
