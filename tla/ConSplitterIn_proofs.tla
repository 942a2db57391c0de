------------------------- MODULE ConSplitterIn_proofs -------------------------
(***************************************************************************)
(* The safety properties of ConSplitterIn, proved for any consoles, keys,  *)
(* functions and toggle states.                                            *)
(***************************************************************************)
EXTENDS ConSplitterIn, SequenceLemmas, FiniteSetTheorems

-----------------------------------------------------------------------------
(* The lists of consoles.                                                  *)

listVars == <<TextInList, TextInExList, opened, running>>

\* The lists name consoles that are held open, and none twice; a console that
\* is held open runs.
ListInv ==
    /\ TextInList \in Seq(Consoles) /\ Distinct(TextInList)
    /\ ToSet(TextInList) \subseteq opened
    /\ TextInExList \in Seq(Consoles) /\ Distinct(TextInExList)
    /\ ToSet(TextInExList) \subseteq ToSet(TextInList)
    /\ opened \subseteq running /\ running \subseteq Consoles

\* Which steps change the lists, and how.
LEMMA ListSteps ==
    ASSUME [Next]_vars
    PROVE  \/ UNCHANGED listVars
           \/ \E d \in Consoles :
                \/ ConsoleStarts(d) \/ ConsoleStops(d)
                \/ StartWithoutTextIn(d) \/ StartWithoutMemory(d)
                \/ StartRefused(d) \/ StartDone(d)
                \/ ConInDriverBindingStop(d)
  BY DEF Next, vars, lists, states, physical, signal, queues, notifies,
         listVars, Reads, LoopStep, KeyPressed, ToggleStateSyncKeyNotify,
         ReadSavedKeyStroke, ReadKeyStroke, ReadSavedKeyStrokeEx,
         ReadKeyStrokeEx, WaitForKey, RegisterKeyNotify, RegisterFails,
         UnregisterKeyNotify, Reset, ReInitializeOne, ResetEnds, SetState,
         SetStateOne, SetStateEnds

\* A console that is opened gets to the end of the lists.
LEMMA OpenFacts ==
    ASSUME ListInv, NEW d \in Consoles, d \in running \ opened
    PROVE  /\ opened \union {d} \subseteq running
           /\ Append(TextInList, d) \in Seq(Consoles)
           /\ Distinct(Append(TextInList, d))
           /\ ToSet(Append(TextInList, d)) = ToSet(TextInList) \union {d}
           /\ Append(TextInExList, d) \in Seq(Consoles)
           /\ Distinct(Append(TextInExList, d))
           /\ ToSet(Append(TextInExList, d)) = ToSet(TextInExList) \union {d}
  <1>1. /\ TextInList \in Seq(Consoles) /\ Distinct(TextInList)
        /\ TextInExList \in Seq(Consoles) /\ Distinct(TextInExList)
        /\ d \notin ToSet(TextInList) /\ d \notin ToSet(TextInExList)
        /\ opened \union {d} \subseteq running
    BY DEF ListInv
  <1>2. /\ Append(TextInList, d) \in Seq(Consoles)
        /\ ToSet(Append(TextInList, d)) = ToSet(TextInList) \union {d}
        /\ Append(TextInExList, d) \in Seq(Consoles)
        /\ ToSet(Append(TextInExList, d)) = ToSet(TextInExList) \union {d}
    BY <1>1, ToSetFacts
  <1>3. Distinct(Append(TextInList, d)) /\ Distinct(Append(TextInExList, d))
    BY <1>1, DistinctAppend
  <1> QED  BY <1>1, <1>2, <1>3

\* Every step keeps the lists in order.
LEMMA NextListInv == ListInv /\ [Next]_vars => ListInv'
  <1> SUFFICES ASSUME ListInv, [Next]_vars PROVE ListInv'
    OBVIOUS
  <1>1. CASE UNCHANGED listVars
    <2>1. /\ (TextInList \in Seq(Consoles) /\ Distinct(TextInList))'
          /\ (TextInExList \in Seq(Consoles) /\ Distinct(TextInExList))'
      BY <1>1 DEF listVars, ListInv, Distinct
    <2>2. /\ ToSet(TextInList)' = ToSet(TextInList)
          /\ ToSet(TextInExList)' = ToSet(TextInExList)
      BY <1>1 DEF listVars, ToSet
    <2> QED  BY <1>1, <2>1, <2>2 DEF listVars, ListInv
  <1>2. ASSUME NEW d \in Consoles, ConsoleStarts(d)
        PROVE  ListInv'
    <2>1. /\ running' = running \union {d}
          /\ UNCHANGED <<TextInList, TextInExList, opened>>
      BY <1>2 DEF ConsoleStarts, lists
    <2>2. opened' \subseteq running' /\ running' \subseteq Consoles
      BY <2>1 DEF ListInv
    <2>3. /\ TextInList' = TextInList /\ TextInExList' = TextInExList
          /\ opened' = opened
      BY <2>1
    <2>4. /\ (TextInList \in Seq(Consoles) /\ Distinct(TextInList))'
          /\ (TextInExList \in Seq(Consoles) /\ Distinct(TextInExList))'
      BY <2>3 DEF ListInv, Distinct
    <2>5. /\ (ToSet(TextInExList) \subseteq ToSet(TextInList))'
          /\ (ToSet(TextInList) \subseteq opened)'
      BY <2>3 DEF ListInv, ToSet
    <2> QED  BY <2>2, <2>4, <2>5 DEF ListInv
  <1>3. ASSUME NEW d \in Consoles, ConsoleStops(d)
        PROVE  ListInv'
    <2>1. /\ running' = running \ {d} /\ d \notin opened
          /\ UNCHANGED <<TextInList, TextInExList, opened>>
      BY <1>3 DEF ConsoleStops
    <2>2. opened' \subseteq running' /\ running' \subseteq Consoles
      BY <2>1 DEF ListInv
    <2>3. TextInList' = TextInList /\ TextInExList' = TextInExList
          /\ opened' = opened
      BY <2>1
    <2>4. /\ (TextInList \in Seq(Consoles) /\ Distinct(TextInList))'
          /\ (TextInExList \in Seq(Consoles) /\ Distinct(TextInExList))'
      BY <2>3 DEF ListInv, Distinct
    <2>5. /\ (ToSet(TextInExList) \subseteq ToSet(TextInList))'
          /\ (ToSet(TextInList) \subseteq opened)'
      BY <2>3 DEF ListInv, ToSet
    <2> QED  BY <2>2, <2>4, <2>5 DEF ListInv
  <1>4. ASSUME NEW d \in Consoles, StartWithoutTextIn(d)
        PROVE  ListInv'
    <2>1. /\ d \in running \ opened /\ opened' = opened \union {d}
          /\ UNCHANGED <<TextInList, TextInExList, running>>
      BY <1>4 DEF StartWithoutTextIn, Opens, physical
    <2>2. opened \subseteq opened' /\ opened' \subseteq running' /\ running' \subseteq Consoles
      BY <2>1 DEF ListInv
    <2>3. TextInList' = TextInList /\ TextInExList' = TextInExList
      BY <2>1
    <2>4. /\ (TextInList \in Seq(Consoles) /\ Distinct(TextInList))'
          /\ (TextInExList \in Seq(Consoles) /\ Distinct(TextInExList))'
      BY <2>3 DEF ListInv, Distinct
    <2>5. /\ (ToSet(TextInExList) \subseteq ToSet(TextInList))'
          /\ ToSet(TextInList)' \subseteq opened
      BY <2>3 DEF ListInv, ToSet
    <2> QED  BY <2>2, <2>4, <2>5 DEF ListInv
  <1>5. ASSUME NEW d \in Consoles, StartWithoutMemory(d) \/ StartRefused(d)
        PROVE  ListInv'
    <2>1. /\ d \in running \ opened /\ opened' = opened \union {d}
          /\ TextInList' = Append(TextInList, d)
          /\ UNCHANGED <<TextInExList, running>>
      BY <1>5 DEF StartWithoutMemory, StartRefused, Opens, TextInAddDevice,
                  physical
    <2>2. /\ TextInList' \in Seq(Consoles) /\ Distinct(TextInList')
          /\ ToSet(TextInList') = ToSet(TextInList) \union {d}
          /\ opened' \subseteq running
      BY <2>1, OpenFacts
    <2>3. (TextInList \in Seq(Consoles) /\ Distinct(TextInList))'
      BY <2>2 DEF Distinct
    <2>4. (TextInExList \in Seq(Consoles) /\ Distinct(TextInExList))'
      BY <2>1 DEF ListInv, Distinct
    <2>5. /\ ToSet(TextInList)' = ToSet(TextInList) \union {d}
          /\ ToSet(TextInExList)' = ToSet(TextInExList)
      BY <2>1, <2>2 DEF ToSet
    <2> QED  BY <2>1, <2>2, <2>3, <2>4, <2>5 DEF ListInv
  <1>6. ASSUME NEW d \in Consoles, StartDone(d)
        PROVE  ListInv'
    <2>1. /\ d \in running \ opened /\ opened' = opened \union {d}
          /\ TextInList' = Append(TextInList, d)
          /\ TextInExList' = Append(TextInExList, d)
          /\ UNCHANGED running
      BY <1>6 DEF StartDone, Opens, TextInAddDevice, physical
    <2>2. /\ TextInList' \in Seq(Consoles) /\ Distinct(TextInList')
          /\ ToSet(TextInList') = ToSet(TextInList) \union {d}
          /\ TextInExList' \in Seq(Consoles) /\ Distinct(TextInExList')
          /\ ToSet(TextInExList') = ToSet(TextInExList) \union {d}
          /\ opened' \subseteq running
      BY <2>1, OpenFacts
    <2>3. (TextInList \in Seq(Consoles) /\ Distinct(TextInList))'
      BY <2>2 DEF Distinct
    <2>4. (TextInExList \in Seq(Consoles) /\ Distinct(TextInExList))'
      BY <2>2 DEF Distinct
    <2>5. /\ ToSet(TextInList)' = ToSet(TextInList) \union {d}
          /\ ToSet(TextInExList)' = ToSet(TextInExList) \union {d}
      BY <2>2 DEF ToSet
    <2> QED  BY <2>1, <2>2, <2>3, <2>4, <2>5 DEF ListInv
  <1>7. ASSUME NEW d \in Consoles, ConInDriverBindingStop(d)
        PROVE  ListInv'
    <2>1. /\ d \in ToSet(TextInExList) /\ opened' = opened \ {d}
          /\ TextInList' = RemoveFirst(TextInList, d)
          /\ TextInExList' = RemoveFirst(TextInExList, d)
          /\ UNCHANGED running
      BY <1>7 DEF ConInDriverBindingStop, Deleted, physical
    <2>2. d \in ToSet(TextInList)
      BY <2>1 DEF ListInv
    <2>3. /\ TextInList \in Seq(Consoles) /\ Distinct(TextInList)
          /\ TextInExList \in Seq(Consoles) /\ Distinct(TextInExList)
      BY DEF ListInv
    <2>4. /\ TextInList' \in Seq(Consoles) /\ Distinct(TextInList')
          /\ ToSet(TextInList') = ToSet(TextInList) \ {d}
      BY <2>1, <2>2, <2>3, RemoveFirstFacts
    <2>5. /\ TextInExList' \in Seq(Consoles) /\ Distinct(TextInExList')
          /\ ToSet(TextInExList') = ToSet(TextInExList) \ {d}
      BY <2>1, <2>3, RemoveFirstFacts
    <2>6. (TextInList \in Seq(Consoles) /\ Distinct(TextInList))'
      BY <2>4 DEF Distinct
    <2>7. (TextInExList \in Seq(Consoles) /\ Distinct(TextInExList))'
      BY <2>5 DEF Distinct
    <2>8. /\ ToSet(TextInList)' = ToSet(TextInList) \ {d}
          /\ ToSet(TextInExList)' = ToSet(TextInExList) \ {d}
      BY <2>4, <2>5 DEF ToSet
    <2> QED  BY <2>1, <2>6, <2>7, <2>8 DEF ListInv
  <1> QED  BY <1>1, <1>2, <1>3, <1>4, <1>5, <1>6, <1>7, ListSteps

-----------------------------------------------------------------------------
(* The toggle states.                                                      *)

ResetSettings == [op : {"Reset"}, at : Nat \ {0}, ok : BOOLEAN]
SetSettings == [op : {"SetState"}, at : Nat \ {0}, to : Toggles,
                exported : BOOLEAN]

\* The loops that set states, with how far they are.
SettingOK ==
    \/ setting.op = "none"
    \/ setting \in ResetSettings
    \/ setting \in SetSettings

ToggleTypes ==
    /\ SettingOK
    /\ toggle \in [Consoles -> Toggles \union {Off}]
    /\ PhysicalKeyToggleState \in Toggles
    /\ VirtualKeyStateExported \in BOOLEAN
    /\ refused \in BOOLEAN /\ raced \in BOOLEAN

\* The consoles that come before place n have state t.
SetBefore(n, t) == \A i \in 1 .. Len(TextInExList) :
                      i < n => toggle[TextInExList[i]] = t

\* A reset gives all consoles that it has come to the state that the splitter
\* has now; SetState gives them the new one, unless a key overtook it.
LoopsAgree ==
    /\ setting.op = "Reset" =>
         /\ ~raced
         /\ setting.ok => SetBefore(setting.at, PhysicalKeyToggleState)
    /\ setting.op = "SetState" /\ ~raced => SetBefore(setting.at, setting.to)

\* All consoles have state t.
AllAgree(t) == \A i \in 1 .. Len(TextInExList) : toggle[TextInExList[i]] = t

IdleAgree == Idle /\ ~refused /\ ~raced => AllAgree(PhysicalKeyToggleState)

ToggleInv == ToggleTypes /\ LoopsAgree /\ IdleAgree

toggleVars == <<TextInExList, toggle, PhysicalKeyToggleState,
                VirtualKeyStateExported, setting, refused, raced>>

\* The turns of the loops.
LEMMA SettingFacts ==
    /\ \A s \in ResetSettings :
         /\ s.op = "Reset" /\ s.at \in Nat \ {0} /\ s.ok \in BOOLEAN
         /\ [s EXCEPT !.at = @ + 1] \in ResetSettings
         /\ [s EXCEPT !.at = @ + 1].at = s.at + 1
         /\ [s EXCEPT !.at = @ + 1].ok = s.ok
         /\ [op |-> "Reset", at |-> s.at + 1, ok |-> FALSE] \in ResetSettings
    /\ \A s \in SetSettings :
         /\ s.op = "SetState" /\ s.at \in Nat \ {0} /\ s.to \in Toggles
         /\ s.exported \in BOOLEAN
         /\ [s EXCEPT !.at = @ + 1] \in SetSettings
         /\ [s EXCEPT !.at = @ + 1].at = s.at + 1
         /\ [s EXCEPT !.at = @ + 1].to = s.to
  <1>1. ASSUME NEW s \in ResetSettings
        PROVE  /\ s.op = "Reset" /\ s.at \in Nat \ {0} /\ s.ok \in BOOLEAN
               /\ [s EXCEPT !.at = @ + 1] \in ResetSettings
               /\ [s EXCEPT !.at = @ + 1].at = s.at + 1
               /\ [s EXCEPT !.at = @ + 1].ok = s.ok
               /\ [op |-> "Reset", at |-> s.at + 1, ok |-> FALSE]
                     \in ResetSettings
    BY DEF ResetSettings
  <1>2. ASSUME NEW s \in SetSettings
        PROVE  /\ s.op = "SetState" /\ s.at \in Nat \ {0} /\ s.to \in Toggles
               /\ s.exported \in BOOLEAN
               /\ [s EXCEPT !.at = @ + 1] \in SetSettings
               /\ [s EXCEPT !.at = @ + 1].at = s.at + 1
               /\ [s EXCEPT !.at = @ + 1].to = s.to
    BY DEF SetSettings
  <1> QED  BY <1>1, <1>2

\* The state of a loop says what kind of record it is.
LEMMA SettingCases ==
    ASSUME SettingOK
    PROVE  /\ setting.op \in {"none", "Reset", "SetState"}
           /\ setting.op = "Reset" => setting \in ResetSettings
           /\ setting.op = "SetState" => setting \in SetSettings
  BY SettingFacts DEF SettingOK

\* Which steps have to do with toggle states.
LEMMA ToggleSteps ==
    ASSUME [Next]_vars
    PROVE  \/ UNCHANGED toggleVars
           \/ \E d \in Consoles :
                \/ ConsoleStops(d) \/ StartDone(d) \/ ConInDriverBindingStop(d)
                \/ \E t \in Toggles : ToggleStateSyncKeyNotify(d, t)
           \/ Reset \/ ReInitializeOne \/ ResetEnds
           \/ \E t \in Toggles, exported \in BOOLEAN : SetState(t, exported)
           \/ SetStateOne \/ SetStateEnds
  BY DEF Next, vars, lists, states, physical, signal, queues, notifies,
         toggleVars, Reads, KeyPressed, ConsoleStarts, StartWithoutTextIn,
         StartWithoutMemory, StartRefused,
         ReadSavedKeyStroke, ReadKeyStroke, ReadSavedKeyStrokeEx,
         ReadKeyStrokeEx, WaitForKey, RegisterKeyNotify, RegisterFails,
         UnregisterKeyNotify

\* The consoles of the list, by place.
LEMMA ExListFacts ==
    ASSUME ListInv
    PROVE  /\ TextInExList \in Seq(Consoles) /\ Len(TextInExList) \in Nat
           /\ \A i \in 1 .. Len(TextInExList) :
                /\ TextInExList[i] \in Consoles
                /\ TextInExList[i] \in ToSet(TextInExList)
           /\ \A i, j \in 1 .. Len(TextInExList) :
                TextInExList[i] = TextInExList[j] => i = j
           /\ \A e \in ToSet(TextInExList) :
                /\ e \in opened
                /\ \E i \in 1 .. Len(TextInExList) : TextInExList[i] = e
  <1>1. TextInExList \in Seq(Consoles) /\ Distinct(TextInExList)
    BY DEF ListInv
  <1>2. Len(TextInExList) \in Nat
    BY <1>1
  <1>3. \A e : e \in ToSet(TextInExList)
                 <=> \E i \in 1 .. Len(TextInExList) : TextInExList[i] = e
    BY <1>1, ToSetFacts
  <1>4. \A i \in 1 .. Len(TextInExList) : TextInExList[i] \in Consoles
    BY <1>1
  <1>5. \A e \in ToSet(TextInExList) : e \in opened
    BY DEF ListInv
  <1> QED  BY <1>1, <1>2, <1>3, <1>4, <1>5 DEF Distinct

\* Nothing but a console outside the list changes.
LEMMA OtherToggle ==
    ASSUME ListInv, ToggleInv, NEW d \in Consoles, d \notin opened,
           NEW t \in Toggles \union {Off},
           toggle' = [toggle EXCEPT ![d] = t],
           UNCHANGED <<TextInExList, PhysicalKeyToggleState,
                       VirtualKeyStateExported, setting, refused, raced>>
    PROVE  ToggleInv'
  <1>1. \A i \in 1 .. Len(TextInExList) :
          toggle'[TextInExList[i]] = toggle[TextInExList[i]]
    BY ExListFacts DEF ToggleInv, ToggleTypes
  <1>2. ToggleTypes'
    BY DEF ToggleInv, ToggleTypes, SettingOK
  <1>3. LoopsAgree'
    BY <1>1 DEF ToggleInv, LoopsAgree, SetBefore
  <1>4. IdleAgree'
    BY <1>1 DEF ToggleInv, IdleAgree, AllAgree, Idle
  <1> QED  BY <1>2, <1>3, <1>4 DEF ToggleInv

\* A console comes.
LEMMA StartDoneToggles ==
    ASSUME ListInv, ToggleInv, NEW d \in Consoles, StartDone(d)
    PROVE  ToggleInv'
  <1>1. /\ d \in running \ opened /\ setting.op = "none"
        /\ TextInExList' = Append(TextInExList, d)
        /\ \/ /\ toggle' = [toggle EXCEPT ![d] = PhysicalKeyToggleState]
              /\ refused' = refused
           \/ refused' = TRUE /\ toggle' = toggle
        /\ UNCHANGED <<PhysicalKeyToggleState, VirtualKeyStateExported,
                       setting, raced>>
    BY DEF StartDone, Opens, Ready, Idle
  <1>2. ToggleTypes'
    BY <1>1 DEF ToggleInv, ToggleTypes, SettingOK
  <1>3. LoopsAgree'
    BY <1>1 DEF LoopsAgree
  <1>4. ASSUME Idle', ~refused', ~raced' PROVE AllAgree(PhysicalKeyToggleState)'
    <2>1. /\ toggle' = [toggle EXCEPT ![d] = PhysicalKeyToggleState]
          /\ AllAgree(PhysicalKeyToggleState)
      BY <1>1, <1>4 DEF ToggleInv, IdleAgree, Idle
    <2>2. /\ Len(TextInExList') = Len(TextInExList) + 1
          /\ TextInExList'[Len(TextInExList) + 1] = d
          /\ \A i \in 1 .. Len(TextInExList) : TextInExList'[i] = TextInExList[i]
      BY <1>1, ExListFacts
    <2>3. ASSUME NEW i \in 1 .. Len(TextInExList')
          PROVE  toggle'[TextInExList'[i]] = PhysicalKeyToggleState
      <3>1. CASE i = Len(TextInExList) + 1
        BY <2>1, <2>2, <3>1 DEF ToggleInv, ToggleTypes
      <3>2. CASE i \in 1 .. Len(TextInExList)
        <4>1. toggle[TextInExList[i]] = PhysicalKeyToggleState
          BY <2>1, <3>2 DEF AllAgree
        <4>2. TextInExList[i] \in Consoles /\ TextInExList[i] # d
          BY <1>1, <3>2, ExListFacts
        <4> QED  BY <2>1, <2>2, <3>2, <4>1, <4>2 DEF ToggleInv, ToggleTypes
      <3> QED  BY <2>2, <3>1, <3>2, ExListFacts
    <2> QED  BY <1>1, <2>3 DEF AllAgree
  <1> QED  BY <1>2, <1>3, <1>4 DEF ToggleInv, IdleAgree

\* A console goes.
LEMMA StopToggles ==
    ASSUME ListInv, ToggleInv, NEW d \in Consoles, ConInDriverBindingStop(d)
    PROVE  ToggleInv'
  <1>1. /\ setting.op = "none" /\ d \in ToSet(TextInExList)
        /\ TextInExList' = RemoveFirst(TextInExList, d)
        /\ UNCHANGED <<toggle, PhysicalKeyToggleState, VirtualKeyStateExported,
                       setting, refused, raced>>
    BY DEF ConInDriverBindingStop, Ready, Idle, Deleted, states
  <1>2. ToggleTypes'
    BY <1>1 DEF ToggleInv, ToggleTypes, SettingOK
  <1>3. LoopsAgree'
    BY <1>1 DEF LoopsAgree
  <1>4. ASSUME AllAgree(PhysicalKeyToggleState)
        PROVE  AllAgree(PhysicalKeyToggleState)'
    <2>1. TextInExList \in Seq(Consoles) /\ Distinct(TextInExList)
      BY DEF ListInv
    <2>2. /\ TextInExList' \in Seq(Consoles)
          /\ ToSet(TextInExList') = ToSet(TextInExList) \ {d}
      BY <1>1, <2>1, RemoveFirstFacts
    <2>3. ASSUME NEW i \in 1 .. Len(TextInExList')
          PROVE  toggle[TextInExList'[i]] = PhysicalKeyToggleState
      <3>1. TextInExList'[i] \in ToSet(TextInExList')
        BY <2>2, ToSetFacts
      <3>2. PICK j \in 1 .. Len(TextInExList) : TextInExList[j] = TextInExList'[i]
        BY <2>2, <3>1, ExListFacts
      <3> QED  BY <1>4, <3>2 DEF AllAgree
    <2> QED  BY <1>1, <2>3 DEF AllAgree
  <1> QED  BY <1>1, <1>2, <1>3, <1>4 DEF ToggleInv, IdleAgree, Idle

\* A key that toggles is pressed, and its state is known.
LEMMA KnownToggle ==
    ASSUME ListInv, ToggleInv, NEW d \in Consoles,
           toggle' = [toggle EXCEPT ![d] = PhysicalKeyToggleState],
           raced' = (raced \/ setting.op = "SetState"),
           UNCHANGED <<TextInExList, PhysicalKeyToggleState,
                       VirtualKeyStateExported, setting, refused>>
    PROVE  ToggleInv'
  <1>1. \A i \in 1 .. Len(TextInExList) :
          \/ toggle'[TextInExList[i]] = toggle[TextInExList[i]]
          \/ toggle'[TextInExList[i]] = PhysicalKeyToggleState
    BY ExListFacts DEF ToggleInv, ToggleTypes
  <1>2. ToggleTypes'
    <2>1. toggle' \in [Consoles -> Toggles \union {Off}]
      BY DEF ToggleInv, ToggleTypes
    <2>2. raced' \in BOOLEAN
      OBVIOUS
    <2> QED  BY <2>1, <2>2 DEF ToggleInv, ToggleTypes, SettingOK
  <1>3. LoopsAgree'
    <2>1. ~(setting.op = "Reset" /\ setting.op = "SetState")
      OBVIOUS
    <2> QED  BY <1>1, <2>1 DEF ToggleInv, LoopsAgree, SetBefore
  <1>4. IdleAgree'
    BY <1>1 DEF ToggleInv, IdleAgree, AllAgree, Idle
  <1> QED  BY <1>2, <1>3, <1>4 DEF ToggleInv

\* It is new: the consoles that do not refuse it get it.
LEMMA NewToggle ==
    ASSUME ListInv, ToggleInv, NEW d \in Consoles, NEW t \in Toggles,
           NEW refusing \in SUBSET (ToSet(TextInExList) \ {d}),
           toggle' = [c \in Consoles |->
                        IF c = d \/ c \in ToSet(TextInExList) \ refusing
                        THEN t ELSE toggle[c]],
           PhysicalKeyToggleState' = t,
           refused' = (refusing # {}),
           raced' = (setting.op = "SetState"),
           setting' = IF setting.op = "Reset"
                      THEN [setting EXCEPT !.ok = @ /\ refusing = {}]
                      ELSE setting,
           UNCHANGED <<TextInExList, VirtualKeyStateExported>>
    PROVE  ToggleInv'
  <1>1. ASSUME refusing = {}
        PROVE  \A i \in 1 .. Len(TextInExList) : toggle'[TextInExList[i]] = t
    BY <1>1, ExListFacts
  <1>2. /\ setting.op = "Reset" =>
             /\ setting' \in ResetSettings
             /\ setting'.op = "Reset"
             /\ setting'.ok => refusing = {}
        /\ setting.op # "Reset" => setting' = setting
    <2>1. ASSUME setting.op = "Reset"
          PROVE  setting' \in ResetSettings /\ (setting'.ok => refusing = {})
      <3>1. setting \in ResetSettings
        BY <2>1, SettingCases DEF ToggleInv, ToggleTypes
      <3>2. setting' = [setting EXCEPT !.ok = setting.ok /\ refusing = {}]
        BY <2>1
      <3> QED  BY <3>1, <3>2, Zenon DEF ResetSettings
    <2> QED  BY <2>1, SettingFacts
  <1>3. ToggleTypes'
    <2>1. toggle' \in [Consoles -> Toggles \union {Off}]
      BY DEF ToggleInv, ToggleTypes
    <2>2. SettingOK'
      BY <1>2 DEF SettingOK, ToggleInv, ToggleTypes
    <2>3. refused' \in BOOLEAN /\ raced' \in BOOLEAN
      OBVIOUS
    <2> QED  BY <2>1, <2>2, <2>3 DEF ToggleInv, ToggleTypes
  <1>4. LoopsAgree'
    <2>1. CASE setting.op = "Reset"
      <3>1. setting'.op = "Reset" /\ ~raced'
        BY <1>2, <2>1
      <3>2. setting'.ok => SetBefore(setting.at, PhysicalKeyToggleState)'
        BY <1>1, <1>2, <2>1 DEF SetBefore
      <3> QED  BY <3>1, <3>2 DEF LoopsAgree
    <2>2. CASE setting.op # "Reset"
      BY <1>2, <2>2 DEF LoopsAgree
    <2> QED  BY <2>1, <2>2
  <1>5. IdleAgree'
    BY <1>1 DEF IdleAgree, AllAgree
  <1> QED  BY <1>3, <1>4, <1>5 DEF ToggleInv

LEMMA SyncToggles ==
    ASSUME ListInv, ToggleInv, NEW d \in Consoles, NEW t \in Toggles,
           ToggleStateSyncKeyNotify(d, t)
    PROVE  ToggleInv'
  <1>1. UNCHANGED <<TextInExList, VirtualKeyStateExported>>
    BY DEF ToggleStateSyncKeyNotify, lists
  <1>2. CASE t = PhysicalKeyToggleState
    <2>1. /\ toggle' = [toggle EXCEPT ![d] = PhysicalKeyToggleState]
          /\ raced' = (raced \/ setting.op = "SetState")
          /\ UNCHANGED <<PhysicalKeyToggleState, refused, setting>>
      BY <1>2 DEF ToggleStateSyncKeyNotify
    <2> QED  BY <1>1, <2>1, KnownToggle
  <1>3. CASE t # PhysicalKeyToggleState
    <2>1. PICK refusing \in SUBSET (ToSet(TextInExList) \ {d}) :
            /\ toggle' = [c \in Consoles |->
                            IF c = d \/ c \in ToSet(TextInExList) \ refusing
                            THEN t ELSE toggle[c]]
            /\ PhysicalKeyToggleState' = t
            /\ refused' = (refusing # {})
            /\ raced' = (setting.op = "SetState")
            /\ setting' = IF setting.op = "Reset"
                          THEN [setting EXCEPT !.ok = @ /\ refusing = {}]
                          ELSE setting
      BY <1>3 DEF ToggleStateSyncKeyNotify
    <2> QED  BY <1>1, <2>1, NewToggle
  <1> QED  BY <1>2, <1>3

\* A reset of all consoles starts the loop, a reset that fails does not.
LEMMA ResetToggles ==
    ASSUME ListInv, ToggleInv, Reset
    PROVE  ToggleInv'
  <1>1. PICK list \in {TextInList, TextInExList} :
          \E failed \in SUBSET ToSet(list) :
            LET done == ToSet(list) \ failed
            IN  /\ toggle' = [d \in Consoles |-> IF d \in done THEN Off
                                                 ELSE toggle[d]]
                /\ \/ /\ PhysicalKeyToggleState' = Exposed
                      /\ VirtualKeyStateExported' = FALSE
                      /\ setting' = [op |-> "Reset", at |-> 1, ok |-> TRUE]
                      /\ raced' = FALSE
                      /\ UNCHANGED refused
                   \/ /\ refused' = (refused \/ done # {})
                      /\ UNCHANGED <<PhysicalKeyToggleState, setting, raced,
                                     VirtualKeyStateExported>>
    BY DEF Reset
  <1>2. PICK failed \in SUBSET ToSet(list) :
          LET done == ToSet(list) \ failed
          IN  /\ toggle' = [d \in Consoles |-> IF d \in done THEN Off
                                               ELSE toggle[d]]
              /\ \/ /\ PhysicalKeyToggleState' = Exposed
                    /\ VirtualKeyStateExported' = FALSE
                    /\ setting' = [op |-> "Reset", at |-> 1, ok |-> TRUE]
                    /\ raced' = FALSE
                    /\ UNCHANGED refused
                 \/ /\ refused' = (refused \/ done # {})
                    /\ UNCHANGED <<PhysicalKeyToggleState, setting, raced,
                                   VirtualKeyStateExported>>
    BY <1>1
  <1> DEFINE done == ToSet(list) \ failed
  <1>3. toggle' = [d \in Consoles |-> IF d \in done THEN Off ELSE toggle[d]]
    BY <1>2
  <1>4. TextInExList' = TextInExList /\ setting.op = "none"
    BY DEF Reset, lists, Ready, Idle
  <1>5. toggle' \in [Consoles -> Toggles \union {Off}]
    BY <1>3 DEF ToggleInv, ToggleTypes
  <1>6. CASE /\ PhysicalKeyToggleState' = Exposed
             /\ VirtualKeyStateExported' = FALSE
             /\ setting' = [op |-> "Reset", at |-> 1, ok |-> TRUE]
             /\ raced' = FALSE
             /\ UNCHANGED refused
    <2>1. /\ setting' \in ResetSettings /\ setting'.op = "Reset"
          /\ setting'.at = 1
      BY <1>6 DEF ResetSettings
    <2>2. ToggleTypes'
      BY <1>5, <1>6, <2>1, SplitterAssumption
         DEF ToggleInv, ToggleTypes, SettingOK
    <2>3. LoopsAgree'
      BY <1>6, <2>1 DEF LoopsAgree, SetBefore
    <2>4. IdleAgree'
      BY <2>1 DEF IdleAgree, Idle
    <2> QED  BY <2>2, <2>3, <2>4 DEF ToggleInv
  <1>7. CASE /\ refused' = (refused \/ done # {})
             /\ UNCHANGED <<PhysicalKeyToggleState, setting, raced,
                            VirtualKeyStateExported>>
    <2>1. ToggleTypes'
      BY <1>5, <1>7 DEF ToggleInv, ToggleTypes, SettingOK
    <2>2. LoopsAgree'
      BY <1>4, <1>7 DEF LoopsAgree
    <2>3. ASSUME ~refused' PROVE ~refused /\ toggle' = toggle
      BY <1>3, <1>7, <2>3 DEF ToggleInv, ToggleTypes
    <2>4. IdleAgree'
      BY <1>4, <1>7, <2>3 DEF ToggleInv, IdleAgree, AllAgree, Idle
    <2> QED  BY <2>1, <2>2, <2>4 DEF ToggleInv
  <1> QED  BY <1>2, <1>6, <1>7

\* The next console gets state t.
LEMMA SetNext ==
    ASSUME ListInv, ToggleInv, NEW t \in Toggles,
           setting.at \in Nat, setting.at <= NumberOfExConsoles,
           setting.at >= 1,
           toggle' = [toggle EXCEPT ![TextInExList[setting.at]] = t],
           SetBefore(setting.at, t)
    PROVE  /\ toggle' \in [Consoles -> Toggles \union {Off}]
           /\ \A i \in 1 .. Len(TextInExList) :
                i < setting.at + 1 => toggle'[TextInExList[i]] = t
  <1>1. setting.at \in 1 .. Len(TextInExList)
    BY ExListFacts DEF NumberOfExConsoles
  <1>2. TextInExList[setting.at] \in Consoles
    BY <1>1, ExListFacts
  <1>3. toggle \in [Consoles -> Toggles \union {Off}]
    BY DEF ToggleInv, ToggleTypes
  <1>4. ASSUME NEW i \in 1 .. Len(TextInExList), i < setting.at + 1
        PROVE  toggle'[TextInExList[i]] = t
    <2>1. TextInExList[i] \in Consoles
      BY ExListFacts
    <2>2. CASE i = setting.at
      BY <1>2, <1>3, <2>2
    <2>3. CASE i < setting.at
      <3>1. toggle[TextInExList[i]] = t
        BY <2>3 DEF SetBefore
      <3> QED  BY <1>2, <1>3, <2>1, <3>1
    <2> QED  BY <1>4, <2>2, <2>3
  <1> QED  BY <1>2, <1>3, <1>4

LEMMA ReInitializeToggles ==
    ASSUME ListInv, ToggleInv, ReInitializeOne
    PROVE  ToggleInv'
  <1>1. /\ setting.op = "Reset" /\ setting.at <= NumberOfExConsoles
        /\ UNCHANGED <<TextInExList, PhysicalKeyToggleState,
                       VirtualKeyStateExported, refused, raced>>
        /\ \/ /\ toggle' = [toggle EXCEPT ![TextInExList[setting.at]] =
                              PhysicalKeyToggleState]
              /\ setting' = [setting EXCEPT !.at = @ + 1]
           \/ /\ setting' = [op |-> "Reset", at |-> setting.at + 1, ok |-> FALSE]
              /\ toggle' = toggle
    BY DEF ReInitializeOne, InLoop, LoopStep, lists
  <1>2. /\ setting \in ResetSettings
        /\ setting.at \in Nat \ {0} /\ PhysicalKeyToggleState \in Toggles
        /\ ~raced
    BY <1>1, SettingCases, SettingFacts DEF ToggleInv, ToggleTypes, LoopsAgree
  <1>3. CASE /\ toggle' = [toggle EXCEPT ![TextInExList[setting.at]] =
                             PhysicalKeyToggleState]
             /\ setting' = [setting EXCEPT !.at = @ + 1]
    <2>1. /\ setting' \in ResetSettings /\ setting'.op = "Reset"
          /\ setting'.at = setting.at + 1 /\ setting'.ok = setting.ok
      BY <1>2, <1>3, SettingFacts
    <2>2. ASSUME setting.ok
          PROVE  SetBefore(setting.at, PhysicalKeyToggleState)'
      <3>1. SetBefore(setting.at, PhysicalKeyToggleState)
        BY <1>1, <2>2 DEF ToggleInv, LoopsAgree
      <3>2. \A i \in 1 .. Len(TextInExList) :
              i < setting.at + 1
                => toggle'[TextInExList[i]] = PhysicalKeyToggleState
        <4>1. /\ setting.at \in Nat /\ setting.at >= 1
              /\ setting.at <= NumberOfExConsoles
              /\ PhysicalKeyToggleState \in Toggles
          BY <1>1, <1>2
        <4>2. toggle' = [toggle EXCEPT ![TextInExList[setting.at]] = PhysicalKeyToggleState]
          BY <1>3
        <4> QED  BY <3>1, <4>1, <4>2, SetNext, Zenon
      <3> QED  BY <1>1, <2>1, <3>2 DEF SetBefore
    <2>3. toggle' \in [Consoles -> Toggles \union {Off}]
      BY <1>2, <1>3 DEF ToggleInv, ToggleTypes
    <2>4. ToggleTypes'
      BY <1>1, <2>1, <2>3 DEF ToggleInv, ToggleTypes, SettingOK
    <2>5. LoopsAgree'
      BY <1>1, <1>2, <2>1, <2>2 DEF LoopsAgree
    <2>6. IdleAgree'
      BY <2>1 DEF IdleAgree, Idle
    <2> QED  BY <2>4, <2>5, <2>6 DEF ToggleInv
  <1>4. CASE /\ setting' = [op |-> "Reset", at |-> setting.at + 1, ok |-> FALSE]
             /\ toggle' = toggle
    <2>1. /\ setting' \in ResetSettings /\ setting'.op = "Reset"
          /\ ~setting'.ok
      BY <1>2, <1>4, SettingFacts
    <2>2. ToggleTypes'
      BY <1>1, <1>4, <2>1 DEF ToggleInv, ToggleTypes, SettingOK
    <2>3. LoopsAgree' /\ IdleAgree'
      BY <1>1, <1>2, <2>1 DEF LoopsAgree, IdleAgree, Idle
    <2> QED  BY <2>2, <2>3 DEF ToggleInv
  <1> QED  BY <1>1, <1>3, <1>4

\* At the end of the loop every place lies before the one that was next.
LEMMA AllBefore ==
    ASSUME ListInv, NEW t, setting.at \in Nat,
           setting.at > NumberOfExConsoles, SetBefore(setting.at, t)
    PROVE  AllAgree(t)
  <1>1. \A i \in 1 .. Len(TextInExList) : i < setting.at
    BY ExListFacts DEF NumberOfExConsoles
  <1> QED  BY <1>1 DEF SetBefore, AllAgree

LEMMA ResetEndsToggles ==
    ASSUME ListInv, ToggleInv, ResetEnds
    PROVE  ToggleInv'
  <1>1. /\ setting.op = "Reset" /\ setting.at > NumberOfExConsoles
        /\ refused' = ~setting.ok /\ setting' = [op |-> "none"]
        /\ UNCHANGED <<TextInExList, PhysicalKeyToggleState,
                       VirtualKeyStateExported, toggle, raced>>
    BY DEF ResetEnds, LoopEnds, LoopStep, lists
  <1>2. setting \in ResetSettings /\ setting.at \in Nat
    BY <1>1, SettingCases, SettingFacts DEF ToggleInv, ToggleTypes
  <1>3. setting'.op = "none"
    BY <1>1
  <1>4. ToggleTypes'
    BY <1>1, <1>3 DEF ToggleInv, ToggleTypes, SettingOK
  <1>5. LoopsAgree'
    BY <1>3 DEF LoopsAgree
  <1>6. ASSUME ~refused' PROVE AllAgree(PhysicalKeyToggleState)
    <2>1. setting.ok
      BY <1>1, <1>6
    <2>2. SetBefore(setting.at, PhysicalKeyToggleState)
      BY <1>1, <2>1 DEF ToggleInv, LoopsAgree
    <2> QED  BY <1>1, <1>2, <2>2, AllBefore
  <1>7. IdleAgree'
    BY <1>1, <1>6 DEF IdleAgree, AllAgree
  <1> QED  BY <1>4, <1>5, <1>7 DEF ToggleInv

LEMMA SetStateToggles ==
    ASSUME ListInv, ToggleInv,
           NEW t \in Toggles, NEW exported \in BOOLEAN, SetState(t, exported)
    PROVE  ToggleInv'
  <1>1. /\ setting' = [op |-> "SetState", at |-> 1, to |-> t,
                       exported |-> exported]
        /\ raced' = FALSE
        /\ UNCHANGED <<TextInExList, PhysicalKeyToggleState,
                       VirtualKeyStateExported, toggle, refused>>
    BY DEF SetState, lists
  <1>2. /\ setting' \in SetSettings /\ setting'.op = "SetState"
        /\ setting'.at = 1
    BY <1>1 DEF SetSettings
  <1>3. ToggleTypes'
    BY <1>1, <1>2 DEF ToggleInv, ToggleTypes, SettingOK
  <1>4. LoopsAgree' /\ IdleAgree'
    BY <1>1, <1>2 DEF LoopsAgree, IdleAgree, Idle, SetBefore
  <1> QED  BY <1>3, <1>4 DEF ToggleInv

LEMMA SetStateOneToggles ==
    ASSUME ListInv, ToggleInv, SetStateOne
    PROVE  ToggleInv'
  <1>1. /\ setting.op = "SetState" /\ setting.at <= NumberOfExConsoles
        /\ UNCHANGED <<TextInExList, PhysicalKeyToggleState,
                       VirtualKeyStateExported, raced>>
        /\ \/ /\ toggle' = [toggle EXCEPT ![TextInExList[setting.at]] =
                              setting.to]
              /\ setting' = [setting EXCEPT !.at = @ + 1]
              /\ refused' = refused
           \/ /\ setting' = [op |-> "none"]
              /\ refused' = TRUE
              /\ toggle' = toggle
    BY DEF SetStateOne, InLoop, LoopStep, lists
  <1>2. /\ setting \in SetSettings
        /\ setting.at \in Nat \ {0} /\ setting.to \in Toggles
    BY <1>1, SettingCases, SettingFacts DEF ToggleInv, ToggleTypes
  <1>3. CASE /\ toggle' = [toggle EXCEPT ![TextInExList[setting.at]] =
                             setting.to]
             /\ setting' = [setting EXCEPT !.at = @ + 1]
             /\ refused' = refused
    <2>1. /\ setting' \in SetSettings /\ setting'.op = "SetState"
          /\ setting'.at = setting.at + 1 /\ setting'.to = setting.to
      BY <1>2, <1>3, SettingFacts
    <2>2. ASSUME ~raced
          PROVE  SetBefore(setting.at, setting.to)'
      <3>1. SetBefore(setting.at, setting.to)
        BY <1>1, <2>2 DEF ToggleInv, LoopsAgree
      <3>2. \A i \in 1 .. Len(TextInExList) :
              i < setting.at + 1 => toggle'[TextInExList[i]] = setting.to
        <4>1. /\ setting.at \in Nat /\ setting.at >= 1
              /\ setting.at <= NumberOfExConsoles
              /\ setting.to \in Toggles
          BY <1>1, <1>2
        <4>2. toggle' = [toggle EXCEPT ![TextInExList[setting.at]] = setting.to]
          BY <1>3
        <4> QED  BY <3>1, <4>1, <4>2, SetNext, Zenon
      <3> QED  BY <1>1, <2>1, <3>2 DEF SetBefore
    <2>3. toggle' \in [Consoles -> Toggles \union {Off}]
      BY <1>2, <1>3 DEF ToggleInv, ToggleTypes
    <2>4. ToggleTypes'
      BY <1>1, <1>3, <2>1, <2>3 DEF ToggleInv, ToggleTypes, SettingOK
    <2>5. LoopsAgree' /\ IdleAgree'
      BY <1>1, <2>1, <2>2 DEF LoopsAgree, IdleAgree, Idle
    <2> QED  BY <2>4, <2>5 DEF ToggleInv
  <1>4. CASE /\ setting' = [op |-> "none"]
             /\ refused' = TRUE
             /\ toggle' = toggle
    <2>1. setting'.op = "none"
      BY <1>4
    <2>2. ToggleTypes'
      BY <1>1, <1>4, <2>1 DEF ToggleInv, ToggleTypes, SettingOK
    <2>3. LoopsAgree' /\ IdleAgree'
      BY <1>4, <2>1 DEF LoopsAgree, IdleAgree
    <2> QED  BY <2>2, <2>3 DEF ToggleInv
  <1> QED  BY <1>1, <1>3, <1>4

LEMMA SetStateEndsToggles ==
    ASSUME ListInv, ToggleInv, SetStateEnds
    PROVE  ToggleInv'
  <1>1. /\ setting.op = "SetState" /\ setting.at > NumberOfExConsoles
        /\ PhysicalKeyToggleState' = setting.to
        /\ VirtualKeyStateExported' = setting.exported
        /\ refused' = FALSE /\ setting' = [op |-> "none"]
        /\ UNCHANGED <<TextInExList, toggle, raced>>
    BY DEF SetStateEnds, LoopEnds, LoopStep, lists
  <1>2. /\ setting \in SetSettings /\ setting.at \in Nat
        /\ setting.to \in Toggles /\ setting.exported \in BOOLEAN
    BY <1>1, SettingCases, SettingFacts DEF ToggleInv, ToggleTypes
  <1>3. setting'.op = "none"
    BY <1>1
  <1>4. ToggleTypes'
    BY <1>1, <1>2, <1>3 DEF ToggleInv, ToggleTypes, SettingOK
  <1>5. LoopsAgree'
    BY <1>3 DEF LoopsAgree
  <1>6. ASSUME ~raced PROVE AllAgree(setting.to)
    <2>1. SetBefore(setting.at, setting.to)
      BY <1>1, <1>6 DEF ToggleInv, LoopsAgree
    <2> QED  BY <1>1, <1>2, <2>1, AllBefore
  <1>7. IdleAgree'
    BY <1>1, <1>6 DEF IdleAgree, AllAgree
  <1> QED  BY <1>4, <1>5, <1>7 DEF ToggleInv

\* Every step keeps the invariant of the toggle states.
LEMMA NextToggleInv == ListInv /\ ToggleInv /\ [Next]_vars => ToggleInv'
  <1> SUFFICES ASSUME ListInv, ToggleInv, [Next]_vars PROVE ToggleInv'
    OBVIOUS
  <1>1. CASE UNCHANGED toggleVars
    BY <1>1 DEF toggleVars, ToggleInv, ToggleTypes, SettingOK, LoopsAgree,
                SetBefore, IdleAgree, AllAgree, Idle
  <1>2. ASSUME NEW d \in Consoles, ConsoleStops(d)
        PROVE  ToggleInv'
    <2>1. /\ d \notin opened /\ toggle' = [toggle EXCEPT ![d] = Off]
          /\ UNCHANGED <<TextInExList, PhysicalKeyToggleState,
                         VirtualKeyStateExported, setting, refused, raced>>
      BY <1>2 DEF ConsoleStops
    <2> QED  BY <2>1, OtherToggle
  <1> QED  BY <1>1, <1>2, ToggleSteps, StartDoneToggles, StopToggles,
              SyncToggles, ResetToggles, ReInitializeToggles,
              ResetEndsToggles, SetStateToggles, SetStateOneToggles,
              SetStateEndsToggles

LEMMA InitLists == Init => ListInv /\ ToggleInv
  <1> SUFFICES ASSUME Init PROVE ListInv /\ ToggleInv
    OBVIOUS
  <1>1. ListInv
    BY DEF Init, ListInv, Distinct, ToSet
  <1>2. setting.op = "none" /\ TextInExList = << >>
    BY DEF Init
  <1>3. ToggleTypes
    BY <1>2, SplitterAssumption DEF Init, ToggleTypes, SettingOK
  <1>4. LoopsAgree /\ IdleAgree
    BY <1>2 DEF LoopsAgree, IdleAgree, AllAgree
  <1> QED  BY <1>1, <1>3, <1>4 DEF ToggleInv

THEOREM ListsInductive == Spec => [](ListInv /\ ToggleInv)
  <1>1. ListInv /\ ToggleInv /\ [Next]_vars => (ListInv /\ ToggleInv)'
    BY NextListInv, NextToggleInv
  <1> QED  BY <1>1, InitLists, PTL DEF Spec

\* TogglesAgree, for any number of consoles and toggle states.
THEOREM TogglesFollow == Spec => []TogglesAgree
  <1>1. ListInv /\ ToggleInv => TogglesAgree
    <2> SUFFICES ASSUME ListInv, ToggleInv, Idle, ~refused, ~raced,
                        NEW d \in ToSet(TextInExList)
                 PROVE  toggle[d] = PhysicalKeyToggleState
      BY DEF TogglesAgree
    <2>1. AllAgree(PhysicalKeyToggleState)
      BY DEF ToggleInv, IdleAgree
    <2> QED  BY <2>1, ExListFacts DEF AllAgree
  <1> QED  BY <1>1, ListsInductive, PTL

-----------------------------------------------------------------------------
(* The keys.                                                               *)

\* r is what is left of q without its first n keys.
Without(r, q, n) ==
    /\ n \in 0 .. Len(q)
    /\ r \in Seq(Key) /\ Len(r) = Len(q) - n
    /\ \A i \in 1 .. (Len(q) - n) : r[i] = q[n + i]

IsRest(r, q) == \E n \in 0 .. Len(q) : Without(r, q, n)

\* The numbers go up.
Ascending(q) == \A i, j \in 1 .. Len(q) : i < j => q[i].seq < q[j].seq

LEMMA KeyFacts ==
    /\ \A k \in Key : /\ k.from \in Consoles /\ k.seq \in Nat
                      /\ k.partial \in BOOLEAN /\ k # NoKey
    /\ \A d \in Consoles, s \in 1 .. MaxKeys, p \in BOOLEAN :
         /\ [from |-> d, seq |-> s, partial |-> p] \in Key
         /\ [from |-> d, seq |-> s, partial |-> p].from = d
         /\ [from |-> d, seq |-> s, partial |-> p].seq = s
         /\ [from |-> d, seq |-> s, partial |-> p].partial = p
  <1>1. ASSUME NEW k \in Key
        PROVE  /\ k.from \in Consoles /\ k.seq \in 1 .. MaxKeys
               /\ k.partial \in BOOLEAN
    BY DEF Key
  <1>2. NoKey.from \notin Consoles
    BY SplitterAssumption DEF NoKey
  <1>3. \A d \in Consoles, s \in 1 .. MaxKeys, p \in BOOLEAN :
          /\ [from |-> d, seq |-> s, partial |-> p] \in Key
          /\ [from |-> d, seq |-> s, partial |-> p].from = d
          /\ [from |-> d, seq |-> s, partial |-> p].seq = s
          /\ [from |-> d, seq |-> s, partial |-> p].partial = p
    BY DEF Key
  <1> QED  BY <1>1, <1>2, <1>3

\* The first whole key of a queue.
LEMMA FirstWholeFacts ==
    ASSUME NEW q \in Seq(Key)
    PROVE  /\ FirstWhole(q) \in 0 .. Len(q)
           /\ FirstWhole(q) = 0 <=> \A i \in 1 .. Len(q) : q[i].partial
           /\ FirstWhole(q) # 0 =>
                /\ ~q[FirstWhole(q)].partial
                /\ \A i \in 1 .. Len(q) : i < FirstWhole(q) => q[i].partial
  <1> DEFINE I == {i \in 1 .. Len(q) : ~q[i].partial}
  <1>1. FirstWhole(q) = IF I # {} THEN Min(I) ELSE 0
    BY Zenon DEF FirstWhole, SelectInSeq
  <1>2. Len(q) \in Nat /\ I \subseteq Nat
    OBVIOUS
  <1>3. CASE I = {}
    BY <1>1, <1>2, <1>3
  <1>4. CASE I # {}
    <2>1. Min(I) \in I /\ \A k \in I : Min(I) <= k
      BY <1>2, <1>4, MinFacts
    <2> HIDE DEF I
    <2>2. FirstWhole(q) \in I /\ \A k \in I : FirstWhole(q) <= k
      BY <1>1, <1>4, <2>1
    <2> USE DEF I
    <2>3. ASSUME NEW i \in 1 .. Len(q), i < FirstWhole(q) PROVE q[i].partial
      BY <1>2, <2>2, <2>3
    <2> QED  BY <1>2, <2>2, <2>3
  <1> QED  BY <1>3, <1>4

\* What From and Tail leave, and what Checked drops.
LEMMA FromFacts ==
    ASSUME NEW q \in Seq(Key), NEW n \in 0 .. Len(q)
    PROVE  Without(From(q, n + 1), q, n)
  <1>1. Len(q) \in Nat /\ n + 1 \in 1 .. (Len(q) + 1)
    OBVIOUS
  <1>2. /\ SubSeq(q, n + 1, Len(q)) \in Seq(Key)
        /\ Len(SubSeq(q, n + 1, Len(q))) = Len(q) - n
    BY <1>1
  <1>3. ASSUME NEW i \in 1 .. (Len(q) - n)
        PROVE  SubSeq(q, n + 1, Len(q))[i] = q[n + i]
    BY <1>1
  <1> QED  BY <1>2, <1>3 DEF From, Without

LEMMA TailFacts ==
    ASSUME NEW q \in Seq(Key), q # << >>
    PROVE  /\ Without(Tail(q), q, 1)
           /\ Head(q) = q[1] /\ Len(q) \in Nat \ {0}
  BY DEF Without

LEMMA RestFacts ==
    ASSUME NEW q \in Seq(Key), NEW r, NEW n \in 0 .. Len(q), Without(r, q, n)
    PROVE  /\ IsRest(r, q) /\ r \in Seq(Key)
           /\ \A e : e \in ToSet(r) <=> \E i \in 1 .. Len(q) : i > n /\ q[i] = e
           /\ ToSet(r) \subseteq ToSet(q)
           /\ Ascending(q) => Ascending(r)
  <1>1. /\ Len(q) \in Nat /\ r \in Seq(Key) /\ Len(r) = Len(q) - n
        /\ \A i \in 1 .. (Len(q) - n) : r[i] = q[n + i]
    BY DEF Without
  <1>2. ASSUME NEW e
        PROVE  e \in ToSet(r) <=> \E i \in 1 .. Len(q) : i > n /\ q[i] = e
    <2>1. ASSUME NEW i \in 1 .. Len(r), r[i] = e
          PROVE  \E j \in 1 .. Len(q) : j > n /\ q[j] = e
      <3>1. n + i \in 1 .. Len(q) /\ n + i > n /\ q[n + i] = e
        BY <1>1, <2>1
      <3> QED  BY <3>1
    <2>2. ASSUME NEW j \in 1 .. Len(q), j > n, q[j] = e
          PROVE  \E i \in 1 .. Len(r) : r[i] = e
      <3>1. j - n \in 1 .. Len(r) /\ n + (j - n) = j
        BY <1>1, <2>2
      <3>2. r[j - n] = e
        BY <1>1, <2>2, <3>1
      <3> QED  BY <3>1, <3>2
    <2>3. e \in ToSet(r) <=> \E i \in 1 .. Len(r) : r[i] = e
      BY <1>1, ToSetFacts
    <2> QED  BY <2>1, <2>2, <2>3
  <1>3. ToSet(r) \subseteq ToSet(q)
    BY <1>2, ToSetFacts
  <1>4. ASSUME Ascending(q) PROVE Ascending(r)
    <2>1. ASSUME NEW i \in 1 .. Len(r), NEW j \in 1 .. Len(r), i < j
          PROVE  r[i].seq < r[j].seq
      <3>1. /\ n + i \in 1 .. Len(q) /\ n + j \in 1 .. Len(q) /\ n + i < n + j
            /\ r[i] = q[n + i] /\ r[j] = q[n + j]
        BY <1>1, <2>1
      <3> QED  BY <1>4, <3>1 DEF Ascending
    <2> QED  BY <2>1 DEF Ascending
  <1> QED  BY <1>1, <1>2, <1>3, <1>4 DEF IsRest

\* Checked leaves the whole keys.
LEMMA CheckedFacts ==
    ASSUME NEW q \in Seq(Key)
    PROVE  /\ IsRest(Checked(q), q)
           /\ \A k \in ToSet(q) : ~k.partial => k \in ToSet(Checked(q))
  <1>1. FirstWhole(q) \in 0 .. Len(q) /\ Len(q) \in Nat
    BY FirstWholeFacts
  <1>2. CASE FirstWhole(q) = 0
    <2>1. Checked(q) = << >> /\ Without(<< >>, q, Len(q))
      BY <1>1, <1>2 DEF Checked, Without
    <2>2. \A k \in ToSet(q) : k.partial
      BY <1>2, FirstWholeFacts, ToSetFacts
    <2> QED  BY <1>1, <2>1, <2>2 DEF IsRest
  <1>3. CASE FirstWhole(q) # 0
    <2> DEFINE n == FirstWhole(q) - 1
    <2>1. n \in 0 .. Len(q) /\ n + 1 = FirstWhole(q)
      BY <1>1, <1>3
    <2>2. Without(Checked(q), q, n)
      BY <1>3, <2>1, FromFacts DEF Checked
    <2>3. ASSUME NEW k \in ToSet(q), ~k.partial
          PROVE  k \in ToSet(Checked(q))
      <3>1. PICK i \in 1 .. Len(q) : q[i] = k
        BY ToSetFacts
      <3>2. ~(i < FirstWhole(q))
        BY <1>3, <2>3, <3>1, FirstWholeFacts
      <3>3. i > n
        BY <1>1, <2>1, <3>2
      <3> HIDE DEF n
      <3> QED  BY <2>1, <2>2, <3>1, <3>3, RestFacts
    <2> QED  BY <2>1, <2>2, <2>3 DEF IsRest
  <1> QED  BY <1>2, <1>3

\* All keys that were pressed and neither read nor dropped.
Present == {k \in Key : \/ \E d \in Consoles : k \in ToSet(keys[d])
                        \/ k \in ToSet(KeyQueue)}

KeyTypes ==
    /\ keys \in [Consoles -> Seq(Key)] /\ KeyQueue \in Seq(Key)
    /\ made \in 0 .. MaxKeys

\* A console holds its own keys, in the order in which they were pressed; of
\* each console at most one is saved, and it is older than those.
KeysOrdered ==
    /\ \A d \in Consoles : /\ \A k \in ToSet(keys[d]) : k.from = d
                           /\ Ascending(keys[d])
    /\ \A k \in ToSet(KeyQueue) : \A l \in ToSet(keys[k.from]) : k.seq < l.seq
    /\ \A i, j \in 1 .. Len(KeyQueue) :
         KeyQueue[i].from = KeyQueue[j].from => i = j

\* No two keys have one number.
KeysUnique ==
    /\ \A k \in Present : k.seq <= made
    /\ \A k, l \in Present : k.seq = l.seq => k = l

\* The keys that are to be read are the whole keys that are there.
WholeFrom(d) == {s \in 1 .. MaxKeys :
                   \E k \in Present : k.from = d /\ ~k.partial /\ k.seq = s}

PendingExact == pending = [d \in Consoles |-> WholeFrom(d)]

KeysInv == KeyTypes /\ KeysOrdered /\ KeysUnique /\ PendingExact

keyVars == <<keys, KeyQueue, made, pending>>

\* Which steps have to do with keys.
LEMMA KeySteps ==
    ASSUME [Next]_vars
    PROVE  \/ UNCHANGED keyVars
           \/ \E d \in Consoles :
                \/ ConsoleStops(d) \/ KeyPressed(d) \/ StartWithoutMemory(d)
                \/ StartRefused(d) \/ StartDone(d)
           \/ ReadSavedKeyStroke \/ ReadKeyStroke
           \/ ReadSavedKeyStrokeEx \/ ReadKeyStrokeEx \/ WaitForKey
           \/ Reset \/ ResetEnds
  BY DEF Next, vars, lists, states, physical, signal, queues, notifies,
         keyVars, LoopStep, ConsoleStarts, StartWithoutTextIn,
         ConInDriverBindingStop, ToggleStateSyncKeyNotify,
         RegisterKeyNotify, RegisterFails, UnregisterKeyNotify,
         ReInitializeOne, SetState, SetStateOne, SetStateEnds

\* Keys are dropped, from the front of the queues.
LEMMA KeysDropped ==
    ASSUME KeyTypes, KeysOrdered, KeysUnique,
           keys' \in [Consoles -> Seq(Key)],
           \A d \in Consoles : IsRest(keys'[d], keys[d]),
           IsRest(KeyQueue', KeyQueue), made' = made
    PROVE  KeyTypes' /\ KeysOrdered' /\ KeysUnique' /\ Present' \subseteq Present
  <1>1. /\ \A d \in Consoles : keys[d] \in Seq(Key) /\ keys'[d] \in Seq(Key)
        /\ KeyQueue \in Seq(Key)
    BY DEF KeyTypes
  <1>2. ASSUME NEW d \in Consoles
        PROVE  /\ ToSet(keys'[d]) \subseteq ToSet(keys[d])
               /\ Ascending(keys[d]) => Ascending(keys'[d])
    <2>1. PICK n \in 0 .. Len(keys[d]) : Without(keys'[d], keys[d], n)
      BY DEF IsRest
    <2> QED  BY <1>1, <2>1, RestFacts
  <1>3. PICK n \in 0 .. Len(KeyQueue) : Without(KeyQueue', KeyQueue, n)
    BY DEF IsRest
  <1>4. KeyQueue' \in Seq(Key) /\ ToSet(KeyQueue') \subseteq ToSet(KeyQueue)
    BY <1>1, <1>3, RestFacts
  <1>5. KeyTypes'
    BY <1>4 DEF KeyTypes
  <1>6. Present' \subseteq Present
    BY <1>2, <1>4 DEF Present
  <1>7. KeysUnique'
    BY <1>6 DEF KeysUnique
  <1>8. ASSUME NEW i \in 1 .. Len(KeyQueue'), NEW j \in 1 .. Len(KeyQueue'),
               KeyQueue'[i].from = KeyQueue'[j].from
        PROVE  i = j
    <2>1. /\ n + i \in 1 .. Len(KeyQueue) /\ KeyQueue'[i] = KeyQueue[n + i]
          /\ n + j \in 1 .. Len(KeyQueue) /\ KeyQueue'[j] = KeyQueue[n + j]
          /\ i \in Nat /\ j \in Nat /\ n \in Nat
      BY <1>1, <1>3 DEF Without
    <2>2. n + i = n + j
      BY <1>8, <2>1 DEF KeysOrdered
    <2> QED  BY <2>1, <2>2
  <1>9. /\ \A d \in Consoles : /\ \A k \in ToSet(keys'[d]) : k.from = d
                               /\ Ascending(keys'[d])
        /\ \A k \in ToSet(KeyQueue') : \A l \in ToSet(keys'[k.from]) :
             k.seq < l.seq
    <2>1. \A k \in ToSet(KeyQueue') : k.from \in Consoles
      BY <1>4, ToSetFacts, KeyFacts
    <2> QED  BY <1>2, <1>4, <2>1 DEF KeysOrdered
  <1>10. KeysOrdered'
    BY <1>8, <1>9 DEF KeysOrdered
  <1> QED  BY <1>5, <1>6, <1>7, <1>10

\* A queue of which nothing is dropped, or everything.
LEMMA TrivialRests ==
    ASSUME NEW q \in Seq(Key)
    PROVE  IsRest(q, q) /\ IsRest(<< >>, q)
  <1>1. Without(q, q, 0) /\ Without(<< >>, q, Len(q)) /\ Len(q) \in Nat
    BY DEF Without
  <1> QED  BY <1>1 DEF IsRest

\* What is to be read when nothing is added and of the whole keys those in T
\* go.
LEMMA PendingAfter ==
    ASSUME KeysInv, Present' \subseteq Present, NEW T,
           \A k \in Present : ~k.partial => (k \in Present' <=> k \notin T),
           pending' = [d \in Consoles |->
                         {s \in pending[d] :
                            \A k \in Present :
                              k.seq = s /\ k.from = d => k \notin T}]
    PROVE  PendingExact'
  <1>1. pending = [d \in Consoles |-> WholeFrom(d)]
    BY DEF KeysInv, PendingExact
  <1>2. \A k, l \in Present : k.seq = l.seq => k = l
    BY DEF KeysInv, KeysUnique
  <1>3. ASSUME NEW d \in Consoles
        PROVE  {s \in WholeFrom(d) :
                  \A k \in Present : k.seq = s /\ k.from = d => k \notin T}
               = WholeFrom(d)'
    <2>1. ASSUME NEW s \in WholeFrom(d),
                 \A k \in Present : k.seq = s /\ k.from = d => k \notin T
          PROVE  s \in WholeFrom(d)'
      BY <2>1 DEF WholeFrom
    <2>2. ASSUME NEW s \in WholeFrom(d)'
          PROVE  /\ s \in WholeFrom(d)
                 /\ \A k \in Present : k.seq = s /\ k.from = d => k \notin T
      <3>1. /\ s \in 1 .. MaxKeys
            /\ \E k \in Present' : k.from = d /\ ~k.partial /\ k.seq = s
        BY DEF WholeFrom
      <3>2. PICK k \in Present' : k.from = d /\ ~k.partial /\ k.seq = s
        BY <3>1
      <3>3. k \in Present /\ k \notin T
        BY <3>2
      <3> QED  BY <1>2, <3>1, <3>2, <3>3 DEF WholeFrom
    <2> QED  BY <2>1, <2>2
  <1>4. pending' = [d \in Consoles |-> WholeFrom(d)']
    BY <1>1, <1>3
  <1> QED  BY <1>4 DEF PendingExact

LEMMA WholeFacts ==
    ASSUME NEW q \in Seq(Key)
    PROVE  \A s : s \in Whole(q) <=> \E k \in ToSet(q) : ~k.partial /\ k.seq = s
  BY ToSetFacts DEF Whole

\* Where a key is.
LEMMA PresentFacts ==
    ASSUME KeyTypes, KeysOrdered
    PROVE  /\ \A k \in Present : /\ k \in Key /\ k.seq \in Nat
                                 /\ k \in ToSet(keys[k.from])
                                      <=> k \notin ToSet(KeyQueue)
           /\ \A d \in Consoles : \A k \in ToSet(keys[d]) :
                k \in Present /\ k.from = d /\ k \notin ToSet(KeyQueue)
           /\ \A k \in ToSet(KeyQueue) : k \in Present
  <1>1. /\ KeyQueue \in Seq(Key) /\ \A d \in Consoles : keys[d] \in Seq(Key)
    BY DEF KeyTypes
  <1>2. /\ \A d \in Consoles : \A k \in ToSet(keys[d]) :
             k \in Key /\ k.from = d /\ k.seq \in Nat
        /\ \A k \in ToSet(KeyQueue) : k \in Key /\ k.seq \in Nat
    BY <1>1, ToSetFacts, KeyFacts DEF KeysOrdered
  <1>3. \A k \in ToSet(KeyQueue) : k \notin ToSet(keys[k.from])
    <2> SUFFICES ASSUME NEW k \in ToSet(KeyQueue), k \in ToSet(keys[k.from])
                 PROVE  FALSE
      OBVIOUS
    <2>1. k.seq < k.seq /\ k.seq \in Nat
      BY <1>2 DEF KeysOrdered
    <2> QED  BY <2>1
  <1>4. \A d \in Consoles : \A k \in ToSet(keys[d]) :
          k \in Present /\ k.from = d /\ k \notin ToSet(KeyQueue)
    BY <1>2, <1>3 DEF Present
  <1>5. \A k \in ToSet(KeyQueue) : k \in Present
    BY <1>2 DEF Present
  <1>6. \A k \in Present : /\ k \in Key /\ k.seq \in Nat
                           /\ k \in ToSet(keys[k.from])
                                <=> k \notin ToSet(KeyQueue)
    BY <1>2, <1>3, <1>4 DEF Present
  <1> QED  BY <1>4, <1>5, <1>6

\* Some consoles lose all their keys, and only these.
LEMMA ConsolesDropped ==
    ASSUME KeysInv, NEW done, done \subseteq Consoles,
           keys' = [d \in Consoles |-> IF d \in done THEN << >> ELSE keys[d]],
           pending' = [d \in Consoles |->
                         IF d \in done THEN pending[d] \intersect Whole(KeyQueue)
                         ELSE pending[d]],
           KeyQueue' = KeyQueue, made' = made
    PROVE  KeysInv'
  <1>1. /\ KeyQueue \in Seq(Key) /\ \A d \in Consoles : keys[d] \in Seq(Key)
        /\ KeyTypes /\ KeysOrdered /\ KeysUnique
    BY DEF KeysInv, KeyTypes
  <1>2. /\ KeyTypes' /\ KeysOrdered' /\ KeysUnique'
        /\ Present' \subseteq Present
    <2>1. keys' \in [Consoles -> Seq(Key)]
      BY <1>1
    <2>2. /\ \A d \in Consoles : IsRest(keys'[d], keys[d])
          /\ IsRest(KeyQueue', KeyQueue)
      BY <1>1, TrivialRests
    <2> QED  BY <1>1, <2>1, <2>2, KeysDropped
  <1> DEFINE T == {k \in Present : k.from \in done /\ k \in ToSet(keys[k.from])}
  <1>3. \A k \in Present : k \in Present' <=> k \notin T
    <2>1. ASSUME NEW k \in Present, k \in Present' PROVE k \notin T
      <3>1. CASE k \in ToSet(KeyQueue)
        BY <1>1, <3>1, PresentFacts
      <3>2. CASE k \notin ToSet(KeyQueue)
        <4>1. PICK d \in Consoles : k \in ToSet(keys'[d])
          BY <2>1, <3>2 DEF Present
        <4>2. ToSet(<< >>) = {}
          BY DEF ToSet
        <4>3. d \notin done /\ k \in ToSet(keys[d])
          BY <4>1, <4>2
        <4> QED  BY <1>1, <4>3, PresentFacts
      <3> QED  BY <3>1, <3>2
    <2>2. ASSUME NEW k \in Present, k \notin T PROVE k \in Present'
      <3>1. k \in Key /\ k.from \in Consoles
        BY <1>1, PresentFacts, KeyFacts
      <3>2. CASE k \in ToSet(KeyQueue)
        BY <3>1, <3>2 DEF Present
      <3>3. CASE k \notin ToSet(KeyQueue)
        <4>1. k \in ToSet(keys[k.from]) /\ k.from \notin done
          BY <1>1, <2>2, <3>3, PresentFacts
        <4>2. keys'[k.from] = keys[k.from]
          BY <3>1, <4>1
        <4> QED  BY <3>1, <4>1, <4>2 DEF Present
      <3> QED  BY <3>2, <3>3
    <2> QED  BY <2>1, <2>2
  <1>4. ASSUME NEW d \in Consoles, NEW s \in pending[d]
        PROVE  s \in pending'[d] <=> \A k \in Present :
                                       k.seq = s /\ k.from = d => k \notin T
    <2>1. s \in 1 .. MaxKeys /\ \E k \in Present : k.from = d /\ ~k.partial
                                                   /\ k.seq = s
      BY <1>4 DEF KeysInv, PendingExact, WholeFrom
    <2>2. PICK k \in Present : k.from = d /\ ~k.partial /\ k.seq = s
      BY <2>1
    <2>3. \A l \in Present : l.seq = s => l = k
      BY <2>2 DEF KeysInv, KeysUnique
    <2>4. s \in pending'[d] <=> d \notin done \/ s \in Whole(KeyQueue)
      BY <1>4
    <2>5. s \in Whole(KeyQueue) <=> k \in ToSet(KeyQueue)
      <3>1. s \in Whole(KeyQueue)
              <=> \E l \in ToSet(KeyQueue) : ~l.partial /\ l.seq = s
        BY <1>1, WholeFacts
      <3>2. \A l \in ToSet(KeyQueue) : l \in Present
        BY <1>1, PresentFacts
      <3> QED  BY <2>2, <2>3, <3>1, <3>2
    <2>6. k \in T <=> d \in done /\ k \notin ToSet(KeyQueue)
      BY <1>1, <2>2, PresentFacts
    <2> HIDE DEF T
    <2> QED  BY <2>2, <2>3, <2>4, <2>5, <2>6
  <1>5. \A d \in Consoles : pending'[d] \subseteq pending[d]
    OBVIOUS
  <1>6. pending' = [d \in Consoles |->
                      {s \in pending[d] :
                         \A k \in Present : k.seq = s /\ k.from = d => k \notin T}]
    <2> HIDE DEF T
    <2>1. \A d \in Consoles :
            pending'[d] = {s \in pending[d] : \A k \in Present :
                             k.seq = s /\ k.from = d => k \notin T}
      BY <1>4, <1>5
    <2>2. pending' = [d \in Consoles |-> pending'[d]]
      OBVIOUS
    <2> QED  BY <2>1, <2>2
  <1>7. PendingExact'
    <2> HIDE DEF T
    <2> QED  BY <1>2, <1>3, <1>6, PendingAfter
  <1> QED  BY <1>2, <1>7 DEF KeysInv

\* The partial keys before the first whole one are dropped.
LEMMA PartialDropped ==
    ASSUME KeysInv, NEW D,
           keys' = [d \in Consoles |-> IF d \in D THEN Checked(keys[d])
                                       ELSE keys[d]],
           pending' = pending, KeyQueue' = KeyQueue, made' = made
    PROVE  KeysInv'
  <1>1. /\ KeyQueue \in Seq(Key) /\ \A d \in Consoles : keys[d] \in Seq(Key)
        /\ KeyTypes /\ KeysOrdered /\ KeysUnique
    BY DEF KeysInv, KeyTypes
  <1>2. \A d \in Consoles :
          /\ IsRest(Checked(keys[d]), keys[d]) /\ Checked(keys[d]) \in Seq(Key)
          /\ \A k \in ToSet(keys[d]) : ~k.partial => k \in ToSet(Checked(keys[d]))
    BY <1>1, CheckedFacts DEF IsRest, Without
  <1>3. /\ KeyTypes' /\ KeysOrdered' /\ KeysUnique'
        /\ Present' \subseteq Present
    <2>1. keys' \in [Consoles -> Seq(Key)]
      BY <1>1, <1>2
    <2>2. /\ \A d \in Consoles : IsRest(keys'[d], keys[d])
          /\ IsRest(KeyQueue', KeyQueue)
      BY <1>1, <1>2, TrivialRests
    <2> QED  BY <1>1, <2>1, <2>2, KeysDropped
  <1> DEFINE T == {}
  <1>4. \A k \in Present : ~k.partial => (k \in Present' <=> k \notin T)
    BY <1>2 DEF Present
  <1>5. pending' = [d \in Consoles |->
                      {s \in pending[d] :
                         \A k \in Present : k.seq = s /\ k.from = d => k \notin T}]
    BY DEF KeysInv, PendingExact
  <1>6. PendingExact'
    <2> HIDE DEF T
    <2> QED  BY <1>3, <1>4, <1>5, PendingAfter
  <1> QED  BY <1>3, <1>6 DEF KeysInv

\* The loop of ReadKeyStrokeEx saves the first key of console d.
Saves(d) == keys[d] # << >> /\ (VirtualKeyStateExported \/ ~Head(keys[d]).partial)

SavedBody(saved, i) ==
    IF Saves(TextInExList[i])
    THEN Append(saved[i - 1], Head(keys[TextInExList[i]]))
    ELSE saved[i - 1]

LEMMA SavedIsLoop ==
    ASSUME ListInv, KeyTypes
    PROVE  \E f : /\ SavedUpTo(NumberOfExConsoles) = f[NumberOfExConsoles]
                  /\ f[0] = << >>
                  /\ \A i \in 1 .. NumberOfExConsoles : f[i] = SavedBody(f, i)
  <1> DEFINE n == Len(TextInExList)
             Turn == [i \in 1 .. n |->
                        [s \in Seq(Key) |->
                           IF Saves(TextInExList[i])
                           THEN Append(s, Head(keys[TextInExList[i]])) ELSE s]]
  <1>1. n \in Nat /\ \A i \in 1 .. n : TextInExList[i] \in Consoles
    BY ExListFacts
  <1>2. \A d \in Consoles : keys[d] # << >> => Head(keys[d]) \in Key
    BY DEF KeyTypes
  <1>3. Turn \in [1 .. n -> [Seq(Key) -> Seq(Key)]]
    <2>1. ASSUME NEW i \in 1 .. n, NEW s \in Seq(Key)
          PROVE  (IF Saves(TextInExList[i])
                  THEN Append(s, Head(keys[TextInExList[i]])) ELSE s) \in Seq(Key)
      <3>1. CASE Saves(TextInExList[i])
        <4>1. Head(keys[TextInExList[i]]) \in Key
          BY <1>1, <1>2, <3>1 DEF Saves
        <4> QED  BY <3>1, <4>1
      <3>2. CASE ~Saves(TextInExList[i])
        BY <3>2
      <3> QED  BY <3>1, <3>2
    <2> HIDE DEF n
    <2> QED  BY <2>1
  <1>4. << >> \in Seq(Key)
    OBVIOUS
  <1>5. PICK f \in [0 .. n -> Seq(Key)] :
          f[0] = << >> /\ \A i \in 1 .. n : f[i] = Turn[i][f[i - 1]]
    <2> DEFINE S == Seq(Key)
               first == << >>
    <2>1. n \in Nat /\ first \in S /\ Turn \in [1 .. n -> [S -> S]]
      BY <1>1, <1>3, <1>4
    <2> HIDE DEF n, Turn, S, first
    <2>2. PICK f : IsLoop(f, n, S, first, Turn)
      BY <2>1, LoopExists
    <2> QED  BY <2>2 DEF IsLoop, S, first
  <1>6. ASSUME NEW i \in 1 .. n PROVE f[i] = SavedBody(f, i)
    <2>1. i - 1 \in 0 .. n
      BY <1>1
    <2>2. f[i - 1] \in Seq(Key)
      BY <1>5, <2>1
    <2>3. f[i] = Turn[i][f[i - 1]]
      BY <1>5
    <2>4. f[i] = IF Saves(TextInExList[i])
                 THEN Append(f[i - 1], Head(keys[TextInExList[i]]))
                 ELSE f[i - 1]
      <3> HIDE DEF n
      <3> QED  BY <2>2, <2>3, Zenon
    <2> QED  BY <2>4 DEF SavedBody
  <1>7. f = [i \in 0 .. n |->
              IF i = 0 THEN << >>
              ELSE LET q == keys[TextInExList[i]]
                   IN  IF /\ q # << >>
                          /\ VirtualKeyStateExported \/ ~Head(q).partial
                       THEN Append(f[i - 1], Head(q))
                       ELSE f[i - 1]]
    <2>1. f = [i \in 0 .. n |-> f[i]]
      BY <1>5
    <2>2. ASSUME NEW i \in 0 .. n
          PROVE  f[i] = IF i = 0 THEN << >>
                        ELSE LET q == keys[TextInExList[i]]
                             IN  IF /\ q # << >>
                                    /\ VirtualKeyStateExported \/ ~Head(q).partial
                                 THEN Append(f[i - 1], Head(q))
                                 ELSE f[i - 1]
      <3>1. CASE i = 0
        BY <1>5, <3>1
      <3>2. CASE i # 0
        <4>1. i \in 1 .. n
          BY <1>1, <3>2
        <4> HIDE DEF n
        <4> QED  BY <1>6, <3>2, <4>1 DEF SavedBody, Saves
      <3> QED  BY <3>1, <3>2
    <2> HIDE DEF n
    <2> QED  BY <2>1, <2>2, Zenon
  <1>8. PICK h : /\ SavedUpTo(n) = h[n]
                 /\ h = [i \in 0 .. n |->
                      IF i = 0 THEN << >>
                      ELSE LET q == keys[TextInExList[i]]
                           IN  IF /\ q # << >>
                                  /\ VirtualKeyStateExported \/ ~Head(q).partial
                               THEN Append(h[i - 1], Head(q))
                               ELSE h[i - 1]]
    <2> HIDE DEF n
    <2> QED  BY <1>7, Zenon DEF SavedUpTo
  <1>9. h[0] = << >> /\ \A i \in 1 .. n : h[i] = SavedBody(h, i)
    <2>1. 0 \in 0 .. n /\ \A i \in 1 .. n : i \in 0 .. n /\ i # 0
      BY <1>1
    <2> HIDE DEF n
    <2> QED  BY <1>8, <2>1 DEF SavedBody, Saves
  <1> QED  BY <1>8, <1>9 DEF NumberOfExConsoles

\* One key is saved of each console that has one to report.
LEMMA SavedFacts ==
    ASSUME ListInv, KeyTypes, KeysOrdered,
           NEW saved, saved = SavedUpTo(NumberOfExConsoles)
    PROVE  /\ saved \in Seq(Key) /\ Len(saved) <= Len(TextInExList)
           /\ \A j \in 1 .. Len(saved) :
                /\ saved[j].from \in ToSet(TextInExList)
                /\ keys[saved[j].from] # << >>
                /\ saved[j] = Head(keys[saved[j].from])
           /\ \A d \in ToSet(TextInExList) :
                Saves(d) => \E j \in 1 .. Len(saved) : saved[j] = Head(keys[d])
           /\ \A i, j \in 1 .. Len(saved) : saved[i].from = saved[j].from => i = j
  <1> DEFINE n == Len(TextInExList)
             \* What holds of the keys s saved of the first m consoles.
             Good(s, m) ==
               /\ s \in Seq(Key) /\ Len(s) <= m
               /\ \A j \in 1 .. Len(s) :
                    \E p \in 1 .. m : /\ Saves(TextInExList[p])
                                      /\ s[j] = Head(keys[TextInExList[p]])
                                      /\ s[j].from = TextInExList[p]
               /\ \A p \in 1 .. m :
                    Saves(TextInExList[p])
                      => \E j \in 1 .. Len(s) : s[j] = Head(keys[TextInExList[p]])
               /\ \A i, j \in 1 .. Len(s) : s[i].from = s[j].from => i = j
  <1>1. /\ n \in Nat /\ \A i \in 1 .. n : TextInExList[i] \in Consoles
        /\ \A i, j \in 1 .. n : TextInExList[i] = TextInExList[j] => i = j
    BY ExListFacts
  <1>2. \A d \in Consoles : keys[d] # << >> =>
          /\ keys[d] \in Seq(Key) /\ Head(keys[d]) \in Key
          /\ Head(keys[d]).from = d
    <2>1. \A d \in Consoles : keys[d] # << >> =>
            Head(keys[d]) \in Key /\ Head(keys[d]) \in ToSet(keys[d])
      <3>1. ASSUME NEW d \in Consoles, keys[d] # << >>
            PROVE  Head(keys[d]) \in Key /\ Head(keys[d]) \in ToSet(keys[d])
        <4>1. keys[d] \in Seq(Key)
          BY DEF KeyTypes
        <4>2. Head(keys[d]) = keys[d][1] /\ 1 \in 1 .. Len(keys[d])
          BY <3>1, <4>1
        <4> QED  BY <4>1, <4>2, ToSetFacts
      <3> QED  BY <3>1
    <2> QED  BY <2>1 DEF KeyTypes, KeysOrdered
  <1>3. PICK f : /\ SavedUpTo(n) = f[n] /\ f[0] = << >>
                 /\ \A i \in 1 .. n : f[i] = SavedBody(f, i)
    BY SavedIsLoop DEF NumberOfExConsoles
  <1> DEFINE T == {m \in 0 .. n : Good(f[m], m)}
  <1>4. 0 \in T
    <2>1. /\ << >> \in Seq(Key) /\ Len(<< >>) = 0
          /\ 1 .. 0 = {} /\ 0 \in 0 .. n
      BY <1>1
    <2>2. Good(<< >>, 0)
      BY <2>1
    <2> HIDE DEF Good
    <2> QED  BY <1>3, <2>1, <2>2
  <1>5. ASSUME NEW m \in 1 .. n, m - 1 \in T PROVE m \in T
    <2> DEFINE s == f[m - 1]
               d == TextInExList[m]
    <2>1. /\ Good(s, m - 1) /\ m \in Nat /\ d \in Consoles
      BY <1>1, <1>5
    <2>2. f[m] = IF Saves(d) THEN Append(s, Head(keys[d])) ELSE s
      BY <1>3 DEF SavedBody
    <2>3. CASE ~Saves(d)
      <3>1. f[m] = s
        BY <2>2, <2>3
      <3>2. Good(s, m)
        <4>1. \A p \in 1 .. m : p = m \/ p \in 1 .. (m - 1)
          BY <2>1
        <4>2. /\ 1 .. (m - 1) \subseteq 1 .. m
              /\ s \in Seq(Key) /\ Len(s) <= m
          BY <2>1
        <4> HIDE DEF s
        <4> QED  BY <2>1, <2>3, <4>1, <4>2
      <3> HIDE DEF Good, s
      <3> QED  BY <3>1, <3>2
    <2>4. CASE Saves(d)
      <3> DEFINE k == Head(keys[d])
                 t == Append(s, k)
      <3>1. k \in Key /\ k.from = d
        BY <1>2, <2>1, <2>4 DEF Saves
      <3>2. /\ t \in Seq(Key) /\ Len(t) = Len(s) + 1 /\ Len(s) \in Nat
            /\ Len(t) <= m
            /\ \A j \in 1 .. Len(s) : t[j] = s[j]
            /\ t[Len(s) + 1] = k
            /\ \A j \in 1 .. Len(t) : j = Len(s) + 1 \/ j \in 1 .. Len(s)
        <4>1. s \in Seq(Key) /\ Len(s) <= m - 1
          BY <2>1
        <4> HIDE DEF s, k
        <4> QED  BY <2>1, <3>1, <4>1
      <3>3. \A j \in 1 .. Len(s) : s[j].from # d
        <4> SUFFICES ASSUME NEW j \in 1 .. Len(s), s[j].from = d PROVE FALSE
          OBVIOUS
        <4>1. PICK p \in 1 .. (m - 1) : s[j].from = TextInExList[p]
          BY <2>1
        <4>2. p \in 1 .. n /\ m \in 1 .. n /\ p # m
          BY <1>1, <2>1
        <4> QED  BY <1>1, <4>1, <4>2
      <3>4. ASSUME NEW j \in 1 .. Len(t)
            PROVE  \E p \in 1 .. m : /\ Saves(TextInExList[p])
                                     /\ t[j] = Head(keys[TextInExList[p]])
                                     /\ t[j].from = TextInExList[p]
        <4>1. CASE j = Len(s) + 1
          BY <2>1, <2>4, <3>1, <3>2, <4>1
        <4>2. CASE j \in 1 .. Len(s)
          <5>1. PICK p \in 1 .. (m - 1) :
                  /\ Saves(TextInExList[p])
                  /\ s[j] = Head(keys[TextInExList[p]])
                  /\ s[j].from = TextInExList[p]
            BY <2>1, <4>2
          <5>2. p \in 1 .. m /\ t[j] = s[j]
            BY <2>1, <3>2, <4>2
          <5> HIDE DEF s, t
          <5> QED  BY <5>1, <5>2
        <4> QED  BY <3>2, <4>1, <4>2
      <3>5. ASSUME NEW p \in 1 .. m, Saves(TextInExList[p])
            PROVE  \E j \in 1 .. Len(t) : t[j] = Head(keys[TextInExList[p]])
        <4>1. CASE p = m
          BY <3>2, <4>1
        <4>2. CASE p \in 1 .. (m - 1)
          <5>1. PICK j \in 1 .. Len(s) : s[j] = Head(keys[TextInExList[p]])
            BY <2>1, <3>5, <4>2
          <5>2. j \in 1 .. Len(t) /\ t[j] = s[j]
            BY <3>2
          <5> HIDE DEF s, t
          <5> QED  BY <5>1, <5>2
        <4> QED  BY <2>1, <4>1, <4>2
      <3>6. ASSUME NEW i \in 1 .. Len(t), NEW j \in 1 .. Len(t),
                   t[i].from = t[j].from
            PROVE  i = j
        <4>1. \A l, q \in 1 .. Len(s) : s[l].from = s[q].from => l = q
          BY <2>1
        <4> HIDE DEF s, t, k, Good
        <4> QED  BY <3>1, <3>2, <3>3, <3>6, <4>1
      <3>7. Good(t, m)
        <4> HIDE DEF t
        <4> QED  BY <3>2, <3>4, <3>5, <3>6
      <3>8. f[m] = t
        BY <2>2, <2>4
      <3> HIDE DEF Good, t
      <3> QED  BY <3>7, <3>8
    <2> QED  BY <2>3, <2>4
  <1>6. n \in T
    <2>1. 0 .. n \subseteq T
      <3> HIDE DEF T, n
      <3> QED  BY <1>1, <1>4, <1>5, UpToInduction
    <2> HIDE DEF T
    <2> QED  BY <1>1, <2>1
  <1>7. Good(saved, n)
    <2> HIDE DEF Good, n
    <2> QED  BY <1>3, <1>6 DEF NumberOfExConsoles, n
  <1>8. \A d : d \in ToSet(TextInExList) <=> \E p \in 1 .. n : TextInExList[p] = d
    BY ToSetFacts DEF ListInv
  <1>9. ASSUME NEW j \in 1 .. Len(saved)
        PROVE  /\ saved[j].from \in ToSet(TextInExList)
               /\ keys[saved[j].from] # << >>
               /\ saved[j] = Head(keys[saved[j].from])
    <2>1. PICK p \in 1 .. n : /\ Saves(TextInExList[p])
                              /\ saved[j] = Head(keys[TextInExList[p]])
                              /\ saved[j].from = TextInExList[p]
      BY <1>7
    <2> QED  BY <1>8, <2>1 DEF Saves
  <1>10. ASSUME NEW d \in ToSet(TextInExList), Saves(d)
         PROVE  \E j \in 1 .. Len(saved) : saved[j] = Head(keys[d])
    <2>1. PICK p \in 1 .. n : TextInExList[p] = d
      BY <1>8
    <2>2. Saves(TextInExList[p])
      BY <1>10, <2>1
    <2>3. \E j \in 1 .. Len(saved) : saved[j] = Head(keys[TextInExList[p]])
      BY <1>7, <2>2
    <2> QED  BY <2>1, <2>3
  <1> QED  BY <1>7, <1>9, <1>10

\* Of the whole keys of its console, k is the oldest.
Oldest(k) == \A l \in Present : l.from = k.from /\ ~l.partial => k.seq <= l.seq

\* A read returns the oldest key of a console.
GoodRead == result' # NoKey => result' \in Present /\ Oldest(result')

\* Only the key that is returned, and partial ones, are no longer there.
LEMMA ReadOne ==
    ASSUME KeysInv, NEW k \in Present, Reads(k), Present' \subseteq Present,
           \A l \in Present : ~l.partial => (l \in Present' <=> l # k)
    PROVE  PendingExact'
  <1> DEFINE T == {k}
  <1>1. k \in Key /\ k.from \in Consoles /\ k # NoKey
    BY PresentFacts, KeyFacts DEF KeysInv
  <1>2. pending' = [pending EXCEPT ![k.from] = @ \ {k.seq}]
    BY <1>1 DEF Reads
  <1>3. pending = [d \in Consoles |-> WholeFrom(d)]
    BY DEF KeysInv, PendingExact
  <1>4. \A l \in Present : l.seq = k.seq => l = k
    BY DEF KeysInv, KeysUnique
  <1>5. ASSUME NEW d \in Consoles
        PROVE  pending'[d] = {s \in pending[d] :
                                \A l \in Present :
                                  l.seq = s /\ l.from = d => l # k}
    <2>1. \A s \in pending[d] : \E l \in Present : l.seq = s /\ l.from = d
      BY <1>3 DEF WholeFrom
    <2>2. CASE d = k.from
      <3>1. pending'[d] = pending[d] \ {k.seq}
        BY <1>2, <1>3, <2>2
      <3> QED  BY <1>4, <2>1, <2>2, <3>1
    <2>3. CASE d # k.from
      <3>1. pending'[d] = pending[d]
        BY <1>2, <1>3, <2>3
      <3> QED  BY <2>3, <3>1
    <2> QED  BY <2>2, <2>3
  <1>6. pending' = [d \in Consoles |->
                      {s \in pending[d] :
                         \A l \in Present : l.seq = s /\ l.from = d => l \notin T}]
    <2>1. pending' = [d \in Consoles |-> pending'[d]]
      BY <1>2, <1>3
    <2>2. \A l \in Present : l # k <=> l \notin T
      OBVIOUS
    <2> HIDE DEF T
    <2> QED  BY <1>5, <2>1, <2>2
  <1>7. \A l \in Present : ~l.partial => (l \in Present' <=> l \notin T)
    OBVIOUS
  <1> HIDE DEF T
  <1> QED  BY <1>6, <1>7, PendingAfter

\* No key is returned, and no whole one is lost.
LEMMA ReadNone ==
    ASSUME KeysInv, Reads(NoKey), Present' \subseteq Present,
           \A l \in Present : ~l.partial => l \in Present'
    PROVE  PendingExact'
  <1> DEFINE T == {}
  <1>1. pending' = [d \in Consoles |->
                      {s \in pending[d] :
                         \A k \in Present : k.seq = s /\ k.from = d => k \notin T}]
    BY DEF KeysInv, PendingExact, Reads
  <1>2. \A l \in Present : ~l.partial => (l \in Present' <=> l \notin T)
    OBVIOUS
  <1> HIDE DEF T
  <1> QED  BY <1>1, <1>2, PendingAfter

\* The key at place n of the saved ones is read; those before it are partial.
LEMMA SavedKeyRead ==
    ASSUME KeysInv, NEW n \in 1 .. Len(KeyQueue),
           Without(KeyQueue', KeyQueue, n),
           \A i \in 1 .. Len(KeyQueue) : i < n => KeyQueue[i].partial,
           Reads(KeyQueue[n]), keys' = keys, made' = made
    PROVE  KeysInv' /\ GoodRead
  <1> DEFINE k == KeyQueue[n]
  <1>1. /\ KeyQueue \in Seq(Key) /\ keys \in [Consoles -> Seq(Key)]
        /\ KeyTypes /\ KeysOrdered /\ KeysUnique
        /\ Len(KeyQueue) \in Nat /\ n \in 0 .. Len(KeyQueue)
    BY DEF KeysInv, KeyTypes
  <1>2. k \in Present /\ k \in ToSet(KeyQueue) /\ k.from \in Consoles
    <2>1. k \in ToSet(KeyQueue) /\ k \in Key
      BY <1>1, ToSetFacts
    <2> QED  BY <1>1, <2>1, PresentFacts, KeyFacts
  <1>3. /\ KeyTypes' /\ KeysOrdered' /\ KeysUnique'
        /\ Present' \subseteq Present
    <2>1. IsRest(KeyQueue', KeyQueue)
      BY <1>1 DEF IsRest
    <2>2. \A d \in Consoles : IsRest(keys'[d], keys[d])
      BY <1>1, TrivialRests
    <2> QED  BY <1>1, <2>1, <2>2, KeysDropped
  <1>4. \A e : e \in ToSet(KeyQueue')
                 <=> \E i \in 1 .. Len(KeyQueue) : i > n /\ KeyQueue[i] = e
    BY <1>1, RestFacts
  <1>5. ASSUME NEW l \in Present, ~l.partial
        PROVE  l \in Present' <=> l # k
    <2>1. CASE l \in ToSet(KeyQueue)
      <3>1. PICK i \in 1 .. Len(KeyQueue) : KeyQueue[i] = l
        BY <1>1, <2>1, ToSetFacts
      <3>2. l = k <=> i = n
        BY <1>1, <3>1 DEF KeysOrdered
      <3>3. l \in ToSet(KeyQueue') <=> i > n
        <4>1. \A j \in 1 .. Len(KeyQueue) : KeyQueue[j] = l => j = i
          BY <1>1, <3>1 DEF KeysOrdered
        <4> QED  BY <1>4, <3>1, <4>1
      <3>4. ~(i < n)
        BY <1>5, <3>1
      <3>5. l \in Present' <=> l \in ToSet(KeyQueue')
        <4>1. \A d \in Consoles : l \notin ToSet(keys[d])
          BY <1>1, <2>1, PresentFacts
        <4> QED  BY <4>1 DEF Present
      <3> QED  BY <1>1, <3>1, <3>2, <3>3, <3>4, <3>5
    <2>2. CASE l \notin ToSet(KeyQueue)
      <3>1. l # k
        BY <1>2, <2>2
      <3>2. l \in Present'
        BY <2>2 DEF Present
      <3> QED  BY <3>1, <3>2
    <2> QED  BY <2>1, <2>2
  <1>6. PendingExact'
    <2> HIDE DEF k
    <2>1. Reads(k)
      BY DEF k
    <2> QED  BY <1>2, <1>3, <1>5, <2>1, ReadOne
  <1>7. ASSUME NEW l \in Present, l.from = k.from
        PROVE  k.seq <= l.seq
    <2>1. k.seq \in Nat /\ l.seq \in Nat
      BY <1>1, <1>2, PresentFacts
    <2>2. CASE l \in ToSet(KeyQueue)
      <3>1. PICK i \in 1 .. Len(KeyQueue) : KeyQueue[i] = l
        BY <1>1, <2>2, ToSetFacts
      <3>2. i = n
        BY <1>1, <1>7, <3>1 DEF KeysOrdered
      <3> QED  BY <2>1, <3>1, <3>2
    <2>3. CASE l \notin ToSet(KeyQueue)
      <3>1. l \in ToSet(keys[k.from])
        BY <1>1, <1>7, <2>3, PresentFacts
      <3>2. k.seq < l.seq
        BY <1>1, <1>2, <3>1 DEF KeysOrdered
      <3> QED  BY <2>1, <3>2
    <2> QED  BY <2>2, <2>3
  <1>8. GoodRead
    <2>1. result' = k
      BY DEF Reads
    <2> HIDE DEF k
    <2> QED  BY <1>2, <1>7, <2>1 DEF GoodRead, Oldest
  <1> QED  BY <1>3, <1>6, <1>8 DEF KeysInv

LEMMA ReadSavedKeys ==
    ASSUME KeysInv, ReadSavedKeyStroke
    PROVE  KeysInv' /\ GoodRead
  <1> DEFINE n == FirstWhole(KeyQueue)
  <1>1. /\ n # 0 /\ KeyQueue' = From(KeyQueue, n + 1)
        /\ Reads(KeyQueue[n]) /\ keys' = keys
    BY DEF ReadSavedKeyStroke
  <1>2. KeyQueue \in Seq(Key)
    BY DEF KeysInv, KeyTypes
  <1>3. n \in 0 .. Len(KeyQueue) /\ Len(KeyQueue) \in Nat
    BY <1>2, FirstWholeFacts
  <1>4. n \in 1 .. Len(KeyQueue)
    BY <1>1, <1>3
  <1>5. \A i \in 1 .. Len(KeyQueue) : i < n => KeyQueue[i].partial
    BY <1>1, <1>2, FirstWholeFacts
  <1>6. made' = made
    BY <1>1 DEF Reads, physical
  <1> HIDE DEF n
  <1>7. Without(KeyQueue', KeyQueue, n)
    BY <1>1, <1>2, <1>3, FromFacts
  <1> QED  BY <1>1, <1>4, <1>5, <1>6, <1>7, SavedKeyRead

LEMMA ReadSavedKeysEx ==
    ASSUME KeysInv, ReadSavedKeyStrokeEx
    PROVE  KeysInv' /\ GoodRead
  <1>1. /\ KeyQueue # << >> /\ KeyQueue' = Tail(KeyQueue)
        /\ Reads(Head(KeyQueue)) /\ keys' = keys
    BY DEF ReadSavedKeyStrokeEx
  <1>2. KeyQueue \in Seq(Key)
    BY DEF KeysInv, KeyTypes
  <1>3. /\ Without(KeyQueue', KeyQueue, 1) /\ Head(KeyQueue) = KeyQueue[1]
        /\ Len(KeyQueue) \in Nat \ {0}
    BY <1>1, <1>2, TailFacts
  <1>4. 1 \in 1 .. Len(KeyQueue)
    BY <1>3
  <1>5. \A i \in 1 .. Len(KeyQueue) : i < 1 => KeyQueue[i].partial
    BY <1>3
  <1>6. made' = made /\ Reads(KeyQueue[1])
    BY <1>1, <1>3 DEF Reads, physical
  <1> QED  BY <1>1, <1>3, <1>4, <1>5, <1>6, SavedKeyRead

\* The first console with a whole key, and those passed before it.
FirstToRead == SelectInSeq(TextInList, LAMBDA d : FirstWhole(keys[d]) # 0)

LEMMA FirstConsole ==
    ASSUME ListInv, NEW n, n = FirstToRead
    PROVE  /\ n \in 0 .. Len(TextInList) /\ Len(TextInList) \in Nat
           /\ \A j \in 1 .. Len(TextInList) :
                n = 0 \/ j < n => FirstWhole(keys[TextInList[j]]) = 0
           /\ n # 0 => FirstWhole(keys[TextInList[n]]) # 0
  <1> DEFINE I == {i \in 1 .. Len(TextInList) : FirstWhole(keys[TextInList[i]]) # 0}
  <1>1. n = IF I # {} THEN Min(I) ELSE 0
    BY Zenon DEF FirstToRead, SelectInSeq
  <1>2. Len(TextInList) \in Nat /\ I \subseteq Nat
    BY DEF ListInv
  <1>3. CASE I = {}
    BY <1>1, <1>2, <1>3
  <1>4. CASE I # {}
    <2>1. Min(I) \in I /\ \A k \in I : Min(I) <= k
      BY <1>2, <1>4, MinFacts
    <2> HIDE DEF I
    <2>2. n \in I /\ \A k \in I : n <= k
      BY <1>1, <1>4, <2>1
    <2> USE DEF I
    <2>3. n \in 1 .. Len(TextInList) /\ FirstWhole(keys[TextInList[n]]) # 0
      BY <2>2
    <2>4. ASSUME NEW j \in 1 .. Len(TextInList), j < n
          PROVE  FirstWhole(keys[TextInList[j]]) = 0
      BY <1>2, <2>2, <2>4
    <2> QED  BY <1>2, <2>3, <2>4
  <1> QED  BY <1>3, <1>4

\* Nothing whole is saved.  The consoles that are passed lose all their keys,
\* none of them whole, and the one that is reached those up to its first
\* whole key.
LEMMA ReadKeys ==
    ASSUME ListInv, KeysInv, ReadKeyStroke
    PROVE  KeysInv' /\ GoodRead
  <1> DEFINE n == FirstToRead
             passed == {TextInList[i] : i \in {j \in DOMAIN TextInList :
                                                  n = 0 \/ j < n}}
             last == IF n = 0 THEN NULL ELSE TextInList[n]
             i == FirstWhole(keys[last])
             k == keys[last][i]
  <1>1. /\ FirstWhole(KeyQueue) = 0 /\ KeyQueue' = << >>
        /\ keys' = [d \in Consoles |->
                      IF d \in passed THEN << >>
                      ELSE IF d = last
                           THEN From(keys[d], FirstWhole(keys[d]) + 1)
                           ELSE keys[d]]
        /\ Reads(IF n = 0 THEN NoKey ELSE k)
    BY Zenon DEF ReadKeyStroke, FirstToRead
  <1>2. /\ KeyQueue \in Seq(Key) /\ keys \in [Consoles -> Seq(Key)]
        /\ KeyTypes /\ KeysOrdered /\ KeysUnique
    BY DEF KeysInv, KeyTypes
  <1>3. /\ n \in 0 .. Len(TextInList) /\ Len(TextInList) \in Nat
        /\ \A j \in 1 .. Len(TextInList) :
             n = 0 \/ j < n => FirstWhole(keys[TextInList[j]]) = 0
        /\ n # 0 => FirstWhole(keys[TextInList[n]]) # 0
    BY FirstConsole
  <1> HIDE DEF n
  <1>4. /\ \A j \in 1 .. Len(TextInList) : TextInList[j] \in Consoles
        /\ DOMAIN TextInList = 1 .. Len(TextInList)
    BY DEF ListInv
  <1>5. /\ passed \subseteq Consoles
        /\ \A d \in passed : FirstWhole(keys[d]) = 0
    BY <1>3, <1>4
  <1>6. \A d \in passed : \A e \in ToSet(keys[d]) : e.partial
    <2> SUFFICES ASSUME NEW d \in passed, NEW e \in ToSet(keys[d])
                 PROVE  e.partial
      OBVIOUS
    <2> HIDE DEF passed
    <2>1. keys[d] \in Seq(Key) /\ FirstWhole(keys[d]) = 0
      BY <1>2, <1>5
    <2>2. \A j \in 1 .. Len(keys[d]) : keys[d][j].partial
      BY <2>1, FirstWholeFacts
    <2> QED  BY <2>1, <2>2, ToSetFacts
  <1>7. n # 0 => /\ last \in Consoles /\ last \notin passed
                 /\ i \in 1 .. Len(keys[last]) /\ Len(keys[last]) \in Nat
                 /\ i \in 0 .. Len(keys[last])
                 /\ ~k.partial
                 /\ \A j \in 1 .. Len(keys[last]) : j < i => keys[last][j].partial
    <2> SUFFICES ASSUME n # 0
                 PROVE  /\ last \in Consoles /\ last \notin passed
                        /\ i \in 1 .. Len(keys[last]) /\ Len(keys[last]) \in Nat
                        /\ i \in 0 .. Len(keys[last])
                        /\ ~k.partial
                        /\ \A j \in 1 .. Len(keys[last]) :
                             j < i => keys[last][j].partial
      OBVIOUS
    <2>1. last = TextInList[n] /\ n \in 1 .. Len(TextInList)
      BY <1>3
    <2>2. last \in Consoles /\ FirstWhole(keys[last]) # 0
      BY <1>3, <1>4, <2>1
    <2>3. last \notin passed
      <3> HIDE DEF passed, last
      <3> QED  BY <1>5, <2>2
    <2> HIDE DEF last, passed
    <2>4. keys[last] \in Seq(Key)
      BY <1>2, <2>2
    <2>5. i \in 0 .. Len(keys[last]) /\ Len(keys[last]) \in Nat /\ i # 0
      BY <2>2, <2>4, FirstWholeFacts
    <2>6. i \in 1 .. Len(keys[last])
      <3> HIDE DEF i
      <3> QED  BY <2>5
    <2>7. ~k.partial /\ \A j \in 1 .. Len(keys[last]) :
                          j < i => keys[last][j].partial
      BY <2>2, <2>4, FirstWholeFacts
    <2> QED  BY <2>2, <2>3, <2>5, <2>6, <2>7
  <1>8. n = 0 => last \notin Consoles
    BY SplitterAssumption
  <1> HIDE DEF passed, last
  <1>9. n # 0 => Without(keys'[last], keys[last], i)
    <2> SUFFICES ASSUME n # 0 PROVE Without(keys'[last], keys[last], i)
      OBVIOUS
    <2>1. keys'[last] = From(keys[last], i + 1)
      BY <1>1, <1>7
    <2>2. keys[last] \in Seq(Key) /\ i \in 0 .. Len(keys[last])
      BY <1>2, <1>7
    <2> HIDE DEF i
    <2> QED  BY <2>1, <2>2, FromFacts
  <1>10. \A d \in Consoles : /\ d \in passed => keys'[d] = << >>
                             /\ d \notin passed /\ d # last => keys'[d] = keys[d]
    BY <1>1
  <1>11. /\ KeyTypes' /\ KeysOrdered' /\ KeysUnique'
         /\ Present' \subseteq Present
    <2>1. \A d \in Consoles : IsRest(keys'[d], keys[d])
      <3> SUFFICES ASSUME NEW d \in Consoles PROVE IsRest(keys'[d], keys[d])
        OBVIOUS
      <3>1. CASE d \in passed
        BY <1>2, <1>10, <3>1, TrivialRests
      <3>2. CASE d \notin passed /\ d # last
        BY <1>2, <1>10, <3>2, TrivialRests
      <3>3. CASE d \notin passed /\ d = last
        BY <1>7, <1>8, <1>9, <3>3 DEF IsRest
      <3> QED  BY <3>1, <3>2, <3>3
    <2>2. keys' \in [Consoles -> Seq(Key)]
      <3>1. \A d \in Consoles : keys'[d] \in Seq(Key)
        BY <2>1 DEF IsRest, Without
      <3>2. keys' = [d \in Consoles |-> keys'[d]]
        BY <1>1
      <3> QED  BY <3>1, <3>2
    <2>3. IsRest(KeyQueue', KeyQueue)
      BY <1>1, <1>2, TrivialRests
    <2>4. made' = made
      BY <1>1 DEF Reads, physical
    <2> QED  BY <1>2, <2>1, <2>2, <2>3, <2>4, KeysDropped
  <1>12. \A e \in ToSet(KeyQueue) : e.partial
    BY <1>1, <1>2, FirstWholeFacts, ToSetFacts
  <1>13. \A e \in Present : ~e.partial =>
           /\ e.from \in Consoles /\ e.from \notin passed
           /\ e \in ToSet(keys[e.from])
    <2> SUFFICES ASSUME NEW e \in Present, ~e.partial
                 PROVE  /\ e.from \in Consoles /\ e.from \notin passed
                        /\ e \in ToSet(keys[e.from])
      OBVIOUS
    <2>1. e \in ToSet(keys[e.from]) /\ e.from \in Consoles
      BY <1>2, <1>12, PresentFacts, KeyFacts
    <2> QED  BY <1>6, <2>1
  <1>14. \A e \in Present : ~e.partial /\ e.from # last => e \in Present'
    <2> SUFFICES ASSUME NEW e \in Present, ~e.partial, e.from # last
                 PROVE  e \in Present'
      OBVIOUS
    <2>1. keys'[e.from] = keys[e.from]
      BY <1>10, <1>13
    <2>2. e \in Key
      BY <1>2, PresentFacts
    <2> QED  BY <1>13, <2>1, <2>2 DEF Present
  <1>15. CASE n = 0
    <2>1. Reads(NoKey) /\ result' = NoKey
      BY <1>1, <1>15 DEF Reads
    <2>2. \A e \in Present : ~e.partial => e \in Present'
      BY <1>8, <1>13, <1>14, <1>15
    <2>3. PendingExact'
      BY <1>11, <2>1, <2>2, ReadNone
    <2> QED  BY <1>11, <2>1, <2>3 DEF KeysInv, GoodRead
  <1>16. CASE n # 0
    <2>1. Reads(k) /\ result' = k
      BY <1>1, <1>16 DEF Reads
    <2>2. keys[last] \in Seq(Key) /\ last \in Consoles
      BY <1>2, <1>7, <1>16
    <2>3. k \in ToSet(keys[last]) /\ k \in Present /\ k.from = last
      <3>1. k \in ToSet(keys[last])
        BY <1>7, <1>16, <2>2, ToSetFacts
      <3> QED  BY <1>2, <2>2, <3>1, PresentFacts
    <2>4. \A e : e \in ToSet(keys'[last])
                   <=> \E j \in 1 .. Len(keys[last]) : j > i /\ keys[last][j] = e
      <3> HIDE DEF i
      <3> QED  BY <1>7, <1>9, <1>16, <2>2, RestFacts
    <2>5. \A j, m \in 1 .. Len(keys[last]) :
            j < m => keys[last][j].seq < keys[last][m].seq
      BY <1>2, <2>2 DEF KeysOrdered, Ascending
    <2>6. \A j \in 1 .. Len(keys[last]) : keys[last][j].seq \in Nat
      BY <2>2, KeyFacts
    <2>7. ASSUME NEW e \in Present, ~e.partial, e.from = last
          PROVE  /\ e \in Present' <=> e # k
                 /\ k.seq <= e.seq
      <3>1. PICK j \in 1 .. Len(keys[last]) : keys[last][j] = e
        BY <1>13, <2>2, <2>7, ToSetFacts
      <3>2. ~(j < i)
        BY <1>7, <1>16, <2>7, <3>1
      <3>3. i \in 1 .. Len(keys[last]) /\ i \in Nat /\ j \in Nat
        BY <1>7, <1>16
      <3> HIDE DEF i
      <3>4. j = i \/ j > i
        BY <3>2, <3>3
      <3>5. e \in Present' <=> e \in ToSet(keys'[last])
        <4>1. e \in Key /\ ToSet(KeyQueue') = {}
          BY <1>1, <1>2, PresentFacts DEF ToSet
        <4>2. ASSUME NEW d \in Consoles, e \in ToSet(keys'[d])
              PROVE  d = last
          <5>1. keys'[d] \in Seq(Key) /\ \A l \in ToSet(keys'[d]) : l.from = d
            BY <1>11 DEF KeysOrdered, KeyTypes
          <5> QED  BY <2>7, <4>2, <5>1
        <4> QED  BY <2>2, <4>1, <4>2 DEF Present
      <3>6. CASE j = i
        <4>1. e = k
          BY <3>1, <3>6
        <4>2. \A m \in 1 .. Len(keys[last]) : m > i => keys[last][m] # e
          <5> SUFFICES ASSUME NEW m \in 1 .. Len(keys[last]), m > i,
                              keys[last][m] = e
                       PROVE  FALSE
            OBVIOUS
          <5>1. i < m
            BY <3>3
          <5>2. keys[last][i].seq < keys[last][m].seq
            BY <2>5, <3>3, <5>1
          <5>3. keys[last][i] = keys[last][m] /\ keys[last][i].seq \in Nat
            BY <2>6, <3>1, <3>3, <3>6
          <5> QED  BY <5>2, <5>3
        <4>3. e \notin ToSet(keys'[last])
          BY <2>4, <4>2
        <4>4. k.seq <= e.seq
          BY <2>6, <3>3, <4>1
        <4> QED  BY <3>5, <4>1, <4>3, <4>4
      <3>7. CASE j > i
        <4>1. i < j /\ k.seq < e.seq /\ k.seq \in Nat /\ e.seq \in Nat
          BY <2>5, <2>6, <3>1, <3>3, <3>7
        <4>2. e # k /\ k.seq <= e.seq
          BY <4>1
        <4>3. e \in ToSet(keys'[last])
          BY <2>4, <3>1, <3>7
        <4> QED  BY <3>5, <4>2, <4>3
      <3> QED  BY <3>4, <3>6, <3>7
    <2>8. \A e \in Present : ~e.partial => (e \in Present' <=> e # k)
      <3> HIDE DEF k
      <3> QED  BY <1>14, <2>3, <2>7
    <2>9. PendingExact'
      <3> HIDE DEF k
      <3> QED  BY <1>11, <2>1, <2>3, <2>8, ReadOne
    <2>10. GoodRead
      <3> HIDE DEF k
      <3> QED  BY <2>1, <2>3, <2>7 DEF GoodRead, Oldest
    <2> QED  BY <1>11, <2>9, <2>10 DEF KeysInv
  <1> QED  BY <1>15, <1>16

\* The first key of each console is read; the first of those that are saved
\* is returned.
LEMMA ReadKeysEx ==
    ASSUME ListInv, KeysInv, ReadKeyStrokeEx
    PROVE  KeysInv' /\ GoodRead
  <1> DEFINE saved == SavedUpTo(NumberOfExConsoles)
             read == {d \in ToSet(TextInExList) : keys[d] # << >>}
  <1>1. /\ KeyQueue = << >>
        /\ keys' = [d \in Consoles |-> IF d \in read THEN Tail(keys[d])
                                       ELSE keys[d]]
        /\ saved = << >> => KeyQueue' = << >> /\ Reads(NoKey)
        /\ saved # << >> => KeyQueue' = Tail(saved) /\ Reads(Head(saved))
    BY DEF ReadKeyStrokeEx
  <1>2. /\ KeyQueue \in Seq(Key) /\ keys \in [Consoles -> Seq(Key)]
        /\ KeyTypes /\ KeysOrdered /\ KeysUnique
    BY DEF KeysInv, KeyTypes
  <1>3. /\ saved \in Seq(Key)
        /\ \A j \in 1 .. Len(saved) :
             /\ saved[j].from \in ToSet(TextInExList)
             /\ keys[saved[j].from] # << >>
             /\ saved[j] = Head(keys[saved[j].from])
        /\ \A d \in ToSet(TextInExList) :
             Saves(d) => \E j \in 1 .. Len(saved) : saved[j] = Head(keys[d])
        /\ \A i, j \in 1 .. Len(saved) : saved[i].from = saved[j].from => i = j
    BY <1>2, SavedFacts
  <1> HIDE DEF saved
  <1>4. read \subseteq Consoles /\ ToSet(TextInExList) \subseteq Consoles
    BY ToSetFacts DEF ListInv
  <1>5. /\ made' = made
        /\ saved = << >> => result' = NoKey
        /\ saved # << >> => result' = Head(saved)
    BY <1>1 DEF Reads, physical
  <1>6. \A d \in read : Without(keys'[d], keys[d], 1) /\ Head(keys[d]) = keys[d][1]
                        /\ Len(keys[d]) \in Nat \ {0} /\ keys[d] \in Seq(Key)
    BY <1>1, <1>2, <1>4, TailFacts
  <1>7. \A d \in Consoles : d \notin read => keys'[d] = keys[d]
    BY <1>1
  <1> HIDE DEF read
  <1>8. \A d \in Consoles : IsRest(keys'[d], keys[d]) /\ keys'[d] \in Seq(Key)
                            /\ ToSet(keys'[d]) \subseteq ToSet(keys[d])
                            /\ Ascending(keys'[d])
    <2> SUFFICES ASSUME NEW d \in Consoles
                 PROVE  IsRest(keys'[d], keys[d]) /\ keys'[d] \in Seq(Key)
                        /\ ToSet(keys'[d]) \subseteq ToSet(keys[d])
                        /\ Ascending(keys'[d])
      OBVIOUS
    <2>1. keys[d] \in Seq(Key) /\ Ascending(keys[d])
      BY <1>2 DEF KeysOrdered
    <2>2. CASE d \in read
      <3>1. Without(keys'[d], keys[d], 1) /\ 1 \in 0 .. Len(keys[d])
        BY <1>6, <2>2
      <3> QED  BY <2>1, <3>1, RestFacts
    <2>3. CASE d \notin read
      BY <1>7, <2>1, <2>3, TrivialRests
    <2> QED  BY <2>2, <2>3
  <1>9. keys' \in [Consoles -> Seq(Key)]
    BY <1>1, <1>8
  <1>10. \A e : \A d \in read : e \in ToSet(keys'[d])
                  <=> \E j \in 1 .. Len(keys[d]) : j > 1 /\ keys[d][j] = e
    <2> SUFFICES ASSUME NEW e, NEW d \in read
                 PROVE  e \in ToSet(keys'[d])
                          <=> \E j \in 1 .. Len(keys[d]) : j > 1 /\ keys[d][j] = e
      OBVIOUS
    <2>1. /\ Without(keys'[d], keys[d], 1) /\ 1 \in 0 .. Len(keys[d])
          /\ keys[d] \in Seq(Key)
      BY <1>6
    <2> QED  BY <2>1, RestFacts
  \* The first key of a console is the oldest that is there.
  <1>11. \A d \in read :
           /\ Head(keys[d]) \in ToSet(keys[d]) /\ Head(keys[d]) \in Present
           /\ Head(keys[d]).from = d
           /\ \A l \in ToSet(keys'[d]) : Head(keys[d]).seq < l.seq
           /\ \A l \in ToSet(keys[d]) : l = Head(keys[d]) \/ l \in ToSet(keys'[d])
    <2> SUFFICES ASSUME NEW d \in read
                 PROVE  /\ Head(keys[d]) \in ToSet(keys[d])
                        /\ Head(keys[d]) \in Present
                        /\ Head(keys[d]).from = d
                        /\ \A l \in ToSet(keys'[d]) : Head(keys[d]).seq < l.seq
                        /\ \A l \in ToSet(keys[d]) :
                             l = Head(keys[d]) \/ l \in ToSet(keys'[d])
      OBVIOUS
    <2>1. /\ d \in Consoles /\ keys[d] \in Seq(Key)
          /\ Head(keys[d]) = keys[d][1] /\ 1 \in 1 .. Len(keys[d])
      BY <1>4, <1>6
    <2>2. Head(keys[d]) \in ToSet(keys[d])
      BY <2>1, ToSetFacts
    <2>3. Head(keys[d]) \in Present /\ Head(keys[d]).from = d
      BY <1>2, <2>1, <2>2, PresentFacts
    <2>4. \A j \in 1 .. Len(keys[d]) : j > 1 => Head(keys[d]).seq < keys[d][j].seq
      <3>1. \A i, j \in 1 .. Len(keys[d]) :
              i < j => keys[d][i].seq < keys[d][j].seq
        BY <1>2, <2>1 DEF KeysOrdered, Ascending
      <3> QED  BY <2>1, <3>1
    <2>5. \A l \in ToSet(keys'[d]) : Head(keys[d]).seq < l.seq
      BY <1>10, <2>4
    <2>6. ASSUME NEW l \in ToSet(keys[d])
          PROVE  l = Head(keys[d]) \/ l \in ToSet(keys'[d])
      <3>1. PICK j \in 1 .. Len(keys[d]) : keys[d][j] = l
        BY <2>1, ToSetFacts
      <3>2. j = 1 \/ j > 1
        OBVIOUS
      <3> QED  BY <1>10, <2>1, <3>1, <3>2
    <2> QED  BY <2>2, <2>3, <2>5, <2>6
  <1>12. \A j \in 1 .. Len(saved) : saved[j].from \in read
                                    /\ saved[j] = Head(keys[saved[j].from])
    BY <1>3 DEF read
  <1>13. KeyQueue' \in Seq(Key)
    <2>1. CASE saved = << >>
      <3>1. KeyQueue' = << >>
        BY <1>1, <2>1
      <3> QED  BY <3>1
    <2>2. CASE saved # << >>
      <3>1. Without(Tail(saved), saved, 1)
        BY <1>3, <2>2, TailFacts
      <3>2. KeyQueue' = Tail(saved)
        BY <1>1, <2>2
      <3> QED  BY <3>1, <3>2 DEF Without
    <2> QED  BY <2>1, <2>2
  <1>14. saved # << >> =>
           /\ Head(saved) = saved[1] /\ 1 \in 1 .. Len(saved)
           /\ Len(KeyQueue') = Len(saved) - 1
           /\ \A i \in 1 .. Len(KeyQueue') : /\ KeyQueue'[i] = saved[i + 1]
                                             /\ i + 1 \in 1 .. Len(saved)
           /\ \A i \in 1 .. Len(saved) : i # 1 => /\ i - 1 \in 1 .. Len(KeyQueue')
                                                  /\ KeyQueue'[i - 1] = saved[i]
    BY <1>1, <1>3
  <1>15. saved = << >> => Len(KeyQueue') = 0 /\ ToSet(KeyQueue') = {}
    BY <1>1 DEF ToSet
  <1>16. \A k \in ToSet(KeyQueue') :
           saved # << >> /\ \E i \in 1 .. Len(saved) : i # 1 /\ saved[i] = k
    <2> SUFFICES ASSUME NEW k \in ToSet(KeyQueue')
                 PROVE  /\ saved # << >>
                        /\ \E i \in 1 .. Len(saved) : i # 1 /\ saved[i] = k
      OBVIOUS
    <2>1. saved # << >>
      BY <1>15
    <2>2. PICK i \in 1 .. Len(KeyQueue') : KeyQueue'[i] = k
      BY <1>13, ToSetFacts
    <2>3. i + 1 \in 1 .. Len(saved) /\ i + 1 # 1 /\ saved[i + 1] = k
      BY <1>14, <2>1, <2>2
    <2> QED  BY <2>1, <2>3
  <1>17. \A k \in ToSet(KeyQueue') : /\ k.from \in read
                                     /\ k = Head(keys[k.from])
    BY <1>12, <1>16
  <1>18. KeyTypes'
    BY <1>2, <1>5, <1>9, <1>13 DEF KeyTypes
  <1>19. Present' \subseteq Present
    BY <1>8, <1>11, <1>17 DEF Present
  <1>20. KeysUnique'
    BY <1>2, <1>5, <1>19 DEF KeysUnique
  <1>21. KeysOrdered'
    <2>1. \A d \in Consoles : /\ \A k \in ToSet(keys'[d]) : k.from = d
                              /\ Ascending(keys'[d])
      BY <1>2, <1>8 DEF KeysOrdered
    <2>2. \A k \in ToSet(KeyQueue') : \A l \in ToSet(keys'[k.from]) : k.seq < l.seq
      <3> SUFFICES ASSUME NEW k \in ToSet(KeyQueue'), NEW l \in ToSet(keys'[k.from])
                   PROVE  k.seq < l.seq
        OBVIOUS
      <3>1. k.from \in read /\ k = Head(keys[k.from])
        BY <1>17
      <3>2. Head(keys[k.from]).seq < l.seq
        BY <1>11, <3>1
      <3> QED  BY <3>1, <3>2
    <2>3. ASSUME NEW i \in 1 .. Len(KeyQueue'), NEW j \in 1 .. Len(KeyQueue'),
                 KeyQueue'[i].from = KeyQueue'[j].from
          PROVE  i = j
      <3>1. saved # << >>
        BY <1>15
      <3>2. /\ i + 1 \in 1 .. Len(saved) /\ KeyQueue'[i] = saved[i + 1]
            /\ j + 1 \in 1 .. Len(saved) /\ KeyQueue'[j] = saved[j + 1]
        BY <1>14, <3>1
      <3>3. i + 1 = j + 1
        BY <1>3, <2>3, <3>2
      <3> QED  BY <3>3
    <2> QED  BY <2>1, <2>2, <2>3 DEF KeysOrdered
  \* A whole key that was there is still there, unless it is returned.
  <1>22. ASSUME NEW l \in Present, ~l.partial
         PROVE  \/ l \in Present'
                \/ saved # << >> /\ l = saved[1]
    <2>1. /\ l \in Key /\ l.from \in Consoles /\ l \in ToSet(keys[l.from])
      <3>1. ToSet(KeyQueue) = {}
        BY <1>1 DEF ToSet
      <3> QED  BY <1>2, <3>1, PresentFacts, KeyFacts
    <2>2. CASE l.from \notin read
      BY <1>7, <2>1, <2>2 DEF Present
    <2>3. CASE l.from \in read /\ l \in ToSet(keys'[l.from])
      BY <2>1, <2>3 DEF Present
    <2>4. CASE l.from \in read /\ l = Head(keys[l.from])
      <3>1. l.from \in ToSet(TextInExList) /\ Saves(l.from)
        BY <1>22, <2>4 DEF Saves, read
      <3>2. PICK j \in 1 .. Len(saved) : saved[j] = l
        BY <1>3, <2>4, <3>1
      <3>3. saved # << >>
        BY <3>2
      <3>4. CASE j = 1
        BY <3>2, <3>3, <3>4
      <3>5. CASE j # 1
        <4>1. j - 1 \in 1 .. Len(KeyQueue') /\ KeyQueue'[j - 1] = l
          BY <1>14, <3>2, <3>3, <3>5
        <4>2. l \in ToSet(KeyQueue')
          BY <1>13, <4>1, ToSetFacts
        <4> QED  BY <2>1, <4>2 DEF Present
      <3> QED  BY <3>4, <3>5
    <2> QED  BY <1>11, <2>1, <2>2, <2>3, <2>4
  <1>23. CASE saved = << >>
    <2>1. Reads(NoKey) /\ \A l \in Present : ~l.partial => l \in Present'
      BY <1>1, <1>22, <1>23
    <2>2. PendingExact'
      BY <1>19, <2>1, ReadNone
    <2>3. GoodRead
      BY <1>5, <1>23 DEF GoodRead
    <2> QED  BY <1>18, <1>20, <1>21, <2>2, <2>3 DEF KeysInv
  <1>24. CASE saved # << >>
    <2> DEFINE k == saved[1]
    <2>1. Reads(k) /\ result' = k
      BY <1>1, <1>5, <1>14, <1>24
    <2>2. k.from \in read /\ k = Head(keys[k.from]) /\ k \in Present
          /\ k.seq \in Nat
      <3>1. k.from \in read /\ k = Head(keys[k.from])
        BY <1>12, <1>14, <1>24
      <3>2. k \in Present
        BY <1>11, <3>1
      <3> QED  BY <1>2, <3>1, <3>2, PresentFacts
    <2>3. k \notin Present'
      <3> SUFFICES ASSUME k \in Present' PROVE FALSE
        OBVIOUS
      <3>1. CASE k \in ToSet(KeyQueue')
        <4>1. PICK i \in 1 .. Len(saved) : i # 1 /\ saved[i] = k
          BY <1>16, <3>1
        <4>2. i = 1
          BY <1>3, <1>14, <1>24, <4>1
        <4> QED  BY <4>1, <4>2
      <3>2. CASE k \notin ToSet(KeyQueue')
        <4>1. PICK d \in Consoles : k \in ToSet(keys'[d])
          BY <3>2 DEF Present
        <4>2. k.from = d
          BY <1>21, <4>1 DEF KeysOrdered
        <4>3. Head(keys[d]).seq < k.seq
          BY <1>11, <2>2, <4>1, <4>2
        <4>4. k.seq < k.seq
          BY <2>2, <4>2, <4>3
        <4> QED  BY <2>2, <4>4
      <3> QED  BY <3>1, <3>2
    <2>4. \A l \in Present : ~l.partial => (l \in Present' <=> l # k)
      BY <1>22, <2>3
    <2>5. ASSUME NEW l \in Present, l.from = k.from
          PROVE  k.seq <= l.seq
      <3>1. l \in ToSet(keys[k.from]) /\ l.seq \in Nat
        <4>1. ToSet(KeyQueue) = {}
          BY <1>1 DEF ToSet
        <4> QED  BY <1>2, <2>5, <4>1, PresentFacts
      <3>2. l = k \/ k.seq < l.seq
        BY <1>11, <2>2, <3>1
      <3> QED  BY <2>2, <3>1, <3>2
    <2> HIDE DEF k
    <2>6. PendingExact'
      BY <1>19, <2>1, <2>2, <2>4, ReadOne
    <2>7. GoodRead
      BY <2>1, <2>2, <2>5 DEF GoodRead, Oldest
    <2> QED  BY <1>18, <1>20, <1>21, <2>6, <2>7 DEF KeysInv
  <1> QED  BY <1>23, <1>24

\* A key is pressed: it is the youngest of all.
LEMMA PressKey ==
    ASSUME KeysInv, NEW d \in Consoles, KeyPressed(d)
    PROVE  KeysInv'
  <1> DEFINE s == made + 1
  <1>1. /\ made < MaxKeys /\ made' = s /\ KeyQueue' = KeyQueue
        /\ \E partial \in BOOLEAN :
             /\ keys' = [keys EXCEPT ![d] =
                           Append(@, [from |-> d, seq |-> s, partial |-> partial])]
             /\ pending' = IF partial THEN pending
                           ELSE [pending EXCEPT ![d] = @ \union {s}]
    BY DEF KeyPressed
  <1>2. PICK partial \in BOOLEAN :
          /\ keys' = [keys EXCEPT ![d] =
                        Append(@, [from |-> d, seq |-> s, partial |-> partial])]
          /\ pending' = IF partial THEN pending
                        ELSE [pending EXCEPT ![d] = @ \union {s}]
    BY <1>1
  <1> DEFINE k == [from |-> d, seq |-> s, partial |-> partial]
  <1>3. /\ KeyQueue \in Seq(Key) /\ keys \in [Consoles -> Seq(Key)]
        /\ KeyTypes /\ KeysOrdered /\ KeysUnique /\ made \in 0 .. MaxKeys
        /\ pending = [e \in Consoles |-> WholeFrom(e)]
    BY DEF KeysInv, KeyTypes, PendingExact
  <1>4. s \in 1 .. MaxKeys /\ made' \in 0 .. MaxKeys /\ made \in Nat
        /\ MaxKeys \in Nat /\ made <= s /\ made < s
    BY <1>1, <1>3, SplitterAssumption
  <1>5. k \in Key /\ k.from = d /\ k.seq = s /\ k.partial = partial
    <2> HIDE DEF s
    <2> QED  BY <1>2, <1>4, KeyFacts
  <1>6. keys' = [keys EXCEPT ![d] = Append(keys[d], k)]
    BY <1>2
  <1> HIDE DEF k, s
  <1>7. /\ keys[d] \in Seq(Key) /\ Append(keys[d], k) \in Seq(Key)
        /\ keys' \in [Consoles -> Seq(Key)] /\ keys'[d] = Append(keys[d], k)
        /\ \A e \in Consoles : e # d => keys'[e] = keys[e]
    BY <1>3, <1>5, <1>6
  <1>8. ToSet(keys'[d]) = ToSet(keys[d]) \union {k}
    BY <1>5, <1>7, ToSetFacts
  <1>9. KeyTypes'
    BY <1>1, <1>3, <1>4, <1>7 DEF KeyTypes
  <1>10. Present' = Present \union {k}
    <2>1. \A e \in Key : (\E c \in Consoles : e \in ToSet(keys'[c]))
                          <=> (\E c \in Consoles : e \in ToSet(keys[c])) \/ e = k
      BY <1>7, <1>8
    <2> QED  BY <1>1, <1>5, <2>1 DEF Present
  <1>11. \A l \in Present : l.seq < s /\ l.seq \in Nat /\ l \in Key
    <2>1. \A l \in Present : l.seq \in Nat /\ l.seq <= made /\ l \in Key
      BY <1>3, PresentFacts DEF KeysUnique
    <2> QED  BY <1>4, <2>1
  <1>12. KeysUnique'
    <2>1. \A l \in Present' : l.seq <= made'
      BY <1>1, <1>4, <1>5, <1>10, <1>11
    <2>2. ASSUME NEW l \in Present', NEW m \in Present', l.seq = m.seq
          PROVE  l = m
      <3>1. ~(s < s)
        BY <1>4
      <3> QED  BY <1>3, <1>5, <1>10, <1>11, <2>2, <3>1 DEF KeysUnique
    <2> QED  BY <2>1, <2>2 DEF KeysUnique
  <1>13. KeysOrdered'
    <2>1. ASSUME NEW e \in Consoles
          PROVE  (\A l \in ToSet(keys'[e]) : l.from = e) /\ Ascending(keys'[e])
      <3>1. CASE e = d
        <4>1. \A l \in ToSet(keys'[e]) : l.from = e
          BY <1>3, <1>5, <1>8, <3>1 DEF KeysOrdered
        <4>2. /\ Len(keys'[d]) = Len(keys[d]) + 1 /\ Len(keys[d]) \in Nat
              /\ keys'[d][Len(keys[d]) + 1] = k
              /\ \A i \in 1 .. Len(keys[d]) : keys'[d][i] = keys[d][i]
          BY <1>5, <1>7
        <4>3. \A i \in 1 .. Len(keys[d]) : keys[d][i].seq < s
          <5>1. \A i \in 1 .. Len(keys[d]) : keys[d][i] \in ToSet(keys[d])
            BY <1>7, ToSetFacts
          <5> QED  BY <1>3, <1>11, <5>1, PresentFacts
        <4>4. ASSUME NEW i \in 1 .. Len(keys'[d]), NEW j \in 1 .. Len(keys'[d]),
                     i < j
              PROVE  keys'[d][i].seq < keys'[d][j].seq
          <5>1. i \in 1 .. Len(keys[d])
            BY <4>2, <4>4
          <5>2. CASE j = Len(keys[d]) + 1
            BY <1>5, <4>2, <4>3, <5>1, <5>2
          <5>3. CASE j \in 1 .. Len(keys[d])
            <6>1. keys[d][i].seq < keys[d][j].seq
              BY <1>3, <4>4, <5>1, <5>3 DEF KeysOrdered, Ascending
            <6> QED  BY <4>2, <5>1, <5>3, <6>1
          <5> QED  BY <4>2, <5>2, <5>3
        <4> QED  BY <3>1, <4>1, <4>4 DEF Ascending
      <3>2. CASE e # d
        BY <1>3, <1>7, <3>2 DEF KeysOrdered
      <3> QED  BY <3>1, <3>2
    <2>2. ASSUME NEW l \in ToSet(KeyQueue'), NEW m \in ToSet(keys'[l.from])
          PROVE  l.seq < m.seq
      <3>1. l \in ToSet(KeyQueue) /\ l \in Present /\ l.from \in Consoles
        BY <1>1, <1>3, PresentFacts, KeyFacts
      <3>2. CASE m \in ToSet(keys[l.from])
        BY <1>3, <3>1, <3>2 DEF KeysOrdered
      <3>3. CASE m \notin ToSet(keys[l.from])
        <4>1. m = k
          BY <1>7, <1>8, <2>2, <3>1, <3>3
        <4> QED  BY <1>5, <1>11, <3>1, <4>1
      <3> QED  BY <3>2, <3>3
    <2>3. \A i, j \in 1 .. Len(KeyQueue') :
            KeyQueue'[i].from = KeyQueue'[j].from => i = j
      BY <1>1, <1>3 DEF KeysOrdered
    <2> QED  BY <2>1, <2>2, <2>3 DEF KeysOrdered
  <1>14. PendingExact'
    <2>1. ASSUME NEW e \in Consoles
          PROVE  pending'[e] = WholeFrom(e)'
      <3>1. CASE partial \/ e # d
        <4>1. pending'[e] = WholeFrom(e)
          BY <1>2, <1>3, <3>1
        <4>2. WholeFrom(e)' = WholeFrom(e)
          BY <1>5, <1>10, <3>1 DEF WholeFrom
        <4> QED  BY <4>1, <4>2
      <3>2. CASE ~partial /\ e = d
        <4>1. pending'[e] = WholeFrom(e) \union {s}
          BY <1>2, <1>3, <3>2
        <4>2. WholeFrom(e)' = WholeFrom(e) \union {s}
          BY <1>4, <1>5, <1>10, <3>2 DEF WholeFrom
        <4> QED  BY <4>1, <4>2
      <3> QED  BY <3>1, <3>2
    <2>2. pending' = [e \in Consoles |-> pending'[e]]
      BY <1>2, <1>3
    <2> QED  BY <2>1, <2>2 DEF PendingExact
  <1> QED  BY <1>9, <1>12, <1>13, <1>14 DEF KeysInv

\* The saved keys are dropped.
LEMMA SavedDropped ==
    ASSUME KeysInv, ResetEnds
    PROVE  KeysInv'
  <1>1. /\ KeyQueue' = << >> /\ keys' = keys /\ made' = made
        /\ pending' = [d \in Consoles |-> pending[d] \intersect Whole(keys[d])]
    BY DEF ResetEnds, LoopStep, physical
  <1>2. /\ KeyQueue \in Seq(Key) /\ keys \in [Consoles -> Seq(Key)]
        /\ KeyTypes /\ KeysOrdered /\ KeysUnique
        /\ pending = [e \in Consoles |-> WholeFrom(e)]
    BY DEF KeysInv, KeyTypes, PendingExact
  <1>3. /\ KeyTypes' /\ KeysOrdered' /\ KeysUnique'
        /\ Present' \subseteq Present
    <2>1. /\ \A d \in Consoles : IsRest(keys'[d], keys[d])
          /\ IsRest(KeyQueue', KeyQueue)
      BY <1>1, <1>2, TrivialRests
    <2> QED  BY <1>1, <1>2, <2>1, KeysDropped
  <1> DEFINE T == ToSet(KeyQueue)
  <1>4. \A k \in Present : k \in Present' <=> k \notin T
    <2>1. ToSet(KeyQueue') = {}
      BY <1>1 DEF ToSet
    <2>2. \A k \in Present : k \in Present' <=> k \in ToSet(keys[k.from])
      <3>1. \A k \in Present : k.from \in Consoles /\ k \in Key
        BY <1>2, PresentFacts, KeyFacts
      <3>2. \A d \in Consoles : \A k \in ToSet(keys[d]) : k.from = d
        BY <1>2 DEF KeysOrdered
      <3> QED  BY <1>1, <2>1, <3>1, <3>2 DEF Present
    <2> QED  BY <1>2, <2>2, PresentFacts
  <1>5. ASSUME NEW d \in Consoles
        PROVE  pending'[d] = {s \in pending[d] : \A k \in Present :
                                k.seq = s /\ k.from = d => k \notin T}
    <2>1. pending'[d] = pending[d] \intersect Whole(keys[d])
      BY <1>1
    <2>2. ASSUME NEW s \in pending[d]
          PROVE  s \in Whole(keys[d])
                   <=> \A k \in Present : k.seq = s /\ k.from = d => k \notin T
      <3>1. s \in WholeFrom(d)
        BY <1>2
      <3>2. PICK k \in Present : k.from = d /\ ~k.partial /\ k.seq = s
        BY <3>1 DEF WholeFrom
      <3>3. \A l \in Present : l.seq = s => l = k
        BY <1>2, <3>2 DEF KeysUnique
      <3>4. s \in Whole(keys[d])
              <=> \E l \in ToSet(keys[d]) : ~l.partial /\ l.seq = s
        BY <1>2, WholeFacts
      <3>5. s \in Whole(keys[d]) <=> k \in ToSet(keys[d])
        BY <1>2, <3>2, <3>3, <3>4, PresentFacts
      <3>6. k \in ToSet(keys[d]) <=> k \notin T
        BY <1>2, <3>2, PresentFacts
      <3> HIDE DEF T
      <3> QED  BY <3>2, <3>3, <3>5, <3>6
    <2> HIDE DEF T
    <2> QED  BY <2>1, <2>2
  <1>6. pending' = [d \in Consoles |->
                      {s \in pending[d] : \A k \in Present :
                         k.seq = s /\ k.from = d => k \notin T}]
    <2>1. pending' = [d \in Consoles |-> pending'[d]]
      BY <1>1
    <2> HIDE DEF T
    <2> QED  BY <1>5, <2>1
  <1>7. PendingExact'
    <2> HIDE DEF T
    <2> QED  BY <1>3, <1>4, <1>6, PendingAfter
  <1> QED  BY <1>3, <1>7 DEF KeysInv

\* Every step keeps the invariant of the keys.
LEMMA NextKeysInv == ListInv /\ KeysInv /\ [Next]_vars => KeysInv'
  <1> SUFFICES ASSUME ListInv, KeysInv, [Next]_vars PROVE KeysInv'
    OBVIOUS
  <1>0. keys \in [Consoles -> Seq(Key)] /\ pending = [d \in Consoles |-> pending[d]]
    BY DEF KeysInv, KeyTypes, PendingExact
  <1>1. CASE UNCHANGED keyVars
    <2>1. keys' = keys /\ KeyQueue' = KeyQueue /\ made' = made
          /\ pending' = pending
      BY <1>1 DEF keyVars
    <2>2. Present' = Present
      BY <2>1 DEF Present, ToSet
    <2>3. KeyTypes' /\ KeysUnique'
      BY <2>1, <2>2 DEF KeysInv, KeyTypes, KeysUnique
    <2>4. KeysOrdered'
      BY <2>1 DEF KeysInv, KeysOrdered, Ascending, ToSet
    <2>5. PendingExact'
      BY <2>1, <2>2 DEF KeysInv, PendingExact, WholeFrom
    <2> QED  BY <2>3, <2>4, <2>5 DEF KeysInv
  <1>2. ASSUME NEW d \in Consoles, ConsoleStops(d)
        PROVE  KeysInv'
    <2> DEFINE done == {d}
    <2>1. /\ KeyQueue' = KeyQueue /\ made' = made
          /\ keys' = [keys EXCEPT ![d] = << >>]
          /\ pending' = [pending EXCEPT ![d] = @ \intersect Whole(KeyQueue)]
      BY <1>2 DEF ConsoleStops
    <2>2. keys' = [e \in Consoles |-> IF e \in done THEN << >> ELSE keys[e]]
      BY <1>0, <2>1
    <2>3. pending' = [e \in Consoles |->
                        IF e \in done THEN pending[e] \intersect Whole(KeyQueue)
                        ELSE pending[e]]
      <3> DEFINE W == Whole(KeyQueue)
      <3>1. pending' = [pending EXCEPT ![d] = pending[d] \intersect W]
        BY <2>1
      <3> HIDE DEF W
      <3>2. pending' = [e \in Consoles |->
                          IF e \in done THEN pending[e] \intersect W
                          ELSE pending[e]]
        BY <1>0, <3>1
      <3> QED  BY <3>2 DEF W
    <2>4. done \subseteq Consoles
      OBVIOUS
    <2> HIDE DEF done
    <2> QED  BY <2>1, <2>2, <2>3, <2>4, ConsolesDropped
  <1>3. ASSUME NEW d \in Consoles,
               StartWithoutMemory(d) \/ StartRefused(d) \/ StartDone(d)
        PROVE  KeysInv'
    <2> DEFINE D == {d}
    <2>1. /\ KeyQueue' = KeyQueue /\ pending' = pending /\ made' = made
          /\ keys' = [keys EXCEPT ![d] = Checked(@)]
      BY <1>3 DEF StartWithoutMemory, StartRefused, StartDone, physical
    <2>2. keys' = [e \in Consoles |-> IF e \in D THEN Checked(keys[e])
                                      ELSE keys[e]]
      BY <1>0, <2>1
    <2> HIDE DEF D
    <2> QED  BY <2>1, <2>2, PartialDropped
  <1>4. CASE WaitForKey
    <2>1. KeyQueue' = KeyQueue /\ pending' = pending /\ made' = made
      BY <1>4 DEF WaitForKey, physical
    <2>2. \E D : keys' = [e \in Consoles |-> IF e \in D THEN Checked(keys[e])
                                             ELSE keys[e]]
      <3>1. CASE KeyEventSignalState
        <4>1. keys' = keys
          BY <1>4, <3>1 DEF WaitForKey
        <4> DEFINE D == {}
        <4>2. keys' = [e \in Consoles |-> IF e \in D THEN Checked(keys[e])
                                          ELSE keys[e]]
          BY <1>0, <4>1
        <4> HIDE DEF D
        <4> QED  BY <4>2
      <3>2. CASE ~KeyEventSignalState
        <4> DEFINE D == ToSet(TextInList)
        <4>1. keys' = [e \in Consoles |-> IF e \in D THEN Checked(keys[e])
                                          ELSE keys[e]]
          BY <1>4, <3>2 DEF WaitForKey
        <4> HIDE DEF D
        <4> QED  BY <4>1
      <3> QED  BY <3>1, <3>2
    <2> QED  BY <2>1, <2>2, PartialDropped
  <1>5. CASE Reset
    <2>1. KeyQueue' = KeyQueue /\ made' = made
      BY <1>5 DEF Reset, physical
    <2>2. PICK list \in {TextInList, TextInExList} :
            \E failed \in SUBSET ToSet(list) :
              LET done == ToSet(list) \ failed
              IN  /\ keys' = [d \in Consoles |-> IF d \in done THEN << >>
                                                 ELSE keys[d]]
                  /\ pending' = [d \in Consoles |->
                                   IF d \in done
                                   THEN pending[d] \intersect Whole(KeyQueue)
                                   ELSE pending[d]]
      BY <1>5 DEF Reset
    <2>3. PICK failed \in SUBSET ToSet(list) :
            LET done == ToSet(list) \ failed
            IN  /\ keys' = [d \in Consoles |-> IF d \in done THEN << >>
                                               ELSE keys[d]]
                /\ pending' = [d \in Consoles |->
                                 IF d \in done
                                 THEN pending[d] \intersect Whole(KeyQueue)
                                 ELSE pending[d]]
      BY <2>2
    <2> DEFINE done == ToSet(list) \ failed
    <2>4. /\ keys' = [d \in Consoles |-> IF d \in done THEN << >> ELSE keys[d]]
          /\ pending' = [d \in Consoles |->
                           IF d \in done
                           THEN pending[d] \intersect Whole(KeyQueue)
                           ELSE pending[d]]
      BY <2>3
    <2>5. done \subseteq Consoles
      <3>1. list \in Seq(Consoles)
        BY DEF ListInv
      <3> QED  BY <3>1, ToSetFacts
    <2> HIDE DEF done
    <2> QED  BY <2>1, <2>4, <2>5, ConsolesDropped
  <1>6. ASSUME NEW d \in Consoles, KeyPressed(d) PROVE KeysInv'
    BY <1>6, PressKey
  <1>7. CASE ReadSavedKeyStroke \/ ReadKeyStroke \/ ReadSavedKeyStrokeEx
             \/ ReadKeyStrokeEx \/ ResetEnds
    BY <1>7, ReadSavedKeys, ReadKeys, ReadSavedKeysEx, ReadKeysEx, SavedDropped
  <1> QED  BY <1>1, <1>2, <1>3, <1>4, <1>5, <1>6, <1>7, KeySteps

LEMMA InitKeys == Init => KeysInv
  <1> SUFFICES ASSUME Init PROVE KeysInv
    OBVIOUS
  <1>1. /\ KeyQueue = << >> /\ keys = [d \in Consoles |-> << >>] /\ made = 0
        /\ pending = [d \in Consoles |-> {}]
    BY DEF Init
  <1>2. ToSet(<< >>) = {}
    BY DEF ToSet
  <1>3. Present = {}
    BY <1>1, <1>2 DEF Present
  <1>4. KeyTypes
    BY <1>1, SplitterAssumption DEF KeyTypes
  <1>5. KeysOrdered
    BY <1>1, <1>2 DEF KeysOrdered, Ascending
  <1>6. KeysUnique
    BY <1>3 DEF KeysUnique
  <1>7. PendingExact
    BY <1>1, <1>3 DEF PendingExact, WholeFrom
  <1> QED  BY <1>4, <1>5, <1>6, <1>7 DEF KeysInv

THEOREM KeysInductive == Spec => [](ListInv /\ KeysInv)
  <1>1. ListInv /\ KeysInv /\ [Next]_vars => (ListInv /\ KeysInv)'
    BY NextListInv, NextKeysInv
  <1>2. Init => ListInv /\ KeysInv
    BY InitLists, InitKeys
  <1> QED  BY <1>1, <1>2, PTL DEF Spec

\* NoKeyLost, for any number of consoles and keys.
THEOREM KeysKept == Spec => []NoKeyLost
  <1>1. KeysInv => NoKeyLost
    <2> SUFFICES ASSUME KeysInv, NEW d \in Consoles, NEW s \in pending[d]
                 PROVE  \/ s \in Whole(keys[d])
                        \/ s \in {KeyQueue[i].seq : i \in {j \in DOMAIN KeyQueue :
                                KeyQueue[j].from = d /\ ~KeyQueue[j].partial}}
      BY Zenon DEF NoKeyLost
    <2>1. PICK k \in Present : k.from = d /\ ~k.partial /\ k.seq = s
      BY DEF KeysInv, PendingExact, WholeFrom
    <2>2. KeyTypes /\ KeysOrdered
      BY DEF KeysInv
    <2>3. keys[d] \in Seq(Key) /\ KeyQueue \in Seq(Key)
      BY <2>2 DEF KeyTypes
    <2>4. CASE k \in ToSet(KeyQueue)
      <3>1. PICK i \in 1 .. Len(KeyQueue) : KeyQueue[i] = k
        BY <2>3, <2>4, ToSetFacts
      <3>2. i \in DOMAIN KeyQueue
        BY <2>3
      <3> QED  BY <2>1, <3>1, <3>2
    <2>5. CASE k \notin ToSet(KeyQueue)
      <3>1. k \in ToSet(keys[d])
        BY <2>1, <2>2, <2>5, PresentFacts
      <3> QED  BY <2>1, <2>3, <3>1, WholeFacts
    <2> QED  BY <2>4, <2>5
  <1> QED  BY <1>1, KeysInductive, PTL

\* Only the reads return a key.
LEMMA ReadSteps ==
    ASSUME Next, call' = "read"
    PROVE  \/ ReadSavedKeyStroke \/ ReadKeyStroke
           \/ ReadSavedKeyStrokeEx \/ ReadKeyStrokeEx
  BY DEF Next, Returns, LoopStep, ConsoleStarts, ConsoleStops, KeyPressed,
         StartWithoutTextIn, StartWithoutMemory, StartRefused, StartDone,
         ConInDriverBindingStop, ToggleStateSyncKeyNotify, WaitForKey,
         RegisterKeyNotify, RegisterFails, UnregisterKeyNotify, Reset,
         ReInitializeOne, ResetEnds, SetState, SetStateOne, SetStateEnds

\* KeysInOrder, whichever of the two protocols is read, in any mixture.
THEOREM KeysReadInOrder == Spec => KeysInOrder
  <1> DEFINE InOrder == result' # NoKey /\ call' = "read" /\ ~result'.partial =>
                          /\ result'.seq \in pending[result'.from]
                          /\ \A s \in pending[result'.from] : result'.seq <= s
  <1>1. ListInv /\ KeysInv /\ [Next]_vars => [InOrder]_vars
    <2> SUFFICES ASSUME ListInv, KeysInv, Next, result' # NoKey, call' = "read",
                        ~result'.partial
                 PROVE  /\ result'.seq \in pending[result'.from]
                        /\ \A s \in pending[result'.from] : result'.seq <= s
      BY Zenon
    <2>1. GoodRead
      BY ReadSteps, ReadSavedKeys, ReadKeys, ReadSavedKeysEx, ReadKeysEx
    <2> DEFINE k == result'
    <2>2. k \in Present /\ Oldest(k) /\ ~k.partial
      BY <2>1 DEF GoodRead
    <2> HIDE DEF k
    <2>3. k \in Key
      BY <2>2 DEF Present
    <2>4. k.from \in Consoles /\ k.seq \in 1 .. MaxKeys
      BY <2>3 DEF Key
    <2>5. pending[k.from] = WholeFrom(k.from)
      BY <2>4 DEF KeysInv, PendingExact
    <2>6. k.seq \in WholeFrom(k.from)
      BY <2>2, <2>4 DEF WholeFrom
    <2>7. \A s \in WholeFrom(k.from) : k.seq <= s
      BY <2>2 DEF WholeFrom, Oldest
    <2> USE DEF k
    <2> QED  BY <2>5, <2>6, <2>7
  <1>2. Spec => [][InOrder]_vars
    BY <1>1, KeysInductive, PTL DEF Spec
  <1> QED  BY <1>2 DEF KeysInOrder

-----------------------------------------------------------------------------
(* The signal of WaitForKey.                                               *)

\* A reset clears the signal, and nothing sets it before the reset ends.
SignalInv ==
    /\ KeyEventSignalState \in BOOLEAN /\ deserted \in BOOLEAN
    /\ setting.op = "Reset" => ~KeyEventSignalState
    /\ SignalledKeyStays

signalVars == <<KeyEventSignalState, deserted, setting, KeyQueue, keys,
                TextInList>>

LEMMA SignalSteps ==
    ASSUME [Next]_vars
    PROVE  \/ UNCHANGED signalVars
           \/ \E d \in Consoles :
                \/ ConsoleStops(d) \/ KeyPressed(d) \/ StartWithoutMemory(d)
                \/ StartRefused(d) \/ StartDone(d) \/ ConInDriverBindingStop(d)
                \/ \E t \in Toggles : ToggleStateSyncKeyNotify(d, t)
           \/ ReadSavedKeyStroke \/ ReadKeyStroke
           \/ ReadSavedKeyStrokeEx \/ ReadKeyStrokeEx \/ WaitForKey
           \/ Reset \/ ReInitializeOne \/ ResetEnds
           \/ \E t \in Toggles, exported \in BOOLEAN : SetState(t, exported)
           \/ SetStateOne \/ SetStateEnds
  BY DEF Next, vars, lists, states, physical, signal, queues, notifies,
         signalVars, ConsoleStarts, StartWithoutTextIn, RegisterKeyNotify,
         RegisterFails, UnregisterKeyNotify

\* Whether a queue has a whole key depends on its keys alone.
LEMMA HasWhole ==
    ASSUME NEW q \in Seq(Key)
    PROVE  FirstWhole(q) # 0 <=> \E k \in ToSet(q) : ~k.partial
  BY FirstWholeFacts, ToSetFacts

\* While the signal is set, the whole keys of the listed consoles stay.
LEMMA SignalKept ==
    ASSUME ListInv, ListInv', KeyTypes, KeyTypes', SignalInv,
           KeyEventSignalState' \in BOOLEAN, deserted' \in BOOLEAN,
           KeyEventSignalState' => KeyEventSignalState,
           KeyEventSignalState' /\ ~deserted' =>
             /\ ~deserted
             /\ ToSet(TextInList) \subseteq ToSet(TextInList')
             /\ KeyQueue # << >> => KeyQueue' # << >>
             /\ \A d \in ToSet(TextInList) : \A k \in ToSet(keys[d]) :
                  ~k.partial => k \in ToSet(keys'[d]),
           setting'.op = "Reset" => ~KeyEventSignalState'
    PROVE  SignalInv'
  <1>1. ASSUME KeyEventSignalState', ~deserted'
        PROVE  \/ KeyQueue' # << >>
               \/ \E d \in ToSet(TextInList') : FirstWhole(keys'[d]) # 0
    <2>1. CASE KeyQueue # << >>
      BY <1>1, <2>1
    <2>2. CASE KeyQueue = << >>
      <3>1. PICK d \in ToSet(TextInList) : FirstWhole(keys[d]) # 0
        BY <1>1, <2>2 DEF SignalInv, SignalledKeyStays
      <3>2. d \in Consoles /\ d \in ToSet(TextInList')
        BY <1>1, ToSetFacts DEF ListInv
      <3>3. keys[d] \in Seq(Key) /\ keys'[d] \in Seq(Key)
        BY <3>2 DEF KeyTypes
      <3>4. PICK k \in ToSet(keys[d]) : ~k.partial
        BY <3>1, <3>3, HasWhole
      <3>5. k \in ToSet(keys'[d])
        BY <1>1, <3>4
      <3>6. FirstWhole(keys'[d]) # 0
        BY <3>3, <3>4, <3>5, HasWhole
      <3> QED  BY <3>2, <3>6
    <2> QED  BY <2>1, <2>2
  <1>2. SignalledKeyStays'
    BY <1>1 DEF SignalledKeyStays
  <1> QED  BY <1>2 DEF SignalInv

LEMMA NextSignalInv ==
    ASSUME ListInv, ListInv', ToggleInv, KeysInv, KeysInv', SignalInv,
           [Next]_vars
    PROVE  SignalInv'
  <1>0. KeyTypes /\ KeyTypes' /\ KeyEventSignalState \in BOOLEAN
        /\ deserted \in BOOLEAN
    BY DEF KeysInv, SignalInv
  <1>1. CASE UNCHANGED signalVars
    <2>1. /\ KeyQueue' = KeyQueue /\ keys' = keys /\ TextInList' = TextInList
          /\ KeyEventSignalState' = KeyEventSignalState /\ deserted' = deserted
          /\ setting' = setting
      BY <1>1 DEF signalVars
    <2>2. SignalledKeyStays'
      BY <2>1, Zenon DEF SignalInv, SignalledKeyStays, ToSet
    <2> QED  BY <2>1, <2>2, Zenon DEF SignalInv
  \* The signal is cleared.
  <1>2. CASE KeyEventSignalState' = FALSE /\ deserted' \in BOOLEAN
    BY <1>2 DEF SignalInv, SignalledKeyStays
  <1>3. CASE ReadSavedKeyStroke \/ ReadKeyStroke \/ ReadSavedKeyStrokeEx
             \/ ReadKeyStrokeEx \/ Reset
    <2>1. KeyEventSignalState' = FALSE /\ deserted' \in BOOLEAN
      BY <1>3 DEF ReadSavedKeyStroke, ReadKeyStroke, ReadSavedKeyStrokeEx,
                  ReadKeyStrokeEx, Reset, Reads
    <2> QED  BY <1>2, <2>1
  \* A console leaves.
  <1>4. ASSUME NEW d \in Consoles, ConInDriverBindingStop(d)
        PROVE  SignalInv'
    <2>1. /\ deserted' = KeyEventSignalState /\ setting.op = "none"
          /\ UNCHANGED <<KeyEventSignalState, setting>>
      BY <1>4 DEF ConInDriverBindingStop, Ready, Idle, states
    <2> QED  BY <1>0, <2>1 DEF SignalInv, SignalledKeyStays
  \* Loops of SetState, toggles.
  <1>5. CASE \/ \E t \in Toggles, exported \in BOOLEAN : SetState(t, exported)
             \/ SetStateOne \/ SetStateEnds
    <2>1. /\ setting'.op # "Reset" /\ KeyQueue' = KeyQueue /\ keys' = keys
          /\ TextInList' = TextInList
          /\ KeyEventSignalState' = KeyEventSignalState /\ deserted' = deserted
      <3>1. /\ KeyQueue' = KeyQueue /\ keys' = keys
            /\ TextInList' = TextInList
            /\ KeyEventSignalState' = KeyEventSignalState
            /\ deserted' = deserted
        BY <1>5 DEF SetState, SetStateOne, SetStateEnds, LoopStep, queues,
                    lists, signal
      <3>2. CASE SetStateOne
        <4>1. setting \in SetSettings
          BY <3>2, SettingCases DEF SetStateOne, InLoop, ToggleInv, ToggleTypes
        <4>2. [setting EXCEPT !.at = @ + 1].op = "SetState"
          BY <4>1, SettingFacts
        <4>3. \/ setting' = [setting EXCEPT !.at = @ + 1]
              \/ setting' = [op |-> "none"]
          BY <3>2 DEF SetStateOne
        <4>4. CASE setting' = [setting EXCEPT !.at = @ + 1]
          <5>1. setting'.op = "SetState"
            BY <4>2, <4>4
          <5> QED  BY <3>1, <5>1
        <4>5. CASE setting' = [op |-> "none"]
          <5>1. setting'.op = "none"
            BY <4>5
          <5> QED  BY <3>1, <5>1
        <4> QED  BY <4>3, <4>4, <4>5
      <3>3. CASE SetStateEnds
        BY <3>1, <3>3 DEF SetStateEnds
      <3>4. ASSUME NEW t \in Toggles, NEW exported \in BOOLEAN,
                   SetState(t, exported)
            PROVE  setting'.op # "Reset"
        BY <3>4 DEF SetState
      <3> QED  BY <1>5, <3>1, <3>2, <3>3, <3>4
    <2> QED  BY <1>0, <2>1 DEF SignalInv, SignalledKeyStays
  <1>6. ASSUME NEW d \in Consoles, NEW t \in Toggles,
               ToggleStateSyncKeyNotify(d, t)
        PROVE  SignalInv'
    <2>1. /\ KeyQueue' = KeyQueue /\ keys' = keys /\ TextInList' = TextInList
          /\ KeyEventSignalState' = KeyEventSignalState /\ deserted' = deserted
      BY <1>6 DEF ToggleStateSyncKeyNotify, queues, lists, signal
    <2>2. setting'.op = "Reset" => setting.op = "Reset"
      <3>1. \/ setting' = setting
            \/ setting.op = "Reset"
        BY <1>6 DEF ToggleStateSyncKeyNotify
      <3> QED  BY <3>1
    <2> QED  BY <1>0, <2>1, <2>2 DEF SignalInv, SignalledKeyStays
  \* The loop of a reset: the signal is not set.
  <1>7. CASE ReInitializeOne \/ ResetEnds
    <2>1. setting.op = "Reset" /\ KeyEventSignalState' = KeyEventSignalState
          /\ deserted' = deserted
      BY <1>7 DEF ReInitializeOne, ResetEnds, InLoop, LoopEnds, LoopStep, signal
    <2>2. KeyEventSignalState' = FALSE
      BY <1>0, <2>1 DEF SignalInv
    <2> QED  BY <1>0, <1>2, <2>1, <2>2
  \* Keys come, and partial ones go.
  <1>8. ASSUME NEW d \in Consoles, KeyPressed(d)
        PROVE  SignalInv'
    <2>1. /\ UNCHANGED <<KeyQueue, TextInList, KeyEventSignalState, deserted,
                         setting>>
          /\ \E k \in Key : keys' = [keys EXCEPT ![d] = Append(@, k)]
      <3>1. UNCHANGED <<KeyQueue, TextInList, KeyEventSignalState, deserted,
                        setting>>
        BY <1>8 DEF KeyPressed, lists, signal, states
      <3>2. PICK partial \in BOOLEAN :
              keys' = [keys EXCEPT ![d] =
                         Append(@, [from |-> d, seq |-> made', partial |-> partial])]
        BY <1>8 DEF KeyPressed
      <3>3. made' \in 1 .. MaxKeys
        BY <1>8, SplitterAssumption DEF KeyPressed, KeysInv, KeyTypes
      <3>4. [from |-> d, seq |-> made', partial |-> partial] \in Key
        BY <3>3, KeyFacts
      <3> QED  BY <3>1, <3>2, <3>4
    <2>2. PICK k \in Key : keys' = [keys EXCEPT ![d] = Append(@, k)]
      BY <2>1
    <2>3. \A e \in Consoles : ToSet(keys[e]) \subseteq ToSet(keys'[e])
      <3> SUFFICES ASSUME NEW e \in Consoles
                   PROVE  ToSet(keys[e]) \subseteq ToSet(keys'[e])
        OBVIOUS
      <3>1. keys[e] \in Seq(Key)
        BY <1>0 DEF KeyTypes
      <3>2. keys'[e] = IF e = d THEN Append(keys[e], k) ELSE keys[e]
        BY <1>0, <2>2 DEF KeyTypes
      <3> QED  BY <3>1, <3>2, ToSetFacts
    <2>4. \A e \in ToSet(TextInList) : e \in Consoles
      BY ToSetFacts DEF ListInv
    <2>5. setting'.op = "Reset" => ~KeyEventSignalState'
      BY <2>1 DEF SignalInv
    <2> QED  BY <1>0, <2>1, <2>3, <2>4, <2>5, SignalKept
  <1>9. ASSUME NEW d \in Consoles,
               StartWithoutMemory(d) \/ StartRefused(d) \/ StartDone(d)
        PROVE  SignalInv'
    <2>1. /\ UNCHANGED <<KeyQueue, KeyEventSignalState, deserted, setting>>
          /\ TextInList' = Append(TextInList, d)
          /\ keys' = [keys EXCEPT ![d] = Checked(@)]
      BY <1>9 DEF StartWithoutMemory, StartRefused, StartDone, TextInAddDevice,
                  signal, states
    <2>2. ToSet(TextInList) \subseteq ToSet(TextInList')
      BY <2>1, ToSetFacts DEF ListInv
    <2>3. \A e \in ToSet(TextInList) : \A k \in ToSet(keys[e]) :
            ~k.partial => k \in ToSet(keys'[e])
      <3> SUFFICES ASSUME NEW e \in Consoles, NEW k \in ToSet(keys[e]), ~k.partial
                   PROVE  k \in ToSet(keys'[e])
        BY ToSetFacts DEF ListInv
      <3>1. keys[e] \in Seq(Key)
        BY <1>0 DEF KeyTypes
      <3>2. keys'[e] = IF e = d THEN Checked(keys[e]) ELSE keys[e]
        BY <1>0, <2>1 DEF KeyTypes
      <3> QED  BY <3>1, <3>2, CheckedFacts
    <2>4. setting'.op = "Reset" => ~KeyEventSignalState'
      BY <2>1 DEF SignalInv
    <2> QED  BY <1>0, <2>1, <2>2, <2>3, <2>4, SignalKept
  \* A console that is not listed loses its keys.
  <1>10. ASSUME NEW d \in Consoles, ConsoleStops(d)
         PROVE  SignalInv'
    <2>1. /\ UNCHANGED <<KeyQueue, TextInList, KeyEventSignalState, deserted,
                         setting>>
          /\ keys' = [keys EXCEPT ![d] = << >>] /\ d \notin opened
      BY <1>10 DEF ConsoleStops, signal
    <2>2. \A e \in ToSet(TextInList) : keys'[e] = keys[e]
      <3>1. \A e \in ToSet(TextInList) : e \in Consoles /\ e # d
        BY <2>1, ToSetFacts DEF ListInv
      <3> QED  BY <1>0, <2>1, <3>1 DEF KeyTypes
    <2>3. setting'.op = "Reset" => ~KeyEventSignalState'
      BY <2>1 DEF SignalInv
    <2> QED  BY <1>0, <2>1, <2>2, <2>3, SignalKept
  \* The signal is set, if there is a key to read.
  <1>11. CASE WaitForKey
    <2>1. /\ UNCHANGED <<KeyQueue, TextInList, deserted, setting>>
          /\ setting.op = "none"
      BY <1>11 DEF WaitForKey, lists, states, signal, Ready, Idle
    <2>2. CASE KeyEventSignalState
      <3>1. UNCHANGED <<keys, KeyEventSignalState>>
        BY <1>11, <2>2 DEF WaitForKey, signal
      <3> QED  BY <1>0, <2>1, <3>1 DEF SignalInv, SignalledKeyStays
    <2>3. CASE ~KeyEventSignalState
      <3>1. /\ keys' = [e \in Consoles |-> IF e \in ToSet(TextInList)
                                           THEN Checked(keys[e]) ELSE keys[e]]
            /\ KeyEventSignalState' =
                 \E e \in ToSet(TextInList) : FirstWhole(keys[e]) # 0
        BY <1>11, <2>3 DEF WaitForKey
      <3>2. ASSUME KeyEventSignalState'
            PROVE  \E e \in ToSet(TextInList') : FirstWhole(keys'[e]) # 0
        <4>1. PICK e \in ToSet(TextInList) : FirstWhole(keys[e]) # 0
          BY <3>1, <3>2
        <4>2. e \in Consoles
          BY ToSetFacts DEF ListInv
        <4>3. /\ keys[e] \in Seq(Key) /\ keys'[e] \in Seq(Key)
              /\ keys'[e] = Checked(keys[e])
          BY <1>0, <3>1, <4>1, <4>2 DEF KeyTypes
        <4>4. PICK k \in ToSet(keys[e]) : ~k.partial
          BY <4>1, <4>3, HasWhole
        <4>5. k \in ToSet(keys'[e])
          BY <4>3, <4>4, CheckedFacts
        <4>6. FirstWhole(keys'[e]) # 0
          BY <4>3, <4>4, <4>5, HasWhole
        <4> QED  BY <2>1, <4>1, <4>6
      <3>3. SignalledKeyStays'
        BY <3>2 DEF SignalledKeyStays
      <3>4. KeyEventSignalState' \in BOOLEAN
        BY <3>1
      <3> QED  BY <1>0, <2>1, <3>3, <3>4 DEF SignalInv
    <2> QED  BY <2>2, <2>3
  <1> QED  BY <1>1, <1>3, <1>4, <1>5, <1>6, <1>7, <1>8, <1>9, <1>10, <1>11,
              SignalSteps

LEMMA SignalInductive == Spec => []SignalInv
  <1>1. Init => SignalInv
    BY DEF Init, SignalInv, SignalledKeyStays
  <1>2. /\ ListInv /\ ToggleInv /\ KeysInv /\ SignalInv
        /\ ListInv' /\ KeysInv' /\ [Next]_vars
        => SignalInv'
    BY NextSignalInv
  <1> QED  BY <1>1, <1>2, ListsInductive, KeysInductive, PTL DEF Spec

\* SignalledKeyStays, for any number of consoles and keys.
THEOREM SignalHolds == Spec => []SignalledKeyStays
  <1>1. SignalInv => SignalledKeyStays
    BY DEF SignalInv
  <1> QED  BY <1>1, SignalInductive, PTL

-----------------------------------------------------------------------------
(* The notifications.                                                      *)

AllKeyDatas == KeyDatas \union {SyncKey}
AllFns == Fns \union {SyncFn}
HandleLists == Seq(Handles \union {NULL})
Notifications == [KeyData : AllKeyDatas, KeyNotificationFn : AllFns,
                  NotifyHandleList : HandleLists]
Registrations == [handle : Handles, key : AllKeyDatas, fn : AllFns]
FiniteRegs == {r \in SUBSET Registrations : IsFiniteSet(r)}

\* Some slot is free.
LEMMA FreeSlot ==
    ASSUME NEW r \in FiniteRegs
    PROVE  \E n \in 1 .. (Cardinality(r) + 1) : n \notin {e.handle.slot : e \in r}
  <1> DEFINE slots == {e.handle.slot : e \in r}
             f == [e \in r |-> e.handle.slot]
             n == Cardinality(r) + 1
  <1>1. IsFiniteSet(r) /\ Cardinality(r) \in Nat
    BY FS_CardinalityType DEF FiniteRegs
  <1>2. f \in Surjection(r, slots)
    BY DEF Surjection
  <1>3. IsFiniteSet(slots) /\ Cardinality(slots) <= Cardinality(r)
        /\ Cardinality(slots) \in Nat
    <2> HIDE DEF slots, f
    <2>1. IsFiniteSet(slots) /\ Cardinality(slots) <= Cardinality(r)
      BY <1>1, <1>2, FS_Surjection
    <2> QED  BY <2>1, FS_CardinalityType
  <1>4. n \in Int /\ 1 \in Int /\ ~(1 > n) /\ n - 1 + 1 = n
    BY <1>1
  <1>5. Cardinality(1 .. n) = n
    <2> HIDE DEF n
    <2> QED  BY <1>4, FS_Interval
  <1>6. ~(1 .. n \subseteq slots)
    <2> SUFFICES ASSUME 1 .. n \subseteq slots PROVE FALSE
      OBVIOUS
    <2>1. Cardinality(1 .. n) <= Cardinality(slots)
      <3> HIDE DEF slots, n
      <3> QED  BY <1>3, FS_Subset
    <2> HIDE DEF slots
    <2> QED  BY <1>1, <1>3, <1>5, <2>1
  <1> QED  BY <1>6

\* The registrations of r that cover a notification.
Covering(r, notify) ==
    {e \in r : /\ IsKeyRegistered(e.key, notify.KeyData)
               /\ e.fn = notify.KeyNotificationFn}

\* A notification gets a handle of the console: a new one, unless a
\* registration covers it.
LEMMA RegisterFacts ==
    ASSUME NEW d \in Consoles, NEW r \in FiniteRegs, NEW notify \in Notifications,
           NEW new, new = Register(d, r, notify)
    PROVE  /\ new.regs \in FiniteRegs /\ new.handle \in Handles
           /\ r \subseteq new.regs
           /\ Covering(r, notify) # {} =>
                /\ new.regs = r
                /\ \E e \in Covering(r, notify) : new.handle = e.handle
           /\ Covering(r, notify) = {} =>
                /\ \A e \in r : e.handle # new.handle
                /\ new.regs = r \union {[handle |-> new.handle,
                                         key |-> notify.KeyData,
                                         fn |-> notify.KeyNotificationFn]}
  <1> DEFINE same == Covering(r, notify)
             slots == {e.handle.slot : e \in r}
             n == CHOOSE n \in 1 .. (Cardinality(r) + 1) : n \notin slots
             handle == [console |-> d, slot |-> n]
             e == [handle |-> handle, key |-> notify.KeyData,
                   fn |-> notify.KeyNotificationFn]
  <1>1. new = IF same # {}
              THEN [regs |-> r, handle |-> (CHOOSE x \in same : TRUE).handle]
              ELSE [regs |-> r \union {e}, handle |-> handle]
    BY Zenon DEF Register, Covering
  <1>2. r \subseteq Registrations /\ IsFiniteSet(r) /\ Cardinality(r) \in Nat
    BY FS_CardinalityType DEF FiniteRegs
  <1>3. CASE same # {}
    <2> DEFINE x == CHOOSE x \in same : TRUE
    <2>1. x \in same
      <3> HIDE DEF same
      <3> QED  BY <1>3
    <2> HIDE DEF x
    <2>2. x \in r
      BY <2>1 DEF Covering
    <2>3. x.handle \in Handles
      BY <1>2, <2>2 DEF Registrations
    <2>4. new.regs = r /\ new.handle = x.handle
      <3> HIDE DEF same
      <3>1. new = [regs |-> r, handle |-> x.handle]
        BY <1>1, <1>3 DEF x
      <3> QED  BY <3>1
    <2> QED  BY <1>3, <2>1, <2>3, <2>4
  <1>4. CASE same = {}
    <2>1. n \in 1 .. (Cardinality(r) + 1) /\ n \notin slots
      <3>1. \E m \in 1 .. (Cardinality(r) + 1) : m \notin slots
        BY FreeSlot
      <3> HIDE DEF slots
      <3> QED  BY <3>1
    <2>2. n \in Nat \ {0}
      <3> HIDE DEF n
      <3> QED  BY <1>2, <2>1
    <2> HIDE DEF n
    <2>3. handle \in Handles /\ handle.slot = n
      BY <2>2 DEF Handles
    <2>4. \A x \in r : x.handle # handle
      BY <2>1, <2>3
    <2>5. new = [regs |-> r \union {e}, handle |-> handle]
      <3> HIDE DEF same, e, handle
      <3> QED  BY <1>1, <1>4
    <2> HIDE DEF handle
    <2>6. new.regs = r \union {e} /\ new.handle = handle
      <3> HIDE DEF e
      <3> QED  BY <2>5
    <2>7. e \in Registrations
      BY <2>3 DEF Registrations, Notifications
    <2>8. r \union {e} \in FiniteRegs
      <3> HIDE DEF e
      <3>1. IsFiniteSet(r \union {e})
        BY <1>2, FS_AddElement
      <3> QED  BY <1>2, <2>7, <3>1 DEF FiniteRegs
    <2> QED  BY <1>4, <2>3, <2>4, <2>6, <2>8
  <1> QED  BY <1>3, <1>4

\* A turn of the loop that registers the notifications with console d.
RegisterTurn(d, x, i) ==
    LET r == Register(d, x.regs, NotifyList[i])
    IN  [regs |-> r.regs, handles |-> Append(x.handles, r.handle)]

RegisteredSoFar == [regs : FiniteRegs, handles : Seq(Handles)]

LEMMA RegisterTurnFacts ==
    ASSUME NEW d \in Consoles, NEW x \in RegisteredSoFar,
           NotifyList \in Seq(Notifications), NEW i \in 1 .. Len(NotifyList),
           NEW new, new = Register(d, x.regs, NotifyList[i]),
           NEW y, y = RegisterTurn(d, x, i)
    PROVE  /\ NotifyList[i] \in Notifications
           /\ x.regs \in FiniteRegs /\ x.handles \in Seq(Handles)
           /\ new.regs \in FiniteRegs /\ new.handle \in Handles
           /\ y \in RegisteredSoFar
           /\ y.regs = new.regs /\ y.handles = Append(x.handles, new.handle)
  <1>1. NotifyList[i] \in Notifications
    OBVIOUS
  <1>2. x.regs \in FiniteRegs /\ x.handles \in Seq(Handles)
    BY DEF RegisteredSoFar
  <1>3. new.regs \in FiniteRegs /\ new.handle \in Handles
    BY <1>1, <1>2, RegisterFacts
  <1>4. y = [regs |-> new.regs, handles |-> Append(x.handles, new.handle)]
    BY DEF RegisterTurn
  <1>5. Append(x.handles, new.handle) \in Seq(Handles)
    BY <1>2, <1>3
  <1>6. y.regs = new.regs /\ y.handles = Append(x.handles, new.handle)
    BY <1>4
  <1>7. y \in RegisteredSoFar
    BY <1>3, <1>4, <1>5 DEF RegisteredSoFar
  <1> QED  BY <1>1, <1>2, <1>3, <1>6, <1>7

LEMMA RegisteredIsLoop ==
    ASSUME NEW d \in Consoles, regs[d] \in FiniteRegs,
           NotifyList \in Seq(Notifications), NEW n \in 0 .. Len(NotifyList)
    PROVE  \E f : /\ RegisteredUpTo(d, n) = f[n]
                  /\ f[0] = [regs |-> regs[d], handles |-> << >>]
                  /\ \A i \in 0 .. n : f[i] \in RegisteredSoFar
                  /\ \A i \in 1 .. n : f[i] = RegisterTurn(d, f[i - 1], i)
  <1> DEFINE S == RegisteredSoFar
             first == [regs |-> regs[d], handles |-> << >>]
             Turn == [i \in 1 .. n |-> [x \in S |-> RegisterTurn(d, x, i)]]
  <1>1. n \in Nat /\ \A i \in 1 .. n : i \in 1 .. Len(NotifyList)
    OBVIOUS
  <1>2. first \in S
    BY DEF RegisteredSoFar
  <1>3. Turn \in [1 .. n -> [S -> S]]
    <2>1. \A i \in 1 .. n : \A x \in S : RegisterTurn(d, x, i) \in S
      BY <1>1, RegisterTurnFacts
    <2> QED  BY <2>1
  <1>4. PICK f : IsLoop(f, n, S, first, Turn)
    <2> HIDE DEF S, first, Turn
    <2> QED  BY <1>1, <1>2, <1>3, LoopExists
  <1>5. /\ \A i \in 0 .. n : f[i] \in S
        /\ f[0] = first /\ \A i \in 1 .. n : f[i] = Turn[i][f[i - 1]]
        /\ f = [i \in 0 .. n |-> f[i]]
    <2> HIDE DEF S, first, Turn
    <2> QED  BY <1>4 DEF IsLoop
  <1>6. ASSUME NEW i \in 1 .. n PROVE f[i] = RegisterTurn(d, f[i - 1], i)
    <2>1. i - 1 \in 0 .. n
      BY <1>1
    <2>2. f[i - 1] \in S /\ f[i] = Turn[i][f[i - 1]]
      BY <1>5, <2>1
    <2> HIDE DEF S
    <2> QED  BY <2>2
  <1>7. f = [i \in 0 .. n |->
              IF i = 0 THEN [regs |-> regs[d], handles |-> << >>]
              ELSE LET r == Register(d, f[i - 1].regs, NotifyList[i])
                   IN  [regs |-> r.regs,
                        handles |-> Append(f[i - 1].handles, r.handle)]]
    <2>1. ASSUME NEW i \in 0 .. n
          PROVE  f[i] = IF i = 0 THEN [regs |-> regs[d], handles |-> << >>]
                        ELSE LET r == Register(d, f[i - 1].regs, NotifyList[i])
                             IN  [regs |-> r.regs,
                                  handles |-> Append(f[i - 1].handles, r.handle)]
      <3>1. CASE i = 0
        BY <1>5, <3>1
      <3>2. CASE i # 0
        <4>1. i \in 1 .. n
          BY <1>1, <3>2
        <4>2. f[i] = RegisterTurn(d, f[i - 1], i)
          BY <1>6, <4>1
        <4> QED  BY <3>2, <4>2 DEF RegisterTurn
      <3> QED  BY <3>1, <3>2
    <2> QED  BY <1>5, <2>1, Zenon
  <1>8. PICK h : /\ RegisteredUpTo(d, n) = h[n]
                 /\ h = [i \in 0 .. n |->
                      IF i = 0 THEN [regs |-> regs[d], handles |-> << >>]
                      ELSE LET r == Register(d, h[i - 1].regs, NotifyList[i])
                           IN  [regs |-> r.regs,
                                handles |-> Append(h[i - 1].handles, r.handle)]]
    BY <1>7, Zenon DEF RegisteredUpTo
  <1>9. /\ h[0] = first
        /\ \A i \in 1 .. n : h[i] = RegisterTurn(d, h[i - 1], i)
    <2>1. 0 \in 0 .. n /\ \A i \in 1 .. n : i \in 0 .. n /\ i # 0
      BY <1>1
    <2> QED  BY <1>8, <2>1 DEF RegisterTurn
  <1>10. \A i \in 0 .. n : h[i] \in S
    <2> DEFINE T == {i \in 0 .. n : h[i] \in S}
    <2>1. 0 \in T
      BY <1>1, <1>2, <1>9
    <2>2. ASSUME NEW i \in 1 .. n, i - 1 \in T PROVE i \in T
      <3>1. h[i - 1] \in S /\ i \in 1 .. Len(NotifyList) /\ i \in 0 .. n
        BY <1>1, <2>2
      <3> QED  BY <1>9, <3>1, RegisterTurnFacts
    <2>3. 0 .. n \subseteq T
      <3> HIDE DEF T
      <3> QED  BY <1>1, <2>1, <2>2, UpToInduction
    <2> QED  BY <2>3
  <1> QED  BY <1>8, <1>9, <1>10

LEMMA RegisteredFacts ==
    ASSUME NEW d \in Consoles, regs[d] \in FiniteRegs,
           NotifyList \in Seq(Notifications), NEW n \in 0 .. Len(NotifyList),
           NEW done, done = RegisteredUpTo(d, n)
    PROVE  /\ done.regs \in FiniteRegs
           /\ done.handles \in Seq(Handles) /\ Len(done.handles) = n
  <1>1. n \in Nat /\ \A i \in 1 .. n : i \in 1 .. Len(NotifyList) /\ i - 1 \in 0 .. n
    OBVIOUS
  <1>2. PICK f : /\ done = f[n]
                 /\ f[0] = [regs |-> regs[d], handles |-> << >>]
                 /\ \A i \in 0 .. n : f[i] \in RegisteredSoFar
                 /\ \A i \in 1 .. n : f[i] = RegisterTurn(d, f[i - 1], i)
    BY RegisteredIsLoop
  <1> DEFINE T == {i \in 0 .. n : Len(f[i].handles) = i}
  <1>3. 0 \in T
    <2>1. f[0].handles = << >>
      BY <1>2
    <2>2. Len(f[0].handles) = 0
      BY <2>1
    <2> QED  BY <1>1, <2>2
  <1>4. ASSUME NEW i \in 1 .. n, i - 1 \in T PROVE i \in T
    <2>1. f[i - 1] \in RegisteredSoFar /\ f[i] = RegisterTurn(d, f[i - 1], i)
      BY <1>1, <1>2
    <2> DEFINE x == f[i - 1]
               y == f[i]
               new == Register(d, x.regs, NotifyList[i])
    <2>2. x \in RegisteredSoFar /\ y = RegisterTurn(d, x, i)
          /\ i \in 1 .. Len(NotifyList) /\ Len(x.handles) = i - 1
      BY <1>1, <1>4, <2>1
    <2>3. /\ y.handles = Append(x.handles, new.handle)
          /\ new.handle \in Handles
          /\ x.handles \in Seq(Handles)
      <3> HIDE DEF x, y
      <3> QED  BY <2>2, RegisterTurnFacts
    <2>4. Len(y.handles) = i
      <3> HIDE DEF x, y, new
      <3> QED  BY <2>2, <2>3
    <2> QED  BY <2>4
  <1>5. n \in T
    <2>1. 0 .. n \subseteq T
      <3> HIDE DEF T
      <3> QED  BY <1>1, <1>3, <1>4, UpToInduction
    <2> QED  BY <1>1, <2>1
  <1>6. f[n] \in RegisteredSoFar
    BY <1>1, <1>2
  <1> QED  BY <1>2, <1>5, <1>6 DEF RegisteredSoFar

\* A longer handle list has the handles that were in use.
LEMMA GrownFacts ==
    ASSUME NEW h \in HandleLists, TextInExListCount \in Nat,
           TextInExListCount <= Len(h)
    PROVE  /\ Grown(h) \in HandleLists
           /\ Len(Grown(h)) = TextInExListCount + Unit
           /\ \A p \in 1 .. TextInExListCount : Grown(h)[p] = h[p]
  <1> DEFINE n == TextInExListCount + Unit
  <1>1. n \in Nat /\ \A i \in 1 .. n : i <= TextInExListCount => i \in 1 .. Len(h)
        /\ TextInExListCount <= n
    BY SplitterAssumption DEF HandleLists
  <1>2. \A i \in 1 .. n : (IF i <= TextInExListCount THEN h[i] ELSE NULL)
                            \in Handles \union {NULL}
    BY <1>1 DEF HandleLists
  <1>3. Grown(h) \in [1 .. n -> Handles \union {NULL}]
    BY <1>2 DEF Grown
  <1>4. Grown(h) \in HandleLists /\ Len(Grown(h)) = n
    <2> DEFINE g == Grown(h)
    <2>1. g \in [1 .. n -> Handles \union {NULL}] /\ n \in Nat
      BY <1>1, <1>3
    <2> HIDE DEF n, g
    <2>2. g \in Seq(Handles \union {NULL}) /\ Len(g) = n
      BY <2>1
    <2> QED  BY <2>2 DEF HandleLists, g
  <1>5. ASSUME NEW p \in 1 .. TextInExListCount PROVE Grown(h)[p] = h[p]
    <2>1. p \in 1 .. (TextInExListCount + Unit) /\ p <= TextInExListCount
      BY SplitterAssumption
    <2> QED  BY <2>1 DEF Grown
  <1> QED  BY <1>4, <1>5

\* b is notification a with another handle list.
SameNotify(a, b) == /\ b \in Notifications /\ b.KeyData = a.KeyData
                    /\ b.KeyNotificationFn = a.KeyNotificationFn

LEMMA NewHandles ==
    ASSUME NEW a \in Notifications, NEW h \in HandleLists,
           NEW b, b = [a EXCEPT !.NotifyHandleList = h]
    PROVE  SameNotify(a, b) /\ b.NotifyHandleList = h
  BY DEF Notifications, SameNotify

LEMMA NewHandle ==
    ASSUME NEW a \in Notifications, NEW h \in Handles,
           NEW p \in 1 .. Len(a.NotifyHandleList),
           NEW b, b = [a EXCEPT !.NotifyHandleList[p] = h]
    PROVE  /\ SameNotify(a, b)
           /\ Len(b.NotifyHandleList) = Len(a.NotifyHandleList)
           /\ b.NotifyHandleList[p] = h
           /\ \A q \in 1 .. Len(a.NotifyHandleList) :
                q # p => b.NotifyHandleList[q] = a.NotifyHandleList[q]
  <1> DEFINE list == [a.NotifyHandleList EXCEPT ![p] = h]
  <1>1. b = [a EXCEPT !.NotifyHandleList = list]
    OBVIOUS
  <1>2. a.NotifyHandleList \in HandleLists
    BY DEF Notifications
  <1>3. /\ list \in HandleLists /\ Len(list) = Len(a.NotifyHandleList)
        /\ list[p] = h
        /\ \A q \in 1 .. Len(a.NotifyHandleList) :
             q # p => list[q] = a.NotifyHandleList[q]
    BY <1>2 DEF HandleLists
  <1>4. SameNotify(a, b) /\ b.NotifyHandleList = list
    <2> HIDE DEF list
    <2>1. list \in HandleLists
      BY <1>3
    <2> QED  BY <1>1, <2>1, NewHandles
  <1> HIDE DEF list
  <1> QED  BY <1>3, <1>4

\* Notification b is a, and its first n handles are those of a.
KeepsHandles(a, b, n) ==
    SameNotify(a, b)
    /\ \A p \in 1 .. n : b.NotifyHandleList[p] = a.NotifyHandleList[p]

\* Handle lists that have grown, or not, have the handles that were in use.
LEMMA GrownUpToFacts ==
    ASSUME NotifyList \in Seq(Notifications), TextInExListCount \in Nat,
           \A i \in 1 .. Len(NotifyList) :
             TextInExListCount <= Len(NotifyList[i].NotifyHandleList),
           NEW n \in 0 .. Len(NotifyList), NEW list, list = GrownUpTo(n)
    PROVE  /\ list \in Seq(Notifications) /\ Len(list) = Len(NotifyList)
           /\ \A i \in 1 .. Len(list) :
                /\ KeepsHandles(NotifyList[i], list[i], TextInExListCount)
                /\ TextInExListCount <= Len(list[i].NotifyHandleList)
                /\ i <= n => Len(list[i].NotifyHandleList)
                               = TextInExListCount + Unit
  <1> DEFINE len == Len(NotifyList)
  <1>1. /\ len \in Nat /\ DOMAIN NotifyList = 1 .. len
        /\ \A i \in 1 .. len : NotifyList[i] \in Notifications
        /\ Unit \in Nat
    BY SplitterAssumption
  <1>2. list = [i \in 1 .. len |->
                  IF i <= n
                  THEN [NotifyList[i] EXCEPT !.NotifyHandleList = Grown(@)]
                  ELSE NotifyList[i]]
    BY <1>1, Zenon DEF GrownUpTo
  <1>3. ASSUME NEW i \in 1 .. len
        PROVE  /\ KeepsHandles(NotifyList[i], list[i], TextInExListCount)
               /\ TextInExListCount <= Len(list[i].NotifyHandleList)
               /\ i <= n => Len(list[i].NotifyHandleList)
                              = TextInExListCount + Unit
    <2> DEFINE a == NotifyList[i]
               h == a.NotifyHandleList
               g == Grown(h)
    <2>1. /\ a \in Notifications /\ h \in HandleLists
          /\ TextInExListCount <= Len(h)
      BY <1>1 DEF Notifications
    <2>2. CASE i <= n
      <3>1. list[i] = [a EXCEPT !.NotifyHandleList = g]
        BY <1>2, <2>2
      <3>2. /\ g \in HandleLists /\ Len(g) = TextInExListCount + Unit
            /\ \A p \in 1 .. TextInExListCount : g[p] = h[p]
        <4> HIDE DEF h
        <4> QED  BY <2>1, GrownFacts
      <3>3. SameNotify(a, list[i]) /\ list[i].NotifyHandleList = g
        <4> HIDE DEF a, g
        <4> QED  BY <2>1, <3>1, <3>2, NewHandles
      <3> HIDE DEF g
      <3> QED  BY <1>1, <3>2, <3>3 DEF KeepsHandles
    <2>3. CASE ~(i <= n)
      <3>1. list[i] = a
        BY <1>2, <2>3
      <3> QED  BY <2>1, <2>3, <3>1 DEF KeepsHandles, SameNotify
    <2> QED  BY <2>2, <2>3
  <1>4. \A i \in 1 .. len : list[i] \in Notifications
    BY <1>3 DEF KeepsHandles, SameNotify
  <1>5. list \in Seq(Notifications) /\ Len(list) = len
    <2>1. list \in [1 .. len -> Notifications]
      BY <1>2, <1>4
    <2> HIDE DEF len
    <2> QED  BY <1>1, <2>1
  <1> QED  BY <1>3, <1>5

\* The notifications in list have room for the handle of one more console.
HaveRoom(list) ==
    /\ list \in Seq(Notifications)
    /\ \A i \in 1 .. Len(list) :
         NumberOfExConsoles + 1 <= Len(list[i].NotifyHandleList)

\* The notifications in new are those in list with these handles after the
\* ones in use.
HaveHandles(new, list, handles) ==
    /\ new \in Seq(Notifications) /\ Len(new) = Len(list)
    /\ \A i \in 1 .. Len(new) :
         /\ KeepsHandles(list[i], new[i], NumberOfExConsoles)
         /\ Len(new[i].NotifyHandleList) = Len(list[i].NotifyHandleList)
         /\ i <= Len(handles) =>
              new[i].NotifyHandleList[NumberOfExConsoles + 1] = handles[i]

\* The handles of a new console do not change those that are in use.
LEMMA WithHandlesFacts ==
    ASSUME NEW list, HaveRoom(list), NEW handles \in Seq(Handles),
           Len(handles) <= Len(list), NumberOfExConsoles \in Nat
    PROVE  HaveHandles(WithHandles(list, handles), list, handles)
  <1> DEFINE len == Len(list)
             place == NumberOfExConsoles + 1
             new == WithHandles(list, handles)
  <1>0. /\ list \in Seq(Notifications)
        /\ \A i \in 1 .. len : place <= Len(list[i].NotifyHandleList)
    BY DEF HaveRoom
  <1>1. /\ len \in Nat /\ DOMAIN list = 1 .. len
        /\ DOMAIN handles = 1 .. Len(handles)
        /\ \A i \in 1 .. len : list[i] \in Notifications
        /\ \A i \in 1 .. Len(handles) : handles[i] \in Handles
    BY <1>0
  <1>2. new = [i \in 1 .. len |->
                 IF i \in 1 .. Len(handles)
                 THEN [list[i] EXCEPT !.NotifyHandleList[place] = handles[i]]
                 ELSE list[i]]
    BY <1>1, Zenon DEF WithHandles
  <1> HIDE DEF new
  <1>3. ASSUME NEW i \in 1 .. len
        PROVE  /\ KeepsHandles(list[i], new[i], NumberOfExConsoles)
               /\ Len(new[i].NotifyHandleList) = Len(list[i].NotifyHandleList)
               /\ i <= Len(handles) =>
                    new[i].NotifyHandleList[place] = handles[i]
    <2> DEFINE a == list[i]
    <2>1. /\ a \in Notifications /\ a.NotifyHandleList \in HandleLists
          /\ place <= Len(a.NotifyHandleList) /\ place \in Nat \ {0}
          /\ Len(a.NotifyHandleList) \in Nat
      BY <1>0, <1>1 DEF Notifications, HandleLists
    <2>2. CASE i \in 1 .. Len(handles)
      <3> DEFINE h == handles[i]
                 b == new[i]
      <3>1. b = [a EXCEPT !.NotifyHandleList[place] = h] /\ h \in Handles
        BY <1>1, <1>2, <2>2
      <3>2. place \in 1 .. Len(a.NotifyHandleList)
        BY <2>1
      <3>3. /\ SameNotify(a, b)
            /\ Len(b.NotifyHandleList) = Len(a.NotifyHandleList)
            /\ b.NotifyHandleList[place] = h
            /\ \A q \in 1 .. Len(a.NotifyHandleList) :
                 q # place => b.NotifyHandleList[q] = a.NotifyHandleList[q]
        <4> HIDE DEF a, b, h, place
        <4> QED  BY <2>1, <3>1, <3>2, NewHandle
      <3>4. \A q \in 1 .. NumberOfExConsoles :
              q \in 1 .. Len(a.NotifyHandleList) /\ q # place
        BY <2>1
      <3> QED  BY <3>3, <3>4 DEF KeepsHandles
    <2>3. CASE i \notin 1 .. Len(handles)
      <3>1. new[i] = a /\ ~(i <= Len(handles))
        BY <1>2, <2>3
      <3> QED  BY <2>1, <3>1 DEF KeepsHandles, SameNotify
    <2> QED  BY <2>2, <2>3
  <1>4. \A i \in 1 .. len : new[i] \in Notifications
    BY <1>3 DEF KeepsHandles, SameNotify
  <1>5. new \in Seq(Notifications) /\ Len(new) = len
    <2>1. new \in [1 .. len -> Notifications]
      BY <1>2, <1>4
    <2> HIDE DEF len
    <2> QED  BY <1>1, <2>1
  <1> QED  BY <1>3, <1>5 DEF HaveHandles, new

NotifyTypes ==
    /\ NotifyList \in Seq(Notifications)
    /\ regs \in [Consoles -> FiniteRegs]

\* The buffers have room; the key queue never has more keys than consoles had
\* room when it was filled, which is less than its own room after an
\* allocation of the list of consoles failed.
BufferInv ==
    /\ NotifyTypes
    /\ TextInListCount \in Nat \ {0} /\ Len(TextInList) <= TextInListCount
    /\ TextInExListCount \in Nat \ {0}
    /\ NumberOfExConsoles <= TextInExListCount
    /\ KeyQueueCount \in Nat \ {0} /\ TextInExListCount <= KeyQueueCount
    /\ Len(KeyQueue) <= TextInExListCount
    /\ \A i \in 1 .. Len(NotifyList) :
         TextInExListCount <= Len(NotifyList[i].NotifyHandleList)
    /\ leaving \in Consoles \union {NULL}

\* When the buffers have grown if needed, there is room for one more console.
LEMMA RoomFacts ==
    ASSUME ListInv, BufferInv, GrowsIfNeeded
    PROVE  /\ TextInExListCount' \in Nat \ {0}
           /\ NumberOfExConsoles + 1 <= TextInExListCount'
           /\ TextInExListCount <= TextInExListCount'
           /\ KeyQueueCount' \in Nat \ {0}
           /\ TextInExListCount' <= KeyQueueCount'
  <1>1. NumberOfExConsoles \in Nat /\ Unit \in Nat \ {0}
    BY SplitterAssumption DEF ListInv, NumberOfExConsoles
  <1> QED  BY <1>1 DEF BufferInv, GrowsIfNeeded, MustGrow

LEMMA LongEnoughFacts ==
    ASSUME ListInv, BufferInv, GrowsIfNeeded,
           NEW list, list = LongEnough(NotifyList)
    PROVE  /\ list \in Seq(Notifications) /\ Len(list) = Len(NotifyList)
           /\ \A i \in 1 .. Len(list) :
                /\ KeepsHandles(NotifyList[i], list[i], TextInExListCount)
                /\ TextInExListCount' <= Len(list[i].NotifyHandleList)
  <1>1. /\ NotifyList \in Seq(Notifications) /\ TextInExListCount \in Nat
        /\ \A i \in 1 .. Len(NotifyList) :
             TextInExListCount <= Len(NotifyList[i].NotifyHandleList)
        /\ Len(NotifyList) \in 0 .. Len(NotifyList)
    BY DEF BufferInv, NotifyTypes
  <1>2. CASE MustGrow
    <2>1. list = GrownUpTo(Len(NotifyList))
      BY <1>2 DEF LongEnough
    <2>2. TextInExListCount' = TextInExListCount + Unit
      BY <1>2 DEF GrowsIfNeeded
    <2>3. /\ list \in Seq(Notifications) /\ Len(list) = Len(NotifyList)
          /\ \A i \in 1 .. Len(list) :
               /\ KeepsHandles(NotifyList[i], list[i], TextInExListCount)
               /\ i <= Len(NotifyList) =>
                    Len(list[i].NotifyHandleList) = TextInExListCount + Unit
      BY <1>1, <2>1, GrownUpToFacts
    <2>4. TextInExListCount + Unit \in Nat
      BY <1>1, SplitterAssumption
    <2> QED  BY <2>2, <2>3, <2>4
  <1>3. CASE ~MustGrow
    <2>1. list = NotifyList /\ TextInExListCount' = TextInExListCount
      BY <1>3 DEF LongEnough, GrowsIfNeeded
    <2> QED  BY <1>1, <2>1 DEF KeepsHandles, SameNotify
  <1> QED  BY <1>2, <1>3

\* The notifications after the first n are registered with a new console.
LEMMA AddedFacts ==
    ASSUME ListInv, BufferInv, GrowsIfNeeded,
           NEW d \in Consoles, NEW n \in 0 .. Len(NotifyList),
           NEW done, done = RegisteredUpTo(d, n),
           NEW new, new = WithHandles(LongEnough(NotifyList), done.handles)
    PROVE  /\ done.regs \in FiniteRegs
           /\ done.handles \in Seq(Handles) /\ Len(done.handles) = n
           /\ new \in Seq(Notifications) /\ Len(new) = Len(NotifyList)
           /\ \A i \in 1 .. Len(NotifyList) :
                /\ KeepsHandles(NotifyList[i], new[i], NumberOfExConsoles)
                /\ TextInExListCount' <= Len(new[i].NotifyHandleList)
                /\ i <= n =>
                     new[i].NotifyHandleList[NumberOfExConsoles + 1]
                       = done.handles[i]
  <1> DEFINE list == LongEnough(NotifyList)
             place == NumberOfExConsoles + 1
  <1>1. /\ NotifyList \in Seq(Notifications) /\ regs[d] \in FiniteRegs
        /\ Len(NotifyList) \in Nat
        /\ NumberOfExConsoles \in Nat /\ TextInExListCount \in Nat
        /\ NumberOfExConsoles <= TextInExListCount
    BY DEF BufferInv, NotifyTypes, ListInv, NumberOfExConsoles
  <1>2. /\ done.regs \in FiniteRegs
        /\ done.handles \in Seq(Handles) /\ Len(done.handles) = n
    BY <1>1, RegisteredFacts
  <1>3. /\ list \in Seq(Notifications) /\ Len(list) = Len(NotifyList)
        /\ \A i \in 1 .. Len(list) :
             /\ KeepsHandles(NotifyList[i], list[i], TextInExListCount)
             /\ TextInExListCount' <= Len(list[i].NotifyHandleList)
    BY LongEnoughFacts
  <1>4. TextInExListCount' \in Nat /\ place <= TextInExListCount'
    BY RoomFacts
  <1> HIDE DEF list
  <1>5. \A i \in 1 .. Len(list) :
          /\ Len(list[i].NotifyHandleList) \in Nat
          /\ place <= Len(list[i].NotifyHandleList)
    BY <1>1, <1>3, <1>4 DEF KeepsHandles, SameNotify, Notifications, HandleLists
  <1>6. /\ new \in Seq(Notifications) /\ Len(new) = Len(list)
        /\ \A i \in 1 .. Len(new) :
             /\ KeepsHandles(list[i], new[i], NumberOfExConsoles)
             /\ Len(new[i].NotifyHandleList) = Len(list[i].NotifyHandleList)
             /\ i <= Len(done.handles) =>
                  new[i].NotifyHandleList[place] = done.handles[i]
    <2>1. /\ done.handles \in Seq(Handles) /\ Len(done.handles) <= Len(list)
          /\ HaveRoom(list) /\ NumberOfExConsoles \in Nat
      BY <1>1, <1>2, <1>3, <1>5 DEF HaveRoom
    <2>2. HaveHandles(WithHandles(list, done.handles), list, done.handles)
      BY <2>1, WithHandlesFacts
    <2>3. new = WithHandles(list, done.handles)
      BY DEF list
    <2>4. HaveHandles(new, list, done.handles)
      BY <2>2, <2>3
    <2> QED  BY <2>4 DEF HaveHandles
  <1>7. ASSUME NEW i \in 1 .. Len(NotifyList)
        PROVE  KeepsHandles(NotifyList[i], new[i], NumberOfExConsoles)
    <2>1. /\ KeepsHandles(NotifyList[i], list[i], TextInExListCount)
          /\ KeepsHandles(list[i], new[i], NumberOfExConsoles)
      BY <1>3, <1>6
    <2>2. \A p \in 1 .. NumberOfExConsoles : p \in 1 .. TextInExListCount
      BY <1>1
    <2>3. SameNotify(NotifyList[i], new[i])
      BY <2>1, Zenon DEF KeepsHandles, SameNotify
    <2>4. ASSUME NEW p \in 1 .. NumberOfExConsoles
          PROVE  new[i].NotifyHandleList[p] = NotifyList[i].NotifyHandleList[p]
      BY <2>1, <2>2, Zenon DEF KeepsHandles
    <2> QED  BY <2>3, <2>4, Zenon DEF KeepsHandles
  <1> QED  BY <1>2, <1>3, <1>6, <1>7

LEMMA FewerRegs ==
    ASSUME NEW r \in FiniteRegs, NEW s, s \subseteq r
    PROVE  s \in FiniteRegs
  <1>1. r \subseteq Registrations /\ IsFiniteSet(r)
    BY DEF FiniteRegs
  <1>2. IsFiniteSet(s)
    BY <1>1, FS_Subset
  <1> QED  BY <1>1, <1>2 DEF FiniteRegs

\* A notification that is new, before it has handles.
LEMMA NewNotifyFacts ==
    ASSUME BufferInv, NEW k \in KeyDatas, NEW fn \in Fns,
           NEW new, new = NewNotify(k, fn)
    PROVE  /\ new \in Notifications /\ new.KeyData = k
           /\ new.KeyNotificationFn = fn
           /\ new.NotifyHandleList = NewHandleList(TextInExListCount)
           /\ DOMAIN new.NotifyHandleList = 1 .. TextInExListCount
  <1>1. TextInExListCount \in Nat
    BY DEF BufferInv
  <1>2. NewHandleList(TextInExListCount) \in
          [1 .. TextInExListCount -> Handles \union {NULL}]
    BY DEF NewHandleList
  <1>3. NewHandleList(TextInExListCount) \in HandleLists
    BY <1>1, <1>2 DEF HandleLists
  <1>4. new = [KeyData |-> k, KeyNotificationFn |-> fn,
               NotifyHandleList |-> NewHandleList(TextInExListCount)]
    BY DEF NewNotify
  <1>5. k \in AllKeyDatas /\ fn \in AllFns
    BY DEF AllKeyDatas, AllFns
  <1>6. DOMAIN NewHandleList(TextInExListCount) = 1 .. TextInExListCount
    BY DEF NewHandleList
  <1> HIDE DEF NewHandleList
  <1> QED  BY <1>3, <1>4, <1>5, <1>6 DEF Notifications

\* Its registration: every console in use gives a handle.
RegisteredNotify(b, k, fn) ==
    /\ b \in Notifications /\ b.KeyData = k /\ b.KeyNotificationFn = fn
    /\ Len(b.NotifyHandleList) = TextInExListCount
    /\ \A j \in 1 .. NumberOfExConsoles :
         b.NotifyHandleList[j] =
           Register(TextInExList[j], regs[TextInExList[j]],
                    NewNotify(k, fn)).handle

LEMMA RegisterKeyFacts ==
    ASSUME ListInv, BufferInv, NEW k \in KeyDatas, NEW fn \in Fns,
           RegisterKeyNotify(k, fn)
    PROVE  \E b : NotifyList' = Append(NotifyList, b) /\ RegisteredNotify(b, k, fn)
  <1> DEFINE new == NewNotify(k, fn)
             n == TextInExListCount
             at(d) == Register(d, regs[d], new)
             list == [j \in 1 .. n |->
                        IF j <= NumberOfExConsoles THEN at(TextInExList[j]).handle
                        ELSE new.NotifyHandleList[j]]
             b == [new EXCEPT !.NotifyHandleList = list]
  <1>1. /\ new \in Notifications /\ new.KeyData = k /\ new.KeyNotificationFn = fn
        /\ new.NotifyHandleList = NewHandleList(n)
        /\ DOMAIN new.NotifyHandleList = 1 .. n
    BY NewNotifyFacts
  <1>2. NotifyList' = Append(NotifyList, b)
    <2>1. NotifyList' = Append(NotifyList,
            [new EXCEPT !.NotifyHandleList =
               [j \in DOMAIN @ |-> IF j <= NumberOfExConsoles
                                   THEN at(TextInExList[j]).handle ELSE @[j]]])
      BY Zenon DEF RegisterKeyNotify
    <2> HIDE DEF new, at
    <2> QED  BY <1>1, <2>1, Zenon
  <1>3. n \in Nat /\ NumberOfExConsoles \in Nat /\ NumberOfExConsoles <= n
    BY DEF BufferInv, ListInv, NumberOfExConsoles
  <1>4. ASSUME NEW j \in 1 .. NumberOfExConsoles
        PROVE  at(TextInExList[j]).handle \in Handles
    <2>1. TextInExList[j] \in Consoles
      BY DEF ListInv, NumberOfExConsoles
    <2>2. regs[TextInExList[j]] \in FiniteRegs
      BY <2>1 DEF BufferInv, NotifyTypes
    <2> DEFINE d == TextInExList[j]
    <2> HIDE DEF new, d
    <2>3. Register(d, regs[d], new).handle \in Handles
      <3>1. d \in Consoles /\ regs[d] \in FiniteRegs /\ new \in Notifications
        BY <1>1, <2>1, <2>2 DEF d
      <3> QED  BY <3>1, RegisterFacts
    <2> QED  BY <2>3 DEF d
  <1>5. list \in HandleLists /\ Len(list) = n
    <2>1. ASSUME NEW j \in 1 .. n PROVE list[j] \in Handles \union {NULL}
      <3>1. CASE j <= NumberOfExConsoles
        <4>1. j \in 1 .. NumberOfExConsoles
          BY <1>3, <3>1
        <4> HIDE DEF new, at
        <4> QED  BY <1>4, <3>1, <4>1
      <3>2. CASE ~(j <= NumberOfExConsoles)
        <4>1. list[j] = NewHandleList(n)[j]
          <5> HIDE DEF new, at
          <5> QED  BY <1>1, <3>2
        <4> HIDE DEF list
        <4> QED  BY <4>1 DEF NewHandleList
      <3> QED  BY <3>1, <3>2
    <2>2. list \in [1 .. n -> Handles \union {NULL}]
      <3> HIDE DEF new, at
      <3> QED  BY <2>1
    <2> HIDE DEF list, n
    <2> QED  BY <1>3, <2>2 DEF HandleLists
  <1>6. SameNotify(new, b) /\ b.NotifyHandleList = list
    <2> HIDE DEF new, list
    <2> QED  BY <1>1, <1>5, NewHandles
  <1>7. \A j \in 1 .. NumberOfExConsoles : list[j] = at(TextInExList[j]).handle
    <2>1. \A j \in 1 .. NumberOfExConsoles : j \in 1 .. n /\ j <= NumberOfExConsoles
      BY <1>3
    <2> HIDE DEF at, new, n
    <2> QED  BY <2>1
  <1>8. RegisteredNotify(b, k, fn)
    <2> HIDE DEF list, b
    <2>1. \A j \in 1 .. NumberOfExConsoles :
            b.NotifyHandleList[j] = at(TextInExList[j]).handle
      <3> HIDE DEF at, new
      <3> QED  BY <1>6, <1>7
    <2>2. /\ b \in Notifications /\ b.KeyData = k /\ b.KeyNotificationFn = fn
          /\ Len(b.NotifyHandleList) = n
      <3> HIDE DEF new
      <3> QED  BY <1>1, <1>5, <1>6 DEF SameNotify
    <2> QED  BY <2>1, <2>2, Zenon DEF RegisteredNotify
  <1> QED  BY <1>2, <1>8

bufferVars == <<TextInList, TextInListCount, TextInExList, TextInExListCount,
                KeyQueueCount, KeyQueue, NotifyList, regs, leaving>>

LEMMA BufferSteps ==
    ASSUME [Next]_vars
    PROVE  \/ UNCHANGED bufferVars
           \/ \E d \in Consoles :
                \/ ConsoleStops(d) \/ StartWithoutMemory(d) \/ StartRefused(d)
                \/ StartDone(d) \/ ConInDriverBindingStop(d)
           \/ ReadSavedKeyStroke \/ ReadKeyStroke \/ ReadSavedKeyStrokeEx
           \/ ReadKeyStrokeEx \/ ResetEnds
           \/ \E k \in KeyDatas, fn \in Fns :
                RegisterKeyNotify(k, fn) \/ RegisterFails(k, fn)
           \/ \E i \in DOMAIN NotifyList : UnregisterKeyNotify(i)
  <1>1. ASSUME NEW d \in Consoles,
               \/ ConsoleStarts(d) \/ KeyPressed(d) \/ StartWithoutTextIn(d)
               \/ \E t \in Toggles : ToggleStateSyncKeyNotify(d, t)
        PROVE  UNCHANGED bufferVars
    BY <1>1 DEF ConsoleStarts, KeyPressed, StartWithoutTextIn,
                ToggleStateSyncKeyNotify, lists, queues, notifies, bufferVars
  <1>2. CASE WaitForKey \/ Reset \/ ReInitializeOne \/ SetStateOne
             \/ SetStateEnds \/ \E t \in Toggles, x \in BOOLEAN : SetState(t, x)
    BY <1>2 DEF WaitForKey, Reset, ReInitializeOne, SetStateOne, SetStateEnds,
                SetState, LoopStep, lists, queues, notifies, bufferVars
  <1>3. CASE UNCHANGED vars
    BY <1>3 DEF vars, lists, queues, notifies, bufferVars
  <1> QED  BY <1>1, <1>2, <1>3 DEF Next

\* A console that is opened has a place in the text input list.
LEMMA TextInFacts ==
    ASSUME ListInv, BufferInv, NEW d \in Consoles, TextInAddDevice(d)
    PROVE  /\ TextInListCount' \in Nat \ {0}
           /\ Len(TextInList') <= TextInListCount'
  <1>1. /\ TextInList \in Seq(Consoles) /\ TextInListCount \in Nat \ {0}
        /\ Len(TextInList) <= TextInListCount /\ Unit \in Nat \ {0}
        /\ Len(TextInList) \in Nat
    BY SplitterAssumption DEF ListInv, BufferInv
  <1>2. Len(TextInList') = Len(TextInList) + 1
    BY <1>1 DEF TextInAddDevice
  <1> QED  BY <1>1, <1>2 DEF TextInAddDevice

LEMMA StartBuffers ==
    ASSUME ListInv, BufferInv, NEW d \in Consoles,
           StartRefused(d) \/ StartDone(d)
    PROVE  BufferInv'
  <1>1. /\ TextInAddDevice(d) /\ GrowsIfNeeded
        /\ KeyQueue' = KeyQueue /\ leaving' = leaving
        /\ TextInExList' = TextInExList \/ TextInExList' = Append(TextInExList, d)
    BY DEF StartRefused, StartDone
  <1>2. PICK n \in 0 .. Len(NotifyList) :
          /\ NotifyList' = WithHandles(LongEnough(NotifyList),
                                       RegisteredUpTo(d, n).handles)
          /\ \E r \in SUBSET RegisteredUpTo(d, n).regs :
               regs' = [regs EXCEPT ![d] = r]
    <2>1. CASE StartRefused(d)
      <3>1. PICK n \in 0 .. (Len(NotifyList) - 1) :
              LET done == RegisteredUpTo(d, n)
              IN  /\ NotifyList' = WithHandles(LongEnough(NotifyList), done.handles)
                  /\ regs' = [regs EXCEPT ![d] =
                       {e \in done.regs : e.handle \notin ToSet(done.handles)}]
        BY <2>1, Zenon DEF StartRefused
      <3>2. n \in 0 .. Len(NotifyList)
        BY DEF BufferInv, NotifyTypes
      <3> DEFINE done == RegisteredUpTo(d, n)
                 r == {e \in done.regs : e.handle \notin ToSet(done.handles)}
      <3>3. r \in SUBSET done.regs
        <4> HIDE DEF done
        <4> QED  OBVIOUS
      <3> QED  BY <3>1, <3>2, <3>3, Zenon
    <2>2. CASE StartDone(d)
      <3> DEFINE done == RegisteredUpTo(d, Len(NotifyList))
      <3>1. /\ NotifyList' = WithHandles(LongEnough(NotifyList), done.handles)
            /\ regs' = [regs EXCEPT ![d] = done.regs]
        BY <2>2, Zenon DEF StartDone
      <3>2. Len(NotifyList) \in 0 .. Len(NotifyList)
        BY DEF BufferInv, NotifyTypes
      <3>3. done.regs \in SUBSET done.regs
        OBVIOUS
      <3> QED  BY <3>1, <3>2, <3>3, Zenon
    <2> QED  BY <2>1, <2>2
  <1> DEFINE done == RegisteredUpTo(d, n)
  <1>3. PICK r \in SUBSET done.regs : regs' = [regs EXCEPT ![d] = r]
    BY <1>2
  <1>4. /\ done.regs \in FiniteRegs
        /\ NotifyList' \in Seq(Notifications) /\ Len(NotifyList') = Len(NotifyList)
        /\ \A i \in 1 .. Len(NotifyList) :
             TextInExListCount' <= Len(NotifyList'[i].NotifyHandleList)
    <2> DEFINE new == WithHandles(LongEnough(NotifyList), done.handles)
    <2>1. /\ done.regs \in FiniteRegs
          /\ new \in Seq(Notifications) /\ Len(new) = Len(NotifyList)
          /\ \A i \in 1 .. Len(NotifyList) :
               TextInExListCount' <= Len(new[i].NotifyHandleList)
      <3> HIDE DEF done
      <3>1. done = RegisteredUpTo(d, n)
        BY DEF done
      <3> HIDE DEF new
      <3>2. new = WithHandles(LongEnough(NotifyList), done.handles)
        BY DEF new
      <3> QED  BY <1>1, <3>1, <3>2, AddedFacts
    <2> HIDE DEF new
    <2>2. NotifyList' = new
      BY <1>2 DEF new
    <2> QED  BY <2>1, <2>2
  <1> HIDE DEF done
  <1>5. NotifyTypes'
    <2>1. r \in FiniteRegs
      BY <1>4, FewerRegs
    <2>2. regs' \in [Consoles -> FiniteRegs]
      BY <1>3, <2>1 DEF BufferInv, NotifyTypes
    <2> QED  BY <1>4, <2>2 DEF NotifyTypes
  <1>6. /\ TextInExListCount' \in Nat \ {0}
        /\ (NumberOfExConsoles <= TextInExListCount)'
        /\ TextInExListCount <= TextInExListCount'
        /\ KeyQueueCount' \in Nat \ {0} /\ TextInExListCount' <= KeyQueueCount'
    <2>1. TextInExList \in Seq(Consoles) /\ NumberOfExConsoles = Len(TextInExList)
      BY DEF ListInv, NumberOfExConsoles
    <2>2. NumberOfExConsoles' = Len(TextInExList')
      BY DEF NumberOfExConsoles
    <2>3. Len(TextInExList') <= Len(TextInExList) + 1 /\ Len(TextInExList') \in Nat
      BY <1>1, <2>1
    <2> QED  BY <1>1, <2>1, <2>2, <2>3, RoomFacts
  <1>7. (Len(KeyQueue) <= TextInExListCount)'
    BY <1>1, <1>6 DEF BufferInv, NotifyTypes
  <1>8. leaving' \in Consoles \union {NULL}
    BY <1>1 DEF BufferInv
  <1>9. \A i \in 1 .. Len(NotifyList') :
          TextInExListCount' <= Len(NotifyList'[i].NotifyHandleList)
    BY <1>4
  <1>10. TextInListCount' \in Nat \ {0} /\ Len(TextInList') <= TextInListCount'
    BY <1>1, TextInFacts
  <1> QED  BY <1>5, <1>6, <1>7, <1>8, <1>9, <1>10 DEF BufferInv

LEMMA StartWithoutMemoryBuffers ==
    ASSUME ListInv, BufferInv, NEW d \in Consoles, StartWithoutMemory(d)
    PROVE  BufferInv'
  <1>1. /\ TextInAddDevice(d) /\ MustGrow
        /\ KeyQueueCount' = KeyQueueCount
             \/ KeyQueueCount' = TextInExListCount + Unit
        /\ UNCHANGED <<TextInExList, TextInExListCount, KeyQueue, leaving, regs>>
    BY DEF StartWithoutMemory
  <1>2. PICK n \in 0 .. Len(NotifyList) : NotifyList' = GrownUpTo(n)
    BY DEF StartWithoutMemory
  <1>3. /\ NotifyList' \in Seq(Notifications)
        /\ \A i \in 1 .. Len(NotifyList') :
             TextInExListCount <= Len(NotifyList'[i].NotifyHandleList)
    <2>1. /\ NotifyList \in Seq(Notifications) /\ TextInExListCount \in Nat
          /\ \A i \in 1 .. Len(NotifyList) :
               TextInExListCount <= Len(NotifyList[i].NotifyHandleList)
      BY DEF BufferInv, NotifyTypes
    <2> DEFINE new == GrownUpTo(n)
    <2>2. /\ new \in Seq(Notifications)
          /\ \A i \in 1 .. Len(new) :
               TextInExListCount <= Len(new[i].NotifyHandleList)
      <3> HIDE DEF new
      <3>1. new = GrownUpTo(n)
        BY DEF new
      <3> QED  BY <2>1, <3>1, GrownUpToFacts
    <2> HIDE DEF new
    <2>3. NotifyList' = new
      BY <1>2 DEF new
    <2> QED  BY <2>2, <2>3
  <1>4. TextInListCount' \in Nat \ {0} /\ Len(TextInList') <= TextInListCount'
    BY <1>1, TextInFacts
  <1>5. KeyQueueCount' \in Nat \ {0} /\ TextInExListCount <= KeyQueueCount'
    BY <1>1, SplitterAssumption DEF BufferInv
  <1>6. NotifyTypes'
    BY <1>1, <1>3 DEF BufferInv, NotifyTypes
  <1>7. /\ TextInExListCount' = TextInExListCount
        /\ (NumberOfExConsoles <= TextInExListCount)'
        /\ (Len(KeyQueue) <= TextInExListCount)'
        /\ leaving' \in Consoles \union {NULL}
        /\ TextInExListCount \in Nat \ {0}
    BY <1>1 DEF BufferInv, NumberOfExConsoles
  <1> QED  BY <1>3, <1>4, <1>5, <1>6, <1>7 DEF BufferInv

LEMMA ReadBuffers ==
    ASSUME ListInv, BufferInv, KeysInv,
           \/ ReadSavedKeyStroke \/ ReadKeyStroke \/ ReadSavedKeyStrokeEx
           \/ ReadKeyStrokeEx \/ ResetEnds
    PROVE  BufferInv'
  <1>1. /\ KeyQueue \in Seq(Key) /\ Len(KeyQueue) \in Nat
        /\ TextInExListCount \in Nat /\ Len(KeyQueue) <= TextInExListCount
        /\ NumberOfExConsoles \in Nat /\ NumberOfExConsoles <= TextInExListCount
    BY DEF KeysInv, KeyTypes, BufferInv, ListInv, NumberOfExConsoles
  <1>2. UNCHANGED <<TextInList, TextInListCount, TextInExList,
                    TextInExListCount, KeyQueueCount, NotifyList, regs, leaving>>
    <2>1. CASE ResetEnds
      BY <2>1 DEF ResetEnds, LoopStep, lists, notifies
    <2>2. CASE ReadSavedKeyStroke \/ ReadSavedKeyStrokeEx
      BY <2>2 DEF ReadSavedKeyStroke, ReadSavedKeyStrokeEx, Reads, lists,
                  notifies
    <2>3. CASE ReadKeyStroke \/ ReadKeyStrokeEx
      <3>1. \E k : Reads(k)
        BY <2>3, Zenon DEF ReadKeyStroke, ReadKeyStrokeEx
      <3> QED  BY <3>1 DEF Reads, lists, notifies
    <2> QED  BY <2>1, <2>2, <2>3
  <1>3. Len(KeyQueue') <= TextInExListCount
    <2>1. CASE ReadSavedKeyStroke
      <3> DEFINE n == FirstWhole(KeyQueue)
      <3>1. n \in 0 .. Len(KeyQueue)
        BY <1>1, FirstWholeFacts
      <3>2. KeyQueue' = From(KeyQueue, n + 1)
        BY <2>1 DEF ReadSavedKeyStroke
      <3> HIDE DEF n
      <3>3. Len(KeyQueue') = Len(KeyQueue) - n
        BY <1>1, <3>1, <3>2, FromFacts DEF Without
      <3> QED  BY <1>1, <3>1, <3>3
    <2>2. CASE ReadSavedKeyStrokeEx
      <3>1. KeyQueue # << >> /\ KeyQueue' = Tail(KeyQueue)
        BY <2>2 DEF ReadSavedKeyStrokeEx
      <3> QED  BY <1>1, <3>1
    <2>3. CASE ReadKeyStroke \/ ResetEnds
      <3>1. KeyQueue' = << >>
        BY <2>3 DEF ReadKeyStroke, ResetEnds
      <3> QED  BY <1>1, <3>1
    <2>4. CASE ReadKeyStrokeEx
      <3> DEFINE saved == SavedUpTo(NumberOfExConsoles)
      <3>1. KeyQueue' = << >> \/ (saved # << >> /\ KeyQueue' = Tail(saved))
        BY <2>4 DEF ReadKeyStrokeEx
      <3>2. saved \in Seq(Key) /\ Len(saved) <= NumberOfExConsoles
        <4> HIDE DEF saved
        <4>1. saved = SavedUpTo(NumberOfExConsoles)
          BY DEF saved
        <4> QED  BY <4>1, SavedFacts DEF KeysInv, NumberOfExConsoles
      <3> HIDE DEF saved
      <3> QED  BY <1>1, <3>1, <3>2
    <2> QED  BY <2>1, <2>2, <2>3, <2>4
  <1>4. /\ NotifyTypes' /\ (NumberOfExConsoles <= TextInExListCount)'
    BY <1>1, <1>2 DEF BufferInv, NotifyTypes, NumberOfExConsoles
  <1> QED  BY <1>2, <1>3, <1>4 DEF BufferInv

\* Only the notifications and the registrations change.
LEMMA NotifyBuffers ==
    ASSUME BufferInv, NotifyTypes',
           UNCHANGED <<lists, KeyQueue>>,
           \A i \in 1 .. Len(NotifyList') :
             TextInExListCount <= Len(NotifyList'[i].NotifyHandleList)
    PROVE  BufferInv'
  <1>1. /\ TextInList' = TextInList /\ TextInListCount' = TextInListCount
        /\ TextInExListCount' = TextInExListCount
        /\ KeyQueueCount' = KeyQueueCount /\ KeyQueue' = KeyQueue
        /\ leaving' = leaving /\ NumberOfExConsoles' = NumberOfExConsoles
    BY DEF lists, NumberOfExConsoles
  <1> QED  BY <1>1 DEF BufferInv

LEMMA RegisterBuffers ==
    ASSUME ListInv, BufferInv, NEW k \in KeyDatas, NEW fn \in Fns,
           RegisterKeyNotify(k, fn) \/ RegisterFails(k, fn)
    PROVE  BufferInv'
  <1> DEFINE new == NewNotify(k, fn)
  <1>1. NotifyTypes /\ UNCHANGED <<lists, KeyQueue>>
        /\ NotifyList \in Seq(Notifications) /\ Len(NotifyList) \in Nat
        /\ \A i \in 1 .. Len(NotifyList) :
             TextInExListCount <= Len(NotifyList[i].NotifyHandleList)
        /\ TextInExListCount \in Nat
    BY DEF BufferInv, NotifyTypes, RegisterKeyNotify, RegisterFails, queues
  <1>2. new \in Notifications
    BY NewNotifyFacts
  <1> HIDE DEF new
  <1>3. \A d \in Consoles : Register(d, regs[d], new).regs \in FiniteRegs
    <2> SUFFICES ASSUME NEW d \in Consoles
                 PROVE  Register(d, regs[d], new).regs \in FiniteRegs
      OBVIOUS
    <2>1. regs[d] \in FiniteRegs
      BY <1>1 DEF NotifyTypes
    <2> QED  BY <1>2, <2>1, RegisterFacts
  <1>4. CASE RegisterKeyNotify(k, fn)
    <2>1. PICK b : NotifyList' = Append(NotifyList, b) /\ RegisteredNotify(b, k, fn)
      BY <1>4, RegisterKeyFacts
    <2>2. b \in Notifications /\ Len(b.NotifyHandleList) = TextInExListCount
      BY <2>1 DEF RegisteredNotify
    <2>3. regs' = [d \in Consoles |-> IF d \in ToSet(TextInExList)
                                      THEN Register(d, regs[d], new).regs
                                      ELSE regs[d]]
      BY <1>4, Zenon DEF RegisterKeyNotify, new
    <2>4. regs' \in [Consoles -> FiniteRegs]
      BY <1>1, <1>3, <2>3 DEF NotifyTypes
    <2>5. NotifyList' \in Seq(Notifications) /\ Len(NotifyList') = Len(NotifyList) + 1
      BY <1>1, <2>1, <2>2
    <2>6. ASSUME NEW i \in 1 .. Len(NotifyList')
          PROVE  TextInExListCount <= Len(NotifyList'[i].NotifyHandleList)
      <3>1. CASE i \in 1 .. Len(NotifyList)
        <4>1. NotifyList'[i] = NotifyList[i]
          BY <1>1, <2>1, <2>2, <3>1
        <4> QED  BY <1>1, <3>1, <4>1
      <3>2. CASE i = Len(NotifyList) + 1
        <4>1. NotifyList'[i] = b
          BY <1>1, <2>1, <2>2, <3>2
        <4> QED  BY <1>1, <2>2, <4>1
      <3> QED  BY <1>1, <2>5, <3>1, <3>2
    <2> QED  BY <1>1, <2>4, <2>5, <2>6, NotifyBuffers DEF NotifyTypes
  <1>5. CASE RegisterFails(k, fn)
    <2>1. PICK n \in 1 .. NumberOfExConsoles :
            regs' = [d \in Consoles |->
                       LET r == Register(d, regs[d], new)
                       IN  IF d \in ToSet(SubSeq(TextInExList, 1, n - 1))
                           THEN Unregister(r.regs, r.handle) ELSE regs[d]]
      BY <1>5, Zenon DEF RegisterFails, new
    <2>2. NotifyList' = NotifyList
      BY <1>5 DEF RegisterFails
    <2>3. ASSUME NEW d \in Consoles
          PROVE  /\ regs[d] \in FiniteRegs
                 /\ Unregister(Register(d, regs[d], new).regs,
                               Register(d, regs[d], new).handle) \in FiniteRegs
      <3> DEFINE r == Register(d, regs[d], new).regs
                 h == Register(d, regs[d], new).handle
      <3>1. r \in FiniteRegs
        BY <1>3
      <3>2. Unregister(r, h) \subseteq r
        <4> HIDE DEF r, h
        <4> QED  BY DEF Unregister
      <3>3. Unregister(r, h) \in FiniteRegs
        <4> HIDE DEF r, h
        <4> QED  BY <3>1, <3>2, FewerRegs
      <3> QED  BY <1>1, <3>3 DEF NotifyTypes
    <2>4. regs' \in [Consoles -> FiniteRegs]
      BY <2>1, <2>3
    <2>5. NotifyTypes'
      BY <1>1, <2>2, <2>4 DEF NotifyTypes
    <2>6. \A i \in 1 .. Len(NotifyList') :
            TextInExListCount <= Len(NotifyList'[i].NotifyHandleList)
      BY <1>1, <2>2
    <2> QED  BY <1>1, <2>5, <2>6, NotifyBuffers
  <1> QED  BY <1>4, <1>5

LEMMA UnregisterBuffers ==
    ASSUME BufferInv, NEW i \in DOMAIN NotifyList, UnregisterKeyNotify(i)
    PROVE  BufferInv'
  <1>1. /\ NotifyTypes /\ UNCHANGED <<lists, KeyQueue>>
        /\ NotifyList \in Seq(Notifications) /\ i \in 1 .. Len(NotifyList)
        /\ \A j \in 1 .. Len(NotifyList) :
             TextInExListCount <= Len(NotifyList[j].NotifyHandleList)
    BY DEF BufferInv, NotifyTypes, UnregisterKeyNotify, queues
  <1>2. NotifyList' = RemoveAt(NotifyList, i)
    BY Zenon DEF UnregisterKeyNotify
  <1>3. /\ NotifyList' \in Seq(Notifications)
        /\ Len(NotifyList') = Len(NotifyList) - 1
        /\ \A j \in 1 .. (Len(NotifyList) - 1) :
             NotifyList'[j] = IF j < i THEN NotifyList[j] ELSE NotifyList[j + 1]
    BY <1>1, <1>2, RemoveAtFacts
  <1>4. ASSUME NEW j \in 1 .. Len(NotifyList')
        PROVE  TextInExListCount <= Len(NotifyList'[j].NotifyHandleList)
    <2>1. /\ j \in 1 .. (Len(NotifyList) - 1)
          /\ j \in 1 .. Len(NotifyList) /\ j + 1 \in 1 .. Len(NotifyList)
      BY <1>1, <1>3
    <2>2. NotifyList'[j] = NotifyList[j] \/ NotifyList'[j] = NotifyList[j + 1]
      BY <1>3, <2>1
    <2> QED  BY <1>1, <2>1, <2>2
  <1>5. regs' \in [Consoles -> FiniteRegs]
    <2> DEFINE h(d) == NotifyList[i].NotifyHandleList[
                         SelectInSeq(TextInExList, LAMBDA c : c = d)]
    <2>1. regs' = [d \in Consoles |-> IF d \in ToSet(TextInExList)
                                      THEN Unregister(regs[d], h(d)) ELSE regs[d]]
      BY Zenon DEF UnregisterKeyNotify
    <2> HIDE DEF h
    <2>2. ASSUME NEW d \in Consoles
          PROVE  /\ regs[d] \in FiniteRegs
                 /\ Unregister(regs[d], h(d)) \in FiniteRegs
      <3>1. regs[d] \in FiniteRegs /\ Unregister(regs[d], h(d)) \subseteq regs[d]
        BY <1>1 DEF NotifyTypes, Unregister
      <3> QED  BY <3>1, FewerRegs
    <2> QED  BY <2>1, <2>2
  <1> QED  BY <1>1, <1>3, <1>4, <1>5, NotifyBuffers DEF NotifyTypes

LEMMA StopBuffers ==
    ASSUME ListInv, BufferInv, NEW d \in Consoles,
           ConsoleStops(d) \/ ConInDriverBindingStop(d)
    PROVE  BufferInv'
  <1>1. CASE ConsoleStops(d)
    <2>1. /\ UNCHANGED <<TextInList, TextInListCount, TextInExList,
                         TextInExListCount, KeyQueueCount, KeyQueue, NotifyList>>
          /\ leaving' = NULL /\ regs' = [regs EXCEPT ![d] = {}]
      BY <1>1 DEF ConsoleStops
    <2>2. {} \in FiniteRegs
      BY FS_EmptySet DEF FiniteRegs
    <2>3. NotifyTypes'
      BY <2>1, <2>2 DEF BufferInv, NotifyTypes
    <2> QED  BY <2>1, <2>3 DEF BufferInv, NumberOfExConsoles
  <1>2. CASE ConInDriverBindingStop(d)
    <2>1. /\ UNCHANGED <<TextInListCount, TextInExListCount, KeyQueueCount,
                         KeyQueue, NotifyList, regs>>
          /\ d \in ToSet(TextInExList)
          /\ TextInExList' = RemoveFirst(TextInExList, d)
          /\ TextInList' = RemoveFirst(TextInList, d)
          /\ leaving' = NULL \/ leaving' = d
      BY <1>2 DEF ConInDriverBindingStop, Deleted, queues, notifies
    <2>2. /\ TextInList \in Seq(Consoles) /\ Distinct(TextInList)
          /\ TextInExList \in Seq(Consoles) /\ Distinct(TextInExList)
          /\ d \in ToSet(TextInList)
      BY <2>1 DEF ListInv
    <2>3. /\ Len(TextInExList') = Len(TextInExList) - 1
          /\ Len(TextInList') = Len(TextInList) - 1
      BY <2>1, <2>2, RemoveFirstFacts
    <2>4. /\ Len(TextInList') <= TextInListCount
          /\ (NumberOfExConsoles <= TextInExListCount)'
      BY <2>1, <2>2, <2>3 DEF BufferInv, NumberOfExConsoles
    <2>5. NotifyTypes' /\ leaving' \in Consoles \union {NULL}
      BY <2>1 DEF BufferInv, NotifyTypes
    <2> QED  BY <2>1, <2>4, <2>5 DEF BufferInv
  <1> QED  BY <1>1, <1>2

\* Every step leaves room in the buffers.
LEMMA NextBufferInv == ListInv /\ KeysInv /\ BufferInv /\ [Next]_vars => BufferInv'
  <1> SUFFICES ASSUME ListInv, KeysInv, BufferInv, [Next]_vars PROVE BufferInv'
    OBVIOUS
  <1>1. CASE UNCHANGED bufferVars
    BY <1>1 DEF bufferVars, BufferInv, NotifyTypes, NumberOfExConsoles
  <1>2. ASSUME NEW d \in Consoles,
               \/ ConsoleStops(d) \/ StartWithoutMemory(d) \/ StartRefused(d)
               \/ StartDone(d) \/ ConInDriverBindingStop(d)
        PROVE  BufferInv'
    BY <1>2, StopBuffers, StartWithoutMemoryBuffers, StartBuffers
  <1>3. ASSUME NEW k \in KeyDatas, NEW fn \in Fns,
               RegisterKeyNotify(k, fn) \/ RegisterFails(k, fn)
        PROVE  BufferInv'
    BY <1>3, RegisterBuffers
  <1>4. ASSUME NEW i \in DOMAIN NotifyList, UnregisterKeyNotify(i)
        PROVE  BufferInv'
    BY <1>4, UnregisterBuffers
  <1> QED  BY <1>1, <1>2, <1>3, <1>4, BufferSteps, ReadBuffers

LEMMA InitBuffers == Init => BufferInv
  <1> SUFFICES ASSUME Init PROVE BufferInv
    OBVIOUS
  <1> DEFINE h == NewHandleList(Unit)
             first == [KeyData |-> SyncKey, KeyNotificationFn |-> SyncFn,
                       NotifyHandleList |-> h]
  <1>1. Unit \in Nat \ {0}
    BY SplitterAssumption
  <1>2. h \in HandleLists /\ Len(h) = Unit
    <2>1. h \in [1 .. Unit -> Handles \union {NULL}]
      BY DEF NewHandleList
    <2> HIDE DEF h
    <2> QED  BY <1>1, <2>1 DEF HandleLists
  <1>3. first \in Notifications /\ first.NotifyHandleList = h
    <2> HIDE DEF h
    <2> QED  BY <1>2 DEF Notifications, AllKeyDatas, AllFns
  <1>4. NotifyList = <<first>> /\ regs = [d \in Consoles |-> {}]
    BY DEF Init
  <1> HIDE DEF first, h
  <1>5. NotifyTypes
    <2>1. {} \in FiniteRegs
      BY FS_EmptySet DEF FiniteRegs
    <2> QED  BY <1>3, <1>4, <2>1 DEF NotifyTypes
  <1>6. \A i \in 1 .. Len(NotifyList) :
          Unit <= Len(NotifyList[i].NotifyHandleList)
    <2>1. \A i \in 1 .. Len(NotifyList) : NotifyList[i] = first
      BY <1>4
    <2> QED  BY <1>1, <1>2, <1>3, <2>1
  <1>7. /\ TextInListCount = Unit /\ TextInExListCount = Unit
        /\ KeyQueueCount = Unit
        /\ Len(TextInList) = 0 /\ NumberOfExConsoles = 0 /\ Len(KeyQueue) = 0
        /\ leaving = NULL
    BY DEF Init, NumberOfExConsoles
  <1> QED  BY <1>1, <1>5, <1>6, <1>7 DEF BufferInv

LEMMA BuffersInductive == Spec => []BufferInv
  <1> QED  BY InitBuffers, NextBufferInv, KeysInductive, PTL DEF Spec

\* TypeOK, for any number of consoles, keys and functions: also after every
\* allocation that failed, the lists that are indexed alike have room alike.
THEOREM TypeCorrect == Spec => []TypeOK
  <1>1. ListInv /\ ToggleInv /\ KeysInv /\ SignalInv /\ BufferInv => TypeOK
    <2> SUFFICES ASSUME ListInv, ToggleInv, KeysInv, SignalInv, BufferInv
                 PROVE  TypeOK
      OBVIOUS
    <2>1. BuffersFit
      <3>1. /\ NotifyList \in Seq(Notifications) /\ TextInExListCount \in Nat
            /\ KeyQueueCount \in Nat /\ KeyQueue \in Seq(Key)
        BY DEF BufferInv, NotifyTypes, KeysInv, KeyTypes
      <3>2. Len(KeyQueue) <= KeyQueueCount
        BY <3>1 DEF BufferInv
      <3> QED  BY <3>1, <3>2 DEF BuffersFit, BufferInv, NumberOfExConsoles
    <2>2. TextInList \in Seq(running) /\ TextInExList \in Seq(running)
      <3>1. /\ TextInList \in Seq(Consoles) /\ ToSet(TextInList) \subseteq running
            /\ TextInExList \in Seq(Consoles)
            /\ ToSet(TextInExList) \subseteq running
        BY DEF ListInv
      <3> QED  BY <3>1, ToSetFacts
    <2>3. {TextInListCount, TextInExListCount, KeyQueueCount} \subseteq Nat \ {0}
      BY DEF BufferInv
    <2>4. \A i \in DOMAIN NotifyList : IsNotify(NotifyList[i])
      <3>1. \A n \in Notifications : IsNotify(n)
        BY DEF Notifications, IsNotify, AllKeyDatas, AllFns, HandleLists
      <3>2. NotifyList \in Seq(Notifications)
        BY DEF BufferInv, NotifyTypes
      <3>3. \A i \in DOMAIN NotifyList : NotifyList[i] \in Notifications
        BY <3>2
      <3> QED  BY <3>1, <3>3
    <2>5. {KeyEventSignalState, VirtualKeyStateExported} \subseteq BOOLEAN
      BY DEF SignalInv, ToggleInv, ToggleTypes
    <2>6. ASSUME NEW d \in Consoles
          PROVE  /\ keys[d] \in Seq(Key)
                 /\ toggle[d] \in Toggles \union {Off}
                 /\ \A e \in regs[d] : e.handle \in Handles
      <3>1. regs[d] \subseteq Registrations
        BY DEF BufferInv, NotifyTypes, FiniteRegs
      <3>2. \A e \in Registrations : e.handle \in Handles
        BY DEF Registrations
      <3> QED  BY <3>1, <3>2 DEF KeysInv, KeyTypes, ToggleInv, ToggleTypes
    <2>7. setting.op \in {"none", "Reset", "SetState"}
      BY SettingCases DEF ToggleInv, ToggleTypes
    <2>8. /\ KeyQueue \in Seq(Key) /\ PhysicalKeyToggleState \in Toggles
          /\ opened \subseteq running /\ leaving \in Consoles \union {NULL}
      BY DEF KeysInv, KeyTypes, ToggleInv, ToggleTypes, ListInv, BufferInv
    <2> QED  BY <2>1, <2>2, <2>3, <2>4, <2>5, <2>6, <2>7, <2>8 DEF TypeOK
  <1> QED  BY <1>1, ListsInductive, KeysInductive, SignalInductive,
              BuffersInductive, PTL

-----------------------------------------------------------------------------
(* The registrations, when consoles go in the reverse of the order in which *)
(* they came.                                                              *)

\* Notification a as a console has it under handle h.
RegOf(h, a) == [handle |-> h, key |-> a.KeyData, fn |-> a.KeyNotificationFn]

\* No notification covers a later one.
NotifyOrdered ==
    \A i, j \in 1 .. Len(NotifyList) :
        i < j => ~ /\ IsKeyRegistered(NotifyList[i].KeyData, NotifyList[j].KeyData)
                   /\ NotifyList[i].KeyNotificationFn
                        = NotifyList[j].KeyNotificationFn

\* x has just the first n notifications, under different handles.
FirstRegistered(x, n) ==
    /\ x \in RegisteredSoFar /\ Len(x.handles) = n
    /\ \A e \in x.regs : \E j \in 1 .. n : e = RegOf(x.handles[j], NotifyList[j])
    /\ \A j \in 1 .. n : RegOf(x.handles[j], NotifyList[j]) \in x.regs
    /\ \A j, k \in 1 .. n : x.handles[j] = x.handles[k] => j = k

\* A notification that no registration covers is added under a new handle.
LEMMA RegisterTurnAdds ==
    ASSUME NotifyList \in Seq(Notifications), NotifyOrdered, NEW d \in Consoles,
           NEW i \in 1 .. Len(NotifyList), NEW x, FirstRegistered(x, i - 1),
           NEW y, y = RegisterTurn(d, x, i)
    PROVE  FirstRegistered(y, i)
  <1> DEFINE a == NotifyList[i]
             new == Register(d, x.regs, a)
  <1>1. /\ x \in RegisteredSoFar /\ Len(x.handles) = i - 1
        /\ \A e \in x.regs : \E j \in 1 .. (i - 1) :
             e = RegOf(x.handles[j], NotifyList[j])
        /\ \A j \in 1 .. (i - 1) : RegOf(x.handles[j], NotifyList[j]) \in x.regs
        /\ \A j, k \in 1 .. (i - 1) : x.handles[j] = x.handles[k] => j = k
    BY DEF FirstRegistered
  <1>2. /\ a \in Notifications
        /\ x.regs \in FiniteRegs /\ x.handles \in Seq(Handles)
        /\ new.handle \in Handles /\ y \in RegisteredSoFar
        /\ y.regs = new.regs /\ y.handles = Append(x.handles, new.handle)
    BY <1>1, RegisterTurnFacts
  <1>3. Covering(x.regs, a) = {}
    <2> SUFFICES ASSUME NEW e \in Covering(x.regs, a) PROVE FALSE
      OBVIOUS
    <2>1. /\ e \in x.regs /\ IsKeyRegistered(e.key, a.KeyData)
          /\ e.fn = a.KeyNotificationFn
      BY DEF Covering
    <2>2. PICK j \in 1 .. (i - 1) : e = RegOf(x.handles[j], NotifyList[j])
      BY <1>1, <2>1
    <2>3. e.key = NotifyList[j].KeyData /\ e.fn = NotifyList[j].KeyNotificationFn
      BY <2>2 DEF RegOf
    <2>4. j \in 1 .. Len(NotifyList) /\ j < i
      OBVIOUS
    <2> QED  BY <2>1, <2>3, <2>4 DEF NotifyOrdered
  <1>4. /\ \A e \in x.regs : e.handle # new.handle
        /\ new.regs = x.regs \union {RegOf(new.handle, a)}
    <2> HIDE DEF a
    <2>1. \A z : z = Register(d, x.regs, a) =>
            /\ \A e \in x.regs : e.handle # z.handle
            /\ z.regs = x.regs \union {RegOf(z.handle, a)}
      BY <1>2, <1>3, RegisterFacts DEF RegOf
    <2> QED  BY <2>1
  <1> HIDE DEF new
  <1>5. /\ Len(y.handles) = i /\ y.handles[i] = new.handle
        /\ \A j \in 1 .. (i - 1) : y.handles[j] = x.handles[j]
    BY <1>1, <1>2
  <1>6. \A j \in 1 .. (i - 1) : y.handles[j] # new.handle
    <2> SUFFICES ASSUME NEW j \in 1 .. (i - 1) PROVE y.handles[j] # new.handle
      OBVIOUS
    <2>1. RegOf(x.handles[j], NotifyList[j]).handle = x.handles[j]
      BY DEF RegOf
    <2> QED  BY <1>1, <1>4, <1>5, <2>1
  <1>7. \A j \in 1 .. i : j = i \/ j \in 1 .. (i - 1)
    OBVIOUS
  <1>8. ASSUME NEW e \in y.regs
        PROVE  \E j \in 1 .. i : e = RegOf(y.handles[j], NotifyList[j])
    <2>1. CASE e \in x.regs
      <3>1. PICK j \in 1 .. (i - 1) : e = RegOf(x.handles[j], NotifyList[j])
        BY <1>1, <2>1
      <3>2. j \in 1 .. i /\ y.handles[j] = x.handles[j]
        BY <1>5
      <3> QED  BY <3>1, <3>2
    <2>2. CASE e = RegOf(new.handle, a)
      <3>1. i \in 1 .. i
        OBVIOUS
      <3> QED  BY <1>5, <2>2, <3>1
    <2> QED  BY <1>2, <1>4, <2>1, <2>2
  <1>9. ASSUME NEW j \in 1 .. i
        PROVE  RegOf(y.handles[j], NotifyList[j]) \in y.regs
    BY <1>1, <1>2, <1>4, <1>5, <1>7
  <1>10. ASSUME NEW j \in 1 .. i, NEW k \in 1 .. i, y.handles[j] = y.handles[k]
         PROVE  j = k
    BY <1>1, <1>5, <1>6, <1>7, <1>10
  <1> QED  BY <1>2, <1>5, <1>8, <1>9, <1>10 DEF FirstRegistered

\* A console without registrations gets them all, under different handles.
LEMMA RegisteredExactly ==
    ASSUME NotifyList \in Seq(Notifications), NotifyOrdered, NEW d \in Consoles,
           regs[d] = {}, NEW n \in 0 .. Len(NotifyList)
    PROVE  FirstRegistered(RegisteredUpTo(d, n), n)
  <1>1. {} \in FiniteRegs
    BY FS_EmptySet DEF FiniteRegs
  <1>2. n \in Nat /\ \A i \in 1 .. n : /\ i \in 1 .. Len(NotifyList)
                                       /\ i - 1 \in 0 .. n
    OBVIOUS
  <1>3. PICK f : /\ RegisteredUpTo(d, n) = f[n]
                 /\ f[0] = [regs |-> regs[d], handles |-> << >>]
                 /\ \A i \in 0 .. n : f[i] \in RegisteredSoFar
                 /\ \A i \in 1 .. n : f[i] = RegisterTurn(d, f[i - 1], i)
    BY <1>1, RegisteredIsLoop
  <1> DEFINE T == {i \in 0 .. n : FirstRegistered(f[i], i)}
  <1>4. 0 \in T
    <2>1. f[0] \in RegisteredSoFar /\ f[0].regs = {} /\ f[0].handles = << >>
      BY <1>2, <1>3
    <2>2. FirstRegistered(f[0], 0)
      BY <2>1 DEF FirstRegistered
    <2> QED  BY <1>2, <2>2
  <1>5. ASSUME NEW i \in 1 .. n, i - 1 \in T PROVE i \in T
    <2>1. FirstRegistered(f[i - 1], i - 1) /\ i \in 1 .. Len(NotifyList)
          /\ f[i] = RegisterTurn(d, f[i - 1], i)
      BY <1>2, <1>3, <1>5
    <2> DEFINE x == f[i - 1]
               y == f[i]
    <2>2. FirstRegistered(y, i)
      <3> HIDE DEF x, y
      <3>1. FirstRegistered(x, i - 1) /\ y = RegisterTurn(d, x, i)
        BY <2>1 DEF x, y
      <3> QED  BY <2>1, <3>1, RegisterTurnAdds
    <2> QED  BY <2>2
  <1>6. 0 .. n \subseteq T
    <2> HIDE DEF T
    <2> QED  BY <1>2, <1>4, <1>5, UpToInduction
  <1> QED  BY <1>2, <1>3, <1>6

\* A console has just the notifications in list, under the different handles
\* that are kept at place p.
RegisteredAt(r, list, p) ==
    /\ \A e \in r : \E j \in 1 .. Len(list) :
         e = RegOf(list[j].NotifyHandleList[p], list[j])
    /\ \A j \in 1 .. Len(list) : RegOf(list[j].NotifyHandleList[p], list[j]) \in r
    /\ \A i, j \in 1 .. Len(list) :
         list[i].NotifyHandleList[p] = list[j].NotifyHandleList[p] => i = j

\* The consoles in use have all notifications, the others none, but for the
\* one that has been removed and stops next.
RegInv ==
    /\ NotifyOrdered
    /\ \A p \in 1 .. Len(TextInExList) :
         RegisteredAt(regs[TextInExList[p]], NotifyList, p)
    /\ \A d \in Consoles : d \notin ToSet(TextInExList) /\ d # leaving => regs[d] = {}
    /\ leaving # NULL =>
         /\ leaving \in Consoles \ ToSet(TextInExList)
         /\ \E p : RegisteredAt(regs[leaving], NotifyList, p)

regVars == <<TextInExList, NotifyList, regs, leaving>>

LEMMA RegSteps ==
    ASSUME [Next]_vars
    PROVE  \/ UNCHANGED regVars
           \/ \E d \in Consoles :
                \/ ConsoleStops(d) \/ StartWithoutMemory(d) \/ StartRefused(d)
                \/ StartDone(d) \/ ConInDriverBindingStop(d)
           \/ \E k \in KeyDatas, fn \in Fns :
                RegisterKeyNotify(k, fn) \/ RegisterFails(k, fn)
           \/ \E i \in DOMAIN NotifyList : UnregisterKeyNotify(i)
  <1>1. CASE UNCHANGED bufferVars
    BY <1>1 DEF bufferVars, regVars
  <1>2. CASE ReadSavedKeyStroke \/ ReadSavedKeyStrokeEx
    BY <1>2 DEF ReadSavedKeyStroke, ReadSavedKeyStrokeEx, Reads, lists,
                notifies, regVars
  <1>3. CASE ReadKeyStroke \/ ReadKeyStrokeEx
    <2>1. \E k : Reads(k)
      BY <1>3, Zenon DEF ReadKeyStroke, ReadKeyStrokeEx
    <2> QED  BY <2>1 DEF Reads, lists, notifies, regVars
  <1>4. CASE ResetEnds
    BY <1>4 DEF ResetEnds, LoopStep, lists, notifies, regVars
  <1> QED  BY <1>1, <1>2, <1>3, <1>4, BufferSteps

\* The same notifications, with the same handles for the consoles in use.
SameNotifies(old, new, n) ==
    /\ Len(new) = Len(old)
    /\ \A i \in 1 .. Len(old) : KeepsHandles(old[i], new[i], n)

LEMMA SameRegistered ==
    ASSUME NEW old \in Seq(Notifications), NEW new, NEW n \in Nat,
           SameNotifies(old, new, n), NEW p \in 1 .. n, NEW r,
           RegisteredAt(r, old, p)
    PROVE  RegisteredAt(r, new, p)
  <1> DEFINE len == Len(old)
  <1>1. \A j \in 1 .. len :
          /\ new[j].NotifyHandleList[p] = old[j].NotifyHandleList[p]
          /\ RegOf(new[j].NotifyHandleList[p], new[j])
               = RegOf(old[j].NotifyHandleList[p], old[j])
    BY DEF SameNotifies, KeepsHandles, SameNotify, RegOf
  <1>2. Len(new) = len
    BY DEF SameNotifies
  <1>3. /\ \A e \in r : \E j \in 1 .. len :
             e = RegOf(old[j].NotifyHandleList[p], old[j])
        /\ \A j \in 1 .. len : RegOf(old[j].NotifyHandleList[p], old[j]) \in r
        /\ \A i, j \in 1 .. len :
             old[i].NotifyHandleList[p] = old[j].NotifyHandleList[p] => i = j
    BY DEF RegisteredAt
  <1> HIDE DEF len
  <1>4. \A e \in r : \E j \in 1 .. len :
             e = RegOf(new[j].NotifyHandleList[p], new[j])
    BY <1>1, <1>3
  <1>5. \A j \in 1 .. len : RegOf(new[j].NotifyHandleList[p], new[j]) \in r
    BY <1>1, <1>3
  <1>6. \A i, j \in 1 .. len :
          new[i].NotifyHandleList[p] = new[j].NotifyHandleList[p] => i = j
    BY <1>1, <1>3
  <1> QED  BY <1>2, <1>4, <1>5, <1>6 DEF RegisteredAt

LEMMA SameOrdered ==
    ASSUME NotifyOrdered, SameNotifies(NotifyList, NotifyList', NumberOfExConsoles)
    PROVE  NotifyOrdered'
  <1>1. /\ Len(NotifyList') = Len(NotifyList)
        /\ \A i \in 1 .. Len(NotifyList) :
             /\ NotifyList'[i].KeyData = NotifyList[i].KeyData
             /\ NotifyList'[i].KeyNotificationFn = NotifyList[i].KeyNotificationFn
    BY DEF SameNotifies, KeepsHandles, SameNotify
  <1> QED  BY <1>1 DEF NotifyOrdered

\* A step that keeps the notifications of the consoles in use.
LEMMA OthersKeptReg ==
    ASSUME ListInv, BufferInv, RegInv, leaving = NULL, leaving' = NULL,
           SameNotifies(NotifyList, NotifyList', NumberOfExConsoles),
           NEW d \in Consoles, d \notin ToSet(TextInExList),
           NEW r, regs' = [regs EXCEPT ![d] = r]
    PROVE  /\ NotifyOrdered'
           /\ \A p \in 1 .. Len(TextInExList) :
                RegisteredAt(regs'[TextInExList[p]], NotifyList', p)
           /\ \A e \in Consoles :
                e \notin ToSet(TextInExList) /\ e # d => regs'[e] = {}
           /\ regs'[d] = r
  <1>1. /\ TextInExList \in Seq(Consoles) /\ NumberOfExConsoles = Len(TextInExList)
        /\ NumberOfExConsoles \in Nat
        /\ NotifyList \in Seq(Notifications) /\ regs \in [Consoles -> FiniteRegs]
    BY DEF ListInv, NumberOfExConsoles, BufferInv, NotifyTypes
  <1>2. ASSUME NEW p \in 1 .. Len(TextInExList)
        PROVE  RegisteredAt(regs'[TextInExList[p]], NotifyList', p)
    <2> DEFINE e == TextInExList[p]
    <2>1. e \in ToSet(TextInExList) /\ e \in Consoles
      BY <1>1, ToSetFacts
    <2>2. regs'[e] = regs[e]
      BY <1>1, <2>1
    <2>3. RegisteredAt(regs[e], NotifyList, p) /\ p \in 1 .. NumberOfExConsoles
      BY <1>1 DEF RegInv
    <2> HIDE DEF e
    <2>4. RegisteredAt(regs[e], NotifyList', p)
      BY <1>1, <2>3, SameRegistered
    <2>5. RegisteredAt(regs'[e], NotifyList', p)
      BY <2>2, <2>4
    <2> QED  BY <2>5 DEF e
  <1>3. ASSUME NEW e \in Consoles, e \notin ToSet(TextInExList), e # d
        PROVE  regs'[e] = {}
    <2>1. e # leaving
      BY SplitterAssumption
    <2> QED  BY <1>1, <1>3, <2>1 DEF RegInv
  <1>4. NotifyOrdered'
    BY SameOrdered DEF RegInv
  <1> QED  BY <1>1, <1>2, <1>3, <1>4

LEMMA ConsoleStopsReg ==
    ASSUME ListInv, BufferInv, RegInv, NEW d \in Consoles, ConsoleStops(d)
    PROVE  RegInv'
  <1>1. /\ TextInExList' = TextInExList /\ NotifyList' = NotifyList
        /\ leaving \in {d, NULL} /\ leaving' = NULL
        /\ regs' = [regs EXCEPT ![d] = {}]
        /\ d \notin opened
    BY DEF ConsoleStops
  <1>2. d \notin ToSet(TextInExList) /\ TextInExList \in Seq(Consoles)
        /\ regs \in [Consoles -> FiniteRegs]
    BY <1>1 DEF ListInv, BufferInv, NotifyTypes
  <1>3. NotifyOrdered'
    BY <1>1 DEF RegInv, NotifyOrdered
  <1>4. ASSUME NEW p \in 1 .. Len(TextInExList)
        PROVE  RegisteredAt(regs'[TextInExList[p]], NotifyList, p)
    <2>1. TextInExList[p] \in Consoles /\ TextInExList[p] # d
      BY <1>2, ToSetFacts
    <2>2. regs'[TextInExList[p]] = regs[TextInExList[p]]
      BY <1>1, <1>2, <2>1
    <2> QED  BY <2>2 DEF RegInv
  <1>5. ASSUME NEW e \in Consoles, e \notin ToSet(TextInExList)
        PROVE  regs'[e] = {}
    <2>1. CASE e = d
      BY <1>1, <1>2, <2>1
    <2>2. CASE e # d
      <3>1. e # leaving
        BY <1>1, <2>2, SplitterAssumption
      <3> QED  BY <1>1, <1>2, <1>5, <2>2, <3>1 DEF RegInv
    <2> QED  BY <2>1, <2>2
  <1> QED  BY <1>1, <1>3, <1>4, <1>5 DEF RegInv, ToSet

\* The console that goes is the last one: no other changes its place.
LEMMA ConInStopReg ==
    ASSUME ~AnyOrder, ListInv, BufferInv, RegInv,
           NEW d \in Consoles, ConInDriverBindingStop(d)
    PROVE  RegInv'
  <1> DEFINE last == Len(TextInExList)
  <1>1. /\ d \in ToSet(TextInExList) /\ d = Last(TextInExList)
        /\ TextInExList' = RemoveFirst(TextInExList, d)
        /\ NotifyList' = NotifyList /\ regs' = regs
        /\ leaving = NULL /\ leaving' = d
    BY DEF ConInDriverBindingStop, Ready, Deleted, notifies
  <1>2. TextInExList \in Seq(Consoles) /\ Distinct(TextInExList)
    BY DEF ListInv
  <1>3. /\ ToSet(TextInExList') = ToSet(TextInExList) \ {d}
        /\ Len(TextInExList') = last - 1 /\ last \in Nat
    BY <1>1, <1>2, RemoveFirstFacts
  <1>4. PICK n \in 1 .. last : /\ TextInExList[n] = d
                               /\ TextInExList' = RemoveAt(TextInExList, n)
    BY <1>1, <1>2, RemoveFirstFacts
  <1>5. n = last
    <2>1. last \in 1 .. last /\ TextInExList[last] = d
      BY <1>1, <1>2, <1>4 DEF Last
    <2> QED  BY <1>2, <1>4, <2>1 DEF Distinct
  <1>6. \A p \in 1 .. (last - 1) : TextInExList'[p] = TextInExList[p]
    <2>1. \A p \in 1 .. (last - 1) :
            TextInExList'[p] = IF p < n THEN TextInExList[p] ELSE TextInExList[p + 1]
      BY <1>2, <1>4, RemoveAtFacts
    <2> QED  BY <1>3, <1>5, <2>1
  <1>7. ASSUME NEW p \in 1 .. Len(TextInExList')
        PROVE  RegisteredAt(regs'[TextInExList'[p]], NotifyList', p)
    <2>1. p \in 1 .. (last - 1) /\ p \in 1 .. last
      BY <1>3
    <2>2. RegisteredAt(regs[TextInExList[p]], NotifyList, p)
      BY <2>1 DEF RegInv
    <2>3. regs'[TextInExList'[p]] = regs[TextInExList[p]]
      BY <1>1, <1>6, <2>1
    <2> QED  BY <1>1, <2>2, <2>3
  <1>8. ASSUME NEW e \in Consoles, e \notin ToSet(TextInExList'), e # d
        PROVE  regs'[e] = {}
    <2>1. e \notin ToSet(TextInExList) /\ e # leaving
      BY <1>1, <1>3, <1>8, SplitterAssumption
    <2> QED  BY <1>1, <2>1 DEF RegInv
  <1>9. \E p : RegisteredAt(regs'[d], NotifyList', p)
    BY <1>1, <1>4 DEF RegInv
  <1>10. NotifyOrdered'
    BY <1>1 DEF RegInv, NotifyOrdered
  <1>11. d \in Consoles \ ToSet(TextInExList')
    BY <1>3
  <1>12. (ToSet(TextInExList))' = ToSet(TextInExList')
    BY DEF ToSet
  <1> QED  BY <1>1, <1>7, <1>8, <1>9, <1>10, <1>11, <1>12 DEF RegInv

LEMMA StartWithoutMemoryReg ==
    ASSUME ListInv, BufferInv, RegInv, NEW d \in Consoles, StartWithoutMemory(d)
    PROVE  RegInv'
  <1>1. /\ leaving = NULL /\ leaving' = NULL /\ d \notin opened
        /\ TextInExList' = TextInExList /\ regs' = regs
    BY DEF StartWithoutMemory, Opens, Ready
  <1>2. PICK n \in 0 .. Len(NotifyList) : NotifyList' = GrownUpTo(n)
    BY DEF StartWithoutMemory
  <1>3. /\ NotifyList \in Seq(Notifications) /\ TextInExListCount \in Nat
        /\ \A i \in 1 .. Len(NotifyList) :
             TextInExListCount <= Len(NotifyList[i].NotifyHandleList)
        /\ NumberOfExConsoles \in Nat /\ NumberOfExConsoles <= TextInExListCount
        /\ regs \in [Consoles -> FiniteRegs] /\ d \notin ToSet(TextInExList)
    BY <1>1 DEF BufferInv, NotifyTypes, ListInv, NumberOfExConsoles
  <1> DEFINE new == GrownUpTo(n)
  <1>4. /\ Len(new) = Len(NotifyList)
        /\ \A i \in 1 .. Len(new) :
             KeepsHandles(NotifyList[i], new[i], TextInExListCount)
    <2> HIDE DEF new
    <2>1. new = GrownUpTo(n)
      BY DEF new
    <2> QED  BY <1>3, <2>1, GrownUpToFacts
  <1> HIDE DEF new
  <1>5. NotifyList' = new
    BY <1>2 DEF new
  <1>6. ASSUME NEW i \in 1 .. Len(NotifyList)
        PROVE  KeepsHandles(NotifyList[i], new[i], NumberOfExConsoles)
    <2>1. KeepsHandles(NotifyList[i], new[i], TextInExListCount)
      BY <1>4
    <2>2. \A p \in 1 .. NumberOfExConsoles : p \in 1 .. TextInExListCount
      BY <1>3
    <2> QED  BY <2>1, <2>2, Zenon DEF KeepsHandles
  <1>7. SameNotifies(NotifyList, NotifyList', NumberOfExConsoles)
    BY <1>4, <1>5, <1>6 DEF SameNotifies
  <1>8. regs' = [regs EXCEPT ![d] = regs[d]] /\ regs[d] = {}
    <2>1. d # leaving
      BY <1>1, SplitterAssumption
    <2> QED  BY <1>1, <1>3, <2>1 DEF RegInv
  <1>9. /\ NotifyOrdered'
        /\ \A p \in 1 .. Len(TextInExList) :
             RegisteredAt(regs'[TextInExList[p]], NotifyList', p)
        /\ \A e \in Consoles :
             e \notin ToSet(TextInExList) /\ e # d => regs'[e] = {}
        /\ regs'[d] = {}
    BY <1>1, <1>3, <1>7, <1>8, OthersKeptReg
  <1> QED  BY <1>1, <1>9 DEF RegInv, ToSet

\* The lists after the first n notifications are registered with a new console.
LEMMA AddedReg ==
    ASSUME ListInv, BufferInv, RegInv, leaving = NULL, GrowsIfNeeded,
           NEW d \in Consoles, d \in running \ opened,
           NEW n \in 0 .. Len(NotifyList),
           NEW done, done = RegisteredUpTo(d, n),
           NotifyList' = WithHandles(LongEnough(NotifyList), done.handles)
    PROVE  /\ d \notin ToSet(TextInExList)
           /\ FirstRegistered(done, n)
           /\ SameNotifies(NotifyList, NotifyList', NumberOfExConsoles)
           /\ \A i \in 1 .. n :
                NotifyList'[i].NotifyHandleList[NumberOfExConsoles + 1]
                  = done.handles[i]
  <1>1. d \notin ToSet(TextInExList) /\ d # leaving /\ NotifyOrdered
        /\ NotifyList \in Seq(Notifications)
    BY SplitterAssumption DEF ListInv, RegInv, BufferInv, NotifyTypes
  <1>2. regs[d] = {}
    BY <1>1 DEF RegInv
  <1>3. FirstRegistered(done, n)
    BY <1>1, <1>2, RegisteredExactly
  <1> DEFINE new == WithHandles(LongEnough(NotifyList), done.handles)
  <1>4. /\ Len(new) = Len(NotifyList)
        /\ \A i \in 1 .. Len(NotifyList) :
             /\ KeepsHandles(NotifyList[i], new[i], NumberOfExConsoles)
             /\ i <= n => new[i].NotifyHandleList[NumberOfExConsoles + 1]
                            = done.handles[i]
    <2> HIDE DEF new
    <2>1. new = WithHandles(LongEnough(NotifyList), done.handles)
      BY DEF new
    <2> QED  BY <2>1, AddedFacts
  <1> HIDE DEF new
  <1>5. NotifyList' = new
    BY DEF new
  <1>6. \A i \in 1 .. n : i \in 1 .. Len(NotifyList) /\ i <= n
    BY <1>1
  <1> QED  BY <1>1, <1>3, <1>4, <1>5, <1>6 DEF SameNotifies

LEMMA StartRefusedReg ==
    ASSUME ListInv, BufferInv, RegInv, NEW d \in Consoles, StartRefused(d)
    PROVE  RegInv'
  <1>1. /\ leaving = NULL /\ leaving' = NULL /\ d \in running \ opened
        /\ TextInExList' = TextInExList /\ GrowsIfNeeded
    BY DEF StartRefused, Opens, Ready
  <1>2. PICK n \in 0 .. (Len(NotifyList) - 1) :
          LET done == RegisteredUpTo(d, n)
          IN  /\ NotifyList' = WithHandles(LongEnough(NotifyList), done.handles)
              /\ regs' = [regs EXCEPT ![d] =
                   {e \in done.regs : e.handle \notin ToSet(done.handles)}]
    BY Zenon DEF StartRefused
  <1> DEFINE done == RegisteredUpTo(d, n)
             left == {e \in done.regs : e.handle \notin ToSet(done.handles)}
  <1>3. n \in 0 .. Len(NotifyList)
    BY DEF BufferInv, NotifyTypes
  <1>4. /\ NotifyList' = WithHandles(LongEnough(NotifyList), done.handles)
        /\ regs' = [regs EXCEPT ![d] = left]
    BY <1>2, Zenon
  <1>5. /\ d \notin ToSet(TextInExList) /\ FirstRegistered(done, n)
        /\ SameNotifies(NotifyList, NotifyList', NumberOfExConsoles)
    <2> HIDE DEF done
    <2>1. done = RegisteredUpTo(d, n)
      BY DEF done
    <2> QED  BY <1>1, <1>3, <1>4, <2>1, AddedReg
  <1> HIDE DEF done
  <1>6. left = {}
    <2> SUFFICES ASSUME NEW e \in done.regs, e.handle \notin ToSet(done.handles)
                 PROVE  FALSE
      OBVIOUS
    <2>1. PICK j \in 1 .. n : e = RegOf(done.handles[j], NotifyList[j])
      BY <1>5 DEF FirstRegistered
    <2>2. e.handle = done.handles[j] /\ j \in 1 .. Len(done.handles)
      BY <1>5, <2>1 DEF RegOf, FirstRegistered
    <2>3. done.handles \in Seq(Handles)
      BY <1>5 DEF FirstRegistered, RegisteredSoFar
    <2> QED  BY <2>2, <2>3, ToSetFacts
  <1> HIDE DEF left
  <1>7. /\ NotifyOrdered'
        /\ \A p \in 1 .. Len(TextInExList) :
             RegisteredAt(regs'[TextInExList[p]], NotifyList', p)
        /\ \A e \in Consoles :
             e \notin ToSet(TextInExList) /\ e # d => regs'[e] = {}
        /\ regs'[d] = left
    BY <1>1, <1>4, <1>5, OthersKeptReg
  <1> QED  BY <1>1, <1>6, <1>7 DEF RegInv, ToSet

LEMMA StartDoneReg ==
    ASSUME ListInv, BufferInv, RegInv, NEW d \in Consoles, StartDone(d)
    PROVE  RegInv'
  <1> DEFINE n == Len(NotifyList)
             done == RegisteredUpTo(d, n)
             last == NumberOfExConsoles + 1
  <1>1. /\ leaving = NULL /\ leaving' = NULL /\ d \in running \ opened
        /\ TextInExList' = Append(TextInExList, d) /\ GrowsIfNeeded
    BY DEF StartDone, Opens, Ready
  <1>2. /\ NotifyList' = WithHandles(LongEnough(NotifyList), done.handles)
        /\ regs' = [regs EXCEPT ![d] = done.regs]
    BY Zenon DEF StartDone
  <1>3. n \in 0 .. n /\ n \in Nat /\ NotifyList \in Seq(Notifications)
    BY DEF BufferInv, NotifyTypes
  <1>4. /\ d \notin ToSet(TextInExList) /\ FirstRegistered(done, n)
        /\ SameNotifies(NotifyList, NotifyList', NumberOfExConsoles)
        /\ \A i \in 1 .. n :
             NotifyList'[i].NotifyHandleList[last] = done.handles[i]
    <2> HIDE DEF done
    <2>1. done = RegisteredUpTo(d, n)
      BY DEF done
    <2> QED  BY <1>1, <1>2, <1>3, <2>1, AddedReg
  <1> HIDE DEF done
  <1>5. /\ NotifyOrdered'
        /\ \A p \in 1 .. Len(TextInExList) :
             RegisteredAt(regs'[TextInExList[p]], NotifyList', p)
        /\ \A e \in Consoles :
             e \notin ToSet(TextInExList) /\ e # d => regs'[e] = {}
        /\ regs'[d] = done.regs
    BY <1>1, <1>2, <1>4, OthersKeptReg
  <1>6. RegisteredAt(done.regs, NotifyList', last)
    <2>1. ASSUME NEW j \in 1 .. n
          PROVE  RegOf(NotifyList'[j].NotifyHandleList[last], NotifyList'[j])
                   = RegOf(done.handles[j], NotifyList[j])
      <3>1. SameNotify(NotifyList[j], NotifyList'[j])
        BY <1>4 DEF SameNotifies, KeepsHandles
      <3> QED  BY <1>4, <3>1 DEF SameNotify, RegOf
    <2>2. Len(NotifyList') = n
      BY <1>4 DEF SameNotifies
    <2> HIDE DEF n, last
    <2>3. \A e \in done.regs : \E j \in 1 .. n :
            e = RegOf(NotifyList'[j].NotifyHandleList[last], NotifyList'[j])
      BY <1>4, <2>1 DEF FirstRegistered
    <2>4. \A j \in 1 .. n :
            RegOf(NotifyList'[j].NotifyHandleList[last], NotifyList'[j])
              \in done.regs
      BY <1>4, <2>1 DEF FirstRegistered
    <2>5. \A i, j \in 1 .. n :
            NotifyList'[i].NotifyHandleList[last]
              = NotifyList'[j].NotifyHandleList[last] => i = j
      BY <1>4 DEF FirstRegistered
    <2> QED  BY <2>2, <2>3, <2>4, <2>5 DEF RegisteredAt
  <1>7. /\ TextInExList \in Seq(Consoles) /\ NumberOfExConsoles = Len(TextInExList)
        /\ Len(TextInExList) \in Nat
    BY DEF ListInv, NumberOfExConsoles
  <1>8. /\ Len(TextInExList') = last /\ TextInExList'[last] = d
        /\ \A p \in 1 .. Len(TextInExList) : TextInExList'[p] = TextInExList[p]
        /\ ToSet(TextInExList') = ToSet(TextInExList) \union {d}
    BY <1>1, <1>7, ToSetFacts
  <1>9. ASSUME NEW p \in 1 .. Len(TextInExList')
        PROVE  RegisteredAt(regs'[TextInExList'[p]], NotifyList', p)
    <2>1. CASE p = last
      <3>1. TextInExList'[p] = d
        BY <1>8, <2>1
      <3> HIDE DEF last
      <3> QED  BY <1>5, <1>6, <2>1, <3>1
    <2>2. CASE p # last
      <3>1. p \in 1 .. Len(TextInExList)
        BY <1>7, <1>8, <2>2
      <3>2. TextInExList'[p] = TextInExList[p]
        BY <1>8, <3>1
      <3> QED  BY <1>5, <3>1, <3>2
    <2> QED  BY <2>1, <2>2
  <1>10. \A e \in Consoles : e \notin ToSet(TextInExList') => regs'[e] = {}
    BY <1>5, <1>8
  <1>11. (ToSet(TextInExList))' = ToSet(TextInExList')
    BY DEF ToSet
  <1> QED  BY <1>1, <1>5, <1>9, <1>10, <1>11 DEF RegInv

\* A key and function that are not registered yet are new to a console in use.
LEMMA NewRegistration ==
    ASSUME BufferInv, NEW k \in KeyDatas, NEW fn \in Fns, ~IsRegistered(k, fn),
           NEW d \in Consoles, NEW r \in FiniteRegs,
           NEW p, RegisteredAt(r, NotifyList, p),
           NEW z, z = Register(d, r, NewNotify(k, fn))
    PROVE  /\ \A e \in r : e.handle # z.handle
           /\ z.regs = r \union {[handle |-> z.handle, key |-> k, fn |-> fn]}
  <1> DEFINE new == NewNotify(k, fn)
  <1>1. new \in Notifications /\ new.KeyData = k /\ new.KeyNotificationFn = fn
    BY NewNotifyFacts
  <1>2. DOMAIN NotifyList = 1 .. Len(NotifyList)
    BY DEF BufferInv, NotifyTypes
  <1> HIDE DEF new
  <1>3. Covering(r, new) = {}
    <2> SUFFICES ASSUME NEW e \in Covering(r, new) PROVE FALSE
      OBVIOUS
    <2>1. e \in r /\ IsKeyRegistered(e.key, k) /\ e.fn = fn
      BY <1>1 DEF Covering
    <2>2. PICK j \in 1 .. Len(NotifyList) :
            e = RegOf(NotifyList[j].NotifyHandleList[p], NotifyList[j])
      BY <2>1 DEF RegisteredAt
    <2>3. e.key = NotifyList[j].KeyData /\ e.fn = NotifyList[j].KeyNotificationFn
      BY <2>2 DEF RegOf
    <2> QED  BY <1>2, <2>1, <2>3 DEF IsRegistered
  <1>4. z = Register(d, r, new)
    BY DEF new
  <1> QED  BY <1>1, <1>3, <1>4, RegisterFacts

LEMMA RegisterKeyReg ==
    ASSUME ListInv, BufferInv, RegInv, NEW k \in KeyDatas, NEW fn \in Fns,
           RegisterKeyNotify(k, fn)
    PROVE  RegInv'
  <1> DEFINE n == Len(NotifyList)
             new == NewNotify(k, fn)
  <1>1. /\ leaving = NULL /\ leaving' = NULL /\ ~IsRegistered(k, fn)
        /\ TextInExList' = TextInExList
    BY DEF RegisterKeyNotify, Ready, lists
  <1>2. regs' = [d \in Consoles |-> IF d \in ToSet(TextInExList)
                                    THEN Register(d, regs[d], new).regs
                                    ELSE regs[d]]
    BY Zenon DEF RegisterKeyNotify
  <1>3. PICK b : NotifyList' = Append(NotifyList, b) /\ RegisteredNotify(b, k, fn)
    BY RegisterKeyFacts
  <1>4. b \in Notifications /\ b.KeyData = k /\ b.KeyNotificationFn = fn
    BY <1>3 DEF RegisteredNotify
  <1>5. /\ NotifyList \in Seq(Notifications) /\ n \in Nat
        /\ TextInExList \in Seq(Consoles) /\ NumberOfExConsoles = Len(TextInExList)
        /\ \A d \in Consoles : regs[d] \in FiniteRegs
    BY DEF BufferInv, NotifyTypes, ListInv, NumberOfExConsoles
  <1>6. /\ Len(NotifyList') = n + 1 /\ NotifyList'[n + 1] = b
        /\ \A j \in 1 .. n : NotifyList'[j] = NotifyList[j]
        /\ \A j \in 1 .. (n + 1) : j = n + 1 \/ j \in 1 .. n
        /\ \A j \in 1 .. n : j \in 1 .. (n + 1) /\ j < n + 1
        /\ n + 1 \in 1 .. (n + 1)
    BY <1>3, <1>4, <1>5
  <1>7. NotifyOrdered'
    <2>1. ASSUME NEW i \in 1 .. (n + 1), NEW j \in 1 .. (n + 1), i < j,
                 IsKeyRegistered(NotifyList'[i].KeyData, NotifyList'[j].KeyData),
                 NotifyList'[i].KeyNotificationFn = NotifyList'[j].KeyNotificationFn
          PROVE  FALSE
      <3>1. i \in 1 .. n /\ NotifyList'[i] = NotifyList[i] /\ i \in DOMAIN NotifyList
        BY <1>5, <1>6, <2>1
      <3>2. CASE j = n + 1
        BY <1>1, <1>4, <1>6, <2>1, <3>1, <3>2 DEF IsRegistered
      <3>3. CASE j \in 1 .. n
        BY <1>6, <2>1, <3>1, <3>3 DEF RegInv, NotifyOrdered
      <3> QED  BY <1>6, <3>2, <3>3
    <2> QED  BY <1>6, <2>1 DEF NotifyOrdered
  <1>8. ASSUME NEW p \in 1 .. Len(TextInExList)
        PROVE  RegisteredAt(regs'[TextInExList[p]], NotifyList', p)
    <2> DEFINE d == TextInExList[p]
               r == regs[d]
               z == Register(d, r, new)
               old(j) == NotifyList[j].NotifyHandleList[p]
               now(j) == NotifyList'[j].NotifyHandleList[p]
    <2>1. d \in Consoles /\ d \in ToSet(TextInExList)
      BY <1>5, ToSetFacts
    <2>2. regs'[d] = z.regs
      <3> HIDE DEF d, new
      <3> QED  BY <1>2, <2>1
    <2>3. r \in FiniteRegs /\ RegisteredAt(r, NotifyList, p)
      BY <1>5, <2>1 DEF RegInv
    <2>4. b.NotifyHandleList[p] = z.handle
      <3>1. p \in 1 .. NumberOfExConsoles
        BY <1>5
      <3> QED  BY <1>3, <3>1 DEF RegisteredNotify
    <2> HIDE DEF d, r
    <2>5. /\ \A e \in r : e.handle # z.handle
          /\ z.regs = r \union {[handle |-> z.handle, key |-> k, fn |-> fn]}
      <3> HIDE DEF z
      <3>1. z = Register(d, r, NewNotify(k, fn))
        BY DEF z
      <3> QED  BY <1>1, <2>1, <2>3, <3>1, NewRegistration
    <2>6. /\ \A e \in r : \E j \in 1 .. n : e = RegOf(old(j), NotifyList[j])
          /\ \A j \in 1 .. n : RegOf(old(j), NotifyList[j]) \in r
          /\ \A i, j \in 1 .. n : old(i) = old(j) => i = j
      BY <2>3 DEF RegisteredAt
    <2> HIDE DEF z, n
    <2>7. /\ \A j \in 1 .. n : now(j) = old(j)
        /\ now(n + 1) = z.handle
      BY <1>6, <2>4
    <2>8. /\ \A j \in 1 .. n : RegOf(now(j), NotifyList'[j])
                                 = RegOf(old(j), NotifyList[j])
          /\ RegOf(now(n + 1), NotifyList'[n + 1])
               = [handle |-> z.handle, key |-> k, fn |-> fn]
      BY <1>4, <1>6, <2>7 DEF RegOf
    <2>9. \A j \in 1 .. n : old(j) # z.handle
      <3>1. \A j \in 1 .. n : RegOf(old(j), NotifyList[j]).handle = old(j)
        BY DEF RegOf
      <3> HIDE DEF old
      <3> QED  BY <2>5, <2>6, <3>1
    <2> HIDE DEF old, now
    <2>10. \A e \in z.regs : \E j \in 1 .. (n + 1) : e = RegOf(now(j), NotifyList'[j])
      <3> SUFFICES ASSUME NEW e \in z.regs
                   PROVE  \E j \in 1 .. (n + 1) : e = RegOf(now(j), NotifyList'[j])
        OBVIOUS
      <3>1. CASE e \in r
        <4>1. PICK j \in 1 .. n : e = RegOf(old(j), NotifyList[j])
          BY <2>6, <3>1
        <4> QED  BY <1>6, <2>8, <4>1
      <3>2. CASE e = [handle |-> z.handle, key |-> k, fn |-> fn]
        BY <1>6, <2>8, <3>2
      <3> QED  BY <2>5, <3>1, <3>2
    <2>11. \A j \in 1 .. (n + 1) : RegOf(now(j), NotifyList'[j]) \in z.regs
      BY <1>6, <2>5, <2>6, <2>8
    <2>12. \A i, j \in 1 .. (n + 1) : now(i) = now(j) => i = j
      BY <1>6, <2>6, <2>7, <2>9
    <2>13. RegisteredAt(z.regs, NotifyList', p)
      BY <1>6, <2>10, <2>11, <2>12 DEF RegisteredAt, now
    <2> QED  BY <2>2, <2>13 DEF d
  <1>9. ASSUME NEW d \in Consoles, d \notin ToSet(TextInExList)
        PROVE  regs'[d] = {}
    <2>1. d # leaving
      BY <1>1, SplitterAssumption
    <2>2. regs'[d] = regs[d]
      BY <1>2, <1>9
    <2> QED  BY <1>9, <2>1, <2>2 DEF RegInv
  <1> QED  BY <1>1, <1>7, <1>8, <1>9 DEF RegInv, ToSet

\* When a console refuses, those before it forget just what they have got.
LEMMA RegisterFailsReg ==
    ASSUME ListInv, BufferInv, RegInv, NEW k \in KeyDatas, NEW fn \in Fns,
           RegisterFails(k, fn)
    PROVE  UNCHANGED regVars
  <1> DEFINE new == NewNotify(k, fn)
  <1>1. ~IsRegistered(k, fn)
        /\ UNCHANGED <<TextInExList, NotifyList, leaving>>
    BY DEF RegisterFails, lists
  <1>2. PICK n \in 1 .. NumberOfExConsoles :
          regs' = [d \in Consoles |->
                     LET r == Register(d, regs[d], new)
                     IN  IF d \in ToSet(SubSeq(TextInExList, 1, n - 1))
                         THEN Unregister(r.regs, r.handle) ELSE regs[d]]
    BY Zenon DEF RegisterFails
  <1>3. /\ TextInExList \in Seq(Consoles) /\ NumberOfExConsoles = Len(TextInExList)
        /\ regs \in [Consoles -> FiniteRegs]
    BY DEF BufferInv, NotifyTypes, ListInv, NumberOfExConsoles
  <1>4. ASSUME NEW d \in Consoles, d \in ToSet(SubSeq(TextInExList, 1, n - 1))
        PROVE  Unregister(Register(d, regs[d], new).regs,
                          Register(d, regs[d], new).handle) = regs[d]
    <2> DEFINE r == regs[d]
               z == Register(d, r, new)
    <2>1. PICK p \in 1 .. Len(TextInExList) : TextInExList[p] = d
      <3> DEFINE s == SubSeq(TextInExList, 1, n - 1)
      <3>1. /\ s \in Seq(Consoles) /\ Len(s) = n - 1
            /\ \A p \in 1 .. (n - 1) : s[p] = TextInExList[p]
            /\ \A p \in 1 .. (n - 1) : p \in 1 .. Len(TextInExList)
        BY <1>3
      <3> HIDE DEF s
      <3>2. PICK p \in 1 .. Len(s) : s[p] = d
        <4>1. d \in ToSet(s)
          BY <1>4 DEF s
        <4> QED  BY <3>1, <4>1, ToSetFacts
      <3> QED  BY <3>1, <3>2
    <2>2. r \in FiniteRegs /\ RegisteredAt(r, NotifyList, p)
      BY <1>3, <2>1 DEF RegInv
    <2> HIDE DEF r
    <2>3. /\ \A e \in r : e.handle # z.handle
          /\ z.regs = r \union {[handle |-> z.handle, key |-> k, fn |-> fn]}
      <3> HIDE DEF z
      <3>1. z = Register(d, r, NewNotify(k, fn))
        BY DEF z
      <3> QED  BY <1>1, <2>2, <3>1, NewRegistration
    <2> HIDE DEF z
    <2>4. Unregister(z.regs, z.handle) = r
      BY <2>3 DEF Unregister
    <2> QED  BY <2>4 DEF z, r
  <1>5. \A d \in Consoles : regs'[d] = regs[d]
    <2> HIDE DEF new
    <2> QED  BY <1>2, <1>4
  <1>6. regs' = regs
    <2>1. regs' = [d \in Consoles |-> regs'[d]]
      BY <1>2
    <2> QED  BY <1>3, <1>5, <2>1
  <1> QED  BY <1>1, <1>6 DEF regVars

\* The place of a console in the list.
LEMMA PlaceFacts ==
    ASSUME TextInExList \in Seq(Consoles), Distinct(TextInExList),
           NEW p \in 1 .. Len(TextInExList)
    PROVE  SelectInSeq(TextInExList, LAMBDA c : c = TextInExList[p]) = p
  <1> DEFINE I == {i \in 1 .. Len(TextInExList) :
                     TextInExList[i] = TextInExList[p]}
  <1>1. SelectInSeq(TextInExList, LAMBDA c : c = TextInExList[p])
          = IF I # {} THEN Min(I) ELSE 0
    BY Zenon DEF SelectInSeq
  <1>2. I = {p}
    BY DEF Distinct
  <1>3. I # {} /\ I \subseteq Nat
    BY <1>2
  <1>4. Min(I) \in I
    <2> HIDE DEF I
    <2> QED  BY <1>3, MinFacts
  <1>5. Min(I) = p
    <2> HIDE DEF I
    <2> QED  BY <1>2, <1>4
  <1> HIDE DEF I
  <1>6. SelectInSeq(TextInExList, LAMBDA c : c = TextInExList[p]) = Min(I)
    BY <1>1, <1>3, Zenon
  <1> QED  BY <1>5, <1>6, Zenon

LEMMA UnregisterReg ==
    ASSUME ListInv, BufferInv, RegInv, NEW i \in DOMAIN NotifyList,
           UnregisterKeyNotify(i)
    PROVE  RegInv'
  <1> DEFINE n == Len(NotifyList)
             \* The notifications that stay, by their places before and after.
             from(j) == IF j < i THEN j ELSE j + 1
  <1>1. /\ leaving = NULL /\ leaving' = NULL /\ TextInExList' = TextInExList
    BY DEF UnregisterKeyNotify, Ready, lists
  <1>2. /\ NotifyList \in Seq(Notifications) /\ n \in Nat
        /\ i \in 1 .. n
        /\ TextInExList \in Seq(Consoles) /\ Distinct(TextInExList)
    BY DEF BufferInv, NotifyTypes, ListInv
  <1>3. NotifyList' = RemoveAt(NotifyList, i)
    BY Zenon DEF UnregisterKeyNotify
  <1>4. /\ Len(NotifyList') = n - 1
        /\ \A j \in 1 .. (n - 1) : NotifyList'[j] = NotifyList[from(j)]
    BY <1>2, <1>3, RemoveAtFacts
  <1>5. /\ \A j \in 1 .. (n - 1) : from(j) \in 1 .. n /\ from(j) # i
        /\ \A j, k \in 1 .. (n - 1) : j < k => from(j) < from(k)
        /\ \A j, k \in 1 .. (n - 1) : from(j) = from(k) => j = k
        /\ \A m \in 1 .. n : m # i => \E j \in 1 .. (n - 1) : m = from(j)
    <2>1. ASSUME NEW m \in 1 .. n, m # i
          PROVE  \E j \in 1 .. (n - 1) : m = from(j)
      <3>1. CASE m < i
        <4>1. m \in 1 .. (n - 1) /\ from(m) = m
          BY <1>2, <3>1
        <4> QED  BY <4>1
      <3>2. CASE ~(m < i)
        <4>1. m - 1 \in 1 .. (n - 1) /\ from(m - 1) = m
          BY <1>2, <2>1, <3>2
        <4> QED  BY <4>1
      <3> QED  BY <3>1, <3>2
    <2>2. \A j \in 1 .. (n - 1) : from(j) \in 1 .. n /\ from(j) # i
      BY <1>2
    <2>3. \A j, k \in 1 .. (n - 1) : j < k => from(j) < from(k)
      BY <1>2
    <2>4. \A j, k \in 1 .. (n - 1) : from(j) = from(k) => j = k
      BY <1>2
    <2> HIDE DEF from, n
    <2> QED  BY <2>1, <2>2, <2>3, <2>4
  <1>6. NotifyOrdered'
    <2> HIDE DEF from, n
    <2>1. ASSUME NEW j \in 1 .. (n - 1), NEW k \in 1 .. (n - 1), j < k,
                 IsKeyRegistered(NotifyList'[j].KeyData, NotifyList'[k].KeyData),
                 NotifyList'[j].KeyNotificationFn = NotifyList'[k].KeyNotificationFn
          PROVE  FALSE
      <3>1. /\ NotifyList'[j] = NotifyList[from(j)]
            /\ NotifyList'[k] = NotifyList[from(k)]
            /\ from(j) \in 1 .. n /\ from(k) \in 1 .. n /\ from(j) < from(k)
        BY <1>4, <1>5, <2>1
      <3> QED  BY <2>1, <3>1 DEF RegInv, NotifyOrdered, n
    <2> QED  BY <1>4, <2>1 DEF NotifyOrdered
  <1>7. regs' = [d \in Consoles |->
                   IF d \in ToSet(TextInExList)
                   THEN Unregister(regs[d], NotifyList[i].NotifyHandleList[
                          SelectInSeq(TextInExList, LAMBDA c : c = d)])
                   ELSE regs[d]]
    BY Zenon DEF UnregisterKeyNotify
  <1>8. ASSUME NEW p \in 1 .. Len(TextInExList)
        PROVE  RegisteredAt(regs'[TextInExList[p]], NotifyList', p)
    <2> DEFINE d == TextInExList[p]
               r == regs[d]
               old(j) == NotifyList[j].NotifyHandleList[p]
               now(j) == NotifyList'[j].NotifyHandleList[p]
    <2>1. d \in Consoles /\ d \in ToSet(TextInExList)
      BY <1>2, ToSetFacts
    <2>2. regs'[d] = Unregister(r, old(i))
      <3>1. regs'[d] = Unregister(r, NotifyList[i].NotifyHandleList[
                          SelectInSeq(TextInExList, LAMBDA c : c = d)])
        BY <1>7, <2>1, Zenon
      <3>2. SelectInSeq(TextInExList, LAMBDA c : c = d) = p
        BY <1>2, PlaceFacts, Zenon
      <3> QED  BY <3>1, <3>2, Zenon
    <2>3. /\ \A e \in r : \E j \in 1 .. n : e = RegOf(old(j), NotifyList[j])
          /\ \A j \in 1 .. n : RegOf(old(j), NotifyList[j]) \in r
          /\ \A j, k \in 1 .. n : old(j) = old(k) => j = k
      BY DEF RegInv, RegisteredAt
    <2>4. \A j \in 1 .. (n - 1) :
            /\ now(j) = old(from(j))
            /\ RegOf(now(j), NotifyList'[j])
                 = RegOf(old(from(j)), NotifyList[from(j)])
      <3> HIDE DEF from, n
      <3> QED  BY <1>4
    <2>5. \A j \in 1 .. n : RegOf(old(j), NotifyList[j]).handle = old(j)
      BY DEF RegOf
    <2> DEFINE left == Unregister(r, old(i))
    <2> HIDE DEF d, r, old, now, from, n
    <2>6. ASSUME NEW e \in left
          PROVE  \E j \in 1 .. (n - 1) : e = RegOf(now(j), NotifyList'[j])
      <3>1. e \in r /\ e.handle # old(i)
        BY DEF Unregister
      <3>2. PICK m \in 1 .. n : e = RegOf(old(m), NotifyList[m])
        BY <2>3, <3>1
      <3>3. m # i
        BY <2>5, <3>1, <3>2
      <3>4. PICK j \in 1 .. (n - 1) : m = from(j)
        BY <1>5, <3>3
      <3> QED  BY <2>4, <3>2, <3>4
    <2>7. ASSUME NEW j \in 1 .. (n - 1)
          PROVE  RegOf(now(j), NotifyList'[j]) \in left
      <3>1. from(j) \in 1 .. n /\ from(j) # i /\ i \in 1 .. n
        BY <1>2, <1>5
      <3>2. old(from(j)) # old(i)
        BY <2>3, <3>1
      <3>3. RegOf(old(from(j)), NotifyList[from(j)]) \in left
        BY <2>3, <2>5, <3>1, <3>2 DEF Unregister
      <3> QED  BY <2>4, <3>3
    <2>8. ASSUME NEW j \in 1 .. (n - 1), NEW k \in 1 .. (n - 1), now(j) = now(k)
          PROVE  j = k
      BY <1>5, <2>3, <2>4, <2>8
    <2> HIDE DEF left
    <2>9. RegisteredAt(left, NotifyList', p)
      BY <1>4, <2>6, <2>7, <2>8 DEF RegisteredAt, now
    <2> QED  BY <2>2, <2>9 DEF left, d
  <1>9. ASSUME NEW d \in Consoles, d \notin ToSet(TextInExList)
        PROVE  regs'[d] = {}
    <2>1. d # leaving
      BY <1>1, SplitterAssumption
    <2>2. regs'[d] = regs[d]
      BY <1>7, <1>9, Zenon
    <2> QED  BY <1>9, <2>1, <2>2 DEF RegInv
  <1> QED  BY <1>1, <1>6, <1>8, <1>9 DEF RegInv, ToSet

LEMMA NextRegInv ==
    ASSUME ~AnyOrder
    PROVE  ListInv /\ BufferInv /\ RegInv /\ [Next]_vars => RegInv'
  <1> SUFFICES ASSUME ListInv, BufferInv, RegInv, [Next]_vars PROVE RegInv'
    OBVIOUS
  <1>1. CASE UNCHANGED regVars
    <2>1. /\ TextInExList' = TextInExList /\ NotifyList' = NotifyList
          /\ regs' = regs /\ leaving' = leaving
      BY <1>1 DEF regVars
    <2>2. NotifyOrdered'
      BY <2>1 DEF RegInv, NotifyOrdered
    <2>3. \A p \in 1 .. Len(TextInExList') :
            RegisteredAt(regs'[TextInExList'[p]], NotifyList', p)
      BY <2>1 DEF RegInv
    <2>4. (ToSet(TextInExList))' = ToSet(TextInExList)
      BY <2>1 DEF ToSet
    <2>5. \A d \in Consoles :
            d \notin ToSet(TextInExList) /\ d # leaving' => regs'[d] = {}
      BY <2>1 DEF RegInv
    <2>6. leaving' # NULL =>
            /\ leaving' \in Consoles \ ToSet(TextInExList)
            /\ \E p : RegisteredAt(regs'[leaving'], NotifyList', p)
      BY <2>1 DEF RegInv
    <2> QED  BY <2>2, <2>3, <2>4, <2>5, <2>6 DEF RegInv
  <1>2. ASSUME NEW d \in Consoles,
               \/ ConsoleStops(d) \/ StartWithoutMemory(d) \/ StartRefused(d)
               \/ StartDone(d) \/ ConInDriverBindingStop(d)
        PROVE  RegInv'
    BY <1>2, ConsoleStopsReg, StartWithoutMemoryReg, StartRefusedReg,
       StartDoneReg, ConInStopReg
  <1>3. ASSUME NEW k \in KeyDatas, NEW fn \in Fns,
               RegisterKeyNotify(k, fn) \/ RegisterFails(k, fn)
        PROVE  RegInv'
    <2>1. CASE RegisterKeyNotify(k, fn)
      BY <2>1, RegisterKeyReg
    <2>2. CASE RegisterFails(k, fn)
      BY <1>1, <2>2, RegisterFailsReg
    <2> QED  BY <1>3, <2>1, <2>2
  <1>4. ASSUME NEW i \in DOMAIN NotifyList, UnregisterKeyNotify(i)
        PROVE  RegInv'
    BY <1>4, UnregisterReg
  <1> QED  BY <1>1, <1>2, <1>3, <1>4, RegSteps

LEMMA InitReg == Init => RegInv
  <1> SUFFICES ASSUME Init PROVE RegInv
    OBVIOUS
  <1>1. /\ TextInExList = << >> /\ leaving = NULL /\ Len(NotifyList) = 1
        /\ regs = [d \in Consoles |-> {}]
    BY DEF Init
  <1> QED  BY <1>1 DEF RegInv, NotifyOrdered, ToSet

\* RegisteredWithAll, for any number of consoles, keys and functions, also
\* when a registration covers keys of another: it is the order in which
\* consoles go that the proof depends on.
THEOREM RegisteredAlike ==
    ASSUME ~AnyOrder
    PROVE  Spec => []RegisteredWithAll
  <1>1. ListInv /\ BufferInv /\ RegInv => RegisteredWithAll
    <2> SUFFICES ASSUME ListInv, BufferInv, RegInv PROVE RegisteredWithAll
      OBVIOUS
    <2>1. /\ NotifyList \in Seq(Notifications) /\ TextInExList \in Seq(Consoles)
          /\ DOMAIN NotifyList = 1 .. Len(NotifyList)
          /\ DOMAIN TextInExList = 1 .. Len(TextInExList)
      BY DEF BufferInv, NotifyTypes, ListInv
    <2>2. ASSUME NEW i \in DOMAIN NotifyList, NEW p \in DOMAIN TextInExList
          PROVE  \E e \in regs[TextInExList[p]] :
                   /\ e.handle = NotifyList[i].NotifyHandleList[p]
                   /\ IsKeyRegistered(e.key, NotifyList[i].KeyData)
                   /\ e.fn = NotifyList[i].KeyNotificationFn
      <3> DEFINE e == RegOf(NotifyList[i].NotifyHandleList[p], NotifyList[i])
      <3>1. e \in regs[TextInExList[p]]
        BY <2>1 DEF RegInv, RegisteredAt
      <3>2. /\ e.handle = NotifyList[i].NotifyHandleList[p]
            /\ e.key = NotifyList[i].KeyData
            /\ e.fn = NotifyList[i].KeyNotificationFn
        BY DEF RegOf
      <3>3. IsKeyRegistered(e.key, NotifyList[i].KeyData)
        BY <3>2 DEF IsKeyRegistered
      <3> HIDE DEF e
      <3> QED  BY <3>1, <3>2, <3>3
    <2>3. ASSUME NEW d \in running, NEW e \in regs[d]
          PROVE  \E i \in DOMAIN NotifyList :
                   /\ NotifyList[i].KeyData = e.key
                   /\ NotifyList[i].KeyNotificationFn = e.fn
      <3>1. d \in Consoles
        BY DEF ListInv
      <3>2. PICK p : RegisteredAt(regs[d], NotifyList, p)
        <4>1. CASE d \in ToSet(TextInExList)
          <5>1. PICK p \in 1 .. Len(TextInExList) : TextInExList[p] = d
            BY <2>1, <4>1, ToSetFacts
          <5> QED  BY <5>1 DEF RegInv
        <4>2. CASE d \notin ToSet(TextInExList)
          <5>1. d = leaving
            BY <2>3, <3>1, <4>2 DEF RegInv
          <5>2. leaving # NULL
            BY <3>1, <5>1, SplitterAssumption
          <5> QED  BY <5>1, <5>2 DEF RegInv
        <4> QED  BY <4>1, <4>2
      <3>3. PICK j \in 1 .. Len(NotifyList) :
              e = RegOf(NotifyList[j].NotifyHandleList[p], NotifyList[j])
        BY <2>3, <3>2 DEF RegisteredAt
      <3> QED  BY <2>1, <3>3 DEF RegOf
    <2>4. RegisteredEverywhere
      BY <2>2, Zenon DEF RegisteredEverywhere
    <2>5. UnregisteredNowhere
      BY <2>3, Zenon DEF UnregisteredNowhere
    <2> QED  BY <2>4, <2>5 DEF RegisteredWithAll
  <1>2. ListInv /\ BufferInv /\ RegInv /\ [Next]_vars => RegInv'
    BY NextRegInv
  <1> QED  BY <1>1, <1>2, InitReg, ListsInductive, BuffersInductive, PTL DEF Spec
=============================================================================
