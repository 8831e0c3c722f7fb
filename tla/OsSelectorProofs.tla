-------------------------- MODULE OsSelectorProofs --------------------------
(***************************************************************************)
(* Theorems about OsSelector, for menus of any size, any configuration and *)
(* any interleaving with bios_entry_task and the host.                     *)
(*                                                                         *)
(* None of the properties is inductive.  An error selects nothing because  *)
(* Enter is the last key of a call and is followed by no test              *)
(* (NothingChosenYet).  The right entry is selected because the cursor is  *)
(* always as far from it as there are arrow keys to send (OnItsWay).  And  *)
(* no error means that Enter's report has reached the host (Answered).     *)
(***************************************************************************)
EXTENDS OsSelector, TLAPS

Typing == at \in {"send", "ready", "down"}

\* Until Enter is pressed, nothing is chosen and there is no result.
NothingChosenYet ==
  /\ at # "idle" => result = "none"
  /\ at = "wait" \/ Typing \/ (at = "up" /\ steps > 0) => chosen = Nothing
  /\ result = "ERROR" => chosen = Nothing

\* The entry that n presses of Arrow lead to.
Ahead(n) == IF Delta >= 0 THEN cursor + n ELSE cursor - n

\* No key of the call is down, as far as the host knows.
Released == held \in {"none", "BIOS"}

\* If no report of the call was lost, the cursor is on its way.
OnItsWay ==
  ~lost =>
    /\ at = "wait" => cursor = cfg.default /\ Released
    /\ Typing => Ahead(steps) = TargetIndex /\ Released
    /\ at = "up" /\ steps > 0 => Ahead(steps - 1) = TargetIndex
    /\ chosen # Nothing => chosen = TargetIndex

\* DEFAULT is answered at once; otherwise Enter is what the last key up follows.
Answered ==
  /\ target = "DEFAULT" => at = "idle" /\ chosen = Nothing /\ result # "ERROR"
  /\ ~lost =>
       /\ at = "up" /\ ~(steps > 0) => chosen # Nothing
       /\ result = "OK" /\ target # "DEFAULT" => chosen # Nothing

SelectorInv == TypeOK /\ NothingChosenYet /\ OnItsWay /\ Answered

LEMMA Distances ==
  ASSUME TypeOK
  PROVE  /\ TargetIndex \in 0..MenuSize - 1 /\ cfg.default \in 0..MenuSize - 1
         /\ Delta \in Int /\ Delta = TargetIndex - cfg.default
         /\ Delta >= 0 => Delta \in 0..MenuSize
         /\ ~(Delta >= 0) => -Delta \in 0..MenuSize
<1>1. cfg.win \in Indexes /\ cfg.fed \in Indexes /\ cfg.default \in Indexes
  BY DEF TypeOK
<1>2. TargetIndex \in 0..MenuSize - 1 /\ cfg.default \in 0..MenuSize - 1
  BY <1>1, MenuAssumption DEF TargetIndex
<1>3. Delta = TargetIndex - cfg.default
  BY DEF Delta
<1> QED BY <1>2, <1>3, MenuAssumption

LEMMA MovedStays ==
  ASSUME TypeOK, NEW key
  PROVE  Moved(key) \in 0..MenuSize - 1
  BY MenuAssumption DEF TypeOK, Moved
-----------------------------------------------------------------------------
(* Types *)

LEMMA ArrivesTypes ==
  ASSUME TypeOK, NEW key \in Keys \cup {"none"}, Arrives(key)
  PROVE  /\ held' \in Keys \cup {"none"}
         /\ cursor' \in 0..MenuSize - 1
         /\ chosen' \in 0..MenuSize
<1>1. cursor \in 0..MenuSize /\ 0..MenuSize - 1 \subseteq 0..MenuSize
  BY MenuAssumption DEF TypeOK
<1> QED BY <1>1, MovedStays DEF Arrives, TypeOK

LEMMA CallKeepsTypes ==
  ASSUME TypeOK, (\E t \in OsTargets : Select(t)) \/ Selecting
  PROVE  TypeOK'
<1> USE DEF TypeOK, Return
<1>1. CASE \E t \in OsTargets : Select(t)
  <2> PICK t \in OsTargets : Select(t)  BY <1>1
  <2>1. cfg.default \in 0..MenuSize - 1 /\ Nothing \in 0..MenuSize
    BY Distances, MenuAssumption DEF Nothing
  <2> QED BY <2>1 DEF Select
<1>2. CASE CountSteps
  BY <1>2, Distances DEF CountSteps, hostVars
<1>3. CASE SendChecksMount  BY <1>3 DEF SendChecksMount, hostVars
<1>4. CASE SendWaits  BY <1>4 DEF SendWaits, hostVars
<1>5. CASE SendKeyDown
  <2>1. Key \in Keys  BY DEF Key, Arrow, Keys
  <2> QED BY <1>5, <2>1, ArrivesTypes DEF SendKeyDown, Report
<1>6. CASE SendKeyUp
  <2>1. steps > 0 => steps - 1 \in 0..MenuSize  BY MenuAssumption
  <2> QED BY <1>6, <2>1, ArrivesTypes DEF SendKeyUp, Report
<1> QED BY <1>1, <1>2, <1>3, <1>4, <1>5, <1>6 DEF Selecting

LEMMA OthersKeepTypes ==
  ASSUME TypeOK, BiosPresses \/ LinkChanges
  PROVE  TypeOK'
<1> USE DEF TypeOK, callVars, hostVars
<1>1. CASE LinkChanges  BY <1>1 DEF LinkChanges
<1>2. CASE BiosChecksMount  BY <1>2 DEF BiosChecksMount
<1>3. CASE BiosWaits  BY <1>3 DEF BiosWaits
<1>4. CASE BiosKeyDown
  BY <1>4, ArrivesTypes DEF BiosKeyDown, BiosReports, Keys
<1>5. CASE BiosKeyUp
  BY <1>5, ArrivesTypes DEF BiosKeyUp, BiosReports
<1> QED BY <1>1, <1>2, <1>3, <1>4, <1>5 DEF BiosPresses
-----------------------------------------------------------------------------
(* The call *)

LEMMA SelectKeepsInv ==
  ASSUME SelectorInv, \E t \in OsTargets : Select(t)
  PROVE  (NothingChosenYet /\ OnItsWay /\ Answered)'
<1> PICK t \in OsTargets : Select(t)  OBVIOUS
<1>1. at' \in {"idle", "wait"} /\ chosen' = Nothing /\ cursor' = cfg.default
      /\ cfg' = cfg /\ (at' # "idle" => result' = "none")
  BY DEF Select, Return
<1>2. held' \in {"none", "BIOS"}
  BY DEF Select
<1>3. Nothing' = Nothing
  BY DEF Nothing
<1>4. IF target' = "DEFAULT" THEN at' = "idle" /\ result' = "OK"
                               ELSE at' = "wait" /\ result' = "none"
  BY DEF Select, Return
<1>5. NothingChosenYet'  BY <1>1, <1>3, <1>4 DEF NothingChosenYet, Typing
<1>6. OnItsWay'  BY <1>1, <1>2, <1>3, <1>4 DEF OnItsWay, Released, Typing
<1>7. Answered'  BY <1>1, <1>3, <1>4 DEF Answered
<1> QED BY <1>5, <1>6, <1>7

LEMMA CountStepsKeepsInv ==
  ASSUME SelectorInv, CountSteps
  PROVE  (NothingChosenYet /\ OnItsWay /\ Answered)'
<1> USE DEF SelectorInv, CountSteps, hostVars, Nothing
<1>1. NothingChosenYet'  BY DEF NothingChosenYet, Typing
<1>2. TargetIndex' = TargetIndex /\ Delta' = Delta
  BY DEF TargetIndex, Delta
<1>3. ~lost => Ahead(steps)' = TargetIndex
  <2> SUFFICES ASSUME ~lost PROVE Ahead(steps)' = TargetIndex  OBVIOUS
  <2>1. cursor = cfg.default  BY DEF OnItsWay
  <2>2. CASE Delta >= 0  BY <1>2, <2>1, <2>2, Distances DEF Ahead
  <2>3. CASE ~(Delta >= 0)  BY <1>2, <2>1, <2>3, Distances DEF Ahead
  <2> QED BY <2>2, <2>3
<1>4. Answered'
  BY DEF Answered, NothingChosenYet
<1> QED BY <1>1, <1>2, <1>3, <1>4 DEF OnItsWay, Released, Typing

LEMMA ChecksKeepInv ==
  ASSUME SelectorInv, SendChecksMount \/ SendWaits
  PROVE  (NothingChosenYet /\ OnItsWay /\ Answered)'
<1>1. /\ at \in {"send", "ready"} /\ UNCHANGED <<cfg, target, steps, hostVars>>
      /\ \/ at' \in {"ready", "down"} /\ UNCHANGED result
         \/ at' = "idle" /\ result' = "ERROR"
  BY DEF SendChecksMount, SendWaits, Return
<1>2. TargetIndex' = TargetIndex /\ Delta' = Delta /\ Ahead(steps)' = Ahead(steps)
  BY <1>1 DEF TargetIndex, Delta, Ahead, hostVars
<1> QED
  BY <1>1, <1>2
  DEF SelectorInv, NothingChosenYet, OnItsWay, Answered, Released, Typing, hostVars, Nothing

\* An arrow moves the cursor by one, as the end of the menu is not before the
\* target; Enter chooses the target, as no arrows are left.
LEMMA KeyDownKeepsInv ==
  ASSUME SelectorInv, SendKeyDown
  PROVE  (NothingChosenYet /\ OnItsWay /\ Answered)'
<1> USE DEF SelectorInv, Nothing
<1>1. at = "down" /\ at' = "up" /\ UNCHANGED <<cfg, target, steps, result>>
  BY DEF SendKeyDown
<1>2. TargetIndex' = TargetIndex /\ Delta' = Delta
  BY <1>1 DEF TargetIndex, Delta
<1>3. steps \in Nat /\ cursor \in 0..MenuSize - 1 /\ cursor # MenuSize
      /\ MenuSize \in Nat /\ chosen = MenuSize
  BY <1>1, MenuAssumption DEF TypeOK, NothingChosenYet, Typing
<1>4. CASE lost' = TRUE /\ UNCHANGED <<held, cursor, chosen>>
  BY <1>1, <1>3, <1>4 DEF NothingChosenYet, OnItsWay, Answered, Typing
<1>5. CASE Arrives(Key) /\ UNCHANGED lost /\ lost
  <2>1. steps > 0 => chosen' = chosen
    BY <1>5 DEF Arrives, Key, Arrow
  <2> QED BY <1>1, <1>3, <1>5, <2>1 DEF NothingChosenYet, OnItsWay, Answered, Typing
<1>6. CASE Arrives(Key) /\ UNCHANGED lost /\ ~lost
  <2>1. Ahead(steps) = TargetIndex /\ held \in {"none", "BIOS"}
    BY <1>1, <1>6 DEF OnItsWay, Typing, Released
  <2>2. CASE steps > 0
    <3>1. Key = Arrow /\ Key # held /\ Key # "RETURN"
      BY <2>1, <2>2 DEF Key, Arrow
    <3>2. cursor' = Moved(Arrow) /\ chosen' = chosen
      BY <1>6, <3>1 DEF Arrives
    <3>3. Ahead(steps - 1)' = TargetIndex
      <4>1. CASE Delta >= 0
        <5>1. cursor + steps = TargetIndex  BY <2>1, <4>1 DEF Ahead
        <5>2. cursor' = cursor + 1
          BY <1>3, <2>2, <3>2, <4>1, <5>1, Distances DEF Moved, Arrow
        <5> QED BY <1>1, <1>2, <1>3, <4>1, <5>1, <5>2 DEF Ahead
      <4>2. CASE ~(Delta >= 0)
        <5>1. cursor - steps = TargetIndex  BY <2>1, <4>2 DEF Ahead
        <5>2. cursor' = cursor - 1
          BY <1>3, <2>2, <3>2, <4>2, <5>1, Distances DEF Moved, Arrow
        <5> QED BY <1>1, <1>2, <1>3, <4>2, <5>1, <5>2 DEF Ahead
      <4> QED BY <4>1, <4>2
    <3>4. Answered'  BY <1>1, <1>3, <2>2, <3>2 DEF Answered, NothingChosenYet
    <3> QED BY <1>1, <1>2, <1>3, <3>2, <3>3, <3>4 DEF NothingChosenYet, OnItsWay, Typing
  <2>3. CASE ~(steps > 0)
    <3>1. steps = 0  BY <1>3, <2>3
    <3>2. Key = "RETURN" /\ Key # held  BY <2>1, <2>3 DEF Key
    <3>3. chosen' = cursor  BY <1>6, <3>2 DEF Arrives
    <3>4. cursor = TargetIndex  BY <1>3, <2>1, <3>1 DEF Ahead
    <3> QED BY <1>1, <1>2, <1>3, <3>1, <3>3, <3>4 DEF NothingChosenYet, OnItsWay, Answered, Typing
  <2> QED BY <2>2, <2>3
<1> QED BY <1>4, <1>5, <1>6 DEF SendKeyDown, Report

LEMMA KeyUpKeepsInv ==
  ASSUME SelectorInv, SendKeyUp
  PROVE  (NothingChosenYet /\ OnItsWay /\ Answered)'
<1> USE DEF SelectorInv, Nothing
<1>1. at = "up" /\ UNCHANGED <<cfg, target>>
  BY DEF SendKeyUp
<1>2. TargetIndex' = TargetIndex /\ Delta' = Delta
  BY <1>1 DEF TargetIndex, Delta
<1>3. /\ chosen' = chosen
      /\ lost' \/ (lost' = lost /\ held' = "none" /\ cursor' = cursor)
  BY DEF SendKeyUp, Report, Arrives, Moved
<1>4. CASE steps > 0
  <2>1. steps' = steps - 1 /\ at' = "send" /\ result' = result
    BY <1>4 DEF SendKeyUp
  <2>2. ~lost' => Ahead(steps)' = TargetIndex
    BY <1>1, <1>2, <1>3, <1>4, <2>1 DEF OnItsWay, Ahead
  <2> QED
    BY <1>1, <1>2, <1>3, <1>4, <2>1, <2>2
    DEF NothingChosenYet, OnItsWay, Answered, Typing, Released
<1>5. CASE ~(steps > 0)
  <2>1. at' = "idle" /\ result' = "OK"  BY <1>5 DEF SendKeyUp, Return
  <2>2. target # "DEFAULT"  BY <1>1 DEF Answered
  <2>3. Answered'  BY <1>1, <1>3, <1>5, <2>1, <2>2 DEF Answered
  <2> QED BY <1>2, <1>3, <2>1, <2>3 DEF NothingChosenYet, OnItsWay, Typing
<1> QED BY <1>4, <1>5
-----------------------------------------------------------------------------
(* The others *)

\* Neither the BIOS key nor its release moves the cursor, and neither is
\* taken for a key of the call.
LEMMA OthersKeepInv ==
  ASSUME SelectorInv, BiosPresses \/ LinkChanges \/ UNCHANGED vars
  PROVE  (NothingChosenYet /\ OnItsWay /\ Answered)'
<1>1. /\ UNCHANGED <<cfg, target, at, steps, result, cursor, chosen, lost>>
      /\ held' = held \/ held' \in {"none", "BIOS"}
  BY DEF BiosPresses, BiosChecksMount, BiosWaits, BiosKeyDown, BiosKeyUp, BiosReports,
         Arrives, Moved, LinkChanges, vars, callVars, hostVars
<1>2. TargetIndex' = TargetIndex /\ Delta' = Delta
      /\ Ahead(steps)' = Ahead(steps) /\ Ahead(steps - 1)' = Ahead(steps - 1)
  BY <1>1 DEF TargetIndex, Delta, Ahead
<1> QED
  BY <1>1, <1>2
  DEF SelectorInv, NothingChosenYet, OnItsWay, Answered, Released, Typing, Nothing

LEMMA SelectorInvariance == Spec => []SelectorInv
<1>1. Init => SelectorInv
  <2> SUFFICES ASSUME Init PROVE SelectorInv  OBVIOUS
  <2>1. cfg.default \in 0..MenuSize - 1 /\ Nothing \in 0..MenuSize /\ 0 \in 0..MenuSize
    BY MenuAssumption DEF Init, Nothing
  <2>2. TypeOK
    BY <2>1 DEF Init, TypeOK, OsTargets
  <2> QED
    BY <2>2 DEF Init, SelectorInv, NothingChosenYet, OnItsWay, Answered, Typing
<1>2. SelectorInv /\ [Next]_vars => SelectorInv'
  <2> SUFFICES ASSUME SelectorInv, [Next]_vars PROVE SelectorInv'  OBVIOUS
  <2>1. TypeOK'
    <3>1. CASE UNCHANGED vars
      BY <3>1 DEF SelectorInv, TypeOK, vars, callVars, hostVars
    <3> QED BY <3>1, CallKeepsTypes, OthersKeepTypes DEF SelectorInv, Next
  <2>2. (NothingChosenYet /\ OnItsWay /\ Answered)'
    BY SelectKeepsInv, CountStepsKeepsInv, ChecksKeepInv, KeyDownKeepsInv,
       KeyUpKeepsInv, OthersKeepInv DEF Next, Selecting
  <2> QED BY <2>1, <2>2 DEF SelectorInv
<1> QED BY <1>1, <1>2, PTL DEF Spec
-----------------------------------------------------------------------------
(* The theorems *)

\* Every variable of the selection keeps its type: no cursor leaves the menu and
\* no distance is negative.
THEOREM SelectorTypeCorrect == Spec => []TypeOK
<1>1. SelectorInv => TypeOK  BY DEF SelectorInv
<1> QED BY <1>1, SelectorInvariance, PTL

\* If the host gets every report, Enter is pressed on the target's entry.
THEOREM RightEntry == Spec => []SelectsTarget
<1>1. SelectorInv => SelectsTarget
  BY DEF SelectorInv, OnItsWay, SelectsTarget
<1> QED BY <1>1, SelectorInvariance, PTL

\* What os_selector_select returns is what has happened: without an error the
\* target's entry is chosen, unless a report was lost, and with one there is none.
THEOREM HonestResults == Spec => []ResultIsTrue
<1>1. SelectorInv => ResultIsTrue
  <2> SUFFICES ASSUME SelectorInv PROVE ResultIsTrue  OBVIOUS
  <2>1. result = "ERROR" => chosen = Nothing
    BY DEF SelectorInv, NothingChosenYet
  <2>2. result # "none" /\ target = "DEFAULT" => result = "OK" /\ chosen = Nothing
    BY DEF SelectorInv, Answered, TypeOK
  <2>3. result = "OK" /\ target # "DEFAULT" /\ ~lost => chosen = TargetIndex
    BY DEF SelectorInv, Answered, OnItsWay
  <2> QED BY <2>1, <2>2, <2>3 DEF ResultIsTrue
<1> QED BY <1>1, SelectorInvariance, PTL
=============================================================================
