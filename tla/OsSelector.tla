----------------------------- MODULE OsSelector -----------------------------
(***************************************************************************)
(* The selection of an OS in the GRUB menu: os_selector_select             *)
(* (app/os_selector.c), the HID keyboard it types on                       *)
(* (hal/usb_hid_keyboard.c) and, as these see it, the PC: a USB host that  *)
(* turns HID reports into key presses, and a menu that they move.          *)
(*                                                                         *)
(* The keyboard has no lock.  bios_entry_task of an earlier boot may still *)
(* be typing on it, since a forced power-off does not stop that task.      *)
(***************************************************************************)
EXTENDS Integers

CONSTANTS
  MenuSize,   \* entries of the menu
  Indexes     \* the uint8_t indexes configured for entries of it

ASSUME MenuAssumption ==
  /\ MenuSize \in Nat \ {0}
  /\ Indexes \subseteq 0..MenuSize - 1
  /\ Indexes \subseteq 0..255

VARIABLES
  cfg,      \* s->cfg: grub_win_idx, grub_fed_idx, grub_default_idx
  target,   \* the argument of os_selector_select
  at,       \* where the caller is
  steps,    \* arrow keys still to be sent
  result,   \* what the last call returned, "none" while it runs
  mounted,  \* tud_mounted()
  held,     \* the key the host believes to be down
  cursor,   \* the highlighted entry
  chosen,   \* the entry that Enter was pressed on, or Nothing
  lost,     \* history: the host did not get one of the call's reports
  biosAt    \* where the loop of bios_entry_task is

callVars == <<cfg, target, at, steps, result>>
hostVars == <<held, cursor, chosen, lost>>
vars == <<callVars, mounted, hostVars, biosAt>>

OsTargets == {"DEFAULT", "WINDOWS", "FEDORA", "BIOS"}

\* The menu ignores the key that enters the BIOS.
Keys == {"UP", "DOWN", "RETURN", "BIOS"}

Nothing == MenuSize

TypeOK ==
  /\ cfg \in [win : Indexes, fed : Indexes, default : Indexes]
  /\ target \in OsTargets
  /\ at \in {"idle", "wait", "send", "ready", "down", "up"}
  /\ steps \in 0..MenuSize
  /\ result \in {"none", "OK", "ERROR"}
  /\ mounted \in BOOLEAN
  /\ held \in Keys \cup {"none"}
  /\ cursor \in 0..MenuSize - 1
  /\ chosen \in 0..MenuSize
  /\ lost \in BOOLEAN
  /\ biosAt \in {"delay", "ready", "down", "up"}

Init ==
  /\ cfg \in [win : Indexes, fed : Indexes, default : Indexes]
  /\ target = "DEFAULT"
  /\ at = "idle"
  /\ steps = 0
  /\ result = "none"
  /\ mounted \in BOOLEAN
  /\ held = "none"
  /\ cursor = cfg.default
  /\ chosen = Nothing
  /\ lost = FALSE
  /\ biosAt = "delay"
-----------------------------------------------------------------------------
(* The host *)

\* A keyboard that disappears has no key down.
LinkChanges ==
  /\ mounted' = ~mounted
  /\ held' = "none"
  /\ UNCHANGED <<callVars, cursor, chosen, lost, biosAt>>

\* The menu stops at its ends.
Moved(key) ==
  CASE key = "DOWN" -> IF cursor < MenuSize - 1 THEN cursor + 1 ELSE cursor
    [] key = "UP"   -> IF cursor > 0 THEN cursor - 1 ELSE cursor
    [] OTHER        -> cursor

\* A report saying that key (or none) is down is a press if it was not.
Arrives(key) ==
  /\ mounted
  /\ held' = key
  /\ cursor' = IF key # held THEN Moved(key) ELSE cursor
  /\ chosen' = IF key = "RETURN" /\ key # held THEN cursor ELSE chosen

\* tud_hid_keyboard_report may refuse a report; nobody looks at its result.
Report(key) ==
  \/ Arrives(key) /\ UNCHANGED lost
  \/ lost' = TRUE /\ UNCHANGED <<held, cursor, chosen>>
-----------------------------------------------------------------------------
(* os_selector_select *)

\* Any target but Windows is Fedora's entry.
TargetIndex == IF target = "WINDOWS" THEN cfg.win ELSE cfg.fed

Delta == TargetIndex - cfg.default

\* Mutant: the wrong way.
ArrowReversed == IF Delta >= 0 THEN "UP" ELSE "DOWN"

Arrow == IF Delta >= 0 THEN "DOWN" ELSE "UP"

Key == IF steps > 0 THEN Arrow ELSE "RETURN"

Return(r) == at' = "idle" /\ result' = r

\* The PC has reached its menu, POST being complete.  DEFAULT types nothing.
Select(t) ==
  /\ at = "idle"
  /\ target' = t
  /\ IF t = "DEFAULT" THEN Return("OK") ELSE at' = "wait" /\ result' = "none"
  /\ cursor' = cfg.default
  /\ chosen' = Nothing
  /\ held' = IF held = "BIOS" THEN held ELSE "none"
  /\ lost' = FALSE
  /\ UNCHANGED <<cfg, steps, mounted, biosAt>>

\* Mutant: the sign of the distance is kept.
CountStepsSigned ==
  /\ at = "wait"
  /\ steps' = Delta
  /\ at' = "send"
  /\ UNCHANGED <<cfg, target, result, mounted, hostVars, biosAt>>

\* grub_wait_ms have passed.
CountSteps ==
  /\ at = "wait"
  /\ steps' = IF Delta >= 0 THEN Delta ELSE -Delta
  /\ at' = "send"
  /\ UNCHANGED <<cfg, target, result, mounted, hostVars, biosAt>>

\* kbd_send_key, for each arrow and then for Enter: is USB mounted ...
SendChecksMount ==
  /\ at = "send"
  /\ IF mounted THEN at' = "ready" /\ UNCHANGED result ELSE Return("ERROR")
  /\ UNCHANGED <<cfg, target, steps, mounted, hostVars, biosAt>>

\* ... does the interface get ready within 200 ms ...
SendWaits ==
  /\ at = "ready"
  /\ \/ mounted /\ at' = "down" /\ UNCHANGED result
     \/ Return("ERROR")
  /\ UNCHANGED <<cfg, target, steps, mounted, hostVars, biosAt>>

\* ... then key down, and key up.
SendKeyDown ==
  /\ at = "down"
  /\ Report(Key)
  /\ at' = "up"
  /\ UNCHANGED <<cfg, target, steps, result, mounted, biosAt>>

\* Mutant: a key that cannot be released is an error.
SendKeyUpFails ==
  /\ at = "up"
  /\ Report("none")
  /\ IF ~mounted THEN Return("ERROR") /\ UNCHANGED steps
     ELSE IF steps > 0 THEN steps' = steps - 1 /\ at' = "send" /\ UNCHANGED result
     ELSE Return("OK") /\ UNCHANGED steps
  /\ UNCHANGED <<cfg, target, mounted, biosAt>>

\* Mutant: the loop over the arrows does not count.
SendKeyUpForever ==
  /\ at = "up"
  /\ Report("none")
  /\ IF steps > 0 THEN at' = "send" /\ UNCHANGED <<steps, result>>
     ELSE Return("OK") /\ UNCHANGED steps
  /\ UNCHANGED <<cfg, target, mounted, biosAt>>

SendKeyUp ==
  /\ at = "up"
  /\ Report("none")
  /\ IF steps > 0
     THEN /\ steps' = steps - 1
          /\ at' = "send"
          /\ UNCHANGED result
     ELSE Return("OK") /\ UNCHANGED steps
  /\ UNCHANGED <<cfg, target, mounted, biosAt>>

Selecting ==
  CountSteps \/ SendChecksMount \/ SendWaits \/ SendKeyDown \/ SendKeyUp

-----------------------------------------------------------------------------
(* bios_entry_task: the same kbd_send_key, many times, from another task *)

BiosChecksMount ==
  /\ biosAt = "delay" /\ mounted
  /\ biosAt' = "ready"
  /\ UNCHANGED <<callVars, mounted, hostVars>>

BiosWaits ==
  /\ biosAt = "ready"
  /\ biosAt' \in IF mounted THEN {"down", "delay"} ELSE {"delay"}
  /\ UNCHANGED <<callVars, mounted, hostVars>>

BiosReports(key) ==
  /\ Arrives(key) \/ UNCHANGED <<held, cursor, chosen>>
  /\ UNCHANGED <<callVars, mounted, lost>>

BiosKeyDown == biosAt = "down" /\ biosAt' = "up" /\ BiosReports("BIOS")

BiosKeyUp == biosAt = "up" /\ biosAt' = "delay" /\ BiosReports("none")

BiosPresses == BiosChecksMount \/ BiosWaits \/ BiosKeyDown \/ BiosKeyUp
-----------------------------------------------------------------------------
Next ==
  (\E t \in OsTargets : Select(t)) \/ Selecting \/ BiosPresses \/ LinkChanges

Spec == Init /\ [][Next]_vars

\* Every delay ends and the calling task is scheduled.
FairSpec == Spec /\ WF_vars(Selecting)
-----------------------------------------------------------------------------
(* Properties *)

\* os_selector.c:42-67: if the host gets every report, whatever it does to the
\* link in between, Enter is pressed on the entry configured for the target,
\* even when bios_entry_task types between a key's down and up.
SelectsTarget == chosen # Nothing /\ ~lost => chosen = TargetIndex

\* boot_manager.c:104-121 tells the user what it is told: an error means that
\* the menu is still there, Enter not having been pressed, and no error that the
\* target is booting, unless the host missed a report.  DEFAULT never fails.
ResultIsTrue ==
  /\ result = "ERROR" => chosen = Nothing
  /\ result # "none" /\ target = "DEFAULT" => result = "OK" /\ chosen = Nothing
  /\ result = "OK" /\ target # "DEFAULT" /\ ~lost => chosen = TargetIndex

\* The call returns, whatever the host does, so the esp_timer task which
\* makes it is not lost to the other timers.
SelectionReturns == at # "idle" ~> at = "idle"
=============================================================================
