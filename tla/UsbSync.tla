------------------------------ MODULE UsbSync ------------------------------
(***************************************************************************)
(* The USB <-> PC state synchronisation of main.c: usb_sync_timer_cb, run  *)
(* by the esp_timer task every 3 s.  It samples the USB link, then reads   *)
(* the PC state, then writes it: three steps, with the other tasks free to *)
(* act in between.                                                         *)
(***************************************************************************)
EXTENDS Naturals

CONSTANTS
  LinkStates,           \* what the host does with the keyboard's USB link
  SuspendDebounceMax    \* SUSPEND_DEBOUNCE_MAX

ASSUME LinkStatesAssumption ==
  /\ LinkStates \subseteq {"unmounted", "active", "suspended"}
  /\ LinkStates # {}

ASSUME SuspendDebounceMaxAssumption == SuspendDebounceMax \in Nat \ {0}

VARIABLES
  link,       \* tud_mounted(), tud_suspended(): the state of the USB link
  debounce,   \* s_suspend_debounce
  timer,      \* what the esp_timer task does next
  pcState,    \* s_state.pc_state
  osBooted    \* s_state.os_booted

syncVars == <<link, debounce, timer, pcState, osBooted>>

\* pc_state_t; nothing ever sets PC_STATE_BOOTING.
PcStates == {"OFFLINE", "POWERING_ON", "POST_RUNNING", "SELECTING_OS",
             "ONLINE", "SHUTTING_DOWN", "ERROR"}

BootedOses == {"UNKNOWN", "WINDOWS", "FEDORA"}

SyncLabels == {"saw active", "saw inactive", "now ONLINE", "now OFFLINE",
               "forget os"}

\* The link is whatever the PC made of it while the controller started.
SyncInit ==
  /\ link \in LinkStates
  /\ debounce = 0
  /\ timer = "idle"
  /\ pcState = "OFFLINE"
  /\ osBooted = "UNKNOWN"
-----------------------------------------------------------------------------
\* The cable, the host's power or its drivers change the link.
LinkChanges ==
  /\ link' \in LinkStates \ {link}
  /\ UNCHANGED <<debounce, timer, pcState, osBooted>>

\* active = tud_mounted() && !tud_suspended()
SyncSamples ==
  /\ timer = "idle"
  /\ timer' = IF link = "active" THEN "saw active" ELSE "saw inactive"
  /\ UNCHANGED <<link, debounce, pcState, osBooted>>

\* Mutants: the edge is noticed, but the state is not set.
NoticedOnline ==
  /\ timer = "saw active" /\ pcState = "OFFLINE"
  /\ timer' = "idle"
  /\ debounce' = 0

NoticedOffline ==
  /\ timer = "saw inactive" /\ pcState = "ONLINE"
  /\ timer' = "idle"
  /\ debounce' = 0

\* susp = tud_suspended(), st = system_state_pc(), and the four outcomes.
\* The third needs a link that is suspended although it was active when
\* sampled: a suspended link is inactive, and takes the second.
FoundOnline ==
  /\ timer = "saw active" /\ pcState = "OFFLINE"
  /\ timer' = "now ONLINE"
  /\ debounce' = 0

FoundOffline ==
  /\ timer = "saw inactive" /\ pcState = "ONLINE"
  /\ timer' = "now OFFLINE"
  /\ debounce' = 0

FoundSuspended ==
  /\ timer = "saw active" /\ pcState = "ONLINE" /\ link = "suspended"
  /\ IF debounce + 1 >= SuspendDebounceMax
     THEN timer' = "now OFFLINE" /\ debounce' = 0
     ELSE timer' = "idle" /\ debounce' = debounce + 1

FoundInSync ==
  /\ \/ timer = "saw active" /\ pcState # "OFFLINE"
                             /\ ~(pcState = "ONLINE" /\ link = "suspended")
     \/ timer = "saw inactive" /\ pcState # "ONLINE"
  /\ timer' = "idle"
  /\ debounce' = 0

SyncChecks ==
  /\ FoundOnline \/ FoundOffline \/ FoundSuspended \/ FoundInSync
  /\ UNCHANGED <<link, pcState, osBooted>>

\* system_state_set_pc, then system_state_set_os: two critical sections.
SyncWritesPc ==
  /\ \/ timer = "now ONLINE" /\ pcState' = "ONLINE"
     \/ timer = "now OFFLINE" /\ pcState' = "OFFLINE"
  /\ timer' = "forget os"
  /\ UNCHANGED <<link, debounce, osBooted>>

SyncForgetsOs ==
  /\ timer = "forget os"
  /\ osBooted' = "UNKNOWN"
  /\ timer' = "idle"
  /\ UNCHANGED <<link, debounce, pcState>>

SyncStep == SyncSamples \/ SyncChecks \/ SyncWritesPc \/ SyncForgetsOs
-----------------------------------------------------------------------------
(* The synchronisation among tasks that do anything to the PC state *)

OthersWrite ==
  /\ pcState' \in PcStates
  /\ osBooted' \in BootedOses
  /\ UNCHANGED <<link, debounce, timer>>

SyncNext == SyncStep \/ LinkChanges \/ OthersWrite

\* The timer is periodic.
SyncSpec == SyncInit /\ [][SyncNext]_syncVars /\ WF_syncVars(SyncStep)

\* main.c:69 "A sustained suspend (3 consecutive polls = 9 s) is treated as
\* PC off": a suspended link makes the PC OFFLINE at the last of the polls
\* that debounce counts.  (The code does not keep this.)
SuspendIsDebounced ==
  [][link = "suspended" /\ timer' = "now OFFLINE" =>
       debounce = SuspendDebounceMax - 1]_syncVars
=============================================================================
