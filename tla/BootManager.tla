---------------------------- MODULE BootManager ----------------------------
(***************************************************************************)
(* The boot flow: boot_manager.c with everything that shares its state.    *)
(*                                                                         *)
(*   httpd   serves one request at a time: boot, shutdown, force_off,      *)
(*           reboot, reboot_os and reset_state (http_server.c)             *)
(*   timer   the esp_timer task, which runs the POST detector's callback   *)
(*           on_post_complete and, from main.c, the USB sync (UsbSync)     *)
(*   bios    the bios_entry tasks, which boot creates for a BIOS boot      *)
(*                                                                         *)
(* They communicate through system_state.c, whose mutex makes each set or  *)
(* get one step, and, without a lock, through the boot manager's own       *)
(* fields and the detector (PostDetector).  Time is abstracted: a press, a *)
(* key sequence or a delay lasts for as long as the other tasks like.      *)
(***************************************************************************)
EXTENDS UsbSync

CONSTANTS
  Targets,        \* the os_target_t that requests ask for
  Kits,           \* what app_main may have found and configured
  Tasks,          \* the task handles xTaskCreate may return
  NULL            \* the handle of no task

ASSUME TargetsAssumption ==
  /\ Targets \subseteq {"DEFAULT", "WINDOWS", "FEDORA", "BIOS"}
  /\ "DEFAULT" \in Targets

\* No keyboard; a keyboard and the Windows boot manager; a keyboard and GRUB.
ASSUME KitsAssumption == Kits \subseteq {"no keyboard", "keyboard", "selector"}

ASSUME TasksAssumption == NULL \notin Tasks

VARIABLES
  kit,        \* m->cfg: its keyboard and its os_sel
  pendingOs,  \* m->pending_os
  bootTask,   \* m->boot_task
  bios,       \* bios[t]: what bios_entry task t does next
  dropped,    \* history: the last BIOS boot created no task of its own
  relay,      \* the relay that is closed, if any
  call,       \* the request httpd serves
  target,     \* its "os" parameter
  at,         \* what httpd does next
  monitoring, \* the state of the detector
  handling,
  callback

Detector == INSTANCE PostDetector

detVars == <<monitoring, handling, callback>>
httpVars == <<call, target, at>>
biosVars == <<bootTask, bios, dropped>>
stateVars == <<pcState, osBooted>>
vars == <<kit, syncVars, pendingOs, biosVars, relay, httpVars, detVars>>

HasKeyboard == kit # "no keyboard"

HasOsSelector == kit = "selector"

Calls == {"boot", "shutdown", "force_off", "reboot", "reboot_os", "reset_state"}

HttpLabels == {"idle", "check", "remember", "stop", "announce", "press",
               "release", "launch", "start", "publish", "off", "forget"}

BiosLabels == {"none", "begin", "spam", "now ONLINE", "forget os", "clear"}

CallbackLabels == {"decided", "completed", "skip", "skip ONLINE", "skip os",
                   "selecting", "select", "failed", "stop", "selected",
                   "report os"}

TypeOK ==
  /\ kit \in Kits
  /\ link \in LinkStates
  /\ debounce \in 0..SuspendDebounceMax - 1
  /\ timer \in SyncLabels \cup CallbackLabels \cup {"idle"}
  /\ pcState \in PcStates
  /\ osBooted \in BootedOses
  /\ pendingOs \in Targets
  /\ bootTask \in Tasks \cup {NULL}
  /\ bios \in [Tasks -> BiosLabels]
  /\ dropped \in BOOLEAN
  /\ relay \in {"none", "POWER", "RESET"}
  /\ call \in Calls \cup {"none"}
  /\ target \in Targets
  /\ at \in HttpLabels
  /\ Detector!TypeOK

Init ==
  /\ kit \in Kits
  /\ SyncInit
  /\ pendingOs = "DEFAULT"
  /\ bootTask = NULL
  /\ bios = [t \in Tasks |-> "none"]
  /\ dropped = FALSE
  /\ relay = "none"
  /\ call = "none" /\ target = "DEFAULT" /\ at = "idle"
  /\ Detector!Init
-----------------------------------------------------------------------------
(* The requests, in the HTTP task *)

SetPc(s) == pcState' = s /\ UNCHANGED osBooted
SetOs(o) == osBooted' = o /\ UNCHANGED pcState

Goto(l) == at' = l /\ UNCHANGED <<call, target>>
Respond == call' = "none" /\ target' = "DEFAULT" /\ at' = "idle"

\* Steps of httpd leave the timer, the link and, most of them, the tasks alone.
HttpdStep == UNCHANGED <<kit, link, debounce, timer>>

\* A request passes check_token and its "os" is parsed; only boot and
\* reboot_os have one, and anything but the known names means DEFAULT.
Request ==
  /\ at = "idle"
  /\ \/ \E c \in {"boot", "reboot_os"}, t \in Targets :
          /\ call' = c /\ target' = t
          /\ at' = IF c = "boot" THEN "check" ELSE "remember"
     \/ \E c \in Calls \ {"boot", "reboot_os"} :
          /\ call' = c /\ UNCHANGED target
          /\ at' = CASE c = "shutdown" -> "check"
                     [] c = "force_off" -> "stop"
                     [] c = "reboot" -> "press"
                     [] c = "reset_state" -> "off"
  /\ HttpdStep
  /\ UNCHANGED <<stateVars, pendingOs, biosVars, relay, detVars>>

\* boot wants the PC OFFLINE or in ERROR, shutdown wants it ONLINE.
Check ==
  /\ at = "check"
  /\ \/ call = "boot" /\ pcState \in {"OFFLINE", "ERROR"} /\ Goto("remember")
     \/ call = "boot" /\ pcState \notin {"OFFLINE", "ERROR"} /\ Respond
     \/ call = "shutdown" /\ pcState = "ONLINE" /\ Goto("announce")
     \/ call = "shutdown" /\ pcState # "ONLINE" /\ Respond
  /\ HttpdStep
  /\ UNCHANGED <<stateVars, pendingOs, biosVars, relay, detVars>>

Remember ==
  /\ at = "remember"
  /\ pendingOs' = target
  /\ Goto(IF call = "boot" THEN "announce" ELSE "start")
  /\ HttpdStep
  /\ UNCHANGED <<stateVars, biosVars, relay, detVars>>

\* force_off stops the detector before anything else.
ForceOffStops ==
  /\ at = "stop"
  /\ Detector!Stop
  /\ Goto("announce")
  /\ HttpdStep
  /\ UNCHANGED <<stateVars, pendingOs, biosVars, relay>>

Announce ==
  /\ at = "announce"
  /\ SetPc(IF call = "boot" THEN "POWERING_ON" ELSE "SHUTTING_DOWN")
  /\ dropped' = (dropped /\ call # "boot")
  /\ Goto("press")
  /\ HttpdStep
  /\ UNCHANGED <<pendingOs, bootTask, bios, relay, detVars>>

\* relay_press closes the contact, waits and opens it again.
Press ==
  /\ at = "press"
  /\ relay' = IF call \in {"reboot", "reboot_os"} THEN "RESET" ELSE "POWER"
  /\ Goto("release")
  /\ HttpdStep
  /\ UNCHANGED <<stateVars, pendingOs, biosVars, detVars>>

Release ==
  /\ at = "release"
  /\ relay' = "none"
  /\ Goto(CASE call = "boot" -> IF target = "BIOS" THEN "launch" ELSE "start"
            [] call \in {"reboot", "reboot_os"} -> "publish"
            [] call \in {"shutdown", "force_off"} -> "off")
  /\ HttpdStep
  /\ UNCHANGED <<stateVars, pendingOs, biosVars, detVars>>

\* Mutant: boot does not look at boot_task.
LaunchRegardless ==
  /\ at = "launch"
  /\ \E t \in Tasks :
       bios[t] = "none" /\ bootTask' = t /\ bios' = [bios EXCEPT ![t] = "begin"]
  /\ Respond
  /\ HttpdStep
  /\ UNCHANGED <<stateVars, pendingOs, dropped, relay, detVars>>

\* A BIOS boot creates the task unless that of an earlier one is still there;
\* the result of xTaskCreate, which fails for want of memory, is not looked at.
Launch ==
  /\ at = "launch"
  /\ \/ \E t \in Tasks :
          /\ bootTask = NULL
          /\ bios[t] = "none"
          /\ bootTask' = t
          /\ bios' = [bios EXCEPT ![t] = "begin"]
          /\ UNCHANGED dropped
     \/ dropped' = TRUE /\ UNCHANGED <<bootTask, bios>>
  /\ Respond
  /\ HttpdStep
  /\ UNCHANGED <<stateVars, pendingOs, relay, detVars>>

\* boot starts the detector after the press, reboot_os before it.
StartDetector ==
  /\ at = "start"
  /\ Detector!Start
  /\ Goto(IF call = "boot" THEN "publish" ELSE "press")
  /\ HttpdStep
  /\ UNCHANGED <<stateVars, pendingOs, biosVars, relay>>

\* Mutant: POST_RUNNING is not announced.
PublishForgets ==
  /\ at = "publish"
  /\ Respond
  /\ HttpdStep
  /\ UNCHANGED <<stateVars, pendingOs, biosVars, relay, detVars>>

\* The last step of boot, of reboot_os and of reboot, whose handler sets the
\* state although boot_manager_reset starts no detection.
Publish ==
  /\ at = "publish"
  /\ SetPc("POST_RUNNING")
  /\ Respond
  /\ HttpdStep
  /\ UNCHANGED <<pendingOs, biosVars, relay, detVars>>

\* The last step of shutdown and force_off, the first of reset_state.
Off ==
  /\ at = "off"
  /\ SetPc("OFFLINE")
  /\ IF call = "reset_state" THEN Goto("forget") ELSE Respond
  /\ HttpdStep
  /\ UNCHANGED <<pendingOs, biosVars, relay, detVars>>

Forget ==
  /\ at = "forget"
  /\ SetOs("UNKNOWN")
  /\ Respond
  /\ HttpdStep
  /\ UNCHANGED <<pendingOs, biosVars, relay, detVars>>

Serve ==
  \/ Check \/ Remember \/ ForceOffStops \/ Announce \/ Press \/ Release
  \/ Launch \/ StartDetector \/ Publish \/ Off \/ Forget
-----------------------------------------------------------------------------
(* bios_entry_task *)

BiosGoes(t, from, to) == bios[t] = from /\ bios' = [bios EXCEPT ![t] = to]

BiosStep ==
  UNCHANGED <<kit, link, debounce, timer, pendingOs, dropped, relay, httpVars, detVars>>

BiosBegins(t) ==
  /\ \/ HasKeyboard /\ SetPc("POST_RUNNING") /\ BiosGoes(t, "begin", "spam")
     \/ ~HasKeyboard /\ SetPc("ERROR") /\ BiosGoes(t, "begin", "clear")
  /\ UNCHANGED bootTask
  /\ BiosStep

\* The presses of DEL or F2, whatever send_key answers.
BiosSpams(t) ==
  /\ BiosGoes(t, "spam", "now ONLINE")
  /\ UNCHANGED <<stateVars, bootTask>>
  /\ BiosStep

BiosOnline(t) ==
  /\ BiosGoes(t, "now ONLINE", "forget os")
  /\ SetPc("ONLINE")
  /\ UNCHANGED bootTask
  /\ BiosStep

BiosForgetsOs(t) ==
  /\ BiosGoes(t, "forget os", "clear")
  /\ SetOs("UNKNOWN")
  /\ UNCHANGED bootTask
  /\ BiosStep

BiosClears(t) ==
  /\ BiosGoes(t, "clear", "none")
  /\ bootTask' = NULL
  /\ UNCHANGED stateVars
  /\ BiosStep

BiosEntry(t) ==
  \/ BiosBegins(t) \/ BiosSpams(t) \/ BiosOnline(t) \/ BiosForgetsOs(t)
  \/ BiosClears(t)
-----------------------------------------------------------------------------
(* The detector and on_post_complete, in the esp_timer task *)

TimerGoes(from, to) == timer = from /\ timer' = to

TimerStep ==
  UNCHANGED <<kit, link, debounce, pendingOs, biosVars, relay, httpVars>>

DetectorDecides ==
  /\ TimerGoes("idle", "decided")
  /\ Detector!Decide
  /\ UNCHANGED stateVars
  /\ TimerStep

DetectorGivesUp ==
  /\ timer = "idle"
  /\ Detector!GiveUp
  /\ UNCHANGED <<stateVars, timer>>
  /\ TimerStep

DetectorCalls ==
  /\ TimerGoes("decided", "completed")
  /\ Detector!Call
  /\ UNCHANGED stateVars
  /\ TimerStep

NoSelection == ~HasOsSelector \/ pendingOs = "DEFAULT"

PostComplete ==
  /\ TimerGoes("completed", IF NoSelection THEN "skip" ELSE "selecting")
  /\ UNCHANGED <<stateVars, detVars>>
  /\ TimerStep

SelectingOs ==
  /\ TimerGoes("selecting", "select")
  /\ SetPc("SELECTING_OS")
  /\ UNCHANGED detVars
  /\ TimerStep

\* os_selector_select: it sends nothing for DEFAULT, should pendingOs have
\* become that, and otherwise fails when the keyboard does.
SelectOs ==
  /\ \/ TimerGoes("select", "stop")
     \/ pendingOs # "DEFAULT" /\ TimerGoes("select", "failed")
  /\ UNCHANGED <<stateVars, detVars>>
  /\ TimerStep

\* Mutant: a failed selection returns without setting ERROR.
SelectionFailsSilently ==
  /\ TimerGoes("failed", "idle")
  /\ UNCHANGED stateVars
  /\ Detector!Return
  /\ TimerStep

SelectionFails ==
  /\ TimerGoes("failed", "idle")
  /\ SetPc("ERROR")
  /\ Detector!Return
  /\ TimerStep

CallbackStops ==
  /\ TimerGoes("skip", "skip ONLINE") \/ TimerGoes("stop", "selected")
  /\ Detector!Stop
  /\ UNCHANGED stateVars
  /\ TimerStep

CallbackOnline ==
  /\ TimerGoes("skip ONLINE", "skip os") \/ TimerGoes("selected", "report os")
  /\ SetPc("ONLINE")
  /\ UNCHANGED detVars
  /\ TimerStep

\* Mutant: what was asked for is reported as what was booted.
CallbackReportsRequest ==
  /\ \/ TimerGoes("skip os", "idle") /\ SetOs("UNKNOWN")
     \/ TimerGoes("report os", "idle") /\ SetOs(pendingOs)
  /\ Detector!Return
  /\ TimerStep

\* After a selection, pending_os is read once more for the status page.
CallbackReports ==
  /\ \/ TimerGoes("skip os", "idle") /\ SetOs("UNKNOWN")
     \/ /\ TimerGoes("report os", "idle")
        /\ SetOs(IF pendingOs \in {"WINDOWS", "FEDORA"}
                 THEN pendingOs ELSE "UNKNOWN")
  /\ Detector!Return
  /\ TimerStep

Completion ==
  \/ DetectorCalls \/ PostComplete \/ SelectingOs \/ SelectOs
  \/ SelectionFails \/ CallbackStops \/ CallbackOnline \/ CallbackReports

Sync ==
  /\ SyncStep
  /\ UNCHANGED <<kit, pendingOs, biosVars, relay, httpVars, detVars>>

LinkEvent ==
  /\ LinkChanges
  /\ UNCHANGED <<kit, pendingOs, biosVars, relay, httpVars, detVars>>

\* A handler of the detector, in the TinyUSB task or in a sample, sees the
\* detection under way, and then moves it on.
DetectorSees ==
  /\ Detector!See
  /\ UNCHANGED <<kit, syncVars, pendingOs, biosVars, relay, httpVars>>

DetectorUpdates ==
  /\ Detector!Update
  /\ UNCHANGED <<kit, syncVars, pendingOs, biosVars, relay, httpVars>>
-----------------------------------------------------------------------------
Next ==
  \/ Request \/ Serve
  \/ \E t \in Tasks : BiosEntry(t)
  \/ DetectorDecides \/ DetectorGivesUp \/ Completion
  \/ Sync \/ LinkEvent \/ DetectorSees \/ DetectorUpdates

Spec == Init /\ [][Next]_vars

\* Every task that has something to do is scheduled, and the sync timer is
\* periodic.  No request, link event or end of POST ever has to come.
Fairness ==
  /\ WF_vars(Serve)
  /\ \A t \in Tasks : WF_vars(BiosEntry(t))
  /\ WF_vars(Completion \/ Sync)
  /\ WF_vars(DetectorUpdates)

FairSpec == Spec /\ Fairness
-----------------------------------------------------------------------------
(* Properties that hold *)

Live == {t \in Tasks : bios[t] # "none"}

\* m->boot_task is the only guard against a second bios_entry task (two of
\* them would interleave their key presses): it names the live task, if any.
BootTaskIsTheLiveTask == Live = {bootTask} \ {NULL}

\* Where httpd is in boot once it has announced it.
PoweringOn == call = "boot" /\ at \in {"press", "release", "launch", "start",
                                       "publish"}

\* Whoever shows a transient state is still at work and will replace it:
\* POWERING_ON is httpd's and then that of a BIOS task about to begin, unless
\* none was created, for want of memory or because an earlier one was still
\* there; SELECTING_OS is the callback's, SHUTTING_DOWN httpd's.
TransientStateHasOwner ==
  /\ pcState = "POWERING_ON" =>
       PoweringOn \/ (\E t \in Tasks : bios[t] = "begin") \/ dropped
  /\ pcState = "SELECTING_OS" => timer \in {"select", "failed", "stop", "selected"}
  /\ pcState = "SHUTTING_DOWN" =>
       call \in {"shutdown", "force_off"} /\ at \in {"press", "release", "off"}

\* An accepted boot does not hang before POST, unless it is a BIOS boot that
\* created no task.
PoweringOnEnds ==
  pcState = "POWERING_ON" ~> (pcState # "POWERING_ON" \/ dropped)

\* No request is served and no handler of the detector is at work.
Quiet == call = "none" /\ ~handling

\* main.c:62-73: when requests and the events that a detector handles stop
\* coming and the link stays active, the PC ends up not being shown as OFFLINE,
\* whatever else is still under way ...
SyncFindsPcOn ==
  <>[](link = "active" /\ Quiet) => <>[](pcState # "OFFLINE")

\* ... and when it stays inactive, as not ONLINE.
SyncFindsPcOff ==
  <>[](link # "active" /\ Quiet) => <>[](pcState # "ONLINE")
-----------------------------------------------------------------------------
(* Claims of comments and documents that the code does not keep *)

\* main.c:72 "Only acts on OFFLINE <-> ONLINE edges - never interferes with
\* active boot sequences".
SyncSparesBoots ==
  [][SyncWritesPc => pcState \notin {"POWERING_ON", "POST_RUNNING",
                                     "SELECTING_OS"}]_vars

\* A watchdog that ends what the detector does not.
WatchedSpec == FairSpec /\ WF_vars(DetectorDecides \/ DetectorGivesUp)

\* post_detector.h:22 "Max wait; fires error if exceeded": a detection that
\* is under way does not leave the PC in POST_RUNNING for ever.
PostEnds ==
  <>[](call = "none") =>
    ((pcState = "POST_RUNNING" /\ monitoring) ~> pcState # "POST_RUNNING")
=============================================================================
