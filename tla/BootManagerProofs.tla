------------------------- MODULE BootManagerProofs -------------------------
(***************************************************************************)
(* Theorems about BootManager, for any set of targets, of task handles and  *)
(* of link states, with or without a keyboard and an OS selector.           *)
(*                                                                         *)
(* TypeOK is not inductive alone: what httpd does after it opens the relay  *)
(* depends on the request it serves.  HttpdIsInItsRequest supplies that,    *)
(* and also carries the two properties, which need to know where a request  *)
(* can be when a state is shown.                                            *)
(*                                                                         *)
(* The last two parts say how BootManager stands to the modules that it is  *)
(* made of: it asks of its detector what PostDetector allows, and all that  *)
(* it does is, to the sync, what UsbSync leaves to other tasks.             *)
(***************************************************************************)
EXTENDS BootManager, TLAPS

\* Where httpd can be while it serves each request.
HttpdIsInItsRequest ==
  /\ call = "none" => at = "idle"
  /\ call = "boot" => at \in {"check", "remember", "announce", "press",
                              "release", "launch", "start", "publish"}
  /\ call = "shutdown" => at \in {"check", "announce", "press", "release", "off"}
  /\ call = "force_off" => at \in {"stop", "announce", "press", "release", "off"}
  /\ call = "reboot" => at \in {"press", "release", "publish"}
  /\ call = "reboot_os" => at \in {"remember", "start", "press", "release",
                                   "publish"}
  /\ call = "reset_state" => at \in {"off", "forget"}

-----------------------------------------------------------------------------
(* Types, one lemma for the actions of each task *)

\* The requests, in the HTTP task.
LEMMA HttpdKeepsTypes ==
  ASSUME TypeOK, HttpdIsInItsRequest, Request \/ Serve
  PROVE  TypeOK'
<1> USE DEF TypeOK, Detector!TypeOK, stateVars, biosVars, httpVars,
        detVars, HttpdStep, Goto, Respond, SetPc, SetOs, HttpLabels
<1>1. CASE Request
  BY <1>1, TargetsAssumption DEF Request, Calls
<1>2. CASE Check
  BY <1>2, TargetsAssumption DEF Check
<1>3. CASE Remember
  BY <1>3 DEF Remember
<1>4. CASE ForceOffStops
  BY <1>4 DEF ForceOffStops, Detector!Stop
<1>5. CASE Announce
  BY <1>5 DEF Announce, PcStates
<1>6. CASE Press
  BY <1>6 DEF Press
<1>7. CASE Release
  BY <1>7 DEF Release, HttpdIsInItsRequest, Calls
<1>8. CASE Launch
  BY <1>8, TargetsAssumption DEF Launch, BiosLabels
<1>9. CASE StartDetector
  BY <1>9 DEF StartDetector, Detector!Start
<1>10. CASE Publish
  BY <1>10, TargetsAssumption DEF Publish, PcStates
<1>11. CASE Off
  BY <1>11, TargetsAssumption DEF Off, PcStates
<1>12. CASE Forget
  BY <1>12, TargetsAssumption DEF Forget, BootedOses
<1> QED
  BY <1>1, <1>2, <1>3, <1>4, <1>5, <1>6, <1>7, <1>8, <1>9, <1>10, <1>11,
     <1>12 DEF Serve

\* The bios_entry tasks.
LEMMA BiosKeepsTypes ==
  ASSUME TypeOK, NEW t \in Tasks, BiosEntry(t)
  PROVE  TypeOK'
<1> USE DEF TypeOK, Detector!TypeOK, stateVars, biosVars, httpVars,
        detVars, BiosStep, BiosGoes, SetPc, SetOs, BiosLabels
<1>1. CASE BiosBegins(t)
  <2>1. pcState' \in PcStates /\ bios' \in [Tasks -> BiosLabels]
    BY <1>1 DEF BiosBegins, PcStates
  <2> QED
    BY <1>1, <2>1 DEF BiosBegins
<1>2. CASE BiosSpams(t)
  BY <1>2 DEF BiosSpams
<1>3. CASE BiosOnline(t)
  BY <1>3 DEF BiosOnline, PcStates
<1>4. CASE BiosForgetsOs(t)
  BY <1>4 DEF BiosForgetsOs, BootedOses
<1>5. CASE BiosClears(t)
  BY <1>5 DEF BiosClears
<1> QED
  BY <1>1, <1>2, <1>3, <1>4, <1>5 DEF BiosEntry

\* The detector and on_post_complete, in the esp_timer task.
LEMMA CompletionKeepsTypes ==
  ASSUME TypeOK, DetectorDecides \/ DetectorGivesUp \/ Completion
  PROVE  TypeOK'
<1> USE DEF TypeOK, Detector!TypeOK, stateVars, biosVars, httpVars,
        detVars, TimerStep, TimerGoes, SetPc, SetOs, CallbackLabels
<1>1. CASE DetectorDecides
  BY <1>1 DEF DetectorDecides, Detector!Decide
<1>2. CASE DetectorGivesUp
  BY <1>2 DEF DetectorGivesUp, Detector!GiveUp
<1>3. CASE DetectorCalls
  BY <1>3 DEF DetectorCalls, Detector!Call
<1>4. CASE PostComplete
  BY <1>4 DEF PostComplete
<1>5. CASE SelectingOs
  BY <1>5 DEF SelectingOs, PcStates
<1>6. CASE SelectOs
  BY <1>6 DEF SelectOs
<1>7. CASE SelectionFails
  BY <1>7 DEF SelectionFails, Detector!Return, PcStates
<1>8. CASE CallbackStops
  BY <1>8 DEF CallbackStops, Detector!Stop
<1>9. CASE CallbackOnline
  BY <1>9 DEF CallbackOnline, PcStates
<1>10. CASE CallbackReports
  BY <1>10 DEF CallbackReports, Detector!Return, BootedOses
<1> QED
  BY <1>1, <1>2, <1>3, <1>4, <1>5, <1>6, <1>7, <1>8, <1>9, <1>10 DEF
     Completion

\* usb_sync_timer_cb, whose debounce counter never reaches its limit.
LEMMA DebounceIsBounded ==
  ASSUME debounce \in 0..SuspendDebounceMax - 1, SyncChecks
  PROVE  debounce' \in 0..SuspendDebounceMax - 1
<1>1. SuspendDebounceMax \in Nat /\ SuspendDebounceMax >= 1
  BY SuspendDebounceMaxAssumption
<1>2. debounce \in Nat
  BY <1>1
<1>3. \/ debounce' = 0
      \/ debounce' = debounce + 1 /\ ~(debounce + 1 >= SuspendDebounceMax)
  BY DEF SyncChecks, FoundOnline, FoundOffline, FoundSuspended, FoundInSync
<1>4. CASE debounce' = 0
  BY <1>1, <1>4
<1>5. CASE debounce' = debounce + 1 /\ ~(debounce + 1 >= SuspendDebounceMax)
  BY <1>1, <1>2, <1>5
<1> QED
  BY <1>3, <1>4, <1>5

LEMMA SyncKeepsTypes ==
  ASSUME TypeOK, Sync
  PROVE  TypeOK'
<1> USE DEF TypeOK, Detector!TypeOK, biosVars, httpVars, detVars, Sync
<1>1. CASE SyncSamples
  BY <1>1 DEF SyncSamples, SyncLabels
<1>2. CASE SyncChecks
  <2>1. timer' \in SyncLabels \cup {"idle"}
    BY <1>2 DEF SyncChecks, FoundOnline, FoundOffline, FoundSuspended,
                FoundInSync, SyncLabels
  <2> QED
    BY <1>2, <2>1, DebounceIsBounded DEF SyncChecks
<1>3. CASE SyncWritesPc
  BY <1>3 DEF SyncWritesPc, SyncLabels, PcStates
<1>4. CASE SyncForgetsOs
  BY <1>4 DEF SyncForgetsOs, BootedOses
<1> QED
  BY <1>1, <1>2, <1>3, <1>4 DEF SyncStep

\* The USB link, which a USB detector watches.
LEMMA LinkKeepsTypes ==
  ASSUME TypeOK, LinkEvent \/ DetectorSees \/ DetectorUpdates
  PROVE  TypeOK'
<1> USE DEF TypeOK, Detector!TypeOK, biosVars, httpVars, detVars
<1>1. CASE LinkEvent
  BY <1>1 DEF LinkEvent, LinkChanges
<1>2. CASE DetectorSees
  BY <1>2 DEF DetectorSees, Detector!See, syncVars
<1>3. CASE DetectorUpdates
  BY <1>3 DEF DetectorUpdates, Detector!Update, syncVars
<1> QED
  BY <1>1, <1>2, <1>3

-----------------------------------------------------------------------------
(* The requests: only httpd's own steps change where it is *)

\* Each request goes through the steps of its handler and no others.
LEMMA HttpdKeepsItsPlace ==
  ASSUME TypeOK, HttpdIsInItsRequest, Request \/ Serve
  PROVE  HttpdIsInItsRequest'
<1> USE DEF HttpdIsInItsRequest, Goto, Respond
<1>1. CASE Request
  BY <1>1 DEF Request, Calls
<1>2. CASE Check
  BY <1>2 DEF Check
<1>3. CASE Remember
  BY <1>3 DEF Remember, TypeOK, Calls
<1>4. CASE ForceOffStops
  BY <1>4 DEF ForceOffStops
<1>5. CASE Announce
  BY <1>5 DEF Announce
<1>6. CASE Press
  BY <1>6 DEF Press
<1>7. CASE Release
  BY <1>7 DEF Release, TypeOK, Calls
<1>8. CASE Launch
  BY <1>8 DEF Launch
<1>9. CASE StartDetector
  BY <1>9 DEF StartDetector
<1>10. CASE Publish
  BY <1>10 DEF Publish
<1>11. CASE Off
  BY <1>11 DEF Off
<1>12. CASE Forget
  BY <1>12 DEF Forget
<1> QED
  BY <1>1, <1>2, <1>3, <1>4, <1>5, <1>6, <1>7, <1>8, <1>9, <1>10, <1>11,
     <1>12 DEF Serve

\* The other tasks do not move it.
LEMMA OthersLeaveHttpd ==
  ASSUME [Next]_vars, ~Request, ~Serve
  PROVE  UNCHANGED httpVars
<1>1. ASSUME NEW t \in Tasks, BiosEntry(t) PROVE UNCHANGED httpVars
  BY <1>1 DEF BiosEntry, BiosBegins, BiosSpams, BiosOnline, BiosForgetsOs,
              BiosClears, BiosStep
<1>2. CASE DetectorDecides \/ DetectorGivesUp \/ Completion
  BY <1>2 DEF DetectorDecides, DetectorGivesUp, Completion, DetectorCalls,
              PostComplete, SelectingOs, SelectOs, SelectionFails,
              CallbackStops, CallbackOnline, CallbackReports, TimerStep
<1>3. CASE Sync \/ LinkEvent \/ DetectorSees \/ DetectorUpdates
  BY <1>3 DEF Sync, LinkEvent, DetectorSees, DetectorUpdates
<1>4. CASE UNCHANGED vars
  BY <1>4 DEF vars
<1> QED
  BY <1>1, <1>2, <1>3, <1>4 DEF Next

\* Types and places together are inductive.
LEMMA TypesAndPlaces == Spec => [](TypeOK /\ HttpdIsInItsRequest)
<1>1. Init => TypeOK /\ HttpdIsInItsRequest
  <2> SUFFICES ASSUME Init PROVE TypeOK /\ HttpdIsInItsRequest
    OBVIOUS
  <2>1. debounce \in 0..SuspendDebounceMax - 1
    BY SuspendDebounceMaxAssumption DEF Init, SyncInit
  <2>2. Detector!TypeOK
    BY DEF Init, Detector!Init, Detector!TypeOK
  <2>3. TypeOK
    BY <2>1, <2>2, TargetsAssumption
       DEF Init, SyncInit, TypeOK, PcStates, BootedOses, BiosLabels, HttpLabels
  <2> QED
    BY <2>3 DEF Init, HttpdIsInItsRequest
<1>2. TypeOK /\ HttpdIsInItsRequest /\ [Next]_vars
        => TypeOK' /\ HttpdIsInItsRequest'
  <2> SUFFICES ASSUME TypeOK, HttpdIsInItsRequest, [Next]_vars
               PROVE  TypeOK' /\ HttpdIsInItsRequest'
    OBVIOUS
  <2>1. HttpdIsInItsRequest'
    <3>1. CASE UNCHANGED httpVars
      BY <3>1 DEF httpVars, HttpdIsInItsRequest
    <3> QED
      BY <3>1, HttpdKeepsItsPlace, OthersLeaveHttpd
  <2>2. CASE UNCHANGED vars
    BY <2>1, <2>2 DEF vars, syncVars, biosVars, httpVars, detVars, TypeOK,
                      Detector!TypeOK
  <2> QED
    BY <2>1, <2>2, HttpdKeepsTypes, BiosKeepsTypes, CompletionKeepsTypes,
       SyncKeepsTypes, LinkKeepsTypes DEF Next
<1> QED
  BY <1>1, <1>2, PTL DEF Spec

\* Every variable keeps its type in every step of the boot flow.
THEOREM TypeCorrect == Spec => []TypeOK
  BY TypesAndPlaces, PTL

-----------------------------------------------------------------------------
(* One BIOS task at most *)

\* A step of a task that does not end it leaves the same tasks alive.
LEMMA BiosGoesOn ==
  ASSUME TypeOK, BootTaskIsTheLiveTask, bootTask' = bootTask, NEW t \in Tasks,
         NEW from \in BiosLabels \ {"none"}, NEW to \in BiosLabels \ {"none"},
         BiosGoes(t, from, to)
  PROVE  BootTaskIsTheLiveTask'
  BY DEF TypeOK, BiosGoes, BootTaskIsTheLiveTask, Live

LEMMA BiosKeepsOneTask ==
  ASSUME TypeOK, BootTaskIsTheLiveTask, NEW t \in Tasks, BiosEntry(t)
  PROVE  BootTaskIsTheLiveTask'
<1>1. CASE BiosBegins(t)
  <2>1. PICK to \in {"spam", "clear"} : BiosGoes(t, "begin", to)
    BY <1>1 DEF BiosBegins
  <2> QED
    BY <1>1, <2>1, BiosGoesOn DEF BiosBegins, BiosLabels
<1>2. CASE BiosSpams(t)
  BY <1>2, BiosGoesOn DEF BiosSpams, BiosLabels
<1>3. CASE BiosOnline(t)
  BY <1>3, BiosGoesOn DEF BiosOnline, BiosLabels
<1>4. CASE BiosForgetsOs(t)
  BY <1>4, BiosGoesOn DEF BiosForgetsOs, BiosLabels
<1>5. CASE BiosClears(t)
  \* The task that clears boot_task is the one that it names.
  <2>1. t = bootTask
    BY <1>5 DEF BiosClears, BiosGoes, BootTaskIsTheLiveTask, Live
  <2>2. \A u \in Tasks : bios'[u] = "none"
    BY <1>5, <2>1 DEF BiosClears, BiosGoes, BootTaskIsTheLiveTask, Live, TypeOK
  <2> QED
    BY <1>5, <2>2 DEF BiosClears, BootTaskIsTheLiveTask, Live
<1> QED
  BY <1>1, <1>2, <1>3, <1>4, <1>5 DEF BiosEntry

\* Of httpd's steps only Launch creates a task, when boot_task is NULL.
LEMMA HttpdKeepsOneTask ==
  ASSUME TypeOK, BootTaskIsTheLiveTask, Request \/ Serve
  PROVE  BootTaskIsTheLiveTask'
<1>1. CASE Launch
  <2>1. CASE UNCHANGED <<bootTask, bios>>
    BY <2>1 DEF BootTaskIsTheLiveTask, Live
  <2>2. ASSUME NEW t \in Tasks, bootTask = NULL, bootTask' = t,
               bios' = [bios EXCEPT ![t] = "begin"]
        PROVE  BootTaskIsTheLiveTask'
    <3>1. \A u \in Tasks : bios[u] = "none"
      BY <2>2 DEF BootTaskIsTheLiveTask, Live
    <3>2. \A u \in Tasks : bios'[u] # "none" <=> u = t
      BY <2>2, <3>1 DEF TypeOK
    <3> QED
      BY <2>2, <3>2, TasksAssumption DEF BootTaskIsTheLiveTask, Live
  <2> QED
    BY <1>1, <2>1, <2>2 DEF Launch
<1>2. CASE Request \/ (Serve /\ ~Launch)
  <2>1. UNCHANGED <<bootTask, bios>>
    BY <1>2 DEF Request, Serve, Check, Remember, ForceOffStops, Announce, Press,
                Release, StartDetector, Publish, Off, Forget, biosVars
  <2> QED
    BY <2>1 DEF BootTaskIsTheLiveTask, Live
<1> QED
  BY <1>1, <1>2

\* The other tasks create and end none.
LEMMA OthersKeepOneTask ==
  ASSUME BootTaskIsTheLiveTask,
         \/ DetectorDecides \/ DetectorGivesUp \/ Completion
         \/ Sync \/ LinkEvent \/ DetectorSees \/ DetectorUpdates
         \/ UNCHANGED vars
  PROVE  BootTaskIsTheLiveTask'
<1>1. UNCHANGED <<bootTask, bios>>
  BY DEF DetectorDecides, DetectorGivesUp, Completion, DetectorCalls, PostComplete,
         SelectingOs, SelectOs, SelectionFails, CallbackStops, CallbackOnline,
         CallbackReports, TimerStep, Sync, LinkEvent, DetectorSees,
         DetectorUpdates, biosVars, vars
<1> QED
  BY <1>1 DEF BootTaskIsTheLiveTask, Live

\* Whatever requests arrive and however the tasks interleave, at most one
\* bios_entry task types on the keyboard, and boot_task is its handle: the test
\* of boot_task in boot_manager_boot is enough although it holds no lock.
THEOREM OneBiosTask == Spec => []BootTaskIsTheLiveTask
<1>1. Init => BootTaskIsTheLiveTask
  BY TasksAssumption DEF Init, BootTaskIsTheLiveTask, Live
<1>2. TypeOK /\ BootTaskIsTheLiveTask /\ [Next]_vars => BootTaskIsTheLiveTask'
  BY BiosKeepsOneTask, HttpdKeepsOneTask, OthersKeepOneTask DEF Next
<1> QED
  BY <1>1, <1>2, TypeCorrect, PTL DEF Spec

-----------------------------------------------------------------------------
(* Transient states *)

\* httpd announces a transient state and stays in the request until it has
\* replaced it, or handed it to the BIOS task.
LEMMA HttpdKeepsOwners ==
  ASSUME TypeOK, HttpdIsInItsRequest, TransientStateHasOwner,
         Request \/ Serve
  PROVE  TransientStateHasOwner'
<1> USE DEF TransientStateHasOwner, PoweringOn, stateVars, biosVars,
        HttpdStep, Goto, Respond, SetPc, SetOs
<1>1. CASE Request
  BY <1>1, TargetsAssumption DEF Request, HttpdIsInItsRequest
<1>2. CASE Check
  BY <1>2 DEF Check
<1>3. CASE Remember
  BY <1>3 DEF Remember
<1>4. CASE ForceOffStops
  BY <1>4 DEF ForceOffStops
<1>5. CASE Announce
  BY <1>5 DEF Announce, HttpdIsInItsRequest, TypeOK, Calls
<1>6. CASE Press
  BY <1>6 DEF Press
<1>7. CASE Release
  BY <1>7 DEF Release, TypeOK, Calls, HttpdIsInItsRequest
<1>8. CASE Launch
  BY <1>8, TargetsAssumption DEF Launch, TypeOK
<1>9. CASE StartDetector
  BY <1>9 DEF StartDetector, HttpdIsInItsRequest
<1>10. CASE Publish
  BY <1>10, TargetsAssumption DEF Publish
<1>11. CASE Off
  BY <1>11, TargetsAssumption DEF Off
<1>12. CASE Forget
  BY <1>12, TargetsAssumption DEF Forget, HttpdIsInItsRequest
<1> QED
  BY <1>1, <1>2, <1>3, <1>4, <1>5, <1>6, <1>7, <1>8, <1>9, <1>10, <1>11,
     <1>12 DEF Serve

\* A BIOS task replaces POWERING_ON when it begins.
LEMMA BiosKeepsOwners ==
  ASSUME TypeOK, TransientStateHasOwner, NEW t \in Tasks, BiosEntry(t)
  PROVE  TransientStateHasOwner'
<1> USE DEF TransientStateHasOwner, PoweringOn, stateVars, httpVars,
        BiosStep, BiosGoes, SetPc, SetOs
<1>1. CASE BiosBegins(t)
  BY <1>1 DEF BiosBegins
<1>2. CASE BiosSpams(t)
  BY <1>2 DEF BiosSpams, TypeOK
<1>3. CASE BiosOnline(t)
  BY <1>3 DEF BiosOnline
<1>4. CASE BiosForgetsOs(t)
  BY <1>4 DEF BiosForgetsOs, TypeOK
<1>5. CASE BiosClears(t)
  BY <1>5 DEF BiosClears, TypeOK
<1> QED
  BY <1>1, <1>2, <1>3, <1>4, <1>5 DEF BiosEntry

\* The callback replaces SELECTING_OS before it returns, whatever the
\* selection comes to.
LEMMA CompletionKeepsOwners ==
  ASSUME TransientStateHasOwner,
         DetectorDecides \/ DetectorGivesUp \/ Completion
  PROVE  TransientStateHasOwner'
<1> USE DEF TransientStateHasOwner, PoweringOn, stateVars, biosVars,
        httpVars, TimerStep, TimerGoes, SetPc, SetOs
<1>1. CASE DetectorDecides
  BY <1>1 DEF DetectorDecides
<1>2. CASE DetectorGivesUp
  BY <1>2 DEF DetectorGivesUp
<1>3. CASE DetectorCalls
  BY <1>3 DEF DetectorCalls
<1>4. CASE PostComplete
  BY <1>4 DEF PostComplete
<1>5. CASE SelectingOs
  BY <1>5 DEF SelectingOs
<1>6. CASE SelectOs
  BY <1>6 DEF SelectOs
<1>7. CASE SelectionFails
  BY <1>7 DEF SelectionFails
<1>8. CASE CallbackStops
  BY <1>8 DEF CallbackStops
<1>9. CASE CallbackOnline
  BY <1>9 DEF CallbackOnline
<1>10. CASE CallbackReports
  BY <1>10 DEF CallbackReports
<1> QED
  BY <1>1, <1>2, <1>3, <1>4, <1>5, <1>6, <1>7, <1>8, <1>9, <1>10 DEF
     Completion

\* The sync and the link touch no transient state's owner.
LEMMA OthersKeepOwners ==
  ASSUME TypeOK, TransientStateHasOwner,
         \/ Sync \/ LinkEvent \/ DetectorSees \/ DetectorUpdates
         \/ UNCHANGED vars
  PROVE  TransientStateHasOwner'
<1> USE DEF TransientStateHasOwner, PoweringOn, biosVars, httpVars
<1>1. CASE Sync
  BY <1>1 DEF Sync, SyncStep, SyncSamples, SyncChecks, SyncWritesPc,
              SyncForgetsOs, FoundOnline, FoundOffline, FoundSuspended,
              FoundInSync
<1>2. CASE LinkEvent
  BY <1>2 DEF LinkEvent, LinkChanges
<1>3. CASE DetectorSees \/ DetectorUpdates
  BY <1>3 DEF DetectorSees, DetectorUpdates, syncVars
<1>4. CASE UNCHANGED vars
  BY <1>4 DEF vars, syncVars
<1> QED
  BY <1>1, <1>2, <1>3, <1>4

\* No interleaving of requests, failed selection or missing keyboard leaves
\* the PC in POWERING_ON, SELECTING_OS or SHUTTING_DOWN with nobody left to
\* replace it, but for a BIOS boot that created no task of its own.
THEOREM NoOrphanedState == Spec => []TransientStateHasOwner
<1>1. Init => TransientStateHasOwner
  BY DEF Init, SyncInit, TransientStateHasOwner
<1>2. /\ TypeOK /\ HttpdIsInItsRequest
      /\ TransientStateHasOwner /\ [Next]_vars
      => TransientStateHasOwner'
  BY HttpdKeepsOwners, BiosKeepsOwners, CompletionKeepsOwners, OthersKeepOwners
     DEF Next
<1> QED
  BY <1>1, <1>2, TypesAndPlaces, PTL DEF Spec

-----------------------------------------------------------------------------
(* What an accepted request replaces *)

\* boot_manager.c:141-149: boot and shutdown look at the state and set it in two
\* critical sections, and the other tasks may change it in between; but what they
\* then replace is never a request that is under way or that a BIOS task is about
\* to serve: for those the second critical section is as good as the first.
ReplacesNoRequest ==
  [][Announce /\ call \in {"boot", "shutdown"} =>
       pcState \notin {"POWERING_ON", "SHUTTING_DOWN"}]_vars

\* POWERING_ON and SHUTTING_DOWN come from Announce alone.
AcceptedBeforeRequests ==
  call \in {"boot", "shutdown"} /\ at \in {"remember", "announce"} =>
    pcState \notin {"POWERING_ON", "SHUTTING_DOWN"}

LEMMA HttpdKeepsAccepted ==
  ASSUME HttpdIsInItsRequest, AcceptedBeforeRequests, Request \/ Serve
  PROVE  AcceptedBeforeRequests'
<1> USE DEF AcceptedBeforeRequests, stateVars, Goto, Respond, SetPc, SetOs
<1>1. CASE Request  BY <1>1 DEF Request, Calls
<1>2. CASE Check  BY <1>2 DEF Check
<1>3. CASE Remember  BY <1>3 DEF Remember
<1>4. CASE ForceOffStops  BY <1>4 DEF ForceOffStops, HttpdIsInItsRequest
<1>5. CASE at' \notin {"remember", "announce"}  BY <1>5
<1>6. CASE Announce \/ Press \/ Release \/ Launch \/ StartDetector \/ Publish \/ Off \/ Forget
  BY <1>5, <1>6 DEF Announce, Press, Release, Launch, StartDetector, Publish, Off,
                    Forget, HttpdIsInItsRequest
<1> QED BY <1>1, <1>2, <1>3, <1>4, <1>6 DEF Serve

LEMMA OthersRequestNothing ==
  ASSUME [Next]_vars, ~Request, ~Serve
  PROVE  pcState' = pcState \/ pcState' \notin {"POWERING_ON", "SHUTTING_DOWN"}
<1>1. ASSUME NEW t \in Tasks, BiosEntry(t)
      PROVE  pcState' = pcState \/ pcState' \notin {"POWERING_ON", "SHUTTING_DOWN"}
  BY <1>1 DEF BiosEntry, BiosBegins, BiosSpams, BiosOnline, BiosForgetsOs,
              BiosClears, SetPc, SetOs, stateVars
<1>2. CASE DetectorDecides \/ DetectorGivesUp \/ Completion
  BY <1>2 DEF DetectorDecides, DetectorGivesUp, Completion, DetectorCalls,
              PostComplete, SelectingOs, SelectOs, SelectionFails,
              CallbackStops, CallbackOnline, CallbackReports, SetPc, SetOs, stateVars
<1>3. CASE Sync
  BY <1>3 DEF Sync, SyncStep, SyncSamples, SyncChecks, SyncWritesPc, SyncForgetsOs
<1>4. CASE LinkEvent \/ DetectorSees \/ DetectorUpdates \/ UNCHANGED vars
  BY <1>4 DEF LinkEvent, LinkChanges, DetectorSees, DetectorUpdates, syncVars, vars
<1> QED BY <1>1, <1>2, <1>3, <1>4 DEF Next

\* Between the test and the announcement the sync may have found the PC ONLINE, or
\* a callback or a BIOS task may have moved on; no request is lost in that.
THEOREM AcceptedReplacesNoRequest == Spec => ReplacesNoRequest
<1>1. Init => AcceptedBeforeRequests
  BY DEF Init, AcceptedBeforeRequests
<1>2. HttpdIsInItsRequest /\ AcceptedBeforeRequests /\ [Next]_vars
        => AcceptedBeforeRequests'
  <2> SUFFICES ASSUME HttpdIsInItsRequest, AcceptedBeforeRequests, [Next]_vars,
                      ~Request, ~Serve
               PROVE  AcceptedBeforeRequests'
    BY HttpdKeepsAccepted
  <2>1. UNCHANGED <<call, at>>  BY OthersLeaveHttpd DEF httpVars
  <2> QED BY <2>1, OthersRequestNothing DEF AcceptedBeforeRequests
<1>3. AcceptedBeforeRequests /\ [Next]_vars =>
        [Announce /\ call \in {"boot", "shutdown"} =>
           pcState \notin {"POWERING_ON", "SHUTTING_DOWN"}]_vars
  BY DEF AcceptedBeforeRequests, Announce
<1> QED BY <1>1, <1>2, <1>3, TypesAndPlaces, PTL DEF Spec, ReplacesNoRequest
-----------------------------------------------------------------------------
(* The detector, as the boot manager uses it *)

\* The esp_timer task is in on_post_complete, or about to call it, exactly when
\* the detector takes it to be: no step of the callback waits for the detector.
CallbackIsTheTimers ==
  /\ callback = "decided" <=> timer = "decided"
  /\ callback = "running" <=> timer \in CallbackLabels \ {"decided"}

LEMMA CompletionKeepsCallback ==
  ASSUME CallbackIsTheTimers, DetectorDecides \/ DetectorGivesUp \/ Completion
  PROVE  CallbackIsTheTimers'
<1> USE DEF CallbackIsTheTimers, CallbackLabels, TimerGoes, detVars
<1>1. CASE DetectorDecides  BY <1>1 DEF DetectorDecides, Detector!Decide
<1>2. CASE DetectorGivesUp  BY <1>2 DEF DetectorGivesUp, Detector!GiveUp
<1>3. CASE DetectorCalls  BY <1>3 DEF DetectorCalls, Detector!Call
<1>4. CASE PostComplete  BY <1>4 DEF PostComplete
<1>5. CASE SelectingOs  BY <1>5 DEF SelectingOs
<1>6. CASE SelectOs  BY <1>6 DEF SelectOs
<1>7. CASE SelectionFails  BY <1>7 DEF SelectionFails, Detector!Return
<1>8. CASE CallbackStops  BY <1>8 DEF CallbackStops, Detector!Stop
<1>9. CASE CallbackOnline  BY <1>9 DEF CallbackOnline
<1>10. CASE CallbackReports  BY <1>10 DEF CallbackReports, Detector!Return
<1> QED
  BY <1>1, <1>2, <1>3, <1>4, <1>5, <1>6, <1>7, <1>8, <1>9, <1>10 DEF Completion

LEMMA SyncIsNoCallback ==
  ASSUME Sync
  PROVE  /\ timer \in SyncLabels \cup {"idle"} /\ timer' \in SyncLabels \cup {"idle"}
         /\ UNCHANGED callback
  BY DEF Sync, SyncStep, SyncSamples, SyncChecks, SyncWritesPc, SyncForgetsOs,
         FoundOnline, FoundOffline, FoundSuspended, FoundInSync, SyncLabels, detVars

LEMMA OthersKeepCallback ==
  ASSUME CallbackIsTheTimers, [Next]_vars,
         ~(DetectorDecides \/ DetectorGivesUp \/ Completion)
  PROVE  CallbackIsTheTimers'
<1>1. CASE Sync
  BY <1>1, SyncIsNoCallback DEF CallbackIsTheTimers, SyncLabels, CallbackLabels
<1>2. CASE ~Sync
  <2>1. ASSUME Request \/ Serve PROVE UNCHANGED <<timer, callback>>
    BY <2>1 DEF Request, Serve, Check, Remember, ForceOffStops, Announce, Press,
                Release, Launch, StartDetector, Publish, Off, Forget, HttpdStep,
                detVars, Detector!Start, Detector!Stop
  <2>2. ASSUME NEW t \in Tasks, BiosEntry(t) PROVE UNCHANGED <<timer, callback>>
    BY <2>2 DEF BiosEntry, BiosBegins, BiosSpams, BiosOnline, BiosForgetsOs,
                BiosClears, BiosStep, detVars
  <2>3. ASSUME LinkEvent \/ DetectorSees \/ DetectorUpdates \/ UNCHANGED vars
        PROVE  UNCHANGED <<timer, callback>>
    BY <2>3 DEF LinkEvent, LinkChanges, DetectorSees, DetectorUpdates, Detector!See,
                Detector!Update, syncVars, detVars, vars
  <2> QED BY <1>2, <2>1, <2>2, <2>3 DEF Next, CallbackIsTheTimers
<1> QED BY <1>1, <1>2

LEMMA EachStepIsOneOfTheDetector ==
  ASSUME [Next]_vars
  PROVE  [Detector!Next]_(Detector!detVars)
<1> USE DEF Detector!Next, Detector!detVars, detVars
<1>1. CASE Request \/ Serve
  BY <1>1 DEF Request, Serve, Check, Remember, ForceOffStops, Announce, Press,
              Release, Launch, StartDetector, Publish, Off, Forget
<1>2. CASE \E t \in Tasks : BiosEntry(t)
  BY <1>2 DEF BiosEntry, BiosBegins, BiosSpams, BiosOnline, BiosForgetsOs,
              BiosClears, BiosStep
<1>3. CASE DetectorDecides \/ DetectorGivesUp \/ Completion
  BY <1>3 DEF DetectorDecides, DetectorGivesUp, Completion, DetectorCalls,
              PostComplete, SelectingOs, SelectOs, SelectionFails,
              CallbackStops, CallbackOnline, CallbackReports
<1>4. CASE Sync \/ LinkEvent \/ DetectorSees \/ DetectorUpdates \/ UNCHANGED vars
  BY <1>4 DEF Sync, LinkEvent, DetectorSees, DetectorUpdates, vars
<1> QED BY <1>1, <1>2, <1>3, <1>4 DEF Next

\* The boot manager asks of its detector what IPostDetector allows, whichever
\* requests overlap with a callback, and its callback is never called while it
\* runs: with the detectors' proofs that they implement IPostDetector, what is
\* proved here does not depend on which detector is built.
THEOREM UsesDetectorAsAllowed == Spec => Detector!Spec /\ []CallbackIsTheTimers
<1>1. Init => Detector!Init /\ CallbackIsTheTimers
  BY DEF Init, SyncInit, Detector!Init, CallbackIsTheTimers, CallbackLabels
<1>2. CallbackIsTheTimers /\ [Next]_vars => CallbackIsTheTimers'
  BY CompletionKeepsCallback, OthersKeepCallback
<1> QED
  BY <1>1, <1>2, EachStepIsOneOfTheDetector, PTL DEF Spec, Detector!Spec
-----------------------------------------------------------------------------
(* The sync, among the tasks of the boot flow *)

\* What UsbSync knows of the esp_timer task: not when it serves the detector.
SyncTimer == IF timer \in SyncLabels THEN timer ELSE "idle"

SyncPart == INSTANCE UsbSync WITH timer <- SyncTimer

SyncSafety == SyncPart!SyncInit /\ [][SyncPart!SyncNext]_(SyncPart!syncVars)

LEMMA SyncStepIsSyncs ==
  ASSUME Sync
  PROVE  SyncPart!SyncStep
<1>1. SyncTimer = timer /\ SyncTimer' = timer'
  BY SyncIsNoCallback DEF SyncTimer
<1>2. CASE SyncSamples
  BY <1>1, <1>2 DEF SyncSamples, SyncPart!SyncStep, SyncPart!SyncSamples
<1>3. CASE SyncChecks
  BY <1>1, <1>3
  DEF SyncChecks, FoundOnline, FoundOffline, FoundSuspended, FoundInSync,
      SyncPart!SyncStep, SyncPart!SyncChecks, SyncPart!FoundOnline,
      SyncPart!FoundOffline, SyncPart!FoundSuspended, SyncPart!FoundInSync
<1>4. CASE SyncWritesPc
  BY <1>1, <1>4 DEF SyncWritesPc, SyncPart!SyncStep, SyncPart!SyncWritesPc
<1>5. CASE SyncForgetsOs
  BY <1>1, <1>5 DEF SyncForgetsOs, SyncPart!SyncStep, SyncPart!SyncForgetsOs
<1> QED BY <1>2, <1>3, <1>4, <1>5 DEF Sync, SyncStep

\* To the sync, every other task only writes the state.
LEMMA OthersOnlyWrite ==
  ASSUME TypeOK', [Next]_vars, ~Sync, ~LinkEvent
  PROVE  SyncPart!OthersWrite
<1>1. pcState' \in PcStates /\ osBooted' \in BootedOses  BY DEF TypeOK
<1>2. UNCHANGED <<link, debounce, SyncTimer>>
  <2>1. ASSUME Request \/ Serve PROVE UNCHANGED <<link, debounce, timer>>
    BY <2>1 DEF Request, Serve, Check, Remember, ForceOffStops, Announce, Press,
                Release, Launch, StartDetector, Publish, Off, Forget, HttpdStep
  <2>2. ASSUME NEW t \in Tasks, BiosEntry(t) PROVE UNCHANGED <<link, debounce, timer>>
    BY <2>2 DEF BiosEntry, BiosBegins, BiosSpams, BiosOnline, BiosForgetsOs,
                BiosClears, BiosStep
  <2>3. ASSUME DetectorSees \/ DetectorUpdates \/ UNCHANGED vars
        PROVE  UNCHANGED <<link, debounce, timer>>
    BY <2>3 DEF DetectorSees, DetectorUpdates, syncVars, vars
  <2>4. ASSUME DetectorDecides \/ DetectorGivesUp \/ Completion
        PROVE  UNCHANGED <<link, debounce, SyncTimer>>
    BY <2>4 DEF DetectorDecides, DetectorGivesUp, Completion, DetectorCalls,
                PostComplete, SelectingOs, SelectOs, SelectionFails, CallbackStops,
                CallbackOnline, CallbackReports, TimerStep, TimerGoes, SyncTimer,
                SyncLabels
  <2> QED BY <2>1, <2>2, <2>3, <2>4 DEF Next, SyncTimer
<1> QED
  BY <1>1, <1>2
  DEF SyncPart!OthersWrite, SyncPart!PcStates, SyncPart!BootedOses, PcStates, BootedOses

\* usb_sync_timer_cb does within the boot flow what UsbSync says it does among
\* tasks that write anything: what UsbSync keeps, the boot flow keeps.
THEOREM ImplementsSync == Spec => SyncSafety
<1>1. Init => SyncPart!SyncInit
  BY DEF Init, SyncInit, SyncPart!SyncInit, SyncTimer, SyncLabels
<1>2. TypeOK' /\ [Next]_vars => [SyncPart!SyncNext]_(SyncPart!syncVars)
  <2>1. ASSUME LinkEvent PROVE SyncPart!LinkChanges
    BY <2>1 DEF LinkEvent, LinkChanges, SyncPart!LinkChanges, SyncTimer
  <2> QED BY <2>1, SyncStepIsSyncs, OthersOnlyWrite DEF SyncPart!SyncNext
<1> QED BY <1>1, <1>2, TypeCorrect, PTL DEF Spec, SyncSafety
=============================================================================
