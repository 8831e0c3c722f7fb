-------------------------------- MODULE Ota --------------------------------
(***************************************************************************)
(* Firmware updates: handler_update and schedule_restart (http_server.c),  *)
(* app/ota_manager.c and the end of app_main, which confirms the image.    *)
(*                                                                         *)
(* The flash, the otadata partition and the bootloader are ESP-IDF's.  They *)
(* are modelled by what this code relies on, with the rollback that         *)
(* sdkconfig.defaults enables: a slot that was set to boot is "new", is     *)
(* "pending" once it was tried, and is given up for the other slot at the   *)
(* next reset unless the application has confirmed it; a slot without a     *)
(* whole image is passed over; esp_ota_begin refuses to erase a slot while  *)
(* the running one is pending.  The power may fail at any step.            *)
(***************************************************************************)
EXTENDS Naturals

CONSTANTS
  Chunks,      \* recv calls that an upload takes
  MaxLosses    \* bound: power failures and panics

ASSUME ChunksAssumption == Chunks \in Nat \ {0}

ASSUME MaxLossesAssumption == MaxLosses \in Nat

Slots == {"ota_0", "ota_1"}

Other(s) == IF s = "ota_0" THEN "ota_1" ELSE "ota_0"

VARIABLES
  image,     \* image[s]: "none" that would boot, a "good" one, or a "bad" one
             \* that starts but fails before app_main is through
  state,     \* state[s]: the esp_ota_img_states_t of slot s
  boot,      \* the slot that otadata selects
  running,   \* the slot that was booted last
  phase,     \* how far it has come
  mutex,     \* s_ota_mutex is taken
  upload,    \* what handler_update does next
  left,      \* remaining, in chunks
  restart,   \* restart_task waits to call esp_restart
  promised,  \* history: "rebooting" was the answer, and no upload followed
  losses     \* bound: power failures so far

flash == <<image, state, boot>>
app == <<running, phase>>
session == <<mutex, upload, left>>
vars == <<flash, app, session, restart, promised, losses>>

Uploads == {"idle", "receive", "end", "set boot", "unlock", "fail", "reply"}

TypeOK ==
  /\ image \in [Slots -> {"none", "good", "bad"}]
  /\ state \in [Slots -> {"undefined", "new", "pending", "valid", "aborted"}]
  /\ boot \in Slots /\ running \in Slots
  /\ phase \in {"off", "starting", "unconfirmed", "ready"}
  /\ mutex \in BOOLEAN /\ upload \in Uploads /\ left \in 0..Chunks
  /\ restart \in BOOLEAN /\ promised \in BOOLEAN
  /\ losses \in 0..MaxLosses

\* As flashed over the serial line: README.md has otadata erased first.
Init ==
  /\ image = [s \in Slots |-> IF s = "ota_0" THEN "good" ELSE "none"]
  /\ state = [s \in Slots |-> "undefined"]
  /\ boot = "ota_0" /\ running = "ota_0" /\ phase = "off"
  /\ mutex = FALSE /\ upload = "idle" /\ left = 0
  /\ restart = FALSE /\ promised = FALSE /\ losses = 0
-----------------------------------------------------------------------------
(* Resets, and the bootloader *)

\* All but the flash is lost.
Reset ==
  /\ phase' = "off"
  /\ mutex' = FALSE /\ upload' = "idle" /\ left' = 0 /\ restart' = FALSE
  /\ UNCHANGED <<flash, running>>

PowerFails ==
  /\ phase # "off" /\ losses < MaxLosses
  /\ losses' = losses + 1
  /\ Reset
  /\ UNCHANGED promised

\* An ESP_ERROR_CHECK of app_main fails, because of the image or of what the
\* image finds (Device), and the panic handler resets.
AppMainPanics ==
  /\ phase = "starting"
  /\ Reset
  /\ UNCHANGED <<promised, losses>>

Restarts ==
  /\ restart
  /\ Reset
  /\ UNCHANGED <<promised, losses>>

Selected == IF state[boot] = "pending" THEN Other(boot) ELSE boot

Boots ==
  /\ phase = "off"
  /\ boot' = Selected
  /\ state' = [s \in Slots |->
       CASE s = boot /\ state[s] = "pending"  -> "aborted"
         [] s = Selected /\ state[s] = "new"  -> "pending"
         [] OTHER                             -> state[s]]
  /\ running' = IF image[Selected] = "none" THEN Other(Selected) ELSE Selected
  /\ image[running'] # "none"
  /\ phase' = "starting"
  /\ promised' = FALSE
  /\ UNCHANGED <<image, session, restart, losses>>
-----------------------------------------------------------------------------
(* app_main *)

\* Mutant: the image is confirmed before the network and the server are up.
ConfirmsFirst ==
  /\ phase = "starting"
  /\ state' = [state EXCEPT ![running] = IF @ = "pending" THEN "valid" ELSE @]
  /\ phase' = IF image[running] = "bad" THEN phase ELSE "unconfirmed"
  /\ UNCHANGED <<image, boot, running, session, restart, promised, losses>>

\* Everything up to http_server_start.
StartsServer ==
  /\ phase = "starting" /\ image[running] # "bad"
  /\ phase' = "unconfirmed"
  /\ UNCHANGED <<flash, running, session, restart, promised, losses>>

\* ota_manager_mark_running_app_valid; an error is logged and no more.
Confirms ==
  /\ phase = "unconfirmed"
  /\ phase' = "ready"
  /\ \/ state' = [state EXCEPT ![running] = IF @ = "pending" THEN "valid" ELSE @]
     \/ state[running] = "pending" /\ UNCHANGED state
  /\ UNCHANGED <<image, boot, running, session, restart, promised, losses>>
-----------------------------------------------------------------------------
(* handler_update, in the HTTP task *)

NextSlot == Other(running)

Serving(from) ==
  /\ phase \in {"unconfirmed", "ready"} /\ upload = from
  /\ UNCHANGED <<app, losses>>

\* ota_manager_begin: the answer is ota_busy, or ota_pending_verify with the
\* mutex given back ...
Refuses ==
  /\ Serving("idle")
  /\ mutex \/ state[running] = "pending"
  /\ UNCHANGED <<flash, session, restart, promised>>

\* ... or the session begins with the mutex taken, unless erasing fails.
Begins ==
  /\ Serving("idle")
  /\ ~mutex /\ state[running] # "pending"
  /\ image' = [image EXCEPT ![NextSlot] = "none"]
  /\ promised' = FALSE
  /\ \/ mutex' = TRUE /\ upload' = "receive" /\ left' = Chunks
     \/ UNCHANGED session
  /\ UNCHANGED <<state, boot, restart>>

\* Mutant: the loop runs once more.
MoreToReceiveByOne == left >= 0

MoreToReceive == left > 0

\* One httpd_req_recv and ota_manager_write; a timeout only repeats the call.
Receives ==
  /\ Serving("receive")
  /\ \/ MoreToReceive /\ left' = left - 1 /\ UNCHANGED upload
     \/ MoreToReceive /\ upload' = "fail" /\ UNCHANGED left
     \/ ~MoreToReceive /\ upload' = "end" /\ UNCHANGED left
  /\ UNCHANGED <<flash, mutex, restart, promised>>

\* Mutant: an interrupted upload keeps the mutex.
AbortKeepsMutex ==
  /\ Serving("fail")
  /\ upload' = "idle" /\ left' = 0
  /\ UNCHANGED <<flash, mutex, restart, promised>>

\* Mutant: an interrupted upload is waited for again.
AbortStartsOver ==
  /\ Serving("fail")
  /\ upload' = "receive" /\ left' = Chunks
  /\ UNCHANGED <<flash, mutex, restart, promised>>

\* ota_manager_abort, and the answer.
Aborts ==
  /\ Serving("fail")
  /\ mutex' = FALSE /\ upload' = "idle" /\ left' = 0
  /\ UNCHANGED <<flash, restart, promised>>

\* ota_manager_finish: esp_ota_end finds the image whole or not ...
Ends ==
  /\ Serving("end")
  /\ \/ \E i \in {"good", "bad"} :
          image' = [image EXCEPT ![NextSlot] = i] /\ upload' = "set boot"
     \/ upload' = "fail" /\ UNCHANGED image
  /\ UNCHANGED <<state, boot, mutex, left, restart, promised>>

\* Mutant: otadata is not updated.
SetsNoBoot ==
  /\ Serving("set boot")
  /\ upload' = "unlock"
  /\ UNCHANGED <<flash, mutex, left, restart, promised>>

\* ... esp_ota_set_boot_partition succeeds or not ...
SetsBoot ==
  /\ Serving("set boot")
  /\ \/ /\ boot' = NextSlot /\ state' = [state EXCEPT ![NextSlot] = "new"]
        /\ upload' = "unlock"
     \/ upload' = "fail" /\ UNCHANGED <<boot, state>>
  /\ UNCHANGED <<image, mutex, left, restart, promised>>

\* ... and the mutex is given back, as it is after an error (Aborts).
Unlocks ==
  /\ Serving("unlock")
  /\ mutex' = FALSE /\ upload' = "reply" /\ left' = 0
  /\ UNCHANGED <<flash, restart, promised>>

\* The answer.  schedule_restart follows if it was sent, and does not look
\* whether xTaskCreate worked.
Replies ==
  /\ Serving("reply")
  /\ upload' = "idle"
  /\ \/ promised' = TRUE /\ restart' \in {TRUE, restart}
     \/ UNCHANGED <<promised, restart>>
  /\ UNCHANGED <<flash, mutex, left>>

Upload ==
  \/ Refuses \/ Begins \/ Receives \/ Aborts \/ Ends \/ SetsBoot \/ Unlocks
  \/ Replies
-----------------------------------------------------------------------------
Next ==
  \/ Boots \/ StartsServer \/ Confirms \/ AppMainPanics \/ PowerFails
  \/ Restarts \/ Upload

Spec == Init /\ [][Next]_vars
-----------------------------------------------------------------------------
\* README.md:15 (dual-partition OTA with rollback protection): whatever image
\* was uploaded and wherever the power failed, if the slot that boots next does
\* not hold a good image, then it is not confirmed and the other slot is good.
GoodImageIsReachable ==
  image[boot] # "good" => state[boot] # "valid" /\ image[Other(boot)] = "good"

\* Every way out of an upload gives s_ota_mutex back: no failed upload makes
\* the device answer ota_busy from then on.
UploadsCanBegin == upload = "idle" => ~mutex

\* The device that answered "uploaded, rebooting" boots the image that it was
\* sent, even if the power fails first, unless another upload was begun.
UploadedImageBoots ==
  [][Boots /\ promised => running' = Other(running) /\ running' = boot]_vars
=============================================================================
