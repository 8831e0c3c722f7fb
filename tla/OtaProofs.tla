----------------------------- MODULE OtaProofs -----------------------------
(***************************************************************************)
(* Theorems about Ota, for uploads of any length and any number of power    *)
(* failures.                                                               *)
(*                                                                         *)
(* GoodImageIsReachable is not inductive: that the other slot is good when  *)
(* the selected one is not depends on which slot an upload may erase, and   *)
(* that on which images are still on trial.  OnTrial, RunningIsGood and     *)
(* UploadIsServed say so.                                                   *)
(***************************************************************************)
EXTENDS Ota, TLAPS

Up == phase \in {"unconfirmed", "ready"}

\* Only the selected slot is on trial, and while it is, the other one is good;
\* a new image that runs is a pending one.
OnTrial ==
  /\ state[boot] \in {"new", "pending"} => image[Other(boot)] = "good"
  /\ state[Other(boot)] \notin {"new", "pending"}
  /\ phase # "off" /\ boot = running => state[boot] # "new"

\* What runs is an image, a good one if it served, and it is the selected one
\* unless that was never confirmed.
RunningIsGood ==
  /\ phase # "off" => image[running] # "none"
  /\ Up => image[running] = "good"
  /\ phase # "off" /\ boot # running => state[boot] # "valid"

\* An upload needs the server and a running image that is not on trial.
UploadIsServed ==
  /\ upload # "idle" => Up
  /\ upload \notin {"idle", "reply"} => state[running] # "pending"

RollbackInv == GoodImageIsReachable /\ OnTrial /\ RunningIsGood /\ UploadIsServed

LEMMA OtherSlot ==
  ASSUME NEW s \in Slots
  PROVE  /\ Other(s) \in Slots /\ Other(s) # s /\ Other(Other(s)) = s
         /\ \A t \in Slots : t # s => t = Other(s)
  BY DEF Slots, Other

-----------------------------------------------------------------------------
(* Types *)

Flags == mutex \in BOOLEAN /\ restart \in BOOLEAN /\ promised \in BOOLEAN

LEMMA FlagsAreKept ==
  ASSUME Flags, Next
  PROVE  Flags'
<1> USE DEF Flags, flash, app, session, Serving
<1>1. CASE Boots  BY <1>1 DEF Boots
<1>2. CASE StartsServer \/ Confirms  BY <1>2 DEF StartsServer, Confirms
<1>3. CASE AppMainPanics \/ PowerFails \/ Restarts
  BY <1>3 DEF AppMainPanics, PowerFails, Restarts, Reset
<1>4. CASE Refuses \/ Begins  BY <1>4 DEF Refuses, Begins
<1>5. CASE Receives \/ Aborts \/ Unlocks
  BY <1>5 DEF Receives, Aborts, Unlocks
<1>6. CASE Ends \/ SetsBoot  BY <1>6 DEF Ends, SetsBoot
<1>7. CASE Replies  BY <1>7 DEF Replies
<1> QED
  BY <1>1, <1>2, <1>3, <1>4, <1>5, <1>6, <1>7 DEF Next, Upload

\* Types are kept by the bootloader, app_main and the resets.
LEMMA DeviceKeepsTypes ==
  ASSUME TypeOK,
         Boots \/ StartsServer \/ Confirms \/ AppMainPanics \/ PowerFails
           \/ Restarts
  PROVE  TypeOK'
<1>a. Flags'  BY FlagsAreKept DEF TypeOK, Flags, Next
<1>b. 0 \in 0..Chunks  BY ChunksAssumption
<1>c. losses < MaxLosses => losses + 1 \in 0..MaxLosses
  BY MaxLossesAssumption DEF TypeOK
<1> USE <1>a, <1>b, <1>c DEF TypeOK, Flags, flash, app, session
<1>1. CASE Boots
  <2>1. Selected \in Slots /\ Other(Selected) \in Slots
    BY OtherSlot DEF Selected
  <2> QED BY <1>1, <2>1 DEF Boots
<1>2. CASE StartsServer  BY <1>2 DEF StartsServer
<1>3. CASE Confirms  BY <1>3 DEF Confirms
<1>4. CASE AppMainPanics  BY <1>4 DEF AppMainPanics, Reset, Uploads
<1>5. CASE PowerFails  BY <1>5 DEF PowerFails, Reset, Uploads
<1>6. CASE Restarts  BY <1>6 DEF Restarts, Reset, Uploads
<1> QED BY <1>1, <1>2, <1>3, <1>4, <1>5, <1>6

\* Types are kept by handler_update.
LEMMA UploadKeepsTypes ==
  ASSUME TypeOK, Upload
  PROVE  TypeOK'
<1>a. Flags'  BY FlagsAreKept DEF TypeOK, Flags, Next
<1>b. 0 \in 0..Chunks /\ Chunks \in 0..Chunks  BY ChunksAssumption
<1>c. left > 0 => left - 1 \in 0..Chunks  BY ChunksAssumption DEF TypeOK
<1> USE <1>a, <1>b, <1>c
        DEF TypeOK, Flags, flash, app, session, Serving, Uploads
<1>0. NextSlot \in Slots  BY OtherSlot DEF NextSlot
<1>1. CASE Refuses  BY <1>1 DEF Refuses
<1>2. CASE Begins  BY <1>0, <1>2 DEF Begins
<1>3. CASE Receives  BY <1>3 DEF Receives, MoreToReceive
<1>4. CASE Aborts  BY <1>4 DEF Aborts
<1>5. CASE Ends  BY <1>0, <1>5 DEF Ends
<1>6. CASE SetsBoot  BY <1>0, <1>6 DEF SetsBoot
<1>7. CASE Unlocks  BY <1>7 DEF Unlocks
<1>8. CASE Replies  BY <1>8 DEF Replies
<1> QED
  BY <1>1, <1>2, <1>3, <1>4, <1>5, <1>6, <1>7, <1>8 DEF Upload

\* Every variable of the updates keeps its type: in particular the loop of
\* handler_update never takes remaining below 0.
THEOREM TypeCorrect == Spec => []TypeOK
<1>1. Init => TypeOK
  <2>1. Init => Flags
    BY DEF Init, Flags
  <2> QED
    BY <2>1, ChunksAssumption, MaxLossesAssumption
    DEF Init, TypeOK, Flags, Slots, Uploads
<1>2. TypeOK /\ [Next]_vars => TypeOK'
  <2> SUFFICES ASSUME TypeOK, [Next]_vars PROVE TypeOK'
    OBVIOUS
  <2>1. CASE UNCHANGED vars
    BY <2>1 DEF TypeOK, vars, flash, app, session
  <2> QED BY <2>1, DeviceKeepsTypes, UploadKeepsTypes DEF Next
<1> QED BY <1>1, <1>2, PTL DEF Spec
-----------------------------------------------------------------------------
(* The mutex *)

\* handler_update is through with the session when it answers.
MutexIsHeld == upload \in {"idle", "reply"} => ~mutex

\* Whatever becomes of an upload, s_ota_mutex is free when it is over.
THEOREM NoUploadBlocksTheNext == Spec => []UploadsCanBegin
<1>1. Init => MutexIsHeld
  BY DEF Init, MutexIsHeld
<1>2. TypeOK /\ MutexIsHeld /\ [Next]_vars => MutexIsHeld'
  <2> SUFFICES ASSUME TypeOK, MutexIsHeld, [Next]_vars PROVE MutexIsHeld'
    OBVIOUS
  <2> USE DEF MutexIsHeld, flash, app, session, Serving
  <2>1. CASE Upload
    BY <2>1 DEF Upload, Refuses, Begins, Receives, Aborts, Ends, SetsBoot,
                Unlocks, Replies
  <2>2. CASE Boots \/ StartsServer \/ Confirms
    BY <2>2 DEF Boots, StartsServer, Confirms
  <2>3. CASE AppMainPanics \/ PowerFails \/ Restarts
    BY <2>3 DEF AppMainPanics, PowerFails, Restarts, Reset
  <2>4. CASE UNCHANGED vars
    BY <2>4 DEF vars
  <2> QED BY <2>1, <2>2, <2>3, <2>4 DEF Next
<1>3. MutexIsHeld => UploadsCanBegin
  BY DEF MutexIsHeld, UploadsCanBegin
<1> QED BY <1>1, <1>2, <1>3, TypeCorrect, PTL DEF Spec
-----------------------------------------------------------------------------
(* Rollback *)

\* The bootloader moves an image from new to pending to aborted, and leaves the
\* slot that it gives up for one that is not on trial.
LEMMA BootsKeepsRollback ==
  ASSUME TypeOK, RollbackInv, Boots
  PROVE  RollbackInv'
<1> USE OtherSlot DEF RollbackInv, TypeOK, flash, app, session, Boots, Selected
<1>1. upload' = "idle" /\ phase' = "starting" /\ image' = image
  BY DEF UploadIsServed, Up
<1>2. CASE state[boot] = "pending"
  <2>1. boot' = Other(boot) /\ boot' # boot /\ image[boot'] = "good"
    BY <1>2 DEF OnTrial
  <2>2. running' = boot'
    BY <1>2, <2>1
  <2>3. state'[boot] = "aborted" /\ state'[boot'] = state[boot']
    BY <1>2, <2>1 DEF OnTrial
  <2>4. state[boot'] \notin {"new", "pending"} /\ Other(boot') = boot
    BY <2>1 DEF OnTrial
  <2> QED
    BY <1>1, <2>1, <2>2, <2>3, <2>4
    DEF GoodImageIsReachable, OnTrial, RunningIsGood, UploadIsServed, Up
<1>3. CASE state[boot] # "pending"
  <2>1. boot' = boot
    BY <1>3
  <2>2. state'[boot] = IF state[boot] = "new" THEN "pending" ELSE state[boot]
    BY <1>3
  <2>3. state'[Other(boot)] = state[Other(boot)]
    BY <1>3
  <2>4. running' # boot => image[boot] = "none" /\ running' = Other(boot)
    BY <1>3
  <2>5. image[running'] # "none"
    OBVIOUS
  <2> QED
    BY <1>1, <2>1, <2>2, <2>3, <2>4, <2>5
    DEF GoodImageIsReachable, OnTrial, RunningIsGood, UploadIsServed, Up
<1> QED BY <1>2, <1>3

\* app_main confirms the image that runs, which then served.
LEMMA AppKeepsRollback ==
  ASSUME TypeOK, RollbackInv, StartsServer \/ Confirms
  PROVE  RollbackInv'
<1> USE OtherSlot DEF RollbackInv, TypeOK, flash, app, session
<1>1. CASE StartsServer
  BY <1>1 DEF StartsServer, GoodImageIsReachable, OnTrial, RunningIsGood,
              UploadIsServed, Up
<1>2. CASE Confirms
  <2>1. image[running] = "good" /\ image' = image /\ boot' = boot
        /\ running' = running /\ upload' = upload /\ phase' = "ready"
    BY <1>2 DEF Confirms, RunningIsGood, Up
  <2>2. state'[running] \in {state[running], "valid"}
        /\ state'[Other(running)] = state[Other(running)]
    BY <1>2 DEF Confirms
  <2>3. CASE boot = running
    BY <1>2, <2>1, <2>2, <2>3
    DEF Confirms, GoodImageIsReachable, OnTrial, RunningIsGood, UploadIsServed,
        Up
  <2>4. CASE boot = Other(running)
    BY <1>2, <2>1, <2>2, <2>4
    DEF Confirms, GoodImageIsReachable, OnTrial, RunningIsGood, UploadIsServed,
        Up
  <2> QED BY <2>3, <2>4
<1> QED BY <1>1, <1>2

\* A reset leaves the flash alone.
LEMMA ResetKeepsRollback ==
  ASSUME TypeOK, RollbackInv, Reset
  PROVE  RollbackInv'
  BY DEF TypeOK, RollbackInv, Reset, flash, GoodImageIsReachable, OnTrial,
         RunningIsGood, UploadIsServed, Up

\* An upload erases and writes the slot that does not run, when the running
\* image is confirmed.
LEMMA WritingKeepsRollback ==
  ASSUME TypeOK, RollbackInv, Up, Up', state[running] # "pending",
         NEW i \in {"none", "good", "bad"},
         image' = [image EXCEPT ![NextSlot] = i],
         UNCHANGED <<state, boot, running>>
  PROVE  RollbackInv'
<1> USE OtherSlot DEF RollbackInv, TypeOK, NextSlot, Up
<1>1. image[running] = "good" /\ image'[running] = "good" /\ phase # "off"
  BY DEF RunningIsGood
<1>2. CASE boot = running
  BY <1>1, <1>2 DEF GoodImageIsReachable, OnTrial, RunningIsGood, UploadIsServed
<1>3. CASE boot = Other(running)
  BY <1>1, <1>3 DEF GoodImageIsReachable, OnTrial, RunningIsGood, UploadIsServed
<1> QED BY <1>2, <1>3

\* Setting the slot to boot puts its image on trial with the running one
\* behind it.
LEMMA SettingKeepsRollback ==
  ASSUME TypeOK, RollbackInv, SetsBoot
  PROVE  RollbackInv'
<1> USE OtherSlot DEF RollbackInv, TypeOK, NextSlot, Serving, flash, app, Up
<1>1. CASE UNCHANGED <<boot, state>>
  BY <1>1 DEF SetsBoot, GoodImageIsReachable, OnTrial, RunningIsGood,
              UploadIsServed
<1>2. CASE boot' = NextSlot /\ state' = [state EXCEPT ![NextSlot] = "new"]
  <2>1. image' = image /\ running' = running /\ phase' = phase
        /\ image[running] = "good" /\ boot' = Other(running)
        /\ Other(boot') = running /\ phase # "off"
    BY <1>2 DEF SetsBoot, RunningIsGood
  <2>2. state'[boot'] = "new" /\ state'[running] = state[running]
    BY <1>2, <2>1
  <2>3. state[running] \notin {"new", "pending"}
    BY <2>1 DEF SetsBoot, OnTrial, UploadIsServed
  <2> QED
    BY <2>1, <2>2, <2>3
    DEF SetsBoot, GoodImageIsReachable, OnTrial, RunningIsGood, UploadIsServed
<1> QED BY <1>1, <1>2 DEF SetsBoot

LEMMA UploadKeepsRollback ==
  ASSUME TypeOK, RollbackInv, Upload
  PROVE  RollbackInv'
<1>1. CASE Begins
  BY <1>1, WritingKeepsRollback DEF Begins, Serving, app, Up
<1>2. CASE Ends
  <2>1. state[running] # "pending" /\ Up /\ Up' /\ UNCHANGED <<state, boot, running>>
    BY <1>2 DEF Ends, Serving, app, Up, RollbackInv, UploadIsServed
  <2>2. CASE UNCHANGED image
    BY <1>2, <2>1, <2>2 DEF Ends, Serving, app, Up, TypeOK, RollbackInv,
       GoodImageIsReachable, OnTrial, RunningIsGood, UploadIsServed
  <2>3. CASE \E i \in {"good", "bad"} : image' = [image EXCEPT ![NextSlot] = i]
    BY <2>1, <2>3, WritingKeepsRollback
  <2> QED BY <1>2, <2>2, <2>3 DEF Ends
<1>3. CASE SetsBoot
  BY <1>3, SettingKeepsRollback
<1>4. CASE Refuses \/ Receives \/ Aborts \/ Unlocks \/ Replies
  BY <1>4 DEF Refuses, Receives, Aborts, Unlocks, Replies, Serving, flash, app,
     session, Up, TypeOK, RollbackInv, GoodImageIsReachable, OnTrial,
     RunningIsGood, UploadIsServed
<1> QED BY <1>1, <1>2, <1>3, <1>4 DEF Upload

LEMMA RollbackHolds == Spec => []RollbackInv
<1>1. Init => RollbackInv
  BY DEF Init, RollbackInv, GoodImageIsReachable, OnTrial, RunningIsGood,
         UploadIsServed, Up, Slots, Other
<1>2. TypeOK /\ RollbackInv /\ [Next]_vars => RollbackInv'
  <2> SUFFICES ASSUME TypeOK, RollbackInv, [Next]_vars PROVE RollbackInv'
    OBVIOUS
  <2>1. CASE UNCHANGED vars
    BY <2>1 DEF vars, flash, app, session, RollbackInv, GoodImageIsReachable,
       OnTrial, RunningIsGood, UploadIsServed, Up
  <2>2. CASE AppMainPanics \/ PowerFails \/ Restarts
    BY <2>2, ResetKeepsRollback DEF AppMainPanics, PowerFails, Restarts
  <2> QED
    BY <2>1, <2>2, BootsKeepsRollback, AppKeepsRollback, UploadKeepsRollback
    DEF Next
<1> QED BY <1>1, <1>2, TypeCorrect, PTL DEF Spec

\* Whatever was uploaded and wherever the power failed, an image that is not
\* good and boots next is not confirmed, and the other slot is good.
THEOREM RollbackProtects == Spec => []GoodImageIsReachable
<1>1. RollbackInv => GoodImageIsReachable
  BY DEF RollbackInv
<1> QED BY <1>1, RollbackHolds, PTL
-----------------------------------------------------------------------------
(* The image that was promised *)

\* The new image is complete, selected and untried.
Armed == boot = NextSlot /\ state[boot] = "new" /\ image[boot] # "none"

\* From esp_ota_set_boot_partition on, until the next upload.
PromiseIsArmed ==
  /\ upload \in {"receive", "end", "set boot", "fail"} => ~promised
  /\ upload = "set boot" => image[NextSlot] # "none"
  /\ upload \in {"unlock", "reply"} \/ promised => Armed

LEMMA PromiseIsKept ==
  ASSUME TypeOK, RollbackInv, PromiseIsArmed, Next
  PROVE  PromiseIsArmed'
<1>a. NextSlot \in Slots /\ NextSlot # running
  BY OtherSlot DEF NextSlot, TypeOK
<1> USE <1>a DEF TypeOK, PromiseIsArmed, Armed, flash, app, session
<1>1. CASE Boots
  <2>1. upload' = "idle" /\ promised' = FALSE
    BY <1>1 DEF Boots, RollbackInv, UploadIsServed, Up
  <2> QED BY <2>1
<1>2. CASE StartsServer \/ Confirms
  <2>1. UNCHANGED <<image, boot, running, upload, promised>>
    BY <1>2 DEF StartsServer, Confirms
  <2>2. Armed => state'[boot] = state[boot]
    BY <1>2 DEF StartsServer, Confirms, NextSlot
  <2> QED BY <2>1, <2>2 DEF NextSlot
<1>3. CASE AppMainPanics \/ PowerFails \/ Restarts
  <2>1. UNCHANGED <<flash, running, promised>> /\ upload' = "idle"
    BY <1>3 DEF AppMainPanics, PowerFails, Restarts, Reset
  <2> QED BY <2>1 DEF NextSlot
<1>4. CASE Refuses \/ Receives \/ Aborts
  <2>1. UNCHANGED <<flash, running, promised>>
    BY <1>4 DEF Refuses, Receives, Aborts, Serving
  <2>2. \/ upload' = upload
        \/ upload \in {"receive", "fail"} /\ upload' \in {"end", "fail", "idle"}
    BY <1>4 DEF Refuses, Receives, Aborts, Serving
  <2> QED BY <2>1, <2>2 DEF NextSlot
<1>5. CASE Begins
  <2>1. promised' = FALSE /\ upload' \in {"idle", "receive"}
    BY <1>5 DEF Begins, Serving
  <2> QED BY <2>1
<1>6. CASE Ends \/ SetsBoot
  <2>1. UNCHANGED <<running, promised>> /\ ~promised
    BY <1>6 DEF Ends, SetsBoot, Serving
  <2>2. upload' \in {"set boot", "fail", "unlock"}
    BY <1>6 DEF Ends, SetsBoot, Serving
  <2>3. upload' = "set boot" => image'[NextSlot'] # "none"
    BY <1>6, <2>1 DEF Ends, SetsBoot, Serving, NextSlot
  <2>4. upload' = "unlock" => Armed'
    BY <1>6, <2>1 DEF Ends, SetsBoot, Serving, NextSlot
  <2> QED BY <2>1, <2>2, <2>3, <2>4
<1>7. CASE Unlocks \/ Replies
  <2>1. UNCHANGED <<flash, running>> /\ Armed /\ upload' \in {"reply", "idle"}
    BY <1>7 DEF Unlocks, Replies, Serving
  <2> QED BY <2>1 DEF NextSlot
<1> QED BY <1>1, <1>2, <1>3, <1>4, <1>5, <1>6, <1>7 DEF Next, Upload

\* The device that has promised to reboot boots the image that it was sent.
THEOREM PromiseIsTrue == Spec => UploadedImageBoots
<1>1. Init => PromiseIsArmed
  BY DEF Init, PromiseIsArmed
<1>2. TypeOK /\ RollbackInv /\ PromiseIsArmed /\ [Next]_vars => PromiseIsArmed'
  <2>1. ASSUME PromiseIsArmed, UNCHANGED vars PROVE PromiseIsArmed'
    BY <2>1 DEF PromiseIsArmed, Armed, NextSlot, vars, flash, app, session
  <2> QED BY <2>1, PromiseIsKept
<1>3. TypeOK /\ PromiseIsArmed /\ [Next]_vars
      => [Boots /\ promised => running' = Other(running) /\ running' = boot]_vars
  <2> SUFFICES ASSUME TypeOK, PromiseIsArmed, Boots, promised
               PROVE  running' = Other(running) /\ running' = boot
    OBVIOUS
  <2> QED BY DEF TypeOK, Boots, Selected, PromiseIsArmed, Armed, NextSlot
<1> QED
  BY <1>1, <1>2, <1>3, TypeCorrect, RollbackHolds, PTL
  DEF Spec, UploadedImageBoots
=============================================================================
