---------------------------- MODULE DeviceProofs ----------------------------
(***************************************************************************)
(* Theorems about ConfigStore, for any keys and values, any bodies and any *)
(* number of resets and failures, and about the device that it makes up    *)
(* with Ota.                                                               *)
(*                                                                         *)
(* SavedIsStored is not inductive: a commit overwrites an entry, and only  *)
(* PutIsServed says that this entry is not one that counts as saved.       *)
(*                                                                         *)
(* The composition is written so that each step is one of updates, or of   *)
(* settings, or of both: what is proved of the two alone (OtaProofs and    *)
(* the first half of this module) holds in the device.  DeviceFairSpec     *)
(* only adds fairness.                                                     *)
(*                                                                         *)
(* GoodImageFailsForCause is about the two together: CauseInv says what an *)
(* image on trial, the settings that were read and a restart that waits    *)
(* have to do with each other.                                             *)
(***************************************************************************)
EXTENDS Device, OtaProofs

\* Settings are put only when app_main has read them, and what is being put
\* has lost the promise that it is saved.
PutIsServed ==
  /\ put # "idle" => start = "up"
  /\ put # "idle" => \A k \in Keys : body[k] # Unset => saved[k] = Unset
  /\ \A k \in todo : body[k] # Unset

ConfigInv == ConfigTypeOK /\ PutIsServed /\ SavedIsStored /\ PrintedTokenStays

LEMMA EmptyEntries == Nothing \in Entries /\ \A k \in Keys : Nothing[k] = Unset
  BY DEF Nothing, Entries

\* handler_config_put writes an entry of the type that the key has.
LEMMA WrittenEntry ==
  ASSUME NEW k \in Keys, nvs \in Entries, body \in Entries
  PROVE  /\ Written(k) \in Entries
         /\ Written(k)[k] = body[k]
         /\ \A j \in Keys : j # k => Written(k)[j] = nvs[j]
  BY DEF Written, Entries

LEMMA FaultsAreBounded ==
  ASSUME faults \in 0..MaxFaults, Fault
  PROVE  faults' \in 0..MaxFaults
  BY MaxFaultsAssumption DEF Fault
-----------------------------------------------------------------------------
(* The types of the settings *)

LEMMA StartKeepsTypes ==
  ASSUME ConfigTypeOK, PowersOn \/ AppMain \/ StartFails \/ Resets
  PROVE  ConfigTypeOK'
<1> USE EmptyEntries, FaultsAreBounded
        DEF ConfigTypeOK, startVars, putVars, tokenVars, ClearsRam
<1>1. made + 1 \in Nat /\ made + 1 \in 0..made + 1 /\ 0 \in 0..made + 1
      /\ 0 \in 0..made /\ 0..made \subseteq 0..made + 1
  OBVIOUS
<1>2. CASE PowersOn  BY <1>2 DEF PowersOn
<1>3. CASE OpensNvs  BY <1>1, <1>3 DEF OpensNvs
<1>4. CASE EnsuresToken  BY <1>1, <1>4 DEF EnsuresToken, MakesToken
<1>5. CASE PrintsToken  BY <1>5 DEF PrintsToken
<1>6. CASE ReadsSettings
  <2>1. Readable \in Entries  BY DEF Readable, Entries
  <2> QED BY <1>6, <2>1 DEF ReadsSettings
<1>7. CASE StartFails  BY <1>1, <1>7 DEF StartFails, MakesToken
<1>8. CASE Resets  BY <1>8, WrittenEntry DEF Resets
<1> QED BY <1>2, <1>3, <1>4, <1>5, <1>6, <1>7, <1>8 DEF AppMain

LEMMA PutKeepsTypes ==
  ASSUME ConfigTypeOK, (\E b \in Entries : PutBegins(b)) \/ Put
  PROVE  ConfigTypeOK'
<1> USE EmptyEntries DEF ConfigTypeOK, startVars, tokenVars, PutStep
<1>1. CASE \E b \in Entries : PutBegins(b)
  <2> PICK b \in Entries : PutBegins(b)  BY <1>1
  <2>1. saved' \in Entries  BY DEF PutBegins, Entries
  <2> QED BY <2>1 DEF PutBegins
<1>2. CASE PutSets  BY <1>2 DEF PutSets
<1>3. CASE PutCommits  BY <1>3, WrittenEntry DEF PutCommits
<1>4. CASE PutFails  BY <1>4, WrittenEntry DEF PutFails
<1>5. CASE PutReplies
  <2>1. saved' \in Entries  BY <1>5 DEF PutReplies, Entries
  <2> QED BY <1>5, <2>1 DEF PutReplies
<1> QED BY <1>1, <1>2, <1>3, <1>4, <1>5 DEF Put
-----------------------------------------------------------------------------
(* The invariant of the settings *)

LEMMA StartKeepsPromises ==
  ASSUME ConfigInv, PowersOn \/ AppMain \/ StartFails \/ Resets
  PROVE  PutIsServed' /\ SavedIsStored' /\ PrintedTokenStays'
<1> USE EmptyEntries
        DEF ConfigInv, ConfigTypeOK, PutIsServed, SavedIsStored,
            PrintedTokenStays, startVars, putVars, tokenVars, ClearsRam
<1>1. CASE PowersOn  BY <1>1 DEF PowersOn
<1>2. CASE OpensNvs  BY <1>2 DEF OpensNvs
<1>3. CASE EnsuresToken  BY <1>3 DEF EnsuresToken, MakesToken
<1>4. CASE PrintsToken  BY <1>4 DEF PrintsToken
<1>5. CASE ReadsSettings  BY <1>5 DEF ReadsSettings
<1>6. CASE StartFails  BY <1>6 DEF StartFails, MakesToken
<1>7. CASE Resets
  <2>1. CASE UNCHANGED nvs  BY <1>7, <2>1 DEF Resets
  <2>2. CASE ~UNCHANGED nvs
    <3> PICK k \in Keys : put = "commit" /\ Current(k) /\ nvs' = Written(k)
      BY <1>7, <2>2 DEF Resets
    <3>1. saved[k] = Unset  BY DEF Current
    <3> QED BY <1>7, <3>1, WrittenEntry DEF Resets
  <2> QED BY <2>1, <2>2
<1> QED BY <1>1, <1>2, <1>3, <1>4, <1>5, <1>6, <1>7 DEF AppMain

LEMMA PutKeepsPromises ==
  ASSUME ConfigInv, (\E b \in Entries : PutBegins(b)) \/ Put
  PROVE  PutIsServed' /\ SavedIsStored' /\ PrintedTokenStays'
<1> USE EmptyEntries
        DEF ConfigInv, ConfigTypeOK, PutIsServed, SavedIsStored,
            PrintedTokenStays, startVars, tokenVars, PutStep
<1>1. CASE \E b \in Entries : PutBegins(b)
  BY <1>1 DEF PutBegins
<1>2. CASE PutSets  BY <1>2 DEF PutSets
<1>3. CASE PutCommits
  <2> PICK k \in Keys : Current(k) /\ nvs' = Written(k) /\ todo' = todo \ {k}
    BY <1>3 DEF PutCommits
  <2>1. body[k] # Unset /\ saved[k] = Unset  BY <1>3 DEF Current, PutCommits
  <2> QED BY <1>3, <2>1, WrittenEntry DEF PutCommits
<1>4. CASE PutFails
  <2> PICK k \in Keys : Current(k) /\ nvs' \in {nvs, Written(k)} /\ todo' = todo \ {k}
    BY <1>4 DEF PutFails
  <2>1. body[k] # Unset /\ saved[k] = Unset  BY <1>4 DEF Current, PutFails
  <2> QED BY <1>4, <2>1, WrittenEntry DEF PutFails
<1>5. CASE PutReplies  BY <1>5 DEF PutReplies
<1> QED BY <1>1, <1>2, <1>3, <1>4, <1>5 DEF Put

LEMMA ConfigInvariance == ConfigSpec => []ConfigInv
<1>1. ConfigInit => ConfigInv
  <2> SUFFICES ASSUME ConfigInit PROVE ConfigInv
    OBVIOUS
  <2>1. 0 \in 0..0 /\ 0 \in 0..MaxFaults
    BY MaxFaultsAssumption
  <2>2. ConfigTypeOK
    BY <2>1, EmptyEntries DEF ConfigInit, ConfigTypeOK
  <2>3. PutIsServed /\ SavedIsStored /\ PrintedTokenStays
    BY EmptyEntries
    DEF ConfigInit, PutIsServed, SavedIsStored, PrintedTokenStays
  <2> QED BY <2>2, <2>3 DEF ConfigInv
<1>2. ConfigInv /\ [ConfigNext]_configVars => ConfigInv'
  <2> SUFFICES ASSUME ConfigInv, [ConfigNext]_configVars PROVE ConfigInv'
    OBVIOUS
  <2>1. CASE UNCHANGED configVars
    BY <2>1 DEF ConfigInv, ConfigTypeOK, PutIsServed, SavedIsStored,
                PrintedTokenStays, configVars, startVars, putVars, tokenVars
  <2>2. CASE PowersOn \/ AppMain \/ StartFails \/ Resets
    BY <2>2, StartKeepsTypes, StartKeepsPromises DEF ConfigInv
  <2>3. CASE (\E b \in Entries : PutBegins(b)) \/ Put
    BY <2>3, PutKeepsTypes, PutKeepsPromises DEF ConfigInv
  <2> QED BY <2>1, <2>2, <2>3 DEF ConfigNext
<1> QED BY <1>1, <1>2, PTL DEF ConfigSpec
-----------------------------------------------------------------------------
(* What is proved of the settings alone *)

\* Every variable of the settings keeps its type.
THEOREM ConfigTypeCorrect == ConfigSpec => []ConfigTypeOK
<1>1. ConfigInv => ConfigTypeOK  BY DEF ConfigInv
<1> QED BY <1>1, ConfigInvariance, PTL

\* The token that was printed is the one that is compared, until NVS fails.
THEOREM TokenIsKept == ConfigSpec => []PrintedTokenStays
<1>1. ConfigInv => PrintedTokenStays  BY DEF ConfigInv
<1> QED BY <1>1, ConfigInvariance, PTL

\* What was saved without an error is in the flash ...
THEOREM SavedIsKept == ConfigSpec => []SavedIsStored
<1>1. ConfigInv => SavedIsStored  BY DEF ConfigInv
<1> QED BY <1>1, ConfigInvariance, PTL

\* ... and each later start uses it, wherever a reset came in between.
THEOREM SavedIsUsed == ConfigSpec => StartUsesSaved
<1>1. ConfigInv /\ [ConfigNext]_configVars =>
        [ReadsSettings =>
           \A k \in Keys : saved[k] \notin TooLong \cup {Unset} =>
                             settings'[k] = saved[k]]_configVars
  BY DEF ConfigInv, SavedIsStored, ReadsSettings, Readable
<1> QED BY <1>1, ConfigInvariance, PTL DEF ConfigSpec, StartUsesSaved
-----------------------------------------------------------------------------
(* The device *)

\* Each step of the device is one of the updates or leaves them alone, and one
\* of the settings or leaves them alone.
LEMMA StartingIsAStepOfBoth ==
  ASSUME DeviceBoots \/ Configures \/ Serves \/ Confirmed \/ Panics \/ NvsPanics
  PROVE  [Next]_vars /\ [ConfigNext]_configVars
<1>1. CASE DeviceBoots  BY <1>1 DEF DeviceBoots, Next, ConfigNext
<1>2. CASE Configures  BY <1>2 DEF Configures, ConfigNext
<1>3. CASE Serves  BY <1>3 DEF Serves, Next
<1>4. CASE Confirmed  BY <1>4 DEF Confirmed, Next
<1>5. CASE Panics  BY <1>5 DEF Panics, Next, ConfigNext
<1>6. CASE NvsPanics  BY <1>6 DEF NvsPanics, Next, ConfigNext
<1> QED BY <1>1, <1>2, <1>3, <1>4, <1>5, <1>6

LEMMA ServingIsAStepOfBoth ==
  ASSUME \/ LosesPower \/ RestartsForUpdate
         \/ PutRequest \/ Saves
         \/ UpdateRequest \/ Updating(Receives) \/ Updates
  PROVE  [Next]_vars /\ [ConfigNext]_configVars
<1>1. CASE LosesPower  BY <1>1 DEF LosesPower, Next, ConfigNext
<1>2. CASE RestartsForUpdate  BY <1>2 DEF RestartsForUpdate, Next, ConfigNext
<1>3. CASE PutRequest  BY <1>3, BodiesAssumption DEF PutRequest, ConfigNext
<1>4. CASE Saves  BY <1>4 DEF Saves, ConfigNext
<1>5. CASE UpdateRequest \/ Updating(Receives) \/ Updates
  BY <1>5 DEF UpdateRequest, Updates, Updating, Next, Upload
<1> QED BY <1>1, <1>2, <1>3, <1>4, <1>5

LEMMA EachStepIsOneOfBoth ==
  [DeviceNext]_deviceVars => [Next]_vars /\ [ConfigNext]_configVars
<1>1. UNCHANGED deviceVars => UNCHANGED vars /\ UNCHANGED configVars
  BY DEF deviceVars
<1> QED
  BY <1>1, StartingIsAStepOfBoth, ServingIsAStepOfBoth DEF DeviceNext
-----------------------------------------------------------------------------
LEMMA DeviceRunsBoth == DeviceSpec => Spec /\ ConfigSpec
<1>1. DeviceInit => Init /\ ConfigInit
  BY DEF DeviceInit
<1> QED
  BY <1>1, EachStepIsOneOfBoth, PTL DEF DeviceSpec, Spec, ConfigSpec

\* Every variable of the device keeps its type.
THEOREM DeviceTypeCorrect == DeviceSpec => []DeviceTypeOK
<1> DEFINE ReasonOK == reason \in {"none", "power", "nvs", "panic", "restart"}
<1>1. DeviceInit => ReasonOK
  BY DEF DeviceInit
<1>2. ReasonOK /\ [DeviceNext]_deviceVars => ReasonOK'
  BY DEF DeviceNext, deviceVars, DeviceBoots, Configures, Serves, Confirmed,
         Panics, NvsPanics, LosesPower, RestartsForUpdate, PutRequest, Saves,
         UpdateRequest, Updating, Updates
<1>3. TypeOK /\ ConfigTypeOK /\ ReasonOK => DeviceTypeOK
  BY DEF DeviceTypeOK
<1> QED
  BY <1>1, <1>2, <1>3, DeviceRunsBoth, TypeCorrect, ConfigTypeCorrect, PTL
  DEF DeviceSpec

\* Settings that make every image panic do not take the good image away, and
\* images that panic do not take away what was saved.
THEOREM DeviceKeepsBoth ==
  DeviceSpec => /\ [](GoodImageIsReachable /\ UploadsCanBegin)
                /\ [](PrintedTokenStays /\ SavedIsStored)
                /\ UploadedImageBoots /\ StartUsesSaved
  BY DeviceRunsBoth, RollbackProtects, NoUploadBlocksTheNext, PromiseIsTrue,
     TokenIsKept, SavedIsKept, SavedIsUsed, PTL
-----------------------------------------------------------------------------
(* Why a trial fails *)

\* A restart waits only for a slot that was set to boot and not tried yet, and
\* an image on trial that is there at all is the one that runs.
TrialInv ==
  /\ phase = "off" => ~restart
  /\ restart \/ upload \in {"unlock", "reply"} => state[boot] = "new"
  /\ phase = "starting" /\ state[boot] = "pending" /\ image[boot] # "none" =>
       running = boot

LEMMA TrialInvIsKept ==
  ASSUME TypeOK, RollbackInv, TrialInv, [Next]_vars
  PROVE  TrialInv'
<1> USE DEF TypeOK, TrialInv, flash, app, session
<1>1. CASE Boots
  <2>1. upload' = "idle" /\ ~restart' /\ phase' = "starting" /\ image' = image
    BY <1>1 DEF Boots, RollbackInv, UploadIsServed, Up
  <2>2. CASE state[boot] = "pending"
    <3>1. boot' = Other(boot) /\ state'[boot'] # "pending"
      BY <1>1, <2>2, OtherSlot DEF Boots, Selected, RollbackInv, OnTrial
    <3> QED BY <2>1, <3>1
  <2>3. CASE state[boot] # "pending"
    <3>1. boot' = boot /\ (image[boot] # "none" => running' = boot)
      BY <1>1, <2>3 DEF Boots, Selected
    <3> QED BY <2>1, <3>1
  <2> QED BY <2>2, <2>3
<1>2. CASE StartsServer
  BY <1>2 DEF StartsServer
<1>3. CASE Confirms
  <2>1. state[boot] = "new" => boot # running
    BY <1>3 DEF Confirms, RollbackInv, OnTrial
  <2> QED BY <1>3, <2>1 DEF Confirms
<1>4. CASE AppMainPanics \/ PowerFails \/ Restarts
  BY <1>4 DEF AppMainPanics, PowerFails, Restarts, Reset
<1>5. CASE Refuses \/ Begins \/ Receives \/ Aborts
  <2>1. UNCHANGED <<state, boot, phase, restart>> /\ phase # "starting"
    BY <1>5 DEF Refuses, Begins, Receives, Aborts, Serving
  <2>2. upload' \notin {"unlock", "reply"}
    BY <1>5 DEF Refuses, Begins, Receives, Aborts, Serving
  <2> QED BY <2>1, <2>2
<1>6. CASE Ends
  BY <1>6 DEF Ends, Serving
<1>7. CASE SetsBoot
  <2>1. phase' = phase /\ phase # "off" /\ phase # "starting" /\ restart' = restart
    BY <1>7 DEF SetsBoot, Serving
  <2>2. CASE boot' = NextSlot /\ state' = [state EXCEPT ![NextSlot] = "new"]
    <3>1. state'[boot'] = "new"
      BY <2>2, OtherSlot DEF NextSlot
    <3> QED BY <2>1, <3>1
  <2>3. CASE upload' = "fail" /\ UNCHANGED <<boot, state>>
    BY <2>1, <2>3
  <2> QED BY <1>7, <2>2, <2>3 DEF SetsBoot
<1>8. CASE Unlocks \/ Replies
  BY <1>8 DEF Unlocks, Replies, Serving
<1>9. CASE UNCHANGED vars
  BY <1>9 DEF vars
<1> QED
  BY <1>1, <1>2, <1>3, <1>4, <1>5, <1>6, <1>7, <1>8, <1>9 DEF Next, Upload

\* Why the selected slot, on trial with a good image, is about to be given up.
Excused == reason \in {"power", "nvs"} \/ WifiIsRefused(Readable)

\* While app_main runs, no one puts settings and those that it read are those
\* stored; an image on trial that is found off is excused.
CauseInv ==
  /\ put # "idle" => IsServing
  /\ phase = "starting" /\ start = "up" => settings = Readable
  /\ phase = "off" /\ state[boot] = "pending" /\ image[boot] = "good" => Excused

LEMMA ResetKeepsCause ==
  ASSUME TypeOK, TrialInv, CauseInv,
         Panics \/ NvsPanics \/ LosesPower \/ RestartsForUpdate
  PROVE  CauseInv'
<1> USE DEF CauseInv, Excused
<1>1. phase' = "off" /\ put' = "idle" /\ UNCHANGED flash
  BY DEF Panics, NvsPanics, LosesPower, RestartsForUpdate, AppMainPanics,
         PowerFails, Restarts, Reset, Resets, StartFails, ClearsRam
<1> SUFFICES ASSUME state[boot] = "pending", image[boot] = "good"
             PROVE  Excused'
  BY <1>1 DEF flash
<1>2. CASE Panics
  <2>1. phase = "starting" /\ running = boot
    BY <1>2 DEF Panics, AppMainPanics, TrialInv
  <2>2. WifiIsRefused(settings) /\ start = "up" /\ put = "idle"
    BY <1>2, <2>1 DEF Panics, IsServing
  <2>3. nvs' = nvs
    BY <1>2, <2>2 DEF Panics, Resets
  <2>4. WifiIsRefused(Readable)'
    BY <2>1, <2>2, <2>3 DEF Readable, WifiIsRefused
  <2> QED BY <2>4
<1>3. CASE NvsPanics  BY <1>3 DEF NvsPanics
<1>4. CASE LosesPower  BY <1>4 DEF LosesPower
<1>5. CASE RestartsForUpdate
  BY <1>5 DEF RestartsForUpdate, Restarts, TrialInv
<1> QED BY <1>2, <1>3, <1>4, <1>5

LEMMA CauseInvIsKept ==
  ASSUME TypeOK, TrialInv, CauseInv, [DeviceNext]_deviceVars
  PROVE  CauseInv'
<1> USE DEF CauseInv, Excused, IsServing, flash, app, session, startVars, putVars
<1>1. CASE Panics \/ NvsPanics \/ LosesPower \/ RestartsForUpdate
  BY <1>1, ResetKeepsCause
<1>2. CASE DeviceBoots
  BY <1>2 DEF DeviceBoots, Boots, PowersOn
<1>3. CASE Configures
  <2>1. UNCHANGED vars /\ put' = put /\ phase = "starting"
    BY <1>3 DEF Configures, Starting, AppMain, OpensNvs, EnsuresToken,
                PrintsToken, ReadsSettings
  <2>2. start' = "up" => settings' = Readable'
    BY <1>3 DEF Configures, AppMain, OpensNvs, EnsuresToken, PrintsToken,
                ReadsSettings, Readable
  <2> QED BY <2>1, <2>2 DEF vars
<1>4. CASE Serves \/ Confirmed
  BY <1>4 DEF Serves, Confirmed, StartsServer, Confirms, configVars
<1>5. CASE PutRequest \/ Saves
  <2>1. UNCHANGED vars /\ IsServing
    BY <1>5 DEF PutRequest, Saves
  <2> QED BY <2>1 DEF vars
<1>6. CASE UpdateRequest \/ Updating(Receives) \/ Updates
  <2>1. UNCHANGED configVars /\ put = "idle" /\ phase' = phase /\ IsServing
    BY <1>6 DEF UpdateRequest, Updating, Updates, Refuses, Begins, Receives,
                Aborts, Ends, SetsBoot, Unlocks, Replies, Serving
  <2> QED BY <2>1 DEF configVars
<1>7. CASE UNCHANGED deviceVars
  BY <1>7 DEF deviceVars, vars, configVars, Readable, WifiIsRefused
<1> QED
  BY <1>1, <1>2, <1>3, <1>4, <1>5, <1>6, <1>7 DEF DeviceNext

\* A good image on trial is given up only if the power or NVS failed, or if
\* each image would panic over the WiFi password that is stored: never because
\* of the restart that an update asks for, a later upload, or other settings.
THEOREM TrialsFailForCause == DeviceSpec => GoodImageFailsForCause
<1>1. DeviceInit => TrialInv /\ CauseInv
  BY DEF DeviceInit, Init, ConfigInit, TrialInv, CauseInv, Slots
<1>2. TypeOK /\ RollbackInv /\ TrialInv /\ [Next]_vars => TrialInv'
  BY TrialInvIsKept
<1>3. TypeOK /\ TrialInv /\ CauseInv /\ [DeviceNext]_deviceVars => CauseInv'
  BY CauseInvIsKept
<1>4. CauseInv =>
        [DeviceBoots /\ state[boot] = "pending" /\ image[boot] = "good" =>
           reason \in {"power", "nvs"} \/ WifiIsRefused(Readable)]_deviceVars
  BY DEF CauseInv, Excused, DeviceBoots, Boots
<1> QED
  BY <1>1, <1>2, <1>3, <1>4, EachStepIsOneOfBoth, DeviceRunsBoth, TypeCorrect,
     RollbackHolds, PTL
  DEF DeviceSpec, GoodImageFailsForCause
=============================================================================
