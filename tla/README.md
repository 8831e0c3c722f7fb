# RemoteBoot in TLA+

RemoteBoot is firmware for an ESP32-S3 that sits inside a PC. It closes the PC's
power and reset contacts with two relays, plays a USB keyboard to it, guesses from
the USB bus or from the disk LED when the PC is through its power-on self test
(POST), picks an operating system in the GRUB menu, and is controlled over WiFi
through a small HTTP server.

The code is little and concurrent: five or six FreeRTOS tasks and an interrupt
share state, mostly without locks, with a PC at the other end that nobody controls.
This directory holds TLA+ specifications of that code, instances of them that TLC
checks, and theorems that TLAPS checks about each of them. `PROJECT.json` lists runs, the code lines that each definition stands for, the
hazards and the theorems. All paths below are relative to `main/` of the repository
unless they say otherwise.

    tlc -config BootSafety.cfg MCBootManager     # one run; its cfg has its name
    tlapm OtaProofs.tla                          # the proofs of one module

Contents: 1 the system; 2 the modules; 3 the runs; 4 bounds, fairness and
assumptions; 5 the proofs; 6 where code and documents disagree; 7 what is not
modelled; 8 the plan.


## 1. The system

### Tasks

| Task | Runs | Shares |
|---|---|---|
| `httpd`, one task, one request at a time | every handler of `net/http_server.c`, and in them the boot manager's operations, the detector's `start` and `stop`, uploads, settings and log reads | everything below |
| `esp_timer`, one task, one callback at a time | the sync of the PC state every 3 s (`main.c`), the timers of either detector and, within them, `on_post_complete` with the whole OS selection | PC state, detector, boot manager, keyboard |
| `bios_entry`, created for a BIOS boot | types DEL or F2 40 times, for 8 to 20 s | PC state, `boot_task`, keyboard |
| TinyUSB | mount, unmount, suspend and resume, to the USB detector | detector |
| GPIO interrupt | edges of the disk LED | the pulse counter |
| default event loop | `wifi_event_handler`, back-off included | `s_connected`, the campus task's event group |
| `campus_net` | checks the internet and logs in to the portal | `s_online`, campus state |
| `app_main` | opens the settings, starts all of these, confirms the firmware image, ends; any error on the way resets the device | NVS |
| every task | `log_vprintf_hook`, when it logs | the log ring |

### Components: state, operations, interactions, correctness

| Component | State | Operations | Interacts with | Is correct when |
|---|---|---|---|---|
| System state `app/system_state.c` | `pc_state`, `os_booted`, `campus_net`, under a mutex | set and get, one field each | everybody | each access is atomic (nothing larger is: hence most hazards) |
| Boot manager `app/boot_manager.c` | `pending_os`, `boot_task` | boot, shutdown, force_off, reset, reboot_os, the BIOS task, `on_post_complete` | relay, detector, selector, keyboard, system state | at most one BIOS task types; no transient state outlives its owner; an accepted boot gets somewhere |
| USB sync `main.c:60-118` | a debounce counter | one periodic callback | USB stack, system state | the state shown converges to what a steady link says |
| USB POST detector `hal/usb_post_detector.c` | `state`, `mount_count`, two one-shot timers; no lock | mount, unmount, settle, time-out, start, stop | TinyUSB, esp_timer, boot manager | a detection that is under way is timed and ends |
| HDD POST detector `hal/post_detector.c` | `state`, `pulse_count`, three times, a periodic timer; no lock | edge, sample, start, stop | interrupt, esp_timer, boot manager | POST completes only after enough silence and within the time-out; a detection ends |
| OS selector `app/os_selector.c` | its configuration | select | keyboard | Enter falls on the right entry; an error means that none was chosen; it returns |
| USB keyboard `hal/usb_hid_keyboard.c` | callbacks for mount events | send_key, mounted, suspended | USB host | a key that was pressed is released |
| Relay `hal/relay_controller.c` | two GPIOs | press for a time | the PC | a contact that closes opens |
| Log buffer `app/log_buffer.c` | ring, head, wrapped, a spin lock around the head and around appends | the hook, info, read, clear | all tasks, `GET /api/log` | entries come in order, and whole unless two tasks wrote to their slot at once |
| OTA manager `app/ota_manager.c` | a mutex, a session; the flash | begin, write, finish, abort, mark valid | `POST /api/update`, bootloader | a good image is always reachable; a failed upload does not block the next; the device comes back |
| WiFi manager `net/wifi_manager.c` | `s_connected`, `s_retry` | event handler, start | driver, `main.c`, campus task | it is connected again after an outage |
| Campus task `net/campus_net_auth.c` | `s_online`, an event bit | one loop, auth_now | WiFi manager, portal, system state | what it reports agrees; requests to check are not lost |
| HTTP server `net/http_server.c` | the handlers' locals | 18 handlers | all of the above | |
| Configuration `app/config_manager.c` | NVS | init, ensure_api_token, get and set by key | `app_main`, WiFi manager, campus task, `/api/config`, the token check of each request | what is answered to be saved is what the next start reads; the token that was printed stays |
| Web client `web/app.js` | last status, timers | polling, buttons, upload | the API | buttons match the state |

### What is hard here

* State shared without a lock by tasks of different priority, in which every
  handler tests a value and acts on it later: both detectors, the boot manager.
* Check-then-set across two critical sections of `system_state.c`: the sync
  (`main.c:84` and on), `boot_manager_boot` (`app/boot_manager.c:141`).
* A callback that takes seconds, within the task that runs all timers.
* One-shot timers that are restarted, fire while being stopped and outlive the
  detection that armed them.
* A USB host that appears, disappears, suspends and drops reports whenever it likes.
* Power failures and bad images between the steps of an update or of a change of
  the settings, and a start that panics over either.
* Two tasks typing on one keyboard without a lock: `bios_entry`, which a forced
  power-off does not stop, and a selection.
* Links, requests and time-outs of the network that overlap with each other.

Each is listed under `hazards` in `PROJECT.json`, at its line and with its properties.


## 2. The modules

| Module | Models | Composition |
|---|---|---|
| `PostDetector` | what either detector promises to the boot manager: the interface `IPostDetector` of `hal/ihal.h` | abstract specification |
| `UsbPostDetector` | the USB detector, each access to `d->state` and each timer call a step | implements `PostDetector` |
| `UsbPostDetectorProofs` | theorems | extends `UsbPostDetector` |
| `HddPostDetector` | the LED detector, time in sample intervals | implements `PostDetector` |
| `HddPostDetectorProofs` | theorems | extends `HddPostDetector` |
| `OsSelector` | selector, BIOS task, keyboard, USB host and GRUB menu | |
| `OsSelectorProofs` | theorems | extends `OsSelector` |
| `UsbSync` | the sync, alone with tasks that write any state | |
| `BootManager` | all requests of the boot flow, the BIOS tasks, the POST callback | extends `UsbSync`, instantiates `PostDetector` for its detector |
| `MCBootManager` | instances of `BootManager` | |
| `BootManagerProofs` | theorems | extends `BootManager`; shows that it keeps to `PostDetector` and implements `UsbSync` |
| `LogBuffer` | the log ring, its writers and the reader of `GET /api/log` | |
| `MCLogBuffer` | an instance of `LogBuffer` | |
| `LogBufferProofs` | theorems | extends `LogBuffer` |
| `Ota` | uploads, app_main's confirmation, the bootloader, power failures | |
| `OtaProofs` | theorems | extends `Ota` |
| `ConfigStore` | NVS, the token, app_main's reads, `PUT /api/config`, failures and resets | |
| `Device` | what survives a reset of one device: images and settings, started by one app_main and changed by one HTTP task | extends `Ota` and `ConfigStore` |
| `MCDevice` | an instance of `Device` | |
| `DeviceProofs` | theorems, those about `ConfigStore` alone among them | extends `Device` and `OtaProofs` |
| `Network` | app_main's start of the network, the WiFi handler, the campus task | |
| `NetworkProofs` | theorems | extends `Network` |

`BootManager` does not contain a detector but `PostDetector`, which both detectors
are shown to implement (`ImplementsIPostDetector`): that the boot flow is right for
the interface makes it right for either detector, and keeps its state space small
enough to interleave everything else step by step.

`Device` joins the steps of `Ota` and `ConfigStore` rather than interleaving them:
the bootloader's start is the power-on of the settings, each reset is one of both,
app_main confirms an image only after it has read the settings and WiFi has taken
them, and the HTTP task begins an upload only when no settings are being written,
and the other way round. What `Ota` leaves open, why an app_main panics
(`AppMainPanics`), is settled there: the image is bad, NVS fails, or the WiFi password
that is stored is refused, which no other image cures. As each step of `Device` is
written as a step of `Ota` or none, and as one of `ConfigStore` or none, their theorems
hold for it.

How the models relate to the code:

* One action is what a task does between two accesses to state that another task
  may touch. `system_state_set_pc` is one step as its mutex makes it one; reading
  and writing `d->state` are two. `at`, `timer`, `bios`, `writer`, `upload`, ... say
  where each task is; a function that runs in a critical section or that touches
  nothing shared is one action.
* The code's names are kept for states and for most operations. `UsbPostDetector`:
  `MountIsFirst` to `MountRearms` are the branches of `usb_event_handler` on a mount,
  `Unmount...` those on an unmount, `Settle...` and `Timeout...` the timer callbacks,
  `Start...` and `Stop...` the operations. `BootManager`: `Check`, `Remember`,
  `Announce`, `Press`, `Release`, `Launch`, `StartDetector`, `Publish`, `Off` and
  `Forget` are the steps the requests are made of, in the order of `at`; each request
  goes through the ones its function has. `PostComplete` to `CallbackReports` are
  `on_post_complete`, `Bios...` is `bios_entry_task`. `ConfigStore`: `OpensNvs` to
  `ReadsSettings` are app_main's way through the settings, in the order of `start`;
  `PutBegins` to `PutReplies` are `handler_config_put`, in which the set of a key and
  its commit are two steps and the keys come in the order of `PutOrder`.
* History variables (`stale`, `raced`, `lost`, `dropped`, `overlapped`, `unsettled`,
  `promised`, `claimed`, `lines`, `silence`, `gaveUp`, `saved`, `printed`, `reason`) record
  what a property needs to know. No guard depends on them, except that `lines`, `losses`
  and `faults` carry a bound. The first six name what a property excepts;
  section 3 and the notes of the hazards say what that leaves uncovered.
* Operators whose comment begins with "Mutant" are plausible bugs. Put in the place
  of the definition that `PROJECT.json` pairs each with, it makes the property of the
  same entry fail, which shows that the property says something about that code.


## 3. The runs

| Run | Distinct states found | Question | Result |
|---|---|---|---|
| `UsbPost` | 85 k | Does the USB detector keep its detections timed, watched and finite, and implement the interface? | holds |
| `HddPost` | 29 k | The same of the LED detector; is silence measured right? | holds |
| `OsSelector` | 48 k | Is the right entry chosen, the result true, and does the call return, whatever the BIOS task types meanwhile? | holds |
| `BootSafety` | 2.5 M | One BIOS task, and an owner for each transient state, under all interleavings? | holds |
| `BootLive` | 414 k | Does an accepted boot get on, and does the sync find the PC's state? | holds |
| `LogBuffer` | 1.5 M, up to symmetry | Is the log in order, and what is whole of it, with filling and copying outside the lock? | holds |
| `Device` | 668 k | Are a good image, the token and what was saved always there, whatever is uploaded or saved and whenever the power fails, why is a good image given up, and does the device come back? | holds |
| `Network` | 5.2 k | Are reports consistent, requests served, connections found again? | holds |
| `ClaimSync` | | `main.c:72`: the sync never interferes with active boot sequences | violated |
| `ClaimTimeout` | | `hal/post_detector.h:22`: a time-out fires an error | violated |
| `ClaimSuspend` | | `main.c:69`: a suspend counts after three polls | violated |
| `ClaimWifi` | | `net/wifi_manager.h:3`: automatic reconnection | violated |

### UsbPost

`SettlingIsTimed`: in SETTLING something will end the wait: the settle timer is
armed, or a handler that arms or ends it is on its way. `DetectionIsWatched`: as
long as a detection is under way its watchdog is armed or about to be. `DetectionEnds`:
each detection ends, however the bus behaves and however often it is started. TLC
chooses GRUB or Windows mode in the initial state.

All three except what follows once a handler has acted on an outdated `d->state`
(`stale`, which is set in the step in which a handler writes, or touches a timer, after
`d->state` has changed under it, and is never reset). Such races exist (section 6), and a
detection that one of them revives may have no watchdog and not end: the code gives no
reason why it should. What these properties are about is everything else, timers that
outlive their detection, mounts and unmounts in any order, repeated starts. The
refinement has no such exception: in spite of the races a detector calls back once for
each completion that it decides, never twice at once, and decides only when a detection
is under way.

### HddPost

Warm-up 1, silence 2 and time-out 5 ticks: the smallest numbers for which a silence
can be interrupted, restarted and overtaken by the time-out. `DoneAfterSilence` and
`DoneInTime` relate the measured times, which the code keeps as three timestamps
with 0 for "none", to the silence that really passed (`silence`). `raced` excepts
start() or stop() during a sample, from `DetectionIsSampled` too, and `lost` an edge
between the read and the clearing of the counter.

### OsSelector

A menu of 4 entries with any three indexes out of 0, 1 and 3, so that the target is
above, below, at the default and at either end. The host may unmount or drop a
report at any step, and `bios_entry_task` of an earlier boot may press its key between
any two steps, between a key's down and up too, since force_off makes the PC OFFLINE
without stopping that task and the next boot is accepted (`app/boot_manager.c:195`).
`SelectsTarget` holds all the same, as each key is reported down once and the menu
ignores the other one; it is for calls of which no report was lost: a loss is not
noticed (section 6). `ResultIsTrue` says what the caller may make of the result: after
an error the menu is still there, after OK the target was chosen, with the same
exception, and DEFAULT is OK and types nothing.

### BootSafety and BootLive

`BootTaskIsTheLiveTask` is the only protection against two BIOS tasks typing at once.
`TransientStateHasOwner` says that whoever shows POWERING_ON, SELECTING_OS or
SHUTTING_DOWN is still at work; a state without an owner would stay until a user
resets it. The exception `dropped` is a BIOS boot that has created no task: because
`xTaskCreate` failed, which the code does not look at (`app/boot_manager.c:158`), or because
the task of an earlier BIOS boot was still there (line 157), which may be past its last
change of the state and then leaves POWERING_ON to nobody. What does not show in any of
these properties is a PC that stays in POST_RUNNING (`ClaimTimeout`, and the callback's
stop() in section 6): that state has no owner from the moment its detection ends.
`PoweringOnEnds`, `SyncFindsPcOn` and `SyncFindsPcOff` are the liveness side; the
last two say that however the races of section 6 leave the PC state, the
sync corrects it when requests and the detector's events cease.

Safety is checked with a selector (kit `selector`), for which `on_post_complete` has
all its branches, three targets and three states of the link; liveness with
fewer of each, and with the kit `no keyboard` too. `MCBootManager` says which. That no
state is orphaned without a keyboard either is proved (section 5).

### LogBuffer

A line is known by the number of its claim. A slot has a line and whether that is
whole; filling a slot, appending to one and copying one each have a first and a last
access, between which other tasks go on. An append holds the lock, which stops claims,
clear and counts but neither filling nor copying.

`RingInOrder` states what `app/log_buffer.h:56` promises, order from the oldest to the
newest, of the claims, across wrap-around and clear. `SettledSlotHoldsItsLine` states what
is left of it for the contents: a slot that nobody is filling holds the line that claimed
it, whole, also when its claim was followed by others, a clear, appends to the line
before or appends to itself. Excepted are slots that two tasks wrote to at once
(`overlapped`), until they are claimed anew: one was claimed from under a task that was
still filling it, or an append was written into a message that it had not measured
(section 6). `ReadsWhatWasAsked`: where a slot is not written to while it is copied, and
was neither waiting to be filled nor overlapped (`unsettled` names the entries for which
this does not hold), the answer has there the line that was asked for, or, where that
has left the ring, a later one. It is for a `start` of 0 or more, as for a negative one
the code goes beyond the lines in the ring (section 6). `ReadIsComplete`: the handler's
count and that of `log_buffer_read` are taken at different times, and the answer has as
many entries as there was room made for, whatever `start` is.

### Device

`GoodImageIsReachable` is the rollback protection of the repository's README
(`README.md:15`): if what boots next is not good then it is unconfirmed, so that the
bootloader will give it up, and the other slot is good. It depends on the order of
app_main, which confirms an image only after its server has started
(`main.c:274-279`); its mutant confirms earlier. `UploadedImageBoots`: after "uploaded,
rebooting" the next boot starts that image, even if the power fails before the restart
or the restart task cannot be created, unless another upload was begun.
`UploadsCanBegin`: no failure keeps the mutex. `UploadEnds`: an upload gives the HTTP
task back. That a client which goes silent may keep it is a premise within the
property: `httpd_req_recv` must at some time return something other than a time-out.

`StartUsesSaved`: what `handler_config_put` answered to be saved, with no error of NVS
in between, is what the next start reads, though the power may fail between a set
and its commit, between two keys or in a later change of the same key. A string longer
than the buffer it is read into (`TooLong`) is excepted: it is saved and reads as
unset. `PrintedTokenStays`: the token on the serial monitor is the one that requests
are compared with, until NVS fails; a reset may come between making, storing and
printing it. `SavedIsStored` is the state behind `StartUsesSaved`, and is proved. Requests
with an error of NVS are excepted too: the handler ignores it (section 6).

`GoodImageFailsForCause`: an image that is good and has had its trial is given up only
when the power or NVS failed during it, or when the stored WiFi password makes each
image panic (`reason` records what the last reset came from). So it is never given up
because of the device itself: the restart that an update asked for and that may come
late, a later upload that is refused, broken off or written beside it, or settings that
are missing or too long. Its mutant panics when no SSID is stored, which the code only
logs (`main.c:253`).

`DeviceComesBack`: bad images, failures of NVS and of the power do not end in a loop of
resets. The one loop there is has a clause of its own and is not caught by this
property: a stored WiFi password that `esp_wifi_set_config` refuses stops every image at
`net/wifi_manager.c:109`, before the server that could change it is up.
The instance has three changes of the settings
(`MCDevice`): an SSID with a password that is refused, a good password, and an SSID that
is too long.

### Network

`NetstatAgrees`: the two fields of `GET /api/netstat` agree whenever the campus task
is at rest. `AuthNowIsServed`: a request to check is not lost, even one that
comes during a check. `InternetIsFound`: a lasting connection is noticed; that the
interval ends at all is a premise within the property, so that `AuthNowIsServed` shows
that requests do not wait for the interval. `ReconnectsOrGivesUp` is what holds of
automatic reconnection; that the handler gives up after MAX_RETRY attempts and not
sooner is not a part of it.


## 4. Bounds, fairness and assumptions

Bounds, each named in its module:

| Bound | Value | Why it is enough |
|---|---|---|
| `MountBound` (`UsbPostDetector`) | 2 | the code counts mounts and prints the count, but compares it with nothing; 2 stands for all larger numbers |
| `Warmup`, `Quiet`, `Timeout` | 1, 2, 5 | see above; times saturate at the value that the code compares them with |
| `SuspendDebounceMax` | 2 safety, 1 liveness, 3 claim | 3 in the code; with 2 the counter still counts |
| `Tasks` | 2 safety, 1 liveness | a second handle is what a second BIOS task would need |
| `Capacity`, `MaxLines`, `Writers` | 3, 5, 2 | the ring wraps and is lapped, and one writer sleeps in a slot while the other goes all the way around |
| `Starts`, `Counts` | -1, 0, 1, 4; 0, 2, 5 | before the oldest line, at it, after it and beyond the ring; nothing, a part, and more than the ring; numbers near the limits of `int` are left out |
| `Chunks` | 1 | a failure before, at and after the only part; the theorems are for any number |
| `MaxLosses` | 1 | one power failure at any step; panics, restarts and failures of NVS come on top and reset the device as often as they like, and the theorems are for any number |
| `MaxFaults` | 1 | NVS fails once at start, in any of its ways; the failures of `handler_config_put` are not counted |
| `Keys`, `Values`, `Bodies` | 2, 3, 3 | one key to fail after another was set; values that are taken, refused and too long |
| `MaxRetry` | 2 | 10 in the code; none, some and all attempts used |

For the safety properties the theorems of section 5 do away with these bounds, except
for `MountBound`, which is a definition of the model.

Fairness:

* Every task that has something to do is scheduled (WF of its steps): FreeRTOS is
  preemptive, no task here spins, and every delay and every press is finite.
* The esp_timer task goes on: WF of its callbacks and, for periodic timers, of their
  dispatch. One-shot timers: SF of the watchdog's expiry in `UsbPostDetector`. The
  settle timer can be restarted for ever by mounts, so that the watchdog's expiry is
  not continuously enabled while the esp_timer task serves others; but its deadline
  stays and esp_timer serves in the order of deadlines, so it comes.
* Time passes: SF of `Tick` in `HddPostDetector`, for the same reason.
* `Network`: WF of the driver and the event loop, of app_main and of the campus task.
* `Device`: WF of the bootloader, app_main, its panics, the restart task and the steps of
  the HTTP task, except for the receiving of an upload, which depends on the client.
* Nothing is assumed of users, requests, the PC, the cable, the access point, the
  internet or the end of POST: the properties either hold without or name what they
  need as a premise.

Assumptions about code that is not in the repository: esp_timer (one task; starting
an armed timer fails; stopping a timer does not recall its callback), FreeRTOS
mutexes and event groups, esp_event (one loop, events in order), TinyUSB (callbacks
in one task), ESP-IDF's app update: with `CONFIG_BOOTLOADER_APP_ROLLBACK_ENABLE` a slot
set to boot is new, tried once as pending, then given up unless it was confirmed, a
slot without a valid image is passed over, and `esp_ota_begin` refuses while the
running image is pending. NVS: an entry has its old or its new value after a reset or
an error between set and commit, and the new one after a commit that succeeded.
`esp_wifi_set_config` returns an error for some passwords (it documents
ESP_ERR_WIFI_PASSWORD); if it takes them all, `Refused` is empty and the clause of
`DeviceComesBack` with it.


## 5. The proofs

TLAPS proves, for all values of the constants:

| Theorem | Says |
|---|---|
| `BootManagerProofs!TypeCorrect` | `Spec => []TypeOK` |
| `BootManagerProofs!OneBiosTask` | `Spec => []BootTaskIsTheLiveTask`, for any number of task handles |
| `BootManagerProofs!NoOrphanedState` | `Spec => []TransientStateHasOwner` |
| `BootManagerProofs!AcceptedReplacesNoRequest` | `Spec => ReplacesNoRequest`: announcing a boot or a shutdown never replaces POWERING_ON or SHUTTING_DOWN |
| `BootManagerProofs!UsesDetectorAsAllowed` | `Spec => Detector!Spec /\ []CallbackIsTheTimers` |
| `BootManagerProofs!ImplementsSync` | `Spec => SyncSafety`, the specification of `UsbSync` without its fairness |
| `OtaProofs!TypeCorrect` | `Spec => []TypeOK` |
| `OtaProofs!NoUploadBlocksTheNext` | `Spec => []UploadsCanBegin` |
| `OtaProofs!RollbackProtects` | `Spec => []GoodImageIsReachable`, for any number of power failures |
| `OtaProofs!PromiseIsTrue` | `Spec => UploadedImageBoots` |
| `DeviceProofs!ConfigTypeCorrect` | `ConfigSpec => []ConfigTypeOK` |
| `DeviceProofs!TokenIsKept` | `ConfigSpec => []PrintedTokenStays` |
| `DeviceProofs!SavedIsKept` | `ConfigSpec => []SavedIsStored`, for any keys and bodies |
| `DeviceProofs!SavedIsUsed` | `ConfigSpec => StartUsesSaved` |
| `DeviceProofs!DeviceTypeCorrect` | `DeviceSpec => []DeviceTypeOK` |
| `DeviceProofs!DeviceKeepsBoth` | those of the updates and of the settings, for `DeviceSpec` |
| `DeviceProofs!TrialsFailForCause` | `DeviceSpec => GoodImageFailsForCause` |
| `UsbPostDetectorProofs!DetectorTypeCorrect` | `Spec => []TypeOK` |
| `UsbPostDetectorProofs!WaitsAreTimed` | `Spec => []SettlingIsTimed` |
| `UsbPostDetectorProofs!DetectionsAreWatched` | `Spec => []DetectionIsWatched` |
| `UsbPostDetectorProofs!UsbImplementsInterface` | `Spec => ImplementsIPostDetector`, in every interleaving |
| `HddPostDetectorProofs!HddTypeCorrect` | `Spec => []TypeOK`, for any warm-up, silence and time-out, as the rest of this module |
| `HddPostDetectorProofs!CompletesAfterSilence` | `Spec => []DoneAfterSilence` |
| `HddPostDetectorProofs!CompletesInTime` | `Spec => []DoneInTime` |
| `HddPostDetectorProofs!DetectionsAreSampled` | `Spec => []DetectionIsSampled` |
| `HddPostDetectorProofs!HddImplementsInterface` | `Spec => ImplementsIPostDetector` |
| `OsSelectorProofs!SelectorTypeCorrect` | `Spec => []TypeOK` |
| `OsSelectorProofs!RightEntry` | `Spec => []SelectsTarget`, for menus of any size |
| `OsSelectorProofs!HonestResults` | `Spec => []ResultIsTrue` |
| `LogBufferProofs!LogTypeCorrect` | `Spec => []TypeOK`, for rings of any size and any number of tasks and lines, as the rest of this module |
| `LogBufferProofs!LogInOrder` | `Spec => []RingInOrder` |
| `LogBufferProofs!SettledLinesAreWhole` | `Spec => []SettledSlotHoldsItsLine` |
| `LogBufferProofs!ReadsNothingOlder` | `Spec => []ReadsWhatWasAsked` |
| `LogBufferProofs!ReadsAreComplete` | `Spec => []ReadIsComplete` |
| `LogBufferProofs!OnlyGoneLinesAreOverrun` | `Spec => OverrunLinesAreGone`: when a slot is claimed from under a task that fills it, the line of that task has left the ring |
| `NetworkProofs!NetworkTypeCorrect` | `Spec => []TypeOK`, for any number of attempts |
| `NetworkProofs!ReportsAgree` | `Spec => []NetstatAgrees` |
| `NetworkProofs!ConnectedIsKnown` | `Spec => []ConnectionIsKnown`: `s_connected` is right whenever no event waits |
| `NetworkProofs!NoWayBack` | `Spec => []GivingUpIsFinal` |
| `NetworkProofs!GivingUpIsTheOnlyRest` | `Spec => OnlyGivingUpRests`: only giving up leaves the event loop nothing to do and no connection |

The properties that no run lists (`ReplacesNoRequest`, `CallbackIsTheTimers`,
`SyncSafety`, `OverrunLinesAreGone`, `ConnectionIsKnown`, `GivingUpIsFinal`,
`OnlyGivingUpRests`, `SavedIsStored`) are defined beside their proofs, or in the module
they are about; each says what a disagreement of section 6 leaves intact or how two
modules fit together.

They rest on the named assumptions of the modules, which every run that uses a module
evaluates: the targets include DEFAULT, kits are the three that app_main can produce,
NULL is no handle, the debounce limit is a positive number, the link has some of the
known states; an upload has at least one chunk; the keys are among those that the
handler sets, and no value is "unset"; a menu has an entry, and the configured indexes
are entries of it; a ring has a slot, and requests for it are made in whole numbers; warm-up, silence, time-out and the number of attempts are natural
numbers.

**Boot flow.** `TypeOK` is not inductive, as what httpd does after opening a relay
depends on the request: `HttpdIsInItsRequest` lists where each request can be, and
`TypesAndPlaces` proves both together. `BootTaskIsTheLiveTask` is inductive with
`TypeOK`: `Launch` creates a task only when `boot_task` is NULL, hence when no task
lives, and a task clears `boot_task` in its last step. `TransientStateHasOwner`
needs `HttpdIsInItsRequest` in each case in which httpd moves on: the state it leaves
must have been replaced, or handed to the BIOS task that has begun. There is one
lemma for each task, and in it one step per action.

`ReplacesNoRequest` is what is left of `boot_manager.h:39` (section 6): the state may
change between the test at `app/boot_manager.c:141` and the announcement at 149, but
only httpd writes POWERING_ON and SHUTTING_DOWN, and it serves one request at a time.
`AcceptedBeforeRequests` carries that from the test to the announcement.
`CallbackIsTheTimers` relates the two places that know whether `on_post_complete`
runs: the interface's `callback` and the steps of the esp_timer task. With it every
step is one of the detector's or leaves it alone, so that what is proved here needs
nothing of a detector but `PostDetector`, which both are proved to implement. For the
sync, `SyncTimer` hides the esp_timer task's other work; then all but the sync and the
link is `OthersWrite`, as `TypeOK` says that what others write is a state.

**Updates.** `GoodImageIsReachable` is not inductive either: an upload erases the slot
that does not run, and only which images are on trial tells that this is never the
good one that is needed. `RollbackInv` adds `OnTrial` (only the selected slot is new or
pending, and then the other one is good), `RunningIsGood` (what serves is good, and it
is the selected slot unless that one was never confirmed) and `UploadIsServed` (an
upload needs a running image that is not pending). `BootsKeepsRollback` and
`SettingKeepsRollback` are the steps that need thought. `PromiseIsArmed` says that
from `esp_ota_set_boot_partition` on the new image is complete, selected and untried,
which makes the next boot take it.

**Settings.** `SavedIsStored` says that an entry that was saved is in the flash and that
one which is being saved and was set already has its new value. It is not inductive:
a commit, or a reset that lets an uncommitted entry through, overwrites an entry, and
only `PutIsServed` says that this one lost its promise when the request began, and that
requests are served only after the start. `StartUsesSaved` is then the step of
`ReadsSettings`.

**The device.** Each step of `Device` is a step of `Ota` or leaves its variables alone,
and the same of `ConfigStore` (`EachStepIsOneOfBoth`, which follows from how `Device` is
written), hence every theorem above for the composition. `GoodImageFailsForCause` is about
the two together and the order of their steps. `TrialInv` says that a restart waits only
while the selected slot is new, so that a restart never ends a trial, and that at
app_main an image on trial which is there at all is the one that runs; it needs
`RollbackInv`. `CauseInv` says that from the reads of app_main to its end the settings it
uses are those stored, as nobody puts any before the server is up: a panic over the
password that was read is one over the password that the next start reads.

**USB detector.** Its properties become inductive with `Seen`: where a task is tells
which state it last read, so that a step that is not stale (`stale` is still FALSE)
finds exactly that state, and can disarm a timer only of a detection that does not need
it. That each task has places of its own is part of it, as otherwise a step of one could
be that of another. The refinement holds for stale steps too. `Allowed` is a step of
the interface or none; the lemmas `Stutters` to `Returns` say by which changes each of
the interface's steps is recognised, and the proof has one case per action.

**LED detector.** A completion is decided in one step and the silence that justifies it
was measured over many samples. `Decided` keeps what a sample has found until it has
set the state, `Timed` says that in QUIET at least the warm-up and the measured silence
have passed since the start, and `Silent` that the LED was dark for as long as measured,
unless an edge waits in the counter, was drained but not yet looked at, or was lost
between the read and the clearing. `Alone` is why none of it is disturbed: without an
overlap (`raced`) no sample is under way while start() or stop() runs. `Outcome` is
taken apart once, in `OutcomeIs` and `OutcomeChanges`.

**Selection.** `SelectsTarget` says something at the last key only; `OnItsWay` is what
holds before: the cursor is as far from the target as there are arrow keys to send,
unless a report was lost, and the host sees no key of the call down when the next is
sent. `ResultIsTrue` needs `NothingChosenYet`, Enter is the last key and nothing that
can fail comes after it, and `Answered`: when the last key is up, Enter has arrived,
unless a report was lost.

**Log.** Indexes go around the ring with `%`; `AroundIs` says that none of those that
occur goes around twice, and `AroundTwice` that going on from where one has arrived is
going on from the start. By `ClaimMoves` a claim shifts the sequence of slots by one, or
adds one at its end, which keeps `RingInOrder`. `Kept` says of each slot whose it is:
unless lines overlapped in it, it holds the line that claimed it or is being filled by one
task, which has that line, and what a fill has begun nobody else changes
(`SettledSlotHoldsItsLine`). An append keeps it because it is written behind the end of the
message that it has measured, or else the slot counts as overlapped. A reader's slots
may be claimed again while it copies, each by a line newer than the one asked for,
which leaves the ring by that (`AskedOrGone`); that this is so from a clear on too, when
the slots from `head` on still belong to lines from before, is `GoneLinesAreOlder`.
`ReadsWhatWasAsked` follows from both: what is copied from a slot that is settled is the
line that claimed it. `ReadIsComplete` rests on `Fitted`: what the handler fitted into its
count still fits when `log_buffer_read` counts again, because between the two the ring
only grows. `OverrunLinesAreGone` says how much time a task has: until its line leaves
the ring, its slot is not claimed by another.

**Network.** The event loop's queue stays short because the driver posts nothing new
until the handler tells it to connect: `CanWait` lists which queues go with which state
of the radio. `ReportsInv` says for each place of the campus task in what its two
reports differ. `ConnectionInv` adds, for each queue and each place of the handler,
what `s_connected` is and what the radio does; `GivingUpIsFinal` is a part of it. From
it follows that no event is lost or handled out of order (`ConnectionIsKnown`), and that
the step which gives up is the only one after which nothing is to come
(`OnlyGivingUpRests`): the safety side of `ReconnectsOrGivesUp`.

TLC has checked each of these strengthenings, and each property that no run lists, as an
invariant or a property of a small instance before it was proved.

Only model-checked: liveness under fairness, which is out of the prover's reach
(`DetectionEnds`, `SelectionReturns`, `PoweringOnEnds`, `SyncFindsPcOn`, `SyncFindsPcOff`,
`UploadEnds`, `DeviceComesBack`, `AuthNowIsServed`, `InternetIsFound`, `ReconnectsOrGivesUp`). The sync alone has no safety property of its own; `ClaimSync` and `ClaimSuspend`
refute the two that its comments state.


## 6. Where code and documents disagree

Four disagreements have runs (`findings` in `PROJECT.json`):

* **The sync overwrites a boot** (`ClaimSync`): it reads the state at `main.c:84` and
  writes it later; a boot announced in between is replaced by ONLINE or OFFLINE.
* **A detection's time-out is silent** (`ClaimTimeout`): nobody is told, and the PC
  stays in POST_RUNNING until a user resets the state.
* **A suspended link is off at once** (`ClaimSuspend`): `active` is false for it, so the
  test at `main.c:94` comes before the debounce at 104-114.
* **WiFi gives up** (`ClaimWifi`): after ten attempts in a row the handler stops, nobody
  waits for `WIFI_FAIL_BIT`, and `wifi_manager_reconnect` has no caller.

More were met while modelling and are in the models, without a run of their own:

* `hal/usb_post_detector.c:89-109` against `hal/ihal.h:46`: a stop() between the mount
  handler's test and its write is undone; the detector goes on monitoring.
* `hal/usb_post_detector.c:106` against `usb_post_detector.h:32-33`: in GRUB mode the first
  mount, when no unmount follows, completes POST as a remount would.
* `hal/post_detector.c:66-68`: the counter is not drained atomically; an edge between
  the read and the clearing is lost (`lost` in `HddPostDetector`).
* `hal/usb_hid_keyboard.c:157,161`: the result of a report is ignored, so that the
  selector can answer OK without the keys having arrived (`lost` in `OsSelector`).
* `app/boot_manager.c:141` against `boot_manager.h:39`: the check is not atomic with the
  announcement, and the power button can be pressed on a PC just found ONLINE.
* `app/boot_manager.c:190`: force_off stops the detector, not a completion decided
  before or a selection under way, which goes on to show ONLINE.
* `app/boot_manager.c:94,110`: the callback's stop() ends a detection that reboot_os
  began since.
* `app/boot_manager.c:117`: `pending_os` is read again after a selection of several
  seconds; the OS reported may not be the one selected.
* `net/http_server.c:223`: reboot shows POST_RUNNING without any detection.
* `app/os_selector.c:42`: BIOS, which `web/app.js:239` promises for a running PC, reaches
  the selector through reboot_os and is taken for Fedora's entry.
* `app/log_buffer.c:129-150` against `log_buffer.h:56`: a slot is visible before it is
  filled, with the line it held before, even one that was cleared, and an answer that is
  overtaken while it is copied has newer lines before older ones.
* `app/log_buffer.c:113-125`: the lock of an append excludes no filler. Text appended
  before the fill is overwritten, and an append that measured what the slot held before
  (or while it was filled) writes into the middle of a line completed since, or beyond its
  end. After a clear, or when a whole lap passes meanwhile, two tasks can fill one slot.
  The comment at `log_buffer.c:9-11` speaks of a single writer and of readers that use a
  spin lock; every task that logs writes, and readers copy without the lock.
* `net/http_server.c:378`: `start` is what `atoi` returns. A negative one is neither
  refused nor fitted to the ring (lines 409-411, `app/log_buffer.c:224-231`), and C's `%`
  keeps its sign: entries are copied from slots that are no line's or lie before the
  first one.
* `web/app.js:60` asks for 500 lines from the oldest, not for the newest 500.
* `net/http_server.c:105-118`: an upload in the 750 ms before the restart erases the image
  that the device has just promised to boot.
* `main.c:276-279`: when confirming fails the device goes on unconfirmed; the next
  reset gives up an image that works, and uploads are refused until then.
* `net/campus_net_auth.c:181-184`: a connection before `campus_net_start` triggers no check.
* `net/http_server.c:298-346`: the settings are answered to be saved whatever the store
  said (`failed` in `ConfigStore`).
* `net/http_server.c:345` against `net/wifi_manager.c:71-74`: an SSID, password, card or
  address longer than the buffer of its reader is saved and then reads as unset
  (`TooLong`), a WPA key of 64 digits among them.
* `app/config_manager.h:63` says that the token is printed on first boot;
  `config_manager.c:99` prints it at each.
* `net/http_server.c:269-287` against the repository's `README.md:195`: what GET answers
  for a key that is unset is not the default that the start takes (`grub_fed_idx` 1
  and 2, `grub_wait_ms` 500 and 3000, `ping_interval_s` 300 and 60, `hdd_quiet_ms` 1500 and
  3000), so that loading the page and saving it unchanged changes the next start.
* `README.md:18` of the repository speaks of settings changed from the page while it
  runs; all but the token and the campus login are read at start only.
* `README.md:48` of the repository has the relays' GPIOs set from the page; the handler
  takes no such key.
* `web/app.js:107`: choosing the system log tab twice leaves the first refresh timer
  running for ever, as only the second is remembered.
* `web/app.js:167`: `api` takes a 409 for a success, so that a boot that was refused is
  shown as begun.


## 7. What is not modelled, and why

* The web page: it runs in a browser, the server relies on nothing it does, and every
  request it can send, at any time and in any order, is among the inputs of the
  models. What it keeps (the last status, timers, which buttons are enabled) decides
  what a user sees; two defects met while reading it are in section 6.
* `/api/status`, `/api/netstat`, `/api/update/info`, GET of `/api/config` and the static
  files: they only read, each value in one critical section.
* The campus card and password, which each login reads one after the other while they
  may be changed: a login with a mixture fails and is repeated (`Authenticates`).
* Parsing, formatting, truncation, tokens and logging texts: no property is about them.
* USB descriptors, GPIO set-up, Kconfig, CMake: declarations.
* `wifi_manager_reconnect`, `campus_net_stop`: without callers. PC_STATE_BOOTING:
  nothing sets it.
* Real time: delays, presses and time-outs last arbitrarily long, except in
  `HddPostDetector`, where lengths are what the code computes.
* Which `ESP_ERROR_CHECK` of app_main a bad image trips over: it is one step (`Panics`).


## 8. Plan

The order is that of importance: the boot flow first, as it switches a PC on and off,
then what keeps the device reachable.

| Step | Modules | State |
|---|---|---|
| 1 | `PostDetector`, `UsbPostDetector`, `HddPostDetector`, `OsSelector`, `UsbSync` | done |
| 2 | `BootManager`, composed of `UsbSync` and `PostDetector`; `BootManagerProofs` | done |
| 3 | `LogBuffer`, `Ota`, `OtaProofs`, `Network` | done |
| 4 | `ConfigStore`, composed with `Ota` to `Device`; `DeviceProofs` | done |
| 5 | `OsSelector` with the BIOS task on the same keyboard | done |
| 6 | `OsSelectorProofs`: `TypeOK`, `SelectsTarget` (with the invariant that the cursor and the remaining steps add up to the target) for menus of any size | done |
| 7 | `UsbPostDetectorProofs`, `HddPostDetectorProofs`: type invariants, `SettlingIsTimed`, `DetectionIsWatched`, `DetectionIsSampled`, and both refinements of `PostDetector`, for any times | done |
| 8 | `LogBufferProofs`: all properties of the log for rings of any size; lemmas about `%` | done |
| 9 | `NetworkProofs`: `NetstatAgrees`, and what giving up leaves | done |
| 10 | `BootManagerProofs`: `ReplacesNoRequest`, the detector's use, `UsbSync` | done |
| 11 | `BootManager` with a detector in place of the interface: what a mount may do while a request is served | |
| 12 | starvation: the esp_timer task in a selection and httpd in an upload, as seen by the tasks that wait for them | |
