-------------------------- MODULE UsbPostDetector --------------------------
(***************************************************************************)
(* The USB POST detector (hal/usb_post_detector.c).  Three tasks share     *)
(* d->state without a lock, each access being one step:                    *)
(*                                                                         *)
(*   usb    the TinyUSB task, in usb_event_handler                         *)
(*   timer  the esp_timer task, in settle_timer_cb, in timeout_timer_cb,   *)
(*          and in the client's callback                                   *)
(*   api    the HTTP task, in upost_start and upost_stop                   *)
(*                                                                         *)
(* The two one-shot timers are esp_timer's: starting an armed one fails    *)
(* and changes nothing, a timer leaves "armed" when its callback is        *)
(* dispatched, and stopping it does not recall a dispatched callback.      *)
(* Time is abstracted: an armed timer may expire at any moment.            *)
(***************************************************************************)
EXTENDS Naturals

VARIABLES
  firstMountIsPost,   \* d->cfg.first_mount_is_post: Windows, not GRUB
  state,    \* d->state
  mounts,   \* d->mount_count, counted up to MountBound
  armed,    \* the esp_timers running
  at,       \* at[t]: what task t does next
  saw,      \* saw[t]: the value of state task t last read or wrote
  stale     \* history: a handler acted when state was no longer what it saw

vars == <<firstMountIsPost, state, mounts, armed, at, saw, stale>>

States == {"IDLE", "WAITING_FIRST_MOUNT", "SETTLING", "WAITING_REMOUNT",
           "DONE", "TIMEOUT"}

\* Nothing depends on how many mounts there are beyond the second.
MountBound == 2

\* The states from which a detection can still complete.
Active == {"WAITING_FIRST_MOUNT", "SETTLING", "WAITING_REMOUNT"}

Timers == {"settle", "timeout"}

Tasks == {"usb", "timer", "api"}

StopLabels == {"stop settle", "stop timeout", "write IDLE"}

Labels ==
  [usb   |-> {"idle", "is remount", "is settling", "write SETTLING", "arm",
              "disarm", "rearm", "leave", "write WAITING_REMOUNT"},
   timer |-> {"idle", "settled", "write DONE", "unwatch", "callback",
              "return", "timed out", "write TIMEOUT", "disarm"} \cup StopLabels,
   api   |-> {"idle", "watch"} \cup StopLabels]

TypeOK ==
  /\ firstMountIsPost \in BOOLEAN
  /\ state \in States
  /\ mounts \in 0..MountBound
  /\ armed \subseteq Timers
  /\ at \in [Tasks -> UNION {Labels[t] : t \in Tasks}]
  /\ \A t \in Tasks : at[t] \in Labels[t]
  /\ saw \in [Tasks -> States]
  /\ stale \in BOOLEAN

Init ==
  /\ firstMountIsPost \in BOOLEAN
  /\ state = "IDLE"
  /\ mounts = 0
  /\ armed = {}
  /\ at = [t \in Tasks |-> "idle"]
  /\ saw = [t \in Tasks |-> "IDLE"]
  /\ stale = FALSE
-----------------------------------------------------------------------------
(* Steps of the tasks *)

\* The configuration is fixed when the detector is created.
Go(t, from, to) ==
  /\ at[t] = from
  /\ at' = [at EXCEPT ![t] = to]
  /\ UNCHANGED firstMountIsPost

\* Task t reads state and keeps what it read in mind.
Reads(t) ==
  /\ saw' = [saw EXCEPT ![t] = state]
  /\ UNCHANGED <<state, stale>>

\* Task t sets state, relying on its having the value t last saw.
Writes(t, s) ==
  /\ stale' = (stale \/ state # saw[t])
  /\ state' = s
  /\ saw' = [saw EXCEPT ![t] = s]

\* Task t starts or stops timers, relying on state being what t last saw.
Relies(t) ==
  /\ stale' = (stale \/ state # saw[t])
  /\ UNCHANGED <<state, saw>>
-----------------------------------------------------------------------------
(* usb_event_handler, in the TinyUSB task *)

\* USB_EVENT_MOUNTED.  Each comparison is a read of its own; simple mode
\* falls through to its second test, GRUB mode tries three states in turn.
MountIsFirst ==
  /\ mounts' = IF mounts < MountBound THEN mounts + 1 ELSE mounts
  /\ Reads("usb")
  /\ \/ state = "WAITING_FIRST_MOUNT" /\ Go("usb", "idle", "write SETTLING")
     \/ /\ state # "WAITING_FIRST_MOUNT"
        /\ Go("usb", "idle",
              IF firstMountIsPost THEN "is settling" ELSE "is remount")
  /\ UNCHANGED armed

\* Mutant: counts the mount once more.
MountIsRemountCounts ==
  /\ Reads("usb")
  /\ mounts' = mounts + 1
  /\ Go("usb", "is remount",
        IF state = "WAITING_REMOUNT" THEN "write SETTLING" ELSE "is settling")
  /\ UNCHANGED armed

MountIsRemount ==
  /\ Reads("usb")
  /\ \/ state = "WAITING_REMOUNT" /\ Go("usb", "is remount", "write SETTLING")
     \/ state # "WAITING_REMOUNT" /\ Go("usb", "is remount", "is settling")
  /\ UNCHANGED <<mounts, armed>>

MountIsSettling ==
  /\ Reads("usb")
  /\ \/ state = "SETTLING" /\ Go("usb", "is settling", "disarm")
     \/ state # "SETTLING" /\ Go("usb", "is settling", "idle")
  /\ UNCHANGED <<mounts, armed>>

MountSettles ==
  /\ Go("usb", "write SETTLING", IF firstMountIsPost THEN "arm" ELSE "disarm")
  /\ Writes("usb", "SETTLING")
  /\ UNCHANGED <<mounts, armed>>

\* Simple mode only: the first start_once, before the second test.
MountArms ==
  /\ Go("usb", "arm", "is settling")
  /\ Relies("usb")
  /\ armed' = armed \cup {"settle"}
  /\ UNCHANGED mounts

MountDisarms ==
  /\ Go("usb", "disarm", "rearm")
  /\ Relies("usb")
  /\ armed' = armed \ {"settle"}
  /\ UNCHANGED mounts

\* Mutant: the settle timer is stopped but not restarted.
MountForgetsToRearm ==
  /\ Go("usb", "rearm", "idle")
  /\ Relies("usb")
  /\ UNCHANGED <<mounts, armed>>

MountRearms ==
  /\ Go("usb", "rearm", "idle")
  /\ Relies("usb")
  /\ armed' = armed \cup {"settle"}
  /\ UNCHANGED mounts

\* USB_EVENT_UNMOUNTED matters in GRUB mode, while settling.
Unmount ==
  /\ ~firstMountIsPost
  /\ state = "SETTLING"
  /\ Go("usb", "idle", "leave")
  /\ Reads("usb")
  /\ UNCHANGED <<mounts, armed>>

UnmountDisarms ==
  /\ Go("usb", "leave", "write WAITING_REMOUNT")
  /\ Relies("usb")
  /\ armed' = armed \ {"settle"}
  /\ UNCHANGED mounts

UnmountLeaves ==
  /\ Go("usb", "write WAITING_REMOUNT", "idle")
  /\ Writes("usb", "WAITING_REMOUNT")
  /\ UNCHANGED <<mounts, armed>>
-----------------------------------------------------------------------------
(* settle_timer_cb and timeout_timer_cb, in the esp_timer task *)

Expire(timer, handler) ==
  /\ timer \in armed
  /\ Go("timer", "idle", handler)
  /\ armed' = armed \ {timer}
  /\ UNCHANGED <<state, mounts, saw, stale>>

SettleExpires == Expire("settle", "settled")

\* Mutant: a settle timer that has expired completes POST in any state.
SettleTrusts ==
  /\ Reads("timer")
  /\ Go("timer", "settled", "write DONE")
  /\ UNCHANGED <<mounts, armed>>

SettleChecks ==
  /\ Reads("timer")
  /\ \/ state = "SETTLING" /\ Go("timer", "settled", "write DONE")
     \/ state # "SETTLING" /\ Go("timer", "settled", "idle")
  /\ UNCHANGED <<mounts, armed>>

SettleDone ==
  /\ Go("timer", "write DONE", "unwatch")
  /\ Writes("timer", "DONE")
  /\ UNCHANGED <<mounts, armed>>

SettleUnwatches ==
  /\ Go("timer", "unwatch", "callback")
  /\ Relies("timer")
  /\ armed' = armed \ {"timeout"}
  /\ UNCHANGED mounts

TimeoutExpires == Expire("timeout", "timed out")

\* Mutant: the watchdog leaves a detection that has seen no mount alone.
TimeoutSparesWaiting ==
  /\ Reads("timer")
  /\ Go("timer", "timed out",
        IF state \in {"DONE", "IDLE", "WAITING_FIRST_MOUNT"} THEN "idle"
        ELSE "write TIMEOUT")
  /\ UNCHANGED <<mounts, armed>>

TimeoutChecks ==
  /\ Reads("timer")
  /\ \/ /\ state \notin {"DONE", "IDLE"}
        /\ Go("timer", "timed out", "write TIMEOUT")
     \/ state \in {"DONE", "IDLE"} /\ Go("timer", "timed out", "idle")
  /\ UNCHANGED <<mounts, armed>>

TimeoutWrites ==
  /\ Go("timer", "write TIMEOUT", "disarm")
  /\ Writes("timer", "TIMEOUT")
  /\ UNCHANGED <<mounts, armed>>

TimeoutDisarms ==
  /\ Go("timer", "disarm", "idle")
  /\ Relies("timer")
  /\ armed' = armed \ {"settle"}
  /\ UNCHANGED mounts

\* The client's callback returns, whether or not it has called stop().
CallbackReturns ==
  /\ \E from \in {"callback", "return"} : Go("timer", from, "idle")
  /\ UNCHANGED <<state, mounts, armed, saw, stale>>
-----------------------------------------------------------------------------
(* upost_start and upost_stop *)

\* The client calls start() from the HTTP task.  The settle timer of an
\* earlier detection is left as it is.
Start ==
  /\ Go("api", "idle", "watch")
  /\ state' = "WAITING_FIRST_MOUNT"
  /\ mounts' = 0
  /\ UNCHANGED <<armed, saw, stale>>

\* Mutant: the watchdog is not started.
StartForgetsToWatch ==
  /\ Go("api", "watch", "idle")
  /\ UNCHANGED <<state, mounts, armed, saw, stale>>

\* start_once on the watchdog: no effect if it still runs.
StartWatches ==
  /\ Go("api", "watch", "idle")
  /\ armed' = armed \cup {"timeout"}
  /\ UNCHANGED <<state, mounts, saw, stale>>

\* The client calls stop(), from the HTTP task or from its own callback.
Stop(t) ==
  /\ Go(t, IF t = "timer" THEN "callback" ELSE "idle", "stop settle")
  /\ UNCHANGED <<state, mounts, armed, saw, stale>>

StopSettle(t) ==
  /\ Go(t, "stop settle", "stop timeout")
  /\ armed' = armed \ {"settle"}
  /\ UNCHANGED <<state, mounts, saw, stale>>

StopTimeout(t) ==
  /\ Go(t, "stop timeout", "write IDLE")
  /\ armed' = armed \ {"timeout"}
  /\ UNCHANGED <<state, mounts, saw, stale>>

StopWrites(t) ==
  /\ Go(t, "write IDLE", IF t = "timer" THEN "return" ELSE "idle")
  /\ state' = "IDLE"
  /\ UNCHANGED <<mounts, armed, saw, stale>>
-----------------------------------------------------------------------------
UsbEvent == MountIsFirst \/ Unmount

UsbStep ==
  \/ MountIsRemount \/ MountIsSettling \/ MountSettles \/ MountArms
  \/ MountDisarms \/ MountRearms \/ UnmountDisarms \/ UnmountLeaves

StopStep(t) == StopSettle(t) \/ StopTimeout(t) \/ StopWrites(t)

TimerStep ==
  \/ SettleExpires \/ SettleChecks \/ SettleDone \/ SettleUnwatches
  \/ TimeoutExpires \/ TimeoutChecks \/ TimeoutWrites \/ TimeoutDisarms
  \/ CallbackReturns \/ StopStep("timer")

ApiCall == Start \/ Stop("api")

ApiStep == StartWatches \/ StopStep("api")

Next ==
  \/ UsbEvent \/ UsbStep \/ TimerStep \/ Stop("timer") \/ ApiCall \/ ApiStep

Spec == Init /\ [][Next]_vars

\* The scheduler runs every ready task; esp_timer dispatches what expires.
\* esp_timer serves timers in the order of their deadlines, and start_once does
\* not move the deadline of an armed one: the settle timer, however often it is
\* restarted, cannot keep the watchdog from being dispatched (SF).  Nobody has
\* to plug a cable in or to call start() or stop().
Fairness ==
  /\ WF_vars(UsbStep) /\ WF_vars(TimerStep) /\ WF_vars(ApiStep)
  /\ SF_vars(TimeoutExpires)

FairSpec == Spec /\ Fairness
-----------------------------------------------------------------------------
(* Properties *)

Stopping(t) == at[t] \in {"stop timeout", "write IDLE"}

\* While the bus settles, something will end the wait: the settle timer is
\* armed, or its handler, the mount handler, the unmount handler or a stop()
\* is on the way.  (settle_timer_cb is the only way to POST complete.)
SettlingIsTimed ==
  state = "SETTLING" /\ ~stale =>
    \/ "settle" \in armed
    \/ at["timer"] \in {"settled", "write DONE", "write TIMEOUT"}
    \/ at["usb"] \in {"arm", "disarm", "rearm", "write WAITING_REMOUNT"}
    \/ \E t \in {"timer", "api"} : Stopping(t)

\* A detection under way is watched: the timeout timer is armed, or being
\* armed or served, or a stop() that disarmed it is about to end it.
DetectionIsWatched ==
  state \in Active /\ ~stale =>
    \/ "timeout" \in armed
    \/ at["api"] = "watch"
    \/ at["timer"] \in {"timed out", "write TIMEOUT"}
    \/ \E t \in {"timer", "api"} : at[t] = "write IDLE"

\* Every detection ends, in completion, in a time-out or by stop(), unless a
\* handler acted on an outdated state.
DetectionEnds == state \in Active ~> (state \notin Active \/ stale)

-----------------------------------------------------------------------------
(* The detector implements the interface the boot manager relies on *)

CallbackOf ==
  CASE at["timer"] = "write DONE" -> "decided"
    [] at["timer"] \in {"unwatch", "callback", "return"} \cup StopLabels -> "running"
    [] OTHER -> "none"

IPostDetector == INSTANCE PostDetector WITH
  monitoring <- state \in Active,
  handling <- at["usb"] \in {"write SETTLING", "leave", "write WAITING_REMOUNT"},
  callback <- CallbackOf

\* hal/ihal.h:39-50: every step of the detector is one the interface allows.
ImplementsIPostDetector == IPostDetector!Spec
=============================================================================
