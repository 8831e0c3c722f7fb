-------------------------- MODULE HddPostDetector --------------------------
(***************************************************************************)
(* The HDD LED POST detector (hal/post_detector.c).  An interrupt counts    *)
(* edges of the LED, the esp_timer task samples the count four times a     *)
(* second (sample_timer_cb) and completes after a long enough silence, and *)
(* the HTTP task starts and stops it, all without a lock.                  *)
(*                                                                         *)
(* Time is counted in ticks of SAMPLE_INTERVAL_MS.  It may advance by any  *)
(* number of ticks between two samples, because the esp_timer task is      *)
(* blocked while it selects an OS, but not while a sample is being taken,  *)
(* which lasts microseconds.                                               *)
(***************************************************************************)
EXTENDS Naturals

CONSTANTS
  Warmup,     \* cfg.warmup_ms, in ticks
  Quiet,      \* cfg.quiet_thresh_ms
  Timeout     \* cfg.timeout_ms

ASSUME TicksAssumption ==
  Warmup \in Nat /\ Quiet \in Nat /\ Timeout \in Nat

VARIABLES
  state,      \* d->state
  pulses,     \* d->pulse_count > 0
  counting,   \* the interrupt handler is attached
  sampling,   \* the periodic sample timer runs
  elapsed,    \* time since watchdog_start_us, up to Timeout + 1
  quiet,      \* time since quiet_start_us, up to Quiet, or Unset
  at,         \* at[t]: what task t does next
  drained,    \* the sample's local copy of pulses
  goal,       \* the state the sample is about to set
  silence,    \* history: time since the last edge, up to Quiet
  lost,       \* history: an edge came while the counter was drained
  raced       \* history: start() or stop() overlapped with a sample

vars == <<state, pulses, counting, sampling, elapsed, quiet, at, drained, goal,
          silence, lost, raced>>

States == {"IDLE", "WARMUP", "RUNNING", "QUIET", "DONE", "TIMEOUT"}

Active == {"WARMUP", "RUNNING", "QUIET"}

\* quiet_start_us = 0: as a start time it lies before any silence.
Unset == Quiet + 1

Sampling == {"drain", "clear", "check", "write"}

TypeOK ==
  /\ state \in States
  /\ pulses \in BOOLEAN /\ counting \in BOOLEAN /\ sampling \in BOOLEAN
  /\ elapsed \in 0..Timeout + 1
  /\ quiet \in 0..Quiet + 1
  /\ at \in [{"timer", "api"} ->
               {"idle", "callback", "return", "watch", "attach", "write IDLE"}
                 \cup Sampling]
  /\ drained \in BOOLEAN
  /\ goal \in States
  /\ silence \in 0..Quiet
  /\ lost \in BOOLEAN /\ raced \in BOOLEAN

Init ==
  /\ state = "IDLE"
  /\ pulses = FALSE /\ counting = FALSE /\ sampling = FALSE
  /\ elapsed = 0
  /\ quiet = Unset
  /\ at = [t \in {"timer", "api"} |-> "idle"]
  /\ drained = FALSE
  /\ goal = "IDLE"
  /\ silence = 0
  /\ lost = FALSE /\ raced = FALSE

Go(t, from, to) == at[t] = from /\ at' = [at EXCEPT ![t] = to]

history == <<silence, lost, raced>>
clocks == <<elapsed, quiet>>
io == <<pulses, counting, sampling>>
-----------------------------------------------------------------------------
(* The LED, and time *)

\* hdd_led_isr.
Edge ==
  /\ counting
  /\ pulses' = TRUE
  /\ silence' = 0
  /\ lost' = (lost \/ at["timer"] = "clear")
  /\ UNCHANGED <<state, counting, sampling, clocks, at, drained, goal, raced>>

UpTo(n, limit) == IF n < limit THEN n + 1 ELSE n

Tick ==
  /\ at["timer"] \notin Sampling
  /\ elapsed' = UpTo(elapsed, Timeout + 1)
  /\ quiet' = IF quiet = Unset THEN Unset ELSE UpTo(quiet, Quiet)
  /\ silence' = UpTo(silence, Quiet)
  /\ UNCHANGED <<state, io, at, drained, goal, lost, raced>>
-----------------------------------------------------------------------------
(* sample_timer_cb *)

Sample ==
  /\ sampling
  /\ Go("timer", "idle", "drain")
  /\ raced' = (raced \/ at["api"] # "idle")
  /\ UNCHANGED <<state, io, clocks, drained, goal, silence, lost>>

\* "Drain pulse counter atomically" takes two steps.
SampleDrains ==
  /\ Go("timer", "drain", "clear")
  /\ drained' = pulses
  /\ UNCHANGED <<state, io, clocks, goal, history>>

SampleClears ==
  /\ Go("timer", "clear", "check")
  /\ pulses' = FALSE
  /\ UNCHANGED <<state, counting, sampling, clocks, drained, goal, history>>

\* Mutant: a time-out sets the PC's ERROR, which is no state of a detector.
OutcomeIsUnknown == IF elapsed > Timeout THEN "ERROR" ELSE state

\* Mutant: an edge does not end the silence.
OutcomeIgnoresEdges ==
  CASE elapsed > Timeout -> IF state = "DONE" THEN "DONE" ELSE "TIMEOUT"
    [] elapsed <= Timeout /\ state = "WARMUP" ->
         IF elapsed >= Warmup THEN "RUNNING" ELSE "WARMUP"
    [] elapsed <= Timeout /\ state = "RUNNING" ->
         IF ~drained /\ quiet = Unset THEN "QUIET" ELSE "RUNNING"
    [] elapsed <= Timeout /\ state = "QUIET" ->
         IF quiet >= Quiet THEN "DONE" ELSE "QUIET"
    [] OTHER -> state

\* Mutant: there is no warm-up.
OutcomeSkipsWarmup ==
  CASE elapsed > Timeout -> IF state = "DONE" THEN "DONE" ELSE "TIMEOUT"
    [] elapsed <= Timeout /\ state = "WARMUP" -> "RUNNING"
    [] elapsed <= Timeout /\ state = "RUNNING" ->
         IF ~drained /\ quiet = Unset THEN "QUIET" ELSE "RUNNING"
    [] elapsed <= Timeout /\ state = "QUIET" ->
         IF drained THEN "RUNNING" ELSE IF quiet >= Quiet THEN "DONE" ELSE "QUIET"
    [] OTHER -> state

\* Mutant: the time-out only ends the warm-up.
OutcomeWithoutTimeout ==
  CASE state = "WARMUP" ->
         IF elapsed > Timeout THEN "TIMEOUT"
         ELSE IF elapsed >= Warmup THEN "RUNNING" ELSE "WARMUP"
    [] state = "RUNNING" -> IF ~drained /\ quiet = Unset THEN "QUIET" ELSE "RUNNING"
    [] state = "QUIET" ->
         IF drained THEN "RUNNING" ELSE IF quiet >= Quiet THEN "DONE" ELSE "QUIET"
    [] OTHER -> state

\* The state the sample leads to, the same state when it changes nothing.
Outcome ==
  CASE elapsed > Timeout ->
         IF state = "DONE" THEN "DONE" ELSE "TIMEOUT"
    [] elapsed <= Timeout /\ state = "WARMUP" ->
         IF elapsed >= Warmup THEN "RUNNING" ELSE "WARMUP"
    [] elapsed <= Timeout /\ state = "RUNNING" ->
         IF ~drained /\ quiet = Unset THEN "QUIET" ELSE "RUNNING"
    [] elapsed <= Timeout /\ state = "QUIET" ->
         IF drained THEN "RUNNING" ELSE IF quiet >= Quiet THEN "DONE" ELSE "QUIET"
    [] OTHER -> state

\* quiet_start_us is set before the state, when silence begins or ends.
SampleChecks ==
  /\ Go("timer", "check", IF Outcome = state THEN "idle" ELSE "write")
  /\ goal' = IF Outcome = state THEN "IDLE" ELSE Outcome
  /\ quiet' = IF elapsed > Timeout \/ state \notin {"RUNNING", "QUIET"} THEN quiet
              ELSE IF drained THEN Unset
              ELSE IF Outcome = "QUIET" /\ state = "RUNNING" THEN 0
              ELSE quiet
  /\ drained' = FALSE
  /\ UNCHANGED <<state, io, elapsed, history>>

\* Mutant: a time-out is called back like a completion.
SampleReportsTimeout ==
  /\ Go("timer", "write", IF goal \in {"DONE", "TIMEOUT"} THEN "callback" ELSE "idle")
  /\ state' = goal
  /\ quiet' = IF goal = "RUNNING" THEN Unset ELSE quiet
  /\ goal' = "IDLE"
  /\ UNCHANGED <<io, elapsed, drained, history>>

\* Leaving the warm-up clears quiet_start_us once more.
SampleWrites ==
  /\ Go("timer", "write", IF goal = "DONE" THEN "callback" ELSE "idle")
  /\ state' = goal
  /\ quiet' = IF goal = "RUNNING" THEN Unset ELSE quiet
  /\ goal' = "IDLE"
  /\ UNCHANGED <<io, elapsed, drained, history>>

\* The client's callback returns, whether or not it has called stop().
CallbackReturns ==
  /\ \E from \in {"callback", "return"} : Go("timer", from, "idle")
  /\ UNCHANGED <<state, io, clocks, drained, goal, history>>
-----------------------------------------------------------------------------
(* det_start and det_stop *)

Overlaps == raced' = (raced \/ at["timer"] \in Sampling)

Start ==
  /\ Go("api", "idle", "watch")
  /\ pulses' = FALSE
  /\ state' = "WARMUP"
  /\ Overlaps
  /\ UNCHANGED <<counting, sampling, clocks, drained, goal, silence, lost>>

StartWatches ==
  /\ Go("api", "watch", "attach")
  /\ elapsed' = 0
  /\ quiet' = Unset
  /\ Overlaps
  /\ UNCHANGED <<state, io, drained, goal, silence, lost>>

\* Mutant: the sample timer is not started.
StartForgetsToSample ==
  /\ Go("api", "attach", "idle")
  /\ counting' = TRUE
  /\ Overlaps
  /\ UNCHANGED <<state, pulses, sampling, clocks, drained, goal, silence, lost>>

\* Starting the sample timer has no effect if it still runs.
StartSamples ==
  /\ Go("api", "attach", "idle")
  /\ counting' = TRUE
  /\ sampling' = TRUE
  /\ Overlaps
  /\ UNCHANGED <<state, pulses, clocks, drained, goal, silence, lost>>

\* stop(), from the HTTP task or from the client's callback.
Stop(t) ==
  /\ Go(t, IF t = "timer" THEN "callback" ELSE "idle", "write IDLE")
  /\ counting' = FALSE
  /\ sampling' = FALSE
  /\ Overlaps
  /\ UNCHANGED <<state, pulses, clocks, drained, goal, silence, lost>>

StopWrites(t) ==
  /\ Go(t, "write IDLE", IF t = "timer" THEN "return" ELSE "idle")
  /\ state' = "IDLE"
  /\ Overlaps
  /\ UNCHANGED <<io, clocks, drained, goal, silence, lost>>
-----------------------------------------------------------------------------
SampleStep ==
  \/ Sample \/ SampleDrains \/ SampleClears \/ SampleChecks \/ SampleWrites
  \/ CallbackReturns \/ StopWrites("timer")

ApiStep == StartWatches \/ StartSamples \/ StopWrites("api")

Next ==
  \/ Edge \/ Tick \/ SampleStep \/ Stop("timer")
  \/ Start \/ Stop("api") \/ ApiStep

Spec == Init /\ [][Next]_vars

\* Time passes (SF: samples do not keep it from passing), the periodic timer is
\* dispatched and the tasks are scheduled.
FairSpec == Spec /\ SF_vars(Tick) /\ WF_vars(SampleStep) /\ WF_vars(ApiStep)
-----------------------------------------------------------------------------
(* Properties *)

Completing == at["timer"] = "write" /\ goal = "DONE"

\* post_detector.h:21 "Silence duration to declare POST complete": no sample
\* completes POST unless the LED has been dark for that long, as far as the
\* edges that reach the counter go.  (An edge after the drain is in pulses.)
DoneAfterSilence ==
  Completing /\ ~pulses /\ ~lost /\ ~raced => silence >= Quiet

\* Completion comes after the warm-up and before the time-out.
DoneInTime ==
  Completing /\ ~raced => elapsed \in Warmup + Quiet..Timeout

\* A detection under way is being sampled, or is about to be, or is about to
\* be stopped: otherwise neither completion nor the time-out would come.
DetectionIsSampled ==
  state \in Active /\ ~raced =>
    \/ sampling
    \/ at["api"] \in {"watch", "attach"}
    \/ \E t \in {"timer", "api"} : at[t] = "write IDLE"

\* Every detection ends, in completion, in a time-out, by stop() or by a new
\* start(), unless start() or stop() has overlapped with a sample.
DetectionEnds ==
  state \in Active ~> (state \notin Active \/ at["api"] = "watch" \/ raced)
-----------------------------------------------------------------------------
(* The detector implements the interface the boot manager relies on *)

CallbackOf ==
  CASE Completing -> "decided"
    [] at["timer"] \in {"callback", "write IDLE", "return"} -> "running"
    [] OTHER -> "none"

IPostDetector == INSTANCE PostDetector WITH
  monitoring <- state \in Active,
  handling <- at["timer"] = "write" /\ goal \in {"RUNNING", "QUIET"},
  callback <- CallbackOf

\* hal/ihal.h:39-50: every step of the detector is one the interface allows.
ImplementsIPostDetector == IPostDetector!Spec
=============================================================================
