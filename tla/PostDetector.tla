---------------------------- MODULE PostDetector ----------------------------
(***************************************************************************)
(* What a POST detector promises to the boot manager: the interface        *)
(* IPostDetector of hal/ihal.h.  The boot manager calls start and stop from *)
(* the HTTP task and, in its callback, from the esp_timer task, where the  *)
(* detector also decides that POST is complete.                            *)
(*                                                                         *)
(* The detectors share their state with these tasks without a lock, so the *)
(* promise is weaker than the comments of ihal.h suggest: a completion     *)
(* that has been decided is called back whatever start and stop do in the  *)
(* meantime, and a handler that saw a detection under way may put it back  *)
(* under way after it has ended.                                           *)
(***************************************************************************)
VARIABLES
  monitoring,   \* a detection is under way and may still complete
  handling,     \* a handler has seen it under way and is yet to update it
  callback      \* how far the esp_timer task is with a completion

detVars == <<monitoring, handling, callback>>

TypeOK ==
  /\ monitoring \in BOOLEAN
  /\ handling \in BOOLEAN
  /\ callback \in {"none", "decided", "running"}

Init ==
  /\ monitoring = FALSE
  /\ handling = FALSE
  /\ callback = "none"

\* start(): a new detection begins; one already under way is forgotten.
Start ==
  /\ monitoring' = TRUE
  /\ UNCHANGED <<handling, callback>>

\* stop(): no further completion is decided, unless a handler revives it.
Stop ==
  /\ monitoring' = FALSE
  /\ UNCHANGED <<handling, callback>>

\* A handler of bus events (or of LED samples) finds a detection under way...
See ==
  /\ monitoring
  /\ ~handling
  /\ handling' = TRUE
  /\ UNCHANGED <<monitoring, callback>>

\* ... and moves it to another of the states that lead to completion.
Update ==
  /\ handling
  /\ handling' = FALSE
  /\ monitoring' = TRUE
  /\ UNCHANGED callback

\* The bus has settled, or the LED has been quiet for long enough.
Decide ==
  /\ monitoring
  /\ callback = "none"
  /\ callback' = "decided"
  /\ UNCHANGED <<monitoring, handling>>

\* The completion is recorded, which ends the detection, even one started
\* since the decision; the client's callback follows.
Call ==
  /\ callback = "decided"
  /\ callback' = "running"
  /\ monitoring' = FALSE
  /\ UNCHANGED handling

\* The client's callback returns.
Return ==
  /\ callback = "running"
  /\ callback' = "none"
  /\ UNCHANGED <<monitoring, handling>>

\* The watchdog ends a detection: no callback, no error, nothing is reported.
GiveUp ==
  /\ monitoring
  /\ callback = "none"
  /\ monitoring' = FALSE
  /\ UNCHANGED <<handling, callback>>

Next ==
  \/ Start \/ Stop \/ See \/ Update \/ Decide \/ Call \/ Return \/ GiveUp

Spec == Init /\ [][Next]_detVars
=============================================================================
