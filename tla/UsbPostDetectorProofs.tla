----------------------- MODULE UsbPostDetectorProofs -----------------------
(***************************************************************************)
(* Theorems about UsbPostDetector: its timers, and that it implements      *)
(* PostDetector, the interface that the boot manager is built on.          *)
(*                                                                         *)
(* What a task does next tells what it last saw (Seen).  A step that was   *)
(* not stale acts on that very state, so that it can take a timer away     *)
(* only from a detection that does not need it.                            *)
(***************************************************************************)
EXTENDS UsbPostDetector, TLAPS

\* What a task saw that is about to act on it.
Seen ==
  /\ at["usb"] = "write SETTLING" =>
       saw["usb"] \in {"WAITING_FIRST_MOUNT", "WAITING_REMOUNT"}
  /\ at["usb"] \in {"arm", "disarm", "rearm", "leave", "write WAITING_REMOUNT"} =>
       saw["usb"] = "SETTLING"
  /\ at["timer"] = "write DONE" => saw["timer"] = "SETTLING"
  /\ at["timer"] = "unwatch" => saw["timer"] = "DONE"
  /\ at["timer"] = "disarm" => saw["timer"] = "TIMEOUT"

AtOK ==
  /\ at \in [Tasks -> UNION {Labels[t] : t \in Tasks}]
  /\ \A t \in Tasks : at[t] \in Labels[t]

LEMMA LabelsAre ==
  /\ Labels["usb"] = {"idle", "is remount", "is settling", "write SETTLING", "arm",
                      "disarm", "rearm", "leave", "write WAITING_REMOUNT"}
  /\ Labels["timer"] = {"idle", "settled", "write DONE", "unwatch", "callback",
                        "return", "timed out", "write TIMEOUT", "disarm"}
                         \cup StopLabels
  /\ Labels["api"] = {"idle", "watch"} \cup StopLabels
  BY DEF Labels

\* The step in which task t, and no other, goes on.
Goes(t, from, to) ==
  /\ at[t] = from /\ at'[t] = to
  /\ \A u \in Tasks \ {t} : at'[u] = at[u]
  /\ AtOK' /\ firstMountIsPost' \in BOOLEAN

LEMMA OneGoes ==
  ASSUME TypeOK, NEW t \in Tasks, NEW from, NEW to \in Labels[t], Go(t, from, to)
  PROVE  Goes(t, from, to)
<1>1. at \in [Tasks -> UNION {Labels[u] : u \in Tasks}]  BY DEF TypeOK
<1>2. at[t] = from /\ at'[t] = to  BY <1>1 DEF Go
<1>3. \A u \in Tasks \ {t} : at'[u] = at[u]  BY <1>1 DEF Go
<1>4. AtOK'
  <2>1. to \in UNION {Labels[u] : u \in Tasks}  OBVIOUS
  <2>2. at' \in [Tasks -> UNION {Labels[u] : u \in Tasks}]
    BY <1>1, <2>1 DEF Go
  <2>3. \A u \in Tasks : at'[u] \in Labels[u]
    BY <1>2, <1>3 DEF TypeOK
  <2> QED BY <2>2, <2>3 DEF AtOK
<1> QED BY <1>2, <1>3, <1>4 DEF Go, Goes, TypeOK

\* What a task reads, and what it wrote or relied on, if that was not stale.
Sees(t) ==
  /\ saw' \in [Tasks -> States] /\ saw'[t] = state
  /\ \A u \in Tasks \ {t} : saw'[u] = saw[u]
  /\ state' = state /\ stale' = stale

Puts(t, s) ==
  /\ saw' \in [Tasks -> States] /\ saw'[t] = s
  /\ \A u \in Tasks \ {t} : saw'[u] = saw[u]
  /\ stale' \in BOOLEAN /\ (~stale' => ~stale /\ state = saw[t])
  /\ state' = s

Leaves(t) ==
  /\ saw' = saw /\ state' = state
  /\ stale' \in BOOLEAN /\ (~stale' => ~stale /\ state = saw[t])

LEMMA OneSees ==
  ASSUME TypeOK, NEW t \in Tasks
  PROVE  /\ Reads(t) => Sees(t)
         /\ \A s \in States : Writes(t, s) => Puts(t, s)
         /\ Relies(t) => Leaves(t)
  BY DEF TypeOK, Reads, Writes, Relies, Sees, Puts, Leaves
-----------------------------------------------------------------------------
(* What the client sees of a step *)

\* The step is one of PostDetector's, or none.
Allowed == [IPostDetector!Next]_IPostDetector!detVars

LEMMA Callbacks ==
  /\ at["timer"] = "write DONE" => CallbackOf = "decided"
  /\ at["timer"] \in {"unwatch", "callback", "return"} \cup StopLabels =>
       CallbackOf = "running"
  /\ at["timer"] \in {"idle", "settled", "timed out", "write TIMEOUT", "disarm"} =>
       CallbackOf = "none"
  /\ at'["timer"] = "write DONE" => CallbackOf' = "decided"
  /\ at'["timer"] \in {"unwatch", "callback", "return"} \cup StopLabels =>
       CallbackOf' = "running"
  /\ at'["timer"] \in {"idle", "settled", "timed out", "write TIMEOUT", "disarm"} =>
       CallbackOf' = "none"
  /\ at'["timer"] = at["timer"] => CallbackOf' = CallbackOf
<1>1. /\ at["timer"] = "write DONE" => CallbackOf = "decided"
      /\ at["timer"] \in {"unwatch", "callback", "return"} \cup StopLabels =>
           CallbackOf = "running"
      /\ at["timer"] \in {"idle", "settled", "timed out", "write TIMEOUT", "disarm"} =>
           CallbackOf = "none"
  BY DEF CallbackOf, StopLabels
<1>2. /\ at'["timer"] = "write DONE" => CallbackOf' = "decided"
      /\ at'["timer"] \in {"unwatch", "callback", "return"} \cup StopLabels =>
           CallbackOf' = "running"
      /\ at'["timer"] \in {"idle", "settled", "timed out", "write TIMEOUT", "disarm"} =>
           CallbackOf' = "none"
  BY DEF CallbackOf, StopLabels
<1>3. at'["timer"] = at["timer"] => CallbackOf' = CallbackOf
  BY DEF CallbackOf
<1> QED BY <1>1, <1>2, <1>3

Handling == at["usb"] \in {"write SETTLING", "leave", "write WAITING_REMOUNT"}

MonitoringStays == state' \in Active <=> state \in Active
HandlingStays == Handling' <=> Handling
CallbackStays == CallbackOf' = CallbackOf

\* The steps of PostDetector, by what they change.  (What GiveUp does is Stop.)
LEMMA Stutters ==
  ASSUME MonitoringStays, HandlingStays, CallbackStays
  PROVE  Allowed
<1>1. (state \in Active)' = (state \in Active)  BY DEF MonitoringStays
<1>2. Handling' = Handling  BY DEF HandlingStays
<1>3. CallbackOf' = CallbackOf  BY DEF CallbackStays
<1> QED
  BY <1>1, <1>2, <1>3, Zenon
  DEF Allowed, Handling, IPostDetector!detVars

LEMMA Starts ==
  ASSUME state' \in Active, HandlingStays, CallbackStays
  PROVE  Allowed
<1>1. (state \in Active)' = TRUE  OBVIOUS
<1>2. Handling' = Handling  BY DEF HandlingStays
<1>3. CallbackOf' = CallbackOf  BY DEF CallbackStays
<1> QED
  BY <1>1, <1>2, <1>3, Zenon
  DEF Allowed, Handling, IPostDetector!detVars, IPostDetector!Next, IPostDetector!Start

LEMMA Stops ==
  ASSUME state' \notin Active, HandlingStays, CallbackStays
  PROVE  Allowed
<1>1. (state \in Active)' = FALSE  OBVIOUS
<1>2. Handling' = Handling  BY DEF HandlingStays
<1>3. CallbackOf' = CallbackOf  BY DEF CallbackStays
<1> QED
  BY <1>1, <1>2, <1>3, Zenon
  DEF Allowed, Handling, IPostDetector!detVars, IPostDetector!Next, IPostDetector!Stop

LEMMA Finds ==
  ASSUME state \in Active, state' \in Active, ~Handling, Handling', CallbackStays
  PROVE  Allowed
<1>1. (state \in Active) /\ (state \in Active)' = (state \in Active)  OBVIOUS
<1>2. ~Handling /\ Handling' = TRUE  BY DEF Handling
<1>3. CallbackOf' = CallbackOf  BY DEF CallbackStays
<1> QED
  BY <1>1, <1>2, <1>3, Zenon
  DEF Allowed, Handling, IPostDetector!detVars, IPostDetector!Next, IPostDetector!See

LEMMA Updates ==
  ASSUME state' \in Active, Handling, ~Handling', CallbackStays
  PROVE  Allowed
<1>1. (state \in Active)' = TRUE  OBVIOUS
<1>2. Handling /\ Handling' = FALSE  OBVIOUS
<1>3. CallbackOf' = CallbackOf  BY DEF CallbackStays
<1> QED
  BY <1>1, <1>2, <1>3, Zenon
  DEF Allowed, Handling, IPostDetector!detVars, IPostDetector!Next, IPostDetector!Update

LEMMA Decides ==
  ASSUME state \in Active, state' \in Active,
         HandlingStays, CallbackOf = "none", CallbackOf' = "decided"
  PROVE  Allowed
<1>1. (state \in Active) /\ (state \in Active)' = (state \in Active)  OBVIOUS
<1>2. Handling' = Handling  BY DEF HandlingStays
<1>3. CallbackOf = "none" /\ CallbackOf' = "decided"  OBVIOUS
<1> QED
  BY <1>1, <1>2, <1>3, Zenon
  DEF Allowed, Handling, IPostDetector!detVars, IPostDetector!Next, IPostDetector!Decide

LEMMA Calls ==
  ASSUME state' \notin Active, HandlingStays,
         CallbackOf = "decided", CallbackOf' = "running"
  PROVE  Allowed
<1>1. (state \in Active)' = FALSE  OBVIOUS
<1>2. Handling' = Handling  BY DEF HandlingStays
<1>3. CallbackOf = "decided" /\ CallbackOf' = "running"  OBVIOUS
<1> QED
  BY <1>1, <1>2, <1>3, Zenon
  DEF Allowed, Handling, IPostDetector!detVars, IPostDetector!Next, IPostDetector!Call

LEMMA Returns ==
  ASSUME MonitoringStays, HandlingStays, CallbackOf = "running", CallbackOf' = "none"
  PROVE  Allowed
<1>1. (state \in Active)' = (state \in Active)  BY DEF MonitoringStays
<1>2. Handling' = Handling  BY DEF HandlingStays
<1>3. CallbackOf = "running" /\ CallbackOf' = "none"  OBVIOUS
<1> QED
  BY <1>1, <1>2, <1>3, Zenon
  DEF Allowed, Handling, IPostDetector!detVars, IPostDetector!Next, IPostDetector!Return
-----------------------------------------------------------------------------
DetectorInv == TypeOK /\ Seen /\ SettlingIsTimed /\ DetectionIsWatched

LEMMA UsbKeepsInv ==
  ASSUME DetectorInv, UsbEvent \/ UsbStep
  PROVE  DetectorInv' /\ Allowed
<1>1. TypeOK /\ AtOK  BY DEF DetectorInv, TypeOK, AtOK
<1>2. ASSUME MountIsFirst
      PROVE  /\ \/ state = "WAITING_FIRST_MOUNT" /\ Goes("usb", "idle", "write SETTLING")
                \/ Goes("usb", "idle", "is settling") \/ Goes("usb", "idle", "is remount")
             /\ Sees("usb") /\ mounts' \in 0..MountBound /\ UNCHANGED armed
  <2>1. Sees("usb") /\ mounts' \in 0..MountBound /\ UNCHANGED armed
    <3>1. mounts \in 0..MountBound  BY <1>1 DEF TypeOK
    <3>2. mounts' = IF mounts < MountBound THEN mounts + 1 ELSE mounts
      BY <1>2 DEF MountIsFirst
    <3>3. mounts' \in 0..MountBound  BY <3>1, <3>2 DEF MountBound
    <3> QED BY <1>1, <1>2, <3>3, OneSees DEF MountIsFirst, Tasks
  <2>2. ASSUME Go("usb", "idle", "write SETTLING")
        PROVE Goes("usb", "idle", "write SETTLING")
    BY <1>1, <2>2, OneGoes, LabelsAre DEF Tasks
  <2>3. ASSUME Go("usb", "idle", "is settling") PROVE Goes("usb", "idle", "is settling")
    BY <1>1, <2>3, OneGoes, LabelsAre DEF Tasks
  <2>4. ASSUME Go("usb", "idle", "is remount") PROVE Goes("usb", "idle", "is remount")
    BY <1>1, <2>4, OneGoes, LabelsAre DEF Tasks
  <2> QED BY <1>2, <2>1, <2>2, <2>3, <2>4 DEF MountIsFirst
<1>3. ASSUME MountIsRemount
      PROVE  /\ \/ state = "WAITING_REMOUNT" /\ Goes("usb", "is remount", "write SETTLING")
                \/ Goes("usb", "is remount", "is settling")
             /\ Sees("usb") /\ UNCHANGED <<mounts, armed>>
  <2>1. Sees("usb") /\ UNCHANGED <<mounts, armed>>
    BY <1>1, <1>3, OneSees DEF MountIsRemount, Tasks, States
  <2>2. ASSUME Go("usb", "is remount", "write SETTLING")
        PROVE Goes("usb", "is remount", "write SETTLING")
    BY <1>1, <2>2, OneGoes, LabelsAre DEF Tasks
  <2>3. ASSUME Go("usb", "is remount", "is settling")
        PROVE Goes("usb", "is remount", "is settling")
    BY <1>1, <2>3, OneGoes, LabelsAre DEF Tasks
  <2> QED BY <1>3, <2>1, <2>2, <2>3 DEF MountIsRemount
<1>4. ASSUME MountIsSettling
      PROVE  /\ \/ state = "SETTLING" /\ Goes("usb", "is settling", "disarm")
                \/ Goes("usb", "is settling", "idle")
             /\ Sees("usb") /\ UNCHANGED <<mounts, armed>>
  <2>1. Sees("usb") /\ UNCHANGED <<mounts, armed>>
    BY <1>1, <1>4, OneSees DEF MountIsSettling, Tasks, States
  <2>2. ASSUME Go("usb", "is settling", "disarm")
        PROVE Goes("usb", "is settling", "disarm")
    BY <1>1, <2>2, OneGoes, LabelsAre DEF Tasks
  <2>3. ASSUME Go("usb", "is settling", "idle") PROVE Goes("usb", "is settling", "idle")
    BY <1>1, <2>3, OneGoes, LabelsAre DEF Tasks
  <2> QED BY <1>4, <2>1, <2>2, <2>3 DEF MountIsSettling
<1>5. ASSUME MountSettles
      PROVE  /\ \/ Goes("usb", "write SETTLING", "arm")
                \/ Goes("usb", "write SETTLING", "disarm")
             /\ Puts("usb", "SETTLING") /\ UNCHANGED <<mounts, armed>>
  <2>1. Puts("usb", "SETTLING") /\ UNCHANGED <<mounts, armed>>
    BY <1>1, <1>5, OneSees DEF MountSettles, Tasks, States
  <2>2. ASSUME Go("usb", "write SETTLING", "arm")
        PROVE Goes("usb", "write SETTLING", "arm")
    BY <1>1, <2>2, OneGoes, LabelsAre DEF Tasks
  <2>3. ASSUME Go("usb", "write SETTLING", "disarm")
        PROVE Goes("usb", "write SETTLING", "disarm")
    BY <1>1, <2>3, OneGoes, LabelsAre DEF Tasks
  <2> QED BY <1>5, <2>1, <2>2, <2>3 DEF MountSettles
<1>6. ASSUME MountArms
      PROVE  /\ Goes("usb", "arm", "is settling")
             /\ Leaves("usb") /\ armed' = armed \cup {"settle"} /\ UNCHANGED mounts
  <2>1. Leaves("usb") /\ armed' = armed \cup {"settle"} /\ UNCHANGED mounts
    BY <1>1, <1>6, OneSees DEF MountArms, Tasks, States
  <2>2. Goes("usb", "arm", "is settling")
    BY <1>1, <1>6, OneGoes, LabelsAre DEF MountArms, Tasks, StopLabels
  <2> QED BY <2>1, <2>2
<1>7. ASSUME MountDisarms
      PROVE  /\ Goes("usb", "disarm", "rearm")
             /\ Leaves("usb") /\ armed' = armed \ {"settle"} /\ UNCHANGED mounts
  <2>1. Leaves("usb") /\ armed' = armed \ {"settle"} /\ UNCHANGED mounts
    BY <1>1, <1>7, OneSees DEF MountDisarms, Tasks, States
  <2>2. Goes("usb", "disarm", "rearm")
    BY <1>1, <1>7, OneGoes, LabelsAre DEF MountDisarms, Tasks, StopLabels
  <2> QED BY <2>1, <2>2
<1>8. ASSUME MountRearms
      PROVE  /\ Goes("usb", "rearm", "idle")
             /\ Leaves("usb") /\ armed' = armed \cup {"settle"} /\ UNCHANGED mounts
  <2>1. Leaves("usb") /\ armed' = armed \cup {"settle"} /\ UNCHANGED mounts
    BY <1>1, <1>8, OneSees DEF MountRearms, Tasks, States
  <2>2. Goes("usb", "rearm", "idle")
    BY <1>1, <1>8, OneGoes, LabelsAre DEF MountRearms, Tasks, StopLabels
  <2> QED BY <2>1, <2>2
<1>9. ASSUME Unmount
      PROVE  /\ state = "SETTLING" /\ Goes("usb", "idle", "leave")
             /\ Sees("usb") /\ UNCHANGED <<mounts, armed>>
  <2>1. Sees("usb") /\ UNCHANGED <<mounts, armed>>
    BY <1>1, <1>9, OneSees DEF Unmount, Tasks, States
  <2>2. state = "SETTLING" /\ Goes("usb", "idle", "leave")
    BY <1>1, <1>9, OneGoes, LabelsAre DEF Unmount, Tasks, StopLabels
  <2> QED BY <2>1, <2>2
<1>10. ASSUME UnmountDisarms
      PROVE  /\ Goes("usb", "leave", "write WAITING_REMOUNT")
             /\ Leaves("usb") /\ armed' = armed \ {"settle"} /\ UNCHANGED mounts
  <2>1. Leaves("usb") /\ armed' = armed \ {"settle"} /\ UNCHANGED mounts
    BY <1>1, <1>10, OneSees DEF UnmountDisarms, Tasks, States
  <2>2. Goes("usb", "leave", "write WAITING_REMOUNT")
    BY <1>1, <1>10, OneGoes, LabelsAre DEF UnmountDisarms, Tasks, StopLabels
  <2> QED BY <2>1, <2>2
<1>11. ASSUME UnmountLeaves
      PROVE  /\ Goes("usb", "write WAITING_REMOUNT", "idle")
             /\ Puts("usb", "WAITING_REMOUNT") /\ UNCHANGED <<mounts, armed>>
  <2>1. Puts("usb", "WAITING_REMOUNT") /\ UNCHANGED <<mounts, armed>>
    BY <1>1, <1>11, OneSees DEF UnmountLeaves, Tasks, States
  <2>2. Goes("usb", "write WAITING_REMOUNT", "idle")
    BY <1>1, <1>11, OneGoes, LabelsAre DEF UnmountLeaves, Tasks, StopLabels
  <2> QED BY <2>1, <2>2
<1>12. MountIsFirst => Allowed
  <2> SUFFICES ASSUME MountIsFirst PROVE Allowed  OBVIOUS
  <2>1. CASE state = "WAITING_FIRST_MOUNT" /\ Goes("usb", "idle", "write SETTLING")
    <3>1. state \in Active /\ state' \in Active /\ ~Handling /\ Handling' /\ CallbackStays
      BY <1>2, <2>1, Callbacks
      DEF Goes, Sees, Puts, Leaves, Tasks, Active, Handling, StopLabels,
          MonitoringStays, HandlingStays, CallbackStays
    <3> QED BY <3>1, Finds
  <2>2. CASE Goes("usb", "idle", "is settling") \/ Goes("usb", "idle", "is remount")
    <3>1. MonitoringStays /\ HandlingStays /\ CallbackStays
      BY <1>2, <2>2, Callbacks
      DEF Goes, Sees, Puts, Leaves, Tasks, Active, Handling, StopLabels,
          MonitoringStays, HandlingStays, CallbackStays
    <3> QED BY <3>1, Stutters
  <2> QED BY <1>2, <2>1, <2>2
<1>13. MountIsRemount => Allowed
  <2> SUFFICES ASSUME MountIsRemount PROVE Allowed  OBVIOUS
  <2>1. CASE state = "WAITING_REMOUNT" /\ Goes("usb", "is remount", "write SETTLING")
    <3>1. state \in Active /\ state' \in Active /\ ~Handling /\ Handling' /\ CallbackStays
      BY <1>3, <2>1, Callbacks
      DEF Goes, Sees, Puts, Leaves, Tasks, Active, Handling, StopLabels,
          MonitoringStays, HandlingStays, CallbackStays
    <3> QED BY <3>1, Finds
  <2>2. CASE Goes("usb", "is remount", "is settling")
    <3>1. MonitoringStays /\ HandlingStays /\ CallbackStays
      BY <1>3, <2>2, Callbacks
      DEF Goes, Sees, Puts, Leaves, Tasks, Active, Handling, StopLabels,
          MonitoringStays, HandlingStays, CallbackStays
    <3> QED BY <3>1, Stutters
  <2> QED BY <1>3, <2>1, <2>2
<1>14. MountIsSettling => Allowed
  <2> SUFFICES ASSUME MountIsSettling PROVE Allowed  OBVIOUS
  <2>1. MonitoringStays /\ HandlingStays /\ CallbackStays
    BY <1>4, Callbacks
    DEF Goes, Sees, Puts, Leaves, Tasks, Active, Handling, StopLabels,
        MonitoringStays, HandlingStays, CallbackStays
  <2> QED BY <2>1, Stutters
<1>15. MountSettles => Allowed
  <2> SUFFICES ASSUME MountSettles PROVE Allowed  OBVIOUS
  <2>1. Handling /\ ~Handling' /\ state' \in Active /\ CallbackStays
    BY <1>5, Callbacks
    DEF Goes, Sees, Puts, Leaves, Tasks, Active, Handling, StopLabels,
        MonitoringStays, HandlingStays, CallbackStays
  <2> QED BY <2>1, Updates
<1>16. MountArms => Allowed
  <2> SUFFICES ASSUME MountArms PROVE Allowed  OBVIOUS
  <2>1. MonitoringStays /\ HandlingStays /\ CallbackStays
    BY <1>6, Callbacks
    DEF Goes, Sees, Puts, Leaves, Tasks, Active, Handling, StopLabels,
        MonitoringStays, HandlingStays, CallbackStays
  <2> QED BY <2>1, Stutters
<1>17. MountDisarms => Allowed
  <2> SUFFICES ASSUME MountDisarms PROVE Allowed  OBVIOUS
  <2>1. MonitoringStays /\ HandlingStays /\ CallbackStays
    BY <1>7, Callbacks
    DEF Goes, Sees, Puts, Leaves, Tasks, Active, Handling, StopLabels,
        MonitoringStays, HandlingStays, CallbackStays
  <2> QED BY <2>1, Stutters
<1>18. MountRearms => Allowed
  <2> SUFFICES ASSUME MountRearms PROVE Allowed  OBVIOUS
  <2>1. MonitoringStays /\ HandlingStays /\ CallbackStays
    BY <1>8, Callbacks
    DEF Goes, Sees, Puts, Leaves, Tasks, Active, Handling, StopLabels,
        MonitoringStays, HandlingStays, CallbackStays
  <2> QED BY <2>1, Stutters
<1>19. Unmount => Allowed
  <2> SUFFICES ASSUME Unmount PROVE Allowed  OBVIOUS
  <2>1. state \in Active /\ state' \in Active /\ ~Handling /\ Handling' /\ CallbackStays
    BY <1>9, Callbacks
    DEF Goes, Sees, Puts, Leaves, Tasks, Active, Handling, StopLabels,
        MonitoringStays, HandlingStays, CallbackStays
  <2> QED BY <2>1, Finds
<1>20. UnmountDisarms => Allowed
  <2> SUFFICES ASSUME UnmountDisarms PROVE Allowed  OBVIOUS
  <2>1. MonitoringStays /\ HandlingStays /\ CallbackStays
    BY <1>10, Callbacks
    DEF Goes, Sees, Puts, Leaves, Tasks, Active, Handling, StopLabels,
        MonitoringStays, HandlingStays, CallbackStays
  <2> QED BY <2>1, Stutters
<1>21. UnmountLeaves => Allowed
  <2> SUFFICES ASSUME UnmountLeaves PROVE Allowed  OBVIOUS
  <2>1. Handling /\ ~Handling' /\ state' \in Active /\ CallbackStays
    BY <1>11, Callbacks
    DEF Goes, Sees, Puts, Leaves, Tasks, Active, Handling, StopLabels,
        MonitoringStays, HandlingStays, CallbackStays
  <2> QED BY <2>1, Updates
<1> USE DEF DetectorInv, TypeOK, AtOK, Seen, SettlingIsTimed, DetectionIsWatched, Stopping,
            Goes, Sees, Puts, Leaves, Tasks, Timers, Active, States, StopLabels
<1>22. ASSUME MountIsFirst PROVE DetectorInv'
  <2> USE <1>22, <1>2
  <2>1. TypeOK'  OBVIOUS
  <2>2. Seen'  OBVIOUS
  <2>3. SettlingIsTimed'  OBVIOUS
  <2>4. DetectionIsWatched'  OBVIOUS
  <2> QED BY <2>1, <2>2, <2>3, <2>4
<1>23. ASSUME MountIsRemount PROVE DetectorInv'  BY <1>23, <1>3
<1>24. ASSUME MountIsSettling PROVE DetectorInv'
  <2> USE <1>24, <1>4
  <2>1. TypeOK'  OBVIOUS
  <2>2. Seen'  OBVIOUS
  <2>3. SettlingIsTimed'  OBVIOUS
  <2>4. DetectionIsWatched'  OBVIOUS
  <2> QED BY <2>1, <2>2, <2>3, <2>4
<1>25. ASSUME MountSettles PROVE DetectorInv'  BY <1>25, <1>5
<1>26. ASSUME MountArms PROVE DetectorInv'  BY <1>26, <1>6
<1>27. ASSUME MountDisarms PROVE DetectorInv'  BY <1>27, <1>7
<1>28. ASSUME MountRearms PROVE DetectorInv'  BY <1>28, <1>8
<1>29. ASSUME Unmount PROVE DetectorInv'  BY <1>29, <1>9
<1>30. ASSUME UnmountDisarms PROVE DetectorInv'  BY <1>30, <1>10
<1>31. ASSUME UnmountLeaves PROVE DetectorInv'  BY <1>31, <1>11
<1> QED
  BY <1>12, <1>13, <1>14, <1>15, <1>16, <1>17, <1>18, <1>19, <1>20, <1>21,
     <1>22, <1>23, <1>24, <1>25, <1>26, <1>27, <1>28, <1>29, <1>30, <1>31
  DEF UsbEvent, UsbStep

LEMMA TimerKeepsInv ==
  ASSUME DetectorInv, TimerStep, ~StopStep("timer")
  PROVE  DetectorInv' /\ Allowed
<1>1. TypeOK /\ AtOK  BY DEF DetectorInv, TypeOK, AtOK
<1>2. ASSUME SettleExpires
      PROVE  /\ Goes("timer", "idle", "settled")
             /\ UNCHANGED <<state, mounts, saw, stale>> /\ armed' = armed \ {"settle"}
  <2>1. UNCHANGED <<state, mounts, saw, stale>> /\ armed' = armed \ {"settle"}
    BY <1>1, <1>2 DEF SettleExpires, Expire, Tasks, States
  <2>2. Goes("timer", "idle", "settled")
    BY <1>1, <1>2, OneGoes, LabelsAre DEF SettleExpires, Expire, Tasks, StopLabels
  <2> QED BY <2>1, <2>2
<1>3. ASSUME SettleChecks
      PROVE  /\ \/ state = "SETTLING" /\ Goes("timer", "settled", "write DONE")
                \/ state # "SETTLING" /\ Goes("timer", "settled", "idle")
             /\ Sees("timer") /\ UNCHANGED <<mounts, armed>>
  <2>1. Sees("timer") /\ UNCHANGED <<mounts, armed>>
    BY <1>1, <1>3, OneSees DEF SettleChecks, Tasks, States
  <2>2. ASSUME Go("timer", "settled", "write DONE")
        PROVE Goes("timer", "settled", "write DONE")
    BY <1>1, <2>2, OneGoes, LabelsAre DEF Tasks
  <2>3. ASSUME Go("timer", "settled", "idle") PROVE Goes("timer", "settled", "idle")
    BY <1>1, <2>3, OneGoes, LabelsAre DEF Tasks
  <2> QED BY <1>3, <2>1, <2>2, <2>3 DEF SettleChecks
<1>4. ASSUME SettleDone
      PROVE  /\ Goes("timer", "write DONE", "unwatch")
             /\ Puts("timer", "DONE") /\ UNCHANGED <<mounts, armed>>
  <2>1. Puts("timer", "DONE") /\ UNCHANGED <<mounts, armed>>
    BY <1>1, <1>4, OneSees DEF SettleDone, Tasks, States
  <2>2. Goes("timer", "write DONE", "unwatch")
    BY <1>1, <1>4, OneGoes, LabelsAre DEF SettleDone, Tasks, StopLabels
  <2> QED BY <2>1, <2>2
<1>5. ASSUME SettleUnwatches
      PROVE  /\ Goes("timer", "unwatch", "callback")
             /\ Leaves("timer") /\ armed' = armed \ {"timeout"} /\ UNCHANGED mounts
  <2>1. Leaves("timer") /\ armed' = armed \ {"timeout"} /\ UNCHANGED mounts
    BY <1>1, <1>5, OneSees DEF SettleUnwatches, Tasks, States
  <2>2. Goes("timer", "unwatch", "callback")
    BY <1>1, <1>5, OneGoes, LabelsAre DEF SettleUnwatches, Tasks, StopLabels
  <2> QED BY <2>1, <2>2
<1>6. ASSUME TimeoutExpires
      PROVE  /\ Goes("timer", "idle", "timed out")
             /\ UNCHANGED <<state, mounts, saw, stale>> /\ armed' = armed \ {"timeout"}
  <2>1. UNCHANGED <<state, mounts, saw, stale>> /\ armed' = armed \ {"timeout"}
    BY <1>1, <1>6 DEF TimeoutExpires, Expire, Tasks, States
  <2>2. Goes("timer", "idle", "timed out")
    BY <1>1, <1>6, OneGoes, LabelsAre DEF TimeoutExpires, Expire, Tasks, StopLabels
  <2> QED BY <2>1, <2>2
<1>7. ASSUME TimeoutChecks
      PROVE  /\ \/ Goes("timer", "timed out", "write TIMEOUT")
                \/ state \in {"DONE", "IDLE"} /\ Goes("timer", "timed out", "idle")
             /\ Sees("timer") /\ UNCHANGED <<mounts, armed>>
  <2>1. Sees("timer") /\ UNCHANGED <<mounts, armed>>
    BY <1>1, <1>7, OneSees DEF TimeoutChecks, Tasks, States
  <2>2. ASSUME Go("timer", "timed out", "write TIMEOUT")
        PROVE Goes("timer", "timed out", "write TIMEOUT")
    BY <1>1, <2>2, OneGoes, LabelsAre DEF Tasks
  <2>3. ASSUME Go("timer", "timed out", "idle") PROVE Goes("timer", "timed out", "idle")
    BY <1>1, <2>3, OneGoes, LabelsAre DEF Tasks
  <2> QED BY <1>7, <2>1, <2>2, <2>3 DEF TimeoutChecks
<1>8. ASSUME TimeoutWrites
      PROVE  /\ Goes("timer", "write TIMEOUT", "disarm")
             /\ Puts("timer", "TIMEOUT") /\ UNCHANGED <<mounts, armed>>
  <2>1. Puts("timer", "TIMEOUT") /\ UNCHANGED <<mounts, armed>>
    BY <1>1, <1>8, OneSees DEF TimeoutWrites, Tasks, States
  <2>2. Goes("timer", "write TIMEOUT", "disarm")
    BY <1>1, <1>8, OneGoes, LabelsAre DEF TimeoutWrites, Tasks, StopLabels
  <2> QED BY <2>1, <2>2
<1>9. ASSUME TimeoutDisarms
      PROVE  /\ Goes("timer", "disarm", "idle")
             /\ Leaves("timer") /\ armed' = armed \ {"settle"} /\ UNCHANGED mounts
  <2>1. Leaves("timer") /\ armed' = armed \ {"settle"} /\ UNCHANGED mounts
    BY <1>1, <1>9, OneSees DEF TimeoutDisarms, Tasks, States
  <2>2. Goes("timer", "disarm", "idle")
    BY <1>1, <1>9, OneGoes, LabelsAre DEF TimeoutDisarms, Tasks, StopLabels
  <2> QED BY <2>1, <2>2
<1>10. ASSUME CallbackReturns
      PROVE  /\ Goes("timer", "callback", "idle") \/ Goes("timer", "return", "idle")
             /\ UNCHANGED <<state, mounts, armed, saw, stale>>
  <2>1. UNCHANGED <<state, mounts, armed, saw, stale>>
    BY <1>1, <1>10 DEF CallbackReturns, Tasks, States
  <2>2. ASSUME Go("timer", "callback", "idle") PROVE Goes("timer", "callback", "idle")
    BY <1>1, <2>2, OneGoes, LabelsAre DEF Tasks
  <2>3. ASSUME Go("timer", "return", "idle") PROVE Goes("timer", "return", "idle")
    BY <1>1, <2>3, OneGoes, LabelsAre DEF Tasks
  <2> QED BY <1>10, <2>1, <2>2, <2>3 DEF CallbackReturns
<1>11. SettleExpires => Allowed
  <2> SUFFICES ASSUME SettleExpires PROVE Allowed  OBVIOUS
  <2>1. MonitoringStays /\ HandlingStays /\ CallbackStays
    BY <1>2, Callbacks
    DEF Goes, Sees, Puts, Leaves, Tasks, Active, Handling, StopLabels,
        MonitoringStays, HandlingStays, CallbackStays
  <2> QED BY <2>1, Stutters
<1>12. SettleChecks => Allowed
  <2> SUFFICES ASSUME SettleChecks PROVE Allowed  OBVIOUS
  <2>1. CASE state = "SETTLING" /\ Goes("timer", "settled", "write DONE")
    <3>1. state \in Active /\ state' \in Active /\ HandlingStays
             /\ CallbackOf = "none" /\ CallbackOf' = "decided"
      BY <1>3, <2>1, Callbacks
      DEF Goes, Sees, Puts, Leaves, Tasks, Active, Handling, StopLabels,
          MonitoringStays, HandlingStays, CallbackStays
    <3> QED BY <3>1, Decides
  <2>2. CASE Goes("timer", "settled", "idle")
    <3>1. MonitoringStays /\ HandlingStays /\ CallbackStays
      BY <1>3, <2>2, Callbacks
      DEF Goes, Sees, Puts, Leaves, Tasks, Active, Handling, StopLabels,
          MonitoringStays, HandlingStays, CallbackStays
    <3> QED BY <3>1, Stutters
  <2> QED BY <1>3, <2>1, <2>2
<1>13. SettleDone => Allowed
  <2> SUFFICES ASSUME SettleDone PROVE Allowed  OBVIOUS
  <2>1. state' \notin Active /\ HandlingStays
        /\ CallbackOf = "decided" /\ CallbackOf' = "running"
    BY <1>4, Callbacks
    DEF Goes, Sees, Puts, Leaves, Tasks, Active, Handling, StopLabels,
        MonitoringStays, HandlingStays, CallbackStays
  <2> QED BY <2>1, Calls
<1>14. SettleUnwatches => Allowed
  <2> SUFFICES ASSUME SettleUnwatches PROVE Allowed  OBVIOUS
  <2>1. MonitoringStays /\ HandlingStays /\ CallbackStays
    BY <1>5, Callbacks
    DEF Goes, Sees, Puts, Leaves, Tasks, Active, Handling, StopLabels,
        MonitoringStays, HandlingStays, CallbackStays
  <2> QED BY <2>1, Stutters
<1>15. TimeoutExpires => Allowed
  <2> SUFFICES ASSUME TimeoutExpires PROVE Allowed  OBVIOUS
  <2>1. MonitoringStays /\ HandlingStays /\ CallbackStays
    BY <1>6, Callbacks
    DEF Goes, Sees, Puts, Leaves, Tasks, Active, Handling, StopLabels,
        MonitoringStays, HandlingStays, CallbackStays
  <2> QED BY <2>1, Stutters
<1>16. TimeoutChecks => Allowed
  <2> SUFFICES ASSUME TimeoutChecks PROVE Allowed  OBVIOUS
  <2>1. MonitoringStays /\ HandlingStays /\ CallbackStays
    BY <1>7, Callbacks
    DEF Goes, Sees, Puts, Leaves, Tasks, Active, Handling, StopLabels,
        MonitoringStays, HandlingStays, CallbackStays
  <2> QED BY <2>1, Stutters
<1>17. TimeoutWrites => Allowed
  <2> SUFFICES ASSUME TimeoutWrites PROVE Allowed  OBVIOUS
  <2>1. state' \notin Active /\ HandlingStays /\ CallbackStays
    BY <1>8, Callbacks
    DEF Goes, Sees, Puts, Leaves, Tasks, Active, Handling, StopLabels,
        MonitoringStays, HandlingStays, CallbackStays
  <2> QED BY <2>1, Stops
<1>18. TimeoutDisarms => Allowed
  <2> SUFFICES ASSUME TimeoutDisarms PROVE Allowed  OBVIOUS
  <2>1. MonitoringStays /\ HandlingStays /\ CallbackStays
    BY <1>9, Callbacks
    DEF Goes, Sees, Puts, Leaves, Tasks, Active, Handling, StopLabels,
        MonitoringStays, HandlingStays, CallbackStays
  <2> QED BY <2>1, Stutters
<1>19. CallbackReturns => Allowed
  <2> SUFFICES ASSUME CallbackReturns PROVE Allowed  OBVIOUS
  <2>1. MonitoringStays /\ HandlingStays
        /\ CallbackOf = "running" /\ CallbackOf' = "none"
    BY <1>10, Callbacks
    DEF Goes, Sees, Puts, Leaves, Tasks, Active, Handling, StopLabels,
        MonitoringStays, HandlingStays, CallbackStays
  <2> QED BY <2>1, Returns
<1> USE DEF DetectorInv, TypeOK, AtOK, Seen, SettlingIsTimed, DetectionIsWatched, Stopping,
            Goes, Sees, Puts, Leaves, Tasks, Timers, Active, States, StopLabels
<1>20. ASSUME SettleExpires PROVE DetectorInv'  BY <1>20, <1>2
<1>21. ASSUME SettleChecks PROVE DetectorInv'  BY <1>21, <1>3
<1>22. ASSUME SettleDone PROVE DetectorInv'  BY <1>22, <1>4
<1>23. ASSUME SettleUnwatches PROVE DetectorInv'  BY <1>23, <1>5
<1>24. ASSUME TimeoutExpires PROVE DetectorInv'  BY <1>24, <1>6
<1>25. ASSUME TimeoutChecks PROVE DetectorInv'  BY <1>25, <1>7
<1>26. ASSUME TimeoutWrites PROVE DetectorInv'  BY <1>26, <1>8
<1>27. ASSUME TimeoutDisarms PROVE DetectorInv'  BY <1>27, <1>9
<1>28. ASSUME CallbackReturns PROVE DetectorInv'  BY <1>28, <1>10
<1> QED
  BY <1>11, <1>12, <1>13, <1>14, <1>15, <1>16, <1>17, <1>18, <1>19,
     <1>20, <1>21, <1>22, <1>23, <1>24, <1>25, <1>26, <1>27, <1>28 DEF TimerStep

LEMMA StopKeepsInv ==
  ASSUME DetectorInv, NEW t \in {"timer", "api"}, Stop(t) \/ StopStep(t)
  PROVE  DetectorInv' /\ Allowed
<1>1. TypeOK /\ AtOK  BY DEF DetectorInv, TypeOK, AtOK
<1> t \in Tasks /\ StopLabels \cup {"idle"} \subseteq Labels[t]
  BY LabelsAre DEF Tasks
<1>2. ASSUME Stop(t)
      PROVE  /\ \/ t = "timer" /\ Goes(t, "callback", "stop settle")
                \/ t # "timer" /\ Goes(t, "idle", "stop settle")
             /\ UNCHANGED <<state, mounts, armed, saw, stale>>
  <2>1. UNCHANGED <<state, mounts, armed, saw, stale>>
    BY <1>1, <1>2 DEF Stop, Tasks, States
  <2>2. ASSUME Go(t, "callback", "stop settle") PROVE Goes(t, "callback", "stop settle")
    BY <1>1, <2>2, OneGoes, LabelsAre DEF StopLabels
  <2>3. ASSUME Go(t, "idle", "stop settle") PROVE Goes(t, "idle", "stop settle")
    BY <1>1, <2>3, OneGoes, LabelsAre DEF StopLabels
  <2> QED BY <1>2, <2>1, <2>2, <2>3 DEF Stop
<1>3. ASSUME StopSettle(t)
      PROVE  /\ Goes(t, "stop settle", "stop timeout")
             /\ UNCHANGED <<state, mounts, saw, stale>> /\ armed' = armed \ {"settle"}
  <2>1. UNCHANGED <<state, mounts, saw, stale>> /\ armed' = armed \ {"settle"}
    BY <1>1, <1>3 DEF StopSettle, Tasks, States
  <2>2. Goes(t, "stop settle", "stop timeout")
    BY <1>1, <1>3, OneGoes, LabelsAre DEF StopSettle, Tasks, StopLabels
  <2> QED BY <2>1, <2>2
<1>4. ASSUME StopTimeout(t)
      PROVE  /\ Goes(t, "stop timeout", "write IDLE")
             /\ UNCHANGED <<state, mounts, saw, stale>> /\ armed' = armed \ {"timeout"}
  <2>1. UNCHANGED <<state, mounts, saw, stale>> /\ armed' = armed \ {"timeout"}
    BY <1>1, <1>4 DEF StopTimeout, Tasks, States
  <2>2. Goes(t, "stop timeout", "write IDLE")
    BY <1>1, <1>4, OneGoes, LabelsAre DEF StopTimeout, Tasks, StopLabels
  <2> QED BY <2>1, <2>2
<1>5. ASSUME StopWrites(t)
      PROVE  /\ \/ t = "timer" /\ Goes(t, "write IDLE", "return")
                \/ t # "timer" /\ Goes(t, "write IDLE", "idle")
             /\ UNCHANGED <<mounts, armed, saw, stale>> /\ state' = "IDLE"
  <2>1. UNCHANGED <<mounts, armed, saw, stale>> /\ state' = "IDLE"
    BY <1>1, <1>5, OneSees DEF StopWrites, Tasks, States
  <2>2. ASSUME t = "timer", Go(t, "write IDLE", "return")
        PROVE Goes(t, "write IDLE", "return")
    BY <1>1, <2>2, OneGoes, LabelsAre DEF StopLabels
  <2>3. ASSUME Go(t, "write IDLE", "idle") PROVE Goes(t, "write IDLE", "idle")
    BY <1>1, <2>3, OneGoes, LabelsAre DEF StopLabels
  <2> QED BY <1>5, <2>1, <2>2, <2>3 DEF StopWrites
<1>6. Stop(t) => Allowed
  <2> SUFFICES ASSUME Stop(t) PROVE Allowed  OBVIOUS
  <2>1. MonitoringStays /\ HandlingStays /\ CallbackStays
    BY <1>2, Callbacks
    DEF Goes, Sees, Puts, Leaves, Tasks, Active, Handling, StopLabels,
        MonitoringStays, HandlingStays, CallbackStays
  <2> QED BY <2>1, Stutters
<1>7. StopSettle(t) => Allowed
  <2> SUFFICES ASSUME StopSettle(t) PROVE Allowed  OBVIOUS
  <2>1. MonitoringStays /\ HandlingStays /\ CallbackStays
    BY <1>3, Callbacks
    DEF Goes, Sees, Puts, Leaves, Tasks, Active, Handling, StopLabels,
        MonitoringStays, HandlingStays, CallbackStays
  <2> QED BY <2>1, Stutters
<1>8. StopTimeout(t) => Allowed
  <2> SUFFICES ASSUME StopTimeout(t) PROVE Allowed  OBVIOUS
  <2>1. MonitoringStays /\ HandlingStays /\ CallbackStays
    BY <1>4, Callbacks
    DEF Goes, Sees, Puts, Leaves, Tasks, Active, Handling, StopLabels,
        MonitoringStays, HandlingStays, CallbackStays
  <2> QED BY <2>1, Stutters
<1>9. StopWrites(t) => Allowed
  <2> SUFFICES ASSUME StopWrites(t) PROVE Allowed  OBVIOUS
  <2>1. state' \notin Active /\ HandlingStays /\ CallbackStays
    BY <1>5, Callbacks
    DEF Goes, Sees, Puts, Leaves, Tasks, Active, Handling, StopLabels,
        MonitoringStays, HandlingStays, CallbackStays
  <2> QED BY <2>1, Stops
<1> USE DEF DetectorInv, TypeOK, AtOK, Seen, SettlingIsTimed, DetectionIsWatched, Stopping,
            Goes, Sees, Puts, Leaves, Tasks, Timers, Active, States, StopLabels
<1>10. ASSUME Stop(t) PROVE DetectorInv'
  <2> USE <1>10, <1>2
  <2>1. TypeOK'  OBVIOUS
  <2>2. Seen'  OBVIOUS
  <2>3. SettlingIsTimed'  OBVIOUS
  <2>4. DetectionIsWatched'  OBVIOUS
  <2> QED BY <2>1, <2>2, <2>3, <2>4
<1>11. ASSUME StopSettle(t) PROVE DetectorInv'
  <2> USE <1>11, <1>3
  <2>1. TypeOK'  OBVIOUS
  <2>2. Seen'  OBVIOUS
  <2>3. SettlingIsTimed'  OBVIOUS
  <2>4. DetectionIsWatched'  OBVIOUS
  <2> QED BY <2>1, <2>2, <2>3, <2>4
<1>12. ASSUME StopTimeout(t) PROVE DetectorInv'  BY <1>12, <1>4
<1>13. ASSUME StopWrites(t) PROVE DetectorInv'  BY <1>13, <1>5
<1> QED
  BY <1>6, <1>7, <1>8, <1>9,
     <1>10, <1>11, <1>12, <1>13 DEF StopStep

LEMMA StartKeepsInv ==
  ASSUME DetectorInv, Start \/ StartWatches
  PROVE  DetectorInv' /\ Allowed
<1>1. TypeOK /\ AtOK  BY DEF DetectorInv, TypeOK, AtOK
<1>2. ASSUME Start
      PROVE  /\ Goes("api", "idle", "watch")
             /\ UNCHANGED <<armed, saw, stale>> /\ state' = "WAITING_FIRST_MOUNT"
             /\ mounts' \in 0..MountBound
  <2>1. UNCHANGED <<armed, saw, stale>> /\ state' = "WAITING_FIRST_MOUNT"
             /\ mounts' \in 0..MountBound
    BY <1>1, <1>2 DEF Start, MountBound, TypeOK, Tasks, States
  <2>2. Goes("api", "idle", "watch")
    BY <1>1, <1>2, OneGoes, LabelsAre DEF Start, Tasks, StopLabels
  <2> QED BY <2>1, <2>2
<1>3. ASSUME StartWatches
      PROVE  /\ Goes("api", "watch", "idle")
             /\ UNCHANGED <<state, mounts, saw, stale>> /\ armed' = armed \cup {"timeout"}
  <2>1. UNCHANGED <<state, mounts, saw, stale>> /\ armed' = armed \cup {"timeout"}
    BY <1>1, <1>3 DEF StartWatches, Tasks, States
  <2>2. Goes("api", "watch", "idle")
    BY <1>1, <1>3, OneGoes, LabelsAre DEF StartWatches, Tasks, StopLabels
  <2> QED BY <2>1, <2>2
<1>4. Start => Allowed
  <2> SUFFICES ASSUME Start PROVE Allowed  OBVIOUS
  <2>1. state' \in Active /\ HandlingStays /\ CallbackStays
    BY <1>2, Callbacks
    DEF Goes, Sees, Puts, Leaves, Tasks, Active, Handling, StopLabels,
        MonitoringStays, HandlingStays, CallbackStays
  <2> QED BY <2>1, Starts
<1>5. StartWatches => Allowed
  <2> SUFFICES ASSUME StartWatches PROVE Allowed  OBVIOUS
  <2>1. MonitoringStays /\ HandlingStays /\ CallbackStays
    BY <1>3, Callbacks
    DEF Goes, Sees, Puts, Leaves, Tasks, Active, Handling, StopLabels,
        MonitoringStays, HandlingStays, CallbackStays
  <2> QED BY <2>1, Stutters
<1> USE DEF DetectorInv, TypeOK, AtOK, Seen, SettlingIsTimed, DetectionIsWatched, Stopping,
            Goes, Sees, Puts, Leaves, Tasks, Timers, Active, States, StopLabels
<1>6. ASSUME Start PROVE DetectorInv'  BY <1>6, <1>2
<1>7. ASSUME StartWatches PROVE DetectorInv'  BY <1>7, <1>3
<1> QED
  BY <1>4, <1>5,
     <1>6, <1>7

\* The invariant holds from the start and survives each step.
LEMMA DetectorInvariant == Spec => []DetectorInv
<1>1. Init => DetectorInv
  <2> SUFFICES ASSUME Init PROVE DetectorInv  OBVIOUS
  <2>1. \A t \in Tasks : at[t] = "idle" /\ "idle" \in Labels[t]
    BY LabelsAre DEF Init, Tasks
  <2>2. TypeOK
    <3>1. at \in [Tasks -> UNION {Labels[t] : t \in Tasks}]
      BY <2>1 DEF Init
    <3>2. saw \in [Tasks -> States]  BY DEF Init, States
    <3>3. mounts \in 0..MountBound  BY DEF Init, MountBound
    <3> QED BY <2>1, <3>1, <3>2, <3>3 DEF Init, TypeOK, States
  <2>3. Seen /\ SettlingIsTimed /\ DetectionIsWatched
    BY <2>1 DEF Init, Seen, SettlingIsTimed, DetectionIsWatched, Tasks, Active
  <2> QED BY <2>2, <2>3 DEF DetectorInv
<1>2. DetectorInv /\ [Next]_vars => DetectorInv'
  <2>1. ASSUME UNCHANGED vars, DetectorInv PROVE DetectorInv'
    <3> UNCHANGED <<firstMountIsPost, state, mounts, armed, at, saw, stale>>
      BY <2>1 DEF vars
    <3>1. TypeOK'  BY <2>1 DEF DetectorInv, TypeOK
    <3>2. Seen'  BY <2>1 DEF DetectorInv, Seen
    <3>3. SettlingIsTimed'
      BY <2>1 DEF DetectorInv, SettlingIsTimed, Stopping
    <3>4. DetectionIsWatched'
      BY <2>1 DEF DetectorInv, DetectionIsWatched, Active
    <3> QED BY <3>1, <3>2, <3>3, <3>4 DEF DetectorInv
  <2> QED
    BY <2>1, UsbKeepsInv, TimerKeepsInv, StopKeepsInv, StartKeepsInv
    DEF Next, ApiCall, ApiStep, TimerStep
<1> QED BY <1>1, <1>2, PTL DEF Spec
\* Every variable keeps its type; each task is in a place that it has.
THEOREM DetectorTypeCorrect == Spec => []TypeOK
  BY DetectorInvariant, PTL DEF DetectorInv

\* While the bus settles, something will end the wait, in any interleaving of
\* mounts, unmounts, timers, start() and stop() in which nobody acted on an
\* outdated state.
THEOREM WaitsAreTimed == Spec => []SettlingIsTimed
  BY DetectorInvariant, PTL DEF DetectorInv

\* A detection that is under way has a watchdog, likewise.
THEOREM DetectionsAreWatched == Spec => []DetectionIsWatched
  BY DetectorInvariant, PTL DEF DetectorInv

\* Whatever its tasks do, and however stale, the detector is for the boot manager
\* what PostDetector says.
THEOREM UsbImplementsInterface == Spec => ImplementsIPostDetector
<1>1. Init => IPostDetector!Init
  <2> SUFFICES ASSUME Init PROVE IPostDetector!Init  OBVIOUS
  <2>1. (state \in Active) = FALSE  BY DEF Init, Active
  <2>2. at["usb"] = "idle" /\ at["timer"] = "idle"  BY DEF Init, Tasks
  <2>3. (at["usb"] \in {"write SETTLING", "leave", "write WAITING_REMOUNT"}) = FALSE
    BY <2>2
  <2>4. CallbackOf = "none"  BY <2>2, Callbacks
  <2> QED BY <2>1, <2>3, <2>4, Zenon DEF IPostDetector!Init
<1>2. DetectorInv /\ [Next]_vars => Allowed
  <2>1. ASSUME UNCHANGED vars PROVE Allowed
    <3>1. UNCHANGED <<state, at>>  BY <2>1 DEF vars
    <3>2. MonitoringStays /\ HandlingStays /\ CallbackStays
      BY <3>1, Callbacks DEF MonitoringStays, HandlingStays, CallbackStays, Handling
    <3> QED BY <3>2, Stutters
  <2> QED
    BY <2>1, UsbKeepsInv, TimerKeepsInv, StopKeepsInv, StartKeepsInv
    DEF Next, ApiCall, ApiStep, TimerStep
<1> QED
  BY <1>1, <1>2, DetectorInvariant, PTL
  DEF Spec, ImplementsIPostDetector, IPostDetector!Spec, Allowed
=============================================================================
