----------------------- MODULE HddPostDetectorProofs -----------------------
(***************************************************************************)
(* Theorems about HddPostDetector, for any lengths of warm-up, silence and *)
(* time-out: what its measured times mean, and that it implements          *)
(* PostDetector, the interface that the boot manager is built on.          *)
(*                                                                         *)
(* The properties are not inductive.  They rest on what a sample that      *)
(* nobody overlapped with has found (Decided), on how elapsed and quiet go *)
(* together while the state lasts (Timed) and on which edges the silence   *)
(* that was measured can have missed (Silent).                             *)
(***************************************************************************)
EXTENDS HddPostDetector, TLAPS

Going(g) == at["timer"] = "write" /\ goal = g

\* A sample sets only these states, and forgets what it has drained.
Sampled ==
  /\ at["timer"] = "write" => goal \in {"RUNNING", "QUIET", "DONE", "TIMEOUT"}
  /\ drained => at["timer"] \in {"clear", "check"}
  /\ at["timer"] = "clear" /\ pulses /\ ~drained => lost

\* Without an overlap there is no sample during start() or stop(), and start()
\* finds its WARMUP, or the IDLE of a callback that stopped since.
Alone ==
  ~raced =>
    /\ at["timer"] \in Sampling => at["api"] = "idle"
    /\ at["api"] \in {"watch", "attach"} => state \in {"WARMUP", "IDLE"}

\* What a sample has found that is about to set the state.
Decided ==
  ~raced =>
    /\ Going("RUNNING") =>
         state \in {"WARMUP", "QUIET"} /\ Warmup <= elapsed /\ elapsed <= Timeout
    /\ Going("QUIET") =>
         state = "RUNNING" /\ quiet = 0 /\ Warmup <= elapsed /\ elapsed <= Timeout
    /\ Going("DONE") =>
         /\ state = "QUIET" /\ quiet = Quiet
         /\ Warmup + Quiet <= elapsed /\ elapsed <= Timeout

\* The times since the start and since silence began, in the states in which
\* they count.
Timed ==
  ~raced =>
    /\ state = "RUNNING" => elapsed > Timeout \/ elapsed >= Warmup
    /\ state = "QUIET" =>
         \/ Going("RUNNING")
         \/ quiet <= Quiet /\ (elapsed > Timeout \/ elapsed >= Warmup + quiet)

\* Unless an edge waits to be drained, or was, it is silent for as long as measured.
Silent ==
  ~raced /\ ~lost /\ ~pulses /\ ~drained /\ state = "QUIET" =>
    Going("RUNNING") \/ Going("TIMEOUT") \/ silence >= quiet

HddInv ==
  TypeOK /\ Sampled /\ Alone /\ Decided /\ Timed /\ Silent /\ DetectionIsSampled

Places == {"idle", "callback", "return", "watch", "attach", "write IDLE"} \cup Sampling

\* The step in which task t, and no other, goes on.
Goes(t, from, to) ==
  /\ at[t] = from /\ at'[t] = to
  /\ \A u \in {"timer", "api"} \ {t} : at'[u] = at[u]
  /\ at' \in [{"timer", "api"} -> Places]

LEMMA OneGoes ==
  ASSUME TypeOK, NEW t \in {"timer", "api"}, NEW from, NEW to \in Places, Go(t, from, to)
  PROVE  Goes(t, from, to)
  BY DEF TypeOK, Go, Goes, Places

LEMMA Numbers ==
  ASSUME TypeOK
  PROVE  /\ Warmup \in Nat /\ Quiet \in Nat /\ Timeout \in Nat
         /\ elapsed \in Nat /\ elapsed <= Timeout + 1
         /\ quiet \in Nat /\ quiet <= Quiet + 1 /\ Unset = Quiet + 1
         /\ silence \in Nat /\ silence <= Quiet
<1>1. Warmup \in Nat /\ Quiet \in Nat /\ Timeout \in Nat  BY TicksAssumption
<1>2. elapsed \in 0..Timeout + 1 /\ quiet \in 0..Quiet + 1 /\ silence \in 0..Quiet
  BY DEF TypeOK
<1> QED BY <1>1, <1>2 DEF Unset

\* The cases of Outcome, in the order of the code.
LEMMA OutcomeIs ==
  ASSUME TypeOK
  PROVE  /\ Outcome \in States
         /\ elapsed > Timeout => Outcome = IF state = "DONE" THEN "DONE" ELSE "TIMEOUT"
         /\ elapsed <= Timeout /\ state = "WARMUP" =>
              Outcome = IF elapsed >= Warmup THEN "RUNNING" ELSE "WARMUP"
         /\ elapsed <= Timeout /\ state = "RUNNING" =>
              Outcome = IF ~drained /\ quiet = Unset THEN "QUIET" ELSE "RUNNING"
         /\ elapsed <= Timeout /\ state = "QUIET" =>
              Outcome = IF drained THEN "RUNNING"
                        ELSE IF quiet >= Quiet THEN "DONE" ELSE "QUIET"
         /\ elapsed <= Timeout /\ state \in {"IDLE", "DONE", "TIMEOUT"} => Outcome = state
<1>1. elapsed > Timeout <=> ~(elapsed <= Timeout)
  BY Numbers
<1>2. CASE elapsed > Timeout
  <2>1. Outcome = IF state = "DONE" THEN "DONE" ELSE "TIMEOUT"
    BY <1>1, <1>2 DEF Outcome
  <2> QED BY <1>1, <1>2, <2>1 DEF States
<1>3. CASE elapsed <= Timeout /\ state = "WARMUP"
  <2>1. Outcome = IF elapsed >= Warmup THEN "RUNNING" ELSE "WARMUP"
    BY <1>1, <1>3 DEF Outcome
  <2> QED BY <1>1, <1>3, <2>1 DEF States
<1>4. CASE elapsed <= Timeout /\ state = "RUNNING"
  <2>1. Outcome = IF ~drained /\ quiet = Unset THEN "QUIET" ELSE "RUNNING"
    BY <1>1, <1>4 DEF Outcome
  <2> QED BY <1>1, <1>4, <2>1 DEF States
<1>5. CASE elapsed <= Timeout /\ state = "QUIET"
  <2>1. Outcome = IF drained THEN "RUNNING"
                  ELSE IF quiet >= Quiet THEN "DONE" ELSE "QUIET"
    BY <1>1, <1>5 DEF Outcome
  <2> QED BY <1>1, <1>5, <2>1 DEF States
<1>6. CASE elapsed <= Timeout /\ state \in {"IDLE", "DONE", "TIMEOUT"}
  <2>1. Outcome = state
    BY <1>1, <1>6 DEF Outcome
  <2> QED BY <1>1, <1>6, <2>1 DEF States
<1> QED BY <1>1, <1>2, <1>3, <1>4, <1>5, <1>6 DEF TypeOK, States
\* The findings of a sample that changes the state.
LEMMA OutcomeChanges ==
  ASSUME TypeOK, Outcome # state
  PROVE  /\ Outcome \in {"RUNNING", "QUIET", "DONE", "TIMEOUT"}
         /\ Outcome = "RUNNING" =>
              elapsed <= Timeout /\ ((state = "WARMUP" /\ elapsed >= Warmup) \/ state = "QUIET")
         /\ Outcome = "QUIET" =>
              elapsed <= Timeout /\ state = "RUNNING" /\ ~drained /\ quiet = Unset
         /\ Outcome = "DONE" =>
              elapsed <= Timeout /\ state = "QUIET" /\ ~drained /\ quiet >= Quiet
<1>1. elapsed > Timeout \/ elapsed <= Timeout  BY Numbers
<1>2. CASE elapsed > Timeout  BY <1>2, OutcomeIs
<1>3. CASE elapsed <= Timeout
  <2>1. state \in {"IDLE", "WARMUP", "RUNNING", "QUIET", "DONE", "TIMEOUT"}
    BY DEF TypeOK, States
  <2>2. CASE state = "WARMUP"  BY <1>3, <2>2, OutcomeIs
  <2>3. CASE state = "RUNNING"  BY <1>3, <2>3, OutcomeIs
  <2>4. CASE state = "QUIET"  BY <1>3, <2>4, OutcomeIs
  <2>5. CASE state \in {"IDLE", "DONE", "TIMEOUT"}  BY <1>3, <2>5, OutcomeIs
  <2> QED BY <2>1, <2>2, <2>3, <2>4, <2>5
<1> QED BY <1>1, <1>2, <1>3
-----------------------------------------------------------------------------
LEMMA TimeKeepsInv ==
  ASSUME HddInv, Edge \/ Tick
  PROVE  HddInv'
<1>1. TypeOK  BY DEF HddInv
<1> USE Numbers, <1>1
<1>2. ASSUME Edge
      PROVE  /\ pulses' = TRUE /\ silence' = 0 /\ lost' = (lost \/ at["timer"] = "clear")
             /\ UNCHANGED <<state, counting, sampling, elapsed, quiet, at, drained, goal, raced>>
  BY <1>2, OneGoes DEF Edge, Places, Sampling, clocks
<1>3. ASSUME Tick
      PROVE  /\ at["timer"] \notin Sampling
             /\ elapsed' = (IF elapsed < Timeout + 1 THEN elapsed + 1 ELSE elapsed)
             /\ quiet' = (IF quiet = Unset THEN Unset ELSE IF quiet < Quiet THEN quiet + 1 ELSE quiet)
             /\ silence' = (IF silence < Quiet THEN silence + 1 ELSE silence)
             /\ UNCHANGED <<state, pulses, counting, sampling, at, drained, goal, lost, raced>>
  BY <1>3, OneGoes DEF Tick, Places, Sampling, UpTo, io
<1>4. ASSUME Edge PROVE TypeOK' /\ Sampled'
  <2>1. pulses' \in BOOLEAN /\ drained' \in BOOLEAN /\ lost' \in BOOLEAN /\ raced' \in BOOLEAN
    BY <1>4, <1>2 DEF TypeOK
  <2>2. TypeOK'
    <3>1. silence' \in 0..Quiet  BY <1>4, <1>2
    <3> QED BY <1>4, <1>2, <2>1, <3>1, Zenon DEF TypeOK
  <2>3. Sampled'
    <3>1. at["timer"] = "clear" => lost'  BY <1>4, <1>2
    <3>2. UNCHANGED <<at, goal, drained>>  BY <1>4, <1>2
    <3> QED BY <3>1, <3>2 DEF HddInv, Sampled
  <2> QED BY <2>2, <2>3
<1>5. ASSUME Tick PROVE TypeOK' /\ Sampled'
  <2>1. pulses' \in BOOLEAN /\ drained' \in BOOLEAN /\ lost' \in BOOLEAN /\ raced' \in BOOLEAN
    BY <1>5, <1>3 DEF TypeOK
  <2>2. TypeOK'
    <3>1. elapsed' \in 0..Timeout + 1 /\ silence' \in 0..Quiet  BY <1>5, <1>3
    <3>2. quiet' \in 0..Quiet + 1  BY <1>5, <1>3
    <3>3. UNCHANGED <<state, pulses, counting, sampling, at, drained, goal, lost, raced>>
      BY <1>5, <1>3
    <3> QED BY <3>1, <3>2, <3>3, Zenon DEF TypeOK
  <2>3. Sampled'
    BY <1>5, <1>3 DEF HddInv, Sampled, Goes
  <2> QED BY <2>2, <2>3
<1> USE DEF HddInv, TypeOK, Sampled, Alone, Decided, Timed, Silent, DetectionIsSampled,
            Goes, Going, Places, Sampling, Active, States
<1>6. ASSUME Edge PROVE HddInv'
  <2> USE <1>6, <1>2
  <2>1. TypeOK' /\ Sampled'  BY <1>4
  <2>2. Alone'  OBVIOUS
  <2>3. Decided'  OBVIOUS
  <2>4. Timed'  OBVIOUS
  <2>5. Silent'  OBVIOUS
  <2>6. DetectionIsSampled'  OBVIOUS
  <2> QED BY <2>1, <2>2, <2>3, <2>4, <2>5, <2>6
<1>7. ASSUME Tick PROVE HddInv'
  <2> USE <1>7, <1>3
  <2>1. TypeOK' /\ Sampled'  BY <1>5
  <2>2. Alone'  OBVIOUS
  <2>3. Decided'  OBVIOUS
  <2>4. Timed'
    <3>0. Timed  OBVIOUS
    <3> HIDE DEF HddInv, TypeOK, Sampled, Alone, Decided, Timed, Silent, DetectionIsSampled,
                 Goes, Going, Places, Sampling, Active, States
    <3>1. elapsed' \in Nat /\ elapsed' >= elapsed /\ (elapsed > Timeout => elapsed' > Timeout)
      OBVIOUS
    <3>2. state = "RUNNING" /\ ~raced => elapsed' > Timeout \/ elapsed' >= Warmup
      BY <3>0, <3>1 DEF Timed
    <3>3. ASSUME state = "QUIET", ~raced
          PROVE  quiet' <= Quiet /\ (elapsed' > Timeout \/ elapsed' >= Warmup + quiet')
      <4>1. quiet <= Quiet /\ (elapsed > Timeout \/ elapsed >= Warmup + quiet)
        BY <3>0, <3>3 DEF Timed, Going, Sampling
      <4>2. quiet' <= quiet + 1 /\ quiet' <= Quiet /\ quiet' \in Nat
        BY <4>1
      <4>3. CASE elapsed > Timeout  BY <4>2, <4>3, <3>1
      <4>4. CASE elapsed <= Timeout
        <5>1. elapsed' = elapsed + 1  BY <4>4
        <5>2. elapsed >= Warmup + quiet  BY <4>1, <4>4
        <5>3. elapsed' >= Warmup + quiet'  BY <5>1, <5>2, <4>2
        <5> QED BY <5>3, <4>2
      <4> QED BY <4>3, <4>4
    <3> QED BY <3>2, <3>3 DEF Timed, Going
  <2>5. Silent'
    <3>0. Silent  OBVIOUS
    <3> HIDE DEF HddInv, TypeOK, Sampled, Alone, Decided, Timed, Silent, DetectionIsSampled,
                 Goes, Going, Places, Sampling, Active, States
    <3>1. ASSUME state = "QUIET", ~raced, ~lost, ~pulses, ~drained
          PROVE  silence' >= quiet'
      <4>1. silence >= quiet  BY <3>0, <3>1 DEF Silent, Going, Sampling
      <4>2. quiet' \in Nat /\ quiet' <= quiet + 1 /\ quiet' <= Quiet  BY <4>1
      <4>3. CASE silence < Quiet  BY <4>1, <4>2, <4>3
      <4>4. CASE silence = Quiet  BY <4>2, <4>4
      <4> QED BY <4>3, <4>4
    <3> QED BY <3>1 DEF Silent
  <2>6. DetectionIsSampled'  OBVIOUS
  <2> QED BY <2>1, <2>2, <2>3, <2>4, <2>5, <2>6
<1> QED BY <1>6, <1>7

LEMMA SampleKeepsInv ==
  ASSUME HddInv, SampleStep, ~StopWrites("timer")
  PROVE  HddInv'
<1>1. TypeOK  BY DEF HddInv
<1> USE Numbers, <1>1
<1>2. ASSUME Sample
      PROVE  /\ Goes("timer", "idle", "drain") /\ sampling
             /\ raced' = (raced \/ at["api"] # "idle")
             /\ UNCHANGED <<state, pulses, counting, sampling, elapsed, quiet, drained, goal,
                            silence, lost>>
  BY <1>2, OneGoes DEF Sample, Places, Sampling, io, clocks
<1>3. ASSUME SampleDrains
      PROVE  /\ Goes("timer", "drain", "clear") /\ drained' = pulses
             /\ UNCHANGED <<state, pulses, counting, sampling, elapsed, quiet, goal,
                            silence, lost, raced>>
  BY <1>3, OneGoes DEF SampleDrains, Places, Sampling, io, clocks, history
<1>4. ASSUME SampleClears
      PROVE  /\ Goes("timer", "clear", "check") /\ pulses' = FALSE
             /\ UNCHANGED <<state, counting, sampling, elapsed, quiet, drained, goal,
                            silence, lost, raced>>
  BY <1>4, OneGoes DEF SampleClears, Places, Sampling, clocks, history
<1>5. ASSUME SampleChecks
      PROVE  /\ \/ Goes("timer", "check", "idle") /\ Outcome = state /\ goal' = "IDLE"
                \/ Goes("timer", "check", "write") /\ Outcome # state /\ goal' = Outcome
             /\ quiet' = (IF elapsed > Timeout \/ state \notin {"RUNNING", "QUIET"} THEN quiet
                          ELSE IF drained THEN Unset
                          ELSE IF Outcome = "QUIET" /\ state = "RUNNING" THEN 0
                          ELSE quiet)
             /\ drained' = FALSE
             /\ UNCHANGED <<state, pulses, counting, sampling, elapsed, silence, lost, raced>>
  <2>1. ASSUME Go("timer", "check", "idle") PROVE Goes("timer", "check", "idle")
    BY <2>1, OneGoes DEF Places, Sampling
  <2>2. ASSUME Go("timer", "check", "write") PROVE Goes("timer", "check", "write")
    BY <2>2, OneGoes DEF Places, Sampling
  <2> QED BY <1>5, <2>1, <2>2 DEF SampleChecks, io, history
<1>6. ASSUME SampleWrites
      PROVE  /\ \/ Goes("timer", "write", "callback") /\ goal = "DONE"
                \/ Goes("timer", "write", "idle") /\ goal # "DONE"
             /\ state' = goal /\ goal' = "IDLE"
             /\ quiet' = (IF goal = "RUNNING" THEN Unset ELSE quiet)
             /\ UNCHANGED <<pulses, counting, sampling, elapsed, drained, silence, lost, raced>>
  <2>1. ASSUME Go("timer", "write", "callback") PROVE Goes("timer", "write", "callback")
    BY <2>1, OneGoes DEF Places, Sampling
  <2>2. ASSUME Go("timer", "write", "idle") PROVE Goes("timer", "write", "idle")
    BY <2>2, OneGoes DEF Places, Sampling
  <2> QED BY <1>6, <2>1, <2>2 DEF SampleWrites, io, history
<1>7. ASSUME CallbackReturns
      PROVE  /\ \/ Goes("timer", "callback", "idle") \/ Goes("timer", "return", "idle")
             /\ UNCHANGED <<state, pulses, counting, sampling, elapsed, quiet, drained, goal,
                            silence, lost, raced>>
  <2>1. ASSUME Go("timer", "callback", "idle") PROVE Goes("timer", "callback", "idle")
    BY <2>1, OneGoes DEF Places, Sampling
  <2>2. ASSUME Go("timer", "return", "idle") PROVE Goes("timer", "return", "idle")
    BY <2>2, OneGoes DEF Places, Sampling
  <2> QED BY <1>7, <2>1, <2>2 DEF CallbackReturns, io, clocks, history
<1>8. ASSUME Sample PROVE TypeOK' /\ Sampled'
  <2>1. pulses' \in BOOLEAN /\ drained' \in BOOLEAN /\ lost' \in BOOLEAN /\ raced' \in BOOLEAN
    BY <1>8, <1>2 DEF TypeOK
  <2>2. TypeOK'
    BY <1>8, <1>2, <2>1 DEF TypeOK, Goes, Places, States
  <2>3. Sampled'
    BY <1>8, <1>2 DEF HddInv, Sampled, Goes
  <2> QED BY <2>2, <2>3
<1>9. ASSUME SampleDrains PROVE TypeOK' /\ Sampled'
  <2>1. pulses' \in BOOLEAN /\ drained' \in BOOLEAN /\ lost' \in BOOLEAN /\ raced' \in BOOLEAN
    BY <1>9, <1>3 DEF TypeOK
  <2>2. TypeOK'
    BY <1>9, <1>3, <2>1 DEF TypeOK, Goes, Places, States
  <2>3. Sampled'
    BY <1>9, <1>3 DEF HddInv, Sampled, Goes
  <2> QED BY <2>2, <2>3
<1>10. ASSUME SampleClears PROVE TypeOK' /\ Sampled'
  <2>1. pulses' \in BOOLEAN /\ drained' \in BOOLEAN /\ lost' \in BOOLEAN /\ raced' \in BOOLEAN
    BY <1>10, <1>4 DEF TypeOK
  <2>2. TypeOK'
    BY <1>10, <1>4, <2>1 DEF TypeOK, Goes, Places, States
  <2>3. Sampled'
    BY <1>10, <1>4 DEF HddInv, Sampled, Goes
  <2> QED BY <2>2, <2>3
<1>11. ASSUME SampleChecks PROVE TypeOK' /\ Sampled'
  <2>1. pulses' \in BOOLEAN /\ drained' \in BOOLEAN /\ lost' \in BOOLEAN /\ raced' \in BOOLEAN
    BY <1>11, <1>5 DEF TypeOK
  <2>2. TypeOK'
    <3>1. Outcome \in States  BY OutcomeIs
    <3>2. goal' \in States  BY <1>11, <1>5, <3>1 DEF States
    <3>3. quiet' \in 0..Quiet + 1  BY <1>11, <1>5
    <3>4. at' \in [{"timer", "api"} -> Places]  BY <1>11, <1>5 DEF Goes
    <3>5. UNCHANGED <<state, pulses, counting, sampling, elapsed, silence, lost, raced>>
      BY <1>11, <1>5
    <3> QED BY <2>1, <3>2, <3>3, <3>4, <3>5, Zenon DEF TypeOK, Places
  <2>3. Sampled'
    <3>1. at'["timer"] = "write" => goal' = Outcome /\ Outcome # state
      BY <1>11, <1>5 DEF Goes
    <3>2. Outcome # state => Outcome \in {"RUNNING", "QUIET", "DONE", "TIMEOUT"}
      BY OutcomeChanges DEF States
    <3>3. at'["timer"] # "clear" /\ ~drained'  BY <1>11, <1>5 DEF Goes
    <3> QED BY <3>1, <3>2, <3>3 DEF Sampled
  <2> QED BY <2>2, <2>3
<1>12. ASSUME SampleWrites PROVE TypeOK' /\ Sampled'
  <2>1. pulses' \in BOOLEAN /\ drained' \in BOOLEAN /\ lost' \in BOOLEAN /\ raced' \in BOOLEAN
    BY <1>12, <1>6 DEF TypeOK
  <2>2. TypeOK'
    <3>1. state' \in States /\ goal' \in States  BY <1>12, <1>6 DEF TypeOK, States
    <3>2. quiet' \in 0..Quiet + 1  BY <1>12, <1>6
    <3>4. at' \in [{"timer", "api"} -> Places]  BY <1>12, <1>6 DEF Goes
    <3>5. UNCHANGED <<pulses, counting, sampling, elapsed, drained, silence, lost, raced>>
      BY <1>12, <1>6
    <3> QED BY <2>1, <3>1, <3>2, <3>4, <3>5, Zenon DEF TypeOK, Places
  <2>3. Sampled'
    BY <1>12, <1>6 DEF HddInv, Sampled, Goes
  <2> QED BY <2>2, <2>3
<1>13. ASSUME CallbackReturns PROVE TypeOK' /\ Sampled'
  <2>1. pulses' \in BOOLEAN /\ drained' \in BOOLEAN /\ lost' \in BOOLEAN /\ raced' \in BOOLEAN
    BY <1>13, <1>7 DEF TypeOK
  <2>2. TypeOK'
    BY <1>13, <1>7, <2>1 DEF TypeOK, Goes, Places, States
  <2>3. Sampled'
    BY <1>13, <1>7 DEF HddInv, Sampled, Goes
  <2> QED BY <2>2, <2>3
<1> USE DEF HddInv, TypeOK, Sampled, Alone, Decided, Timed, Silent, DetectionIsSampled,
            Goes, Going, Places, Sampling, Active, States
<1>14. ASSUME Sample PROVE HddInv'
  <2> USE <1>14, <1>2
  <2>1. TypeOK' /\ Sampled'  BY <1>8
  <2>2. Alone'  OBVIOUS
  <2>3. Decided'  OBVIOUS
  <2>4. Timed'  OBVIOUS
  <2>5. Silent'  OBVIOUS
  <2>6. DetectionIsSampled'  OBVIOUS
  <2> QED BY <2>1, <2>2, <2>3, <2>4, <2>5, <2>6
<1>15. ASSUME SampleDrains PROVE HddInv'
  <2> USE <1>15, <1>3
  <2>1. TypeOK' /\ Sampled'  BY <1>9
  <2>2. Alone'  OBVIOUS
  <2>3. Decided'  OBVIOUS
  <2>4. Timed'  OBVIOUS
  <2>5. Silent'  OBVIOUS
  <2>6. DetectionIsSampled'  OBVIOUS
  <2> QED BY <2>1, <2>2, <2>3, <2>4, <2>5, <2>6
<1>16. ASSUME SampleClears PROVE HddInv'
  <2> USE <1>16, <1>4
  <2>1. TypeOK' /\ Sampled'  BY <1>10
  <2>2. Alone'  OBVIOUS
  <2>3. Decided'  OBVIOUS
  <2>4. Timed'  OBVIOUS
  <2>5. Silent'  OBVIOUS
  <2>6. DetectionIsSampled'  OBVIOUS
  <2> QED BY <2>1, <2>2, <2>3, <2>4, <2>5, <2>6
<1>17. ASSUME SampleChecks PROVE HddInv'
  <2> USE <1>17, <1>5
  <2>1. TypeOK' /\ Sampled'  BY <1>11
  <2>2. Alone'  OBVIOUS
  <2>3. Decided'
    <3>0. Timed  OBVIOUS
    <3>1. at["timer"] = "check" /\ (at'["timer"] = "write" => goal' = Outcome /\ Outcome # state)
      OBVIOUS
    <3> HIDE DEF HddInv, TypeOK, Sampled, Alone, Decided, Timed, Silent, DetectionIsSampled,
                 Goes, Going, Places, Sampling, Active, States
    <3>2. ASSUME ~raced, Going("RUNNING")'
          PROVE  state \in {"WARMUP", "QUIET"} /\ Warmup <= elapsed /\ elapsed <= Timeout
      <4>1. Outcome = "RUNNING" /\ Outcome # state  BY <3>1, <3>2 DEF Going
      <4>2. elapsed <= Timeout /\ ((state = "WARMUP" /\ elapsed >= Warmup) \/ state = "QUIET")
        BY <4>1, OutcomeChanges
      <4>3. state = "QUIET" => elapsed >= Warmup
        <5>1. ~Going("RUNNING")  BY <3>1 DEF Going
        <5> QED BY <3>0, <3>2, <4>2, <5>1 DEF Timed
      <4> QED BY <4>2, <4>3
    <3>3. ASSUME ~raced, Going("QUIET")'
          PROVE  state = "RUNNING" /\ quiet' = 0 /\ Warmup <= elapsed /\ elapsed <= Timeout
      <4>1. Outcome = "QUIET" /\ Outcome # state  BY <3>1, <3>3 DEF Going
      <4>2. elapsed <= Timeout /\ state = "RUNNING" /\ ~drained
        BY <4>1, OutcomeChanges
      <4>3. quiet' = 0  BY <4>1, <4>2
      <4>4. elapsed >= Warmup  BY <3>0, <3>3, <4>2 DEF Timed
      <4> QED BY <4>2, <4>3, <4>4
    <3>4. ASSUME ~raced, Going("DONE")'
          PROVE  /\ state = "QUIET" /\ quiet' = Quiet
                 /\ Warmup + Quiet <= elapsed /\ elapsed <= Timeout
      <4>1. Outcome = "DONE" /\ Outcome # state  BY <3>1, <3>4 DEF Going
      <4>2. elapsed <= Timeout /\ state = "QUIET" /\ ~drained /\ quiet >= Quiet
        BY <4>1, OutcomeChanges
      <4>3. quiet' = quiet  BY <4>1, <4>2
      <4>4. quiet <= Quiet /\ elapsed >= Warmup + quiet
        <5>1. ~Going("RUNNING")  BY <3>1 DEF Going
        <5> QED BY <3>0, <3>4, <4>2, <5>1 DEF Timed
      <4>5. quiet = Quiet  BY <4>2, <4>4
      <4> QED BY <4>2, <4>3, <4>4, <4>5
    <3> QED BY <3>2, <3>3, <3>4 DEF Decided
  <2>4. Timed'
    <3>0. Timed  OBVIOUS
    <3>1. ~Going("RUNNING")  OBVIOUS
    <3>4. (at'["timer"] = "write" /\ goal' = Outcome) \/ Outcome = state  OBVIOUS
    <3> HIDE DEF HddInv, TypeOK, Sampled, Alone, Decided, Timed, Silent, DetectionIsSampled,
                 Goes, Going, Places, Sampling, Active, States
    <3>2. state = "RUNNING" /\ ~raced => elapsed > Timeout \/ elapsed >= Warmup
      BY <3>0 DEF Timed
    <3>3. ASSUME state = "QUIET", ~raced, ~Going("RUNNING")'
          PROVE  quiet' <= Quiet /\ (elapsed > Timeout \/ elapsed >= Warmup + quiet')
      <4>1. quiet <= Quiet /\ (elapsed > Timeout \/ elapsed >= Warmup + quiet)
        BY <3>0, <3>1, <3>3 DEF Timed
      <4>2. elapsed <= Timeout => ~drained
        <5>1. elapsed <= Timeout /\ drained => Outcome = "RUNNING"  BY <3>3, OutcomeIs
        <5> QED BY <3>3, <3>4, <5>1 DEF Going
      <4>3. quiet' = quiet  BY <3>3, <4>2
      <4> QED BY <4>1, <4>3
    <3> QED BY <3>2, <3>3 DEF Timed
  <2>5. Silent'
    <3>0. Silent  OBVIOUS
    <3>1. ~Going("RUNNING") /\ ~Going("TIMEOUT")  OBVIOUS
    <3>3. (at'["timer"] = "write" /\ goal' = Outcome) \/ Outcome = state  OBVIOUS
    <3> HIDE DEF HddInv, TypeOK, Sampled, Alone, Decided, Timed, Silent, DetectionIsSampled,
                 Goes, Going, Places, Sampling, Active, States
    <3>2. ASSUME state = "QUIET", ~raced, ~lost, ~pulses,
                 ~Going("RUNNING")', ~Going("TIMEOUT")'
          PROVE  silence >= quiet'
      <4>1. elapsed <= Timeout /\ ~drained
        <5>1. elapsed <= Timeout /\ drained => Outcome = "RUNNING"  BY <3>2, OutcomeIs
        <5>2. elapsed > Timeout => Outcome = "TIMEOUT"  BY <3>2, OutcomeIs
        <5> QED BY <3>2, <3>3, <5>1, <5>2 DEF Going
      <4>2. quiet' = quiet  BY <3>2, <4>1
      <4>3. silence >= quiet  BY <3>0, <3>1, <3>2, <4>1 DEF Silent
      <4> QED BY <4>2, <4>3
    <3> QED BY <3>2 DEF Silent
  <2>6. DetectionIsSampled'  OBVIOUS
  <2> QED BY <2>1, <2>2, <2>3, <2>4, <2>5, <2>6
<1>18. ASSUME SampleWrites PROVE HddInv'
  <2> USE <1>18, <1>6
  <2>1. TypeOK' /\ Sampled'  BY <1>12
  <2>2. Alone'  OBVIOUS
  <2>3. Decided'  OBVIOUS
  <2>4. Timed'
    <3>1. at["timer"] = "write"  OBVIOUS
    <3>4. Decided  OBVIOUS
    <3> HIDE DEF HddInv, TypeOK, Sampled, Alone, Decided, Timed, Silent, DetectionIsSampled,
                 Goes, Going, Places, Sampling, Active, States
    <3>2. goal = "RUNNING" /\ ~raced => elapsed >= Warmup  BY <3>1, <3>4 DEF Decided, Going
    <3>3. goal = "QUIET" /\ ~raced => quiet' = 0 /\ elapsed >= Warmup + 0
      BY <3>1, <3>4 DEF Decided, Going
    <3> QED BY <3>2, <3>3 DEF Timed
  <2>5. Silent'
    <3>1. at["timer"] = "write"  OBVIOUS
    <3>3. Decided  OBVIOUS
    <3> HIDE DEF HddInv, TypeOK, Sampled, Alone, Decided, Timed, Silent, DetectionIsSampled,
                 Goes, Going, Places, Sampling, Active, States
    <3>2. goal = "QUIET" /\ ~raced => quiet' = 0  BY <3>1, <3>3 DEF Decided, Going
    <3> QED BY <3>2 DEF Silent
  <2>6. DetectionIsSampled'  OBVIOUS
  <2> QED BY <2>1, <2>2, <2>3, <2>4, <2>5, <2>6
<1>19. ASSUME CallbackReturns PROVE HddInv'
  <2> USE <1>19, <1>7
  <2>1. TypeOK' /\ Sampled'  BY <1>13
  <2>2. Alone'  OBVIOUS
  <2>3. Decided'  OBVIOUS
  <2>4. Timed'  OBVIOUS
  <2>5. Silent'  OBVIOUS
  <2>6. DetectionIsSampled'  OBVIOUS
  <2> QED BY <2>1, <2>2, <2>3, <2>4, <2>5, <2>6
<1> QED BY <1>14, <1>15, <1>16, <1>17, <1>18, <1>19 DEF SampleStep

LEMMA StartKeepsInv ==
  ASSUME HddInv, Start \/ StartWatches \/ StartSamples
  PROVE  HddInv'
<1>1. TypeOK  BY DEF HddInv
<1> USE Numbers, <1>1
<1>2. ASSUME Start
      PROVE  /\ Goes("api", "idle", "watch") /\ pulses' = FALSE /\ state' = "WARMUP"
             /\ raced' = (raced \/ at["timer"] \in Sampling)
             /\ UNCHANGED <<counting, sampling, elapsed, quiet, drained, goal, silence, lost>>
  BY <1>2, OneGoes DEF Start, Places, Sampling, Overlaps, clocks
<1>3. ASSUME StartWatches
      PROVE  /\ Goes("api", "watch", "attach") /\ elapsed' = 0 /\ quiet' = Unset
             /\ raced' = (raced \/ at["timer"] \in Sampling)
             /\ UNCHANGED <<state, pulses, counting, sampling, drained, goal, silence, lost>>
  BY <1>3, OneGoes DEF StartWatches, Places, Sampling, Overlaps, io
<1>4. ASSUME StartSamples
      PROVE  /\ Goes("api", "attach", "idle") /\ counting' = TRUE /\ sampling' = TRUE
             /\ raced' = (raced \/ at["timer"] \in Sampling)
             /\ UNCHANGED <<state, pulses, elapsed, quiet, drained, goal, silence, lost>>
  BY <1>4, OneGoes DEF StartSamples, Places, Sampling, Overlaps, clocks
<1>5. ASSUME Start PROVE TypeOK' /\ Sampled'
  <2>1. pulses' \in BOOLEAN /\ drained' \in BOOLEAN /\ lost' \in BOOLEAN /\ raced' \in BOOLEAN
    BY <1>5, <1>2 DEF TypeOK
  <2>2. TypeOK'
    BY <1>5, <1>2, <2>1 DEF TypeOK, Goes, Places, States
  <2>3. Sampled'
    BY <1>5, <1>2 DEF HddInv, Sampled, Goes
  <2> QED BY <2>2, <2>3
<1>6. ASSUME StartWatches PROVE TypeOK' /\ Sampled'
  <2>1. pulses' \in BOOLEAN /\ drained' \in BOOLEAN /\ lost' \in BOOLEAN /\ raced' \in BOOLEAN
    BY <1>6, <1>3 DEF TypeOK
  <2>2. TypeOK'
    <3>1. elapsed' \in 0..Timeout + 1 /\ quiet' \in 0..Quiet + 1  BY <1>6, <1>3
    <3>2. at' \in [{"timer", "api"} -> Places]  BY <1>6, <1>3 DEF Goes
    <3>3. UNCHANGED <<state, pulses, counting, sampling, drained, goal, silence, lost>>
      BY <1>6, <1>3
    <3> QED BY <2>1, <3>1, <3>2, <3>3, Zenon DEF TypeOK, Places
  <2>3. Sampled'
    BY <1>6, <1>3 DEF HddInv, Sampled, Goes
  <2> QED BY <2>2, <2>3
<1>7. ASSUME StartSamples PROVE TypeOK' /\ Sampled'
  <2>1. pulses' \in BOOLEAN /\ drained' \in BOOLEAN /\ lost' \in BOOLEAN /\ raced' \in BOOLEAN
    BY <1>7, <1>4 DEF TypeOK
  <2>2. TypeOK'
    BY <1>7, <1>4, <2>1 DEF TypeOK, Goes, Places, States
  <2>3. Sampled'
    BY <1>7, <1>4 DEF HddInv, Sampled, Goes
  <2> QED BY <2>2, <2>3
<1> USE DEF HddInv, TypeOK, Sampled, Alone, Decided, Timed, Silent, DetectionIsSampled,
            Goes, Going, Places, Sampling, Active, States
<1>8. ASSUME Start PROVE HddInv'
  <2> USE <1>8, <1>2
  <2>1. TypeOK' /\ Sampled'  BY <1>5
  <2>2. Alone'  OBVIOUS
  <2>3. Decided'  OBVIOUS
  <2>4. Timed'  OBVIOUS
  <2>5. Silent'  OBVIOUS
  <2>6. DetectionIsSampled'  OBVIOUS
  <2> QED BY <2>1, <2>2, <2>3, <2>4, <2>5, <2>6
<1>9. ASSUME StartWatches PROVE HddInv'
  <2> USE <1>9, <1>3
  <2>1. TypeOK' /\ Sampled'  BY <1>6
  <2>2. Alone'  OBVIOUS
  <2>3. Decided'  OBVIOUS
  <2>4. Timed'  OBVIOUS
  <2>5. Silent'  OBVIOUS
  <2>6. DetectionIsSampled'  OBVIOUS
  <2> QED BY <2>1, <2>2, <2>3, <2>4, <2>5, <2>6
<1>10. ASSUME StartSamples PROVE HddInv'
  <2> USE <1>10, <1>4
  <2>1. TypeOK' /\ Sampled'  BY <1>7
  <2>2. Alone'  OBVIOUS
  <2>3. Decided'  OBVIOUS
  <2>4. Timed'  OBVIOUS
  <2>5. Silent'  OBVIOUS
  <2>6. DetectionIsSampled'  OBVIOUS
  <2> QED BY <2>1, <2>2, <2>3, <2>4, <2>5, <2>6
<1> QED BY <1>8, <1>9, <1>10

LEMMA StopKeepsInv ==
  ASSUME HddInv, NEW t \in {"timer", "api"}, Stop(t) \/ StopWrites(t)
  PROVE  HddInv'
<1>1. TypeOK  BY DEF HddInv
<1> USE Numbers, <1>1
<1>2. ASSUME Stop(t)
      PROVE  /\ \/ t = "timer" /\ Goes(t, "callback", "write IDLE")
                \/ t = "api" /\ Goes(t, "idle", "write IDLE")
             /\ counting' = FALSE /\ sampling' = FALSE
             /\ raced' = (raced \/ at["timer"] \in Sampling)
             /\ UNCHANGED <<state, pulses, elapsed, quiet, drained, goal, silence, lost>>
  <2>1. ASSUME Go(t, "callback", "write IDLE") PROVE Goes(t, "callback", "write IDLE")
    BY <2>1, OneGoes DEF Places, Sampling
  <2>2. ASSUME Go(t, "idle", "write IDLE") PROVE Goes(t, "idle", "write IDLE")
    BY <2>2, OneGoes DEF Places, Sampling
  <2> QED BY <1>2, <2>1, <2>2 DEF Stop, Overlaps, clocks
<1>3. ASSUME StopWrites(t)
      PROVE  /\ \/ t = "timer" /\ Goes(t, "write IDLE", "return")
                \/ t = "api" /\ Goes(t, "write IDLE", "idle")
             /\ state' = "IDLE"
             /\ raced' = (raced \/ at["timer"] \in Sampling)
             /\ UNCHANGED <<pulses, counting, sampling, elapsed, quiet, drained, goal, silence, lost>>
  <2>1. ASSUME Go(t, "write IDLE", "return") PROVE Goes(t, "write IDLE", "return")
    BY <2>1, OneGoes DEF Places, Sampling
  <2>2. ASSUME Go(t, "write IDLE", "idle") PROVE Goes(t, "write IDLE", "idle")
    BY <2>2, OneGoes DEF Places, Sampling
  <2> QED BY <1>3, <2>1, <2>2 DEF StopWrites, Overlaps, io, clocks
<1>4. ASSUME Stop(t) PROVE TypeOK' /\ Sampled'
  <2>1. pulses' \in BOOLEAN /\ drained' \in BOOLEAN /\ lost' \in BOOLEAN /\ raced' \in BOOLEAN
    BY <1>4, <1>2 DEF TypeOK
  <2>2. TypeOK'
    BY <1>4, <1>2, <2>1 DEF TypeOK, Goes, Places, States
  <2>3. Sampled'
    <3>1. UNCHANGED <<goal, drained, pulses, lost>>  BY <1>4, <1>2
    <3>2. \/ UNCHANGED at["timer"]
          \/ at["timer"] = "callback" /\ at'["timer"] = "write IDLE"
      <4>1. CASE t = "timer"  BY <1>4, <1>2, <4>1 DEF Goes
      <4>2. CASE t = "api"  BY <1>4, <1>2, <4>2 DEF Goes
      <4> QED BY <4>1, <4>2
    <3> QED BY <3>1, <3>2 DEF HddInv, Sampled
  <2> QED BY <2>2, <2>3
<1>5. ASSUME StopWrites(t) PROVE TypeOK' /\ Sampled'
  <2>1. pulses' \in BOOLEAN /\ drained' \in BOOLEAN /\ lost' \in BOOLEAN /\ raced' \in BOOLEAN
    BY <1>5, <1>3 DEF TypeOK
  <2>2. TypeOK'
    BY <1>5, <1>3, <2>1 DEF TypeOK, Goes, Places, States
  <2>3. Sampled'
    <3>1. UNCHANGED <<goal, drained, pulses, lost>>  BY <1>5, <1>3
    <3>2. \/ UNCHANGED at["timer"]
          \/ at["timer"] = "write IDLE" /\ at'["timer"] = "return"
      <4>1. CASE t = "timer"  BY <1>5, <1>3, <4>1 DEF Goes
      <4>2. CASE t = "api"  BY <1>5, <1>3, <4>2 DEF Goes
      <4> QED BY <4>1, <4>2
    <3> QED BY <3>1, <3>2 DEF HddInv, Sampled
  <2> QED BY <2>2, <2>3
<1> USE DEF HddInv, TypeOK, Sampled, Alone, Decided, Timed, Silent, DetectionIsSampled,
            Goes, Going, Places, Sampling, Active, States
<1>6. ASSUME Stop(t) PROVE HddInv'
  <2> USE <1>6, <1>2
  <2>1. TypeOK' /\ Sampled'  BY <1>4
  <2>2. Alone'  OBVIOUS
  <2>3. Decided'  OBVIOUS
  <2>4. Timed'  OBVIOUS
  <2>5. Silent'  OBVIOUS
  <2>6. DetectionIsSampled'  OBVIOUS
  <2> QED BY <2>1, <2>2, <2>3, <2>4, <2>5, <2>6
<1>7. ASSUME StopWrites(t) PROVE HddInv'
  <2> USE <1>7, <1>3
  <2>1. TypeOK' /\ Sampled'  BY <1>5
  <2>2. Alone'  OBVIOUS
  <2>3. Decided'  OBVIOUS
  <2>4. Timed'  OBVIOUS
  <2>5. Silent'  OBVIOUS
  <2>6. DetectionIsSampled'  OBVIOUS
  <2> QED BY <2>1, <2>2, <2>3, <2>4, <2>5, <2>6
<1> QED BY <1>6, <1>7
-----------------------------------------------------------------------------
(* What the client sees of a step *)

\* The step is one of PostDetector's, or none.
Allowed == [IPostDetector!Next]_IPostDetector!detVars

LEMMA Callbacks ==
  /\ Going("DONE") => CallbackOf = "decided"
  /\ at["timer"] \in {"callback", "write IDLE", "return"} => CallbackOf = "running"
  /\ at["timer"] \notin {"callback", "write IDLE", "return"} /\ ~Going("DONE") =>
       CallbackOf = "none"
  /\ Going("DONE")' => CallbackOf' = "decided"
  /\ at'["timer"] \in {"callback", "write IDLE", "return"} => CallbackOf' = "running"
  /\ at'["timer"] \notin {"callback", "write IDLE", "return"} /\ ~Going("DONE")' =>
       CallbackOf' = "none"
<1>1. /\ Going("DONE") => CallbackOf = "decided"
      /\ at["timer"] \in {"callback", "write IDLE", "return"} => CallbackOf = "running"
      /\ at["timer"] \notin {"callback", "write IDLE", "return"} /\ ~Going("DONE") =>
           CallbackOf = "none"
  BY DEF CallbackOf, Completing, Going
<1>2. /\ Going("DONE")' => CallbackOf' = "decided"
      /\ at'["timer"] \in {"callback", "write IDLE", "return"} => CallbackOf' = "running"
      /\ at'["timer"] \notin {"callback", "write IDLE", "return"} /\ ~Going("DONE")' =>
           CallbackOf' = "none"
  BY DEF CallbackOf, Completing, Going
<1> QED BY <1>1, <1>2

Handling == at["timer"] = "write" /\ goal \in {"RUNNING", "QUIET"}

MonitoringStays == state' \in Active <=> state \in Active
HandlingStays == Handling' <=> Handling
CallbackStays == CallbackOf' = CallbackOf

\* The steps of PostDetector, by what they change.  (What GiveUp does is Stop.)
LEMMA Stutters ==
  ASSUME MonitoringStays, HandlingStays, CallbackStays
  PROVE  Allowed
<1>1. (state \in Active)' = (state \in Active)  BY DEF MonitoringStays
<1>2. Handling' = Handling  BY DEF HandlingStays, Handling
<1>3. CallbackOf' = CallbackOf  BY DEF CallbackStays
<1> QED
  BY <1>1, <1>2, <1>3, Zenon
  DEF Allowed, Handling, IPostDetector!detVars

LEMMA Starts ==
  ASSUME state' \in Active, HandlingStays, CallbackStays
  PROVE  Allowed
<1>1. (state \in Active)' = TRUE  OBVIOUS
<1>2. Handling' = Handling  BY DEF HandlingStays, Handling
<1>3. CallbackOf' = CallbackOf  BY DEF CallbackStays
<1> QED
  BY <1>1, <1>2, <1>3, Zenon
  DEF Allowed, Handling, IPostDetector!detVars, IPostDetector!Next, IPostDetector!Start

LEMMA Stops ==
  ASSUME state' \notin Active, HandlingStays, CallbackStays
  PROVE  Allowed
<1>1. (state \in Active)' = FALSE  OBVIOUS
<1>2. Handling' = Handling  BY DEF HandlingStays, Handling
<1>3. CallbackOf' = CallbackOf  BY DEF CallbackStays
<1> QED
  BY <1>1, <1>2, <1>3, Zenon
  DEF Allowed, Handling, IPostDetector!detVars, IPostDetector!Next, IPostDetector!Stop

LEMMA Finds ==
  ASSUME state \in Active, state' \in Active, ~Handling, Handling', CallbackStays
  PROVE  Allowed
<1>1. (state \in Active) /\ (state \in Active)' = (state \in Active)  OBVIOUS
<1>2. ~Handling /\ Handling' = TRUE  BY DEF Handling
<1>3. CallbackOf' = CallbackOf  BY DEF CallbackStays
<1> QED
  BY <1>1, <1>2, <1>3, Zenon
  DEF Allowed, Handling, IPostDetector!detVars, IPostDetector!Next, IPostDetector!See

LEMMA Updates ==
  ASSUME state' \in Active, Handling, ~Handling', CallbackStays
  PROVE  Allowed
<1>1. (state \in Active)' = TRUE  OBVIOUS
<1>2. Handling /\ Handling' = FALSE  BY DEF Handling
<1>3. CallbackOf' = CallbackOf  BY DEF CallbackStays
<1> QED
  BY <1>1, <1>2, <1>3, Zenon
  DEF Allowed, Handling, IPostDetector!detVars, IPostDetector!Next, IPostDetector!Update

LEMMA Decides ==
  ASSUME state \in Active, state' \in Active,
         HandlingStays, CallbackOf = "none", CallbackOf' = "decided"
  PROVE  Allowed
<1>1. (state \in Active) /\ (state \in Active)' = (state \in Active)  OBVIOUS
<1>2. Handling' = Handling  BY DEF HandlingStays, Handling
<1>3. CallbackOf = "none" /\ CallbackOf' = "decided"  OBVIOUS
<1> QED
  BY <1>1, <1>2, <1>3, Zenon
  DEF Allowed, Handling, IPostDetector!detVars, IPostDetector!Next, IPostDetector!Decide

LEMMA Calls ==
  ASSUME state' \notin Active, HandlingStays,
         CallbackOf = "decided", CallbackOf' = "running"
  PROVE  Allowed
<1>1. (state \in Active)' = FALSE  OBVIOUS
<1>2. Handling' = Handling  BY DEF HandlingStays, Handling
<1>3. CallbackOf = "decided" /\ CallbackOf' = "running"  OBVIOUS
<1> QED
  BY <1>1, <1>2, <1>3, Zenon
  DEF Allowed, Handling, IPostDetector!detVars, IPostDetector!Next, IPostDetector!Call

LEMMA Returns ==
  ASSUME MonitoringStays, HandlingStays, CallbackOf = "running", CallbackOf' = "none"
  PROVE  Allowed
<1>1. (state \in Active)' = (state \in Active)  BY DEF MonitoringStays
<1>2. Handling' = Handling  BY DEF HandlingStays, Handling
<1>3. CallbackOf = "running" /\ CallbackOf' = "none"  OBVIOUS
<1> QED
  BY <1>1, <1>2, <1>3, Zenon
  DEF Allowed, Handling, IPostDetector!detVars, IPostDetector!Next, IPostDetector!Return

\* The interface sees nothing of what leaves the place of the esp_timer task
\* and its goal alone, or moves it between the places before a decision.
LEMMA TaskStays ==
  ASSUME at'["timer"] = at["timer"], goal' = goal
  PROVE  HandlingStays /\ CallbackStays
  BY DEF HandlingStays, Handling, CallbackStays, CallbackOf, Completing

LEMMA SampleIsAllowed ==
  ASSUME HddInv, SampleStep
  PROVE  Allowed
<1>1. TypeOK /\ Sampled  BY DEF HddInv
<1>2. ASSUME NEW from \in {"idle", "drain", "clear"}, NEW to \in {"drain", "clear", "check"},
             Go("timer", from, to), UNCHANGED <<state, goal>>
      PROVE  Allowed
  <2>1. Goes("timer", from, to)  BY <1>1, <1>2, OneGoes DEF Places, Sampling
  <2>2. ~Handling /\ ~Handling' /\ ~Going("DONE") /\ ~Going("DONE")'
    BY <2>1 DEF Goes, Handling, Going
  <2>3. CallbackOf = "none" /\ CallbackOf' = "none"
    BY <2>1, <2>2, Callbacks DEF Goes
  <2>4. MonitoringStays  BY <1>2 DEF MonitoringStays
  <2> QED BY <2>2, <2>3, <2>4, Stutters DEF HandlingStays, CallbackStays
<1>3. ASSUME SampleChecks PROVE Allowed
  <2>1. UNCHANGED state  BY <1>3 DEF SampleChecks
  <2>2. CASE Outcome = state
    <3>1. Goes("timer", "check", "idle")
      BY <1>1, <1>3, <2>2, OneGoes DEF SampleChecks, Places, Sampling
    <3>2. ~Handling /\ ~Handling' /\ ~Going("DONE") /\ ~Going("DONE")'
      BY <3>1 DEF Goes, Handling, Going
    <3>3. CallbackOf = "none" /\ CallbackOf' = "none"
      BY <3>1, <3>2, Callbacks DEF Goes
    <3> QED BY <2>1, <3>2, <3>3, Stutters
            DEF MonitoringStays, HandlingStays, CallbackStays
  <2>3. CASE Outcome # state
    <3>1. Goes("timer", "check", "write") /\ goal' = Outcome
      BY <1>1, <1>3, <2>3, OneGoes DEF SampleChecks, Places, Sampling
    <3>2. ~Handling /\ ~Going("DONE")  BY <3>1 DEF Goes, Handling, Going
    <3>3. CallbackOf = "none"  BY <3>1, <3>2, Callbacks DEF Goes
    <3>4. CASE Outcome \in {"RUNNING", "QUIET"}
      <4>1. state \in Active  BY <1>1, <2>3, <3>4, OutcomeChanges DEF Active
      <4>2. Handling' /\ ~Going("DONE")'  BY <3>1, <3>4 DEF Goes, Handling, Going
      <4>3. CallbackOf' = "none"  BY <3>1, <4>2, Callbacks DEF Goes
      <4> QED BY <2>1, <3>2, <3>3, <4>1, <4>2, <4>3, Finds DEF CallbackStays
    <3>5. CASE Outcome = "DONE"
      <4>1. state \in Active  BY <1>1, <2>3, <3>5, OutcomeChanges DEF Active
      <4>2. ~Handling' /\ Going("DONE")'  BY <3>1, <3>5 DEF Goes, Handling, Going
      <4>3. CallbackOf' = "decided"  BY <4>2, Callbacks
      <4> QED BY <2>1, <3>2, <3>3, <4>1, <4>2, <4>3, Decides DEF HandlingStays
    <3>6. CASE Outcome = "TIMEOUT"
      <4>1. ~Handling' /\ ~Going("DONE")'  BY <3>1, <3>6 DEF Goes, Handling, Going
      <4>2. CallbackOf' = "none"  BY <3>1, <4>1, Callbacks DEF Goes
      <4> QED BY <2>1, <3>2, <3>3, <4>1, <4>2, Stutters
              DEF MonitoringStays, HandlingStays, CallbackStays
    <3> QED BY <1>1, <2>3, <3>4, <3>5, <3>6, OutcomeChanges
  <2> QED BY <2>2, <2>3
<1>4. ASSUME SampleWrites PROVE Allowed
  <2>1. at["timer"] = "write" /\ state' = goal  BY <1>4 DEF SampleWrites, Go
  <2>2. goal \in {"RUNNING", "QUIET", "DONE", "TIMEOUT"}  BY <1>1, <2>1 DEF Sampled
  <2>3. CASE goal = "DONE"
    <3>1. Goes("timer", "write", "callback")
      BY <1>1, <1>4, <2>3, OneGoes DEF SampleWrites, Places, Sampling
    <3>2. Going("DONE") /\ ~Handling /\ ~Handling'
      BY <2>3, <3>1 DEF Goes, Going, Handling
    <3>3. CallbackOf = "decided" /\ CallbackOf' = "running"
      BY <3>1, <3>2, Callbacks DEF Goes
    <3>4. state' \notin Active  BY <2>1, <2>3 DEF Active
    <3> QED BY <3>2, <3>3, <3>4, Calls DEF HandlingStays
  <2>4. CASE goal # "DONE"
    <3>1. Goes("timer", "write", "idle")
      BY <1>1, <1>4, <2>4, OneGoes DEF SampleWrites, Places, Sampling
    <3>2. ~Going("DONE") /\ ~Going("DONE")' /\ ~Handling'
      BY <2>4, <3>1 DEF Goes, Going, Handling
    <3>3. CallbackStays  BY <3>1, <3>2, Callbacks DEF Goes, CallbackStays
    <3>4. CASE goal = "TIMEOUT"
      <4>1. state' \notin Active /\ ~Handling  BY <2>1, <3>4 DEF Active, Handling
      <4> QED BY <3>2, <3>3, <4>1, Stops DEF HandlingStays
    <3>5. CASE goal \in {"RUNNING", "QUIET"}
      <4>1. state' \in Active /\ Handling  BY <2>1, <3>5 DEF Active, Handling
      <4> QED BY <3>2, <3>3, <4>1, Updates
    <3> QED BY <2>2, <2>4, <3>4, <3>5
  <2> QED BY <2>3, <2>4
<1>5. ASSUME CallbackReturns PROVE Allowed
  <2>1. PICK from \in {"callback", "return"} : Go("timer", from, "idle")
    BY <1>5 DEF CallbackReturns
  <2>2. Goes("timer", from, "idle")  BY <1>1, <2>1, OneGoes DEF Places, Sampling
  <2>3. ~Handling /\ ~Handling' /\ ~Going("DONE")'
    BY <2>2 DEF Goes, Handling, Going
  <2>4. CallbackOf = "running" /\ CallbackOf' = "none"
    BY <2>2, <2>3, Callbacks DEF Goes
  <2>5. MonitoringStays  BY <1>5 DEF CallbackReturns, MonitoringStays
  <2> QED BY <2>3, <2>4, <2>5, Returns DEF HandlingStays
<1>6. ASSUME StopWrites("timer") PROVE Allowed
  <2>1. Goes("timer", "write IDLE", "return") /\ state' = "IDLE"
    BY <1>1, <1>6, OneGoes DEF StopWrites, Places, Sampling
  <2>2. ~Handling /\ ~Handling'  BY <2>1 DEF Goes, Handling
  <2>3. CallbackStays  BY <2>1, Callbacks DEF Goes, CallbackStays
  <2>4. state' \notin Active  BY <2>1 DEF Active
  <2> QED BY <2>2, <2>3, <2>4, Stops DEF HandlingStays
<1>7. Sample => Allowed  BY <1>2 DEF Sample
<1>8. SampleDrains => Allowed  BY <1>2 DEF SampleDrains
<1>9. SampleClears => Allowed  BY <1>2 DEF SampleClears
<1> QED BY <1>3, <1>4, <1>5, <1>6, <1>7, <1>8, <1>9 DEF SampleStep

LEMMA OthersAreAllowed ==
  ASSUME HddInv, Edge \/ Tick \/ Start \/ Stop("timer") \/ Stop("api") \/ ApiStep
  PROVE  Allowed
<1>1. TypeOK  BY DEF HddInv
<1>2. ASSUME Edge \/ Tick PROVE Allowed
  <2>1. UNCHANGED <<state, at, goal>>  BY <1>2 DEF Edge, Tick
  <2> QED BY <2>1, TaskStays, Stutters DEF MonitoringStays
<1>3. ASSUME NEW from, NEW to \in Places, Go("api", from, to), UNCHANGED goal
      PROVE  HandlingStays /\ CallbackStays
  <2>1. at'["timer"] = at["timer"]  BY <1>1, <1>3, OneGoes DEF Goes
  <2> QED BY <1>3, <2>1, TaskStays
<1>4. ASSUME Start PROVE Allowed
  <2>1. state' \in Active  BY <1>4 DEF Start, Active
  <2> QED BY <1>3, <1>4, <2>1, Starts DEF Start, Places
<1>5. ASSUME StartWatches \/ StartSamples PROVE Allowed
  <2>1. MonitoringStays  BY <1>5 DEF StartWatches, StartSamples, MonitoringStays
  <2>2. HandlingStays /\ CallbackStays
    BY <1>3, <1>5 DEF StartWatches, StartSamples, Places
  <2> QED BY <2>1, <2>2, Stutters
<1>6. ASSUME Stop("api") PROVE Allowed
  <2>1. MonitoringStays  BY <1>6 DEF Stop, MonitoringStays
  <2>2. HandlingStays /\ CallbackStays  BY <1>3, <1>6 DEF Stop, Places
  <2> QED BY <2>1, <2>2, Stutters
<1>7. ASSUME StopWrites("api") PROVE Allowed
  <2>1. state' \notin Active  BY <1>7 DEF StopWrites, Active
  <2>2. HandlingStays /\ CallbackStays  BY <1>3, <1>7 DEF StopWrites, Places
  <2> QED BY <2>1, <2>2, Stops
<1>8. ASSUME Stop("timer") PROVE Allowed
  <2>1. Goes("timer", "callback", "write IDLE")
    BY <1>1, <1>8, OneGoes DEF Stop, Places
  <2>2. MonitoringStays  BY <1>8 DEF Stop, MonitoringStays
  <2>3. ~Handling /\ ~Handling'  BY <2>1 DEF Goes, Handling
  <2>4. CallbackStays  BY <2>1, Callbacks DEF Goes, CallbackStays
  <2> QED BY <2>2, <2>3, <2>4, Stutters DEF HandlingStays
<1> QED BY <1>2, <1>4, <1>5, <1>6, <1>7, <1>8 DEF ApiStep
-----------------------------------------------------------------------------
\* The invariant holds from the start and survives each step.
LEMMA HddInvariant == Spec => []HddInv
<1>1. Init => HddInv
  <2> SUFFICES ASSUME Init PROVE HddInv  OBVIOUS
  <2>1. TypeOK
    <3>1. elapsed \in 0..Timeout + 1 /\ quiet \in 0..Quiet + 1 /\ silence \in 0..Quiet
      BY TicksAssumption DEF Init, Unset
    <3> QED BY <3>1 DEF Init, TypeOK, States
  <2>2. at["timer"] = "idle" /\ at["api"] = "idle" /\ state = "IDLE" /\ ~drained
    BY DEF Init
  <2>3. Sampled /\ Alone /\ Decided  BY <2>2 DEF Sampled, Alone, Decided, Going, Sampling
  <2>4. Timed /\ Silent /\ DetectionIsSampled
    BY <2>2 DEF Timed, Silent, DetectionIsSampled, Active
  <2> QED BY <2>1, <2>3, <2>4 DEF HddInv
<1>2. HddInv /\ [Next]_vars => HddInv'
  <2>1. ASSUME UNCHANGED vars, HddInv PROVE HddInv'
    <3> UNCHANGED <<state, pulses, counting, sampling, elapsed, quiet, at, drained, goal,
                    silence, lost, raced>>
      BY <2>1 DEF vars
    <3>1. TypeOK'  BY <2>1, Zenon DEF HddInv, TypeOK
    <3>2. Sampled' /\ Alone'  BY <2>1, Zenon DEF HddInv, Sampled, Alone
    <3>3. Decided'  BY <2>1, Zenon DEF HddInv, Decided, Going
    <3>4. Timed' /\ Silent'  BY <2>1, Zenon DEF HddInv, Timed, Silent, Going
    <3>5. DetectionIsSampled'  BY <2>1, Zenon DEF HddInv, DetectionIsSampled
    <3> QED BY <3>1, <3>2, <3>3, <3>4, <3>5 DEF HddInv
  <2>2. ASSUME StopWrites("timer"), HddInv PROVE HddInv'
    BY <2>2, StopKeepsInv
  <2>3. ASSUME SampleStep, HddInv PROVE HddInv'
    BY <2>2, <2>3, SampleKeepsInv
  <2> QED
    BY <2>1, <2>3, TimeKeepsInv, StartKeepsInv, StopKeepsInv DEF Next, ApiStep
<1> QED BY <1>1, <1>2, PTL DEF Spec

\* Every variable keeps its type: no clock passes its cap, no sample sets a state
\* that the detector does not have.
THEOREM HddTypeCorrect == Spec => []TypeOK
  BY HddInvariant, PTL DEF HddInv

\* POST completes only after the LED has been dark for the whole silence, as far
\* as edges are counted and start() and stop() stay clear of the samples.
THEOREM CompletesAfterSilence == Spec => []DoneAfterSilence
<1>1. HddInv => DoneAfterSilence
  <2> SUFFICES ASSUME HddInv, Completing, ~pulses, ~lost, ~raced
               PROVE  silence >= Quiet
    BY DEF DoneAfterSilence
  <2>1. Going("DONE") /\ ~Going("RUNNING") /\ ~Going("TIMEOUT")
    BY DEF Completing, Going
  <2>2. state = "QUIET" /\ quiet = Quiet  BY <2>1 DEF HddInv, Decided
  <2>3. ~drained  BY DEF HddInv, Sampled, Completing
  <2> QED BY <2>1, <2>2, <2>3 DEF HddInv, Silent
<1> QED BY <1>1, HddInvariant, PTL

\* It completes after the warm-up and the silence, and before the time-out.
THEOREM CompletesInTime == Spec => []DoneInTime
<1>1. HddInv => DoneInTime
  <2> SUFFICES ASSUME HddInv, Completing, ~raced
               PROVE  elapsed \in Warmup + Quiet..Timeout
    BY DEF DoneInTime
  <2>1. Warmup + Quiet <= elapsed /\ elapsed <= Timeout
    BY DEF HddInv, Decided, Completing, Going
  <2> QED BY <2>1, Numbers DEF HddInv
<1> QED BY <1>1, HddInvariant, PTL

\* A detection under way is sampled, or about to be, or about to end.
THEOREM DetectionsAreSampled == Spec => []DetectionIsSampled
  BY HddInvariant, PTL DEF HddInv

\* Whatever overlaps with a sample, the detector is for the boot manager what
\* PostDetector says.
THEOREM HddImplementsInterface == Spec => ImplementsIPostDetector
<1>1. Init => IPostDetector!Init
  <2> SUFFICES ASSUME Init PROVE IPostDetector!Init  OBVIOUS
  <2>1. (state \in Active) = FALSE  BY DEF Init, Active
  <2>2. at["timer"] = "idle"  BY DEF Init
  <2>3. Handling = FALSE  BY <2>2 DEF Handling
  <2>4. CallbackOf = "none"  BY <2>2, Callbacks DEF Going
  <2> QED BY <2>1, <2>3, <2>4, Zenon DEF IPostDetector!Init, Handling
<1>2. HddInv /\ [Next]_vars => Allowed
  <2>1. ASSUME UNCHANGED vars PROVE Allowed
    <3>1. UNCHANGED <<state, at, goal>>  BY <2>1 DEF vars
    <3> QED BY <3>1, TaskStays, Stutters DEF MonitoringStays
  <2> QED BY <2>1, SampleIsAllowed, OthersAreAllowed DEF Next
<1> QED
  BY <1>1, <1>2, HddInvariant, PTL
  DEF Spec, ImplementsIPostDetector, IPostDetector!Spec, Allowed
=============================================================================
