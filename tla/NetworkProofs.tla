---------------------------- MODULE NetworkProofs ----------------------------
(***************************************************************************)
(* Theorems about Network, for any number of attempts and whatever the     *)
(* access point, the internet and the portal do.                           *)
(*                                                                         *)
(* No property is inductive.  No more than two events wait because what    *)
(* can wait depends on the radio (CanWait); the reports agree at rest      *)
(* because of what they are in each other place of the task (ReportsInv);  *)
(* the connection is known because what waits tells what is not known yet  *)
(* (ConnectionInv).                                                        *)
(***************************************************************************)
EXTENDS Network, SequenceTheorems, TLAPS

(* The queue of the event loop *)

Events == {"START", "DISCONNECTED", "GOT_IP"}
GotThenLost == Append(<<"GOT_IP">>, "DISCONNECTED")

\* The queues q that can wait for the handler while the radio is in state r: the
\* driver posts nothing new until it is told to connect, and only the handler
\* tells it.
CanWait(r, q) ==
  \/ r = "idle" /\ q \in {<<>>, <<"START">>, <<"DISCONNECTED">>, GotThenLost}
  \/ r = "connecting" /\ q = <<>>
  \/ r = "up" /\ q \in {<<>>, <<"GOT_IP">>}

QueueInv ==
  /\ CanWait(radio, events)
  /\ main = "wifi" => radio = "idle" /\ events = <<>>
  /\ handler = "delay" => /\ radio = "idle" /\ events = <<>> /\ retry < MaxRetry
                          /\ main # "wifi"

\* The conjuncts of TypeOK that the queue does not decide.
RestOK ==
  /\ main \in {"wifi", "campus", "server", "done"}
  /\ ap \in BOOLEAN /\ handler \in {"idle", "delay", "callback"}
  /\ connected \in BOOLEAN /\ retry \in 0..MaxRetry /\ gaveUp \in BOOLEAN
  /\ reach \in BOOLEAN /\ authNow \in BOOLEAN /\ online \in BOOLEAN
  /\ campus \in {"none", "wait", "woken", "check", "found", "lost", "auth",
                 "verify", "failed", "refused", "retry"}
  /\ campusNet \in {"UNKNOWN", "OK", "AUTH_NEEDED", "ERROR"}

LEMMA OneWaits ==
  ASSUME NEW e \in Events
  PROVE  /\ Head(<<e>>) = e /\ Tail(<<e>>) = <<>> /\ Append(<<>>, e) = <<e>>
         /\ <<e>> \in Seq(Events) /\ Len(<<e>>) <= 2 /\ <<e>> # <<>>
  OBVIOUS

LEMMA TwoWait ==
  /\ Head(GotThenLost) = "GOT_IP" /\ Tail(GotThenLost) = <<"DISCONNECTED">>
  /\ GotThenLost \in Seq(Events) /\ Len(GotThenLost) <= 2
<1>1. /\ <<"GOT_IP">> \in Seq(Events) /\ <<"GOT_IP">> # <<>> /\ Len(<<"GOT_IP">>) = 1
      /\ "DISCONNECTED" \in Events
      /\ Head(<<"GOT_IP">>) = "GOT_IP" /\ Tail(<<"GOT_IP">>) = <<>>
  BY DEF Events
<1>2. Append(<<>>, "DISCONNECTED") = <<"DISCONNECTED">>
  BY OneWaits DEF Events
<1>3. Head(GotThenLost) = "GOT_IP" /\ Tail(GotThenLost) = <<"DISCONNECTED">>
  BY <1>1, <1>2, HeadTailAppend, Zenon DEF GotThenLost
<1>4. GotThenLost \in Seq(Events) /\ Len(GotThenLost) = Len(<<"GOT_IP">>) + 1
  BY <1>1, AppendProperties DEF GotThenLost
<1> QED BY <1>1, <1>3, <1>4

LEMMA NoneWaits == <<>> \in Seq(Events) /\ Len(<<>>) <= 2
  OBVIOUS

\* What waits is a short queue of events.
LEMMA WaitingIsShort ==
  ASSUME NEW r, NEW q, CanWait(r, q)
  PROVE  r \in {"idle", "connecting", "up"} /\ q \in Seq(Events) /\ Len(q) <= 2
<1>1. /\ <<"START">> \in Seq(Events) /\ Len(<<"START">>) <= 2
      /\ <<"DISCONNECTED">> \in Seq(Events) /\ Len(<<"DISCONNECTED">>) <= 2
      /\ <<"GOT_IP">> \in Seq(Events) /\ Len(<<"GOT_IP">>) <= 2
  BY OneWaits DEF Events
<1> QED BY <1>1, TwoWait, NoneWaits DEF CanWait

\* The first event and those after it, in each queue that is not empty.
LEMMA FirstOfWaiting ==
  ASSUME NEW r, NEW q, CanWait(r, q), q # <<>>
  PROVE  \/ r = "idle" /\ Head(q) = "START" /\ Tail(q) = <<>>
         \/ r = "idle" /\ Head(q) = "DISCONNECTED" /\ Tail(q) = <<>>
         \/ r = "idle" /\ Head(q) = "GOT_IP" /\ Tail(q) = <<"DISCONNECTED">>
         \/ r = "up" /\ Head(q) = "GOT_IP" /\ Tail(q) = <<>>
<1>1. /\ Head(<<"START">>) = "START" /\ Tail(<<"START">>) = <<>>
      /\ Head(<<"DISCONNECTED">>) = "DISCONNECTED" /\ Tail(<<"DISCONNECTED">>) = <<>>
      /\ Head(<<"GOT_IP">>) = "GOT_IP" /\ Tail(<<"GOT_IP">>) = <<>>
  BY OneWaits DEF Events
<1> QED BY <1>1, TwoWait DEF CanWait

LEMMA TypeFromParts == TypeOK <=> RestOK /\ /\ radio \in {"idle", "connecting", "up"}
                                            /\ events \in Seq(Events)
                                            /\ Len(events) <= 2
  BY DEF TypeOK, RestOK, Events

NetworkInv == RestOK /\ QueueInv

LEMMA DriverKeepsInv ==
  ASSUME NetworkInv, GetsIp \/ Disconnects \/ ApChanges \/ ReachChanges
  PROVE  NetworkInv'
<1> USE DEF NetworkInv, RestOK, QueueInv, DriverStep,
            mainVars, driverVars, wifiVars, campusVars
<1>1. CASE GetsIp
  <2>1. radio = "connecting" /\ radio' = "up" /\ events = <<>>
    BY <1>1 DEF GetsIp, CanWait
  <2>2. events' = <<"GOT_IP">>
    BY <1>1, <2>1, OneWaits DEF GetsIp, Posts, Events
  <2>3. CanWait(radio', events')  BY <2>1, <2>2 DEF CanWait
  <2>4. handler # "delay" /\ main # "wifi"  BY <2>1
  <2> QED BY <1>1, <2>3, <2>4 DEF GetsIp, Posts
<1>2. CASE Disconnects
  <2>1. radio \in {"connecting", "up"} /\ radio' = "idle"
    BY <1>2 DEF Disconnects, CanWait
  <2>2. events \in {<<>>, <<"GOT_IP">>}
    BY <2>1 DEF CanWait
  <2>3. events' \in {<<"DISCONNECTED">>, GotThenLost}
    BY <1>2, <2>2, OneWaits DEF Disconnects, Posts, Events, GotThenLost
  <2>4. CanWait(radio', events')  BY <2>1, <2>3 DEF CanWait
  <2>5. handler # "delay" /\ main # "wifi"  BY <2>1
  <2> QED BY <1>2, <2>4, <2>5 DEF Disconnects, Posts
<1>3. CASE ApChanges  BY <1>3 DEF ApChanges
<1>4. CASE ReachChanges  BY <1>4 DEF ReachChanges
<1> QED BY <1>1, <1>2, <1>3, <1>4

LEMMA HandlerKeepsInv ==
  ASSUME NetworkInv, EventLoop
  PROVE  NetworkInv'
<1> USE DEF NetworkInv, RestOK, QueueInv, Connects,
            mainVars, driverVars, wifiVars, campusVars
<1>1. ASSUME NEW e, Handles(e)
      PROVE  /\ events # <<>> /\ Head(events) = e /\ events' = Tail(events)
             /\ main # "wifi" /\ main' = main /\ CanWait(radio, events)
    BY <1>1 DEF Handles
<1>2. CASE HandlesStart
  <2>1. Handles("START") /\ Head(events) = "START"
    BY <1>1, <1>2 DEF HandlesStart
  <2>2. radio = "idle" /\ events' = <<>>
    <3>1. CanWait(radio, events) /\ events # <<>> /\ events' = Tail(events)
      BY <1>1, <2>1
    <3> QED BY <2>1, <3>1, FirstOfWaiting
  <2>3. radio' = "connecting"  BY <1>2, <2>2 DEF HandlesStart
  <2>4. CanWait(radio', events')  BY <2>2, <2>3 DEF CanWait
  <2> QED BY <1>1, <1>2, <2>1, <2>4 DEF HandlesStart, Handles
<1>3. CASE HandlesDisconnected
  <2>1. Handles("DISCONNECTED") /\ Head(events) = "DISCONNECTED"
    BY <1>1, <1>3 DEF HandlesDisconnected
  <2>2. radio = "idle" /\ events' = <<>>
    <3>1. CanWait(radio, events) /\ events # <<>> /\ events' = Tail(events)
      BY <1>1, <2>1
    <3> QED BY <2>1, <3>1, FirstOfWaiting
  <2>3. radio' = "idle"  BY <1>3, <2>2 DEF HandlesDisconnected
  <2>4. CanWait(radio', events')  BY <2>2, <2>3 DEF CanWait
  <2>5. retry' \in 0..MaxRetry
    BY <1>3, MaxRetryAssumption DEF HandlesDisconnected
  <2>6. handler' \in {"idle", "delay"} /\ (handler' = "delay" => retry' < MaxRetry)
    BY <1>3, <2>1, MaxRetryAssumption DEF HandlesDisconnected, Handles
  <2> QED
    BY <1>1, <1>3, <2>1, <2>2, <2>3, <2>4, <2>5, <2>6 DEF HandlesDisconnected, Handles
<1>4. CASE TriesAgain
  <2>1. events' = <<>> /\ radio' = "connecting" /\ main' # "wifi" /\ handler' = "idle"
    BY <1>4 DEF TriesAgain, DelayStep
  <2>2. retry' \in 0..MaxRetry
    BY <1>4, MaxRetryAssumption DEF TriesAgain
  <2>3. CanWait(radio', events')  BY <2>1 DEF CanWait
  <2> QED BY <1>4, <2>1, <2>2, <2>3 DEF TriesAgain, DelayStep
<1>5. CASE HandlesGotIp
  <2>1. Handles("GOT_IP") /\ Head(events) = "GOT_IP"
    BY <1>1, <1>5 DEF HandlesGotIp
  <2>2. \/ radio = "idle" /\ events' = <<"DISCONNECTED">>
        \/ radio = "up" /\ events' = <<>>
    <3>1. CanWait(radio, events) /\ events # <<>> /\ events' = Tail(events)
      BY <1>1, <2>1
    <3> QED BY <2>1, <3>1, FirstOfWaiting
  <2>3. radio' = radio  BY <1>5 DEF HandlesGotIp
  <2>4. CanWait(radio', events')  BY <2>2, <2>3 DEF CanWait
  <2>5. retry' \in 0..MaxRetry  BY <1>5, MaxRetryAssumption DEF HandlesGotIp
  <2> QED BY <1>1, <1>5, <2>1, <2>4, <2>5 DEF HandlesGotIp, Handles
<1>6. CASE CallsBack
  <2>1. authNow' \in BOOLEAN  BY <1>6 DEF CallsBack, SetsAuthNow
  <2> QED BY <1>6, <2>1 DEF CallsBack
<1> QED BY <1>2, <1>3, <1>4, <1>5, <1>6 DEF EventLoop

LEMMA StartKeepsInv ==
  ASSUME NetworkInv, StartsWifi \/ StartsCampus \/ StartsHttp \/ HandlesAuthNow
  PROVE  NetworkInv'
<1> USE DEF NetworkInv, RestOK, QueueInv, mainVars, driverVars, wifiVars, campusVars
<1>1. CASE StartsWifi
  <2>1. radio' = "idle" /\ handler' # "delay" /\ events' \in {<<>>, <<"START">>}
    BY <1>1 DEF StartsWifi
  <2>2. CanWait(radio', events')  BY <2>1 DEF CanWait
  <2> QED BY <1>1, <2>1, <2>2 DEF StartsWifi
<1>2. CASE StartsCampus  BY <1>2 DEF StartsCampus
<1>3. CASE StartsHttp  BY <1>3 DEF StartsHttp
<1>4. CASE HandlesAuthNow
  <2>1. authNow' \in BOOLEAN  BY <1>4 DEF HandlesAuthNow, SetsAuthNow
  <2> QED BY <1>4, <2>1 DEF HandlesAuthNow
<1> QED BY <1>1, <1>2, <1>3, <1>4

LEMMA CampusKeepsInv ==
  ASSUME NetworkInv, CampusTask \/ IntervalEnds
  PROVE  NetworkInv'
<1>1. UNCHANGED <<mainVars, driverVars, wifiVars>>
  BY DEF CampusTask, IntervalEnds, SeesAuthNow, Wakes, Checks, FindsInternet,
         MissesInternet, Authenticates, Verifies, ReportsError, RetryDelayEnds, Goes
<1>2. QueueInv'
  BY <1>1 DEF NetworkInv, QueueInv, mainVars, driverVars, wifiVars
<1>3. RestOK'
  <2> USE <1>1 DEF NetworkInv, RestOK, Goes, mainVars, driverVars, wifiVars
  <2>1. Reachable \in BOOLEAN  BY DEF Reachable
  <2>2. CASE SeesAuthNow \/ IntervalEnds
    <3>1. authNow' \in BOOLEAN  BY <2>2 DEF SeesAuthNow, IntervalEnds
    <3> QED BY <2>2, <3>1 DEF SeesAuthNow, IntervalEnds
  <2>3. CASE Wakes \/ RetryDelayEnds  BY <2>3 DEF Wakes, RetryDelayEnds
  <2>4. CASE Checks  BY <2>4, <2>1 DEF Checks
  <2>5. CASE Verifies
    <3>1. online' \in BOOLEAN  BY <2>5, <2>1 DEF Verifies
    <3> QED BY <2>5, <3>1 DEF Verifies
  <2>6. CASE FindsInternet \/ MissesInternet
    BY <2>6 DEF FindsInternet, MissesInternet
  <2>7. CASE ReportsError  BY <2>7 DEF ReportsError
  <2>8. CASE Authenticates
    <3>1. reach' \in BOOLEAN  BY <2>8 DEF Authenticates
    <3>2. /\ UNCHANGED <<authNow, online, campusNet>>
          /\ campus' \in {"failed", "verify"}
      BY <2>8 DEF Authenticates
    <3> QED BY <3>1, <3>2
  <2> QED BY <2>2, <2>3, <2>4, <2>5, <2>6, <2>7, <2>8 DEF CampusTask
<1> QED BY <1>2, <1>3 DEF NetworkInv

LEMMA QueueInvariance == Spec => []NetworkInv
<1>1. Init => NetworkInv
  <2> SUFFICES ASSUME Init PROVE NetworkInv  OBVIOUS
  <2>1. 0 \in 0..MaxRetry  BY MaxRetryAssumption
  <2>2. CanWait(radio, events)  BY DEF Init, CanWait
  <2>3. RestOK  BY <2>1 DEF Init, RestOK
  <2> QED BY <2>2, <2>3 DEF Init, NetworkInv, QueueInv
<1>2. NetworkInv /\ [Next]_vars => NetworkInv'
  <2>1. UNCHANGED vars /\ NetworkInv => NetworkInv'
    BY DEF vars, NetworkInv, RestOK, QueueInv,
           mainVars, driverVars, wifiVars, campusVars
  <2> QED
    BY <2>1, DriverKeepsInv, HandlerKeepsInv, StartKeepsInv, CampusKeepsInv DEF Next
<1> QED BY <1>1, <1>2, PTL DEF Spec

\* Every variable keeps its type; in particular, no more than two events ever
\* wait, however long the handler's back-off is.
THEOREM NetworkTypeCorrect == Spec => []TypeOK
<1>1. NetworkInv => TypeOK
  BY TypeFromParts, WaitingIsShort DEF NetworkInv, QueueInv
<1> QED BY <1>1, QueueInvariance, PTL
-----------------------------------------------------------------------------
(* What the campus task reports *)

\* Between its steps the task's two reports differ; where it is tells how.  There
\* is no task before campus_net_start.
ReportsInv ==
  /\ campus = "none" => ~online /\ campusNet = "UNKNOWN"
  /\ campus \in {"wait", "woken", "check"} => (online <=> campusNet = "OK")
  /\ campus = "found" => online
  /\ campus \in {"lost", "auth", "verify", "failed", "refused"} => ~online
  /\ campus = "retry" => ~online /\ campusNet = "ERROR"
  /\ main \in {"wifi", "campus"} => campus = "none"

LEMMA CampusKeepsReports ==
  ASSUME ReportsInv, CampusTask \/ IntervalEnds
  PROVE  ReportsInv'
<1> USE DEF ReportsInv, Goes, mainVars, driverVars, wifiVars
<1>1. CASE SeesAuthNow \/ IntervalEnds \/ Wakes \/ RetryDelayEnds
  BY <1>1 DEF SeesAuthNow, IntervalEnds, Wakes, RetryDelayEnds
<1>2. CASE Checks  BY <1>2 DEF Checks
<1>3. CASE Verifies
  <2>1. ~online /\ (online' <=> Reachable)  BY <1>3 DEF Verifies
  <2>2. campus' = IF Reachable THEN "found" ELSE "refused"
    BY <1>3 DEF Verifies
  <2>3. main \notin {"wifi", "campus"}  BY <1>3 DEF Verifies
  <2>4. main' \notin {"wifi", "campus"}  BY <1>3, <2>3 DEF Verifies
  <2>5. CASE Reachable  BY <2>1, <2>2, <2>4, <2>5
  <2>6. CASE ~Reachable  BY <2>1, <2>2, <2>4, <2>6
  <2> QED BY <2>5, <2>6
<1>4. CASE FindsInternet \/ MissesInternet \/ ReportsError
  BY <1>4 DEF FindsInternet, MissesInternet, ReportsError
<1>5. CASE Authenticates  BY <1>5 DEF Authenticates
<1> QED BY <1>1, <1>2, <1>3, <1>4, <1>5 DEF CampusTask

\* The two halves of GET /api/netstat agree whenever the task is at rest.
THEOREM ReportsAgree == Spec => []NetstatAgrees
<1>1. Init => ReportsInv  BY DEF Init, ReportsInv
<1>2. ReportsInv /\ [Next]_vars => ReportsInv'
  <2> SUFFICES ASSUME ReportsInv, [Next]_vars PROVE ReportsInv'  OBVIOUS
  <2>1. CASE UNCHANGED campusVars /\ (main' = main \/ main = "wifi" \/ main' = "done")
    BY <2>1 DEF ReportsInv, campusVars
  <2>2. CASE StartsCampus  BY <2>2 DEF StartsCampus, ReportsInv, driverVars, wifiVars
  <2>3. CASE CampusTask \/ IntervalEnds  BY <2>3, CampusKeepsReports
  <2>4. \/ UNCHANGED campusVars /\ (main' = main \/ main = "wifi" \/ main' = "done")
        \/ StartsCampus \/ CampusTask \/ IntervalEnds
    BY DEF Next, EventLoop, StartsWifi, StartsHttp, HandlesAuthNow, GetsIp,
           Disconnects, ApChanges, ReachChanges, DriverStep, HandlesStart,
           HandlesDisconnected, TriesAgain, DelayStep, HandlesGotIp, CallsBack,
           Handles, mainVars, vars
  <2> QED BY <2>1, <2>2, <2>3, <2>4
<1>3. ReportsInv => NetstatAgrees  BY DEF ReportsInv, NetstatAgrees
<1> QED BY <1>1, <1>2, <1>3, PTL DEF Spec
-----------------------------------------------------------------------------
(* What the event handler knows *)

\* wifi_manager_is_connected, which the campus task asks before each check, is
\* right whenever no event waits: none was lost, and none handled out of order.
ConnectionIsKnown == events = <<>> => (connected <=> radio = "up")

\* wifi_manager.c:46-51: when the attempts are used up, the handler has nothing
\* to do, and nothing will ever give it anything to do.
GivingUpIsFinal ==
  gaveUp => radio = "idle" /\ events = <<>> /\ handler = "idle" /\ ~connected

\* No step of the event loop leaves the station alone with nothing to come, but
\* for the one that gives up.
OnlyGivingUpRests ==
  [][EventLoop /\ radio' = "idle" /\ events' = <<>> /\ handler' = "idle" => gaveUp']_vars

ConnectionInv ==
  /\ connected => \/ radio = "up" /\ events = <<>>
                  \/ radio = "idle" /\ events = <<"DISCONNECTED">>
  /\ radio = "up" /\ events = <<>> => connected
  /\ handler = "callback" => radio = "up" \/ events # <<>>
  /\ GivingUpIsFinal
  /\ main = "wifi" => ~gaveUp

LEMMA QueuesDiffer ==
  /\ <<"START">> # <<>> /\ <<"DISCONNECTED">> # <<>> /\ <<"GOT_IP">> # <<>>
  /\ GotThenLost # <<>>
  /\ GotThenLost # <<"DISCONNECTED">>
<1>1. Len(<<"DISCONNECTED">>) = 1 /\ Len(<<>>) = 0  OBVIOUS
<1>2. Len(GotThenLost) = 2
  <2>1. <<"GOT_IP">> \in Seq(Events) /\ "DISCONNECTED" \in Events /\ Len(<<"GOT_IP">>) = 1
    BY DEF Events
  <2> QED BY <2>1, AppendProperties DEF GotThenLost
<1> QED BY <1>1, <1>2

LEMMA DriverKeepsConnection ==
  ASSUME NetworkInv, ConnectionInv, GetsIp \/ Disconnects \/ ApChanges \/ ReachChanges
  PROVE  ConnectionInv'
<1> USE DEF NetworkInv, QueueInv, ConnectionInv, GivingUpIsFinal, DriverStep,
            mainVars, driverVars, wifiVars, campusVars
<1>1. CASE GetsIp
  <2>1. radio = "connecting" /\ radio' = "up" /\ events = <<>>
    BY <1>1 DEF GetsIp, CanWait
  <2>2. events' = <<"GOT_IP">>
    BY <1>1, <2>1, OneWaits DEF GetsIp, Posts, Events
  <2> QED BY <1>1, <2>1, <2>2, QueuesDiffer DEF GetsIp
<1>2. CASE Disconnects
  <2>1. radio # "idle" /\ radio' = "idle"  BY <1>2 DEF Disconnects
  <2>2. CASE events = <<>>
    <3>1. events' = <<"DISCONNECTED">>
      BY <1>2, <2>2, OneWaits DEF Disconnects, Posts, Events
    <3> QED BY <1>2, <2>1, <3>1, QueuesDiffer DEF Disconnects
  <2>3. CASE events # <<>>
    <3>1. events = <<"GOT_IP">> /\ ~connected
      BY <2>1, <2>3, QueuesDiffer DEF CanWait
    <3>2. events' = GotThenLost
      BY <1>2, <3>1 DEF Disconnects, Posts, GotThenLost
    <3> QED BY <1>2, <2>1, <3>1, <3>2, QueuesDiffer DEF Disconnects
  <2> QED BY <2>2, <2>3
<1>3. CASE ApChanges  BY <1>3 DEF ApChanges
<1>4. CASE ReachChanges  BY <1>4 DEF ReachChanges
<1> QED BY <1>1, <1>2, <1>3, <1>4

\* What is left when the handler has taken an event.
LEMMA HandlesFirst ==
  ASSUME NetworkInv, NEW e, Handles(e)
  PROVE  /\ handler = "idle" /\ events # <<>> /\ main' = main /\ main # "wifi"
         /\ e = "START" => radio = "idle" /\ events' = <<>>
         /\ e = "DISCONNECTED" => radio = "idle" /\ events' = <<>>
         /\ e = "GOT_IP" => \/ radio = "idle" /\ events' = <<"DISCONNECTED">>
                            \/ radio = "up" /\ events' = <<>>
<1>1. /\ handler = "idle" /\ events # <<>> /\ Head(events) = e
      /\ events' = Tail(events) /\ main' = main
      /\ CanWait(radio, events) /\ main # "wifi"
  BY DEF Handles, NetworkInv, QueueInv, mainVars
<1> QED BY <1>1, FirstOfWaiting

LEMMA HandlerKeepsConnection ==
  ASSUME NetworkInv, ConnectionInv, EventLoop
  PROVE  /\ ConnectionInv'
         /\ radio' = "idle" /\ events' = <<>> /\ handler' = "idle" => gaveUp'
<1> USE DEF ConnectionInv, GivingUpIsFinal, Connects, wifiVars
<1>1. CASE HandlesStart
  <2>1. Handles("START")  BY <1>1 DEF HandlesStart
  <2>2. /\ handler = "idle" /\ events # <<>> /\ main' = main /\ main # "wifi"
        /\ radio = "idle" /\ events' = <<>>
    BY <2>1, HandlesFirst
  <2>3. radio' = "connecting" /\ UNCHANGED <<connected, handler, gaveUp>>
    BY <1>1, <2>2 DEF HandlesStart
  <2>4. ~connected
    <3>1. events # <<"DISCONNECTED">>
      BY <2>1, OneWaits DEF Handles, Events
    <3> QED BY <2>2, <3>1
  <2> QED BY <2>2, <2>3, <2>4
<1>2. CASE HandlesDisconnected
  <2>1. Handles("DISCONNECTED")  BY <1>2 DEF HandlesDisconnected
  <2>2. /\ handler = "idle" /\ events # <<>> /\ main' = main /\ main # "wifi"
        /\ radio = "idle" /\ events' = <<>>
    BY <2>1, HandlesFirst
  <2>3. /\ connected' = FALSE /\ radio' = radio
        /\ \/ handler' = "delay" /\ gaveUp' = gaveUp
           \/ handler' = handler /\ gaveUp' = TRUE
    BY <1>2 DEF HandlesDisconnected
  <2> QED BY <2>2, <2>3
<1>3. CASE TriesAgain
  <2>1. handler = "delay" /\ radio = "idle" /\ events = <<>> /\ main # "wifi"
    BY <1>3 DEF TriesAgain, NetworkInv, QueueInv
  <2>2. /\ radio' = "connecting" /\ handler' = "idle"
        /\ UNCHANGED <<events, connected, gaveUp, main>>
    BY <1>3, <2>1 DEF TriesAgain, DelayStep, mainVars
  <2> QED BY <2>1, <2>2, QueuesDiffer
<1>4. CASE HandlesGotIp
  <2>1. Handles("GOT_IP")  BY <1>4 DEF HandlesGotIp
  <2>2. /\ handler = "idle" /\ events # <<>> /\ main' = main /\ main # "wifi"
        /\ \/ radio = "idle" /\ events' = <<"DISCONNECTED">>
           \/ radio = "up" /\ events' = <<>>
    BY <2>1, HandlesFirst
  <2>3. connected' = TRUE /\ handler' = "callback" /\ UNCHANGED <<radio, gaveUp>>
    BY <1>4 DEF HandlesGotIp
  <2> QED BY <2>2, <2>3, QueuesDiffer
<1>5. CASE CallsBack
  <2>1. handler = "callback" /\ handler' = "idle"
        /\ UNCHANGED <<radio, events, connected, gaveUp, main>>
    BY <1>5 DEF CallsBack, mainVars, driverVars
  <2> QED BY <2>1
<1> QED BY <1>1, <1>2, <1>3, <1>4, <1>5 DEF EventLoop

LEMMA OthersKeepConnection ==
  ASSUME NetworkInv, ConnectionInv,
         \/ StartsWifi \/ StartsCampus \/ StartsHttp \/ HandlesAuthNow
         \/ CampusTask \/ IntervalEnds \/ UNCHANGED vars
  PROVE  ConnectionInv'
<1> USE DEF NetworkInv, QueueInv, ConnectionInv, GivingUpIsFinal
<1>1. CASE StartsWifi
  <2>1. radio = "idle" /\ events = <<>> /\ UNCHANGED <<radio, handler, connected, gaveUp>>
        /\ main' # "wifi"
    BY <1>1 DEF StartsWifi, wifiVars
  <2>2. handler # "callback"  BY <2>1
  <2>3. ~connected /\ ~gaveUp
    BY <1>1, <2>1, QueuesDiffer DEF StartsWifi
  <2> QED BY <2>1, <2>2, <2>3
<1>2. CASE ~StartsWifi
  <2>1. UNCHANGED <<radio, events, handler, connected, gaveUp>>
        /\ (main' = "wifi" => main = "wifi")
    BY <1>2 DEF StartsCampus, StartsHttp, HandlesAuthNow, CampusTask, IntervalEnds,
                SeesAuthNow, Wakes, Checks, FindsInternet, MissesInternet,
                Authenticates, Verifies, ReportsError, RetryDelayEnds, Goes,
                mainVars, driverVars, wifiVars, vars
  <2> QED BY <2>1
<1> QED BY <1>1, <1>2

LEMMA ConnectionInvariance == Spec => []ConnectionInv
<1>1. Init => ConnectionInv
  BY DEF Init, ConnectionInv, GivingUpIsFinal
<1>2. NetworkInv /\ ConnectionInv /\ [Next]_vars => ConnectionInv'
  BY DriverKeepsConnection, HandlerKeepsConnection, OthersKeepConnection DEF Next
<1> QED BY <1>1, <1>2, QueueInvariance, PTL DEF Spec

\* s_connected is the driver's state, once the events that wait are handled.
THEOREM ConnectedIsKnown == Spec => []ConnectionIsKnown
<1>1. NetworkInv /\ ConnectionInv => ConnectionIsKnown
  BY QueuesDiffer DEF ConnectionInv, ConnectionIsKnown
<1> QED BY <1>1, QueueInvariance, ConnectionInvariance, PTL

\* Whatever the access point does, a station that has given up has no connection
\* and gets none: only a reset helps.
THEOREM NoWayBack == Spec => []GivingUpIsFinal
<1>1. ConnectionInv => GivingUpIsFinal  BY DEF ConnectionInv
<1> QED BY <1>1, QueueInvariance, ConnectionInvariance, PTL

\* As long as it has not given up, a station that was started is connected, or
\* connecting, or has an event or a delay before it.
THEOREM GivingUpIsTheOnlyRest == Spec => OnlyGivingUpRests
<1>1. NetworkInv /\ ConnectionInv /\ [Next]_vars =>
        [EventLoop /\ radio' = "idle" /\ events' = <<>> /\ handler' = "idle" => gaveUp']_vars
  BY HandlerKeepsConnection
<1> QED BY <1>1, QueueInvariance, ConnectionInvariance, PTL DEF Spec, OnlyGivingUpRests
=============================================================================
