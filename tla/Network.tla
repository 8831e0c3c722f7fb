------------------------------ MODULE Network ------------------------------
(***************************************************************************)
(* The network side of the firmware: net/wifi_manager.c, which runs in the *)
(* default event loop, and net/campus_net_auth.c, a task that watches the  *)
(* internet and logs in to the campus portal when it is gone.              *)
(*                                                                         *)
(* The WiFi driver, the access point, the internet and the portal are      *)
(* modelled by what this code sees of them.  A back-off, an interval and a *)
(* time-out last for as long as they like.                                 *)
(***************************************************************************)
EXTENDS Naturals, Sequences

CONSTANT MaxRetry    \* MAX_RETRY

ASSUME MaxRetryAssumption == MaxRetry \in Nat

VARIABLES
  main,        \* what app_main does next
  radio,       \* the driver: "idle", "connecting" or, with an IP, "up"
  ap,          \* the access point takes the station, and keeps it
  events,      \* the events posted to the default loop
  handler,     \* what wifi_event_handler does next
  connected,   \* s_connected
  retry,       \* s_retry
  reach,       \* the internet can be reached over the access point
  campus,      \* what campus_net_task does next
  authNow,     \* AUTH_NOW_BIT of s_eg
  online,      \* s_online
  campusNet,   \* s_state.campus_net
  gaveUp       \* history: WIFI_FAIL_BIT was set

mainVars == <<main>>
driverVars == <<radio, ap, events>>
wifiVars == <<handler, connected, retry, gaveUp>>
campusVars == <<campus, online, campusNet>>
vars == <<main, driverVars, wifiVars, reach, campusVars, authNow>>

TypeOK ==
  /\ main \in {"wifi", "campus", "server", "done"}
  /\ radio \in {"idle", "connecting", "up"} /\ ap \in BOOLEAN
  /\ events \in Seq({"START", "DISCONNECTED", "GOT_IP"}) /\ Len(events) <= 2
  /\ handler \in {"idle", "delay", "callback"}
  /\ connected \in BOOLEAN /\ retry \in 0..MaxRetry /\ gaveUp \in BOOLEAN
  /\ reach \in BOOLEAN
  /\ campus \in {"none", "wait", "woken", "check", "found", "lost", "auth",
                 "verify", "failed", "refused", "retry"}
  /\ authNow \in BOOLEAN /\ online \in BOOLEAN
  /\ campusNet \in {"UNKNOWN", "OK", "AUTH_NEEDED", "ERROR"}

Init ==
  /\ main = "wifi"
  /\ radio = "idle" /\ ap \in BOOLEAN /\ events = <<>>
  /\ handler = "idle" /\ connected = FALSE /\ retry = 0 /\ gaveUp = FALSE
  /\ reach \in BOOLEAN
  /\ campus = "none" /\ authNow = FALSE
  /\ online = FALSE /\ campusNet = "UNKNOWN"
-----------------------------------------------------------------------------
(* app_main *)

\* wifi_manager_start: without an SSID it goes no further.
StartsWifi ==
  /\ main = "wifi" /\ main' = "campus"
  /\ events' \in {<<"START">>, <<>>}
  /\ UNCHANGED <<radio, ap, wifiVars, reach, campusVars, authNow>>

\* campus_net_start
StartsCampus ==
  /\ main = "campus" /\ main' = "server"
  /\ campus' = "wait"
  /\ UNCHANGED <<driverVars, wifiVars, reach, online, campusNet, authNow>>

\* http_server_start
StartsHttp ==
  /\ main = "server" /\ main' = "done"
  /\ UNCHANGED <<driverVars, wifiVars, reach, campusVars, authNow>>

\* campus_net_auth_now does nothing before campus_net_start.
SetsAuthNow == authNow' = (campus # "none")

\* POST /api/auth_now, which comes over the access point.
HandlesAuthNow ==
  /\ main = "done" /\ radio = "up"
  /\ SetsAuthNow
  /\ UNCHANGED <<mainVars, driverVars, wifiVars, reach, campusVars>>
-----------------------------------------------------------------------------
(* The driver *)

Posts(e) == events' = Append(events, e) /\ UNCHANGED ap

DriverStep == UNCHANGED <<mainVars, wifiVars, reach, campusVars, authNow>>

GetsIp ==
  /\ radio = "connecting" /\ ap
  /\ radio' = "up" /\ Posts("GOT_IP")
  /\ DriverStep

Disconnects ==
  /\ radio # "idle" /\ ~ap
  /\ radio' = "idle" /\ Posts("DISCONNECTED")
  /\ DriverStep

ApChanges == ap' = ~ap /\ UNCHANGED <<radio, events>> /\ DriverStep

ReachChanges ==
  /\ reach' = ~reach
  /\ UNCHANGED <<mainVars, driverVars, wifiVars, campusVars, authNow>>
-----------------------------------------------------------------------------
(* wifi_event_handler *)

\* esp_wifi_connect
Connects == radio' = IF radio = "idle" THEN "connecting" ELSE radio

Handles(e) ==
  /\ handler = "idle" /\ events # <<>> /\ Head(events) = e
  /\ events' = Tail(events)
  /\ UNCHANGED <<mainVars, ap, reach, campusVars, authNow>>

HandlesStart ==
  /\ Handles("START")
  /\ Connects
  /\ UNCHANGED wifiVars

\* The handler, and the event loop with it, waits before it tries again; after
\* MaxRetry attempts in a row it tries no more.
HandlesDisconnected ==
  /\ Handles("DISCONNECTED")
  /\ connected' = FALSE
  /\ \/ retry < MaxRetry /\ handler' = "delay" /\ UNCHANGED <<retry, gaveUp>>
     \/ retry >= MaxRetry /\ retry' = 0 /\ gaveUp' = TRUE /\ UNCHANGED handler
  /\ UNCHANGED radio

DelayStep == UNCHANGED <<mainVars, ap, events, connected, gaveUp, reach,
                         campusVars, authNow>>

\* Mutant: only the first attempts of a row are made.
TriesOnceAgain ==
  /\ handler = "delay" /\ handler' = "idle"
  /\ IF retry = 0 THEN Connects ELSE UNCHANGED radio
  /\ retry' = retry + 1
  /\ DelayStep

TriesAgain ==
  /\ handler = "delay" /\ handler' = "idle"
  /\ Connects
  /\ retry' = retry + 1
  /\ DelayStep

\* Mutant: attempts are counted twice.
GotIpKeepsCounting ==
  /\ Handles("GOT_IP")
  /\ retry' = retry + 1 /\ connected' = TRUE /\ handler' = "callback"
  /\ UNCHANGED <<radio, gaveUp>>

HandlesGotIp ==
  /\ Handles("GOT_IP")
  /\ retry' = 0 /\ connected' = TRUE /\ handler' = "callback"
  /\ UNCHANGED <<radio, gaveUp>>

\* on_wifi_connected of main.c
CallsBack ==
  /\ handler = "callback" /\ handler' = "idle"
  /\ SetsAuthNow
  /\ UNCHANGED <<mainVars, driverVars, connected, retry, gaveUp, reach, campusVars>>

EventLoop ==
  HandlesStart \/ HandlesDisconnected \/ TriesAgain \/ HandlesGotIp \/ CallsBack
-----------------------------------------------------------------------------
(* campus_net_task *)

Goes(from, to) ==
  /\ campus = from /\ campus' = to
  /\ UNCHANGED <<mainVars, driverVars, wifiVars>>

\* xEventGroupWaitBits clears the bit that it waits for ...
SeesAuthNow ==
  /\ authNow
  /\ authNow' = FALSE
  /\ Goes("wait", "woken")
  /\ UNCHANGED <<reach, online, campusNet>>

\* Mutant: the task waits for the bit alone.
WaitsForever ==
  /\ authNow
  /\ authNow' = FALSE
  /\ Goes("wait", "woken")
  /\ UNCHANGED <<reach, online, campusNet>>

\* ... or returns after check_interval_s.
IntervalEnds ==
  /\ ~authNow
  /\ Goes("wait", "woken")
  /\ UNCHANGED <<authNow, reach, online, campusNet>>

Wakes ==
  /\ Goes("woken", IF connected THEN "check" ELSE "wait")
  /\ UNCHANGED <<authNow, reach, online, campusNet>>

\* check_internet
Reachable == radio = "up" /\ reach

Checks ==
  /\ Goes("check", IF Reachable THEN "found" ELSE "lost")
  /\ online' = Reachable
  /\ UNCHANGED <<authNow, reach, campusNet>>

\* Mutant: before it waits, the task drops the requests that came meanwhile.
DropsRequests ==
  /\ Goes("found", "wait")
  /\ campusNet' = "OK"
  /\ authNow' = FALSE
  /\ UNCHANGED <<reach, online>>

FindsInternet ==
  /\ Goes("found", "wait")
  /\ campusNet' = "OK"
  /\ UNCHANGED <<authNow, reach, online>>

MissesInternet ==
  /\ Goes("lost", "auth")
  /\ campusNet' = "AUTH_NEEDED"
  /\ UNCHANGED <<authNow, reach, online>>

\* do_auth: no card, no connection, or an answer of the portal, whatever it
\* says: it may have let the station in.
Authenticates ==
  /\ \/ Goes("auth", "failed") /\ UNCHANGED reach
     \/ radio = "up" /\ Goes("auth", "verify") /\ reach' \in {TRUE, reach}
  /\ UNCHANGED <<authNow, online, campusNet>>

\* Mutant: s_online stays as the first check left it.
VerifiesQuietly ==
  /\ Goes("verify", IF Reachable THEN "found" ELSE "refused")
  /\ UNCHANGED <<authNow, reach, online, campusNet>>

Verifies ==
  /\ Goes("verify", IF Reachable THEN "found" ELSE "refused")
  /\ online' = (online \/ Reachable)
  /\ UNCHANGED <<authNow, reach, campusNet>>

\* After a login that did not help, the task waits for retry_interval_s.
ReportsError ==
  /\ Goes("failed", "wait") \/ Goes("refused", "retry")
  /\ campusNet' = "ERROR"
  /\ UNCHANGED <<authNow, reach, online>>

RetryDelayEnds ==
  /\ Goes("retry", "wait")
  /\ UNCHANGED <<authNow, reach, online, campusNet>>

CampusTask ==
  \/ SeesAuthNow \/ Wakes \/ Checks \/ FindsInternet \/ MissesInternet
  \/ Authenticates \/ Verifies \/ ReportsError \/ RetryDelayEnds
-----------------------------------------------------------------------------
Next ==
  \/ StartsWifi \/ StartsCampus \/ StartsHttp \/ HandlesAuthNow
  \/ GetsIp \/ Disconnects \/ ApChanges \/ ReachChanges
  \/ EventLoop \/ CampusTask \/ IntervalEnds

Spec == Init /\ [][Next]_vars

\* app_main, the driver, the event loop and the task go on.
Fairness ==
  /\ WF_vars(StartsWifi \/ StartsCampus \/ StartsHttp)
  /\ WF_vars(GetsIp \/ Disconnects)
  /\ WF_vars(EventLoop)
  /\ WF_vars(CampusTask)

FairSpec == Spec /\ Fairness
-----------------------------------------------------------------------------
\* Once the task is at rest, the two halves of GET /api/netstat agree: s_online
\* of the task and campus_net of the system state.
NetstatAgrees == campus = "wait" => (online <=> campusNet = "OK")

\* WiFi has been configured, and from some time on the access point is back.
ApComesBack == <>(events # <<>>) /\ <>[]ap

\* When the access point is back for good, so is the connection, unless the
\* attempts were used up before.
ReconnectsOrGivesUp == ApComesBack => <>[]connected \/ <>gaveUp

\* main.c:128 "Trigger an immediate campus net check": with a connection that
\* lasts, a request to check leads to a check without waiting for the interval,
\* also one that comes during a check.
AuthNowIsServed ==
  <>[]connected => [](authNow => <>(campus = "check"))

\* When the internet stays reachable over a connection that lasts, the device
\* ends up showing it, although nobody asks for a check: the interval ends.
InternetIsFound ==
  WF_vars(IntervalEnds) =>
    (<>[](connected /\ Reachable) => <>[](online /\ campusNet = "OK"))
-----------------------------------------------------------------------------
\* wifi_manager.h:3 "WiFi STA connection manager with automatic reconnection":
\* when the access point is back for good, so is the connection.  (The code
\* does not keep this.)
Reconnects == ApComesBack => <>[]connected
=============================================================================
