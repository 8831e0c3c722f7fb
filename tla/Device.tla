------------------------------- MODULE Device -------------------------------
(***************************************************************************)
(* What survives a reset, together: the firmware images (Ota) and the      *)
(* settings (ConfigStore) of one device.  app_main opens the settings      *)
(* before anything else and confirms the image after everything else, one  *)
(* HTTP task serves uploads and the settings, and each reset stops all of  *)
(* it.                                                                     *)
(***************************************************************************)
EXTENDS Ota, ConfigStore

CONSTANTS
  Refused,    \* passwords that esp_wifi_set_config does not take
  Bodies      \* bound: the bodies that a client puts

ASSUME RefusedAssumption == Refused \subseteq Values \ TooLong

ASSUME BodiesAssumption == Bodies \subseteq Entries

VARIABLE
  reason      \* history: the reason for the reset that the device is in

deviceVars == <<vars, configVars, reason>>

DeviceTypeOK ==
  /\ TypeOK /\ ConfigTypeOK
  /\ reason \in {"none", "power", "nvs", "panic", "restart"}

DeviceInit == Init /\ ConfigInit /\ reason = "none"
-----------------------------------------------------------------------------
(* Starting *)

DeviceBoots == Boots /\ PowersOn /\ reason' = "none"

Starting == phase = "starting"

Configures == Starting /\ AppMain /\ UNCHANGED <<vars, reason>>

\* wifi_manager_start: ESP_ERROR_CHECK(esp_wifi_set_config(...)).  Without an
\* SSID of its own the device takes both from Kconfig, and these are good.
WifiIsRefused(entries) ==
  /\ "wifi_pass" \in Keys /\ entries["wifi_pass"] \in Refused
  /\ "wifi_ssid" \in Keys => entries["wifi_ssid"] # Unset

Serves ==
  /\ StartsServer
  /\ start = "up" /\ ~WifiIsRefused(settings)
  /\ UNCHANGED <<configVars, reason>>

Confirmed == Confirms /\ UNCHANGED <<configVars, reason>>

\* Mutant: app_main checks that wifi_manager_start has found an SSID.
PanicsUnconfigured ==
  /\ AppMainPanics
  /\ \/ image[running] = "bad"
     \/ start = "up" /\ "wifi_ssid" \in Keys /\ settings["wifi_ssid"] = Unset
     \/ start = "up" /\ WifiIsRefused(settings)
  /\ Resets
  /\ reason' = "panic"

\* An ESP_ERROR_CHECK of app_main fails: because of the image or because of
\* the settings, whatever the image ...
Panics ==
  /\ AppMainPanics
  /\ \/ image[running] = "bad"
     \/ start = "up" /\ WifiIsRefused(settings)
  /\ Resets
  /\ reason' = "panic"

\* ... or because of NVS.
NvsPanics == AppMainPanics /\ StartFails /\ reason' = "nvs"
-----------------------------------------------------------------------------
(* Resets while it runs *)

LosesPower == PowerFails /\ Resets /\ reason' = "power"

RestartsForUpdate == Restarts /\ Resets /\ reason' = "restart"
-----------------------------------------------------------------------------
(* The HTTP task: an upload or a change of the settings at a time *)

IsServing == phase \in {"unconfirmed", "ready"}

PutRequest ==
  /\ IsServing /\ upload = "idle"
  /\ \E b \in Bodies : PutBegins(b)
  /\ UNCHANGED <<vars, reason>>

Saves == IsServing /\ Put /\ UNCHANGED <<vars, reason>>

Updating(Step) == put = "idle" /\ Step /\ UNCHANGED <<configVars, reason>>

UpdateRequest == Updating(Refuses \/ Begins)

Updates == Updating(Aborts \/ Ends \/ SetsBoot \/ Unlocks \/ Replies)
-----------------------------------------------------------------------------
DeviceNext ==
  \/ DeviceBoots \/ Configures \/ Serves \/ Confirmed
  \/ Panics \/ NvsPanics \/ LosesPower \/ RestartsForUpdate
  \/ PutRequest \/ Saves \/ UpdateRequest \/ Updating(Receives) \/ Updates

DeviceSpec == DeviceInit /\ [][DeviceNext]_deviceVars

\* The device runs.  Nothing is assumed of its clients, not even that the
\* rest of an upload comes.
DeviceFairness ==
  /\ WF_deviceVars(DeviceBoots) /\ WF_deviceVars(Configures)
  /\ WF_deviceVars(Serves) /\ WF_deviceVars(Confirmed)
  /\ WF_deviceVars(Panics) /\ WF_deviceVars(RestartsForUpdate)
  /\ WF_deviceVars(Saves) /\ WF_deviceVars(Updates)

DeviceFairSpec == DeviceSpec /\ DeviceFairness
-----------------------------------------------------------------------------
\* main.c:274-279: an image that gets its server up is confirmed.  When a good
\* image has had its trial and is given up all the same, the power has failed,
\* or NVS, or each image would panic over the stored WiFi password: never because
\* of the device's own restart, another upload, other settings or other images.
GoodImageFailsForCause ==
  [][DeviceBoots /\ state[boot] = "pending" /\ image[boot] = "good" =>
       reason \in {"power", "nvs"} \/ WifiIsRefused(Readable)]_deviceVars

\* When the power stops failing, the server always comes up again, however
\* many bad images are uploaded, unless the WiFi password that is stored makes
\* each start panic (no other image helps, and there is no way to change it).
DeviceComesBack == []<>IsServing \/ <>[]WifiIsRefused(Readable)

\* http_server.c:518-536: an upload gives the HTTP task back, unless its client
\* goes silent without closing the connection, which repeats a timeout for ever.
UploadEnds ==
  WF_deviceVars(Updating(Receives)) => (upload # "idle" ~> upload = "idle")
=============================================================================
