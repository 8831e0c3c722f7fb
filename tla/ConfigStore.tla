---------------------------- MODULE ConfigStore ----------------------------
(***************************************************************************)
(* The settings: app/config_manager.c over the NVS partition, the part of  *)
(* app_main that opens it, makes the API token and reads the settings, and *)
(* handler_config_put (http_server.c), which changes them.                 *)
(*                                                                         *)
(* NVS is ESP-IDF's: what nvs_set_* wrote is sure to be in the flash when  *)
(* nvs_commit has returned ESP_OK; before that, and after an error, the    *)
(* key has its old value or its new one.  A reset may come at any step.    *)
(***************************************************************************)
EXTENDS Naturals, Sequences

CONSTANTS
  Keys,        \* the keys that are followed
  Values,      \* what they may be set to, strings and numbers alike
  TooLong,     \* strings longer than the buffers that they are read into
  Unset,       \* no entry, no member of the body
  MaxFaults    \* bound: failures of NVS while the device starts

\* What handler_config_put may set, in its order.
PutOrder ==
  <<"wifi_ssid", "wifi_pass", "campus_card", "campus_pass", "pc_ip",
    "grub_win_idx", "grub_fed_idx", "grub_default", "grub_wait_ms",
    "ping_intv_s", "hdd_quiet_ms", "relay_pol", "btldr_type", "post_settle">>

ASSUME KeysAssumption == \A k \in Keys : \E i \in DOMAIN PutOrder : PutOrder[i] = k

ASSUME ValuesAssumption == Unset \notin Values /\ TooLong \subseteq Values

ASSUME MaxFaultsAssumption == MaxFaults \in Nat

VARIABLES
  nvs,       \* nvs[k]: what the flash has for k
  token,     \* ... and for api_token: the number of a token, or 0
  made,      \* tokens made so far, each by esp_random and unlike the others
  start,     \* what app_main does next
  settings,  \* what it has read for k, Unset being the default of Kconfig
  put,       \* what handler_config_put does next
  body,      \* body[k]: what it was asked to set k to
  todo,      \* the keys it has still to set
  failed,    \* one of them could not be set
  saved,     \* history: saved[k] was set in full and the answer was "saved"
  printed,   \* history: the token that the serial monitor has shown
  faults     \* bound: failures so far

tokenVars == <<token, made, printed>>
startVars == <<start, settings>>
putVars == <<put, body, todo, failed>>
configVars == <<nvs, tokenVars, startVars, putVars, saved, faults>>

Nothing == [k \in Keys |-> Unset]

Entries == [Keys -> Values \cup {Unset}]

ConfigTypeOK ==
  /\ nvs \in Entries
  /\ made \in Nat /\ token \in 0..made /\ printed \in 0..made
  /\ start \in {"off", "open", "token", "print", "read", "up"}
  /\ settings \in Entries
  /\ put \in {"idle", "set", "commit"}
  /\ body \in Entries /\ todo \in SUBSET Keys /\ failed \in BOOLEAN
  /\ saved \in Entries /\ faults \in 0..MaxFaults

ConfigInit ==
  /\ nvs = Nothing /\ token = 0 /\ made = 0 /\ printed = 0
  /\ start = "off" /\ settings = Nothing
  /\ put = "idle" /\ body = Nothing /\ todo = {} /\ failed = FALSE
  /\ saved = Nothing /\ faults = 0
-----------------------------------------------------------------------------
(* Resets *)

Position(k) == CHOOSE i \in DOMAIN PutOrder : PutOrder[i] = k

\* The key that handler_config_put is at.
Current(k) == k \in todo /\ \A j \in todo : Position(k) <= Position(j)

Written(k) == [nvs EXCEPT ![k] = body[k]]

\* All but the flash is lost; an entry that was set but not committed may have
\* got there or not.
ClearsRam ==
  /\ start' = "off" /\ settings' = Nothing
  /\ put' = "idle" /\ body' = Nothing /\ todo' = {} /\ failed' = FALSE

Resets ==
  /\ start # "off"
  /\ ClearsRam
  /\ \/ UNCHANGED nvs
     \/ put = "commit" /\ \E k \in Keys : Current(k) /\ nvs' = Written(k)
  /\ UNCHANGED <<tokenVars, saved, faults>>

PowersOn ==
  /\ start = "off" /\ start' = "open"
  /\ UNCHANGED <<nvs, tokenVars, settings, putVars, saved, faults>>
-----------------------------------------------------------------------------
(* app_main *)

Fault == faults < MaxFaults /\ faults' = faults + 1

\* config_init erases everything, the token too, if NVS has no free page or an
\* older format.
OpensNvs ==
  /\ start = "open" /\ start' = "token"
  /\ \/ UNCHANGED <<nvs, tokenVars, saved, faults>>
     \/ /\ Fault
        /\ nvs' = Nothing /\ token' = 0
        /\ saved' = Nothing /\ printed' = 0
        /\ UNCHANGED made
  /\ UNCHANGED <<settings, putVars>>

MakesToken == made' = made + 1 /\ token' = made'

\* Mutant: a new token at each start.
RenewsToken ==
  /\ start = "token" /\ start' = "print"
  /\ MakesToken
  /\ UNCHANGED <<nvs, printed, settings, putVars, saved, faults>>

\* config_ensure_api_token keeps the token it finds, makes one if there is
\* none, and replaces it if it cannot be read, whatever the reason.
EnsuresToken ==
  /\ start = "token" /\ start' = "print"
  /\ \/ token # 0 /\ UNCHANGED <<tokenVars, faults>>
     \/ token = 0 /\ MakesToken /\ UNCHANGED <<printed, faults>>
     \/ token # 0 /\ Fault /\ MakesToken /\ printed' = 0
  /\ UNCHANGED <<nvs, settings, putVars, saved>>

\* config_init or the storing of a new token returns an error, which
\* ESP_ERROR_CHECK turns into a reset; the token may be stored all the same.
StartFails ==
  /\ start \in {"open", "token"}
  /\ Fault
  /\ ClearsRam
  /\ \/ UNCHANGED <<token, made>>
     \/ start = "token" /\ token = 0 /\ MakesToken
  /\ UNCHANGED <<nvs, saved, printed>>

PrintsToken ==
  /\ start = "print" /\ start' = "read"
  /\ printed' = token
  /\ UNCHANGED <<nvs, token, made, settings, putVars, saved, faults>>

\* config_get_str fails if the string does not fit, and leaves the default.
Readable == [k \in Keys |-> IF nvs[k] \in TooLong THEN Unset ELSE nvs[k]]

\* The reads of app_main and wifi_manager_start: no one writes in between.
ReadsSettings ==
  /\ start = "read" /\ start' = "up"
  /\ settings' = Readable
  /\ UNCHANGED <<nvs, tokenVars, putVars, saved, faults>>

AppMain == OpensNvs \/ EnsuresToken \/ PrintsToken \/ ReadsSettings
-----------------------------------------------------------------------------
(* handler_config_put, in the HTTP task *)

\* The body is JSON, at most 511 bytes of it; a member that is missing, of the
\* wrong type or empty counts as not there, and a number is what remains of it
\* in the type of its key.  What follows, up to the answer, is not promised to
\* be stored.
PutBegins(b) ==
  /\ start = "up" /\ put = "idle"
  /\ put' = "set" /\ body' = b /\ todo' = {k \in Keys : b[k] # Unset}
  /\ saved' = [k \in Keys |-> IF b[k] = Unset THEN saved[k] ELSE Unset]
  /\ UNCHANGED <<nvs, tokenVars, startVars, failed, faults>>

PutStep == UNCHANGED <<tokenVars, startVars, body, faults>>

\* config_set_*: nvs_set_* of the next key, ...
PutSets ==
  /\ put = "set" /\ put' = "commit"
  /\ todo # {}
  /\ UNCHANGED <<nvs, todo, failed, saved>>
  /\ PutStep

\* Mutant: nvs_commit is not called.
PutCommitsNothing ==
  /\ put = "commit" /\ put' = "set"
  /\ \E k \in Keys : Current(k) /\ todo' = todo \ {k}
  /\ UNCHANGED <<nvs, failed, saved>>
  /\ PutStep

\* ... and then nvs_commit.
PutCommits ==
  /\ put = "commit" /\ put' = "set"
  /\ \E k \in Keys : Current(k) /\ nvs' = Written(k) /\ todo' = todo \ {k}
  /\ UNCHANGED <<failed, saved>>
  /\ PutStep

\* One of them fails, and no one looks.
PutFails ==
  /\ put = "commit" /\ put' = "set"
  /\ failed' = TRUE
  /\ \E k \in Keys : Current(k) /\ nvs' \in {nvs, Written(k)} /\ todo' = todo \ {k}
  /\ UNCHANGED saved
  /\ PutStep

\* The answer is "saved", also after an error.
PutReplies ==
  /\ put = "set" /\ todo = {}
  /\ put' = "idle" /\ body' = Nothing /\ failed' = FALSE
  /\ saved' = [k \in Keys |->
       IF body[k] = Unset \/ failed THEN saved[k] ELSE body[k]]
  /\ UNCHANGED <<nvs, tokenVars, startVars, todo, faults>>

Put == PutSets \/ PutCommits \/ PutFails \/ PutReplies
-----------------------------------------------------------------------------
ConfigNext ==
  \/ PowersOn \/ AppMain \/ StartFails \/ Resets
  \/ (\E b \in Entries : PutBegins(b)) \/ Put

ConfigSpec == ConfigInit /\ [][ConfigNext]_configVars
-----------------------------------------------------------------------------
\* config_manager.h:62: the token that the user copied from the serial monitor
\* is the one that check_token compares, after any resets, until NVS fails.
PrintedTokenStays == printed # 0 => token = printed

\* http_server.c:345: when every key could be set, "saved" means that the next
\* start reads them, wherever the power fails, until they are saved again.
\* (A string that is too long is answered to be saved and never read.)
StartUsesSaved ==
  [][ReadsSettings =>
       \A k \in Keys : saved[k] \notin TooLong \cup {Unset} =>
                         settings'[k] = saved[k]]_configVars

\* The state that this comes from: an entry that was saved is in the flash,
\* and one that is being saved again and was set already has the new value.
SavedIsStored ==
  /\ \A k \in Keys : saved[k] # Unset => nvs[k] = saved[k]
  /\ put # "idle" /\ ~failed =>
       \A k \in Keys \ todo : body[k] # Unset => nvs[k] = body[k]
=============================================================================
