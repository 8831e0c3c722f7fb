------------------------------ MODULE MCDevice ------------------------------
(* An instance of Device for TLC. *)
EXTENDS Device

CONSTANTS good, refused, long

Body(ssid, pass) ==
  [k \in Keys |-> IF k = "wifi_ssid" THEN ssid ELSE pass]

\* A password that is refused, a remedy, and an SSID that is too long.
FewBodies == {Body(good, refused), Body(Unset, good), Body(long, Unset)}
=============================================================================
