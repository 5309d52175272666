------------------------------ MODULE WifiState -----------------------------
(***************************************************************************)
(* WiFiClass: mode, status and SSID of a radio that is not there. The      *)
(* environment says how connecting ends and which networks a scan shows;   *)
(* it does not change while the process runs, so that the parsed list that *)
(* is kept by its text is always that of the environment. softAPIP() is    *)
(* the same address at all times and left out.                             *)
(***************************************************************************)
EXTENDS Naturals

CONSTANTS
  Ssids,         (* SSIDs the firmware may ask for                          *)
  Defaults,      (* those of defaultNetworks                                *)
  DefaultSsid,   (* the SSID of begin() without one                         *)
  ApSsid,        (* the name of the access point                            *)
  Unspecified    (* WIFI_NETWORKS is not set                                *)

ASSUME WifiAssumption == DefaultSsid \in Defaults

VARIABLES
  wifiEnv,   (* [connect, ap, networks] of CROSSPOINT_SIM_WIFI_*            *)
  wifiMode,  (* currentMode                                                 *)
  status,    (* currentStatus                                               *)
  ssid,      (* currentSsid                                                 *)
  joined     (* history: the link a begin or softAP has made, and its name  *)

wifiVars == <<wifiEnv, wifiMode, status, ssid, joined>>

Link(kind, name) == [kind |-> kind, name |-> name]
NoLink == Link("none", DefaultSsid)

Environments ==
  [connect : {"unset", "fail", "no-ssid", "timeout"}, ap : {"unset", "fail"},
   networks : {Unspecified} \cup SUBSET Ssids]

Listed ==
  IF wifiEnv.networks = Unspecified THEN Defaults ELSE wifiEnv.networks

(* Seeded fault: a network that no scan shows can be joined.               *)
HiddenIsFound(name) == FALSE
NotFoundByScan(name) ==
  wifiEnv.networks # Unspecified /\ name \notin Listed

Outcome(name) ==
  IF wifiEnv.connect = "fail"         THEN "WL_CONNECT_FAILED"
  ELSE IF wifiEnv.connect = "no-ssid" THEN "WL_NO_SSID_AVAIL"
  ELSE IF wifiEnv.connect = "timeout" THEN "WL_IDLE_STATUS"
  ELSE IF NotFoundByScan(name)        THEN "WL_NO_SSID_AVAIL"
  ELSE "WL_CONNECTED"

WifiBegin(name) ==
  /\ wifiMode' = "STA" /\ ssid' = name
  /\ status' = Outcome(name)
  /\ joined' = IF Outcome(name) = "WL_CONNECTED" THEN Link("station", name)
               ELSE NoLink
  /\ UNCHANGED wifiEnv

SoftAP(name) ==
  /\ wifiMode' = "AP" /\ ssid' = name
  /\ status' = IF wifiEnv.ap = "fail" THEN "WL_CONNECT_FAILED"
               ELSE "WL_CONNECTED"
  /\ joined' = IF wifiEnv.ap = "fail" THEN NoLink ELSE Link("ap", name)
  /\ UNCHANGED wifiEnv

(* disconnect and softAPdisconnect, neither of which switches off.         *)
Disconnect ==
  /\ status' = "WL_DISCONNECTED" /\ joined' = NoLink
  /\ UNCHANGED <<wifiEnv, wifiMode, ssid>>

SetMode(m) ==
  /\ wifiMode' = m
  /\ IF m = "OFF" THEN status' = "WL_DISCONNECTED" /\ joined' = NoLink
     ELSE UNCHANGED <<status, joined>>
  /\ UNCHANGED <<wifiEnv, ssid>>

WifiInit ==
  /\ wifiEnv \in Environments
  /\ wifiMode = "OFF" /\ status = "WL_DISCONNECTED" /\ ssid = DefaultSsid
  /\ joined = NoLink

WifiNext ==
  \/ \E name \in Ssids \cup {DefaultSsid} : WifiBegin(name)
  \/ \E name \in Ssids \cup {ApSsid} : SoftAP(name)
  \/ Disconnect
  \/ \E m \in {"OFF", "STA", "AP", "AP_STA"} : SetMode(m)

-----------------------------------------------------------------------------

(* An address and a channel are there exactly while what the last begin or *)
(* softAP made was neither left nor switched off; a radio that is off has  *)
(* none. The link bears the name it was made with, that of an access point *)
(* also. A station is in a network that a scan of that moment shows when   *)
(* the environment names the networks.                                     *)
LinkIsReal ==
  /\ status = "WL_CONNECTED" <=> joined.kind # "none"
  /\ joined.kind # "none" => wifiMode # "OFF" /\ ssid = joined.name
  /\ joined.kind = "station" =>
       /\ wifiEnv.connect = "unset"
       /\ wifiEnv.networks # Unspecified => joined.name \in Listed
  /\ joined.kind = "ap" => wifiEnv.ap = "unset"
=============================================================================
