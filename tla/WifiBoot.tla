------------------------------ MODULE WifiBoot -------------------------------
(***************************************************************************)
(* initWifi (user_main.c): at boot the radio tries its first network, its  *)
(* second when the first refuses, and becomes an access point when nothing *)
(* answers; then it saves the address it has.                              *)
(***************************************************************************)
EXTENDS Integers

CONSTANTS
  Tries,       \* polls of the status before the access point (10)
  ErasedSsid,  \* what a network name is in erased flash
  MaxBoots     \* bound: boots

WifiBootAssumption == Tries \in Nat \ {0, 1} /\ MaxBoots \in Nat \ {0}

VARIABLES
  device,      \* saved: [ssid, ssid2, ip, dhcpEn]
  sdk,         \* the network the SDK remembers: config, and its default
  pc,          \* "start", "poll", "look", "ap", "done"
  ap, i,       \* locals of initWifi
  info,        \* the address of the interface
  mode,        \* "station", "softap"
  status,      \* wifi_station_get_connect_status()
  waited,      \* external: polls since the connect, up to Tries
  answers,     \* external: what each network would do
  tried,       \* history: the settings this boot began with
  boots

vars == <<device, sdk, pc, ap, i, info, mode, status, waited, answers, tried, boots>>

NoSsid == "none"
Ssids == {NoSsid, "net1", "net2"}
Refusals == {"wrongPassword", "connectFail", "noApFound"}
Behaviours == {"accepts"} \cup Refusals \cup {"silent"}

Unset(ssid) == ssid \in {NoSsid, ErasedSsid}

Init ==
  /\ device \in [ssid : {NoSsid, "net1", ErasedSsid}, ssid2 : {NoSsid, "net2", ErasedSsid},
                 ip : {"static"}, dhcpEn : BOOLEAN]
  /\ sdk \in {NoSsid, "net1"}
  /\ pc = "start" /\ ap = 0 /\ i = 0 /\ info = "none" /\ mode = "station" /\ status = "idle"
  /\ waited = 0 /\ answers \in [{"net1", "net2"} -> Behaviours]
  /\ tried = device /\ boots = 1
-----------------------------------------------------------------------------
Cleared(d) ==
  IF d.ssid = ErasedSsid /\ d.ssid2 = ErasedSsid
  THEN [d EXCEPT !.ssid = NoSsid, !.ssid2 = NoSsid, !.dhcpEn = FALSE]
  ELSE [d EXCEPT !.ssid2 = IF @ = ErasedSsid THEN NoSsid ELSE @]

(* The station is pointed at a network, with its own address or DHCP's.     *)
ConnectTo(ssid, d) ==
  /\ sdk' = ssid
  /\ info' = IF d.dhcpEn THEN "none" ELSE d.ip
  /\ status' = "connecting" /\ waited' = 0

(* Up to the first wifi_station_connect; the first use takes over what the  *)
(* SDK remembers.                                                           *)
Start ==
  /\ pc = "start"
  /\ LET loaded == Cleared(device)
         first == Unset(loaded.ssid)
         d == IF first THEN [loaded EXCEPT !.ssid = sdk, !.ip = "default", !.dhcpEn = TRUE] ELSE loaded
     IN  /\ device' = d
         /\ tried' = d
         /\ ConnectTo(d.ssid, d)
  /\ mode' = "station" /\ ap' = 0 /\ i' = 0 /\ pc' = "poll"
  /\ UNCHANGED <<answers, boots>>

GotIp ==
  /\ pc = "poll" /\ status = "gotIp"
  /\ pc' = "done"
  /\ device' = [device EXCEPT !.ip = info]
  /\ UNCHANGED <<sdk, ap, i, info, mode, status, waited, answers, tried, boots>>

Delay ==
  /\ pc = "poll" /\ status # "gotIp"
  /\ pc' = "look" /\ waited' = IF waited < Tries THEN waited + 1 ELSE waited
  /\ UNCHANGED <<device, sdk, ap, i, info, mode, status, answers, tried, boots>>

Refused == sdk = NoSsid \/ status \in Refusals

(* Mutant: the second network has only the tries that are left.             *)
TrySecondGoingOn ==
  /\ pc = "look" /\ Refused /\ ~Unset(device.ssid2) /\ ap < 1
  /\ ConnectTo(device.ssid2, device)
  /\ ap' = ap + 1 /\ i' = i + 1
  /\ pc' = IF i' >= Tries THEN "ap" ELSE "poll"
  /\ UNCHANGED <<device, mode, answers, tried, boots>>

TrySecond ==
  /\ pc = "look" /\ Refused /\ ~Unset(device.ssid2) /\ ap < 1
  /\ ConnectTo(device.ssid2, device)
  /\ ap' = ap + 1 /\ i' = 0
  /\ pc' = "poll"
  /\ UNCHANGED <<device, mode, answers, tried, boots>>

TryAgain ==
  /\ pc = "look" /\ ~(Refused /\ ~Unset(device.ssid2) /\ ap < 1)
  /\ i' = IF Refused THEN Tries + 1 ELSE i + 1
  /\ pc' = IF i' >= Tries THEN "ap" ELSE "poll"
  /\ UNCHANGED <<device, sdk, ap, info, mode, status, waited, answers, tried, boots>>

(* The access point, whose address is then saved as the station's.          *)
SoftAp ==
  /\ pc = "ap"
  /\ mode' = "softap" /\ status' = "idle" /\ info' = "ap"
  /\ device' = [device EXCEPT !.ip = "ap"]
  /\ pc' = "done"
  /\ UNCHANGED <<sdk, ap, i, waited, answers, tried, boots>>

(* External: the network does what it does, before the tries are over if it *)
(* is not silent.                                                           *)
NetworkAnswers ==
  /\ pc \in {"poll", "look"} /\ status = "connecting" /\ sdk # NoSsid
  /\ answers[sdk] # "silent"
  /\ status' = IF answers[sdk] = "accepts" THEN "gotIp" ELSE answers[sdk]
  /\ info' = IF answers[sdk] = "accepts" /\ device.dhcpEn THEN "dhcp" ELSE info
  /\ UNCHANGED <<device, sdk, pc, ap, i, mode, waited, answers, tried, boots>>

Prompt == pc = "poll" /\ status = "connecting" /\ sdk # NoSsid /\ answers[sdk] # "silent"
            => waited < Tries - 1

(* External: power goes off and comes back, and networks have changed.      *)
Reboot ==
  /\ pc = "done" /\ boots < MaxBoots
  /\ boots' = boots + 1
  /\ pc' = "start" /\ ap' = 0 /\ i' = 0 /\ status' = "idle" /\ waited' = 0 /\ info' = "none"
  /\ answers' \in [{"net1", "net2"} -> Behaviours]
  /\ UNCHANGED <<device, sdk, mode, tried>>

initWifi == Start \/ GotIp \/ (Prompt /\ Delay) \/ TrySecond \/ TryAgain \/ SoftAp
Next == initWifi \/ NetworkAnswers \/ Reboot

Spec == Init /\ [][Next]_vars
-----------------------------------------------------------------------------
(* Types.                                                                   *)
TypeOK ==
  /\ device.ssid \in Ssids \cup {ErasedSsid} /\ device.ip \in {"static", "default", "dhcp", "ap"}
  /\ pc \in {"start", "poll", "look", "ap", "done"} /\ ap \in 0..1 /\ i \in 0..Tries + 1
  /\ mode \in {"station", "softap"} /\ boots \in 1..MaxBoots

(* The radio becomes an access point only when the first network does not   *)
(* take it and the second, if the first refuses, does not either.           *)
ApOnlyIfRefused ==
  mode = "softap" /\ pc = "done" =>
    /\ ~Unset(tried.ssid) => answers[tried.ssid] # "accepts"
    /\ ~Unset(tried.ssid2) /\ (tried.ssid = NoSsid \/ answers[tried.ssid] \in Refusals)
         => answers[tried.ssid2] # "accepts"
==============================================================================
