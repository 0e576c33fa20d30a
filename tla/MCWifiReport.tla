----------------------------- MODULE MCWifiReport -----------------------------
EXTENDS WifiReport, ReportTime

Network(inUse, aps) == [enabled |-> inUse, aps |-> aps]

(* One out of use, one whose second access point is in range and whose     *)
(* third is too, one out of range.                                         *)
SavedNetworks ==
  <<Network(FALSE, <<TRUE>>), Network(TRUE, <<FALSE, TRUE, TRUE>>), Network(TRUE, <<FALSE>>)>>
OneNetwork == <<Network(TRUE, <<TRUE>>)>>

Management == <<"probeResponse", "authRequest", "authResponse", "assoRequest", "assoResponse">>
Wpa == Management \o <<"eap", "key1", "key2", "key3", "key4", "data">>
ShortWpa == <<"authResponse", "eap", "key1", "key2", "key3", "key4", "data">>
Open == Management \o <<"data">>

(* report_to_file on time stamps around every carry. *)
Stamps == [sec : 0..3, usec : {0, 1, 999, 1000, 500000, 999000, 999999}]
ASSUME GapsRightOnStamps ==
  \A event, time \in Stamps :
    Microseconds(event) < Microseconds(time) /\ event.usec # time.usec => GapRight(event, time)
===============================================================================
