------------------------------ MODULE WifiReport ------------------------------
(***************************************************************************)
(* The WiFi connection report, wifi/netlink/main.cpp: report() starts a    *)
(* wpa_supplicant and a monitor for each interface, connects each          *)
(* interface to each saved network in range and lets a second thread,      *)
(* packet_sniffing, write down when each phase of the association is seen. *)
(*                                                                         *)
(* The two threads hand over with syncMutex: report() locks it, starts the *)
(* sniffer and locks it again; the sniffer unlocks it.  Frames on the air  *)
(* come from wpa_supplicant and the access point, which are external: once *)
(* the network is enabled they send the frames of Script in order, repeat  *)
(* the last one or start again; the monitor may miss one.                  *)
(*                                                                         *)
(* The durations written between two phases are the subject of ReportTime. *)
(***************************************************************************)
EXTENDS Naturals, Sequences, FiniteSets, SequencesExt

CONSTANTS
  NumInterfaces,  \* how many WiFi interfaces there are
  Saved,          \* the saved networks: enabled, and which of their access
                  \* points are within MAX_RANGE
  Script,         \* the frames of an association, in order
  MaxRepeats,     \* bound: frames and associations sent again in a round
  MaxMissed       \* bound: frames the monitor misses in a round

Interfaces == 1..NumInterfaces
KeyFrames == {"key1", "key2", "key3", "key4"}
EapFrames == KeyFrames \cup {"eap"}
DataFrames == EapFrames \cup {"data"}
ManagementFrames ==
  {"probeResponse", "authRequest", "authResponse", "assoRequest", "assoResponse"}

ASSUME ReportAssumption ==
  /\ NumInterfaces \in Nat
  /\ Saved \in Seq([enabled : BOOLEAN, aps : Seq(BOOLEAN)])
  /\ Script \in Seq(ManagementFrames \cup DataFrames)
  /\ MaxRepeats \in Nat /\ MaxMissed \in Nat

VARIABLES
  main,       \* where report() is
  net,        \* index of the saved network
  ap,         \* index of its access point
  interface,  \* index of the interface
  children,   \* children[i]: the wpa_supplicant process of an interface
  pCount,     \* how many children report() believes it has
  monitors,   \* interfaces with a virtual monitor interface
  mutex,      \* whether syncMutex is locked
  sniffer,    \* where packet_sniffing is
  phases,     \* what it wrote in this round, in order
  counterEAP, \* the key frames it counted
  enabled,    \* whether the network is enabled in wpa_supplicant
  air,        \* how many frames of Script the association has sent
  repeats,    \* how often something was sent again in this round
  buffer,     \* frames captured and not read yet
  missed,     \* how many frames of this round the monitor missed
  tested      \* the (network, interface) pairs enabled so far, in order

indices == <<net, ap, interface>>
processes == <<children, pCount, monitors>>
sniffing == <<sniffer, phases, counterEAP>>
association == <<enabled, air, repeats, buffer>>
vars == <<main, indices, processes, mutex, sniffing, association, missed, tested>>

Init ==
  /\ main = "fork"
  /\ net = 1 /\ ap = 1 /\ interface = 1
  /\ children = [i \in Interfaces |-> "none"]
  /\ pCount = 0
  /\ monitors = {}
  /\ mutex = FALSE
  /\ sniffer = "none"
  /\ phases = << >>
  /\ counterEAP = 0
  /\ enabled = FALSE
  /\ air = 0
  /\ repeats = 0
  /\ buffer = << >>
  /\ missed = 0
  /\ tested = << >>

Goto(from, to) == main = from /\ main' = to
-----------------------------------------------------------------------------
(* report(): children and monitors *)

(* fork() may fail, and the child may fail to execute wpa_supplicant; both *)
(* are counted as a child.                                                 *)
Fork ==
  /\ Goto("fork", "fork")
  /\ interface \in Interfaces
  /\ \E c \in {"running", "dead", "failed"} : children' = [children EXCEPT ![interface] = c]
  /\ pCount' = pCount + 1
  /\ monitors' = monitors \cup {interface}
  /\ interface' = interface + 1
  /\ UNCHANGED <<net, ap, mutex, sniffing, association, missed, tested>>

LoadSavedNetworks ==
  /\ Goto("fork", "network")
  /\ interface \notin Interfaces
  /\ UNCHANGED <<indices, processes, mutex, sniffing, association, missed, tested>>

(* "Error: Bad saved network file!" *)
BadSavedNetworks ==
  /\ Goto("fork", "exitBad")
  /\ interface \notin Interfaces
  /\ UNCHANGED <<indices, processes, mutex, sniffing, association, missed, tested>>
-----------------------------------------------------------------------------
(* report(): the three loops *)

SkipNetwork ==
  /\ Goto("network", "network")
  /\ net \in DOMAIN Saved
  /\ ~Saved[net].enabled
  /\ net' = net + 1
  /\ UNCHANGED <<ap, interface, processes, mutex, sniffing, association, missed, tested>>

EnterNetwork ==
  /\ Goto("network", "accessPoint")
  /\ net \in DOMAIN Saved
  /\ Saved[net].enabled
  /\ ap' = 1
  /\ UNCHANGED <<net, interface, processes, mutex, sniffing, association, missed, tested>>

OutOfRange ==
  /\ Goto("accessPoint", "accessPoint")
  /\ ap \in DOMAIN Saved[net].aps
  /\ ~Saved[net].aps[ap]
  /\ ap' = ap + 1
  /\ UNCHANGED <<net, interface, processes, mutex, sniffing, association, missed, tested>>

InRange ==
  /\ Goto("accessPoint", "interface")
  /\ ap \in DOMAIN Saved[net].aps
  /\ Saved[net].aps[ap]
  /\ interface' = 1
  /\ UNCHANGED <<net, ap, processes, mutex, sniffing, association, missed, tested>>

NoMoreAccessPoints ==
  /\ Goto("accessPoint", "network")
  /\ ap \notin DOMAIN Saved[net].aps
  /\ net' = net + 1
  /\ UNCHANGED <<ap, interface, processes, mutex, sniffing, association, missed, tested>>

(* Mutant: the next access point of the network is tried as well. *)
TryNextAccessPoint ==
  /\ Goto("interface", "accessPoint")
  /\ interface \notin Interfaces
  /\ ap' = ap + 1
  /\ UNCHANGED <<net, interface, processes, mutex, sniffing, association, missed, tested>>

(* "at least one ap of this network found, break" *)
BreakAccessPoints ==
  /\ Goto("interface", "network")
  /\ interface \notin Interfaces
  /\ net' = net + 1
  /\ UNCHANGED <<ap, interface, processes, mutex, sniffing, association, missed, tested>>
-----------------------------------------------------------------------------
(* report(): one round *)

(* WpaControlWrapper tries until the supplicant answers; then ADD_NETWORK  *)
(* and SET_NETWORK, the first lock, and the thread is started.             *)
StartSniffing ==
  /\ Goto("interface", "handOver")
  /\ interface \in Interfaces
  /\ children[interface] = "running"
  /\ ~mutex
  /\ mutex' = TRUE
  /\ sniffer' = "start"
  /\ phases' = << >>
  /\ counterEAP' = 0
  /\ enabled' = FALSE /\ air' = 0 /\ repeats' = 0 /\ buffer' = << >>
  /\ missed' = 0
  /\ UNCHANGED <<indices, processes, tested>>

(* Mutant: report() does not lock a second time. *)
EnableAtOnce ==
  /\ Goto("handOver", "unlock")
  /\ mutex' = TRUE
  /\ enabled' = TRUE
  /\ tested' = Append(tested, <<net, interface>>)
  /\ UNCHANGED <<indices, processes, sniffing, air, repeats, buffer, missed>>

(* "hang here until sniffing thread ready", then ENABLE_NETWORK *)
EnableNetwork ==
  /\ Goto("handOver", "unlock")
  /\ ~mutex
  /\ mutex' = TRUE
  /\ enabled' = TRUE
  /\ tested' = Append(tested, <<net, interface>>)
  /\ UNCHANGED <<indices, processes, sniffing, air, repeats, buffer, missed>>

Unlock ==
  /\ Goto("unlock", "join")
  /\ mutex' = FALSE
  /\ UNCHANGED <<indices, processes, sniffing, association, missed, tested>>

(* The sniffer is joined; DISABLE_NETWORK and REMOVE_NETWORK. *)
EndRound ==
  /\ Goto("join", "interface")
  /\ sniffer = "ended"
  /\ enabled' = FALSE
  /\ interface' = interface + 1
  /\ UNCHANGED <<net, ap, processes, mutex, sniffing, air, repeats, buffer, missed, tested>>
-----------------------------------------------------------------------------
(* report(): the end *)

(* Mutant: only the first child is killed. *)
KillFirstChild ==
  /\ Goto("network", "wait")
  /\ net \notin DOMAIN Saved
  /\ children' = [children EXCEPT ![1] = IF @ = "running" THEN "dead" ELSE @]
  /\ UNCHANGED <<indices, pCount, monitors, mutex, sniffing, association, missed, tested>>

KillChildren ==
  /\ Goto("network", "wait")
  /\ net \notin DOMAIN Saved
  /\ children' = [i \in Interfaces |-> IF children[i] = "running" THEN "dead" ELSE children[i]]
  /\ UNCHANGED <<indices, pCount, monitors, mutex, sniffing, association, missed, tested>>

(* wait() takes one dead child, or fails when there is no child at all. *)
Wait ==
  /\ Goto("wait", "wait")
  /\ pCount > 0
  /\ pCount' = pCount - 1
  /\ \/ \E i \in Interfaces : /\ children[i] = "dead"
                              /\ children' = [children EXCEPT ![i] = "reaped"]
     \/ /\ \A i \in Interfaces : children[i] \notin {"running", "dead"}
        /\ children' = children
  /\ UNCHANGED <<indices, monitors, mutex, sniffing, association, missed, tested>>

(* Mutant: one child less is waited for. *)
RemoveMonitorsEarly ==
  /\ Goto("wait", "exit0")
  /\ pCount <= 1
  /\ monitors' = {}
  /\ UNCHANGED <<indices, children, pCount, mutex, sniffing, association, missed, tested>>

RemoveMonitors ==
  /\ Goto("wait", "exit0")
  /\ pCount = 0
  /\ monitors' = {}
  /\ UNCHANGED <<indices, children, pCount, mutex, sniffing, association, missed, tested>>
-----------------------------------------------------------------------------
(* packet_sniffing *)

(* pcap does not open the device, or not compile or install the filter. *)
SniffingFails ==
  /\ sniffer = "start"
  /\ sniffer' = "ended"
  /\ mutex' = FALSE
  /\ UNCHANGED <<main, indices, processes, phases, counterEAP, association, missed, tested>>

SniffingStarts ==
  /\ sniffer = "start"
  /\ sniffer' = "loop"
  /\ mutex' = FALSE
  /\ UNCHANGED <<main, indices, processes, phases, counterEAP, association, missed, tested>>

Reported(phase) == phase \in ToSet(phases)

(* A phase of the association is reported when its first frame is seen. *)
ReportManagement(frame) ==
  /\ phases' = IF Reported(frame) THEN phases ELSE Append(phases, frame)
  /\ UNCHANGED <<counterEAP, sniffer>>

(* Mutant: every authentication frame counts, not only the key frames. *)
CountEveryEap(frame) ==
  LET first == IF Reported("FirstEAP") THEN << >> ELSE <<"FirstEAP">>
      last == IF counterEAP' = 4 THEN <<"LastEAP">> ELSE << >> IN
  /\ counterEAP' = counterEAP + 1
  /\ phases' = phases \o first \o last
  /\ UNCHANGED sniffer

(* Before "Last EAP": the fourth key frame is it, and dhclient is called. *)
ReportEap(frame) ==
  LET first == IF Reported("FirstEAP") THEN << >> ELSE <<"FirstEAP">>
      last == IF counterEAP' = 4 THEN <<"LastEAP">> ELSE << >> IN
  /\ counterEAP' = counterEAP + (IF frame \in KeyFrames THEN 1 ELSE 0)
  /\ phases' = phases \o first \o last
  /\ UNCHANGED sniffer

(* After "Last EAP": any data frame ends the sniffing. *)
ReportFirstData ==
  /\ phases' = Append(phases, "FirstData")
  /\ sniffer' = "ended"
  /\ UNCHANGED counterEAP

IgnoreData == UNCHANGED <<phases, counterEAP, sniffer>>

(* Mutant: key frames count after "Last EAP" too. *)
ReadFrameKeysFirst ==
  /\ sniffer = "loop"
  /\ buffer # << >>
  /\ buffer' = Tail(buffer)
  /\ LET frame == Head(buffer) IN
       \/ frame \in ManagementFrames /\ ReportManagement(frame)
       \/ frame \in EapFrames /\ ReportEap(frame)
       \/ frame = "data" /\ Reported("LastEAP") /\ ReportFirstData
       \/ frame = "data" /\ ~Reported("LastEAP") /\ IgnoreData
  /\ UNCHANGED <<main, indices, processes, mutex, enabled, air, repeats, missed, tested>>

(* Mutant: data ends the sniffing before "Last EAP" too. *)
ReadFrameAnyData ==
  /\ sniffer = "loop"
  /\ buffer # << >>
  /\ buffer' = Tail(buffer)
  /\ LET frame == Head(buffer) IN
       \/ frame \in ManagementFrames /\ ReportManagement(frame)
       \/ frame \in DataFrames /\ Reported("FirstEAP") /\ ReportFirstData
       \/ frame \in EapFrames /\ ~Reported("FirstEAP") /\ ReportEap(frame)
       \/ frame = "data" /\ ~Reported("FirstEAP") /\ IgnoreData
  /\ UNCHANGED <<main, indices, processes, mutex, enabled, air, repeats, missed, tested>>

ReadFrame ==
  /\ sniffer = "loop"
  /\ buffer # << >>
  /\ buffer' = Tail(buffer)
  /\ LET frame == Head(buffer) IN
       \/ frame \in ManagementFrames /\ ReportManagement(frame)
       \/ frame \in DataFrames /\ Reported("LastEAP") /\ ReportFirstData
       \/ frame \in EapFrames /\ ~Reported("LastEAP") /\ ReportEap(frame)
       \/ frame = "data" /\ ~Reported("LastEAP") /\ IgnoreData
  /\ UNCHANGED <<main, indices, processes, mutex, enabled, air, repeats, missed, tested>>
-----------------------------------------------------------------------------
(* wpa_supplicant, the access point and the air: external *)

Listening == sniffer = "loop"

Captured(frame) ==
  \/ /\ Listening
     /\ buffer' = Append(buffer, frame)
     /\ missed' = missed
  \/ /\ ~Listening
     /\ UNCHANGED <<buffer, missed>>
  \/ /\ Listening
     /\ missed < MaxMissed
     /\ missed' = missed + 1
     /\ buffer' = buffer

(* The next frame of the association.  The first data frame is dhclient's. *)
Transmit ==
  /\ enabled
  /\ air < Len(Script)
  /\ Script[air + 1] = "data" => Reported("LastEAP") \/ ~Listening
  /\ air' = air + 1
  /\ Captured(Script[air + 1])
  /\ UNCHANGED <<main, indices, processes, mutex, sniffing, enabled, repeats, tested>>

(* The last frame again, for want of an answer. *)
Retransmit ==
  /\ enabled
  /\ air \in DOMAIN Script
  /\ repeats < MaxRepeats
  /\ repeats' = repeats + 1
  /\ Captured(Script[air])
  /\ UNCHANGED <<main, indices, processes, mutex, sniffing, enabled, air, tested>>

(* The association fails and wpa_supplicant begins again. *)
Reassociate ==
  /\ enabled
  /\ air \in DOMAIN Script
  /\ repeats < MaxRepeats
  /\ repeats' = repeats + 1
  /\ air' = 0
  /\ UNCHANGED <<main, indices, processes, mutex, sniffing, enabled, buffer, missed, tested>>

Report ==
  \/ Fork \/ LoadSavedNetworks \/ BadSavedNetworks
  \/ SkipNetwork \/ EnterNetwork \/ OutOfRange \/ InRange
  \/ NoMoreAccessPoints \/ BreakAccessPoints
  \/ StartSniffing \/ EnableNetwork \/ Unlock \/ EndRound
  \/ KillChildren \/ Wait \/ RemoveMonitors
PacketSniffing == SniffingFails \/ SniffingStarts \/ ReadFrame
Air == Transmit \/ Retransmit \/ Reassociate

Next == Report \/ PacketSniffing \/ Air

Spec == Init /\ [][Next]_vars

(* Both threads run, and wpa_supplicant and the access point go on with an *)
(* association they began.                                                 *)
FairSpec == Spec /\ WF_vars(Report) /\ WF_vars(PacketSniffing) /\ WF_vars(Transmit)
-----------------------------------------------------------------------------
Phases == ManagementFrames \cup {"FirstEAP", "LastEAP", "FirstData"}

(* Types of the variables. *)
TypeOK ==
  /\ main \in {"fork", "network", "accessPoint", "interface", "handOver", "unlock", "join",
               "wait", "exit0", "exitBad"}
  /\ net \in 1..(Len(Saved) + 1)
  /\ ap \in Nat
  /\ interface \in 1..(NumInterfaces + 1)
  /\ children \in [Interfaces -> {"none", "running", "dead", "failed", "reaped"}]
  /\ pCount \in 0..NumInterfaces
  /\ monitors \subseteq Interfaces
  /\ mutex \in BOOLEAN
  /\ sniffer \in {"none", "start", "loop", "ended"}
  /\ phases \in Seq(Phases)
  /\ counterEAP \in 0..4
  /\ enabled \in BOOLEAN
  /\ air \in 0..Len(Script)
  /\ repeats \in 0..MaxRepeats
  /\ buffer \in Seq(ManagementFrames \cup DataFrames)
  /\ missed \in 0..MaxMissed
  /\ tested \in Seq((DOMAIN Saved) \X Interfaces)

(* The network is enabled only when the sniffer listens or has given up,   *)
(* so no frame of the association is sent before anybody listens.          *)
EnabledAfterListening == enabled => sniffer \in {"loop", "ended"}

PhaseAt(phase) == CHOOSE n \in DOMAIN phases : phases[n] = phase

(* However often its frames are sent again, every phase is written once;   *)
(* a sniffer that read its way to the end wrote "First EAP", "Last EAP"    *)
(* and "First data", in this order, after four key frames.                 *)
ReportComplete ==
  /\ IsInjective(phases)
  /\ sniffer = "ended" /\ phases # << >> =>
    /\ {"FirstEAP", "LastEAP", "FirstData"} \subseteq ToSet(phases)
    /\ PhaseAt("FirstEAP") < PhaseAt("LastEAP")
    /\ PhaseAt("LastEAP") < PhaseAt("FirstData")
    /\ counterEAP = 4

(* When nothing was sent again, "Last EAP" is written for the fourth       *)
(* message of the handshake ("count 4 ways handshake packets").            *)
LastEapWritten == Reported("LastEAP")' /\ ~Reported("LastEAP")
LastEapRight == [][LastEapWritten /\ repeats = 0 => Head(buffer) = "key4"]_vars

(* What report() is for: each enabled network with an access point in      *)
(* range is tried once on each interface, and no other network.            *)
ToBeTested ==
  {n \in DOMAIN Saved : Saved[n].enabled /\ TRUE \in ToSet(Saved[n].aps)} \X Interfaces
EachNetworkTested ==
  /\ IsInjective(tested)
  /\ ToSet(tested) \subseteq ToBeTested
  /\ main = "exit0" => ToSet(tested) = ToBeTested

(* report() returns EXIT_SUCCESS only when every child is gone and waited  *)
(* for and no monitor interface is left, though failed forks are counted   *)
(* as children.                                                            *)
CleanExit ==
  main = "exit0" =>
    /\ monitors = {}
    /\ \A i \in Interfaces : children[i] \in {"failed", "reaped"}

(* The two places where report() may stay for ever: WpaControlWrapper tries *)
(* to reach a supplicant that is not there, and the sniffer waits for       *)
(* frames of this round of which the monitor missed some.                   *)
Unanswered ==
  main = "interface" /\ interface \in Interfaces /\ children[interface] # "running"
Unheard == main = "join" /\ sniffer = "loop" /\ missed > 0

(* report() returns unless it stays in one of them: the hand-over does not  *)
(* block, not after an error return of the sniffer either; neither repeated *)
(* frames nor repeated associations keep the sniffer from its end; and the  *)
(* wait for the children ends, whichever died, ran or were never forked.    *)
ReportEnds == <>(main \in {"exit0", "exitBad"}) \/ <>[]Unanswered \/ <>[]Unheard
-----------------------------------------------------------------------------
(* What the code or its comments say and do not keep. *)

(* "count 4 ways handshake packets": "Last EAP" is the fourth message,     *)
(* also when a message is sent again.                                      *)
LastEapIsFourth == [][LastEapWritten => Head(buffer) = "key4"]_vars

(* Children and monitor interfaces are gone whenever report() returns. *)
NothingLeft ==
  main \in {"exit0", "exitBad"} =>
    monitors = {} /\ \A i \in Interfaces : children[i] \notin {"running", "dead"}
===============================================================================
