------------------------------ MODULE WifiLink ------------------------------
(***************************************************************************)
(* The operations of WifiInterface over nl80211 (netlink/network.cpp,      *)
(* nlwifi.c): scan for networks, connect to an access point, disconnect.   *)
(* Each sends a request on the netlink socket of its object and waits for  *)
(* an event that the kernel multicasts to every member of a group, about   *)
(* whichever interface and whoever asked.                                  *)
(*                                                                         *)
(* Each object runs its operation once, on a socket as its constructor     *)
(* made it.  The kernel and the library that reads the socket are external.*)
(***************************************************************************)
EXTENDS Integers, Sequences, Functions

CONSTANTS
    Objects,        \* WifiInterface objects, each with a socket of its own
    Crews,          \* the sets of objects that are used together
    Interfaces,     \* network interfaces
    IfOf,           \* the interface of an object
    Op,             \* the operation an object runs
    Target,         \* the access point a connect asks for
    AccessPoints,
    Ssid,           \* the network of an access point
    Shared,         \* interfaces that other processes scan
    MaxOther,       \* bound on the scans of other processes
    Audible,        \* the sets of access points a scan may find
    Seen,           \* the bytes of an address up to its first zero byte
    WithZero        \* the interfaces and access points whose address has one

ASSUME LinkAssumption ==
    /\ Crews \subseteq SUBSET Objects
    /\ IfOf \in [Objects -> Interfaces]
    /\ Op \in [Objects -> {"scan", "connect", "disconnect"}]
    /\ Target \in [Objects -> AccessPoints]
    /\ Shared \subseteq Interfaces
    /\ MaxOther \in Nat
    /\ Audible \subseteq SUBSET AccessPoints
    /\ DOMAIN Seen = Interfaces \cup AccessPoints
    /\ WithZero \subseteq Interfaces \cup AccessPoints
    /\ \A a, b \in Interfaces \cup AccessPoints :
         Seen[a] = Seen[b] => (a \in WithZero <=> b \in WithZero)

VARIABLES
    pc,             \* where the operation of an object stands
    done,           \* the callback has seen the event the loop waits for
    status,         \* what the callback made of it; -1 before
    ret,            \* what the operation returned
    wifiNetworks,   \* the networks an object lists
    member,         \* the multicast groups a socket is a member of
    queue,          \* messages the socket has not read
    began,          \* scans completed when the socket became a member
    scanning,       \* kernel: interfaces with a scan in progress
    scans,          \* kernel: scans completed on each interface
    heard,          \* kernel: access points of the last completed scan
    unlisted,       \* kernel: what a socket has still to read of a dump
    asked,          \* kernel: the request an interface is working on
    link,           \* kernel: the access point and the state of each link
    granted,        \* kernel: authentications granted so far
    other           \* scans other processes asked for

callVars == <<pc, done, status, ret, wifiNetworks, began>>
scanVars == <<scanning, scans, heard, unlisted, other>>
linkVars == <<asked, link, granted>>
vars == <<callVars, member, queue, scanVars, linkVars>>

NoAsk == [kind |-> "none", ap |-> CHOOSE a \in AccessPoints : TRUE]
Down == [state |-> "down", ap |-> CHOOSE a \in AccessPoints : TRUE]
Pending == -2           \* no return value yet

Msg(kind, i, ap, st) == [kind |-> kind, ifc |-> i, ap |-> ap, status |-> st]
Reply(kind, o) == Msg(kind, IfOf[o], Target[o], 0)

Init ==
    /\ \E crew \in Crews : pc = [o \in Objects |-> IF o \in crew THEN "idle" ELSE "unused"]
    /\ done = [o \in Objects |-> FALSE]
    /\ status = [o \in Objects |-> -1]
    /\ ret = [o \in Objects |-> Pending]
    /\ wifiNetworks = [o \in Objects |-> <<>>]
    /\ member = [o \in Objects |-> "none"]
    /\ queue = [o \in Objects |-> <<>>]
    /\ began = [o \in Objects |-> [i \in Interfaces |-> 0]]
    /\ scanning = {}
    /\ scans = [i \in Interfaces |-> 0]
    /\ heard = [i \in Interfaces |-> {}]
    /\ unlisted = [o \in Objects |-> {}]
    /\ asked = [i \in Interfaces |-> NoAsk]
    /\ link = [i \in Interfaces |-> Down]
    /\ granted = {}
    /\ other = 0

-----------------------------------------------------------------------------
\* The kernel's multicast: to every socket that is a member now.
Delivered(group, msg) ==
    queue' = [o \in Objects |-> IF member[o] = group THEN Append(queue[o], msg) ELSE queue[o]]

Answered(o, msg) == queue' = [queue EXCEPT ![o] = Append(@, msg)]

Taken(o) == queue' = [queue EXCEPT ![o] = Tail(@)]

Arrived(o) == queue[o] # <<>>
First(o) == Head(queue[o])

Returns(o, value) ==
    /\ pc' = [pc EXCEPT ![o] = "done"]
    /\ ret' = [ret EXCEPT ![o] = value]

(***************************************************************************)
(* fullNetworkScan: join the group, trigger, wait for the acknowledgement  *)
(* and then for the end of the scan, and dump what was found.  The         *)
(* callback runs on events in both waits.                                  *)
(***************************************************************************)
\* Mutant: the group is joined after the request.
ScanJoinsLate(o) ==
    /\ pc[o] = "idle" /\ Op[o] = "scan"
    /\ wifiNetworks' = [wifiNetworks EXCEPT ![o] = <<>>]
    /\ began' = [began EXCEPT ![o] = scans]
    /\ pc' = [pc EXCEPT ![o] = "trigger"]
    /\ UNCHANGED <<done, status, ret, member, queue, scanVars, linkVars>>

Scan(o) ==
    /\ pc[o] = "idle" /\ Op[o] = "scan"
    /\ wifiNetworks' = [wifiNetworks EXCEPT ![o] = <<>>]
    /\ member' = [member EXCEPT ![o] = "scan"]
    /\ began' = [began EXCEPT ![o] = scans]
    /\ pc' = [pc EXCEPT ![o] = "trigger"]
    /\ UNCHANGED <<done, status, ret, queue, scanVars, linkVars>>

Trigger(o) ==
    /\ pc[o] = "trigger"
    /\ IF IfOf[o] \in scanning
       THEN Answered(o, Reply("busy", o)) /\ UNCHANGED scanning
       ELSE Answered(o, Reply("ack", o)) /\ scanning' = scanning \cup {IfOf[o]}
    /\ pc' = [pc EXCEPT ![o] = "ack"]
    /\ UNCHANGED <<done, status, ret, wifiNetworks, began, member,
                   scans, heard, unlisted, other, linkVars>>

\* Mutant: the callback takes the flag for a verdict and keeps an abort as done.
ScanEventAnyEnd(o) ==
    /\ pc[o] \in {"ack", "event"}
    /\ pc[o] = "event" => ~done[o]
    /\ Arrived(o) /\ First(o).kind \in {"results", "aborted"}
    /\ Taken(o)
    /\ done' = [done EXCEPT ![o] = TRUE]
    /\ status' = [status EXCEPT ![o] = 0]
    /\ UNCHANGED <<pc, ret, wifiNetworks, began, member, scanVars, linkVars>>

\* full_network_scan_trigger_multicast_callback: whichever interface it is about.
ScanEvent(o) ==
    /\ pc[o] \in {"ack", "event"}
    /\ pc[o] = "event" => ~done[o]
    /\ Arrived(o) /\ First(o).kind \in {"results", "aborted"}
    /\ Taken(o)
    /\ done' = [done EXCEPT ![o] = TRUE]
    /\ status' = [status EXCEPT ![o] = IF First(o).kind = "aborted" THEN 1 ELSE 0]
    /\ UNCHANGED <<pc, ret, wifiNetworks, began, member, scanVars, linkVars>>

Acknowledged(o) ==
    /\ pc[o] = "ack"
    /\ Arrived(o) /\ First(o).kind = "ack"
    /\ Taken(o)
    /\ pc' = [pc EXCEPT ![o] = "event"]
    /\ UNCHANGED <<done, status, ret, wifiNetworks, began, member, scanVars, linkVars>>

\* Refused: the early return leaves the socket in the group.
Refused(o) ==
    /\ pc[o] = "ack"
    /\ Arrived(o) /\ First(o).kind = "busy"
    /\ Taken(o)
    /\ Returns(o, -1)
    /\ UNCHANGED <<done, status, wifiNetworks, began, member, scanVars, linkVars>>

\* An aborted scan returns 1, from inside the group, and fullNetworkScan
\* takes only negative values for errors.
ScanEnded(o) ==
    /\ pc[o] = "event" /\ done[o]
    /\ IF status[o] = 0 THEN member' = [member EXCEPT ![o] = "none"] ELSE UNCHANGED member
    /\ pc' = [pc EXCEPT ![o] = "dump"]
    /\ UNCHANGED <<done, status, ret, wifiNetworks, began, queue, scanVars, linkVars>>

\* Mutant: only the last network is looked at.
ListedLast(networks, ap) ==
    IF networks # <<>> /\ networks[Len(networks)].ssid = Ssid[ap]
    THEN [networks EXCEPT ![Len(networks)].accessPoints = Append(@, ap)]
    ELSE Append(networks, [ssid |-> Ssid[ap], accessPoints |-> <<ap>>])

\* full_network_scan_handler: the access point goes to the network of its name.
Listed(networks, ap) ==
    LET same == {k \in DOMAIN networks : networks[k].ssid = Ssid[ap]}
    IN  IF same = {}
        THEN Append(networks, [ssid |-> Ssid[ap], accessPoints |-> <<ap>>])
        ELSE [networks EXCEPT ![CHOOSE k \in same : \A j \in same : k <= j].accessPoints
                                = Append(@, ap)]

\* get_network_scan_result: the kernel lists the access points it has, in any
\* order, each once.  An event still unread comes first, has the wrong sequence
\* number and ends the reading; the error is ignored.
Dump(o) ==
    /\ pc[o] = "dump"
    /\ unlisted' = [unlisted EXCEPT ![o] = IF queue[o] = <<>> THEN heard[IfOf[o]] ELSE {}]
    /\ pc' = [pc EXCEPT ![o] = "list"]
    /\ UNCHANGED <<done, status, ret, wifiNetworks, began, member, queue,
                   scanning, scans, heard, other, linkVars>>

\* The handler runs once for each access point.
ListNext(o) ==
    /\ pc[o] = "list"
    /\ \E ap \in unlisted[o] :
         /\ wifiNetworks' = [wifiNetworks EXCEPT ![o] = Listed(@, ap)]
         /\ unlisted' = [unlisted EXCEPT ![o] = @ \ {ap}]
    /\ UNCHANGED <<pc, done, status, ret, began, member, queue,
                   scanning, scans, heard, other, linkVars>>

\* An event that comes meanwhile may be read before the rest, and ends the reading.
ListEnds(o) ==
    /\ pc[o] = "list"
    /\ unlisted[o] = {} \/ queue[o] # <<>>
    /\ Returns(o, status[o])
    /\ UNCHANGED <<done, status, wifiNetworks, began, member, queue, scanVars, linkVars>>

-----------------------------------------------------------------------------
(***************************************************************************)
(* connect_to_access_point: authenticate, then associate.  The callbacks   *)
(* look for a frame to this interface from that access point.              *)
(*                                                                         *)
(* They compare the six bytes of addresses with strcmp.  It stops at a     *)
(* zero byte, so addresses that agree up to one are equal to it, as any    *)
(* two that begin with 00 are.  Addresses without one are read on past     *)
(* their end, so that a frame may be passed over though it agrees.         *)
(***************************************************************************)
Alike(a, b) == Seen[a] = Seen[b]
SurelyEqual(a, b) == Alike(a, b) /\ a \in WithZero

\* The kernel starts to work on a request, or refuses it.
Asks(o, kind) ==
    LET i == IfOf[o] IN
    \/ /\ asked[i].kind = "none"
       /\ asked' = [asked EXCEPT ![i] = [kind |-> kind, ap |-> Target[o]]]
       /\ UNCHANGED queue
    \/ Answered(o, Reply("error", o)) /\ UNCHANGED asked

Connect(o) ==
    /\ pc[o] = "idle" /\ Op[o] = "connect"
    /\ member' = [member EXCEPT ![o] = "mlme"]
    /\ Asks(o, "auth")
    /\ pc' = [pc EXCEPT ![o] = "auth"]
    /\ UNCHANGED <<done, status, ret, wifiNetworks, began, scanVars, link, granted>>

\* Mutant: any access point will do.
FromAnyone(o) == Alike(First(o).ifc, IfOf[o])

\* "we are the destination" and "this is from the ap we wanted to connect".
FromTarget(o) == Alike(First(o).ifc, IfOf[o]) /\ Alike(First(o).ap, Target[o])

Frame(o) ==
    /\ pc[o] \in {"auth", "assoc"} /\ ~done[o]
    /\ Arrived(o) /\ First(o).kind = pc[o]
    /\ FromTarget(o)
    /\ Taken(o)
    /\ done' = [done EXCEPT ![o] = TRUE]
    /\ status' = [status EXCEPT ![o] = First(o).status]
    /\ UNCHANGED <<pc, ret, wifiNetworks, began, member, scanVars, linkVars>>

TimeoutKind(kind) == IF kind = "auth" THEN "authTimeout" ELSE "assocTimeout"

\* The report of a timeout names the access point, and is compared with the
\* address of the interface.
TimedOut(o) ==
    /\ pc[o] \in {"auth", "assoc"} /\ ~done[o]
    /\ Arrived(o) /\ First(o).kind = TimeoutKind(pc[o])
    /\ Alike(First(o).ap, IfOf[o])
    /\ Taken(o)
    /\ done' = [done EXCEPT ![o] = TRUE]
    /\ status' = [status EXCEPT ![o] = 1]
    /\ UNCHANGED <<pc, ret, wifiNetworks, began, member, scanVars, linkVars>>

PassedOver(o) ==
    /\ pc[o] \in {"auth", "assoc"} /\ ~done[o]
    /\ Arrived(o)
    /\ First(o).kind = pc[o] =>
         ~(SurelyEqual(First(o).ifc, IfOf[o]) /\ SurelyEqual(First(o).ap, Target[o]))
    /\ First(o).kind = TimeoutKind(pc[o]) => ~SurelyEqual(First(o).ap, IfOf[o])
    /\ Taken(o)
    /\ UNCHANGED <<callVars, member, scanVars, linkVars>>

Authenticated(o) ==
    /\ pc[o] = "auth" /\ done[o] /\ status[o] = 0
    /\ Asks(o, "assoc")
    /\ done' = [done EXCEPT ![o] = FALSE]
    /\ status' = [status EXCEPT ![o] = -1]
    /\ pc' = [pc EXCEPT ![o] = "assoc"]
    /\ UNCHANGED <<ret, wifiNetworks, began, member, scanVars, link, granted>>

NotAuthenticated(o) ==
    /\ pc[o] = "auth" /\ done[o] /\ status[o] # 0
    /\ member' = [member EXCEPT ![o] = "none"]
    /\ Returns(o, -1)
    /\ UNCHANGED <<done, status, wifiNetworks, began, queue, scanVars, linkVars>>

\* Mutant: the status is returned as it is.
AssociatedStatus(o) ==
    /\ pc[o] = "assoc" /\ done[o]
    /\ member' = [member EXCEPT ![o] = "none"]
    /\ Returns(o, status[o])
    /\ UNCHANGED <<done, status, wifiNetworks, began, queue, scanVars, linkVars>>

\* The status of the association is not looked at.
Associated(o) ==
    /\ pc[o] = "assoc" /\ done[o]
    /\ member' = [member EXCEPT ![o] = "none"]
    /\ Returns(o, 0)
    /\ UNCHANGED <<done, status, wifiNetworks, began, queue, scanVars, linkVars>>

\* disconnect: the callback follows its input, which is NULL, and ends the process.
Disconnect(o) ==
    /\ pc[o] = "idle" /\ Op[o] = "disconnect"
    /\ IF link[IfOf[o]].state = "down"
       THEN /\ Returns(o, -1)
            /\ UNCHANGED <<member, asked, queue>>
       ELSE /\ member' = [member EXCEPT ![o] = "mlme"]
            /\ Asks(o, "leave")
            /\ pc' = [pc EXCEPT ![o] = "leave"]
            /\ UNCHANGED ret
    /\ UNCHANGED <<done, status, wifiNetworks, began, scanVars, link, granted>>

LeaveRead(o) ==
    /\ pc[o] = "leave"
    /\ Arrived(o)
    /\ Taken(o)
    /\ pc' = IF First(o).kind = "leave" THEN [any \in Objects |-> "crashed"] ELSE pc
    /\ UNCHANGED <<done, status, ret, wifiNetworks, began, member, scanVars, linkVars>>

-----------------------------------------------------------------------------
(***************************************************************************)
(* The kernel.                                                             *)
(***************************************************************************)
OtherScan(i) ==
    /\ i \in Shared \ scanning
    /\ other < MaxOther
    /\ other' = other + 1
    /\ scanning' = scanning \cup {i}
    /\ UNCHANGED <<callVars, member, queue, scans, heard, unlisted, linkVars>>

ScanDone(i) ==
    /\ i \in scanning
    /\ scanning' = scanning \ {i}
    /\ scans' = [scans EXCEPT ![i] = @ + 1]
    /\ \E found \in Audible : heard' = [heard EXCEPT ![i] = found]
    /\ Delivered("scan", Msg("results", i, Down.ap, 0))
    /\ UNCHANGED <<callVars, member, unlisted, other, linkVars>>

ScanAborted(i) ==
    /\ i \in scanning
    /\ scanning' = scanning \ {i}
    /\ Delivered("scan", Msg("aborted", i, Down.ap, 0))
    /\ UNCHANGED <<callVars, member, scans, heard, unlisted, other, linkVars>>

\* The access point answers a request, or the link is left.
Answer(i) ==
    LET ask == asked[i] IN
    /\ ask.kind # "none"
    /\ asked' = [asked EXCEPT ![i] = NoAsk]
    /\ \E st \in IF ask.kind = "leave" THEN {0} ELSE {0, 1} :
         /\ Delivered("mlme", Msg(ask.kind, i, ask.ap, st))
         /\ link' = IF st # 0 THEN link
                    ELSE [link EXCEPT ![i] = IF ask.kind = "leave" THEN Down
                                             ELSE [state |-> ask.kind, ap |-> ask.ap]]
         /\ granted' = IF ask.kind = "auth" /\ st = 0
                       THEN granted \cup {<<i, ask.ap>>} ELSE granted
    /\ UNCHANGED <<callVars, member, scanVars>>

AnswerTimesOut(i) ==
    /\ asked[i].kind \in {"auth", "assoc"}
    /\ asked' = [asked EXCEPT ![i] = NoAsk]
    /\ Delivered("mlme", Msg(TimeoutKind(asked[i].kind), i, asked[i].ap, 1))
    /\ UNCHANGED <<callVars, member, scanVars, link, granted>>

-----------------------------------------------------------------------------
CallStep(o) ==
    \/ Scan(o) \/ Trigger(o) \/ ScanEvent(o)
    \/ Acknowledged(o) \/ Refused(o) \/ ScanEnded(o)
    \/ Dump(o) \/ ListNext(o) \/ ListEnds(o)
    \/ Connect(o) \/ Frame(o) \/ TimedOut(o) \/ PassedOver(o)
    \/ Authenticated(o) \/ NotAuthenticated(o) \/ Associated(o)
    \/ Disconnect(o) \/ LeaveRead(o)

KernelScan(i) == ScanDone(i) \/ ScanAborted(i)
KernelLink(i) == Answer(i) \/ AnswerTimesOut(i)

Next ==
    \/ \E o \in Objects : CallStep(o)
    \/ \E i \in Interfaces : KernelScan(i) \/ KernelLink(i) \/ OtherScan(i)

Spec == Init /\ [][Next]_vars

\* An operation that can go on does, and the kernel ends what it works on.
FairSpec ==
    /\ Spec
    /\ \A o \in Objects : WF_vars(CallStep(o))
    /\ \A i \in Interfaces : WF_vars(KernelScan(i)) /\ WF_vars(KernelLink(i))

-----------------------------------------------------------------------------
\* What a message or a link may name; those about no access point name Down's.
Named == AccessPoints \cup {Down.ap}

Network == [ssid : {Ssid[ap] : ap \in AccessPoints}, accessPoints : Seq(AccessPoints)]

Kinds == {"ack", "busy", "error", "results", "aborted",
          "auth", "assoc", "leave", "authTimeout", "assocTimeout"}

TypeOK ==
    /\ pc \in [Objects -> {"unused", "idle", "trigger", "ack", "event", "dump", "list", "auth", "assoc", "leave", "done", "crashed"}]
    /\ done \in [Objects -> BOOLEAN]
    /\ status \in [Objects -> {-1, 0, 1}]
    /\ ret \in [Objects -> {Pending, -1, 0, 1}]
    /\ \A o \in Objects : Op[o] # "scan" => ret[o] # 1
    /\ wifiNetworks \in [Objects -> Seq(Network)]
    /\ member \in [Objects -> {"none", "scan", "mlme"}]
    /\ queue \in [Objects -> Seq([kind : Kinds, ifc : Interfaces, ap : Named, status : {0, 1}])]
    /\ began \in [Objects -> [Interfaces -> Nat]]
    /\ scanning \subseteq Interfaces
    /\ scans \in [Interfaces -> Nat]
    /\ heard \in [Interfaces -> SUBSET AccessPoints]
    /\ unlisted \in [Objects -> SUBSET AccessPoints]
    /\ asked \in [Interfaces -> [kind : {"none", "auth", "assoc", "leave"}, ap : Named]]
    /\ link \in [Interfaces -> [state : {"down", "auth", "assoc"}, ap : Named]]
    /\ granted \subseteq Interfaces \X Named
    /\ other \in 0..MaxOther

\* A scan that reports success found a scan of its own interface completed after
\* it joined the group: events of scans by other processes, before or after the
\* acknowledgement, never stand for an older one (full_network_scan_trigger).
\* It needs that only one interface is scanned: the callback reads no index.
ScanIsRecent ==
    \A o \in Objects : Op[o] = "scan" /\ ret[o] = 0 =>
        scans[IfOf[o]] > began[o][IfOf[o]]

\* The list has every network once, and every access point once, under the name
\* it announces, in whatever order the kernel lists them.
ListedOnce ==
    \A o \in Objects :
        LET nets == wifiNetworks[o] IN
        /\ \A j, k \in DOMAIN nets : nets[j].ssid = nets[k].ssid => j = k
        /\ \A k \in DOMAIN nets :
             /\ IsInjective(nets[k].accessPoints)
             /\ \A n \in DOMAIN nets[k].accessPoints :
                  Ssid[nets[k].accessPoints[n]] = nets[k].ssid

\* A connect that reports success was authenticated: by the access point it asked
\* for on its interface, or by one that strcmp does not tell from it, and so on
\* for the interface; whoever else connects there meanwhile.
ConnectIsGranted ==
    \A o \in Objects : Op[o] = "connect" /\ ret[o] = 0 =>
        \E g \in granted : Alike(g[1], IfOf[o]) /\ Alike(g[2], Target[o])

\* A scan returns, whether refused, aborted or done: the group is joined before
\* the request, so the event it waits for cannot be missed.
ScanReturns ==
    \A o \in Objects : pc[o] = "trigger" ~> pc[o] \in {"done", "crashed"}

-----------------------------------------------------------------------------
\* Refuted: a connect that returns 0 was authenticated by the access point it
\* asked for (nlwifi.c:259 "yes this is from the ap we wanted to connect").
ConnectIsWanted ==
    \A o \in Objects : Op[o] = "connect" /\ ret[o] = 0 =>
        <<IfOf[o], Target[o]>> \in granted

\* Refuted: a connect returns.  A refusal of the kernel is passed over, and so is
\* a timeout (nlwifi.c:113 "ok, our request had timed out"), unless the address
\* of the access point agrees with that of the interface.
ConnectReturns ==
    \A o \in Objects : (Op[o] = "connect" /\ pc[o] = "auth") ~> pc[o] \in {"done", "crashed"}

\* Refuted: a connect that returns 0 is associated, or was ("0 means success").
ConnectAssociates ==
    [][\A o \in Objects : Op[o] = "connect" /\ ret[o] = Pending /\ ret'[o] = 0 =>
          link[IfOf[o]].state = "assoc"]_vars

\* Refuted: a disconnect ends without following NULL.
DisconnectSurvives == \A o \in Objects : pc[o] # "crashed"

\* Refuted: a scan that returns 0 lists what the last scan heard.
SuccessLists ==
    [][\A o \in Objects : Op[o] = "scan" /\ ret[o] = Pending /\ ret'[o] = 0 =>
          (heard[IfOf[o]] # {} => wifiNetworks'[o] # <<>>)]_vars
=============================================================================
