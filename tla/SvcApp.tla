------------------------------- MODULE SvcApp -------------------------------
(***************************************************************************)
(* The SVC application library, wifi/svc/svc/SVC.cpp: establishConnection, *)
(* listenConnection and the reading thread that hands frames to the call   *)
(* that waits for them.                                                    *)
(*                                                                         *)
(* waitCommand is two steps, as it is in the code: the request goes out    *)
(* first, the notificator is registered after it.  A wait may time out at  *)
(* any moment, because nothing bounds how long the frames travel.          *)
(*                                                                         *)
(* An endpoint of a failed call is deleted but stays in the vector         *)
(* SVC::endPoints.  A later lookup reads freed memory: it passes over the  *)
(* entry, finds it and the command goes nowhere, or the process crashes.   *)
(***************************************************************************)
EXTENDS SvcSockets

CONSTANTS
  Listeners,    \* the hosts whose application calls listenConnection
  MaxListens    \* bound: calls of listenConnection on each host

ASSUME AppAssumption == Listeners \subseteq Hosts /\ MaxListens \in Nat

VARIABLES
  endPoints,          \* endPoints[h]: SVC::endPoints, in the order of push_back
  connectionRequest,  \* connectionRequest[h]: SVC::connectionRequest
  crashed             \* the hosts whose application is gone

appVars == <<endPoints, connectionRequest, crashed>>

(* An entry holds the endpoint and the state of the call that made it:     *)
(*   requested, wait2, got2, exchanged, wait3, got3    establishConnection *)
(*   listening, answered, wait4, got4                  listenConnection    *)
(*   connected, freed                                  the call returned   *)
(* Its "peer" is the address the client asked for.                         *)
ClientPhases == {"requested", "wait2", "got2", "exchanged", "wait3", "got3"}
ServerPhases == {"listening", "answered", "wait4", "got4"}

NewClient(a, address) ==
  [role |-> "client", attempt |-> a, id |-> IdOf[a], peer |-> address,
   phase |-> "requested", challengeSent |-> << >>, challengeReceived |-> << >>,
   params |-> << >>]

NewServer ==
  [role |-> "server", id |-> NoId, phase |-> "listening",
   challengeSent |-> << >>, challengeReceived |-> << >>, params |-> << >>]

AppInit ==
  /\ endPoints = [h \in Hosts |-> << >>]
  /\ connectionRequest = [h \in Hosts |-> << >>]
  /\ crashed = {}

Live(h) == h \notin crashed

(* sendCommand: one frame to the daemon. *)
SendCommand(h, id, cmd, args) ==
  toDaemon' = [toDaemon EXCEPT ![h] = Append(@, Frame(id, cmd, args))]

UnchangedButToDaemon == UNCHANGED <<toApp, net, duplicates>>

Started(a) ==
  \E h \in Hosts : \E i \in DOMAIN endPoints[h] :
     endPoints[h][i].role = "client" /\ endPoints[h][i].attempt = a
-----------------------------------------------------------------------------
(* establishConnection *)

(* SVCHostIP: inet_aton answers 0 for a bad string, the constructor tests  *)
(* for -1, and the address stays uninitialized.                            *)
Addresses(a) == IF ServerOf[a] = Invalid THEN Hosts \cup {NoAddress} ELSE {ServerOf[a]}

EstablishConnection(a) ==
  LET h == ClientOf[a]
      n == Len(endPoints[h]) + 1
      c == ClientChallenge(h, n)
  IN
  /\ Live(h) /\ ~Started(a)
  /\ \E address \in Addresses(a) :
       /\ endPoints' = [endPoints EXCEPT ![h] =
            Append(@, [NewClient(a, address) EXCEPT !.challengeSent = c])]
       /\ SendCommand(h, IdOf[a], "STEP1", <<c, address>>)
  /\ UnchangedButToDaemon
  /\ UNCHANGED <<connectionRequest, crashed>>

(* SignalNotificator::addNotificator, after the request was sent. *)
RegisterWait(h, i) ==
  LET p == endPoints[h][i].phase IN
  /\ Live(h)
  /\ p \in {"requested", "exchanged", "answered"}
  /\ endPoints' = [endPoints EXCEPT ![h][i].phase =
       CASE p = "requested" -> "wait2" [] p = "exchanged" -> "wait3" [] OTHER -> "wait4"]
  /\ UNCHANGED <<socketVars, connectionRequest, crashed>>

(* Mutant: the wait for STEP3 has no timeout. *)
TimeoutOfPeer(h, i) ==
  /\ Live(h)
  /\ endPoints[h][i].phase \in {"wait2", "wait4"}
  /\ endPoints' = [endPoints EXCEPT ![h][i].phase = "freed"]
  /\ UNCHANGED <<socketVars, connectionRequest, crashed>>

(* Mutant: the result of waitCommand is ignored, an endpoint that timed out *)
(* is returned.                                                             *)
TimeoutReturnsEndPoint(h, i) ==
  /\ Live(h)
  /\ endPoints[h][i].phase \in {"wait2", "wait3", "wait4"}
  /\ endPoints' = [endPoints EXCEPT ![h][i].phase = "connected"]
  /\ UNCHANGED <<socketVars, connectionRequest, crashed>>

(* The wait ends by SIGALRM: the call deletes its endpoint and returns     *)
(* NULL.                                                                   *)
Timeout(h, i) ==
  /\ Live(h)
  /\ endPoints[h][i].phase \in {"wait2", "wait3", "wait4"}
  /\ endPoints' = [endPoints EXCEPT ![h][i].phase = "freed"]
  /\ UNCHANGED <<socketVars, connectionRequest, crashed>>

(* A SIGUSR1 that comes after the timeout of a wait stays pending for the  *)
(* thread, and ends a wait of its next call (AnswerHasParams of SvcWait).  *)
(* That an earlier call failed is all that is kept of the signal's cause.  *)
StrayPending(h, i) == Live(h) /\ \E j \in 1..(i - 1) : endPoints[h][j].phase = "freed"

(* The waits for STEP2 and STEP4: waitCommand has cleared the parameters,  *)
(* so params[0] of an empty vector is read.  This is a crash, or bytes     *)
(* that are no identity and do not verify: then the call ends as by        *)
(* Timeout.                                                                *)
StrayCrashes(h, i) ==
  /\ StrayPending(h, i)
  /\ endPoints[h][i].phase \in {"wait2", "wait4"}
  /\ crashed' = crashed \cup {h}
  /\ UNCHANGED <<socketVars, endPoints, connectionRequest>>

(* The wait for STEP3 reads no parameters and goes on without the daemon's *)
(* answer.  Its stray signal is that of the answer to STEP2, left when an  *)
(* older one ended that wait just after its parameters had been filled.    *)
StrayConfirms(h, i) ==
  /\ StrayPending(h, i)
  /\ endPoints[h][i].phase = "wait3"
  /\ endPoints' = [endPoints EXCEPT ![h][i].phase = "got3"]
  /\ UNCHANGED <<socketVars, connectionRequest, crashed>>

(* Mutant: the server's proof is not looked at. *)
ClientTrusts(h, i) ==
  LET e == endPoints[h][i] IN
  /\ Live(h)
  /\ e.phase = "got2"
  /\ endPoints' = [endPoints EXCEPT ![h][i].phase = "exchanged",
                                    ![h][i].challengeReceived = e.params[2]]
  /\ SendCommand(h, e.id, "STEP3", << >>)
  /\ UnchangedButToDaemon
  /\ UNCHANGED <<connectionRequest, crashed>>

(* The server's proof answers the challenge sent: ask for the key          *)
(* exchange; otherwise give up.                                            *)
ClientVerifies(h, i) ==
  LET e == endPoints[h][i] IN
  /\ Live(h)
  /\ e.phase = "got2"
  /\ \/ /\ e.params[1] = e.challengeSent
        /\ endPoints' = [endPoints EXCEPT ![h][i].phase = "exchanged",
                                          ![h][i].challengeReceived = e.params[2]]
        /\ SendCommand(h, e.id, "STEP3", << >>)
     \/ /\ e.params[1] # e.challengeSent
        /\ endPoints' = [endPoints EXCEPT ![h][i].phase = "freed"]
        /\ UNCHANGED toDaemon
  /\ UnchangedButToDaemon
  /\ UNCHANGED <<connectionRequest, crashed>>

(* The daemon answered STEP3: send the proof and return the endpoint. *)
ClientConfirms(h, i) ==
  LET e == endPoints[h][i] IN
  /\ Live(h)
  /\ e.phase = "got3"
  /\ endPoints' = [endPoints EXCEPT ![h][i].phase = "connected"]
  /\ SendCommand(h, e.id, "STEP4", <<e.challengeReceived>>)
  /\ UnchangedButToDaemon
  /\ UNCHANGED <<connectionRequest, crashed>>
-----------------------------------------------------------------------------
(* listenConnection, called again and again by one thread *)

Listen(h) ==
  /\ Live(h) /\ h \in Listeners
  /\ \A i \in DOMAIN endPoints[h] : endPoints[h][i].phase \notin ServerPhases
  /\ Cardinality({i \in DOMAIN endPoints[h] : endPoints[h][i].role = "server"}) < MaxListens
  /\ endPoints' = [endPoints EXCEPT ![h] = Append(@, NewServer)]
  /\ UNCHANGED <<socketVars, connectionRequest, crashed>>

(* dequeueWait returned a STEP1: only now the endpoint gets its ID. *)
AnswerRequest(h, i) ==
  LET request == Head(connectionRequest[h])
      c == ServerChallenge(h, i)
  IN
  /\ Live(h)
  /\ endPoints[h][i].phase = "listening"
  /\ connectionRequest[h] # << >>
  /\ connectionRequest' = [connectionRequest EXCEPT ![h] = Tail(@)]
  /\ endPoints' = [endPoints EXCEPT ![h][i].phase = "answered",
       ![h][i].id = request.id, ![h][i].challengeSent = c,
       ![h][i].challengeReceived = request.args[1]]
  /\ SendCommand(h, request.id, "STEP2", <<request.args[1], c>>)
  /\ UnchangedButToDaemon
  /\ UNCHANGED crashed

ServerVerifies(h, i) ==
  LET e == endPoints[h][i] IN
  /\ Live(h)
  /\ e.phase = "got4"
  /\ endPoints' = [endPoints EXCEPT ![h][i].phase =
       IF e.params[1] = e.challengeSent THEN "connected" ELSE "freed"]
  /\ UNCHANGED <<socketVars, connectionRequest, crashed>>
-----------------------------------------------------------------------------
(* processPacket *)

EntriesOf(h, id) == {i \in DOMAIN endPoints[h] : endPoints[h][i].id = id}
LiveEntries(h, id) == {i \in EntriesOf(h, id) : endPoints[h][i].phase # "freed"}

(* Mutant: any endpoint with the ID. *)
AnyLive(h, id) == LiveEntries(h, id)

(* getEndPointByID stops at the first live entry with the ID unless the    *)
(* memory of a freed one before it still looks like an endpoint.           *)
FirstLive(h, id) ==
  {i \in LiveEntries(h, id) : \A j \in LiveEntries(h, id) : i <= j}
FreedBefore(h, id) ==
  {i \in EntriesOf(h, id) \ LiveEntries(h, id) : \A j \in FirstLive(h, id) : i < j}

(* The command whose notificator an endpoint has registered. *)
Awaits(e, cmd) == \/ e.phase = "wait2" /\ cmd = "STEP2"
                  \/ e.phase = "wait3" /\ cmd = "STEP3"
                  \/ e.phase = "wait4" /\ cmd = "STEP4"

TakePacket(h) ==
  /\ Live(h)
  /\ toApp[h] # << >>
  /\ toApp' = [toApp EXCEPT ![h] = Tail(@)]
  /\ UNCHANGED <<toDaemon, net, duplicates>>

(* The endpoint waits for this command: hand over the parameters, wake the *)
(* caller, remove the notificator.                                         *)
PacketNotifies(h) ==
  /\ TakePacket(h)
  /\ \E i \in FirstLive(h, Head(toApp[h]).id) :
       LET e == endPoints[h][i] IN
       /\ Awaits(e, Head(toApp[h]).cmd)
       /\ endPoints' = [endPoints EXCEPT
            ![h][i].params = Head(toApp[h]).args,
            ![h][i].phase = CASE e.phase = "wait2" -> "got2"
                              [] e.phase = "wait3" -> "got3"
                              [] OTHER -> "got4"]
  /\ UNCHANGED <<connectionRequest, crashed>>

PacketRequests(h) ==
  /\ TakePacket(h)
  /\ FirstLive(h, Head(toApp[h]).id) = {}
  /\ Head(toApp[h]).cmd = "STEP1"
  /\ connectionRequest' = [connectionRequest EXCEPT ![h] = Append(@, Head(toApp[h]))]
  /\ UNCHANGED <<endPoints, crashed>>

(* No endpoint and no request, or an endpoint nobody waits on. *)
PacketDropped(h) ==
  /\ TakePacket(h)
  /\ LET found == FirstLive(h, Head(toApp[h]).id) IN
       \/ found = {} /\ Head(toApp[h]).cmd # "STEP1"
       \/ \E i \in found : ~Awaits(endPoints[h][i], Head(toApp[h]).cmd)
       \/ FreedBefore(h, Head(toApp[h]).id) # {}
  /\ UNCHANGED appVars

PacketCrashes(h) ==
  /\ TakePacket(h)
  /\ FreedBefore(h, Head(toApp[h]).id) # {}
  /\ crashed' = crashed \cup {h}
  /\ UNCHANGED <<endPoints, connectionRequest>>

ProcessPacket(h) ==
  PacketNotifies(h) \/ PacketRequests(h) \/ PacketDropped(h) \/ PacketCrashes(h)

ClientCall(h, i) == ClientVerifies(h, i) \/ ClientConfirms(h, i)
ServerCall(h, i) == AnswerRequest(h, i) \/ ServerVerifies(h, i)

AppNext ==
  \/ \E a \in Attempts : EstablishConnection(a)
  \/ \E h \in Hosts : Listen(h) \/ ProcessPacket(h)
  \/ \E h \in Hosts : \E i \in DOMAIN endPoints[h] :
       RegisterWait(h, i) \/ Timeout(h, i) \/ StrayCrashes(h, i) \/ StrayConfirms(h, i)
         \/ ClientCall(h, i) \/ ServerCall(h, i)
==============================================================================
