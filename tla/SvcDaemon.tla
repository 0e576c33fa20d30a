------------------------------ MODULE SvcDaemon ------------------------------
(***************************************************************************)
(* The SVC daemon, wifi/svc/svc/SVC-daemon.cpp: the service table, the     *)
(* endpoints with their four queues, the two loops that read the sockets   *)
(* and the four threads of each endpoint.                                  *)
(*                                                                         *)
(* One pass of a loop over one frame is one step, but a pass that opens an *)
(* endpoint is two: the loop looks the endpoint ID up and, a little later, *)
(* adds an endpoint with it, and the other loop may do so in between.      *)
(* Elsewhere the order of the two loops makes no difference, as no         *)
(* endpoint is removed here and only unixReadingLoop adds services.        *)
(*                                                                         *)
(* The queues between the threads are FIFO; MutexedQueue models how they   *)
(* are built.  The periodic CHECK_ALIVE frame is left out: the application *)
(* ignores it, it only probes whether the application's socket is still    *)
(* there.                                                                  *)
(***************************************************************************)
EXTENDS SvcSockets

CONSTANT
  KnownPeers   \* KnownPeers[h]: the services the daemon of h has from earlier
               \* calls; a service stays in the table for ever

ASSUME DaemonAssumption ==
  /\ KnownPeers \in [Hosts -> Seq(Hosts)]
  /\ \A h \in Hosts : \A i, j \in DOMAIN KnownPeers[h] :
       KnownPeers[h][i] = KnownPeers[h][j] => i = j

VARIABLES
  serviceTable,      \* serviceTable[h]: the peer address of each service
  daemonEndPoints,   \* daemonEndPoints[h]: the endpoints the daemon created
  unixRequest,       \* unixRequest[h]: the STEP1 unixReadingLoop knows no endpoint for
  htpRequest,        \* htpRequest[h]: the one of htpReadingLoop
  unixParams         \* unixParams[h]: "params" of unixReadingLoop between frames

requests == <<unixRequest, htpRequest>>
daemonVars == <<serviceTable, daemonEndPoints, requests, unixParams>>

(* The index of an endpoint's service in the table, or this for a service  *)
(* htpReadingLoop created and never entered into the table.                *)
Untabled == 0

DaemonInit ==
  /\ serviceTable = KnownPeers
  /\ daemonEndPoints = [h \in Hosts |-> << >>]
  /\ unixRequest = [h \in Hosts |-> << >>]
  /\ htpRequest = [h \in Hosts |-> << >>]
  /\ unixParams = [h \in Hosts |-> << >>]

(* DaemonService::addDaemonEndPoint with the frame that opened it already  *)
(* in one of its queues.                                                   *)
NewEndPoint(id, service, incoming, outgoing) ==
  [id |-> id, service |-> service, incomingQueue |-> incoming,
   outgoingQueue |-> outgoing, inQueue |-> << >>, outQueue |-> << >>]

(* getServiceByEndPointID and getDaemonEndPoint: the endpoints with that   *)
(* ID that can be reached through the service table.                       *)
EndPointsByID(h, id) ==
  {i \in DOMAIN daemonEndPoints[h] :
     /\ daemonEndPoints[h][i].id = id
     /\ daemonEndPoints[h][i].service # Untabled}

ServicesByAddress(h, address) == {s \in DOMAIN serviceTable[h] : serviceTable[h][s] = address}

(* getServiceBySessionID: every service has session ID 0 and so has every  *)
(* datagram, so it is the first service of the table.                      *)
ServiceBySessionID(h) == IF serviceTable[h] = << >> THEN Untabled ELSE 1
-----------------------------------------------------------------------------
(* unixReadingLoop *)

UnixReads(h) == unixRequest[h] = << >> /\ toDaemon[h] # << >>
UnixTakes(h) == toDaemon' = [toDaemon EXCEPT ![h] = Tail(@)]

(* The frame belongs to a known endpoint: queue it there. *)
UnixForwards(h) ==
  /\ UnixReads(h)
  /\ \E i \in EndPointsByID(h, Head(toDaemon[h]).id) :
       daemonEndPoints' = [daemonEndPoints EXCEPT ![h][i].outgoingQueue =
                             Append(@, Head(toDaemon[h]))]
  /\ UnixTakes(h)
  /\ UNCHANGED <<toApp, net, duplicates, serviceTable, requests, unixParams>>

(* A connection request of an endpoint nobody knows. *)
UnixSeesRequest(h) ==
  /\ UnixReads(h)
  /\ EndPointsByID(h, Head(toDaemon[h]).id) = {}
  /\ Head(toDaemon[h]).cmd = "STEP1"
  /\ unixRequest' = [unixRequest EXCEPT ![h] = <<Head(toDaemon[h])>>]
  /\ UnixTakes(h)
  /\ UNCHANGED <<toApp, net, duplicates, serviceTable, daemonEndPoints, htpRequest, unixParams>>

(* The parameters of the frame go behind those still in "params"; the      *)
(* address is read at a fixed place of the whole vector.                   *)
UnixParamsWith(h) == unixParams[h] \o unixRequest[h][1].args

(* Mutant: the challenge is taken for the address. *)
UnixFirstParam(h) == UnixParamsWith(h)[1]

UnixAddress(h) == UnixParamsWith(h)[2]

(* A request to a real address: use the service for that address or append *)
(* a new one, and open an endpoint on it.                                  *)
UnixOpensEndPoint(h) ==
  /\ unixRequest[h] # << >>
  /\ UnixAddress(h) # NoAddress
  /\ LET known == ServicesByAddress(h, UnixAddress(h))
         frame == unixRequest[h][1]
     IN \E s \in 1..(Len(serviceTable[h]) + 1) :
          /\ IF known # {} THEN s \in known ELSE s = Len(serviceTable[h]) + 1
          /\ serviceTable' = IF known # {} THEN serviceTable
                             ELSE [serviceTable EXCEPT ![h] = Append(@, UnixAddress(h))]
          /\ daemonEndPoints' = [daemonEndPoints EXCEPT ![h] =
               Append(@, NewEndPoint(frame.id, s, << >>, <<frame>>))]
  /\ unixParams' = [unixParams EXCEPT ![h] = << >>]
  /\ unixRequest' = [unixRequest EXCEPT ![h] = << >>]
  /\ UNCHANGED <<socketVars, htpRequest>>

(* A request to address 0 is dropped, but its parameters stay in "params". *)
UnixRefusesAddress(h) ==
  /\ unixRequest[h] # << >>
  /\ UnixAddress(h) = NoAddress
  /\ unixParams' = [unixParams EXCEPT ![h] = UnixParamsWith(h)]
  /\ unixRequest' = [unixRequest EXCEPT ![h] = << >>]
  /\ UNCHANGED <<socketVars, serviceTable, daemonEndPoints, htpRequest>>

(* Any other frame of an unknown endpoint is dropped. *)
UnixDiscards(h) ==
  /\ UnixReads(h)
  /\ EndPointsByID(h, Head(toDaemon[h]).id) = {}
  /\ Head(toDaemon[h]).cmd # "STEP1"
  /\ UnixTakes(h)
  /\ UNCHANGED <<toApp, net, duplicates, daemonVars>>
-----------------------------------------------------------------------------
(* htpReadingLoop *)

HtpReads(d) == htpRequest[d.to] = << >> /\ Receive(d)

HtpForwards(d) ==
  /\ HtpReads(d)
  /\ \E i \in EndPointsByID(d.to, d.frame.id) :
       daemonEndPoints' = [daemonEndPoints EXCEPT ![d.to][i].incomingQueue =
                             Append(@, d.frame)]
  /\ UNCHANGED <<toDaemon, toApp, serviceTable, requests, unixParams>>

(* A request for an endpoint nobody knows. *)
HtpSeesRequest(d) ==
  /\ HtpReads(d)
  /\ EndPointsByID(d.to, d.frame.id) = {}
  /\ d.frame.cmd = "STEP1"
  /\ htpRequest' = [htpRequest EXCEPT ![d.to] = <<d.frame>>]
  /\ UNCHANGED <<toDaemon, toApp, serviceTable, daemonEndPoints, unixRequest, unixParams>>

(* Its endpoint goes to the first service of the table, or to a new        *)
(* service for the sender that the table never gets.                       *)
HtpOpensEndPoint(h) ==
  /\ htpRequest[h] # << >>
  /\ LET frame == htpRequest[h][1] IN
       daemonEndPoints' = [daemonEndPoints EXCEPT ![h] =
         Append(@, NewEndPoint(frame.id, ServiceBySessionID(h), <<frame>>, << >>))]
  /\ htpRequest' = [htpRequest EXCEPT ![h] = << >>]
  /\ UNCHANGED <<socketVars, serviceTable, unixRequest, unixParams>>

HtpDiscards(d) ==
  /\ HtpReads(d)
  /\ EndPointsByID(d.to, d.frame.id) = {}
  /\ d.frame.cmd # "STEP1"
  /\ UNCHANGED <<toDaemon, toApp, daemonVars>>
-----------------------------------------------------------------------------
(* The four threads of an endpoint *)

(* processingIncomingMessage: STEP3 of the peer is for the daemon only and *)
(* ends here; the other steps go to the application.                       *)
ProcessingIncomingMessage(h, i) ==
  LET e == daemonEndPoints[h][i] IN
  /\ e.incomingQueue # << >>
  /\ daemonEndPoints' = [daemonEndPoints EXCEPT ![h][i].incomingQueue = Tail(@),
       ![h][i].inQueue = IF Head(e.incomingQueue).cmd = "STEP3" THEN @
                         ELSE Append(@, Head(e.incomingQueue))]
  /\ UNCHANGED <<socketVars, serviceTable, requests, unixParams>>

(* What leaves the host for a frame of the application: STEP1 loses its    *)
(* address parameter.                                                      *)
Outgoing(frame) ==
  IF frame.cmd = "STEP1" THEN [frame EXCEPT !.args = <<@[1]>>] ELSE frame

(* processingOutgoingMessage: a copy of STEP3 is the daemon's answer to    *)
(* its own application.                                                    *)
ProcessingOutgoingMessage(h, i) ==
  LET e == daemonEndPoints[h][i] IN
  /\ e.outgoingQueue # << >>
  /\ daemonEndPoints' = [daemonEndPoints EXCEPT ![h][i].outgoingQueue = Tail(@),
       ![h][i].outQueue = Append(@, Outgoing(Head(e.outgoingQueue))),
       ![h][i].inQueue = IF Head(e.outgoingQueue).cmd = "STEP3"
                         THEN Append(@, Head(e.outgoingQueue)) ELSE @]
  /\ UNCHANGED <<socketVars, serviceTable, requests, unixParams>>

SendPacketToApp(h, i) ==
  LET e == daemonEndPoints[h][i] IN
  /\ e.inQueue # << >>
  /\ toApp' = [toApp EXCEPT ![h] = Append(@, Head(e.inQueue))]
  /\ daemonEndPoints' = [daemonEndPoints EXCEPT ![h][i].inQueue = Tail(@)]
  /\ UNCHANGED <<toDaemon, net, duplicates, serviceTable, requests, unixParams>>

(* The datagram goes to the address of the endpoint's service. *)
SendPacketOutside(h, i) ==
  LET e == daemonEndPoints[h][i] IN
  /\ e.outQueue # << >>
  /\ net' = BagAdd(net, Datagram(h, serviceTable[h][e.service], Head(e.outQueue)))
  /\ daemonEndPoints' = [daemonEndPoints EXCEPT ![h][i].outQueue = Tail(@)]
  /\ UNCHANGED <<toDaemon, toApp, duplicates, serviceTable, requests, unixParams>>

UnixReadingLoop(h) ==
  \/ UnixForwards(h) \/ UnixSeesRequest(h) \/ UnixOpensEndPoint(h)
  \/ UnixRefusesAddress(h) \/ UnixDiscards(h)

HtpReadingLoop(d) == HtpForwards(d) \/ HtpSeesRequest(d) \/ HtpDiscards(d)

EndPointThreads(h, i) ==
  \/ ProcessingIncomingMessage(h, i) \/ ProcessingOutgoingMessage(h, i)
  \/ SendPacketToApp(h, i) \/ SendPacketOutside(h, i)

DaemonNext ==
  \/ \E h \in Hosts : UnixReadingLoop(h) \/ HtpOpensEndPoint(h)
  \/ \E d \in BagToSet(net) : HtpReadingLoop(d)
  \/ \E h \in Hosts : \E i \in DOMAIN daemonEndPoints[h] : EndPointThreads(h, i)
==============================================================================
