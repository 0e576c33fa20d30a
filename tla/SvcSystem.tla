------------------------------ MODULE SvcSystem ------------------------------
(***************************************************************************)
(* The SVC connection handshake end to end: applications, daemons and the  *)
(* network between the daemons.                                            *)
(***************************************************************************)
EXTENDS SvcDaemon, SvcApp

ASSUME SystemAssumption == IsFiniteSet(Attempts)

(* Calls that share an endpoint ID name one server on one host.  The code  *)
(* seeds rand() with the second of a call, so it keeps this as long as no  *)
(* two calls of one second on one host name different servers and no two   *)
(* hosts call in one second: what Agreement rests on.                      *)
IdsTellCalls ==
  \A a, b \in Attempts : IdOf[a] = IdOf[b] =>
    /\ ClientOf[a] = ClientOf[b]
    /\ ServerOf[a] = ServerOf[b]
    /\ ServerOf[a] = Invalid => a = b

vars == <<socketVars, daemonVars, appVars>>

Init == SocketsInit /\ DaemonInit /\ AppInit

Next ==
  \/ AppNext /\ UNCHANGED daemonVars
  \/ DaemonNext /\ UNCHANGED appVars

Spec == Init /\ [][Next]_vars

(* A thread of the library that holds no lock and waits for none goes on,  *)
(* and a running timer expires; the applications need not call, the        *)
(* network need not deliver.  Of RegisterWait nothing is assumed:          *)
(* addNotificator (SVC-utils.cpp:75) locks a shared_mutex, which a packet  *)
(* that arrives now shares (99-101), and SharedMutex shows that its wakeup *)
(* may be lost (WaitingWriterWakes, WaitingReaderWakes).                   *)
Fairness ==
  \A h \in Hosts : \A i \in 1..(Cardinality(Attempts) + MaxListens) :
    /\ WF_vars(i \in DOMAIN endPoints[h] /\ Timeout(h, i) /\ UNCHANGED daemonVars)
    /\ WF_vars(i \in DOMAIN endPoints[h] /\ ClientCall(h, i) /\ UNCHANGED daemonVars)

FairSpec == Spec /\ Fairness
-----------------------------------------------------------------------------
Slots == 1..(Cardinality(Attempts) + MaxListens)
Challenges == {ClientChallenge(h, n) : h \in Hosts, n \in Slots}
         \cup {ServerChallenge(h, n) : h \in Hosts, n \in Slots}

Params == Seq(Challenges \cup Hosts \cup {NoAddress})
Frames == [id : Ids, cmd : Commands, args : Params]

ClientEntries ==
  [role : {"client"}, attempt : Attempts, id : Ids, peer : Hosts \cup {NoAddress},
   phase : ClientPhases \cup {"connected", "freed"}, challengeSent : Challenges,
   challengeReceived : Challenges \cup {<< >>}, params : Params]
ServerEntries ==
  [role : {"server"}, id : Ids \cup {NoId}, phase : ServerPhases \cup {"connected", "freed"},
   challengeSent : Challenges \cup {<< >>}, challengeReceived : Challenges \cup {<< >>},
   params : Params]

DaemonEntries ==
  [id : Ids, service : Nat, incomingQueue : Seq(Frames), outgoingQueue : Seq(Frames),
   inQueue : Seq(Frames), outQueue : Seq(Frames)]

(* Every variable has its type: frames carry challenges and addresses      *)
(* only, a server trusts only challenges, no host has more endpoints than  *)
(* calls were made on it.                                                  *)
TypeOK ==
  /\ toDaemon \in [Hosts -> Seq(Frames)] /\ toApp \in [Hosts -> Seq(Frames)]
  /\ IsABag(net) /\ BagToSet(net) \subseteq [from : Hosts, to : Hosts, frame : Frames]
  /\ duplicates \in 0..MaxDuplicates
  /\ serviceTable \in [Hosts -> Seq(Hosts)]
  /\ daemonEndPoints \in [Hosts -> Seq(DaemonEntries)]
  /\ \A h \in Hosts : \A i \in DOMAIN daemonEndPoints[h] :
       daemonEndPoints[h][i].service \in {Untabled} \cup DOMAIN serviceTable[h]
  /\ unixRequest \in [Hosts -> Seq(Frames)] /\ htpRequest \in [Hosts -> Seq(Frames)]
  /\ unixParams \in [Hosts -> Params]
  /\ endPoints \in [Hosts -> Seq(ClientEntries \cup ServerEntries)]
  /\ \A h \in Hosts : DOMAIN endPoints[h] \subseteq Slots
  /\ connectionRequest \in [Hosts -> Seq(Frames)]
  /\ crashed \subseteq Hosts

(* The endpoints of the applications, freed ones included. *)
Clients == {e \in UNION {{endPoints[h][i] : i \in DOMAIN endPoints[h]} : h \in Hosts} :
              e.role = "client"}
ServersAt(h) == {endPoints[h][i] : i \in {j \in DOMAIN endPoints[h] :
                                            endPoints[h][j].role = "server"}}

(* A client that has verified the server's proof, in establishConnection,  *)
(* has been answered by a listenConnection on the host it asked for, and   *)
(* the two agree on both challenges - whatever was lost, duplicated or     *)
(* overtaken, and whichever endpoint the daemons picked.                   *)
ClientAgreement ==
  \A c \in Clients : c.phase \in {"exchanged", "wait3", "got3", "connected"} =>
     \E s \in ServersAt(c.peer) :
        /\ s.id = c.id
        /\ s.challengeReceived = c.challengeSent
        /\ s.challengeSent = c.challengeReceived

(* A listenConnection that returned an endpoint has a client that returned *)
(* one too, which asked for this host and answered this very challenge.    *)
ServerAgreement ==
  \A h \in Hosts : \A s \in ServersAt(h) : s.phase = "connected" =>
     \E c \in Clients :
        /\ c.phase = "connected" /\ c.id = s.id /\ c.peer = h
        /\ c.challengeReceived = s.challengeSent
        /\ c.challengeSent = s.challengeReceived

Agreement == ClientAgreement /\ ServerAgreement

(* The handshake implements SvcConnection: sessions are answered, trusted, *)
(* accepted and established one step after the other and never retracted.  *)
(* It implies Agreement and adds the order.                                *)
Session(id, host, client, server) ==
  [id |-> id, at |-> host, client |-> client, server |-> server]
ClientSessions(phases) ==
  {Session(c.id, c.peer, c.challengeSent, c.challengeReceived) :
     c \in {e \in Clients : e.phase \in phases}}
ServerSessions(phases) ==
  UNION {{Session(s.id, h, s.challengeReceived, s.challengeSent) :
            s \in {e \in ServersAt(h) : e.phase \in phases}} : h \in Hosts}
Sessions == [id : Ids, at : Hosts \cup {NoAddress}, client : Challenges, server : Challenges]

Connection == INSTANCE SvcConnection WITH
  Sessions    <- Sessions,
  answered    <- ServerSessions({"answered", "wait4", "got4", "connected", "freed"}),
  trusted     <- ClientSessions({"exchanged", "wait3", "got3", "connected"}),
  accepted    <- ClientSessions({"connected"}),
  established <- ServerSessions({"connected"})

Connects == Connection!Spec

(* A call of establishConnection is accepted at most once on a host, even  *)
(* when the network replays STEP1 and STEP4 and the challenges are the     *)
(* constants of the demo: the second acceptance would need a frame that    *)
(* getEndPointByID keeps handing to the first endpoint.  (Calls of one     *)
(* second share an ID, see IdOf: this is about calls that do not.)         *)
AcceptedOnce ==
  \A h \in Hosts : \A s, t \in DOMAIN endPoints[h] :
     /\ endPoints[h][s].role = "server" /\ endPoints[h][s].phase = "connected"
     /\ endPoints[h][t].role = "server" /\ endPoints[h][t].phase = "connected"
     /\ endPoints[h][s].id = endPoints[h][t].id
     => s = t

PhaseIn(h, i, phases) == i \in DOMAIN endPoints[h] /\ endPoints[h][i].phase \in phases

(* A call that sent its request and has not registered the wait for it yet *)
(* is in addNotificator, or on its way to the lock there.                  *)
InAddNotificator(h, i) == PhaseIn(h, i, {"requested", "exchanged"})

(* An establishConnection that sent its request returns, with an endpoint  *)
(* or with NULL, unless the process is brought down (by a freed endpoint,  *)
(* or by a signal without parameters) or the call stays for ever in        *)
(* addNotificator, whose lock may never be given: each wait ends though    *)
(* the answer was lost, came before the notificator, or goes to another    *)
(* endpoint.                                                               *)
EstablishReturns ==
  \A h \in Hosts : \A i \in 1..(Cardinality(Attempts) + MaxListens) :
    \/ PhaseIn(h, i, ClientPhases) ~> PhaseIn(h, i, {"connected", "freed"}) \/ h \in crashed
    \/ <>[]InAddNotificator(h, i)
-----------------------------------------------------------------------------
(* What the comments and the protocol document say and the code does not   *)
(* do.                                                                     *)

(* "server to daemon2" and "daemon2 to daemon1" (svc_command:29-30): the   *)
(* daemon of a server that answered knows the endpoint the answer is for.  *)
AnswerLeavesDaemon ==
  \A h \in Hosts : \A s \in ServersAt(h) :
     s.phase \in {"answered", "wait4"} => EndPointsByID(h, s.id) # {}

(* The same line with the session exchange (svc_command:48-53): daemon2    *)
(* sends the answer to daemon1, so where a STEP2 arrives somebody asked.   *)
AnswerGoesToClient ==
  \A d \in BagToSet(net) : d.frame.cmd = "STEP2" =>
     \E c \in Clients : c.id = d.frame.id /\ ClientOf[c.attempt] = d.to

(* "check if we have service for this endPointID" (SVC-daemon.cpp:552):    *)
(* the lookups of the daemon have one answer, that is two tabled endpoints *)
(* of a host never share an ID and two services never share a peer,        *)
(* although both reading loops open endpoints.  (It fails for calls of one *)
(* second that cross: MCSvcTwins.cfg.)                                     *)
LookupsUnique ==
  \A h \in Hosts :
    /\ \A id \in Ids : Cardinality(EndPointsByID(h, id)) <= 1
    /\ \A i, j \in DOMAIN serviceTable[h] :
         serviceTable[h][i] = serviceTable[h][j] => i = j

FramesAt(h) ==
  UNION {{toDaemon[h][i] : i \in DOMAIN toDaemon[h]},
         {toApp[h][i] : i \in DOMAIN toApp[h]},
         UNION {LET e == daemonEndPoints[h][i] IN
                {e.outgoingQueue[j] : j \in DOMAIN e.outgoingQueue}
                  \cup {e.inQueue[j] : j \in DOMAIN e.inQueue} :
                i \in DOMAIN daemonEndPoints[h]}}

(* "if the connection to this address is already secured, it will return   *)
(* shortly" (SVC.cpp:246): the daemon's answer to STEP3 is still on its    *)
(* way to a call that waits for it.                                        *)
DaemonAnswerComes ==
  \A h \in Hosts : \A i \in DOMAIN endPoints[h] :
     endPoints[h][i].phase = "wait3" =>
        \E f \in FramesAt(h) : f.id = endPoints[h][i].id /\ f.cmd = "STEP3"

(* "else: incorrect address" (SVC-daemon.cpp:513): a request the daemon    *)
(* drops there names an incorrect address itself.                          *)
OnlyBadAddressRefused ==
  [][\A h \in Hosts : UnixRefusesAddress(h) => unixRequest[h][1].args[2] = NoAddress]_vars

(* "remove the endpoint" (SVC.cpp:352): the lookup for the next frame from *)
(* the daemon meets no endpoint that was removed.                          *)
RemovedNotFound ==
  \A h \in Hosts \ crashed :
     toApp[h] # << >> => FreedBefore(h, Head(toApp[h]).id) = {}
==============================================================================
