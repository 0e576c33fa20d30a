----------------------------- MODULE SvcSockets -----------------------------
(***************************************************************************)
(* What the SVC application library and the SVC daemon share: the frames   *)
(* of the connection handshake and the sockets that carry them.            *)
(*                                                                         *)
(* On each host the library and the daemon talk over two AF_LOCAL datagram *)
(* sockets, which are reliable and ordered.  Two daemons talk over UDP, so *)
(* a datagram is lost, overtaken or duplicated at will.  All applications  *)
(* of this model have one application ID, as the demo client and server    *)
(* have, so a host has one application socket.                             *)
(***************************************************************************)
EXTENDS Naturals, Sequences, FiniteSets, BagsExt, Bags

CONSTANTS
  Hosts,            \* the machines, each with one daemon and one application
  Attempts,         \* the calls of establishConnection
  Ids,              \* the endpoint IDs (8-byte hashes in the code)
  NoId,             \* the content of an endPointID nobody has set yet
  NoAddress,        \* the address 0.0.0.0
  Invalid,          \* an address string inet_aton refuses
  ClientOf,         \* the host that makes each attempt
  ServerOf,         \* the address it names: a host, NoAddress or Invalid
  IdOf,             \* the endpoint ID its attempt gets
  FreshChallenges,  \* whether generateChallenge never repeats an answer
  MaxDuplicates     \* bound: how many datagrams the network delivers twice

ASSUME SocketsAssumption ==
  /\ ClientOf \in [Attempts -> Hosts]
  /\ ServerOf \in [Attempts -> Hosts \cup {NoAddress, Invalid}]
  /\ IdOf \in [Attempts -> Ids]
  /\ NoId \notin Ids
  /\ NoAddress \notin Hosts /\ Invalid \notin Hosts
  /\ FreshChallenges \in BOOLEAN
  /\ MaxDuplicates \in Nat

VARIABLES
  toDaemon,    \* toDaemon[h]: frames the applications of h sent to its daemon
  toApp,       \* toApp[h]: frames the daemon of h sent to its application
  net,         \* the bag of the datagrams between daemons
  duplicates   \* how many deliveries left a copy behind

socketVars == <<toDaemon, toApp, net, duplicates>>

(* Challenges.  The demo applications return a constant from               *)
(* generateChallenge (SendFileApp.cpp:62, SendFileAppServer.cpp:76); an    *)
(* application may as well return a fresh value each time.  A proof is a   *)
(* function of the challenge (challenge + "OK"), so a proof is written as  *)
(* the challenge it answers.                                               *)
ClientChallenge(h, n) == IF FreshChallenges THEN <<"client", h, n>> ELSE <<"client">>
ServerChallenge(h, n) == IF FreshChallenges THEN <<"server", h, n>> ELSE <<"server">>

Commands == {"STEP1", "STEP2", "STEP3", "STEP4"}

(* A command frame: endpoint ID, command and parameters.  The parameters   *)
(* that never differ here (identity, application ID) are left out, and so  *)
(* is the info byte, which the command determines.                         *)
Frame(id, cmd, args) == [id |-> id, cmd |-> cmd, args |-> args]

Datagram(from, to, frame) == [from |-> from, to |-> to, frame |-> frame]

SocketsInit ==
  /\ toDaemon = [h \in Hosts |-> << >>]
  /\ toApp = [h \in Hosts |-> << >>]
  /\ net = EmptyBag
  /\ duplicates = 0

(* The daemon of d.to takes d off the network, which may keep a copy.  A  *)
(* datagram that is lost is one nobody ever takes.                         *)
Receive(d) ==
  /\ BagIn(d, net)
  /\ \/ net' = BagRemove(net, d) /\ duplicates' = duplicates
     \/ duplicates < MaxDuplicates /\ duplicates' = duplicates + 1 /\ net' = net
==============================================================================
