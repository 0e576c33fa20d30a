---------------------------- MODULE FileTransfer ----------------------------
(***************************************************************************)
(* The file transfer of the earlier SVC: the client of Client/main.cpp,    *)
(* which reconnects and asks for the rest of the file after a lost         *)
(* connection, and the server of Server/main.cpp, with one thread for each *)
(* accepted connection.                                                    *)
(*                                                                         *)
(* A connection is two queues of whole messages, one for each direction:   *)
(* send writes a length and a ciphertext, recv reads both.  Encryption     *)
(* shows only in what it lets through: a message is read as it was sent.   *)
(* The file is the sequence of its positions.  recv's buffer for bytes     *)
(* read but not asked for is left out: MessagesFit says it stays empty.    *)
(***************************************************************************)
EXTENDS Naturals, Sequences

CONSTANTS
    Clients,        \* the client processes
    FileLen,        \* the length of the file, in bytes
    BUFFER_SIZE,    \* the most bytes of the file in one message
    MaxSend,        \* a connection carries no message after more bytes than this
    MaxConns,       \* bound on the connections that exist at one time
    MaxFaults       \* bound on the faults of the network and the server

ASSUME TransferAssumption ==
    /\ FileLen \in Nat
    /\ BUFFER_SIZE \in Nat \ {0}
    /\ MaxSend \in Nat
    /\ MaxConns \in Nat
    /\ MaxFaults \in Nat

VARIABLES
    pc,             \* where main of each client stands
    first,          \* the client is still before its loop
    connected,      \* the client's flag of that name
    sock,           \* the connection the client uses, or NoConn
    filelen,        \* the length the server last told the client
    written,        \* what the client wrote into its file
    conns,          \* the connections, and the server thread of each
    up,             \* the server process runs
    faults          \* faults so far

clientVars == <<pc, first, connected, sock, filelen, written>>
vars == <<clientVars, conns, up, faults>>

Conns == 1..MaxConns
NoConn == 0

File == [i \in 1..FileLen |-> i]

Message(kind, data) == [kind |-> kind, data |-> data]

Stopped == {"done", "ended", "aborted", "killed"}

(***************************************************************************)
(* A connection: "open"; "closed" once the server's end is closed, when    *)
(* the client still reads what was sent; "reset" when both ends fail.      *)
(***************************************************************************)
Unused == [state |-> "closed", toClient |-> <<>>, toServer |-> <<>>,
           thread |-> "ended", offset |-> 0, sent |-> 0]

Fresh == [Unused EXCEPT !.state = "open", !.thread = "queued"]

\* The server's end closes: with a request unread the client gets a reset, which
\* may overtake what was sent to it.
ServerEndClosed(conn, overtaken) ==
    LET unread == conn.state = "open" /\ conn.toServer # <<>>
    IN  [Unused EXCEPT !.state = IF unread THEN "reset"
                                 ELSE IF conn.state = "open" THEN "closed" ELSE conn.state,
                       !.toClient = IF unread /\ overtaken THEN <<>> ELSE conn.toClient]

\* A process that ends closes its end of the connection.
ClientEndClosed(conn) == [conn EXCEPT !.state = "reset", !.toClient = <<>>]

Init ==
    /\ pc = [c \in Clients |-> "start"]
    /\ first = [c \in Clients |-> TRUE]
    /\ connected = [c \in Clients |-> FALSE]
    /\ sock = [c \in Clients |-> NoConn]
    /\ filelen = [c \in Clients |-> 0]
    /\ written = [c \in Clients |-> <<>>]
    /\ conns = [k \in Conns |-> Unused]
    /\ up = TRUE
    /\ faults = 0

-----------------------------------------------------------------------------
(***************************************************************************)
(* The client.  Before its loop only connect and negociate are inside a    *)
(* try; in the loop every exception is caught, and connected says whether  *)
(* to reconnect.                                                           *)
(***************************************************************************)
Stops(c, how) ==
    /\ pc' = [pc EXCEPT ![c] = how]
    /\ sock' = [sock EXCEPT ![c] = NoConn]
    /\ conns' = IF sock[c] = NoConn THEN conns
                ELSE [conns EXCEPT ![sock[c]] = ClientEndClosed(@)]
    /\ UNCHANGED <<first, connected, filelen, written, up, faults>>

\* An SVCException: before the loop the client stops, in the loop it goes on.
Throws(c, stop) ==
    IF first[c] THEN Stops(c, stop)
    ELSE /\ pc' = [pc EXCEPT ![c] = "loop"]
         /\ UNCHANGED <<first, connected, sock, filelen, written, conns, up, faults>>

WantsConnection(c) ==
    \/ pc[c] = "start"
    \/ pc[c] = "loop" /\ ~connected[c]

Free(k) == conns[k].thread = "ended" /\ \A c \in Clients : sock[c] # k

Connect(c) ==
    /\ WantsConnection(c)
    /\ up
    /\ \E k \in Conns :
         /\ Free(k)
         /\ \A j \in Conns : Free(j) => k <= j
         /\ sock' = [sock EXCEPT ![c] = k]
         /\ conns' = [conns EXCEPT ![k] = Fresh]
    /\ pc' = [pc EXCEPT ![c] = "hello"]
    /\ UNCHANGED <<first, connected, filelen, written, up, faults>>

ConnectFails(c) ==
    /\ WantsConnection(c)
    /\ ~up
    /\ Throws(c, "ended")

\* recv: the next message, or an exception when none is left and none can come.
Arrived(c) == conns[sock[c]].toClient # <<>>
LostConn(c) == ~Arrived(c) /\ conns[sock[c]].state # "open"
NextMessage(c) == Head(conns[sock[c]].toClient)
TakeMessage(c) == conns' = [conns EXCEPT ![sock[c]].toClient = Tail(@)]

RecvHello(c) ==
    /\ pc[c] = "hello"
    /\ Arrived(c)
    /\ TakeMessage(c)
    /\ pc' = [pc EXCEPT ![c] = "identity"]
    /\ UNCHANGED <<first, connected, sock, filelen, written, up, faults>>

\* send: on a connection the server closed the bytes may still be accepted, or
\* the second write raises SIGPIPE, which the client neither blocks nor handles.
ClientSends(c, msg) ==
    conns' = IF conns[sock[c]].state = "open"
             THEN [conns EXCEPT ![sock[c]].toServer = Append(@, msg)]
             ELSE conns

SendRefused(c) == conns[sock[c]].state = "reset"

SendIdentity(c) ==
    /\ pc[c] = "identity"
    /\ ~SendRefused(c)
    /\ ClientSends(c, Message("identity", <<>>))
    /\ connected' = [connected EXCEPT ![c] = TRUE]
    /\ pc' = [pc EXCEPT ![c] = "size"]
    /\ UNCHANGED <<first, sock, filelen, written, up, faults>>

RecvSize(c) ==
    /\ pc[c] = "size"
    /\ Arrived(c)
    /\ filelen' = [filelen EXCEPT ![c] = NextMessage(c).data[1]]
    /\ TakeMessage(c)
    /\ pc' = [pc EXCEPT ![c] = "offset"]
    /\ UNCHANGED <<first, connected, sock, written, up, faults>>

\* Mutant: the client asks for the whole file again.
SendOffsetZero(c) ==
    /\ pc[c] = "offset"
    /\ ~SendRefused(c)
    /\ ClientSends(c, Message("offset", <<0>>))
    /\ pc' = [pc EXCEPT ![c] = "loop"]
    /\ first' = [first EXCEPT ![c] = FALSE]
    /\ UNCHANGED <<connected, sock, filelen, written, up, faults>>

SendOffset(c) ==
    /\ pc[c] = "offset"
    /\ ~SendRefused(c)
    /\ ClientSends(c, Message("offset", <<Len(written[c])>>))
    /\ pc' = [pc EXCEPT ![c] = "loop"]
    /\ first' = [first EXCEPT ![c] = FALSE]
    /\ UNCHANGED <<connected, sock, filelen, written, up, faults>>

SendKilled(c) ==
    /\ pc[c] \in {"identity", "offset"}
    /\ conns[sock[c]].state = "closed"
    /\ Stops(c, "killed")

\* connect and negociate are inside the first try, the exchange of the length
\* and the offset is not.
ExchangeFails(c) ==
    \/ /\ pc[c] = "hello"
       /\ LostConn(c)
       /\ Throws(c, "ended")
    \/ /\ pc[c] = "identity"
       /\ SendRefused(c)
       /\ Throws(c, "ended")
    \/ /\ pc[c] = "size"
       /\ LostConn(c)
       /\ Throws(c, "aborted")
    \/ /\ pc[c] = "offset"
       /\ SendRefused(c)
       /\ Throws(c, "aborted")

\* The bytes the client asks recv for: a buffer, or the rest of the file.
Request(c) == IF Len(written[c]) + BUFFER_SIZE > filelen[c]
              THEN filelen[c] - Len(written[c])
              ELSE BUFFER_SIZE

InLoop(c) == pc[c] = "loop" /\ Len(written[c]) < filelen[c] /\ connected[c]

RecvData(c) ==
    /\ InLoop(c)
    /\ Arrived(c)
    /\ written' = [written EXCEPT ![c] = @ \o NextMessage(c).data]
    /\ TakeMessage(c)
    /\ UNCHANGED <<pc, first, connected, sock, filelen, up, faults>>

\* Mutant: the flag is not lowered.
DataLostUnseen(c) ==
    /\ InLoop(c)
    /\ LostConn(c)
    /\ UNCHANGED vars

\* ERR_DATA_RECV: reconnect.
DataLost(c) ==
    /\ InLoop(c)
    /\ LostConn(c)
    /\ connected' = [connected EXCEPT ![c] = FALSE]
    /\ UNCHANGED <<pc, first, sock, filelen, written, conns, up, faults>>

\* Mutant: a client that lost its connection takes the file for whole.
LoopEndsEarly(c) ==
    /\ pc[c] = "loop"
    /\ Len(written[c]) >= filelen[c] \/ ~connected[c]
    /\ Stops(c, "done")

LoopEnds(c) ==
    /\ pc[c] = "loop"
    /\ Len(written[c]) >= filelen[c]
    /\ Stops(c, "done")

-----------------------------------------------------------------------------
(***************************************************************************)
(* The server: the main thread accepts, and the thread of a connection     *)
(* runs handleclient.  It is named by its connection.                      *)
(***************************************************************************)
Accept(k) ==
    /\ conns[k].thread = "queued"
    /\ conns' = [conns EXCEPT ![k].thread = "hello"]
    /\ UNCHANGED <<clientVars, up, faults>>

ServerSends(k, at, msg, then) ==
    /\ conns[k].thread = at
    /\ conns[k].state = "open"
    /\ conns' = [conns EXCEPT ![k].toClient = Append(@, msg), ![k].thread = then]
    /\ UNCHANGED <<clientVars, up, faults>>

SendHello(k) == ServerSends(k, "hello", Message("hello", <<>>), "identity")

RecvIdentity(k) ==
    /\ conns[k].thread = "identity"
    /\ conns[k].toServer # <<>>
    /\ conns' = [conns EXCEPT ![k].toServer = Tail(@), ![k].thread = "size"]
    /\ UNCHANGED <<clientVars, up, faults>>

SendSize(k) == ServerSends(k, "size", Message("size", <<FileLen>>), "offset")

\* Mutant: the thread reads on from the beginning of the file.
RecvOffsetUnused(k) ==
    /\ conns[k].thread = "offset"
    /\ conns[k].toServer # <<>>
    /\ conns' = [conns EXCEPT ![k].toServer = Tail(@), ![k].thread = "send"]
    /\ UNCHANGED <<clientVars, up, faults>>

RecvOffset(k) ==
    /\ conns[k].thread = "offset"
    /\ conns[k].toServer # <<>>
    /\ conns' = [conns EXCEPT ![k].toServer = Tail(@), ![k].thread = "send",
                              ![k].offset = Head(conns[k].toServer).data[1]]
    /\ UNCHANGED <<clientVars, up, faults>>

Position(k) == conns[k].offset + conns[k].sent

\* fread: the next buffer of the file, shorter at its end.
Least(m, n) == IF m <= n THEN m ELSE n
Bytes(at) == SubSeq(File, at + 1, Least(at + BUFFER_SIZE, FileLen))
NextBytes(k) == Bytes(Position(k))

Sending(k) == conns[k].thread = "send" /\ Position(k) < FileLen

SendData(k) ==
    /\ Sending(k)
    /\ conns[k].sent <= MaxSend
    /\ conns[k].state = "open"
    /\ conns' = [conns EXCEPT ![k].toClient = Append(@, Message("data", NextBytes(k))),
                              ![k].sent = @ + Len(NextBytes(k))]
    /\ UNCHANGED <<clientVars, up, faults>>

\* The end of handleclient: the connection is closed.
ThreadEnds(k) ==
    \E overtaken \in BOOLEAN :
        conns' = [conns EXCEPT ![k] = ServerEndClosed(@, overtaken)]

FileSent(k) ==
    /\ conns[k].thread = "send"
    /\ Position(k) >= FileLen
    /\ ThreadEnds(k)
    /\ UNCHANGED <<clientVars, up, faults>>

\* "ters": the connection has carried all it may.
SendsTooMuch(k) ==
    /\ Sending(k)
    /\ conns[k].sent > MaxSend
    /\ ThreadEnds(k)
    /\ UNCHANGED <<clientVars, up, faults>>

\* A lost connection ends the thread.
ThreadLoses(k) ==
    /\ conns[k].state # "open"
    /\ \/ conns[k].thread = "size"
       \/ conns[k].thread = "offset" /\ conns[k].toServer = <<>>
       \/ Sending(k) /\ conns[k].sent <= MaxSend
    /\ ThreadEnds(k)
    /\ UNCHANGED <<clientVars, up, faults>>

\* The server process ends: its threads with it, its connections closed.
ServerEnds ==
    /\ up' = FALSE
    /\ \E overtaken \in SUBSET Conns :
         conns' = [k \in Conns |-> IF conns[k].thread = "ended" THEN conns[k]
                                   ELSE ServerEndClosed(conns[k], k \in overtaken)]

\* An exception of negociate: fclose of a pointer that was never set does
\* nothing, or ends the server.
NegociateFails(k) ==
    /\ \/ ThreadEnds(k) /\ UNCHANGED up
       \/ ServerEnds
    /\ UNCHANGED clientVars

ThreadLosesEarly(k) ==
    /\ conns[k].state # "open"
    /\ \/ conns[k].thread = "hello"
       \/ conns[k].thread = "identity" /\ conns[k].toServer = <<>>
    /\ NegociateFails(k)
    /\ UNCHANGED faults

-----------------------------------------------------------------------------
(***************************************************************************)
(* Faults: a message that arrives in pieces, of which negociate reads the  *)
(* first; a connection that breaks, losing what was under way; a server    *)
(* that is killed.  A server that is down is started again.                *)
(***************************************************************************)
Fault == faults < MaxFaults /\ faults' = faults + 1

IdentityInPieces(k) ==
    /\ Fault
    /\ conns[k].thread = "identity"
    /\ conns[k].toServer # <<>>
    /\ NegociateFails(k)

Break(k) ==
    /\ Fault
    /\ conns[k].state = "open"
    /\ \E n \in 0..Len(conns[k].toClient), m \in 0..Len(conns[k].toServer) :
         conns' = [conns EXCEPT ![k].state = "reset",
                                ![k].toClient = SubSeq(@, 1, n),
                                ![k].toServer = SubSeq(@, 1, m)]
    /\ UNCHANGED <<clientVars, up>>

ServerKilled ==
    /\ Fault
    /\ up
    /\ ServerEnds
    /\ UNCHANGED clientVars

ServerStarted ==
    /\ ~up
    /\ up' = TRUE
    /\ UNCHANGED <<clientVars, conns, faults>>

-----------------------------------------------------------------------------
ClientStep(c) ==
    \/ Connect(c) \/ ConnectFails(c)
    \/ RecvHello(c) \/ SendIdentity(c)
    \/ RecvSize(c) \/ SendOffset(c)
    \/ SendKilled(c) \/ ExchangeFails(c)
    \/ RecvData(c) \/ DataLost(c) \/ LoopEnds(c)

ThreadStep(k) ==
    \/ Accept(k)
    \/ SendHello(k) \/ RecvIdentity(k)
    \/ SendSize(k) \/ RecvOffset(k)
    \/ SendData(k) \/ FileSent(k) \/ SendsTooMuch(k)
    \/ ThreadLoses(k) \/ ThreadLosesEarly(k)

Next ==
    \/ \E c \in Clients : ClientStep(c)
    \/ \E k \in Conns : ThreadStep(k) \/ IdentityInPieces(k) \/ Break(k)
    \/ ServerKilled
    \/ ServerStarted

Spec == Init /\ [][Next]_vars

\* Every process and thread that can run does so in the end, and a server that
\* is down is started again.
FairSpec ==
    /\ Spec
    /\ \A c \in Clients : WF_vars(ClientStep(c))
    /\ \A k \in Conns : WF_vars(ThreadStep(k))
    /\ WF_vars(ServerStarted)

-----------------------------------------------------------------------------
Messages == [kind : {"hello", "size", "data", "identity", "offset"},
             data : Seq(0..FileLen)]

TypeOK ==
    /\ pc \in [Clients -> {"start", "hello", "identity", "size", "offset", "loop"} \cup Stopped]
    /\ first \in [Clients -> BOOLEAN]
    /\ connected \in [Clients -> BOOLEAN]
    /\ sock \in [Clients -> Conns \cup {NoConn}]
    /\ filelen \in [Clients -> 0..FileLen]
    /\ written \in [Clients -> Seq(1..FileLen)]
    /\ conns \in [Conns -> [state : {"open", "closed", "reset"},
                            toClient : Seq(Messages), toServer : Seq(Messages),
                            thread : {"queued", "hello", "identity", "size",
                                      "offset", "send", "ended"},
                            offset : 0..FileLen, sent : 0..FileLen]]
    /\ up \in BOOLEAN
    /\ faults \in 0..MaxFaults

\* What a client reads next is what it asks for, byte for byte: recv neither
\* keeps the end of a message for a later call nor asks for a second one.  The
\* buffer for such bytes outlives a reconnection, and the branch that joins two
\* messages loses the first (SVCCommunication.cpp, recv).
Expected(c) ==
    CASE pc[c] = "hello" -> {"hello"}
      [] pc[c] = "size" -> {"size"}
      [] pc[c] = "loop" /\ connected[c] -> {"data"}
      [] OTHER -> {}

MessagesFit ==
    \A c \in Clients : sock[c] # NoConn /\ Arrived(c) =>
        /\ NextMessage(c).kind \in Expected(c)
        /\ pc[c] = "loop" => Len(NextMessage(c).data) = Request(c)

\* A thread that sends has the client it sends to in step, after any number of
\* reconnections: what the client wrote is the beginning of the file, the messages
\* under way are the buffers that follow it, one after the other, and the thread
\* reads on where the last of them ends (Server/main.cpp, handleclient;
\* Client/main.cpp, the loop).
InStep ==
    \A c \in Clients :
        LET k == sock[c]
            q == conns[k].toClient
            l == Len(written[c])
        IN  k # NoConn /\ conns[k].thread = "send" /\ conns[k].state = "open" =>
              /\ written[c] = SubSeq(File, 1, l)
              /\ \A n \in DOMAIN q : q[n] = Message("data", Bytes(l + (n - 1) * BUFFER_SIZE))
              /\ Position(k) = Least(l + Len(q) * BUFFER_SIZE, FileLen)

\* The transfer is a copy: whatever breaks, a client's file grows by the bytes
\* that follow and the client reports an end only when it is whole.
Copy == INSTANCE FileCopy WITH copy <- written, whole <- {c \in Clients : pc[c] = "done"}
CopiesFile == Copy!Copying

\* Every client comes to an end; one that reached its loop ends with the whole
\* file, or by the signal of a write on a closed connection.
TransferEnds ==
    \A c \in Clients : <>(pc[c] \in IF first[c] THEN Stopped ELSE {"done", "killed"})

\* Refuted: "Reconnect if needed" (Client/main.cpp): a client in its loop
\* gets the whole file.  The server closes the connection of a client about to
\* answer, and SIGPIPE ends the client.
LoopCompletes == \A c \in Clients : ~first[c] ~> pc[c] = "done"

\* Refuted: the thread of one client leaves the others alone.  A failed
\* negociation may end the server.
Undisturbed == [][faults' = faults => (up => up')]_vars
=============================================================================
