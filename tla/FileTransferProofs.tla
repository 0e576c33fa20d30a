-------------------------- MODULE FileTransferProofs --------------------------
(***************************************************************************)
(* What the file transfer of the earlier SVC guarantees for any number of  *)
(* clients, any file and any buffer, whatever breaks: a client reads the   *)
(* messages it asks for, whole, and its file is a copy that grows and is   *)
(* complete when the client says so.                                       *)
(*                                                                         *)
(* The inductive invariant says what each queue holds, message by message, *)
(* at each point of the exchange.                                          *)
(***************************************************************************)
EXTENDS FileTransfer, SequenceTheorems, TLAPS

Places == {"start", "hello", "identity", "size", "offset", "loop"} \cup Stopped
Threads == {"queued", "hello", "identity", "size", "offset", "send", "ended"}
ConnRecords == [state : {"open", "closed", "reset"}, toClient : Seq(Messages), toServer : Seq(Messages),
                thread : Threads, offset : 0..FileLen, sent : 0..FileLen]

(* A queue with one message; the messages of the file after its first l    *)
(* bytes; how far the thread is that has sent so many of them.             *)
Holds(q, m) == Len(q) = 1 /\ q[1] = m
Chunk(a) == Message("data", Bytes(a))
At(l, n) == l + n * BUFFER_SIZE
Chunks(q, l) == \A n \in 1..Len(q) : At(l, n - 1) < FileLen /\ q[n] = Chunk(At(l, n - 1))

Hello == Message("hello", <<>>)
Identity == Message("identity", <<>>)
Size == Message("size", <<FileLen>>)
Offset(l) == Message("offset", <<l>>)

(* What a client at p, connected or not, with l bytes written, may find in *)
(* its queue.                                                              *)
InboxOK(p, cn, l, q) ==
    /\ p = "hello" => q = <<>> \/ Holds(q, Hello)
    /\ p \in {"identity", "offset"} => q = <<>>
    /\ p = "size" => q = <<>> \/ Holds(q, Size)
    /\ p = "loop" /\ cn = TRUE => Chunks(q, l)
    /\ p = "loop" /\ cn = FALSE => q = <<>>

(* Where the thread of a connection is that has not failed.                *)
Coupled(p, cn, l, conn) ==
    /\ p \in {"hello", "identity", "size", "offset", "loop"}
    /\ p = "hello" =>
         /\ conn.toServer = <<>>
         /\ \/ conn.thread \in {"queued", "hello"} /\ conn.toClient = <<>>
            \/ conn.thread = "identity" /\ Holds(conn.toClient, Hello)
    /\ p = "identity" => conn.thread = "identity" /\ conn.toServer = <<>>
    /\ p = "size" =>
         \/ conn.thread = "identity" /\ conn.toClient = <<>> /\ Holds(conn.toServer, Identity)
         \/ conn.thread = "size" /\ conn.toClient = <<>> /\ conn.toServer = <<>>
         \/ conn.thread = "offset" /\ Holds(conn.toClient, Size) /\ conn.toServer = <<>>
    /\ p = "offset" => conn.thread = "offset" /\ conn.toServer = <<>>
    /\ p = "loop" =>
         /\ cn = TRUE
         /\ \/ conn.thread = "offset" /\ conn.toClient = <<>> /\ Holds(conn.toServer, Offset(l))
            \/ /\ conn.thread = "send" /\ conn.toServer = <<>>
               /\ conn.offset + conn.sent = Least(At(l, Len(conn.toClient)), FileLen)

PairOK(p, cn, l, conn) ==
    InboxOK(p, cn, l, conn.toClient) /\ (conn.state = "open" => Coupled(p, cn, l, conn))

(* A connection by itself. *)
ConnOK(conn) ==
    /\ conn \in ConnRecords
    /\ conn.thread \in {"queued", "hello", "size", "send", "ended"} => conn.toServer = <<>>
    /\ conn.thread = "identity" => conn.toServer = <<>> \/ Holds(conn.toServer, Identity)
    /\ conn.thread = "offset" =>
         conn.toServer = <<>> \/ \E l \in 0..FileLen : Holds(conn.toServer, Offset(l))
    /\ conn.thread # "send" => conn.sent = 0
    /\ conn.thread = "ended" => conn.state # "open"

(* A client by itself. *)
ClientOK(p, f, cn, s, fl, w) ==
    /\ p \in Places /\ f \in BOOLEAN /\ cn \in BOOLEAN /\ s \in Conns \cup {NoConn} /\ fl \in 0..FileLen
    /\ w \in Seq(1..FileLen) /\ Len(w) <= FileLen /\ \A i \in 1..Len(w) : w[i] = i
    /\ s = NoConn <=> p \in {"start"} \cup Stopped
    /\ p = "start" => f = TRUE
    /\ p \in {"start", "hello", "identity"} => cn = FALSE
    /\ p \in {"size", "offset"} => cn = TRUE
    /\ p = "loop" => f = FALSE
    /\ f = FALSE \/ p = "offset" => fl = FileLen

Shaped ==
    /\ pc \in [Clients -> Places] /\ first \in [Clients -> BOOLEAN] /\ connected \in [Clients -> BOOLEAN]
    /\ sock \in [Clients -> Conns \cup {NoConn}] /\ filelen \in [Clients -> 0..FileLen]
    /\ written \in [Clients -> Seq(1..FileLen)] /\ conns \in [Conns -> ConnRecords]

ClientsOK == \A c \in Clients : ClientOK(pc[c], first[c], connected[c], sock[c], filelen[c], written[c])
ConnsOK == \A k \in Conns : ConnOK(conns[k])
PairsOK == \A c \in Clients : sock[c] # NoConn => PairOK(pc[c], connected[c], Len(written[c]), conns[sock[c]])
Owned ==
    /\ \A c, d \in Clients : sock[c] = sock[d] /\ sock[c] # NoConn => c = d
    /\ \A k \in Conns : conns[k].state = "open" => \E c \in Clients : sock[c] = k

TransferInv ==
    /\ Shaped /\ ClientsOK /\ ConnsOK /\ PairsOK /\ Owned
    /\ up \in BOOLEAN /\ faults \in 0..MaxFaults

-----------------------------------------------------------------------------
(* The chunks of the file. *)

LEMMA Ats ==
  ASSUME NEW l \in Nat, NEW n \in Nat
  PROVE  /\ At(l, n) \in Nat /\ At(l, 0) = l
         /\ At(l, n + 1) = At(l, n) + BUFFER_SIZE /\ At(l + BUFFER_SIZE, n) = At(l, n + 1)
         /\ n >= 1 => At(l, n) >= l + BUFFER_SIZE
  <1>1. n * BUFFER_SIZE \in Nat /\ 0 * BUFFER_SIZE = 0 /\ (n + 1) * BUFFER_SIZE = n * BUFFER_SIZE + BUFFER_SIZE
    BY TransferAssumption
  <1>2. n >= 1 => n * BUFFER_SIZE >= BUFFER_SIZE
    <2> SUFFICES ASSUME n >= 1 PROVE n * BUFFER_SIZE >= BUFFER_SIZE
      OBVIOUS
    <2>1. (n - 1) * BUFFER_SIZE >= 0 /\ n * BUFFER_SIZE = (n - 1) * BUFFER_SIZE + BUFFER_SIZE
      BY TransferAssumption
    <2> QED BY <2>1, TransferAssumption
  <1> QED BY <1>1, <1>2, TransferAssumption DEF At

LEMMA ChunkIs ==
  ASSUME NEW a \in Nat, a < FileLen
  PROVE  /\ Chunk(a) \in Messages /\ Chunk(a).kind = "data" /\ Chunk(a).data \in Seq(1..FileLen)
         /\ Len(Chunk(a).data) = Least(a + BUFFER_SIZE, FileLen) - a /\ Len(Chunk(a).data) > 0
         /\ \A i \in 1..Len(Chunk(a).data) : Chunk(a).data[i] = a + i
  <1> DEFINE b == Least(a + BUFFER_SIZE, FileLen)
             s == SubSeq(File, a + 1, b)
  <1>1. b \in Nat /\ a < b /\ b <= FileLen
    BY TransferAssumption DEF Least
  <1>2. File \in Seq(1..FileLen) /\ Len(File) = FileLen /\ \A i \in 1..FileLen : File[i] = i
    BY TransferAssumption DEF File
  <1>3. s \in Seq(1..FileLen) /\ Len(s) = b - a /\ \A i \in 1..(b - a) : s[i] = a + i
    <2> HIDE DEF b
    <2>1. \A i \in a + 1 .. b : File[i] \in 1..FileLen
      BY <1>1, <1>2, TransferAssumption
    <2>2. PICK c : c = a + 1 /\ c \in Int /\ b \in Int
      BY <1>1
    <2>3. PICK t : t = SubSeq(File, c, b)
      OBVIOUS
    <2>4. /\ t \in Seq(1..FileLen) /\ Len(t) = IF c <= b THEN b - c + 1 ELSE 0
          /\ \A i \in 1..(b - c + 1) : t[i] = File[c + i - 1]
      BY <2>1, <2>2, <2>3, SubSeqProperties
    <2>5. Len(t) = b - a /\ \A i \in 1..(b - a) : t[i] = File[a + i] /\ File[a + i] = a + i
      BY <1>1, <1>2, <2>2, <2>4, TransferAssumption
    <2> QED BY <2>2, <2>3, <2>4, <2>5
  <1>4. Seq(1..FileLen) \subseteq Seq(0..FileLen)
    BY TransferAssumption
  <1>5. Chunk(a).kind = "data" /\ Chunk(a).data = s
    BY DEF Chunk, Bytes, Message
  <1>6. Chunk(a) \in Messages
    BY <1>3, <1>4, <1>5 DEF Chunk, Message, Messages
  <1> QED BY <1>1, <1>3, <1>5, <1>6

LEMMA ChunksEmpty == ASSUME NEW l PROVE Chunks(<<>>, l)
  BY DEF Chunks

LEMMA ChunksTail ==
  ASSUME NEW q \in Seq(Messages), q # <<>>, NEW l \in Nat, Chunks(q, l),
         NEW m, m = Least(l + BUFFER_SIZE, FileLen)
  PROVE  /\ Head(q) = Chunk(l) /\ l < FileLen
         /\ Chunks(Tail(q), m)
         /\ Least(At(l, Len(q)), FileLen) = Least(At(m, Len(Tail(q))), FileLen)
  <1>1. Len(q) \in Nat /\ Len(q) >= 1 /\ Len(Tail(q)) = Len(q) - 1 /\ Head(q) = q[1]
        /\ \A n \in 1..(Len(q) - 1) : Tail(q)[n] = q[n + 1]
    OBVIOUS
  <1>2. Head(q) = Chunk(l) /\ l < FileLen
    BY <1>1, Ats DEF Chunks
  <1>3. \A n \in 1..(Len(q) - 1) : At(l, n) < FileLen /\ q[n + 1] = Chunk(At(l, n))
    BY <1>1 DEF Chunks
  <1>4. ASSUME NEW n \in 1..(Len(q) - 1)
        PROVE  m = l + BUFFER_SIZE /\ At(m, n - 1) = At(l, n)
    <2>1. At(l, n) >= l + BUFFER_SIZE /\ At(l, n) \in Nat /\ At(l, n) < FileLen
      <3>1. n \in Nat /\ n >= 1
        BY <1>1
      <3> QED BY <1>3, <3>1, Ats
    <2>2. m = l + BUFFER_SIZE
      BY <2>1, TransferAssumption DEF Least
    <2>3. n - 1 \in Nat /\ (n - 1) + 1 = n
      BY <1>1
    <2>4. At(l + BUFFER_SIZE, n - 1) = At(l, (n - 1) + 1)
      BY <2>3, Ats
    <2> QED BY <2>2, <2>3, <2>4
  <1>5. Chunks(Tail(q), m)
    BY <1>1, <1>3, <1>4 DEF Chunks
  <1>6. Least(At(l, Len(q)), FileLen) = Least(At(m, Len(q) - 1), FileLen)
    <2>1. CASE Len(q) = 1
      <3>1. At(l, 1) = l + BUFFER_SIZE
        <4>1. At(l, 0 + 1) = At(l, 0) + BUFFER_SIZE /\ At(l, 0) = l
          BY Ats
        <4> QED BY <4>1
      <3>2. m \in Nat /\ At(m, 0) = m
        <4>1. m \in Nat
          BY TransferAssumption DEF Least
        <4> QED BY <4>1, Ats
      <3> QED BY <2>1, <3>1, <3>2, TransferAssumption DEF Least
    <2>2. CASE Len(q) > 1
      <3>1. m = l + BUFFER_SIZE
        BY <1>1, <1>4, <2>2
      <3>2. At(m, Len(q) - 1) = At(l, (Len(q) - 1) + 1)
        BY <1>1, <3>1, Ats
      <3> QED BY <1>1, <3>2
    <2> QED BY <1>1, <2>1, <2>2
  <1> QED BY <1>1, <1>2, <1>5, <1>6

LEMMA ChunksAppend ==
  ASSUME NEW q \in Seq(Messages), NEW l \in Nat, Chunks(q, l),
         NEW a, a = Least(At(l, Len(q)), FileLen), a < FileLen
  PROVE  /\ Append(q, Chunk(a)) \in Seq(Messages) /\ Chunks(Append(q, Chunk(a)), l)
         /\ Least(a + BUFFER_SIZE, FileLen) = Least(At(l, Len(Append(q, Chunk(a)))), FileLen)
  <1>1. Len(q) \in Nat /\ At(l, Len(q)) \in Nat /\ At(l, Len(q) + 1) = At(l, Len(q)) + BUFFER_SIZE
    BY Ats
  <1>2. a = At(l, Len(q)) /\ a \in Nat
    BY <1>1, TransferAssumption DEF Least
  <1>3. PICK ch : ch = Chunk(a) /\ ch \in Messages
    BY <1>2, ChunkIs
  <1>4. PICK r : r = Append(q, ch)
    OBVIOUS
  <1>5. r \in Seq(Messages) /\ Len(r) = Len(q) + 1 /\ r[Len(q) + 1] = ch /\ \A n \in 1..Len(q) : r[n] = q[n]
    BY <1>3, <1>4
  <1>6. Chunks(r, l)
    <2> SUFFICES ASSUME NEW n \in 1..Len(r) PROVE At(l, n - 1) < FileLen /\ r[n] = Chunk(At(l, n - 1))
      BY DEF Chunks
    <2>1. CASE n = Len(q) + 1
      <3>1. n - 1 = Len(q)
        BY <1>1, <2>1
      <3> QED BY <1>2, <1>3, <1>5, <2>1, <3>1
    <2>2. CASE n # Len(q) + 1
      <3>1. n \in 1..Len(q)
        BY <1>1, <1>5, <2>2
      <3> QED BY <1>5, <3>1 DEF Chunks
    <2> QED BY <2>1, <2>2
  <1> QED BY <1>1, <1>2, <1>3, <1>4, <1>5, <1>6

(* What a client with l bytes of the file makes of the next chunk. *)
LEMMA GrowsByChunk ==
  ASSUME NEW w \in Seq(1..FileLen), Len(w) < FileLen, \A i \in 1..Len(w) : w[i] = i,
         NEW u, u = w \o Chunk(Len(w)).data
  PROVE  /\ u \in Seq(1..FileLen) /\ Len(u) = Least(Len(w) + BUFFER_SIZE, FileLen)
         /\ Len(u) > Len(w) /\ Len(u) <= FileLen /\ \A i \in 1..Len(u) : u[i] = i
  <1>1. PICK d : d = Chunk(Len(w)).data
    OBVIOUS
  <1>2. /\ Len(w) \in Nat /\ d \in Seq(1..FileLen) /\ Len(d) = Least(Len(w) + BUFFER_SIZE, FileLen) - Len(w)
        /\ Len(d) > 0 /\ \A i \in 1..Len(d) : d[i] = Len(w) + i
    BY <1>1, ChunkIs
  <1>3. /\ u \in Seq(1..FileLen) /\ Len(u) = Len(w) + Len(d)
        /\ \A i \in 1..(Len(w) + Len(d)) : u[i] = IF i <= Len(w) THEN w[i] ELSE d[i - Len(w)]
    BY <1>1, <1>2, ConcatProperties
  <1>4. Len(u) = Least(Len(w) + BUFFER_SIZE, FileLen) /\ Len(u) > Len(w) /\ Len(u) <= FileLen
    BY <1>2, <1>3, TransferAssumption DEF Least
  <1>5. \A i \in 1..Len(u) : u[i] = i
    <2> SUFFICES ASSUME NEW i \in 1..Len(u) PROVE u[i] = i
      OBVIOUS
    <2>1. CASE i <= Len(w)
      BY <1>2, <1>3, <2>1
    <2>2. CASE i > Len(w)
      <3>1. i - Len(w) \in 1..Len(d)
        BY <1>2, <1>3, <2>2
      <3> QED BY <1>2, <1>3, <2>2, <3>1
    <2> QED BY <1>2, <2>1, <2>2
  <1> QED BY <1>3, <1>4, <1>5

(* A copy is the beginning of the file. *)
LEMMA CopyIs ==
  ASSUME NEW w \in Seq(1..FileLen), Len(w) <= FileLen, \A i \in 1..Len(w) : w[i] = i
  PROVE  w = SubSeq(File, 1, Len(w)) /\ (Len(w) = FileLen => w = File)
  <1>1. File \in Seq(1..FileLen) /\ Len(File) = FileLen /\ \A i \in 1..FileLen : File[i] = i
    BY TransferAssumption DEF File
  <1>2. PICK n : n = Len(w) /\ n \in Nat /\ n <= FileLen
    OBVIOUS
  <1>3. PICK s : s = SubSeq(File, 1, n)
    OBVIOUS
  <1>4. \A i \in 1..n : File[i] \in 1..FileLen
    BY <1>1, <1>2, TransferAssumption
  <1>5. s \in Seq(1..FileLen) /\ Len(s) = (IF 1 <= n THEN n - 1 + 1 ELSE 0) /\ \A i \in 1..(n - 1 + 1) : s[i] = File[1 + i - 1]
    BY <1>2, <1>3, <1>4, SubSeqProperties
  <1>6. Len(s) = n /\ \A i \in 1..n : s[i] = w[i]
    BY <1>1, <1>2, <1>5, TransferAssumption
  <1>7. w = s
    BY <1>2, <1>5, <1>6, SeqEqual
  <1>8. Len(w) = FileLen => w = File
    BY <1>1, SeqEqual
  <1> QED BY <1>2, <1>3, <1>7, <1>8
-----------------------------------------------------------------------------
(* Connections that end. *)

LEMMA EmptyInbox == ASSUME NEW p, NEW cn, NEW l PROVE InboxOK(p, cn, l, <<>>)
  BY ChunksEmpty DEF InboxOK

LEMMA ServerCloses ==
  ASSUME NEW conn, ConnOK(conn), NEW overtaken, NEW new, new = ServerEndClosed(conn, overtaken)
  PROVE  /\ ConnOK(new) /\ new.state # "open"
         /\ \A p, cn, l : PairOK(p, cn, l, conn) => PairOK(p, cn, l, new)
  <1>1. /\ new.state \in {"closed", "reset"} /\ new.toClient \in {conn.toClient, <<>>}
        /\ new.toServer = <<>> /\ new.thread = "ended" /\ new.offset = 0 /\ new.sent = 0
        /\ new = [state |-> new.state, toClient |-> new.toClient, toServer |-> <<>>,
                  thread |-> "ended", offset |-> 0, sent |-> 0]
    BY DEF ServerEndClosed, Unused, ConnOK, ConnRecords
  <1>2. new.toClient \in Seq(Messages) /\ <<>> \in Seq(Messages) /\ 0 \in 0..FileLen
    <2>1. <<>> \in Seq(Messages)
      OBVIOUS
    <2>2. conn.toClient \in Seq(Messages)
      BY DEF ConnOK, ConnRecords
    <2>3. new.toClient = conn.toClient \/ new.toClient = <<>>
      BY <1>1
    <2>4. 0 \in 0..FileLen
      BY TransferAssumption
    <2>5. new.toClient \in Seq(Messages)
      BY <2>1, <2>2, <2>3
    <2> QED BY <2>1, <2>4, <2>5
  <1>3. new \in ConnRecords
    BY <1>1, <1>2 DEF ConnRecords, Threads
  <1> QED BY <1>1, <1>3, EmptyInbox DEF ConnOK, PairOK

LEMMA ClientCloses ==
  ASSUME NEW conn, ConnOK(conn), NEW new, new = ClientEndClosed(conn)
  PROVE  ConnOK(new) /\ new.state # "open"
  <1>1. conn \in ConnRecords /\ <<>> \in Seq(Messages)
    BY DEF ConnOK
  <1>2. /\ new.state = "reset" /\ new.toClient = <<>> /\ new.toServer = conn.toServer
        /\ new.thread = conn.thread /\ new.offset = conn.offset /\ new.sent = conn.sent
    BY <1>1 DEF ClientEndClosed, ConnRecords
  <1>3. new \in ConnRecords
    BY <1>1 DEF ClientEndClosed, ConnRecords
  <1> QED BY <1>2, <1>3 DEF ConnOK

LEMMA FreshOK == /\ ConnOK(Fresh) /\ ConnOK(Unused) /\ Unused.state # "open"
                 /\ \A cn, l : PairOK("hello", cn, l, Fresh)
  <1>1. /\ Fresh.state = "open" /\ Fresh.toClient = <<>> /\ Fresh.toServer = <<>> /\ Fresh.thread = "queued"
        /\ Fresh.offset = 0 /\ Fresh.sent = 0 /\ Fresh \in ConnRecords
    <2>1. Unused \in ConnRecords
      BY TransferAssumption DEF Unused, ConnRecords, Threads
    <2>2. Unused.toClient = <<>> /\ Unused.toServer = <<>> /\ Unused.offset = 0 /\ Unused.sent = 0
      BY DEF Unused
    <2>3. PICK u : u = Unused
      OBVIOUS
    <2>4. Fresh = [u EXCEPT !.state = "open", !.thread = "queued"] /\ u \in ConnRecords
      BY <2>1, <2>3 DEF Fresh
    <2> QED BY <2>2, <2>3, <2>4 DEF ConnRecords, Threads
  <1>2. Unused \in ConnRecords /\ ConnOK(Unused) /\ Unused.state # "open"
    BY TransferAssumption DEF Unused, ConnRecords, Threads, ConnOK
  <1> QED BY <1>1, <1>2, EmptyInbox DEF ConnOK, PairOK, Coupled

LEMMA InitTransfer == Init => TransferInv
  <1> SUFFICES ASSUME Init PROVE TransferInv
    OBVIOUS
  <1>1. Shaped
    BY FreshOK, TransferAssumption DEF Init, Shaped, Places, NoConn, ConnOK
  <1>2. ClientsOK
    <2>1. <<>> \in Seq(1..FileLen) /\ Len(<<>>) = 0 /\ 0 \in 0..FileLen
      BY TransferAssumption
    <2>2. \A c \in Clients : pc[c] = "start" /\ first[c] = TRUE /\ connected[c] = FALSE
                             /\ sock[c] = NoConn /\ filelen[c] = 0 /\ written[c] = <<>>
      BY DEF Init
    <2>3. ClientOK("start", TRUE, FALSE, NoConn, 0, <<>>)
      BY <2>1, TransferAssumption DEF ClientOK, Places
    <2> QED BY <2>2, <2>3 DEF ClientsOK
  <1>3. ConnsOK /\ PairsOK /\ Owned
    BY FreshOK DEF Init, ConnsOK, PairsOK, Owned
  <1> QED BY <1>1, <1>2, <1>3, TransferAssumption DEF TransferInv, Init
-----------------------------------------------------------------------------
(* The steps of the server and of the network. *)

LEMMA ServerKeeps ==
  ASSUME TransferInv, UNCHANGED clientVars, up' \in BOOLEAN, faults' \in 0..MaxFaults,
         conns' \in [Conns -> ConnRecords],
         \A k \in Conns :
           /\ ConnOK(conns'[k]) /\ (conns'[k].state = "open" => conns[k].state = "open")
           /\ \A c \in Clients : sock[c] = k => PairOK(pc[c], connected[c], Len(written[c]), conns'[k])
  PROVE  TransferInv'
  <1>1. Shaped' /\ ClientsOK'
    BY DEF TransferInv, Shaped, ClientsOK, clientVars
  <1>2. ConnsOK'
    BY DEF ConnsOK
  <1>3. PairsOK'
    BY DEF TransferInv, Shaped, PairsOK, clientVars
  <1>4. Owned'
    BY DEF TransferInv, Owned, clientVars
  <1> QED BY <1>1, <1>2, <1>3, <1>4 DEF TransferInv

LEMMA OneConnKeeps ==
  ASSUME TransferInv, UNCHANGED clientVars, up' \in BOOLEAN, faults' \in 0..MaxFaults,
         NEW k \in Conns, NEW new, conns' = [conns EXCEPT ![k] = new],
         ConnOK(new), new.state = "open" => conns[k].state = "open",
         \A c \in Clients : sock[c] = k => PairOK(pc[c], connected[c], Len(written[c]), new)
  PROVE  TransferInv'
  <1>1. conns' \in [Conns -> ConnRecords]
    BY DEF TransferInv, Shaped, ConnOK
  <1>2. \A j \in Conns : conns'[j] = IF j = k THEN new ELSE conns[j]
    BY DEF TransferInv, Shaped
  <1>3. \A j \in Conns : ConnOK(conns'[j]) /\ (conns'[j].state = "open" => conns[j].state = "open")
    BY <1>2 DEF TransferInv, ConnsOK
  <1>4. ASSUME NEW j \in Conns, NEW c \in Clients, sock[c] = j
        PROVE  PairOK(pc[c], connected[c], Len(written[c]), conns'[j])
    <2>1. sock[c] # NoConn
      BY <1>4 DEF Conns, NoConn
    <2> QED BY <1>2, <1>4, <2>1 DEF TransferInv, PairsOK
  <1> QED BY <1>1, <1>3, <1>4, ServerKeeps

LEMMA ThreadEndsKeeps ==
  ASSUME TransferInv, UNCHANGED clientVars, up' \in BOOLEAN, faults' \in 0..MaxFaults,
         NEW k \in Conns, ThreadEnds(k)
  PROVE  TransferInv'
  <1>1. PICK overtaken \in BOOLEAN : conns' = [conns EXCEPT ![k] = ServerEndClosed(@, overtaken)]
    BY DEF ThreadEnds
  <1>2. PICK new : new = ServerEndClosed(conns[k], overtaken)
    OBVIOUS
  <1>3. ConnOK(conns[k]) /\ conns' = [conns EXCEPT ![k] = new]
    BY <1>1, <1>2 DEF TransferInv, ConnsOK
  <1>4. ConnOK(new) /\ new.state # "open" /\ \A p, cn, l : PairOK(p, cn, l, conns[k]) => PairOK(p, cn, l, new)
    BY <1>2, <1>3, ServerCloses
  <1>5. \A c \in Clients : sock[c] = k => PairOK(pc[c], connected[c], Len(written[c]), conns[k])
    BY DEF TransferInv, PairsOK, Conns, NoConn
  <1> QED BY <1>3, <1>4, <1>5, OneConnKeeps

LEMMA ServerEndsKeeps ==
  ASSUME TransferInv, UNCHANGED clientVars, faults' \in 0..MaxFaults, ServerEnds
  PROVE  TransferInv'
  <1>1. PICK overtaken \in SUBSET Conns :
          conns' = [k \in Conns |-> IF conns[k].thread = "ended" THEN conns[k]
                                    ELSE ServerEndClosed(conns[k], k \in overtaken)]
    BY DEF ServerEnds
  <1>2. ASSUME NEW k \in Conns
        PROVE  /\ ConnOK(conns'[k]) /\ (conns'[k].state = "open" => conns[k].state = "open")
               /\ \A p, cn, l : PairOK(p, cn, l, conns[k]) => PairOK(p, cn, l, conns'[k])
    <2>1. ConnOK(conns[k])
      BY DEF TransferInv, ConnsOK
    <2>2. CASE conns'[k] = conns[k]
      BY <2>1, <2>2
    <2>3. CASE conns'[k] = ServerEndClosed(conns[k], k \in overtaken)
      BY <2>1, <2>3, ServerCloses
    <2> QED BY <1>1, <2>2, <2>3
  <1>3. conns' \in [Conns -> ConnRecords]
    BY <1>1, <1>2 DEF ConnOK
  <1>4. \A k \in Conns : \A c \in Clients : sock[c] = k => PairOK(pc[c], connected[c], Len(written[c]), conns[k])
    BY DEF TransferInv, PairsOK, Conns, NoConn
  <1>5. up' \in BOOLEAN
    BY DEF ServerEnds
  <1> QED BY <1>2, <1>3, <1>4, <1>5, ServerKeeps

-----------------------------------------------------------------------------
(* One step of a thread, on the record of its connection. *)

LEMMA OneMessage ==
  ASSUME NEW q \in Seq(Messages), NEW m, Holds(q, m)
  PROVE  q # <<>> /\ Head(q) = m /\ Tail(q) = <<>>
  <1>1. Len(q) = 1 /\ q[1] = m
    BY DEF Holds
  <1>2. q # <<>> /\ Head(q) = m
    BY <1>1
  <1>3. PICK t : t = Tail(q)
    OBVIOUS
  <1>4. t \in Seq(Messages) /\ Len(t) = 0
    BY <1>1, <1>2, <1>3, HeadTailProperties
  <1>5. t = <<>>
    BY <1>4
  <1> QED BY <1>2, <1>3, <1>5

LEMMA FirstMessage == ASSUME NEW m \in Messages PROVE Append(<<>>, m) \in Seq(Messages) /\ Holds(Append(<<>>, m), m)
  <1>1. <<>> \in Seq(Messages)
    OBVIOUS
  <1>2. PICK r : r = Append(<<>>, m)
    OBVIOUS
  <1>3. r \in Seq(Messages) /\ Len(r) = 1 /\ r[1] = m
    BY <1>1, <1>2
  <1> QED BY <1>2, <1>3 DEF Holds

LEMMA SomeMessages ==
  /\ Hello \in Messages /\ Identity \in Messages /\ Size \in Messages
  /\ \A l \in 0..FileLen : Offset(l) \in Messages /\ Offset(l).data[1] = l
  <1>1. <<>> \in Seq(0..FileLen) /\ \A l \in 0..FileLen : <<l>> \in Seq(0..FileLen) /\ <<l>>[1] = l
    OBVIOUS
  <1>2. FileLen \in 0..FileLen
    BY TransferAssumption
  <1> QED BY <1>1, <1>2 DEF Hello, Identity, Size, Offset, Message, Messages

LEMMA PrefixOf ==
  ASSUME NEW q \in Seq(Messages), NEW n \in 0..Len(q), NEW r, r = SubSeq(q, 1, n)
  PROVE  /\ r \in Seq(Messages)
         /\ q = <<>> => r = <<>>
         /\ \A m : Holds(q, m) => r = <<>> \/ Holds(r, m)
         /\ \A l : Chunks(q, l) => Chunks(r, l)
  <1>1. \A i \in 1..n : q[i] \in Messages
    OBVIOUS
  <1>2. r \in Seq(Messages) /\ Len(r) = (IF 1 <= n THEN n - 1 + 1 ELSE 0) /\ \A i \in 1..(n - 1 + 1) : r[i] = q[1 + i - 1]
    BY <1>1, SubSeqProperties
  <1>3. Len(r) = n /\ \A i \in 1..n : r[i] = q[i]
    BY <1>2
  <1>4. n = 0 => r = <<>>
    BY <1>2, <1>3
  <1>5. q = <<>> => r = <<>>
    BY <1>4
  <1>6. \A m : Holds(q, m) => r = <<>> \/ Holds(r, m)
    BY <1>3, <1>4 DEF Holds
  <1>7. \A l : Chunks(q, l) => Chunks(r, l)
    BY <1>3 DEF Chunks
  <1> QED BY <1>2, <1>5, <1>6, <1>7

(* A step that every client of the connection may see. *)
Advances(conn, new) ==
  /\ ConnOK(new) /\ (new.state = "open" => conn.state = "open")
  /\ \A p, cn : \A l \in Nat : PairOK(p, cn, l, conn) => PairOK(p, cn, l, new)

LEMMA AdvanceKeeps ==
  ASSUME TransferInv, UNCHANGED clientVars, up' \in BOOLEAN, faults' \in 0..MaxFaults,
         NEW k \in Conns, NEW new, conns' = [conns EXCEPT ![k] = new], Advances(conns[k], new)
  PROVE  TransferInv'
  <1>1. \A c \in Clients : sock[c] = k => PairOK(pc[c], connected[c], Len(written[c]), conns[k])
    BY DEF TransferInv, PairsOK, Conns, NoConn
  <1>2. \A c \in Clients : Len(written[c]) \in Nat
    BY DEF TransferInv, Shaped
  <1>3. \A c \in Clients : sock[c] = k => PairOK(pc[c], connected[c], Len(written[c]), new)
    BY <1>1, <1>2 DEF Advances
  <1>4. ConnOK(new) /\ (new.state = "open" => conns[k].state = "open")
    BY DEF Advances
  <1> QED BY <1>3, <1>4, OneConnKeeps

LEMMA AcceptAdvances ==
  ASSUME NEW conn, ConnOK(conn), conn.thread = "queued", NEW new, new = [conn EXCEPT !.thread = "hello"]
  PROVE  Advances(conn, new)
  <1>1. /\ new.state = conn.state /\ new.toClient = conn.toClient /\ new.toServer = conn.toServer
        /\ new.thread = "hello" /\ new.offset = conn.offset /\ new.sent = conn.sent /\ new \in ConnRecords
    BY DEF ConnOK, ConnRecords, Threads
  <1> QED BY <1>1 DEF ConnOK, Advances, PairOK, Coupled

LEMMA SendHelloAdvances ==
  ASSUME NEW conn, ConnOK(conn), conn.thread = "hello", conn.state = "open",
         NEW new, new = [conn EXCEPT !.toClient = Append(@, Hello), !.thread = "identity"]
  PROVE  Advances(conn, new)
  <1>0. PICK q : q = Append(conn.toClient, Hello) /\ q \in Seq(Messages)
    <2>1. conn.toClient \in Seq(Messages) /\ Hello \in Messages
      BY SomeMessages DEF ConnOK, ConnRecords
    <2>2. Append(conn.toClient, Hello) \in Seq(Messages)
      BY <2>1
    <2> QED BY <2>2
  <1>1. /\ new.state = conn.state /\ new.toClient = q /\ new.toServer = conn.toServer
        /\ new.thread = "identity" /\ new.offset = conn.offset /\ new.sent = conn.sent /\ new \in ConnRecords
    <2>1. new = [conn EXCEPT !.toClient = q, !.thread = "identity"]
      BY <1>0
    <2> QED BY <1>0, <2>1 DEF ConnOK, ConnRecords, Threads
  <1>2. ConnOK(new)
    BY <1>1 DEF ConnOK
  <1>3. ASSUME NEW p, NEW cn, NEW l, PairOK(p, cn, l, conn) PROVE PairOK(p, cn, l, new)
    <2>1. p = "hello" /\ conn.toClient = <<>> /\ conn.toServer = <<>>
      BY <1>3 DEF PairOK, Coupled
    <2>2. Holds(new.toClient, Hello)
      BY <1>0, <1>1, <2>1, FirstMessage, SomeMessages
    <2> QED BY <1>1, <2>1, <2>2 DEF PairOK, Coupled, InboxOK
  <1> QED BY <1>1, <1>2, <1>3 DEF Advances

LEMMA RecvIdentityAdvances ==
  ASSUME NEW conn, ConnOK(conn), conn.thread = "identity", conn.toServer # <<>>,
         NEW new, new = [conn EXCEPT !.toServer = Tail(@), !.thread = "size"]
  PROVE  Advances(conn, new)
  <1>1. Tail(conn.toServer) = <<>>
    BY OneMessage DEF ConnOK, ConnRecords
  <1>2. /\ new.state = conn.state /\ new.toClient = conn.toClient /\ new.toServer = <<>>
        /\ new.thread = "size" /\ new.offset = conn.offset /\ new.sent = conn.sent /\ new \in ConnRecords
    <2>1. PICK q : q = <<>> /\ q \in Seq(Messages)
      <3>1. <<>> \in Seq(Messages)
        OBVIOUS
      <3> QED BY <3>1
    <2>2. new = [conn EXCEPT !.toServer = q, !.thread = "size"] /\ conn \in ConnRecords
      BY <1>1, <2>1 DEF ConnOK
    <2> QED BY <2>1, <2>2 DEF ConnRecords, Threads
  <1>3. ConnOK(new)
    BY <1>2 DEF ConnOK
  <1>4. ASSUME NEW p, NEW cn, NEW l, PairOK(p, cn, l, conn) PROVE PairOK(p, cn, l, new)
    BY <1>2, <1>4 DEF PairOK, Coupled
  <1> QED BY <1>2, <1>3, <1>4 DEF Advances

LEMMA SendSizeAdvances ==
  ASSUME NEW conn, ConnOK(conn), conn.thread = "size", conn.state = "open",
         NEW new, new = [conn EXCEPT !.toClient = Append(@, Size), !.thread = "offset"]
  PROVE  Advances(conn, new)
  <1>0. PICK q : q = Append(conn.toClient, Size) /\ q \in Seq(Messages)
    <2>1. conn.toClient \in Seq(Messages) /\ Size \in Messages
      BY SomeMessages DEF ConnOK, ConnRecords
    <2>2. Append(conn.toClient, Size) \in Seq(Messages)
      BY <2>1
    <2> QED BY <2>2
  <1>1. /\ new.state = conn.state /\ new.toClient = q /\ new.toServer = conn.toServer
        /\ new.thread = "offset" /\ new.offset = conn.offset /\ new.sent = conn.sent /\ new \in ConnRecords
    <2>1. new = [conn EXCEPT !.toClient = q, !.thread = "offset"]
      BY <1>0
    <2> QED BY <1>0, <2>1 DEF ConnOK, ConnRecords, Threads
  <1>2. ConnOK(new)
    BY <1>1 DEF ConnOK
  <1>3. ASSUME NEW p, NEW cn, NEW l, PairOK(p, cn, l, conn) PROVE PairOK(p, cn, l, new)
    <2>1. p = "size" /\ conn.toClient = <<>> /\ conn.toServer = <<>>
      BY <1>3 DEF PairOK, Coupled
    <2>2. Holds(new.toClient, Size)
      BY <1>0, <1>1, <2>1, FirstMessage, SomeMessages
    <2> QED BY <1>1, <2>1, <2>2 DEF PairOK, Coupled, InboxOK
  <1> QED BY <1>1, <1>2, <1>3 DEF Advances

LEMMA RecvOffsetAdvances ==
  ASSUME NEW conn, ConnOK(conn), conn.thread = "offset", conn.toServer # <<>>,
         NEW new, new = [conn EXCEPT !.toServer = Tail(@), !.thread = "send",
                                     !.offset = Head(conn.toServer).data[1]]
  PROVE  Advances(conn, new)
  <1>1. PICK l \in 0..FileLen : Holds(conn.toServer, Offset(l))
    BY DEF ConnOK
  <1>2. Tail(conn.toServer) = <<>> /\ Head(conn.toServer).data[1] = l
    BY <1>1, OneMessage, SomeMessages DEF ConnOK, ConnRecords
  <1>3. conn.toServer \in Seq(Messages)
    BY DEF ConnOK, ConnRecords
  <1>4. /\ new.state = conn.state /\ new.toClient = conn.toClient /\ new.toServer = <<>>
        /\ new.thread = "send" /\ new.offset = l /\ new.sent = 0 /\ new \in ConnRecords
    <2>1. PICK q : q = <<>> /\ q \in Seq(Messages)
      <3>1. <<>> \in Seq(Messages)
        OBVIOUS
      <3> QED BY <3>1
    <2>2. new = [conn EXCEPT !.toServer = q, !.thread = "send", !.offset = l] /\ conn \in ConnRecords
      BY <1>2, <2>1 DEF ConnOK
    <2>3. new.sent = conn.sent /\ conn.sent = 0
      BY <2>2 DEF ConnOK, ConnRecords
    <2> QED BY <2>1, <2>2, <2>3 DEF ConnRecords, Threads
  <1>5. ConnOK(new)
    BY <1>4 DEF ConnOK
  <1>6. ASSUME NEW p, NEW cn, NEW m \in Nat, PairOK(p, cn, m, conn) PROVE PairOK(p, cn, m, new)
    <2>1. CASE conn.state = "open"
      <3>1. p = "loop" /\ cn = TRUE /\ conn.toClient = <<>> /\ Holds(conn.toServer, Offset(m))
        BY <1>6, <2>1 DEF PairOK, Coupled
      <3>2. m = l
        <4>1. Offset(m) = Offset(l)
          BY <1>1, <3>1 DEF Holds
        <4>2. <<m>> = <<l>>
          BY <4>1 DEF Offset, Message
        <4> QED BY <4>2
      <3>3. At(m, 0) = m /\ Least(m, FileLen) = m
        BY <3>2, Ats, TransferAssumption DEF Least
      <3>4. Len(new.toClient) = 0 /\ InboxOK(p, cn, m, new.toClient)
        <4>1. new.toClient = <<>>
          BY <1>4, <3>1
        <4> QED BY <4>1, EmptyInbox
      <3>5. new.offset + new.sent = Least(At(m, Len(new.toClient)), FileLen)
        BY <1>4, <3>2, <3>3, <3>4
      <3> QED BY <1>4, <3>1, <3>4, <3>5 DEF PairOK, Coupled
    <2>2. CASE conn.state # "open"
      BY <1>4, <1>6, <2>2 DEF PairOK
    <2> QED BY <2>1, <2>2
  <1> QED BY <1>4, <1>5, <1>6 DEF Advances

LEMMA SendDataAdvances ==
  ASSUME NEW conn, ConnOK(conn), conn.thread = "send", conn.state = "open", conn.offset + conn.sent < FileLen,
         NEW ch, ch = Chunk(conn.offset + conn.sent),
         NEW new, new = [conn EXCEPT !.toClient = Append(@, ch), !.sent = @ + Len(ch.data)]
  PROVE  Advances(conn, new)
  <1>1. PICK a : a = conn.offset + conn.sent
    OBVIOUS
  <1>2. a \in Nat /\ a < FileLen /\ conn \in ConnRecords
    BY <1>1 DEF ConnOK, ConnRecords
  <1>3. ch \in Messages /\ Len(ch.data) = Least(a + BUFFER_SIZE, FileLen) - a
    BY <1>1, <1>2, ChunkIs
  <1>4. PICK n : n = conn.sent + Len(ch.data)
    OBVIOUS
  <1>5. conn.offset + n = Least(a + BUFFER_SIZE, FileLen) /\ n \in 0..FileLen
    <2>1. PICK e : e = Least(a + BUFFER_SIZE, FileLen)
      OBVIOUS
    <2>2. e \in Nat /\ a < e /\ e <= FileLen
      BY <1>2, <2>1, TransferAssumption DEF Least
    <2>3. conn.offset \in Nat /\ conn.sent \in Nat /\ Len(ch.data) = e - a
      BY <1>2, <1>3, <2>1 DEF ConnRecords
    <2>4. PICK x, y, z : x = conn.offset /\ y = conn.sent /\ z = Len(ch.data)
      OBVIOUS
    <2>5. x \in Nat /\ y \in Nat /\ z = e - a /\ a = x + y /\ n = y + z
      BY <1>1, <1>4, <2>3, <2>4
    <2>6. x + n = e /\ n \in 0..FileLen
      BY <1>2, <2>2, <2>5, TransferAssumption
    <2> QED BY <2>1, <2>4, <2>6
  <1>6. /\ new.state = conn.state /\ new.toClient = Append(conn.toClient, ch) /\ new.toServer = conn.toServer
        /\ new.thread = "send" /\ new.offset = conn.offset /\ new.sent = n /\ new \in ConnRecords
    <2>1. PICK q : q = Append(conn.toClient, ch) /\ q \in Seq(Messages)
      <3>1. conn.toClient \in Seq(Messages)
        BY <1>2 DEF ConnRecords
      <3>2. Append(conn.toClient, ch) \in Seq(Messages)
        BY <1>3, <3>1
      <3> QED BY <3>2
    <2>2. new = [conn EXCEPT !.toClient = q, !.sent = n]
      BY <1>4, <2>1
    <2> QED BY <1>2, <1>5, <2>1, <2>2 DEF ConnRecords
  <1>7. ConnOK(new)
    BY <1>6 DEF ConnOK
  <1>8. ASSUME NEW p, NEW cn, NEW l \in Nat, PairOK(p, cn, l, conn) PROVE PairOK(p, cn, l, new)
    <2>1. p = "loop" /\ cn = TRUE /\ conn.toServer = <<>> /\ a = Least(At(l, Len(conn.toClient)), FileLen)
      BY <1>1, <1>8 DEF PairOK, Coupled
    <2>2. Chunks(conn.toClient, l) /\ conn.toClient \in Seq(Messages)
      BY <1>2, <1>8, <2>1 DEF PairOK, InboxOK, ConnRecords
    <2>3. /\ Chunks(new.toClient, l)
          /\ Least(a + BUFFER_SIZE, FileLen) = Least(At(l, Len(new.toClient)), FileLen)
      BY <1>1, <1>2, <1>6, <2>1, <2>2, ChunksAppend
    <2> QED BY <1>5, <1>6, <2>1, <2>3 DEF PairOK, InboxOK, Coupled
  <1> QED BY <1>6, <1>7, <1>8 DEF Advances

LEMMA BreakAdvances ==
  ASSUME NEW conn, ConnOK(conn), NEW n \in 0..Len(conn.toClient), NEW m \in 0..Len(conn.toServer),
         NEW new, new = [conn EXCEPT !.state = "reset", !.toClient = SubSeq(@, 1, n),
                                     !.toServer = SubSeq(@, 1, m)]
  PROVE  Advances(conn, new)
  <1>1. PICK q, r, s, t : /\ s = conn.toClient /\ q = SubSeq(s, 1, n) /\ n \in 0..Len(s)
                          /\ t = conn.toServer /\ r = SubSeq(t, 1, m) /\ m \in 0..Len(t)
    OBVIOUS
  <1>2. conn \in ConnRecords /\ s \in Seq(Messages) /\ t \in Seq(Messages)
    BY <1>1 DEF ConnOK, ConnRecords
  <1>3. /\ q \in Seq(Messages) /\ (s = <<>> => q = <<>>)
        /\ \A x : Holds(s, x) => q = <<>> \/ Holds(q, x)
        /\ \A l : Chunks(s, l) => Chunks(q, l)
    <2>1. s \in Seq(Messages) /\ n \in 0..Len(s) /\ q = SubSeq(s, 1, n)
      BY <1>1, <1>2
    <2> QED BY <2>1, PrefixOf, ZenonT(60)
  <1>4. /\ r \in Seq(Messages) /\ (t = <<>> => r = <<>>)
        /\ \A x : Holds(t, x) => r = <<>> \/ Holds(r, x)
    BY <1>1, <1>2, PrefixOf
  <1>5. /\ new.state = "reset" /\ new.toClient = q /\ new.toServer = r
        /\ new.thread = conn.thread /\ new.offset = conn.offset /\ new.sent = conn.sent /\ new \in ConnRecords
    BY <1>1, <1>2, <1>3, <1>4 DEF ConnRecords
  <1>6. ConnOK(new)
    BY <1>1, <1>4, <1>5 DEF ConnOK
  <1>7. ASSUME NEW p, NEW cn, NEW l, PairOK(p, cn, l, conn) PROVE PairOK(p, cn, l, new)
    BY <1>1, <1>3, <1>5, <1>7 DEF PairOK, InboxOK
  <1> QED BY <1>5, <1>6, <1>7 DEF Advances

LEMMA ThreadKeeps ==
  ASSUME TransferInv, NEW k \in Conns, ThreadStep(k)
  PROVE  TransferInv'
  <1> DEFINE conn == conns[k]
  <1>0. ConnOK(conn) /\ conn \in ConnRecords /\ conns \in [Conns -> ConnRecords]
        /\ up \in BOOLEAN /\ faults \in 0..MaxFaults
    BY DEF TransferInv, ConnsOK, ConnOK, Shaped
  <1>1. CASE Accept(k)
    <2>1. PICK new : new = [conn EXCEPT !.thread = "hello"]
      OBVIOUS
    <2>2. conns' = [conns EXCEPT ![k] = new] /\ conn.thread = "queued" /\ UNCHANGED <<clientVars, up, faults>>
      BY <1>0, <1>1, <2>1 DEF Accept
    <2> QED BY <1>0, <2>1, <2>2, AcceptAdvances, AdvanceKeeps
  <1>2. CASE SendHello(k)
    <2>1. PICK new : new = [conn EXCEPT !.toClient = Append(@, Hello), !.thread = "identity"]
      OBVIOUS
    <2>2. /\ conns' = [conns EXCEPT ![k] = new] /\ conn.thread = "hello" /\ conn.state = "open"
          /\ UNCHANGED <<clientVars, up, faults>>
      BY <1>0, <1>2, <2>1 DEF SendHello, ServerSends, Hello
    <2> QED BY <1>0, <2>1, <2>2, SendHelloAdvances, AdvanceKeeps
  <1>3. CASE RecvIdentity(k)
    <2>1. PICK new : new = [conn EXCEPT !.toServer = Tail(@), !.thread = "size"]
      OBVIOUS
    <2>2. /\ conns' = [conns EXCEPT ![k] = new] /\ conn.thread = "identity" /\ conn.toServer # <<>>
          /\ UNCHANGED <<clientVars, up, faults>>
      BY <1>0, <1>3, <2>1 DEF RecvIdentity
    <2> QED BY <1>0, <2>1, <2>2, RecvIdentityAdvances, AdvanceKeeps
  <1>4. CASE SendSize(k)
    <2>1. PICK new : new = [conn EXCEPT !.toClient = Append(@, Size), !.thread = "offset"]
      OBVIOUS
    <2>2. /\ conns' = [conns EXCEPT ![k] = new] /\ conn.thread = "size" /\ conn.state = "open"
          /\ UNCHANGED <<clientVars, up, faults>>
      BY <1>0, <1>4, <2>1 DEF SendSize, ServerSends, Size
    <2> QED BY <1>0, <2>1, <2>2, SendSizeAdvances, AdvanceKeeps
  <1>5. CASE RecvOffset(k)
    <2>1. PICK new : new = [conn EXCEPT !.toServer = Tail(@), !.thread = "send",
                                        !.offset = Head(conn.toServer).data[1]]
      OBVIOUS
    <2>2. /\ conns' = [conns EXCEPT ![k] = new] /\ conn.thread = "offset" /\ conn.toServer # <<>>
          /\ UNCHANGED <<clientVars, up, faults>>
      BY <1>0, <1>5, <2>1 DEF RecvOffset
    <2> QED BY <1>0, <2>1, <2>2, RecvOffsetAdvances, AdvanceKeeps
  <1>6. CASE SendData(k)
    <2>1. PICK ch : ch = Chunk(conn.offset + conn.sent)
      OBVIOUS
    <2>2. ch = Message("data", NextBytes(k)) /\ ch.data = NextBytes(k)
      BY <2>1 DEF Chunk, NextBytes, Position, Message
    <2>3. PICK new : new = [conn EXCEPT !.toClient = Append(@, ch), !.sent = @ + Len(ch.data)]
      OBVIOUS
    <2>4. /\ conns' = [conns EXCEPT ![k] = new] /\ conn.thread = "send" /\ conn.state = "open"
          /\ conn.offset + conn.sent < FileLen /\ UNCHANGED <<clientVars, up, faults>>
      BY <1>0, <1>6, <2>2, <2>3 DEF SendData, Sending, Position
    <2> QED BY <1>0, <2>1, <2>3, <2>4, SendDataAdvances, AdvanceKeeps
  <1>7. CASE FileSent(k) \/ SendsTooMuch(k) \/ ThreadLoses(k)
    BY <1>0, <1>7, ThreadEndsKeeps DEF FileSent, SendsTooMuch, ThreadLoses
  <1>8. CASE ThreadLosesEarly(k)
    <2>1. CASE ThreadEnds(k) /\ UNCHANGED up
      BY <1>0, <1>8, <2>1, ThreadEndsKeeps DEF ThreadLosesEarly, NegociateFails
    <2>2. CASE ServerEnds
      BY <1>0, <1>8, <2>2, ServerEndsKeeps DEF ThreadLosesEarly, NegociateFails
    <2> QED BY <1>8, <2>1, <2>2 DEF ThreadLosesEarly, NegociateFails
  <1> QED BY <1>1, <1>2, <1>3, <1>4, <1>5, <1>6, <1>7, <1>8 DEF ThreadStep

LEMMA FaultKeeps ==
  ASSUME TransferInv, (\E k \in Conns : IdentityInPieces(k) \/ Break(k)) \/ ServerKilled \/ ServerStarted
  PROVE  TransferInv'
  <1>0. up \in BOOLEAN /\ faults \in 0..MaxFaults /\ conns \in [Conns -> ConnRecords]
        /\ \A k \in Conns : ConnOK(conns[k])
    BY DEF TransferInv, Shaped, ConnsOK
  <1>1. ASSUME Fault PROVE faults' \in 0..MaxFaults
    BY <1>0, <1>1, TransferAssumption DEF Fault
  <1>2. ASSUME NEW k \in Conns, IdentityInPieces(k) PROVE TransferInv'
    <2>1. CASE ThreadEnds(k) /\ UNCHANGED up
      BY <1>0, <1>1, <1>2, <2>1, ThreadEndsKeeps DEF IdentityInPieces, NegociateFails
    <2>2. CASE ServerEnds
      BY <1>0, <1>1, <1>2, <2>2, ServerEndsKeeps DEF IdentityInPieces, NegociateFails
    <2> QED BY <1>2, <2>1, <2>2 DEF IdentityInPieces, NegociateFails
  <1>3. ASSUME NEW k \in Conns, Break(k) PROVE TransferInv'
    <2>1. PICK n \in 0..Len(conns[k].toClient), m \in 0..Len(conns[k].toServer) :
            conns' = [conns EXCEPT ![k].state = "reset",
                                   ![k].toClient = SubSeq(@, 1, n),
                                   ![k].toServer = SubSeq(@, 1, m)]
      BY <1>3 DEF Break
    <2>2. PICK new : new = [conns[k] EXCEPT !.state = "reset", !.toClient = SubSeq(@, 1, n),
                                            !.toServer = SubSeq(@, 1, m)]
      OBVIOUS
    <2>3. conns' = [conns EXCEPT ![k] = new]
      <3>1. conns[k] \in ConnRecords
        BY <1>0
      <3> QED BY <1>0, <2>1, <2>2, <3>1
    <2>4. Advances(conns[k], new)
      BY <1>0, <2>2, BreakAdvances
    <2>5. UNCHANGED <<clientVars, up>> /\ Fault
      BY <1>3 DEF Break
    <2> QED BY <1>0, <1>1, <2>3, <2>4, <2>5, AdvanceKeeps
  <1>4. CASE ServerKilled
    BY <1>1, <1>4, ServerEndsKeeps DEF ServerKilled
  <1>5. CASE ServerStarted
    <2>1. conns' \in [Conns -> ConnRecords] /\ UNCHANGED <<clientVars, conns, faults>> /\ up' \in BOOLEAN
      BY <1>0, <1>5 DEF ServerStarted
    <2>2. \A k \in Conns : \A c \in Clients : sock[c] = k => PairOK(pc[c], connected[c], Len(written[c]), conns[k])
      BY DEF TransferInv, PairsOK, Conns, NoConn
    <2> QED BY <1>0, <2>1, <2>2, ServerKeeps
  <1> QED BY <1>2, <1>3, <1>4, <1>5

-----------------------------------------------------------------------------
(* The steps of a client. *)

OnlyClient(c) ==
  \A d \in Clients : d # c =>
    /\ pc'[d] = pc[d] /\ first'[d] = first[d] /\ connected'[d] = connected[d]
    /\ sock'[d] = sock[d] /\ filelen'[d] = filelen[d] /\ written'[d] = written[d]

LEMMA ClientKeeps ==
  ASSUME TransferInv, NEW c \in Clients, Shaped', OnlyClient(c),
         ClientOK(pc'[c], first'[c], connected'[c], sock'[c], filelen'[c], written'[c]),
         ConnsOK', UNCHANGED <<up, faults>>,
         \A d \in Clients : d # c /\ sock[d] # NoConn => conns'[sock[d]] = conns[sock[d]] /\ sock'[c] # sock[d],
         sock'[c] # NoConn => PairOK(pc'[c], connected'[c], Len(written'[c]), conns'[sock'[c]]),
         \A k \in Conns : conns'[k].state = "open" => sock'[c] = k \/ (conns[k].state = "open" /\ sock[c] # k)
  PROVE  TransferInv'
  <1>1. ClientsOK'
    <2> SUFFICES ASSUME NEW d \in Clients
                 PROVE  ClientOK(pc'[d], first'[d], connected'[d], sock'[d], filelen'[d], written'[d])
      BY DEF ClientsOK
    <2>1. CASE d = c
      BY <2>1
    <2>2. CASE d # c
      BY <2>2 DEF OnlyClient, TransferInv, ClientsOK
    <2> QED BY <2>1, <2>2
  <1>2. PairsOK'
    <2> SUFFICES ASSUME NEW d \in Clients, sock'[d] # NoConn
                 PROVE  PairOK(pc'[d], connected'[d], Len(written'[d]), conns'[sock'[d]])
      BY DEF PairsOK
    <2>1. CASE d = c
      BY <2>1
    <2>2. CASE d # c
      BY <2>2 DEF OnlyClient, TransferInv, PairsOK
    <2> QED BY <2>1, <2>2
  <1>3. Owned'
    <2>1. \A d, e \in Clients : sock'[d] = sock'[e] /\ sock'[d] # NoConn => d = e
      BY DEF OnlyClient, TransferInv, Owned
    <2>2. ASSUME NEW k \in Conns, conns'[k].state = "open" PROVE \E d \in Clients : sock'[d] = k
      <3>1. CASE sock'[c] = k
        BY <3>1
      <3>2. CASE conns[k].state = "open" /\ sock[c] # k
        <4>1. PICK d \in Clients : sock[d] = k
          BY <3>2 DEF TransferInv, Owned
        <4> QED BY <3>2, <4>1 DEF OnlyClient
      <3> QED BY <2>2, <3>1, <3>2
    <2> QED BY <2>1, <2>2 DEF Owned
  <1> QED BY <1>1, <1>2, <1>3 DEF TransferInv

(* The client stays on its connection. *)
LEMMA SameSockKeeps ==
  ASSUME TransferInv, NEW c \in Clients, UNCHANGED <<sock, up, faults>>, sock[c] # NoConn,
         pc' \in [Clients -> Places], first' \in [Clients -> BOOLEAN], connected' \in [Clients -> BOOLEAN],
         filelen' \in [Clients -> 0..FileLen], written' \in [Clients -> Seq(1..FileLen)],
         OnlyClient(c), ClientOK(pc'[c], first'[c], connected'[c], sock[c], filelen'[c], written'[c]),
         NEW new, conns' = [conns EXCEPT ![sock[c]] = new], ConnOK(new),
         new.state = "open" => conns[sock[c]].state = "open",
         PairOK(pc'[c], connected'[c], Len(written'[c]), new)
  PROVE  TransferInv'
  <1>0. sock[c] \in Conns /\ conns \in [Conns -> ConnRecords]
    BY DEF TransferInv, Shaped
  <1>1. \A k \in Conns : conns'[k] = IF k = sock[c] THEN new ELSE conns[k]
    BY <1>0
  <1>2. ConnsOK'
    BY <1>1 DEF TransferInv, ConnsOK
  <1>3. Shaped'
    BY <1>0, <1>2 DEF TransferInv, Shaped, ConnOK
  <1>4. \A d \in Clients : d # c /\ sock[d] # NoConn => conns'[sock[d]] = conns[sock[d]] /\ sock[c] # sock[d]
    BY <1>0, <1>1 DEF TransferInv, Owned, Shaped
  <1>5. conns'[sock[c]] = new
    BY <1>0, <1>1
  <1>6. \A k \in Conns : conns'[k].state = "open" => sock[c] = k \/ (conns[k].state = "open" /\ sock[c] # k)
    BY <1>1
  <1> QED BY <1>2, <1>3, <1>4, <1>5, <1>6, ClientKeeps

LEMMA StopsKeeps ==
  ASSUME TransferInv, NEW c \in Clients, NEW how \in Stopped, Stops(c, how)
  PROVE  TransferInv'
  <1>0. /\ pc' = [pc EXCEPT ![c] = how] /\ sock' = [sock EXCEPT ![c] = NoConn]
        /\ UNCHANGED <<first, connected, filelen, written, up, faults>>
        /\ conns' = IF sock[c] = NoConn THEN conns ELSE [conns EXCEPT ![sock[c]] = ClientEndClosed(@)]
    BY DEF Stops
  <1>1. /\ conns \in [Conns -> ConnRecords] /\ sock \in [Clients -> Conns \cup {NoConn}]
        /\ \A k \in Conns : ConnOK(conns[k])
    BY DEF TransferInv, Shaped, ConnsOK
  <1>2. ASSUME NEW k \in Conns
        PROVE  /\ ConnOK(conns'[k]) /\ (k # sock[c] => conns'[k] = conns[k])
               /\ (k = sock[c] => conns'[k].state # "open")
    <2>1. CASE k # sock[c]
      BY <1>0, <1>1, <2>1
    <2>2. CASE k = sock[c]
      <3>1. sock[c] # NoConn
        BY <2>2 DEF Conns, NoConn
      <3>2. conns'[k] = ClientEndClosed(conns[k])
        BY <1>0, <1>1, <2>2, <3>1
      <3> QED BY <1>1, <2>2, <3>2, ClientCloses
    <2> QED BY <2>1, <2>2
  <1>3. ConnsOK' /\ conns' \in [Conns -> ConnRecords]
    <2>1. ConnsOK'
      BY <1>2 DEF ConnsOK
    <2>2. conns' = [k \in Conns |-> conns'[k]]
      BY <1>0, <1>1
    <2> QED BY <1>2, <2>1, <2>2 DEF ConnOK
  <1>4. Shaped'
    BY <1>0, <1>1, <1>3 DEF TransferInv, Shaped, Places
  <1>5. sock'[c] = NoConn /\ OnlyClient(c) /\ pc'[c] = how
    BY <1>0, <1>1 DEF OnlyClient, TransferInv, Shaped
  <1>6. ClientOK(pc'[c], first'[c], connected'[c], sock'[c], filelen'[c], written'[c])
    <2>1. ClientOK(pc[c], first[c], connected[c], sock[c], filelen[c], written[c])
      BY DEF TransferInv, ClientsOK
    <2> QED BY <1>0, <1>5, <2>1 DEF ClientOK, Places, Stopped
  <1>7. \A d \in Clients : d # c /\ sock[d] # NoConn => conns'[sock[d]] = conns[sock[d]] /\ sock'[c] # sock[d]
    BY <1>1, <1>2, <1>5 DEF TransferInv, Owned
  <1>8. \A k \in Conns : conns'[k].state = "open" => sock'[c] = k \/ (conns[k].state = "open" /\ sock[c] # k)
    BY <1>2
  <1> QED BY <1>0, <1>3, <1>4, <1>5, <1>6, <1>7, <1>8, ClientKeeps

(* What is known of a client that is on a connection. *)
OnConn(c) ==
  /\ ClientOK(pc[c], first[c], connected[c], sock[c], filelen[c], written[c])
  /\ sock[c] \in Conns /\ sock[c] # NoConn
  /\ ConnOK(conns[sock[c]]) /\ conns[sock[c]] \in ConnRecords
  /\ conns[sock[c]].toClient \in Seq(Messages) /\ conns[sock[c]].toServer \in Seq(Messages)
  /\ PairOK(pc[c], connected[c], Len(written[c]), conns[sock[c]])

LEMMA IsOnConn ==
  ASSUME TransferInv, NEW c \in Clients, pc[c] \in {"hello", "identity", "size", "offset", "loop"}
  PROVE  OnConn(c)
  <1>1. ClientOK(pc[c], first[c], connected[c], sock[c], filelen[c], written[c])
    BY DEF TransferInv, ClientsOK
  <1>2. sock[c] \in Conns /\ sock[c] # NoConn
    BY <1>1 DEF ClientOK, Stopped
  <1>3. ConnOK(conns[sock[c]]) /\ PairOK(pc[c], connected[c], Len(written[c]), conns[sock[c]])
    BY <1>2 DEF TransferInv, ConnsOK, PairsOK
  <1> QED BY <1>1, <1>2, <1>3 DEF OnConn, ConnOK, ConnRecords

(* A message is taken, or one is sent. *)
LEMMA Takes ==
  ASSUME NEW conn, ConnOK(conn), conn.toClient # <<>>, NEW new, new = [conn EXCEPT !.toClient = Tail(@)]
  PROVE  /\ ConnOK(new) /\ new.state = conn.state /\ new.toClient = Tail(conn.toClient)
         /\ new.toServer = conn.toServer /\ new.thread = conn.thread
         /\ new.offset = conn.offset /\ new.sent = conn.sent
  <1>1. PICK q : q = Tail(conn.toClient)
    OBVIOUS
  <1>2. conn \in ConnRecords /\ conn.toClient \in Seq(Messages)
    BY DEF ConnOK, ConnRecords
  <1>3. q \in Seq(Messages)
    BY <1>1, <1>2
  <1>4. new = [conn EXCEPT !.toClient = q]
    BY <1>1
  <1>5. /\ new \in ConnRecords /\ new.state = conn.state /\ new.toClient = q
        /\ new.toServer = conn.toServer /\ new.thread = conn.thread
        /\ new.offset = conn.offset /\ new.sent = conn.sent
    BY <1>2, <1>3, <1>4 DEF ConnRecords
  <1> QED BY <1>1, <1>5 DEF ConnOK

Awaits(conn, m) ==
  /\ conn.toServer = <<>> /\ m \in Messages
  /\ \/ conn.thread = "identity" /\ m = Identity
     \/ conn.thread = "offset" /\ \E l \in 0..FileLen : m = Offset(l)

IsPut(conn, m, new) == new = [conn EXCEPT !.toServer = Append(@, m)]
LEMMA Puts ==
  ASSUME NEW conn, ConnOK(conn), NEW m, Awaits(conn, m), NEW new, IsPut(conn, m, new)
  PROVE  /\ ConnOK(new) /\ new.state = conn.state /\ new.toClient = conn.toClient
         /\ Holds(new.toServer, m) /\ new.thread = conn.thread
         /\ new.offset = conn.offset /\ new.sent = conn.sent
  <1>1. PICK q : q = Append(<<>>, m) /\ q \in Seq(Messages) /\ Holds(q, m)
    BY FirstMessage DEF Awaits
  <1>2. new = [conn EXCEPT !.toServer = q] /\ conn \in ConnRecords
    BY <1>1 DEF ConnOK, Awaits, IsPut
  <1>3. /\ new \in ConnRecords /\ new.state = conn.state /\ new.toClient = conn.toClient
        /\ new.toServer = q /\ new.thread = conn.thread
        /\ new.offset = conn.offset /\ new.sent = conn.sent
    BY <1>1, <1>2 DEF ConnRecords
  <1> QED BY <1>1, <1>3 DEF ConnOK, Awaits

LEMMA RecvHelloKeeps == ASSUME TransferInv, NEW c \in Clients, RecvHello(c) PROVE TransferInv'
  <1> DEFINE conn == conns[sock[c]]
  <1>0. OnConn(c) /\ pc[c] = "hello" /\ conn.toClient # <<>>
    BY IsOnConn DEF RecvHello, Arrived
  <1>1. PICK new : new = [conn EXCEPT !.toClient = Tail(@)]
    OBVIOUS
  <1>2. /\ conns' = [conns EXCEPT ![sock[c]] = new] /\ pc' = [pc EXCEPT ![c] = "identity"]
        /\ UNCHANGED <<first, connected, sock, filelen, written, up, faults>>
    BY <1>1 DEF RecvHello, TakeMessage
  <1>3. Holds(conn.toClient, Hello) /\ Tail(conn.toClient) = <<>>
    <2>1. Holds(conn.toClient, Hello)
      BY <1>0 DEF OnConn, PairOK, InboxOK
    <2> QED BY <1>0, <2>1, OneMessage DEF OnConn
  <1>4. /\ ConnOK(new) /\ new.state = conn.state /\ new.toClient = <<>>
        /\ new.toServer = conn.toServer /\ new.thread = conn.thread
    BY <1>0, <1>1, <1>3, Takes DEF OnConn
  <1>5. PairOK("identity", connected[c], Len(written[c]), new)
    BY <1>0, <1>4, EmptyInbox DEF OnConn, PairOK, Coupled
  <1>6. ClientOK("identity", first[c], connected[c], sock[c], filelen[c], written[c])
    BY <1>0 DEF OnConn, ClientOK, Places, Stopped
  <1>7. pc'[c] = "identity" /\ OnlyClient(c) /\ pc' \in [Clients -> Places]
    BY <1>2 DEF TransferInv, Shaped, OnlyClient, Places
  <1> QED BY <1>0, <1>2, <1>4, <1>5, <1>6, <1>7, SameSockKeeps DEF OnConn, TransferInv, Shaped

LEMMA SendIdentityKeeps == ASSUME TransferInv, NEW c \in Clients, SendIdentity(c) PROVE TransferInv'
  <1> DEFINE conn == conns[sock[c]]
  <1>0. OnConn(c) /\ pc[c] = "identity"
    BY IsOnConn DEF SendIdentity
  <1>1. PICK new : new = IF conn.state = "open" THEN [conn EXCEPT !.toServer = Append(@, Identity)] ELSE conn
    OBVIOUS
  <1>2. conns' = [conns EXCEPT ![sock[c]] = new]
    BY <1>0, <1>1 DEF SendIdentity, ClientSends, Identity, TransferInv, Shaped
  <1>3. /\ pc' = [pc EXCEPT ![c] = "size"] /\ connected' = [connected EXCEPT ![c] = TRUE]
        /\ UNCHANGED <<first, sock, filelen, written, up, faults>>
    BY DEF SendIdentity
  <1>4. conn.toClient = <<>>
    BY <1>0 DEF OnConn, PairOK, InboxOK
  <1>5. ConnOK(new) /\ new.state = conn.state /\ PairOK("size", TRUE, Len(written[c]), new)
    <2>1. CASE conn.state = "open"
      <3>1. conn.thread = "identity" /\ conn.toServer = <<>>
        BY <1>0, <2>1 DEF OnConn, PairOK, Coupled
      <3>2. /\ ConnOK(new) /\ new.state = conn.state /\ new.toClient = conn.toClient
            /\ Holds(new.toServer, Identity) /\ new.thread = conn.thread
        <4>0. PICK m : m = Identity
          OBVIOUS
        <4>1. Awaits(conn, m)
          BY <3>1, <4>0, SomeMessages DEF Awaits
        <4>2. ConnOK(conn) /\ IsPut(conn, m, new)
          BY <1>0, <1>1, <2>1, <4>0 DEF OnConn, IsPut
        <4>3. /\ ConnOK(new) /\ new.state = conn.state /\ new.toClient = conn.toClient
              /\ Holds(new.toServer, m) /\ new.thread = conn.thread
          BY <4>1, <4>2, Puts
        <4> QED BY <4>0, <4>3
      <3> QED BY <1>4, <3>1, <3>2, EmptyInbox DEF PairOK, Coupled
    <2>2. CASE conn.state # "open"
      BY <1>0, <1>1, <1>4, <2>2, EmptyInbox DEF OnConn, PairOK
    <2> QED BY <2>1, <2>2
  <1>6. ClientOK("size", first[c], TRUE, sock[c], filelen[c], written[c])
    BY <1>0 DEF OnConn, ClientOK, Places, Stopped
  <1>7. pc'[c] = "size" /\ connected'[c] = TRUE /\ OnlyClient(c)
        /\ pc' \in [Clients -> Places] /\ connected' \in [Clients -> BOOLEAN]
    BY <1>3 DEF TransferInv, Shaped, OnlyClient, Places
  <1> QED BY <1>0, <1>2, <1>3, <1>5, <1>6, <1>7, SameSockKeeps DEF OnConn, TransferInv, Shaped

LEMMA RecvSizeKeeps == ASSUME TransferInv, NEW c \in Clients, RecvSize(c) PROVE TransferInv'
  <1> DEFINE conn == conns[sock[c]]
  <1>0. OnConn(c) /\ pc[c] = "size" /\ conn.toClient # <<>>
    BY IsOnConn DEF RecvSize, Arrived
  <1>1. PICK new : new = [conn EXCEPT !.toClient = Tail(@)]
    OBVIOUS
  <1>3. Head(conn.toClient) = Size /\ Tail(conn.toClient) = <<>>
    <2>1. Holds(conn.toClient, Size)
      BY <1>0 DEF OnConn, PairOK, InboxOK
    <2> QED BY <1>0, <2>1, OneMessage DEF OnConn
  <1>2. /\ conns' = [conns EXCEPT ![sock[c]] = new] /\ pc' = [pc EXCEPT ![c] = "offset"]
        /\ filelen' = [filelen EXCEPT ![c] = FileLen]
        /\ UNCHANGED <<first, connected, sock, written, up, faults>>
    <2>1. NextMessage(c).data[1] = FileLen
      BY <1>3 DEF NextMessage, Size, Message
    <2> QED BY <1>1, <2>1 DEF RecvSize, TakeMessage
  <1>4. /\ ConnOK(new) /\ new.state = conn.state /\ new.toClient = <<>>
        /\ new.toServer = conn.toServer /\ new.thread = conn.thread
    BY <1>0, <1>1, <1>3, Takes DEF OnConn
  <1>5. PairOK("offset", connected[c], Len(written[c]), new)
    <2>1. conn.state = "open" => conn.thread = "offset" /\ conn.toServer = <<>>
      BY <1>0 DEF OnConn, PairOK, Coupled
    <2> QED BY <1>4, <2>1, EmptyInbox DEF PairOK, Coupled
  <1>6. ClientOK("offset", first[c], connected[c], sock[c], FileLen, written[c])
    BY <1>0, TransferAssumption DEF OnConn, ClientOK, Places, Stopped
  <1>7. pc'[c] = "offset" /\ filelen'[c] = FileLen /\ OnlyClient(c)
        /\ pc' \in [Clients -> Places] /\ filelen' \in [Clients -> 0..FileLen]
    BY <1>2, TransferAssumption DEF TransferInv, Shaped, OnlyClient, Places
  <1> QED BY <1>0, <1>2, <1>4, <1>5, <1>6, <1>7, SameSockKeeps DEF OnConn, TransferInv, Shaped

LEMMA SendOffsetKeeps == ASSUME TransferInv, NEW c \in Clients, SendOffset(c) PROVE TransferInv'
  <1> DEFINE conn == conns[sock[c]]
  <1>0. OnConn(c) /\ pc[c] = "offset"
    BY IsOnConn DEF SendOffset
  <1>l. PICK l : l = Len(written[c]) /\ l \in 0..FileLen
    BY <1>0 DEF OnConn, ClientOK
  <1>1. PICK new : new = IF conn.state = "open" THEN [conn EXCEPT !.toServer = Append(@, Offset(l))] ELSE conn
    OBVIOUS
  <1>2. conns' = [conns EXCEPT ![sock[c]] = new]
    BY <1>0, <1>l, <1>1 DEF SendOffset, ClientSends, Offset, TransferInv, Shaped
  <1>3. /\ pc' = [pc EXCEPT ![c] = "loop"] /\ first' = [first EXCEPT ![c] = FALSE]
        /\ UNCHANGED <<connected, sock, filelen, written, up, faults>>
    BY DEF SendOffset
  <1>4. conn.toClient = <<>> /\ connected[c] = TRUE
    BY <1>0 DEF OnConn, PairOK, InboxOK, ClientOK
  <1>5. ConnOK(new) /\ new.state = conn.state /\ PairOK("loop", TRUE, l, new)
    <2>1. CASE conn.state = "open"
      <3>1. conn.thread = "offset" /\ conn.toServer = <<>>
        BY <1>0, <2>1 DEF OnConn, PairOK, Coupled
      <3>2. /\ ConnOK(new) /\ new.state = conn.state /\ new.toClient = conn.toClient
            /\ Holds(new.toServer, Offset(l)) /\ new.thread = conn.thread
        <4>0. PICK m : m = Offset(l)
          OBVIOUS
        <4>1. Awaits(conn, m)
          BY <1>l, <3>1, <4>0, SomeMessages DEF Awaits
        <4>2. ConnOK(conn) /\ IsPut(conn, m, new)
          BY <1>0, <1>1, <2>1, <4>0 DEF OnConn, IsPut
        <4>3. /\ ConnOK(new) /\ new.state = conn.state /\ new.toClient = conn.toClient
              /\ Holds(new.toServer, m) /\ new.thread = conn.thread
          BY <4>1, <4>2, Puts
        <4> QED BY <4>0, <4>3
      <3> QED BY <1>4, <3>1, <3>2, EmptyInbox DEF PairOK, Coupled
    <2>2. CASE conn.state # "open"
      BY <1>0, <1>1, <1>4, <2>2, EmptyInbox DEF OnConn, PairOK
    <2> QED BY <2>1, <2>2
  <1>6. ClientOK("loop", FALSE, connected[c], sock[c], filelen[c], written[c])
    BY <1>0 DEF OnConn, ClientOK, Places, Stopped
  <1>7. pc'[c] = "loop" /\ first'[c] = FALSE /\ OnlyClient(c)
        /\ pc' \in [Clients -> Places] /\ first' \in [Clients -> BOOLEAN]
    BY <1>3 DEF TransferInv, Shaped, OnlyClient, Places
  <1> QED BY <1>0, <1>l, <1>2, <1>3, <1>4, <1>5, <1>6, <1>7, SameSockKeeps DEF OnConn, TransferInv, Shaped

LEMMA RecvDataKeeps ==
  ASSUME TransferInv, NEW c \in Clients, RecvData(c)
  PROVE  /\ TransferInv'
         /\ Len(written'[c]) > Len(written[c]) /\ written' = [written EXCEPT ![c] = written'[c]]
  <1> DEFINE conn == conns[sock[c]]
             w == written[c]
  <1>0. OnConn(c) /\ pc[c] = "loop" /\ conn.toClient # <<>> /\ connected[c] = TRUE
    <2>1. pc[c] = "loop" /\ conn.toClient # <<>> /\ connected[c]
      BY DEF RecvData, InLoop, Arrived
    <2>2. OnConn(c)
      BY <2>1, IsOnConn
    <2> QED BY <2>1, <2>2 DEF OnConn, ClientOK
  <1>1. PICK new : new = [conn EXCEPT !.toClient = Tail(@)]
    OBVIOUS
  <1>2. /\ conns' = [conns EXCEPT ![sock[c]] = new]
        /\ written' = [written EXCEPT ![c] = w \o Head(conn.toClient).data]
        /\ UNCHANGED <<pc, first, connected, sock, filelen, up, faults>>
    BY <1>1 DEF RecvData, TakeMessage, NextMessage
  <1>3. /\ Len(w) \in Nat /\ Chunks(conn.toClient, Len(w)) /\ conn.toClient \in Seq(Messages)
        /\ w \in Seq(1..FileLen) /\ Len(w) <= FileLen /\ \A i \in 1..Len(w) : w[i] = i
    BY <1>0 DEF OnConn, PairOK, InboxOK, ClientOK
  <1>4. PICK m : m = Least(Len(w) + BUFFER_SIZE, FileLen)
    OBVIOUS
  <1>5. /\ Head(conn.toClient) = Chunk(Len(w)) /\ Len(w) < FileLen /\ Chunks(Tail(conn.toClient), m)
        /\ Least(At(Len(w), Len(conn.toClient)), FileLen) = Least(At(m, Len(Tail(conn.toClient))), FileLen)
    BY <1>0, <1>3, <1>4, ChunksTail
  <1>6. PICK u : u = w \o Chunk(Len(w)).data
    OBVIOUS
  <1>7. /\ u \in Seq(1..FileLen) /\ Len(u) = m /\ Len(u) > Len(w)
        /\ Len(u) <= FileLen /\ \A i \in 1..Len(u) : u[i] = i
    BY <1>3, <1>4, <1>5, <1>6, GrowsByChunk
  <1>8. written' = [written EXCEPT ![c] = u] /\ written'[c] = u
        /\ OnlyClient(c) /\ written' \in [Clients -> Seq(1..FileLen)]
    BY <1>2, <1>5, <1>6, <1>7 DEF TransferInv, Shaped, OnlyClient
  <1>9. /\ ConnOK(new) /\ new.state = conn.state /\ new.toClient = Tail(conn.toClient)
        /\ new.toServer = conn.toServer /\ new.thread = conn.thread
        /\ new.offset = conn.offset /\ new.sent = conn.sent
    BY <1>0, <1>1, Takes DEF OnConn
  <1>10. PairOK("loop", TRUE, m, new)
    <2>1. InboxOK("loop", TRUE, m, new.toClient)
      BY <1>5, <1>9 DEF InboxOK
    <2>2. ASSUME conn.state = "open" PROVE Coupled("loop", TRUE, m, new)
      BY <1>0, <1>5, <1>9, <2>2 DEF OnConn, PairOK, Coupled
    <2> QED BY <1>9, <2>1, <2>2 DEF PairOK
  <1>11. ClientOK(pc[c], first[c], connected[c], sock[c], filelen[c], u)
    BY <1>0, <1>7 DEF OnConn, ClientOK
  <1>12. TransferInv'
    <2>1. PairOK(pc'[c], connected'[c], Len(written'[c]), new)
      BY <1>0, <1>2, <1>7, <1>8, <1>10
    <2> QED BY <1>0, <1>2, <1>8, <1>9, <1>11, <2>1, SameSockKeeps DEF OnConn, TransferInv, Shaped
  <1> QED BY <1>7, <1>8, <1>12

LEMMA DataLostKeeps == ASSUME TransferInv, NEW c \in Clients, DataLost(c) PROVE TransferInv'
  <1> DEFINE conn == conns[sock[c]]
  <1>0. OnConn(c) /\ pc[c] = "loop" /\ conn.toClient = <<>> /\ conn.state # "open"
    BY IsOnConn DEF DataLost, InLoop, LostConn, Arrived
  <1>1. /\ connected' = [connected EXCEPT ![c] = FALSE]
        /\ UNCHANGED <<pc, first, sock, filelen, written, conns, up, faults>>
    BY DEF DataLost
  <1>2. PICK new : new = conn
    OBVIOUS
  <1>3. conns' = [conns EXCEPT ![sock[c]] = new]
    BY <1>0, <1>1, <1>2 DEF TransferInv, Shaped
  <1>4. PairOK("loop", FALSE, Len(written[c]), new) /\ ConnOK(new)
    BY <1>0, <1>2, EmptyInbox DEF PairOK, OnConn
  <1>5. ClientOK("loop", first[c], FALSE, sock[c], filelen[c], written[c])
    BY <1>0 DEF OnConn, ClientOK
  <1>6. connected'[c] = FALSE /\ OnlyClient(c) /\ connected' \in [Clients -> BOOLEAN]
    BY <1>1 DEF TransferInv, Shaped, OnlyClient
  <1> QED BY <1>0, <1>1, <1>2, <1>3, <1>4, <1>5, <1>6, SameSockKeeps DEF OnConn, TransferInv, Shaped

(* An exception: before the loop the client stops, in it it goes on. *)
LEMMA ThrowsKeeps ==
  ASSUME TransferInv, NEW c \in Clients, NEW stop \in {"ended", "aborted"}, Throws(c, stop),
         OnConn(c), conns[sock[c]].toClient = <<>>, conns[sock[c]].state # "open"
  PROVE  TransferInv'
  <1> DEFINE conn == conns[sock[c]]
  <1>1. CASE first[c]
    BY <1>1, StopsKeeps DEF Throws, Stopped
  <1>2. CASE ~first[c]
    <2>1. /\ pc' = [pc EXCEPT ![c] = "loop"]
          /\ UNCHANGED <<first, connected, sock, filelen, written, conns, up, faults>>
      BY <1>2 DEF Throws
    <2>2. first[c] = FALSE
      BY <1>2 DEF OnConn, ClientOK
    <2>3. PICK new : new = conn
      OBVIOUS
    <2>4. conns' = [conns EXCEPT ![sock[c]] = new]
      BY <2>1, <2>3 DEF TransferInv, Shaped, OnConn
    <2>5. PairOK("loop", connected[c], Len(written[c]), new) /\ ConnOK(new)
      BY <2>3, EmptyInbox DEF PairOK, OnConn
    <2>6. ClientOK("loop", first[c], connected[c], sock[c], filelen[c], written[c])
      BY <2>2 DEF OnConn, ClientOK, Places, Stopped
    <2>7. pc'[c] = "loop" /\ OnlyClient(c) /\ pc' \in [Clients -> Places]
      BY <2>1 DEF TransferInv, Shaped, OnlyClient, Places
    <2> QED BY <2>1, <2>3, <2>4, <2>5, <2>6, <2>7, SameSockKeeps DEF OnConn, TransferInv, Shaped
  <1> QED BY <1>1, <1>2

LEMMA ExchangeFailsKeeps == ASSUME TransferInv, NEW c \in Clients, ExchangeFails(c) PROVE TransferInv'
  <1>1. PICK stop \in {"ended", "aborted"} :
          /\ Throws(c, stop) /\ pc[c] \in {"hello", "identity", "size", "offset"}
          /\ pc[c] \in {"hello", "size"} => LostConn(c)
          /\ pc[c] \in {"identity", "offset"} => SendRefused(c)
    BY DEF ExchangeFails
  <1>2. OnConn(c)
    BY <1>1, IsOnConn
  <1>3. conns[sock[c]].toClient = <<>> /\ conns[sock[c]].state # "open"
    <2>1. CASE LostConn(c)
      BY <2>1 DEF LostConn, Arrived
    <2>2. CASE SendRefused(c) /\ pc[c] \in {"identity", "offset"}
      BY <1>2, <2>2 DEF SendRefused, OnConn, PairOK, InboxOK
    <2> QED BY <1>1, <2>1, <2>2
  <1> QED BY <1>1, <1>2, <1>3, ThrowsKeeps

LEMMA ConnectFailsKeeps == ASSUME TransferInv, NEW c \in Clients, ConnectFails(c) PROVE TransferInv'
  <1>1. Throws(c, "ended") /\ pc[c] \in {"start", "loop"}
    BY DEF ConnectFails, WantsConnection
  <1>2. CASE first[c]
    BY <1>1, <1>2, StopsKeeps DEF Throws, Stopped
  <1>3. CASE ~first[c]
    <2>1. ClientOK(pc[c], first[c], connected[c], sock[c], filelen[c], written[c])
      BY DEF TransferInv, ClientsOK
    <2>2. pc[c] = "loop"
      BY <1>1, <1>3, <2>1 DEF ClientOK
    <2>3. UNCHANGED vars
      BY <1>1, <1>3, <2>2 DEF Throws, vars, clientVars, TransferInv, Shaped
    <2> QED BY <2>3 DEF vars, clientVars, TransferInv, Shaped, ClientsOK, ConnsOK, PairsOK, Owned
  <1> QED BY <1>2, <1>3

LEMMA ConnectKeeps == ASSUME TransferInv, NEW c \in Clients, Connect(c) PROVE TransferInv'
  <1>1. PICK k \in Conns :
          /\ Free(k) /\ sock' = [sock EXCEPT ![c] = k] /\ conns' = [conns EXCEPT ![k] = Fresh]
    BY DEF Connect
  <1>2. /\ pc' = [pc EXCEPT ![c] = "hello"] /\ WantsConnection(c)
        /\ UNCHANGED <<first, connected, filelen, written, up, faults>>
    BY DEF Connect
  <1>3. /\ conns \in [Conns -> ConnRecords] /\ sock \in [Clients -> Conns \cup {NoConn}]
        /\ \A j \in Conns : conns'[j] = IF j = k THEN Fresh ELSE conns[j]
    BY <1>1 DEF TransferInv, Shaped
  <1>4. ClientOK(pc[c], first[c], connected[c], sock[c], filelen[c], written[c])
    BY DEF TransferInv, ClientsOK
  <1>5. connected[c] = FALSE /\ pc[c] \in {"start", "loop"}
    BY <1>2, <1>4 DEF WantsConnection, ClientOK
  <1>6. k # NoConn
    BY DEF Conns, NoConn
  <1>7. ConnsOK' /\ conns' \in [Conns -> ConnRecords]
    <2>1. ConnsOK'
      BY <1>3, FreshOK DEF TransferInv, ConnsOK
    <2>2. conns' \in [Conns -> ConnRecords]
      BY <1>1, <1>3, FreshOK DEF ConnOK
    <2> QED BY <2>1, <2>2
  <1>8. Shaped'
    BY <1>1, <1>2, <1>3, <1>7 DEF TransferInv, Shaped, Places
  <1>9. sock'[c] = k /\ pc'[c] = "hello" /\ OnlyClient(c)
    BY <1>1, <1>2, <1>3 DEF TransferInv, Shaped, OnlyClient
  <1>10. ClientOK(pc'[c], first'[c], connected'[c], sock'[c], filelen'[c], written'[c])
    BY <1>2, <1>4, <1>5, <1>6, <1>9 DEF ClientOK, Places, Stopped
  <1>11. PairOK(pc'[c], connected'[c], Len(written'[c]), conns'[sock'[c]])
    BY <1>3, <1>9, FreshOK
  <1>12. \A d \in Clients : d # c /\ sock[d] # NoConn => conns'[sock[d]] = conns[sock[d]] /\ sock'[c] # sock[d]
    BY <1>1, <1>3, <1>9 DEF Free
  <1>13. \A j \in Conns : conns'[j].state = "open" => sock'[c] = j \/ (conns[j].state = "open" /\ sock[c] # j)
    <2> SUFFICES ASSUME NEW j \in Conns, conns'[j].state = "open", j # k, sock[c] = j PROVE FALSE
      BY <1>3, <1>9
    <2>1. sock[c] # NoConn
      BY DEF Conns, NoConn
    <2>2. pc[c] = "loop"
      BY <1>4, <1>5, <2>1 DEF ClientOK
    <2>3. PairOK(pc[c], connected[c], Len(written[c]), conns[j]) /\ conns[j].state = "open"
      BY <1>3, <2>1 DEF TransferInv, PairsOK
    <2> QED BY <1>5, <2>2, <2>3 DEF PairOK, Coupled
  <1> QED BY <1>2, <1>7, <1>8, <1>9, <1>10, <1>11, <1>12, <1>13, ClientKeeps

LEMMA ClientStepKeeps == ASSUME TransferInv, NEW c \in Clients, ClientStep(c) PROVE TransferInv'
  <1>1. CASE SendKilled(c) \/ LoopEnds(c)
    BY <1>1, StopsKeeps DEF SendKilled, LoopEnds, Stopped
  <1> QED BY <1>1, ConnectKeeps, ConnectFailsKeeps, RecvHelloKeeps, SendIdentityKeeps, RecvSizeKeeps,
             SendOffsetKeeps, ExchangeFailsKeeps, RecvDataKeeps, DataLostKeeps DEF ClientStep

LEMMA StepTransfer == TransferInv /\ [Next]_vars => TransferInv'
  <1> SUFFICES ASSUME TransferInv, [Next]_vars PROVE TransferInv'
    OBVIOUS
  <1>1. CASE Next
    BY <1>1, ClientStepKeeps, ThreadKeeps, FaultKeeps DEF Next
  <1>2. CASE UNCHANGED vars
    BY <1>2 DEF vars, clientVars, TransferInv, Shaped, ClientsOK, ConnsOK, PairsOK, Owned
  <1> QED BY <1>1, <1>2

LEMMA TransferHolds == Spec => []TransferInv
  BY InitTransfer, StepTransfer, PTL DEF Spec

-----------------------------------------------------------------------------
(* TypesRight: every variable keeps its type; a connection never carries   *)
(* more than the file, and a client never learns another length.           *)
THEOREM TypesRight == Spec => []TypeOK
  <1>1. TransferInv => TypeOK
    <2> SUFFICES ASSUME TransferInv PROVE TypeOK
      OBVIOUS
    <2>1. Shaped /\ up \in BOOLEAN /\ faults \in 0..MaxFaults
      BY DEF TransferInv
    <2> QED BY <2>1 DEF Shaped, TypeOK, Places, ConnRecords, Threads
  <1> QED BY <1>1, TransferHolds, PTL

(* MessagesAreWhole: a client reads the message it asks for and asks for   *)
(* as many bytes as the message has, after any number of reconnections, so *)
(* recv never keeps the end of a message, nor joins two                    *)
(* (SVCCommunication.cpp, recv; Client/main.cpp, the loop).                *)
THEOREM MessagesAreWhole == Spec => []MessagesFit
  <1>1. TransferInv => MessagesFit
    <2> SUFFICES ASSUME TransferInv, NEW c \in Clients, sock[c] # NoConn, Arrived(c)
                 PROVE  /\ NextMessage(c).kind \in Expected(c)
                        /\ pc[c] = "loop" => Len(NextMessage(c).data) = Request(c)
      BY DEF MessagesFit
    <2>1. ClientOK(pc[c], first[c], connected[c], sock[c], filelen[c], written[c])
      BY DEF TransferInv, ClientsOK
    <2>2. pc[c] \in {"hello", "identity", "size", "offset", "loop"}
      BY <2>1 DEF ClientOK, Places
    <2>3. OnConn(c)
      BY <2>2, IsOnConn
    <2>4. PICK q : q = conns[sock[c]].toClient /\ q \in Seq(Messages) /\ q # <<>>
                   /\ NextMessage(c) = Head(q) /\ InboxOK(pc[c], connected[c], Len(written[c]), q)
      BY <2>3 DEF OnConn, PairOK, Arrived, NextMessage
    <2>5. pc[c] \notin {"identity", "offset"}
      BY <2>4 DEF InboxOK
    <2>6. CASE pc[c] = "hello"
      <3>1. Head(q) = Hello
        BY <2>4, <2>6, OneMessage DEF InboxOK
      <3> QED BY <2>4, <2>6, <3>1 DEF Expected, Hello, Message
    <2>7. CASE pc[c] = "size"
      <3>1. Head(q) = Size
        BY <2>4, <2>7, OneMessage DEF InboxOK
      <3> QED BY <2>4, <2>7, <3>1 DEF Expected, Size, Message
    <2>8. CASE pc[c] = "loop"
      <3>1. connected[c] = TRUE /\ filelen[c] = FileLen
        BY <2>1, <2>4, <2>8 DEF InboxOK, ClientOK
      <3>2. PICK l : l = Len(written[c]) /\ l \in Nat
        BY <2>1 DEF ClientOK
      <3>3. Head(q) = Chunk(l) /\ l < FileLen
        <4>1. Chunks(q, l)
          BY <2>4, <2>8, <3>1, <3>2 DEF InboxOK
        <4>2. PICK m : m = Least(l + BUFFER_SIZE, FileLen)
          OBVIOUS
        <4> QED BY <2>4, <3>2, <4>1, <4>2, ChunksTail
      <3>4. Chunk(l).kind = "data" /\ Len(Chunk(l).data) = Least(l + BUFFER_SIZE, FileLen) - l
        BY <3>2, <3>3, ChunkIs
      <3>5. NextMessage(c).kind \in Expected(c)
        BY <2>4, <2>8, <3>1, <3>3, <3>4 DEF Expected
      <3>6. Len(NextMessage(c).data) = Request(c)
        <4>1. Request(c) = IF l + BUFFER_SIZE > FileLen THEN FileLen - l ELSE BUFFER_SIZE
          BY <3>1, <3>2 DEF Request
        <4>2. Request(c) = Least(l + BUFFER_SIZE, FileLen) - l
          <5>1. CASE l + BUFFER_SIZE > FileLen
            <6>1. Request(c) = FileLen - l
              BY <4>1, <5>1
            <6>2. Least(l + BUFFER_SIZE, FileLen) = FileLen
              BY <3>2, <5>1, TransferAssumption DEF Least
            <6> QED BY <6>1, <6>2
          <5>2. CASE l + BUFFER_SIZE <= FileLen
            <6>1. Request(c) = BUFFER_SIZE
              BY <3>2, <4>1, <5>2, TransferAssumption
            <6>2. Least(l + BUFFER_SIZE, FileLen) = l + BUFFER_SIZE
              BY <5>2 DEF Least
            <6> QED BY <3>2, <6>1, <6>2, TransferAssumption
          <5> QED BY <3>2, <5>1, <5>2, TransferAssumption
        <4> QED BY <2>4, <3>3, <3>4, <4>2
      <3> QED BY <3>5, <3>6
    <2> QED BY <2>2, <2>5, <2>6, <2>7, <2>8
  <1> QED BY <1>1, TransferHolds, PTL

(* ThreadsInStep: a thread that sends has its client in step, after any    *)
(* number of reconnections: the messages under way are the buffers that    *)
(* follow what the client wrote, and the thread reads on where the last of *)
(* them ends (Server/main.cpp, handleclient).                              *)
THEOREM ThreadsInStep == Spec => []InStep
  <1>1. TransferInv => InStep
    <2> SUFFICES ASSUME TransferInv, NEW c \in Clients, sock[c] # NoConn,
                        conns[sock[c]].thread = "send", conns[sock[c]].state = "open"
                 PROVE  LET q == conns[sock[c]].toClient
                            l == Len(written[c])
                        IN  /\ written[c] = SubSeq(File, 1, l)
                            /\ \A n \in DOMAIN q : q[n] = Message("data", Bytes(l + (n - 1) * BUFFER_SIZE))
                            /\ Position(sock[c]) = Least(l + Len(q) * BUFFER_SIZE, FileLen)
      BY DEF InStep
    <2>1. ClientOK(pc[c], first[c], connected[c], sock[c], filelen[c], written[c])
      BY DEF TransferInv, ClientsOK
    <2>2. PairOK(pc[c], connected[c], Len(written[c]), conns[sock[c]])
      BY DEF TransferInv, PairsOK
    <2>3. /\ pc[c] = "loop" /\ connected[c] = TRUE
          /\ conns[sock[c]].offset + conns[sock[c]].sent
               = Least(At(Len(written[c]), Len(conns[sock[c]].toClient)), FileLen)
      BY <2>2 DEF PairOK, Coupled
    <2>4. Chunks(conns[sock[c]].toClient, Len(written[c]))
      BY <2>2, <2>3 DEF PairOK, InboxOK
    <2>5. written[c] = SubSeq(File, 1, Len(written[c]))
      BY <2>1, CopyIs DEF ClientOK
    <2>6. DOMAIN conns[sock[c]].toClient = 1..Len(conns[sock[c]].toClient)
      <3>1. conns[sock[c]] \in ConnRecords
        BY <2>1 DEF TransferInv, Shaped, ClientOK
      <3>2. conns[sock[c]].toClient \in Seq(Messages)
        BY <3>1 DEF ConnRecords
      <3> QED BY <3>2
    <2> QED BY <2>3, <2>4, <2>5, <2>6 DEF Chunks, Chunk, At, Position
  <1> QED BY <1>1, TransferHolds, PTL

-----------------------------------------------------------------------------
(* The transfer is a copy: every step is one of FileCopy, or none.         *)

LEMMA FirstCopy == Init => Copy!Start
  BY DEF Init, Copy!Start

Done == {c \in Clients : pc[c] = "done"}
SameCopies == written' = written /\ Done' = Done

LEMMA StopCopies ==
  ASSUME TransferInv, NEW c \in Clients, pc[c] \notin Stopped, NEW how, Stops(c, how)
  PROVE  written' = written /\ Done' = IF how = "done" THEN Done \cup {c} ELSE Done
  BY DEF Stops, Done, TransferInv, Shaped, Stopped

LEMMA PassCopies ==
  ASSUME TransferInv, NEW c \in Clients, pc[c] \notin Stopped,
         NEW p, p \notin Stopped, pc' = [pc EXCEPT ![c] = p], written' = written
  PROVE  SameCopies
  BY DEF SameCopies, Done, TransferInv, Shaped, Stopped

LEMMA ThrowCopies ==
  ASSUME TransferInv, NEW c \in Clients, pc[c] \notin Stopped,
         NEW stop \in {"ended", "aborted"}, Throws(c, stop)
  PROVE  SameCopies
  <1>1. CASE first[c]
    BY <1>1, StopCopies DEF Throws, SameCopies
  <1>2. CASE ~first[c]
    <2>1. pc' = [pc EXCEPT ![c] = "loop"] /\ written' = written
      BY <1>2 DEF Throws
    <2> QED BY <2>1, PassCopies DEF Stopped
  <1> QED BY <1>1, <1>2

LEMMA StepCopies ==
  ASSUME TransferInv, NEW c \in Clients, ClientStep(c)
  PROVE  Copy!Grow(c) \/ Copy!Complete(c) \/ SameCopies
  <1>0. ClientOK(pc[c], first[c], connected[c], sock[c], filelen[c], written[c])
    BY DEF TransferInv, ClientsOK
  <1>1. CASE Connect(c)
    BY <1>1, PassCopies DEF Connect, WantsConnection, Stopped
  <1>2. CASE ConnectFails(c)
    BY <1>2, ThrowCopies DEF ConnectFails, WantsConnection, Stopped
  <1>3. CASE RecvHello(c)
    BY <1>3, PassCopies DEF RecvHello, Stopped
  <1>4. CASE SendIdentity(c)
    BY <1>4, PassCopies DEF SendIdentity, Stopped
  <1>5. CASE RecvSize(c)
    BY <1>5, PassCopies DEF RecvSize, Stopped
  <1>6. CASE SendOffset(c)
    BY <1>6, PassCopies DEF SendOffset, Stopped
  <1>7. CASE SendKilled(c)
    BY <1>7, StopCopies DEF SendKilled, SameCopies, Stopped
  <1>8. CASE ExchangeFails(c)
    <2>1. PICK stop \in {"ended", "aborted"} : Throws(c, stop) /\ pc[c] \in {"hello", "identity", "size", "offset"}
      BY <1>8 DEF ExchangeFails
    <2> QED BY <2>1, ThrowCopies DEF Stopped
  <1>9. CASE DataLost(c)
    BY <1>9 DEF DataLost, SameCopies, Done
  <1>10. CASE LoopEnds(c)
    <2>1. pc[c] = "loop" /\ Len(written[c]) >= filelen[c] /\ Stops(c, "done")
      BY <1>10 DEF LoopEnds
    <2>2. written' = written /\ Done' = Done \cup {c}
      BY <2>1, StopCopies DEF Stopped
    <2>3. Len(written[c]) = FileLen
      BY <1>0, <2>1, TransferAssumption DEF ClientOK
    <2>4. written[c] = File
      BY <1>0, <2>3, CopyIs DEF ClientOK
    <2> QED BY <2>2, <2>4 DEF Copy!Complete, Done
  <1>11. CASE RecvData(c)
    <2>1. TransferInv' /\ Len(written'[c]) > Len(written[c]) /\ written' = [written EXCEPT ![c] = written'[c]]
      BY <1>11, RecvDataKeeps
    <2>2. PICK u : u = written'[c] /\ Len(u) \in (Len(written[c]) + 1)..Len(File) /\ u = SubSeq(File, 1, Len(u))
      <3>1. ClientOK(pc[c], first[c], connected[c], sock[c], filelen[c], written[c])'
        BY <2>1 DEF TransferInv, ClientsOK
      <3>2. PICK u : u = written'[c] /\ u \in Seq(1..FileLen) /\ Len(u) <= FileLen /\ \A i \in 1..Len(u) : u[i] = i
        BY <3>1 DEF ClientOK
      <3>3. u = SubSeq(File, 1, Len(u))
        BY <3>2, CopyIs
      <3>4. Len(File) = FileLen /\ Len(written[c]) \in Nat /\ Len(u) \in Nat
        BY <1>0, <3>2, TransferAssumption DEF File, ClientOK
      <3> QED BY <2>1, <3>2, <3>3, <3>4, TransferAssumption
    <2>3. pc[c] = "loop" /\ pc' = pc
      BY <1>11 DEF RecvData, InLoop
    <2>4. Done' = Done /\ c \notin Done
      BY <2>3 DEF Done
    <2>5. written' = [written EXCEPT ![c] = SubSeq(File, 1, Len(u))]
      BY <2>1, <2>2
    <2> QED BY <2>2, <2>4, <2>5 DEF Copy!Grow, Done
  <1> QED BY <1>1, <1>2, <1>3, <1>4, <1>5, <1>6, <1>7, <1>8, <1>9, <1>10, <1>11 DEF ClientStep

(* TransferCopies: whatever breaks, and however often a client reconnects, *)
(* its file grows by the bytes that follow, and it reports an end only     *)
(* when the file is whole (Client/main.cpp, the loop).                     *)
THEOREM TransferCopies == Spec => CopiesFile
  <1>1. TransferInv /\ [Next]_vars =>
          [\E c \in Clients : Copy!Grow(c) \/ Copy!Complete(c)]_<<written, {c \in Clients : pc[c] = "done"}>>
    <2> SUFFICES ASSUME TransferInv, [Next]_vars
                 PROVE  (\E c \in Clients : Copy!Grow(c) \/ Copy!Complete(c)) \/ SameCopies
      BY DEF SameCopies, Done
    <2>1. CASE \E c \in Clients : ClientStep(c)
      BY <2>1, StepCopies
    <2>2. CASE UNCHANGED clientVars
      BY <2>2 DEF clientVars, SameCopies, Done
    <2>3. ASSUME NEW k \in Conns, ThreadStep(k) \/ IdentityInPieces(k) \/ Break(k)
          PROVE  UNCHANGED clientVars
      BY <2>3 DEF ThreadStep, Accept, SendHello, RecvIdentity, SendSize, RecvOffset, SendData, FileSent,
                  SendsTooMuch, ThreadLoses, ThreadLosesEarly, ServerSends, NegociateFails, IdentityInPieces, Break
    <2>4. ASSUME ServerKilled \/ ServerStarted \/ UNCHANGED vars PROVE UNCHANGED clientVars
      BY <2>4 DEF ServerKilled, ServerStarted, vars
    <2> QED BY <2>1, <2>2, <2>3, <2>4 DEF Next
  <1> QED BY <1>1, FirstCopy, TransferHolds, PTL DEF Spec, CopiesFile, Copy!Copying
=============================================================================
