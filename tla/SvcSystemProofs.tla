--------------------------- MODULE SvcSystemProofs ---------------------------
(***************************************************************************)
(* The handshake, for any hosts, calls and network: what its frames and    *)
(* calls consist of, and what two applications that end up connected agree *)
(* on.                                                                     *)
(***************************************************************************)
EXTENDS SvcSystem, SequenceTheorems, FiniteSetTheorems, TLAPS

(* A frame as the application hands it to its daemon and as a daemon sends *)
(* it: the daemon takes the address off a STEP1.                           *)
Proper(f) ==
  /\ f.cmd = "STEP2" => Len(f.args) = 2 /\ f.args[1] \in Challenges /\ f.args[2] \in Challenges
  /\ f.cmd = "STEP4" => Len(f.args) = 1 /\ f.args[1] \in Challenges
Handed ==
  {f \in Frames : /\ Proper(f)
                  /\ f.cmd = "STEP1" => /\ Len(f.args) = 2 /\ f.args[1] \in Challenges
                                        /\ f.args[2] \in Hosts \cup {NoAddress}}
Sent ==
  {f \in Frames : /\ Proper(f)
                  /\ f.cmd = "STEP1" => Len(f.args) = 1 /\ f.args[1] \in Challenges}
Requests(frames) == {f \in frames : f.cmd = "STEP1"}

(* The i-th entry of a host. *)
Entries == ClientEntries \cup ServerEntries
CallEntry(h, i, e) ==
  e.role = "client" =>
    /\ ClientOf[e.attempt] = h /\ IdOf[e.attempt] = e.id /\ e.peer \in Addresses(e.attempt)
    /\ e.challengeSent = ClientChallenge(h, i)
    /\ e.phase = "got2" => Len(e.params) = 2 /\ e.params[2] \in Challenges
    /\ e.phase \in {"exchanged", "wait3", "got3", "connected"} => e.challengeReceived \in Challenges
ListenEntry(h, i, e) ==
  e.role = "server" =>
    /\ e.phase = "listening" => e.id = NoId
    /\ e.phase # "listening" => /\ e.id \in Ids /\ e.challengeReceived \in Challenges
                                /\ e.challengeSent = ServerChallenge(h, i)

(* An attempt has one entry. *)
Servers(h) == {i \in DOMAIN endPoints[h] : endPoints[h][i].role = "server"}
Calls ==
  /\ endPoints \in [Hosts -> Seq(Entries)]
  /\ \A h \in Hosts : \A i \in DOMAIN endPoints[h] :
       CallEntry(h, i, endPoints[h][i]) /\ ListenEntry(h, i, endPoints[h][i])
  /\ \A h \in Hosts : \A i, j \in DOMAIN endPoints[h] :
       /\ endPoints[h][i].role = "client" /\ endPoints[h][j].role = "client"
       /\ endPoints[h][i].attempt = endPoints[h][j].attempt
       => i = j
  /\ \A h \in Hosts : Cardinality(Servers(h)) <= MaxListens

(* Calls of listenConnection follow one another, and the first connected   *)
(* entry of an ID takes every frame with it.                               *)
Turns ==
  \A h \in Hosts : \A i, j \in Servers(h) : i < j =>
    /\ endPoints[h][i].phase \in {"connected", "freed"}
    /\ endPoints[h][i].phase = "connected" /\ endPoints[h][i].id = endPoints[h][j].id
         => endPoints[h][j].phase \notin {"got4", "connected"}

AppPlaces ==
  /\ toDaemon \in [Hosts -> Seq(Handed)]
  /\ toApp \in [Hosts -> Seq(Sent)]
  /\ connectionRequest \in [Hosts -> Seq(Requests(Sent))]
  /\ crashed \subseteq Hosts

(* A refused address stays at its place in "params" and refuses the rest;  *)
(* an endpoint without a service sends nothing.                            *)
Opened ==
  {x \in [id : Ids, service : Nat, incomingQueue : Seq(Sent), outgoingQueue : Seq(Handed),
          inQueue : Seq(Sent), outQueue : Seq(Sent)] :
     x.service = Untabled => x.outgoingQueue = << >> /\ x.outQueue = << >>}
DaemonPlaces ==
  /\ IsABag(net) /\ BagToSet(net) \subseteq [from : Hosts, to : Hosts, frame : Sent]
  /\ duplicates \in 0..MaxDuplicates
  /\ unixRequest \in [Hosts -> Seq(Requests(Handed))]
  /\ htpRequest \in [Hosts -> Seq(Requests(Sent))]
  /\ unixParams \in [Hosts -> Params]
  /\ \A h \in Hosts : unixParams[h] # << >> =>
       Len(unixParams[h]) >= 2 /\ unixParams[h][2] = NoAddress
  /\ serviceTable \in [Hosts -> Seq(Hosts)]
  /\ daemonEndPoints \in [Hosts -> Seq(Opened)]
  /\ \A h \in Hosts : \A i \in DOMAIN daemonEndPoints[h] :
       daemonEndPoints[h][i].service \in {Untabled} \cup DOMAIN serviceTable[h]

TypeInv == Calls /\ Turns /\ AppPlaces /\ DaemonPlaces
-----------------------------------------------------------------------------
LEMMA Names ==
  /\ Commands = {"STEP1", "STEP2", "STEP3", "STEP4"}
  /\ ClientPhases = {"requested", "wait2", "got2", "exchanged", "wait3", "got3"}
  /\ ServerPhases = {"listening", "answered", "wait4", "got4"}
  BY DEF Commands, ClientPhases, ServerPhases

LEMMA InitTypes == Init => TypeInv
  <1> SUFFICES ASSUME Init PROVE TypeInv
    OBVIOUS
  <1>1. Calls /\ Turns
    <2>1. \A h \in Hosts : endPoints[h] = << >> /\ DOMAIN endPoints[h] = {}
      BY DEF Init, AppInit
    <2>2. endPoints \in [Hosts -> Seq(Entries)]
      BY DEF Init, AppInit
    <2>3. \A h \in Hosts : Servers(h) = {}
      BY <2>1 DEF Servers
    <2>4. \A h \in Hosts : Cardinality(Servers(h)) <= MaxListens
      <3>1. Cardinality({}) = 0
        BY FS_EmptySet
      <3> QED BY <2>3, <3>1, AppAssumption
    <2> QED BY <2>1, <2>2, <2>3, <2>4 DEF Calls, Turns
  <1>2. AppPlaces
    BY DEF Init, AppInit, SocketsInit, AppPlaces
  <1>3. DaemonPlaces
    <2>1. IsABag(net) /\ BagToSet(net) = {}
      BY DEF Init, SocketsInit, EmptyBag, SetToBag, IsABag, BagToSet
    <2>2. /\ serviceTable \in [Hosts -> Seq(Hosts)]
          /\ \A h \in Hosts : DOMAIN daemonEndPoints[h] = {}
      BY DaemonAssumption DEF Init, DaemonInit
    <2>3. /\ daemonEndPoints \in [Hosts -> Seq(Opened)]
          /\ unixRequest \in [Hosts -> Seq(Requests(Handed))]
          /\ htpRequest \in [Hosts -> Seq(Requests(Sent))]
          /\ unixParams \in [Hosts -> Params] /\ \A h \in Hosts : unixParams[h] = << >>
      BY DEF Init, DaemonInit, Params
    <2>4. duplicates \in 0..MaxDuplicates
      BY SocketsAssumption DEF Init, SocketsInit
    <2> QED BY <2>1, <2>2, <2>3, <2>4 DEF DaemonPlaces
  <1> QED BY <1>1, <1>2, <1>3 DEF TypeInv
-----------------------------------------------------------------------------
(* A host has no more entries than its calls.                              *)
Made(h) ==
  {endPoints[h][i].attempt : i \in {j \in DOMAIN endPoints[h] : endPoints[h][j].role = "client"}}

LEMMA Entered ==
  ASSUME Calls, NEW h \in Hosts
  PROVE  /\ endPoints[h] \in Seq(Entries) /\ Len(endPoints[h]) \in Nat
         /\ DOMAIN endPoints[h] = 1..Len(endPoints[h])
         /\ \A i \in DOMAIN endPoints[h] : endPoints[h][i] \in Entries
  BY DEF Calls

LEMMA Room ==
  ASSUME Calls, NEW h \in Hosts
  PROVE  /\ IsFiniteSet(Servers(h)) /\ Cardinality(Servers(h)) \in Nat
         /\ Cardinality(Made(h)) \in Nat
         /\ Made(h) \subseteq Attempts
         /\ Len(endPoints[h]) <= Cardinality(Made(h)) + Cardinality(Servers(h))
  <1> DEFINE C == {j \in DOMAIN endPoints[h] : endPoints[h][j].role = "client"}
             f == [j \in C |-> endPoints[h][j].attempt]
  <1>1. \A i \in DOMAIN endPoints[h] : endPoints[h][i] \in Entries
    BY Entered
  <1>2. DOMAIN endPoints[h] = C \cup Servers(h)
    BY <1>1 DEF Servers, Entries, ClientEntries, ServerEntries
  <1>3. \A j \in C : endPoints[h][j].attempt \in Attempts
    BY <1>1 DEF Entries, ClientEntries, ServerEntries
  <1>4. Made(h) \subseteq Attempts /\ \A j \in C : f[j] \in Made(h)
    BY <1>3 DEF Made
  <1>5. IsFiniteSet(Made(h)) /\ Cardinality(Made(h)) \in Nat
    BY <1>4, SystemAssumption, FS_Subset, FS_CardinalityType
  <1>6. Len(endPoints[h]) \in Nat /\ DOMAIN endPoints[h] = 1..Len(endPoints[h])
    BY Entered
  <1>7. IsFiniteSet(1..Len(endPoints[h])) /\ Cardinality(1..Len(endPoints[h])) = Len(endPoints[h])
    BY <1>6, FS_Interval
  <1>8. IsFiniteSet(C) /\ Cardinality(C) \in Nat
    <2>1. C \in SUBSET (1..Len(endPoints[h]))
      BY <1>6
    <2> HIDE DEF C
    <2> QED BY <2>1, <1>7, FS_Subset, FS_CardinalityType
  <1>9. Cardinality(C) <= Cardinality(Made(h))
    <2>1. f \in [C -> Made(h)]
      BY <1>4
    <2>2. \A i, j \in C : f[i] = f[j] => i = j
      BY DEF Calls
    <2> HIDE DEF C, f
    <2>3. ~(Cardinality(Made(h)) < Cardinality(C))
      BY <2>1, <2>2, <1>5, <1>8, FS_PigeonHole
    <2> QED BY <2>3, <1>5, <1>8
  <1>10. IsFiniteSet(Servers(h)) /\ Cardinality(Servers(h)) \in Nat
    <2>1. Servers(h) \in SUBSET (1..Len(endPoints[h]))
      BY <1>6 DEF Servers
    <2> QED BY <2>1, <1>7, FS_Subset, FS_CardinalityType
  <1>11. Len(endPoints[h]) <= Cardinality(C) + Cardinality(Servers(h))
    <2> HIDE DEF C
    <2>1. /\ IsFiniteSet(C \cap Servers(h)) /\ Cardinality(C \cap Servers(h)) \in Nat
      <3>1. C \cap Servers(h) \in SUBSET C
        OBVIOUS
      <3> QED BY <3>1, <1>8, FS_Subset, FS_CardinalityType
    <2>2. Cardinality(C \cup Servers(h)) =
            Cardinality(C) + Cardinality(Servers(h)) - Cardinality(C \cap Servers(h))
      BY <1>8, <1>10, FS_Union
    <2>3. Cardinality(C \cup Servers(h)) = Len(endPoints[h])
      BY <1>2, <1>6, <1>7
    <2> QED BY <1>6, <1>8, <1>10, <2>1, <2>2, <2>3
  <1> QED BY <1>4, <1>5, <1>6, <1>8, <1>9, <1>10, <1>11

LEMMA Slotted ==
  ASSUME Calls, NEW h \in Hosts
  PROVE  DOMAIN endPoints[h] \subseteq Slots
  <1>1. Cardinality(Made(h)) <= Cardinality(Attempts) /\ Cardinality(Attempts) \in Nat
    BY Room, SystemAssumption, FS_Subset, FS_CardinalityType
  <1>2. Cardinality(Servers(h)) <= MaxListens
    BY DEF Calls
  <1>3. Len(endPoints[h]) <= Cardinality(Attempts) + MaxListens
    BY <1>1, <1>2, Room, Entered, AppAssumption
  <1> QED BY <1>1, <1>3, Entered, AppAssumption DEF Slots

LEMMA ChallengesMade ==
  \A h \in Hosts, n \in Slots : ClientChallenge(h, n) \in Challenges /\ ServerChallenge(h, n) \in Challenges
  BY DEF Challenges

-----------------------------------------------------------------------------
(* A call adds an entry or changes one. *)
LEMMA EntryAdded ==
  ASSUME Calls, NEW h \in Hosts, NEW e \in Entries, NEW n, n = Len(endPoints[h]) + 1,
         endPoints' = [endPoints EXCEPT ![h] = Append(@, e)]
  PROVE  /\ endPoints' \in [Hosts -> Seq(Entries)]
         /\ \A g \in Hosts : g # h => endPoints'[g] = endPoints[g]
         /\ n \in Nat /\ n \notin DOMAIN endPoints[h]
         /\ DOMAIN endPoints'[h] = DOMAIN endPoints[h] \cup {n}
         /\ \A i \in DOMAIN endPoints[h] : i < n /\ endPoints'[h][i] = endPoints[h][i]
         /\ endPoints'[h][n] = e
  <1>1. endPoints'[h] = Append(endPoints[h], e)
    BY DEF Calls
  <1>2. endPoints[h] \in Seq(Entries) /\ Len(endPoints[h]) \in Nat
    BY Entered
  <1>3. /\ Append(endPoints[h], e) \in Seq(Entries)
        /\ Len(Append(endPoints[h], e)) = Len(endPoints[h]) + 1
        /\ \A i \in 1..Len(endPoints[h]) : Append(endPoints[h], e)[i] = endPoints[h][i]
        /\ Append(endPoints[h], e)[Len(endPoints[h]) + 1] = e
    BY <1>2, AppendProperties
  <1>4. DOMAIN endPoints'[h] = 1..n /\ DOMAIN endPoints[h] = 1..Len(endPoints[h])
    BY <1>1, <1>2, <1>3
  <1>5. endPoints' \in [Hosts -> Seq(Entries)] /\ \A g \in Hosts : g # h => endPoints'[g] = endPoints[g]
    BY <1>3 DEF Calls
  <1> QED BY <1>1, <1>2, <1>3, <1>4, <1>5

LEMMA EntryChanged ==
  ASSUME Calls, NEW h \in Hosts, NEW i \in DOMAIN endPoints[h], NEW e \in Entries,
         endPoints' = [endPoints EXCEPT ![h] = [@ EXCEPT ![i] = e]]
  PROVE  /\ endPoints' \in [Hosts -> Seq(Entries)]
         /\ \A g \in Hosts : DOMAIN endPoints'[g] = DOMAIN endPoints[g]
         /\ \A g \in Hosts : \A j \in DOMAIN endPoints[g] :
              endPoints'[g][j] = IF g = h /\ j = i THEN e ELSE endPoints[g][j]
  <1>1. [endPoints[h] EXCEPT ![i] = e] \in Seq(Entries)
    BY Entered, ExceptSeq
  <1> QED BY <1>1 DEF Calls

LEMMA CallsAdded ==
  ASSUME Calls, NEW h \in Hosts, NEW e \in Entries, NEW n, n = Len(endPoints[h]) + 1,
         endPoints' = [endPoints EXCEPT ![h] = Append(@, e)],
         CallEntry(h, n, e), ListenEntry(h, n, e),
         e.role = "client" => e.attempt \notin Made(h),
         e.role = "server" => Cardinality(Servers(h)) < MaxListens
  PROVE  Calls'
  <1>1. \A g \in Hosts : g # h => Servers(g)' = Servers(g)
    BY EntryAdded DEF Servers
  <1>2. Servers(h)' = IF e.role = "server" THEN Servers(h) \cup {n} ELSE Servers(h)
    <2>0. /\ n \notin DOMAIN endPoints[h] /\ endPoints'[h][n] = e
          /\ DOMAIN endPoints'[h] = DOMAIN endPoints[h] \cup {n}
          /\ \A i \in DOMAIN endPoints[h] : endPoints'[h][i] = endPoints[h][i]
      BY EntryAdded
    <2>1. \A i : i \in Servers(h)' <=> i \in Servers(h) \/ (i = n /\ e.role = "server")
      BY <2>0 DEF Servers
    <2> QED BY <2>1
  <1>3. Cardinality(Servers(h)') <= MaxListens
    <2>1. CASE e.role = "server"
      <3>1. Cardinality(Servers(h) \cup {n}) = Cardinality(Servers(h)) + 1
        <4>1. n \notin Servers(h)
          BY EntryAdded DEF Servers
        <4> QED BY <4>1, Room, FS_AddElement
      <3> QED BY <1>2, <2>1, <3>1, Room, AppAssumption
    <2>2. CASE e.role # "server"
      BY <1>2, <2>2 DEF Calls
    <2> QED BY <2>1, <2>2
  <1>4. \A g \in Hosts : (Cardinality(Servers(g)) <= MaxListens)'
    BY <1>1, <1>3 DEF Calls
  <1>5. \A g \in Hosts : \A i \in DOMAIN endPoints'[g] :
          CallEntry(g, i, endPoints'[g][i]) /\ ListenEntry(g, i, endPoints'[g][i])
    BY EntryAdded DEF Calls
  <1>6. \A g \in Hosts : \A i, j \in DOMAIN endPoints'[g] :
          /\ endPoints'[g][i].role = "client" /\ endPoints'[g][j].role = "client"
          /\ endPoints'[g][i].attempt = endPoints'[g][j].attempt
          => i = j
    BY EntryAdded DEF Calls, Made
  <1> QED BY <1>4, <1>5, <1>6, EntryAdded DEF Calls

LEMMA CallsChanged ==
  ASSUME Calls, NEW h \in Hosts, NEW i \in DOMAIN endPoints[h], NEW e \in Entries,
         endPoints' = [endPoints EXCEPT ![h] = [@ EXCEPT ![i] = e]],
         CallEntry(h, i, e), ListenEntry(h, i, e),
         e.role = endPoints[h][i].role,
         e.role = "client" => e.attempt = endPoints[h][i].attempt
  PROVE  Calls' /\ \A g \in Hosts : Servers(g)' = Servers(g)
  <1>1. \A g \in Hosts : Servers(g)' = Servers(g)
    BY EntryChanged DEF Servers
  <1>2. \A g \in Hosts : (Cardinality(Servers(g)) <= MaxListens)'
    BY <1>1 DEF Calls
  <1>3. \A g \in Hosts : \A j \in DOMAIN endPoints'[g] :
          CallEntry(g, j, endPoints'[g][j]) /\ ListenEntry(g, j, endPoints'[g][j])
    BY EntryChanged DEF Calls
  <1>4. \A g \in Hosts : \A j, k \in DOMAIN endPoints'[g] :
          /\ endPoints'[g][j].role = "client" /\ endPoints'[g][k].role = "client"
          /\ endPoints'[g][j].attempt = endPoints'[g][k].attempt
          => j = k
    BY EntryChanged DEF Calls
  <1> QED BY <1>1, <1>2, <1>3, <1>4, EntryChanged DEF Calls

(* A client's entry is in nobody's turn; a server's keeps its turn unless  *)
(* it becomes the next to be woken or connected.                           *)
LEMMA TurnsChanged ==
  ASSUME Calls, Turns, NEW h \in Hosts, NEW i \in DOMAIN endPoints[h], NEW e \in Entries,
         endPoints' = [endPoints EXCEPT ![h] = [@ EXCEPT ![i] = e]],
         \A g \in Hosts : Servers(g)' = Servers(g),
         endPoints[h][i].role = "server" =>
           /\ endPoints[h][i].phase # "freed"
           /\ endPoints[h][i].phase = "connected" => e.phase = "connected" /\ e.id = endPoints[h][i].id
           /\ e.phase \in {"got4", "connected"} =>
                \A j \in Servers(h) : j < i /\ endPoints[h][j].phase = "connected" =>
                                        endPoints[h][j].id # e.id
  PROVE  Turns'
  <1> SUFFICES ASSUME NEW g \in Hosts, NEW j \in Servers(g), NEW k \in Servers(g), j < k
               PROVE  /\ endPoints'[g][j].phase \in {"connected", "freed"}
                      /\ endPoints'[g][j].phase = "connected" /\ endPoints'[g][j].id = endPoints'[g][k].id
                           => endPoints'[g][k].phase \notin {"got4", "connected"}
    BY DEF Turns
  <1>1. /\ endPoints[g][j].phase \in {"connected", "freed"}
        /\ endPoints[g][j].phase = "connected" /\ endPoints[g][j].id = endPoints[g][k].id
             => endPoints[g][k].phase \notin {"got4", "connected"}
    BY DEF Turns
  <1>2. j \in DOMAIN endPoints[g] /\ k \in DOMAIN endPoints[g] /\ j # k
        /\ endPoints[g][j].role = "server" /\ endPoints[g][k].role = "server"
    BY Entered DEF Servers
  <1>3. CASE g = h /\ j = i
    BY <1>1, <1>2, <1>3, EntryChanged
  <1>4. CASE g = h /\ k = i
    BY <1>1, <1>2, <1>4, EntryChanged
  <1>5. CASE ~(g = h /\ j = i) /\ ~(g = h /\ k = i)
    BY <1>1, <1>2, <1>5, EntryChanged
  <1> QED BY <1>3, <1>4, <1>5

-----------------------------------------------------------------------------
(* The steps of the calls. *)
LEMMA Roles ==
  ASSUME NEW x \in Entries
  PROVE  /\ x.role = "client" => x \in ClientEntries
         /\ x.role = "server" => x \in ServerEntries
         /\ x.role \in {"client", "server"}
         /\ x.phase \in ClientPhases => x.role = "client"
         /\ x.phase \in ServerPhases => x.role = "server"
  BY Names DEF Entries, ClientEntries, ServerEntries

LEMMA EntryStep ==
  ASSUME Calls, Turns, NEW h \in Hosts, NEW i \in DOMAIN endPoints[h], NEW e \in Entries,
         endPoints' = [endPoints EXCEPT ![h] = [@ EXCEPT ![i] = e]],
         CallEntry(h, i, e), ListenEntry(h, i, e),
         e.role = endPoints[h][i].role,
         e.role = "client" => e.attempt = endPoints[h][i].attempt,
         endPoints[h][i].role = "server" =>
           /\ endPoints[h][i].phase # "freed"
           /\ endPoints[h][i].phase = "connected" => e.phase = "connected" /\ e.id = endPoints[h][i].id
           /\ e.phase \in {"got4", "connected"} =>
                \A j \in Servers(h) : j < i /\ endPoints[h][j].phase = "connected" =>
                                        endPoints[h][j].id # e.id
  PROVE  Calls' /\ Turns'
  BY CallsChanged, TurnsChanged

(* The phase of a call, from the waits to the return. *)
LEMMA PhaseStep ==
  ASSUME Calls, Turns, NEW h \in Hosts, NEW i \in DOMAIN endPoints[h], NEW p,
         endPoints' = [endPoints EXCEPT ![h][i].phase = p],
         LET q == endPoints[h][i].phase IN
           \/ q \in {"requested", "wait2"} /\ p \in {"wait2", "freed"}
           \/ q \in {"exchanged", "wait3", "got3"} /\ p \in {"wait3", "got3", "connected", "freed"}
           \/ q \in {"answered", "wait4", "got4"} /\ p \in {"wait4", "freed"}
           \/ q = "got2" /\ p = "freed"
           \/ q = "got4" /\ p = "connected"
  PROVE  Calls' /\ Turns'
  <1> DEFINE x == endPoints[h][i]
             e == [x EXCEPT !.phase = p]
  <1>1. x \in Entries /\ CallEntry(h, i, x) /\ ListenEntry(h, i, x)
    BY DEF Calls
  <1>2. CASE x.role = "client"
    <2>1. /\ x \in ClientEntries
          /\ \/ x.phase \in {"requested", "wait2", "got2"} /\ p \in {"wait2", "freed"}
             \/ x.phase \in {"exchanged", "wait3", "got3"}
                /\ p \in {"wait3", "got3", "connected", "freed"}
      BY <1>1, <1>2, Roles, Names
    <2>2. e \in ClientEntries /\ e.role = "client" /\ e.attempt = x.attempt /\ CallEntry(h, i, e)
      BY <1>1, <2>1, <1>2, Names DEF ClientEntries, CallEntry
    <2>3. e \in Entries /\ ListenEntry(h, i, e)
      BY <2>2 DEF Entries, ListenEntry
    <2> QED BY <1>2, <2>2, <2>3, EntryStep
  <1>3. CASE x.role = "server"
    <2>1. /\ x \in ServerEntries
          /\ \/ x.phase \in {"answered", "wait4", "got4"} /\ p \in {"wait4", "freed"}
             \/ x.phase = "got4" /\ p = "connected"
      BY <1>1, <1>3, Roles, Names
    <2>2. e \in ServerEntries /\ e.role = "server" /\ e.id = x.id /\ ListenEntry(h, i, e)
          /\ e.phase = p
      BY <1>1, <2>1, <1>3, Names DEF ServerEntries, ListenEntry
    <2>3. e \in Entries /\ CallEntry(h, i, e)
      BY <2>2 DEF Entries, CallEntry
    <2>4. e.phase \in {"got4", "connected"} =>
            \A j \in Servers(h) : j < i /\ endPoints[h][j].phase = "connected" =>
                                    endPoints[h][j].id # e.id
      BY <1>3, <2>1, <2>2 DEF Turns, Servers
    <2> QED BY <1>3, <2>1, <2>2, <2>3, <2>4, EntryStep
  <1> QED BY <1>1, <1>2, <1>3, Roles

LEMMA Handing ==
  ASSUME AppPlaces, NEW h \in Hosts, NEW id, NEW cmd, NEW args, Frame(id, cmd, args) \in Handed,
         SendCommand(h, id, cmd, args)
  PROVE  toDaemon' \in [Hosts -> Seq(Handed)]
  BY DEF AppPlaces, SendCommand

LEMMA Taken ==
  ASSUME NEW S, NEW f \in [Hosts -> Seq(S)], NEW h \in Hosts, f[h] # << >>
  PROVE  Head(f[h]) \in S /\ [f EXCEPT ![h] = Tail(@)] \in [Hosts -> Seq(S)]
  OBVIOUS

LEMMA EstablishTypes ==
  ASSUME TypeInv, NEW a \in Attempts, EstablishConnection(a)
  PROVE  Calls' /\ Turns' /\ AppPlaces'
  <1> DEFINE h == ClientOf[a]
             n == Len(endPoints[h]) + 1
             c == ClientChallenge(h, n)
  <1>1. PICK address \in Addresses(a) :
          /\ endPoints' = [endPoints EXCEPT ![h] =
               Append(@, [NewClient(a, address) EXCEPT !.challengeSent = c])]
          /\ SendCommand(h, IdOf[a], "STEP1", <<c, address>>)
    BY DEF EstablishConnection
  <1> DEFINE e == [NewClient(a, address) EXCEPT !.challengeSent = c]
  <1>2. h \in Hosts /\ IdOf[a] \in Ids /\ address \in Hosts \cup {NoAddress}
    BY SocketsAssumption DEF Addresses
  <1>3. Calls /\ Turns /\ AppPlaces
    BY DEF TypeInv
  <1>4. a \notin Made(h)
    BY <1>2 DEF EstablishConnection, Started, Made
  <1>5. n \in Slots
    <2>1. Made(h) \in SUBSET (Attempts \ {a}) /\ IsFiniteSet(Attempts \ {a})
          /\ Cardinality(Attempts \ {a}) = Cardinality(Attempts) - 1
      BY <1>2, <1>3, <1>4, Room, SystemAssumption, FS_RemoveElement
    <2>2. Cardinality(Made(h)) <= Cardinality(Attempts) - 1 /\ Cardinality(Attempts) \in Nat
      BY <2>1, SystemAssumption, FS_Subset, FS_CardinalityType
    <2>3. Cardinality(Servers(h)) <= MaxListens
      BY <1>2, <1>3 DEF Calls
    <2> HIDE DEF h
    <2> QED BY <1>2, <1>3, <2>2, <2>3, Room, Entered, AppAssumption DEF Slots
  <1>6. c \in Challenges
    BY <1>2, <1>5, ChallengesMade
  <1>7. e \in ClientEntries /\ e.role = "client" /\ e.attempt = a /\ CallEntry(h, n, e)
    <2> HIDE DEF c, h, n
    <2>1. e = [role |-> "client", attempt |-> a, id |-> IdOf[a], peer |-> address,
               phase |-> "requested", challengeSent |-> c, challengeReceived |-> << >>,
               params |-> << >>]
      BY DEF NewClient
    <2>2. << >> \in Params
      BY DEF Params
    <2>3. e \in ClientEntries
      BY <2>1, <2>2, <1>2, <1>6, Names DEF ClientEntries
    <2>4. CallEntry(h, n, e)
      BY <2>1, <1>1 DEF CallEntry, c, h
    <2> QED BY <2>1, <2>3, <2>4
  <1>8. e \in Entries /\ ListenEntry(h, n, e)
    BY <1>7 DEF Entries, ListenEntry
  <1>9. Calls'
    BY <1>1, <1>2, <1>3, <1>4, <1>7, <1>8, CallsAdded
  <1>10. Turns'
    <2> HIDE DEF e, h, n
    <2>1. \A g \in Hosts : Servers(g)' = Servers(g)
      BY <1>1, <1>2, <1>3, <1>7, <1>8, EntryAdded DEF Servers, e, h, n
    <2>2. \A g \in Hosts : \A i \in DOMAIN endPoints[g] : endPoints'[g][i] = endPoints[g][i]
      BY <1>1, <1>2, <1>3, <1>7, <1>8, EntryAdded DEF e, n, h
    <2> QED BY <1>3, <2>1, <2>2 DEF Turns, Servers
  <1>11. AppPlaces'
    <2>1. Frame(IdOf[a], "STEP1", <<c, address>>) \in Handed
      BY <1>2, <1>6, Names DEF Handed, Proper, Frame, Frames, Params
    <2> QED BY <1>1, <1>2, <1>3, <2>1, Handing DEF EstablishConnection, UnchangedButToDaemon, AppPlaces
  <1> QED BY <1>9, <1>10, <1>11

LEMMA CallTypes ==
  ASSUME TypeInv, NEW h \in Hosts, NEW i \in DOMAIN endPoints[h],
         RegisterWait(h, i) \/ Timeout(h, i) \/ StrayConfirms(h, i) \/ ClientConfirms(h, i) \/ ServerVerifies(h, i)
  PROVE  Calls' /\ Turns' /\ AppPlaces'
  <1> USE DEF TypeInv
  <1>1. CASE RegisterWait(h, i)
    <2> DEFINE q == endPoints[h][i].phase
               p == CASE q = "requested" -> "wait2" [] q = "exchanged" -> "wait3" [] OTHER -> "wait4"
    <2>1. /\ endPoints' = [endPoints EXCEPT ![h][i].phase = p]
          /\ \/ q = "requested" /\ p = "wait2"
             \/ q = "exchanged" /\ p = "wait3"
             \/ q = "answered" /\ p = "wait4"
      BY <1>1 DEF RegisterWait
    <2>2. Calls' /\ Turns'
      BY <2>1, PhaseStep
    <2> QED BY <1>1, <2>2 DEF RegisterWait, AppPlaces, socketVars
  <1>2. CASE Timeout(h, i)
    <2>1. Calls' /\ Turns'
      BY <1>2, PhaseStep DEF Timeout
    <2> QED BY <1>2, <2>1 DEF Timeout, AppPlaces, socketVars
  <1>5. CASE StrayConfirms(h, i)
    <2>1. Calls' /\ Turns'
      BY <1>5, PhaseStep DEF StrayConfirms
    <2> QED BY <1>5, <2>1 DEF StrayConfirms, AppPlaces, socketVars
  <1>3. CASE ClientConfirms(h, i)
    <2> DEFINE e == endPoints[h][i]
    <2>1. e.phase = "got3" /\ endPoints' = [endPoints EXCEPT ![h][i].phase = "connected"]
          /\ SendCommand(h, e.id, "STEP4", <<e.challengeReceived>>)
      BY <1>3 DEF ClientConfirms
    <2>2. Calls' /\ Turns'
      BY <2>1, PhaseStep
    <2>3. e \in Entries /\ CallEntry(h, i, e)
      BY DEF Calls
    <2>4. e.role = "client" /\ e.id \in Ids /\ e.challengeReceived \in Challenges
      BY <2>1, <2>3, Roles, Names DEF ClientEntries, CallEntry
    <2>5. Frame(e.id, "STEP4", <<e.challengeReceived>>) \in Handed
      BY <2>4, Names DEF Handed, Proper, Frame, Frames, Params
    <2> QED BY <1>3, <2>1, <2>2, <2>5, Handing DEF ClientConfirms, UnchangedButToDaemon, AppPlaces
  <1>4. CASE ServerVerifies(h, i)
    <2> DEFINE p == IF endPoints[h][i].params[1] = endPoints[h][i].challengeSent
                    THEN "connected" ELSE "freed"
    <2>1. endPoints' = [endPoints EXCEPT ![h][i].phase = p] /\ endPoints[h][i].phase = "got4"
          /\ p \in {"connected", "freed"}
      BY <1>4 DEF ServerVerifies
    <2>2. Calls' /\ Turns'
      BY <2>1, PhaseStep
    <2> QED BY <1>4, <2>2 DEF ServerVerifies, AppPlaces, socketVars
  <1> QED BY <1>1, <1>2, <1>3, <1>4, <1>5

LEMMA VerifyTypes ==
  ASSUME TypeInv, NEW h \in Hosts, NEW i \in DOMAIN endPoints[h], ClientVerifies(h, i)
  PROVE  Calls' /\ Turns' /\ AppPlaces'
  <1> USE DEF TypeInv
  <1> DEFINE x == endPoints[h][i]
  <1>1. x.phase = "got2" /\ x \in Entries /\ CallEntry(h, i, x)
    BY DEF ClientVerifies, Calls
  <1>2. /\ x.role = "client" /\ x \in ClientEntries /\ x.id \in Ids
        /\ x.params[2] \in Challenges
    BY <1>1, Roles, Names DEF ClientEntries, CallEntry
  <1>3. CASE /\ endPoints' = [endPoints EXCEPT ![h][i].phase = "exchanged",
                                               ![h][i].challengeReceived = x.params[2]]
             /\ SendCommand(h, x.id, "STEP3", << >>)
    <2> DEFINE e == [x EXCEPT !.phase = "exchanged", !.challengeReceived = x.params[2]]
    <2>1. endPoints' = [endPoints EXCEPT ![h] = [@ EXCEPT ![i] = e]]
      BY <1>3 DEF Calls
    <2>2. e \in ClientEntries /\ e.role = "client" /\ e.attempt = x.attempt /\ CallEntry(h, i, e)
      BY <1>1, <1>2, Names DEF ClientEntries, CallEntry
    <2>3. e \in Entries /\ ListenEntry(h, i, e)
      BY <2>2 DEF Entries, ListenEntry
    <2>4. Calls' /\ Turns'
      BY <1>2, <2>1, <2>2, <2>3, EntryStep
    <2>5. Frame(x.id, "STEP3", << >>) \in Handed
      BY <1>2, Names DEF Handed, Proper, Frame, Frames, Params
    <2> QED BY <1>3, <2>4, <2>5, Handing DEF ClientVerifies, UnchangedButToDaemon, AppPlaces
  <1>4. CASE /\ endPoints' = [endPoints EXCEPT ![h][i].phase = "freed"]
             /\ UNCHANGED toDaemon
    <2>1. Calls' /\ Turns'
      BY <1>1, <1>4, PhaseStep
    <2> QED BY <1>4, <2>1 DEF ClientVerifies, UnchangedButToDaemon, AppPlaces
  <1> QED BY <1>3, <1>4 DEF ClientVerifies

LEMMA ListenTypes ==
  ASSUME TypeInv, NEW h \in Hosts, Listen(h)
  PROVE  Calls' /\ Turns' /\ AppPlaces'
  <1> USE DEF TypeInv
  <1> DEFINE n == Len(endPoints[h]) + 1
  <1>1. NewServer = [role |-> "server", id |-> NoId, phase |-> "listening", challengeSent |-> << >>,
                     challengeReceived |-> << >>, params |-> << >>] /\ << >> \in Params
    BY DEF NewServer, Params
  <1>2. NewServer \in ServerEntries /\ NewServer \in Entries
    BY <1>1, Names DEF ServerEntries, Entries
  <1>3. CallEntry(h, n, NewServer) /\ ListenEntry(h, n, NewServer)
    BY <1>1 DEF CallEntry, ListenEntry
  <1>4. endPoints' = [endPoints EXCEPT ![h] = Append(@, NewServer)]
        /\ Cardinality(Servers(h)) < MaxListens
    BY DEF Listen, Servers
  <1>5. Calls'
    BY <1>1, <1>2, <1>3, <1>4, CallsAdded
  <1>6. Turns'
    <2>1. \A g \in Hosts : \A i \in Servers(g) : endPoints'[g][i] = endPoints[g][i]
          /\ (g = h => endPoints[g][i].phase \notin ServerPhases /\ i < n)
      BY <1>2, <1>4, EntryAdded DEF Servers, Listen
    <2>2. \A g \in Hosts : Servers(g)' = IF g = h THEN Servers(g) \cup {n} ELSE Servers(g)
      <3>1. \A g \in Hosts : \A i : i \in Servers(g)' <=> i \in Servers(g) \/ (g = h /\ i = n)
        <4>1. /\ n \notin DOMAIN endPoints[h] /\ endPoints'[h][n] = NewServer
              /\ DOMAIN endPoints'[h] = DOMAIN endPoints[h] \cup {n}
              /\ \A i \in DOMAIN endPoints[h] : endPoints'[h][i] = endPoints[h][i]
              /\ \A g \in Hosts : g # h => endPoints'[g] = endPoints[g]
          BY <1>2, <1>4, EntryAdded
        <4> QED BY <4>1, <1>1 DEF Servers
      <3> QED BY <3>1
    <2>3. \A g \in Hosts : \A i \in Servers(g) : endPoints[g][i].phase \in ServerPhases \cup {"connected", "freed"}
      BY Entered, Roles DEF Servers, ServerEntries
    <2>4. endPoints'[h][n] = NewServer /\ NewServer.phase = "listening"
      BY <1>1, <1>2, <1>4, EntryAdded
    <2> SUFFICES ASSUME NEW g \in Hosts, NEW j \in Servers(g)', NEW k \in Servers(g)', j < k
                 PROVE  /\ endPoints'[g][j].phase \in {"connected", "freed"}
                        /\ endPoints'[g][j].phase = "connected" /\ endPoints'[g][j].id = endPoints'[g][k].id
                             => endPoints'[g][k].phase \notin {"got4", "connected"}
      BY DEF Turns
    <2>5. n \in Nat /\ \A i \in Servers(h) : i \in Nat
      BY Entered DEF Servers
    <2>6. CASE k \in Servers(g) /\ j \in Servers(g)
      BY <2>1, <2>6 DEF Turns
    <2>7. CASE g = h /\ k = n /\ j \in Servers(g)
      <3>1. endPoints[g][j].phase \in {"connected", "freed"}
        BY <2>1, <2>3, <2>7
      <3> QED BY <2>1, <2>4, <2>7, <3>1
    <2>8. ~(g = h /\ j = n)
      BY <2>1, <2>2, <2>5
    <2> QED BY <2>2, <2>6, <2>7, <2>8
  <1> QED BY <1>5, <1>6 DEF Listen, AppPlaces, socketVars

LEMMA AnswerTypes ==
  ASSUME TypeInv, NEW h \in Hosts, NEW i \in DOMAIN endPoints[h], AnswerRequest(h, i)
  PROVE  Calls' /\ Turns' /\ AppPlaces'
  <1> USE DEF TypeInv
  <1> DEFINE x == endPoints[h][i]
             request == Head(connectionRequest[h])
             c == ServerChallenge(h, i)
             e == [x EXCEPT !.phase = "answered", !.id = request.id, !.challengeSent = c,
                            !.challengeReceived = request.args[1]]
  <1>1. /\ x.phase = "listening" /\ connectionRequest[h] # << >>
        /\ endPoints' = [endPoints EXCEPT ![h][i].phase = "answered",
             ![h][i].id = request.id, ![h][i].challengeSent = c,
             ![h][i].challengeReceived = request.args[1]]
        /\ SendCommand(h, request.id, "STEP2", <<request.args[1], c>>)
        /\ connectionRequest' = [connectionRequest EXCEPT ![h] = Tail(@)]
    BY DEF AnswerRequest
  <1>2. request \in Requests(Sent) /\ connectionRequest' \in [Hosts -> Seq(Requests(Sent))]
    BY <1>1, Taken DEF AppPlaces
  <1>3. request.id \in Ids /\ request.args[1] \in Challenges
    BY <1>2 DEF Requests, Sent, Frames
  <1>4. c \in Challenges
    BY Slotted, ChallengesMade
  <1>5. x \in ServerEntries /\ x.role = "server" /\ x \in Entries
    BY <1>1, Entered, Roles, Names
  <1>6. endPoints' = [endPoints EXCEPT ![h] = [@ EXCEPT ![i] = e]]
    BY <1>1 DEF Calls
  <1>7. e \in ServerEntries /\ e.role = "server" /\ e.phase = "answered"
    BY <1>3, <1>4, <1>5, Names DEF ServerEntries
  <1>8. ListenEntry(h, i, e)
    BY <1>3, <1>4, <1>5 DEF ListenEntry, ServerEntries
  <1>9. e \in Entries /\ CallEntry(h, i, e)
    BY <1>7 DEF Entries, CallEntry
  <1>10. Calls' /\ Turns'
    <2> HIDE DEF e
    <2> QED BY <1>1, <1>5, <1>6, <1>7, <1>8, <1>9, EntryStep
  <1>11. Frame(request.id, "STEP2", <<request.args[1], c>>) \in Handed
    BY <1>3, <1>4, Names DEF Handed, Proper, Frame, Frames, Params
  <1> QED BY <1>1, <1>2, <1>10, <1>11, Handing DEF AnswerRequest, UnchangedButToDaemon, AppPlaces

LEMMA NotifyTypes ==
  ASSUME TypeInv, NEW h \in Hosts, PacketNotifies(h)
  PROVE  Calls' /\ Turns' /\ AppPlaces'
  <1> USE DEF TypeInv
  <1> DEFINE f == Head(toApp[h])
  <1>1. f \in Sent /\ toApp' \in [Hosts -> Seq(Sent)] /\ UNCHANGED <<toDaemon, connectionRequest, crashed>>
    BY Taken DEF PacketNotifies, TakePacket, AppPlaces
  <1>2. PICK i \in FirstLive(h, f.id) :
          /\ Awaits(endPoints[h][i], f.cmd)
          /\ endPoints' = [endPoints EXCEPT
               ![h][i].params = f.args,
               ![h][i].phase = CASE endPoints[h][i].phase = "wait2" -> "got2"
                                 [] endPoints[h][i].phase = "wait3" -> "got3"
                                 [] OTHER -> "got4"]
    BY DEF PacketNotifies
  <1> DEFINE x == endPoints[h][i]
             p == CASE x.phase = "wait2" -> "got2" [] x.phase = "wait3" -> "got3" [] OTHER -> "got4"
             e == [x EXCEPT !.params = f.args, !.phase = p]
  <1>3. /\ i \in DOMAIN endPoints[h] /\ x.id = f.id
        /\ \A j \in DOMAIN endPoints[h] :
             endPoints[h][j].id = f.id /\ endPoints[h][j].phase # "freed" => i <= j
    BY DEF FirstLive, LiveEntries, EntriesOf
  <1>4. x \in Entries /\ CallEntry(h, i, x) /\ ListenEntry(h, i, x)
    BY <1>3 DEF Calls
  <1>5. \/ x.phase = "wait2" /\ p = "got2" /\ f.cmd = "STEP2"
        \/ x.phase = "wait3" /\ p = "got3"
        \/ x.phase = "wait4" /\ p = "got4"
    BY <1>2 DEF Awaits
  <1>6. endPoints' = [endPoints EXCEPT ![h] = [@ EXCEPT ![i] = e]]
    BY <1>2, <1>3 DEF Calls
  <1>7. f.args \in Params /\ Proper(f)
    BY <1>1 DEF Sent, Frames
  <1> HIDE DEF p, f
  <1>8. CASE x.role = "client"
    <2>1. /\ x \in ClientEntries
          /\ \/ x.phase = "wait2" /\ p = "got2" /\ f.cmd = "STEP2"
             \/ x.phase = "wait3" /\ p = "got3"
      BY <1>4, <1>5, <1>8, Roles, Names
    <2>2. e \in ClientEntries /\ e.role = "client" /\ e.attempt = x.attempt /\ CallEntry(h, i, e)
      BY <1>4, <1>7, <2>1, <1>8, Names DEF ClientEntries, CallEntry, Proper
    <2>3. e \in Entries /\ ListenEntry(h, i, e)
      BY <2>2 DEF Entries, ListenEntry
    <2>4. Calls' /\ Turns'
      <3> HIDE DEF e
      <3> QED BY <1>3, <1>6, <1>8, <2>2, <2>3, EntryStep
    <2> QED BY <1>1, <2>4 DEF AppPlaces
  <1>9. CASE x.role = "server"
    <2>1. x \in ServerEntries /\ x.phase = "wait4" /\ p = "got4"
      BY <1>4, <1>5, <1>9, Roles, Names
    <2>2. e \in ServerEntries /\ e.role = "server" /\ e.id = x.id /\ ListenEntry(h, i, e)
      BY <1>4, <1>7, <2>1, <1>9, Names DEF ServerEntries, ListenEntry
    <2>3. e \in Entries /\ CallEntry(h, i, e)
      BY <2>2 DEF Entries, CallEntry
    <2>4. \A j \in Servers(h) : j < i /\ endPoints[h][j].phase = "connected" => endPoints[h][j].id # e.id
      BY <1>3, <2>2, Entered DEF Servers
    <2>5. Calls' /\ Turns'
      <3> HIDE DEF e
      <3> QED BY <1>3, <1>6, <1>9, <2>1, <2>2, <2>3, <2>4, EntryStep
    <2> QED BY <1>1, <2>5 DEF AppPlaces
  <1> QED BY <1>4, <1>8, <1>9, Roles

LEMMA OtherPacketTypes ==
  ASSUME TypeInv, NEW h \in Hosts, PacketRequests(h) \/ PacketDropped(h) \/ PacketCrashes(h)
  PROVE  Calls' /\ Turns' /\ AppPlaces'
  <1> USE DEF TypeInv
  <1>1. Head(toApp[h]) \in Sent /\ toApp' \in [Hosts -> Seq(Sent)] /\ UNCHANGED toDaemon
    <2>1. TakePacket(h)
      BY DEF PacketRequests, PacketDropped, PacketCrashes
    <2> QED BY <2>1, Taken DEF TakePacket, AppPlaces
  <1>2. UNCHANGED endPoints
    BY DEF PacketRequests, PacketDropped, PacketCrashes, appVars
  <1>3. Calls' /\ Turns'
    BY <1>2 DEF Calls, Turns, Servers
  <1>4. connectionRequest' \in [Hosts -> Seq(Requests(Sent))]
    <2>1. CASE PacketRequests(h)
      <3>1. Head(toApp[h]) \in Requests(Sent)
        BY <1>1, <2>1 DEF PacketRequests, Requests
      <3>2. /\ connectionRequest \in [Hosts -> Seq(Requests(Sent))]
            /\ connectionRequest' = [connectionRequest EXCEPT ![h] = Append(@, Head(toApp[h]))]
        BY <2>1 DEF PacketRequests, AppPlaces
      <3> QED BY <3>1, <3>2
    <2>2. CASE PacketDropped(h) \/ PacketCrashes(h)
      BY <2>2 DEF PacketDropped, PacketCrashes, appVars, AppPlaces
    <2> QED BY <2>1, <2>2
  <1>5. crashed' \subseteq Hosts
    BY DEF PacketRequests, PacketDropped, PacketCrashes, appVars, AppPlaces
  <1> QED BY <1>1, <1>3, <1>4, <1>5 DEF AppPlaces

LEMMA StrayTypes ==
  ASSUME TypeInv, NEW h \in Hosts, NEW i \in DOMAIN endPoints[h], StrayCrashes(h, i)
  PROVE  Calls' /\ Turns' /\ AppPlaces'
  <1>1. Calls' /\ Turns'
    BY DEF StrayCrashes, TypeInv, Calls, Turns, Servers
  <1> QED BY <1>1 DEF StrayCrashes, TypeInv, AppPlaces, socketVars

LEMMA AppTypes == ASSUME TypeInv, AppNext, UNCHANGED daemonVars PROVE TypeInv'
  <1>1. Calls' /\ Turns' /\ AppPlaces'
    <2>1. CASE \E a \in Attempts : EstablishConnection(a)
      BY <2>1, EstablishTypes
    <2>2. CASE \E h \in Hosts : Listen(h)
      BY <2>2, ListenTypes
    <2>3. CASE \E h \in Hosts : ProcessPacket(h)
      BY <2>3, NotifyTypes, OtherPacketTypes DEF ProcessPacket
    <2>4. CASE \E h \in Hosts : \E i \in DOMAIN endPoints[h] :
                 RegisterWait(h, i) \/ Timeout(h, i) \/ StrayCrashes(h, i) \/ StrayConfirms(h, i)
                 \/ ClientCall(h, i) \/ ServerCall(h, i)
      BY <2>4, CallTypes, StrayTypes, VerifyTypes, AnswerTypes DEF ClientCall, ServerCall
    <2> QED BY <2>1, <2>2, <2>3, <2>4 DEF AppNext
  <1>2. UNCHANGED <<net, duplicates>>
    <2>1. ASSUME NEW a \in Attempts, EstablishConnection(a) PROVE UNCHANGED <<net, duplicates>>
      BY <2>1 DEF EstablishConnection, UnchangedButToDaemon
    <2>2. ASSUME NEW h \in Hosts, Listen(h) \/ ProcessPacket(h) PROVE UNCHANGED <<net, duplicates>>
      BY <2>2 DEF Listen, ProcessPacket, PacketNotifies, PacketRequests, PacketDropped, PacketCrashes,
                  TakePacket, socketVars
    <2>3. ASSUME NEW h \in Hosts, NEW i \in DOMAIN endPoints[h],
                 RegisterWait(h, i) \/ Timeout(h, i) \/ StrayCrashes(h, i) \/ StrayConfirms(h, i)
                 \/ ClientCall(h, i) \/ ServerCall(h, i)
          PROVE  UNCHANGED <<net, duplicates>>
      BY <2>3 DEF RegisterWait, Timeout, StrayCrashes, StrayConfirms, ClientCall, ServerCall, ClientVerifies, ClientConfirms,
                  AnswerRequest, ServerVerifies, UnchangedButToDaemon, socketVars
    <2> QED BY <2>1, <2>2, <2>3 DEF AppNext
  <1>3. DaemonPlaces'
    BY <1>2 DEF TypeInv, DaemonPlaces, daemonVars, requests
  <1> QED BY <1>1, <1>3 DEF TypeInv

-----------------------------------------------------------------------------
(* The steps of the daemons. *)
LEMMA Received ==
  ASSUME DaemonPlaces, NEW d, Receive(d)
  PROVE  /\ d \in BagToSet(net) /\ d.from \in Hosts /\ d.to \in Hosts /\ d.frame \in Sent
         /\ IsABag(net') /\ BagToSet(net') \subseteq BagToSet(net)
         /\ duplicates' \in 0..MaxDuplicates
  <1>1. d \in BagToSet(net) /\ IsABag(net)
    BY DEF Receive, BagIn, DaemonPlaces
  <1>2. net' = net \/ net' = BagRemove(net, d)
    BY DEF Receive
  <1>3. IsABag(net') /\ BagToSet(net') \subseteq BagToSet(net)
    <2>1. CASE net' = BagRemove(net, d)
      BY <1>1, <2>1 DEF BagRemove, IsABag, BagToSet
    <2> QED BY <1>1, <1>2, <2>1
  <1>4. duplicates' \in 0..MaxDuplicates
    BY SocketsAssumption DEF Receive, DaemonPlaces
  <1> QED BY <1>1, <1>3, <1>4 DEF DaemonPlaces

LEMMA Outbound ==
  ASSUME NEW B, IsABag(B), NEW d
  PROVE  IsABag(BagAdd(B, d)) /\ BagToSet(BagAdd(B, d)) = BagToSet(B) \cup {d}
  BY DEF BagAdd, IsABag, BagToSet

LEMMA Queued ==
  ASSUME DaemonPlaces, NEW h \in Hosts
  PROVE  /\ daemonEndPoints[h] \in Seq(Opened)
         /\ DOMAIN daemonEndPoints[h] = 1..Len(daemonEndPoints[h]) /\ Len(daemonEndPoints[h]) \in Nat
         /\ \A i \in DOMAIN daemonEndPoints[h] :
              /\ daemonEndPoints[h][i] \in Opened
              /\ daemonEndPoints[h][i].service \in {Untabled} \cup DOMAIN serviceTable[h]
  BY DEF DaemonPlaces

LEMMA EndPointChanged ==
  ASSUME DaemonPlaces, NEW h \in Hosts, NEW i \in DOMAIN daemonEndPoints[h], NEW x \in Opened,
         daemonEndPoints' = [daemonEndPoints EXCEPT ![h] = [@ EXCEPT ![i] = x]]
  PROVE  /\ daemonEndPoints' \in [Hosts -> Seq(Opened)]
         /\ \A g \in Hosts : DOMAIN daemonEndPoints'[g] = DOMAIN daemonEndPoints[g]
         /\ \A g \in Hosts : \A j \in DOMAIN daemonEndPoints[g] :
              daemonEndPoints'[g][j] = IF g = h /\ j = i THEN x ELSE daemonEndPoints[g][j]
  <1>1. [daemonEndPoints[h] EXCEPT ![i] = x] \in Seq(Opened)
    BY Queued, ExceptSeq
  <1> QED BY <1>1 DEF DaemonPlaces

LEMMA EndPointAdded ==
  ASSUME DaemonPlaces, NEW h \in Hosts, NEW x \in Opened, NEW n, n = Len(daemonEndPoints[h]) + 1,
         daemonEndPoints' = [daemonEndPoints EXCEPT ![h] = Append(@, x)]
  PROVE  /\ daemonEndPoints' \in [Hosts -> Seq(Opened)]
         /\ \A g \in Hosts : g # h => daemonEndPoints'[g] = daemonEndPoints[g]
         /\ DOMAIN daemonEndPoints'[h] = DOMAIN daemonEndPoints[h] \cup {n}
         /\ \A i \in DOMAIN daemonEndPoints[h] : i # n /\ daemonEndPoints'[h][i] = daemonEndPoints[h][i]
         /\ daemonEndPoints'[h][n] = x
  <1>1. daemonEndPoints'[h] = Append(daemonEndPoints[h], x)
    BY DEF DaemonPlaces
  <1>2. daemonEndPoints[h] \in Seq(Opened) /\ Len(daemonEndPoints[h]) \in Nat
    BY Queued
  <1>3. /\ Append(daemonEndPoints[h], x) \in Seq(Opened)
        /\ Len(Append(daemonEndPoints[h], x)) = Len(daemonEndPoints[h]) + 1
        /\ \A i \in 1..Len(daemonEndPoints[h]) : Append(daemonEndPoints[h], x)[i] = daemonEndPoints[h][i]
        /\ Append(daemonEndPoints[h], x)[Len(daemonEndPoints[h]) + 1] = x
    BY <1>2, AppendProperties
  <1>4. DOMAIN daemonEndPoints'[h] = 1..n /\ DOMAIN daemonEndPoints[h] = 1..Len(daemonEndPoints[h])
    BY <1>1, <1>2, <1>3
  <1>5. /\ daemonEndPoints' \in [Hosts -> Seq(Opened)]
        /\ \A g \in Hosts : g # h => daemonEndPoints'[g] = daemonEndPoints[g]
    BY <1>3 DEF DaemonPlaces
  <1> QED BY <1>1, <1>2, <1>3, <1>4, <1>5

(* One endpoint changes its queues; nothing is received. *)
LEMMA QueueStep ==
  ASSUME DaemonPlaces, NEW h \in Hosts, NEW i \in DOMAIN daemonEndPoints[h], NEW x \in Opened,
         daemonEndPoints' = [daemonEndPoints EXCEPT ![h] = [@ EXCEPT ![i] = x]],
         x.service = daemonEndPoints[h][i].service,
         UNCHANGED <<serviceTable, requests, unixParams>>,
         IsABag(net'), BagToSet(net') \subseteq [from : Hosts, to : Hosts, frame : Sent],
         duplicates' \in 0..MaxDuplicates
  PROVE  DaemonPlaces'
  <1>1. \A g \in Hosts : \A j \in DOMAIN daemonEndPoints'[g] :
          daemonEndPoints'[g][j].service \in {Untabled} \cup DOMAIN serviceTable'[g]
    BY EndPointChanged, Queued
  <1> QED BY <1>1, EndPointChanged DEF DaemonPlaces, requests

LEMMA UnixForwardTypes ==
  ASSUME TypeInv, NEW h \in Hosts, UnixForwards(h)
  PROVE  toDaemon' \in [Hosts -> Seq(Handed)] /\ DaemonPlaces'
  <1> USE DEF TypeInv
  <1>1. Head(toDaemon[h]) \in Handed /\ toDaemon' \in [Hosts -> Seq(Handed)]
    BY Taken DEF UnixForwards, UnixReads, UnixTakes, AppPlaces
  <1>2. PICK i \in EndPointsByID(h, Head(toDaemon[h]).id) :
          daemonEndPoints' = [daemonEndPoints EXCEPT ![h][i].outgoingQueue = Append(@, Head(toDaemon[h]))]
    BY DEF UnixForwards
  <1> DEFINE x == daemonEndPoints[h][i]
             y == [x EXCEPT !.outgoingQueue = Append(@, Head(toDaemon[h]))]
  <1>3. i \in DOMAIN daemonEndPoints[h] /\ x \in Opened /\ x.service # Untabled
    BY Queued DEF EndPointsByID
  <1>4. y \in Opened /\ y.service = x.service
    <2>1. Append(x.outgoingQueue, Head(toDaemon[h])) \in Seq(Handed)
      BY <1>1, <1>3 DEF Opened
    <2> QED BY <1>3, <2>1 DEF Opened
  <1>5. daemonEndPoints' = [daemonEndPoints EXCEPT ![h] = [@ EXCEPT ![i] = y]]
    BY <1>2, <1>3 DEF DaemonPlaces
  <1>6. DaemonPlaces'
    <2> HIDE DEF y
    <2> QED BY <1>3, <1>4, <1>5, QueueStep DEF UnixForwards, DaemonPlaces
  <1> QED BY <1>1, <1>6

LEMMA Joined ==
  ASSUME NEW ps \in Params, NEW qs \in Params
  PROVE  /\ ps \o qs \in Params /\ Len(ps \o qs) = Len(ps) + Len(qs) /\ Len(ps) \in Nat /\ Len(qs) \in Nat
         /\ \A i \in 1..Len(ps) : (ps \o qs)[i] = ps[i]
  <1>1. ps \in Seq(Challenges \cup Hosts \cup {NoAddress}) /\ qs \in Seq(Challenges \cup Hosts \cup {NoAddress})
    BY DEF Params
  <1> QED BY <1>1, ConcatProperties DEF Params

LEMMA UnixRequestTypes ==
  ASSUME TypeInv, NEW h \in Hosts, UnixSeesRequest(h) \/ UnixRefusesAddress(h) \/ UnixDiscards(h)
  PROVE  toDaemon' \in [Hosts -> Seq(Handed)] /\ DaemonPlaces'
  <1> USE DEF TypeInv
  <1>1. CASE UnixSeesRequest(h)
    <2>1. Head(toDaemon[h]) \in Handed /\ toDaemon' \in [Hosts -> Seq(Handed)]
      BY <1>1, Taken DEF UnixSeesRequest, UnixReads, UnixTakes, AppPlaces
    <2>2. Head(toDaemon[h]) \in Requests(Handed)
      BY <1>1, <2>1 DEF UnixSeesRequest, Requests
    <2>3. unixRequest' \in [Hosts -> Seq(Requests(Handed))]
      BY <1>1, <2>2 DEF UnixSeesRequest, DaemonPlaces
    <2> QED BY <1>1, <2>1, <2>3 DEF UnixSeesRequest, DaemonPlaces
  <1>2. CASE UnixRefusesAddress(h)
    <2> DEFINE f == unixRequest[h][1]
               ps == unixParams[h] \o f.args
    <2>1. f \in Requests(Handed)
      BY <1>2 DEF UnixRefusesAddress, DaemonPlaces
    <2>2. f.args \in Params /\ Len(f.args) = 2
      BY <2>1 DEF Requests, Handed, Frames
    <2>3. /\ ps \in Params /\ Len(ps) >= 2 /\ ps[2] = NoAddress
      <3>1. ps[2] = NoAddress
        BY <1>2 DEF UnixRefusesAddress, UnixAddress, UnixParamsWith
      <3>2. unixParams[h] \in Params
        BY DEF DaemonPlaces
      <3>3. ps \in Params /\ Len(ps) = Len(unixParams[h]) + Len(f.args) /\ Len(unixParams[h]) \in Nat
        BY <2>2, <3>2, Joined
      <3> QED BY <2>2, <3>1, <3>3
    <2>4. unixParams' = [unixParams EXCEPT ![h] = ps] /\ unixRequest' = [unixRequest EXCEPT ![h] = << >>]
      BY <1>2 DEF UnixRefusesAddress, UnixParamsWith
    <2>5. /\ unixParams' \in [Hosts -> Params]
          /\ \A g \in Hosts : unixParams'[g] # << >> =>
               Len(unixParams'[g]) >= 2 /\ unixParams'[g][2] = NoAddress
      <3> HIDE DEF ps
      <3> QED BY <2>3, <2>4 DEF DaemonPlaces
    <2>6. unixRequest' \in [Hosts -> Seq(Requests(Handed))]
      BY <2>4 DEF DaemonPlaces
    <2> QED BY <1>2, <2>5, <2>6 DEF UnixRefusesAddress, DaemonPlaces, AppPlaces, socketVars
  <1>3. CASE UnixDiscards(h)
    BY <1>3, Taken DEF UnixDiscards, UnixReads, UnixTakes, AppPlaces, DaemonPlaces, daemonVars, requests
  <1> QED BY <1>1, <1>2, <1>3

(* The address of a request is the second parameter, or the request is     *)
(* refused: whatever is left in "params" has address 0 there.              *)
LEMMA RequestAddress ==
  ASSUME DaemonPlaces, NEW h \in Hosts, unixRequest[h] # << >>, UnixAddress(h) # NoAddress
  PROVE  /\ unixRequest[h][1] \in Requests(Handed)
         /\ UnixAddress(h) = unixRequest[h][1].args[2] /\ UnixAddress(h) \in Hosts
  <1> DEFINE f == unixRequest[h][1]
  <1>1. f \in Requests(Handed)
    BY DEF DaemonPlaces
  <1>2. f.args \in Params /\ Len(f.args) = 2 /\ f.args[2] \in Hosts \cup {NoAddress}
    BY <1>1 DEF Requests, Handed, Frames
  <1>3. unixParams[h] \in Params
    BY DEF DaemonPlaces
  <1>4. unixParams[h] = << >>
    <2>1. SUFFICES ASSUME unixParams[h] # << >> PROVE FALSE
      OBVIOUS
    <2>2. Len(unixParams[h]) >= 2 /\ unixParams[h][2] = NoAddress
      BY <2>1 DEF DaemonPlaces
    <2>3. (unixParams[h] \o f.args)[2] = NoAddress
      <3>1. 2 \in 1..Len(unixParams[h])
        BY <1>3, <2>2 DEF Params
      <3>2. \A i \in 1..Len(unixParams[h]) : (unixParams[h] \o f.args)[i] = unixParams[h][i]
        BY <1>2, <1>3, Joined
      <3> QED BY <2>2, <3>1, <3>2
    <2> QED BY <2>3 DEF UnixAddress, UnixParamsWith
  <1>5. unixParams[h] \o f.args = f.args
    BY <1>2, <1>4, ConcatEmptySeq DEF Params
  <1> QED BY <1>1, <1>2, <1>5 DEF UnixAddress, UnixParamsWith

LEMMA UnixOpens ==
  ASSUME TypeInv, NEW h \in Hosts, UnixOpensEndPoint(h)
  PROVE  /\ DaemonPlaces' /\ UNCHANGED toDaemon
         /\ \A g \in Hosts : \A j \in DOMAIN serviceTable[g] :
              j \in DOMAIN serviceTable'[g] /\ serviceTable'[g][j] = serviceTable[g][j]
         /\ \E s \in DOMAIN serviceTable'[h] :
              /\ s # Untabled /\ serviceTable'[h][s] = UnixAddress(h)
              /\ NewEndPoint(unixRequest[h][1].id, s, << >>, <<unixRequest[h][1]>>) \in Opened
              /\ daemonEndPoints' = [daemonEndPoints EXCEPT ![h] =
                   Append(@, NewEndPoint(unixRequest[h][1].id, s, << >>, <<unixRequest[h][1]>>))]
  <1> USE DEF TypeInv
  <1> DEFINE f == unixRequest[h][1]
             known == ServicesByAddress(h, UnixAddress(h))
             ep(s) == NewEndPoint(f.id, s, << >>, <<f>>)
  <1>1. f \in Requests(Handed) /\ UnixAddress(h) \in Hosts
    BY RequestAddress DEF UnixOpensEndPoint
  <1>2. PICK s \in 1..(Len(serviceTable[h]) + 1) :
          /\ IF known # {} THEN s \in known ELSE s = Len(serviceTable[h]) + 1
          /\ serviceTable' = IF known # {} THEN serviceTable
                             ELSE [serviceTable EXCEPT ![h] = Append(@, UnixAddress(h))]
          /\ daemonEndPoints' = [daemonEndPoints EXCEPT ![h] = Append(@, ep(s))]
    BY DEF UnixOpensEndPoint
  <1>3. serviceTable \in [Hosts -> Seq(Hosts)]
    BY DEF DaemonPlaces
  <1>4. s # Untabled /\ s \in Nat
    BY <1>2, <1>3 DEF Untabled
  <1>5. /\ serviceTable' \in [Hosts -> Seq(Hosts)]
        /\ s \in DOMAIN serviceTable'[h] /\ serviceTable'[h][s] = UnixAddress(h)
        /\ \A g \in Hosts : \A j \in DOMAIN serviceTable[g] :
             j \in DOMAIN serviceTable'[g] /\ serviceTable'[g][j] = serviceTable[g][j]
    <2>1. CASE known # {}
      BY <1>2, <1>3, <2>1 DEF ServicesByAddress
    <2>2. CASE known = {}
      <3>1. s = Len(serviceTable[h]) + 1
            /\ serviceTable' = [serviceTable EXCEPT ![h] = Append(@, UnixAddress(h))]
        BY <1>2, <2>2
      <3> QED BY <1>1, <1>3, <3>1
    <2> QED BY <2>1, <2>2
  <1>6. ep(s) = [id |-> f.id, service |-> s, incomingQueue |-> << >>, outgoingQueue |-> <<f>>,
                 inQueue |-> << >>, outQueue |-> << >>]
    BY DEF NewEndPoint
  <1>7. ep(s) \in Opened /\ ep(s).service = s
    <2>1. f \in Handed /\ f.id \in Ids
      BY <1>1 DEF Requests, Handed, Frames
    <2>2. <<f>> \in Seq(Handed) /\ << >> \in Seq(Handed) /\ << >> \in Seq(Sent)
      BY <2>1
    <2> HIDE DEF ep
    <2> QED BY <1>4, <1>6, <2>1, <2>2 DEF Opened
  <1>8. /\ daemonEndPoints' \in [Hosts -> Seq(Opened)]
        /\ \A g \in Hosts : \A i \in DOMAIN daemonEndPoints'[g] :
             daemonEndPoints'[g][i].service \in {Untabled} \cup DOMAIN serviceTable'[g]
    <2> HIDE DEF ep
    <2>0. DaemonPlaces /\ ep(s) \in Opened /\ daemonEndPoints' = [daemonEndPoints EXCEPT ![h] = Append(@, ep(s))]
      BY <1>2, <1>7
    <2>1. /\ daemonEndPoints' \in [Hosts -> Seq(Opened)]
          /\ \A g \in Hosts : g # h => daemonEndPoints'[g] = daemonEndPoints[g]
          /\ \A i \in DOMAIN daemonEndPoints'[h] :
               \/ i \in DOMAIN daemonEndPoints[h] /\ daemonEndPoints'[h][i] = daemonEndPoints[h][i]
               \/ daemonEndPoints'[h][i] = ep(s)
      <3> DEFINE n == Len(daemonEndPoints[h]) + 1
      <3>1. /\ daemonEndPoints' \in [Hosts -> Seq(Opened)]
            /\ \A g \in Hosts : g # h => daemonEndPoints'[g] = daemonEndPoints[g]
            /\ DOMAIN daemonEndPoints'[h] = DOMAIN daemonEndPoints[h] \cup {n}
            /\ \A i \in DOMAIN daemonEndPoints[h] : daemonEndPoints'[h][i] = daemonEndPoints[h][i]
            /\ daemonEndPoints'[h][n] = ep(s)
        BY <2>0, EndPointAdded
      <3> QED BY <3>1
    <2>2. \A g \in Hosts : \A i \in DOMAIN daemonEndPoints[g] :
            daemonEndPoints[g][i].service \in {Untabled} \cup DOMAIN serviceTable'[g]
      BY <1>5, Queued
    <2>3. \A i \in DOMAIN daemonEndPoints'[h] :
            daemonEndPoints'[h][i].service \in {Untabled} \cup DOMAIN serviceTable'[h]
      BY <1>5, <1>7, <2>1, <2>2
    <2> QED BY <2>1, <2>2, <2>3
  <1>9. DaemonPlaces'
    <2>1. UNCHANGED <<net, duplicates, htpRequest>>
          /\ unixParams' = [unixParams EXCEPT ![h] = << >>] /\ unixRequest' = [unixRequest EXCEPT ![h] = << >>]
      BY DEF UnixOpensEndPoint, socketVars
    <2>2. /\ unixRequest' \in [Hosts -> Seq(Requests(Handed))]
          /\ unixParams' \in [Hosts -> Params]
          /\ \A g \in Hosts : unixParams'[g] # << >> =>
               Len(unixParams'[g]) >= 2 /\ unixParams'[g][2] = NoAddress
      BY <2>1 DEF DaemonPlaces, Params
    <2> QED BY <1>5, <1>8, <2>1, <2>2 DEF DaemonPlaces
  <1> QED BY <1>2, <1>4, <1>5, <1>7, <1>9 DEF UnixOpensEndPoint, socketVars

LEMMA HtpTypes ==
  ASSUME TypeInv, NEW d \in BagToSet(net), HtpReadingLoop(d)
  PROVE  DaemonPlaces' /\ UNCHANGED <<toDaemon, toApp, serviceTable>>
  <1> USE DEF TypeInv
  <1>1. HtpReads(d)
    BY DEF HtpReadingLoop, HtpForwards, HtpSeesRequest, HtpDiscards
  <1>2. /\ d.from \in Hosts /\ d.to \in Hosts /\ d.frame \in Sent
        /\ IsABag(net') /\ BagToSet(net') \subseteq BagToSet(net) /\ duplicates' \in 0..MaxDuplicates
    BY <1>1, Received DEF HtpReads
  <1>3. BagToSet(net') \subseteq [from : Hosts, to : Hosts, frame : Sent]
    BY <1>2 DEF DaemonPlaces
  <1>4. CASE HtpForwards(d)
    <2>1. PICK i \in EndPointsByID(d.to, d.frame.id) :
            daemonEndPoints' = [daemonEndPoints EXCEPT ![d.to][i].incomingQueue = Append(@, d.frame)]
      BY <1>4 DEF HtpForwards
    <2> DEFINE x == daemonEndPoints[d.to][i]
               y == [x EXCEPT !.incomingQueue = Append(@, d.frame)]
    <2>2. i \in DOMAIN daemonEndPoints[d.to] /\ x \in Opened
      BY <1>2, Queued DEF EndPointsByID
    <2>3. y \in Opened /\ y.service = x.service
      <3>1. Append(x.incomingQueue, d.frame) \in Seq(Sent)
        BY <1>2, <2>2 DEF Opened
      <3> QED BY <2>2, <3>1 DEF Opened
    <2>4. daemonEndPoints' = [daemonEndPoints EXCEPT ![d.to] = [@ EXCEPT ![i] = y]]
      BY <1>2, <2>1, <2>2 DEF DaemonPlaces
    <2>5. DaemonPlaces /\ UNCHANGED <<serviceTable, requests, unixParams>>
      BY <1>4 DEF HtpForwards
    <2>6. DaemonPlaces'
      <3> HIDE DEF y
      <3> QED BY <1>2, <1>3, <2>2, <2>3, <2>4, <2>5, QueueStep
    <2> QED BY <1>4, <2>6 DEF HtpForwards
  <1>5. CASE HtpSeesRequest(d)
    <2>1. d.frame \in Requests(Sent)
      BY <1>2, <1>5 DEF HtpSeesRequest, Requests
    <2>2. htpRequest' \in [Hosts -> Seq(Requests(Sent))]
      BY <1>5, <2>1 DEF HtpSeesRequest, DaemonPlaces
    <2> QED BY <1>2, <1>3, <1>5, <2>2 DEF HtpSeesRequest, DaemonPlaces
  <1>6. CASE HtpDiscards(d)
    BY <1>2, <1>3, <1>6 DEF HtpDiscards, DaemonPlaces, daemonVars, requests
  <1> QED BY <1>4, <1>5, <1>6 DEF HtpReadingLoop

LEMMA HtpOpens ==
  ASSUME TypeInv, NEW h \in Hosts, HtpOpensEndPoint(h)
  PROVE  /\ DaemonPlaces' /\ UNCHANGED <<toDaemon, toApp, serviceTable>>
         /\ NewEndPoint(htpRequest[h][1].id, ServiceBySessionID(h), <<htpRequest[h][1]>>, << >>) \in Opened
  <1> USE DEF TypeInv
  <1> DEFINE f == htpRequest[h][1]
             s == ServiceBySessionID(h)
             ep == NewEndPoint(f.id, s, <<f>>, << >>)
  <1>1. f \in Requests(Sent) /\ f \in Sent /\ f.id \in Ids
    <2>1. htpRequest[h] # << >> /\ htpRequest[h] \in Seq(Requests(Sent))
      BY DEF HtpOpensEndPoint, DaemonPlaces
    <2>2. f \in Requests(Sent)
      BY <2>1
    <2> QED BY <2>2 DEF Requests, Sent, Frames
  <1>2. s \in Nat /\ s \in {Untabled} \cup DOMAIN serviceTable[h]
    BY DEF ServiceBySessionID, Untabled, DaemonPlaces
  <1>3. ep = [id |-> f.id, service |-> s, incomingQueue |-> <<f>>, outgoingQueue |-> << >>,
              inQueue |-> << >>, outQueue |-> << >>]
    BY DEF NewEndPoint
  <1>4. <<f>> \in Seq(Sent) /\ << >> \in Seq(Handed) /\ << >> \in Seq(Sent)
    BY <1>1
  <1>5. ep \in Opened /\ ep.service = s
    <2> HIDE DEF ep, s
    <2> QED BY <1>1, <1>2, <1>3, <1>4 DEF Opened
  <1>6. daemonEndPoints' = [daemonEndPoints EXCEPT ![h] = Append(@, ep)]
    BY DEF HtpOpensEndPoint
  <1>7. UNCHANGED <<net, duplicates, toDaemon, toApp, unixRequest, unixParams, serviceTable>>
        /\ htpRequest' = [htpRequest EXCEPT ![h] = << >>]
    BY DEF HtpOpensEndPoint, socketVars
  <1>8. /\ daemonEndPoints' \in [Hosts -> Seq(Opened)]
        /\ \A g \in Hosts : \A i \in DOMAIN daemonEndPoints'[g] :
             daemonEndPoints'[g][i].service \in {Untabled} \cup DOMAIN serviceTable[g]
    <2> DEFINE n == Len(daemonEndPoints[h]) + 1
    <2> HIDE DEF ep
    <2>1. /\ daemonEndPoints' \in [Hosts -> Seq(Opened)]
          /\ \A g \in Hosts : g # h => daemonEndPoints'[g] = daemonEndPoints[g]
          /\ DOMAIN daemonEndPoints'[h] = DOMAIN daemonEndPoints[h] \cup {n}
          /\ \A i \in DOMAIN daemonEndPoints[h] : daemonEndPoints'[h][i] = daemonEndPoints[h][i]
          /\ daemonEndPoints'[h][n] = ep
      BY <1>5, <1>6, EndPointAdded
    <2> QED BY <1>2, <1>5, <2>1, Queued
  <1>9. htpRequest' \in [Hosts -> Seq(Requests(Sent))]
    BY <1>7 DEF DaemonPlaces
  <1> QED BY <1>5, <1>7, <1>8, <1>9 DEF DaemonPlaces

LEMMA Shorter ==
  ASSUME NEW f \in Handed
  PROVE  /\ Outgoing(f) \in Sent /\ Outgoing(f).id = f.id /\ Outgoing(f).cmd = f.cmd
         /\ f.cmd = "STEP1" => Outgoing(f).args = <<f.args[1]>>
         /\ f.cmd # "STEP1" => Outgoing(f) = f
  <1>1. CASE f.cmd = "STEP1"
    <2>1. <<f.args[1]>> \in Params /\ Len(<<f.args[1]>>) = 1 /\ <<f.args[1]>>[1] = f.args[1]
      BY <1>1 DEF Handed, Params
    <2>2. Outgoing(f) = [f EXCEPT !.args = <<f.args[1]>>] /\ f \in Frames
      BY <1>1 DEF Outgoing, Handed
    <2> QED BY <1>1, <2>1, <2>2 DEF Handed, Sent, Frames, Proper
  <1>2. CASE f.cmd # "STEP1"
    BY <1>2 DEF Outgoing, Handed, Sent
  <1> QED BY <1>1, <1>2

LEMMA ThreadTypes ==
  ASSUME TypeInv, NEW h \in Hosts, NEW i \in DOMAIN daemonEndPoints[h], EndPointThreads(h, i)
  PROVE  DaemonPlaces' /\ toApp' \in [Hosts -> Seq(Sent)] /\ UNCHANGED <<toDaemon, serviceTable>>
  <1> USE DEF TypeInv
  <1> DEFINE x == daemonEndPoints[h][i]
  <1>1. x \in Opened
    BY Queued
  <1>2. CASE ProcessingIncomingMessage(h, i)
    <2> DEFINE f == Head(x.incomingQueue)
               q == IF f.cmd = "STEP3" THEN x.inQueue ELSE Append(x.inQueue, f)
               y == [x EXCEPT !.incomingQueue = Tail(@), !.inQueue = q]
    <2>1. x.incomingQueue # << >> /\ UNCHANGED <<socketVars, serviceTable, requests, unixParams>>
          /\ daemonEndPoints' = [daemonEndPoints EXCEPT ![h] = [@ EXCEPT ![i] = y]]
      BY <1>2 DEF ProcessingIncomingMessage, DaemonPlaces
    <2>2. f \in Sent /\ Tail(x.incomingQueue) \in Seq(Sent) /\ q \in Seq(Sent)
      BY <1>1, <2>1 DEF Opened
    <2>3. y \in Opened /\ y.service = x.service
      <3> HIDE DEF q
      <3> QED BY <1>1, <2>2 DEF Opened
    <2> HIDE DEF y
    <2> QED BY <1>1, <2>1, <2>3, QueueStep DEF socketVars, DaemonPlaces, AppPlaces
  <1>3. CASE ProcessingOutgoingMessage(h, i)
    <2> DEFINE f == Head(x.outgoingQueue)
               q == IF f.cmd = "STEP3" THEN Append(x.inQueue, f) ELSE x.inQueue
               o == Append(x.outQueue, Outgoing(f))
               y == [x EXCEPT !.outgoingQueue = Tail(@), !.outQueue = o, !.inQueue = q]
    <2>1. x.outgoingQueue # << >> /\ UNCHANGED <<socketVars, serviceTable, requests, unixParams>>
          /\ daemonEndPoints' = [daemonEndPoints EXCEPT ![h] = [@ EXCEPT ![i] = y]]
      BY <1>3 DEF ProcessingOutgoingMessage, DaemonPlaces
    <2>2. f \in Handed /\ Tail(x.outgoingQueue) \in Seq(Handed) /\ x.service # Untabled
      BY <1>1, <2>1 DEF Opened
    <2>3. o \in Seq(Sent) /\ q \in Seq(Sent)
      <3>1. Outgoing(f) \in Sent /\ (f.cmd = "STEP3" => f \in Sent)
        BY <2>2, Shorter
      <3> HIDE DEF f
      <3> QED BY <1>1, <3>1 DEF Opened
    <2>4. y \in Opened /\ y.service = x.service
      <3> HIDE DEF q, o
      <3> QED BY <1>1, <2>2, <2>3 DEF Opened
    <2> HIDE DEF y
    <2> QED BY <1>1, <2>1, <2>4, QueueStep DEF socketVars, DaemonPlaces, AppPlaces
  <1>4. CASE SendPacketToApp(h, i)
    <2> DEFINE y == [x EXCEPT !.inQueue = Tail(@)]
    <2>1. x.inQueue # << >> /\ UNCHANGED <<toDaemon, net, duplicates, serviceTable, requests, unixParams>>
          /\ daemonEndPoints' = [daemonEndPoints EXCEPT ![h] = [@ EXCEPT ![i] = y]]
          /\ toApp' = [toApp EXCEPT ![h] = Append(@, Head(x.inQueue))]
      BY <1>4 DEF SendPacketToApp, DaemonPlaces
    <2>2. Head(x.inQueue) \in Sent /\ Tail(x.inQueue) \in Seq(Sent)
      BY <1>1, <2>1 DEF Opened
    <2>3. y \in Opened /\ y.service = x.service
      BY <1>1, <2>2 DEF Opened
    <2> HIDE DEF y
    <2>4. DaemonPlaces'
      BY <1>1, <2>1, <2>3, QueueStep DEF DaemonPlaces
    <2> QED BY <2>1, <2>2, <2>4 DEF AppPlaces
  <1>5. CASE SendPacketOutside(h, i)
    <2> DEFINE y == [x EXCEPT !.outQueue = Tail(@)]
               d == Datagram(h, serviceTable[h][x.service], Head(x.outQueue))
    <2>1. x.outQueue # << >> /\ UNCHANGED <<toDaemon, toApp, duplicates, serviceTable, requests, unixParams>>
          /\ daemonEndPoints' = [daemonEndPoints EXCEPT ![h] = [@ EXCEPT ![i] = y]]
          /\ net' = BagAdd(net, d)
      BY <1>5 DEF SendPacketOutside, DaemonPlaces
    <2>2. Head(x.outQueue) \in Sent /\ Tail(x.outQueue) \in Seq(Sent) /\ x.service # Untabled
      BY <1>1, <2>1 DEF Opened
    <2>3. y \in Opened /\ y.service = x.service
      BY <1>1, <2>2 DEF Opened
    <2>4. d \in [from : Hosts, to : Hosts, frame : Sent]
      <3>1. serviceTable[h][x.service] \in Hosts
        BY <2>2, Queued DEF DaemonPlaces
      <3> QED BY <2>2, <3>1 DEF Datagram
    <2> HIDE DEF y, d
    <2>5. IsABag(net') /\ BagToSet(net') \subseteq [from : Hosts, to : Hosts, frame : Sent]
      BY <2>1, <2>4, Outbound DEF DaemonPlaces
    <2>6. DaemonPlaces'
      BY <1>1, <2>1, <2>3, <2>5, QueueStep DEF DaemonPlaces
    <2> QED BY <2>1, <2>6 DEF AppPlaces
  <1> QED BY <1>2, <1>3, <1>4, <1>5 DEF EndPointThreads

LEMMA DaemonTypes == ASSUME TypeInv, DaemonNext, UNCHANGED appVars PROVE TypeInv'
  <1>1. DaemonPlaces' /\ toDaemon' \in [Hosts -> Seq(Handed)] /\ toApp' \in [Hosts -> Seq(Sent)]
    <2>1. ASSUME NEW h \in Hosts, UnixReadingLoop(h) PROVE <1>1!:
      <3>1. DaemonPlaces' /\ toDaemon' \in [Hosts -> Seq(Handed)]
        BY <2>1, UnixForwardTypes, UnixRequestTypes, UnixOpens DEF UnixReadingLoop, TypeInv, AppPlaces
      <3>2. UNCHANGED toApp
        BY <2>1 DEF UnixReadingLoop, UnixForwards, UnixSeesRequest, UnixOpensEndPoint, UnixRefusesAddress,
                    UnixDiscards, socketVars
      <3> QED BY <3>1, <3>2 DEF TypeInv, AppPlaces
    <2>2. ASSUME NEW h \in Hosts, HtpOpensEndPoint(h) PROVE <1>1!:
      BY <2>2, HtpOpens DEF TypeInv, AppPlaces
    <2>3. ASSUME NEW d \in BagToSet(net), HtpReadingLoop(d) PROVE <1>1!:
      BY <2>3, HtpTypes DEF TypeInv, AppPlaces
    <2>4. ASSUME NEW h \in Hosts, NEW i \in DOMAIN daemonEndPoints[h], EndPointThreads(h, i) PROVE <1>1!:
      BY <2>4, ThreadTypes DEF TypeInv, AppPlaces
    <2> QED BY <2>1, <2>2, <2>3, <2>4 DEF DaemonNext
  <1>2. UNCHANGED <<endPoints, connectionRequest, crashed>>
    BY DEF appVars
  <1>3. Calls' /\ Turns' /\ AppPlaces'
    BY <1>1, <1>2 DEF TypeInv, Calls, Turns, AppPlaces, Servers
  <1> QED BY <1>1, <1>3 DEF TypeInv

LEMMA NextTypes == TypeInv /\ [Next]_vars => TypeInv'
  <1> SUFFICES ASSUME TypeInv, [Next]_vars PROVE TypeInv'
    OBVIOUS
  <1>1. CASE UNCHANGED vars
    BY <1>1 DEF vars, socketVars, daemonVars, requests, appVars, TypeInv, Calls, Turns, Servers, AppPlaces,
                DaemonPlaces
  <1>2. CASE Next
    BY <1>2, AppTypes, DaemonTypes DEF Next
  <1> QED BY <1>1, <1>2

LEMMA TypesCorrect == Spec => []TypeInv
  BY InitTypes, NextTypes, PTL DEF Spec

LEMMA TypeInvSays == TypeInv => TypeOK
  <1> SUFFICES ASSUME TypeInv PROVE TypeOK
    OBVIOUS
  <1>1. Handed \subseteq Frames /\ Sent \subseteq Frames /\ Requests(Handed) \subseteq Frames
        /\ Requests(Sent) \subseteq Frames
    BY DEF Handed, Sent, Requests
  <1>2. Opened \subseteq DaemonEntries
    BY <1>1, SeqMonotonic DEF Opened, DaemonEntries
  <1>3. /\ toDaemon \in [Hosts -> Seq(Frames)] /\ toApp \in [Hosts -> Seq(Frames)]
        /\ connectionRequest \in [Hosts -> Seq(Frames)] /\ crashed \subseteq Hosts
    BY <1>1 DEF TypeInv, AppPlaces
  <1>4. /\ IsABag(net) /\ BagToSet(net) \subseteq [from : Hosts, to : Hosts, frame : Frames]
        /\ duplicates \in 0..MaxDuplicates
        /\ unixRequest \in [Hosts -> Seq(Frames)] /\ htpRequest \in [Hosts -> Seq(Frames)]
        /\ unixParams \in [Hosts -> Params]
    BY <1>1 DEF TypeInv, DaemonPlaces
  <1>5. /\ serviceTable \in [Hosts -> Seq(Hosts)]
        /\ daemonEndPoints \in [Hosts -> Seq(DaemonEntries)]
        /\ \A h \in Hosts : \A i \in DOMAIN daemonEndPoints[h] :
             daemonEndPoints[h][i].service \in {Untabled} \cup DOMAIN serviceTable[h]
    BY <1>2 DEF TypeInv, DaemonPlaces
  <1>6. /\ endPoints \in [Hosts -> Seq(ClientEntries \cup ServerEntries)]
        /\ \A h \in Hosts : DOMAIN endPoints[h] \subseteq Slots
    BY Slotted DEF TypeInv, Calls, Entries
  <1> QED BY <1>3, <1>4, <1>5, <1>6 DEF TypeOK

(* Every variable has its type: whatever is called, lost, duplicated or    *)
(* overtaken, a frame carries the parameters of its command, each loop     *)
(* finds the parameters it reads, a server trusts challenges only and      *)
(* nothing is sent to a service that is not in the table.                  *)
THEOREM TypeCorrect == Spec => []TypeOK
  BY TypesCorrect, TypeInvSays, PTL

(* getEndPointByID hands all frames of an ID to the first endpoint that    *)
(* has it: no call of establishConnection is accepted twice on a host,     *)
(* whatever the network replays and whatever challenges are repeated.      *)
THEOREM AcceptedAtMostOnce == Spec => []AcceptedOnce
  <1>1. TypeInv => AcceptedOnce
    <2> SUFFICES ASSUME TypeInv, NEW h \in Hosts, NEW s \in DOMAIN endPoints[h], NEW t \in DOMAIN endPoints[h],
                        endPoints[h][s].role = "server", endPoints[h][s].phase = "connected",
                        endPoints[h][t].role = "server", endPoints[h][t].phase = "connected",
                        endPoints[h][s].id = endPoints[h][t].id
                 PROVE  s = t
      BY DEF AcceptedOnce
    <2>1. s \in Servers(h) /\ t \in Servers(h) /\ s \in Nat /\ t \in Nat
      BY Entered DEF TypeInv, Servers
    <2>2. ~(s < t) /\ ~(t < s)
      BY <2>1 DEF TypeInv, Turns
    <2> QED BY <2>1, <2>2
  <1> QED BY <1>1, TypesCorrect, PTL

-----------------------------------------------------------------------------
(* What the calls know of each other, provided that an endpoint ID tells   *)
(* calls apart.  The invariant follows a frame from the call that sent it: *)
(* a STEP1 is of a client and travels to the host it asked for, a STEP2    *)
(* repeats what some server sent, a STEP4 answers a client that returned   *)
(* its endpoint.                                                           *)

(* Facts about the calls that stay true. *)
Asked(h, id, challenge, peer) ==
  \E i \in DOMAIN endPoints[h] :
    /\ endPoints[h][i].role = "client" /\ endPoints[h][i].id = id
    /\ endPoints[h][i].challengeSent = challenge /\ endPoints[h][i].peer = peer
Replied(h, id, received, sent) ==
  \E i \in DOMAIN endPoints[h] :
    /\ endPoints[h][i].role = "server" /\ endPoints[h][i].phase # "listening"
    /\ endPoints[h][i].id = id
    /\ endPoints[h][i].challengeReceived = received /\ endPoints[h][i].challengeSent = sent
Confirmed(id, received) ==
  \E h \in Hosts : \E i \in DOMAIN endPoints[h] :
    /\ endPoints[h][i].role = "client" /\ endPoints[h][i].phase = "connected"
    /\ endPoints[h][i].id = id /\ endPoints[h][i].challengeReceived = received

(* Frames on their way out of the host of a client, there without the      *)
(* address, and from the network on.  When a STEP1 has left its host, the  *)
(* daemon there knows its endpoint.                                        *)
Answers(f) ==
  /\ f.cmd = "STEP2" => \E h \in Hosts : Replied(h, f.id, f.args[1], f.args[2])
  /\ f.cmd = "STEP4" => Confirmed(f.id, f.args[1])
Leaving(h) ==
  {f \in Handed : Answers(f) /\ (f.cmd = "STEP1" => Asked(h, f.id, f.args[1], f.args[2]))}
Shortened(h) ==
  {f \in Sent : Answers(f) /\ (f.cmd = "STEP1" => \E p \in Hosts : Asked(h, f.id, f.args[1], p))}
Arriving(h) ==
  {f \in Sent : /\ Answers(f)
                /\ f.cmd = "STEP1" => \E g \in Hosts : /\ Asked(g, f.id, f.args[1], h)
                                                       /\ EndPointsByID(g, f.id) # {}}
FromElsewhere(h) ==
  {f \in Requests(Arriving(h)) : \E g \in Hosts \ {h} : Asked(g, f.id, f.args[1], h)}
Of(frames, id) == {f \in frames : f.id = id}

ClientKnows(e) ==
  /\ e.phase = "got2" => \E g \in Hosts : Replied(g, e.id, e.params[1], e.params[2])
  /\ e.phase \in {"exchanged", "wait3", "got3", "connected"} =>
       e.peer \in Hosts /\ Replied(e.peer, e.id, e.challengeSent, e.challengeReceived)
ServerKnows(h, e) ==
  /\ e.phase # "listening" => \E g \in Hosts : Asked(g, e.id, e.challengeReceived, h)
  /\ e.phase = "got4" => Confirmed(e.id, e.params[1])
  /\ e.phase = "connected" => Confirmed(e.id, e.challengeSent)
Knowledge ==
  \A h \in Hosts : \A i \in DOMAIN endPoints[h] :
    /\ endPoints[h][i].role = "client" => ClientKnows(endPoints[h][i])
    /\ endPoints[h][i].role = "server" => ServerKnows(h, endPoints[h][i])

(* Where the frames are. *)
AppFrames ==
  \A h \in Hosts :
    /\ toDaemon[h] \in Seq(Leaving(h))
    /\ toApp[h] \in Seq(Arriving(h))
    /\ connectionRequest[h] \in Seq(Requests(Arriving(h)))
NetFrames == \A d \in BagToSet(net) : d.frame \in Arriving(d.to)
LoopFrames ==
  \A h \in Hosts :
    /\ unixRequest[h] \in Seq(Requests(Leaving(h)))
    /\ htpRequest[h] \in Seq(FromElsewhere(h))

(* An endpoint's frames carry its ID, which is that of a call.  On the     *)
(* host of the call its service has the address the call asked for.        *)
Serves(h, x) ==
  \E g \in Hosts : \E i \in DOMAIN endPoints[g] :
    /\ endPoints[g][i].role = "client" /\ endPoints[g][i].id = x.id
    /\ g = h => x.service # Untabled /\ serviceTable[h][x.service] = endPoints[g][i].peer
Holds(h, x) ==
  /\ x.incomingQueue \in Seq(Of(Arriving(h), x.id))
  /\ x.outgoingQueue \in Seq(Of(Leaving(h), x.id))
  /\ x.inQueue \in Seq(Of(Arriving(h), x.id))
  /\ x.outQueue \in Seq(Of(Shortened(h), x.id))
EndPointFrames ==
  \A h \in Hosts : \A i \in DOMAIN daemonEndPoints[h] :
    Serves(h, daemonEndPoints[h][i]) /\ Holds(h, daemonEndPoints[h][i])

HandshakeInv == Knowledge /\ AppFrames /\ NetFrames /\ LoopFrames /\ EndPointFrames
-----------------------------------------------------------------------------
LEMMA InitHandshake == Init => HandshakeInv
  <1> SUFFICES ASSUME Init PROVE HandshakeInv
    OBVIOUS
  <1>1. \A h \in Hosts : DOMAIN endPoints[h] = {} /\ DOMAIN daemonEndPoints[h] = {}
    BY DEF Init, AppInit, DaemonInit
  <1>2. Knowledge /\ EndPointFrames
    BY <1>1 DEF Knowledge, EndPointFrames
  <1>3. AppFrames /\ LoopFrames
    BY DEF Init, AppInit, SocketsInit, DaemonInit, AppFrames, LoopFrames
  <1>4. BagToSet(net) = {}
    BY DEF Init, SocketsInit, EmptyBag, SetToBag, BagToSet
  <1> QED BY <1>2, <1>3, <1>4 DEF HandshakeInv, NetFrames

(* Calls that have the same ID are made on one host and ask for one host.  *)
LEMMA OneCaller ==
  ASSUME IdsTellCalls, Calls, NEW g \in Hosts, NEW h \in Hosts,
         NEW i \in DOMAIN endPoints[g], NEW j \in DOMAIN endPoints[h],
         endPoints[g][i].role = "client", endPoints[h][j].role = "client",
         endPoints[g][i].id = endPoints[h][j].id
  PROVE  g = h /\ endPoints[g][i].peer = endPoints[h][j].peer
  <1> DEFINE c == endPoints[g][i]
             d == endPoints[h][j]
  <1>1. c \in ClientEntries /\ d \in ClientEntries
    BY Entered, Roles
  <1>2. /\ c.attempt \in Attempts /\ ClientOf[c.attempt] = g /\ IdOf[c.attempt] = c.id /\ c.peer \in Addresses(c.attempt)
        /\ d.attempt \in Attempts /\ ClientOf[d.attempt] = h /\ IdOf[d.attempt] = d.id /\ d.peer \in Addresses(d.attempt)
    BY <1>1 DEF Calls, CallEntry, ClientEntries
  <1>3. /\ ClientOf[c.attempt] = ClientOf[d.attempt] /\ ServerOf[c.attempt] = ServerOf[d.attempt]
        /\ ServerOf[c.attempt] = Invalid => c.attempt = d.attempt
    BY <1>2 DEF IdsTellCalls
  <1>4. g = h
    BY <1>2, <1>3
  <1>5. CASE ServerOf[c.attempt] = Invalid
    <2>1. i = j
      BY <1>3, <1>4, <1>5 DEF Calls
    <2> QED BY <1>4, <2>1
  <1>6. CASE ServerOf[c.attempt] # Invalid
    BY <1>2, <1>3, <1>4, <1>6 DEF Addresses
  <1> QED BY <1>4, <1>5, <1>6

-----------------------------------------------------------------------------
(* What was asked, replied, confirmed or opened stays so. *)
Outlives(e, f) ==
  /\ f.role = e.role
  /\ e.role = "client" =>
       /\ f.id = e.id /\ f.challengeSent = e.challengeSent /\ f.peer = e.peer
       /\ e.phase = "connected" => f.phase = "connected" /\ f.challengeReceived = e.challengeReceived
  /\ e.role = "server" /\ e.phase # "listening" =>
       /\ f.phase # "listening" /\ f.id = e.id
       /\ f.challengeReceived = e.challengeReceived /\ f.challengeSent = e.challengeSent
CallsGrow ==
  \A h \in Hosts : \A i \in DOMAIN endPoints[h] :
    i \in DOMAIN endPoints'[h] /\ Outlives(endPoints[h][i], endPoints'[h][i])
EndPointsGrow ==
  \A h \in Hosts : \A i \in DOMAIN daemonEndPoints[h] :
    /\ i \in DOMAIN daemonEndPoints'[h]
    /\ daemonEndPoints'[h][i].id = daemonEndPoints[h][i].id
    /\ daemonEndPoints'[h][i].service = daemonEndPoints[h][i].service
TablesGrow ==
  \A h \in Hosts : \A s \in DOMAIN serviceTable[h] :
    s \in DOMAIN serviceTable'[h] /\ serviceTable'[h][s] = serviceTable[h][s]

LEMMA AskedStays ==
  ASSUME CallsGrow, NEW h \in Hosts, NEW id, NEW c, NEW p, Asked(h, id, c, p) PROVE Asked(h, id, c, p)'
  BY DEF CallsGrow, Outlives, Asked

LEMMA RepliedStays ==
  ASSUME CallsGrow, NEW h \in Hosts, NEW id, NEW r, NEW s, Replied(h, id, r, s) PROVE Replied(h, id, r, s)'
  BY DEF CallsGrow, Outlives, Replied

LEMMA ConfirmedStays ==
  ASSUME CallsGrow, NEW id, NEW r, Confirmed(id, r) PROVE Confirmed(id, r)'
  BY DEF CallsGrow, Outlives, Confirmed

LEMMA AnswersStay == ASSUME CallsGrow, NEW f, Answers(f) PROVE Answers(f)'
  BY RepliedStays, ConfirmedStays DEF Answers

LEMMA PlacesGrow ==
  ASSUME CallsGrow, EndPointsGrow, NEW h \in Hosts
  PROVE  /\ Leaving(h) \subseteq Leaving(h)' /\ Shortened(h) \subseteq Shortened(h)'
         /\ Arriving(h) \subseteq Arriving(h)' /\ FromElsewhere(h) \subseteq FromElsewhere(h)'
  <1>1. \A f : Answers(f) => Answers(f)'
    BY AnswersStay
  <1>2. \A g \in Hosts : \A f, p : Asked(g, f.id, f.args[1], p) => Asked(g, f.id, f.args[1], p)'
    BY AskedStays
  <1>3. \A g \in Hosts : \A f : EndPointsByID(g, f.id) # {} => EndPointsByID(g, f.id)' # {}
    BY DEF EndPointsGrow, EndPointsByID
  <1>4. Leaving(h) \subseteq Leaving(h)'
    BY <1>1, <1>2 DEF Leaving
  <1>5. Shortened(h) \subseteq Shortened(h)'
    BY <1>1, <1>2 DEF Shortened
  <1>6. Arriving(h) \subseteq Arriving(h)'
    BY <1>1, <1>2, <1>3 DEF Arriving
  <1>7. FromElsewhere(h) \subseteq FromElsewhere(h)'
    BY <1>2, <1>6 DEF FromElsewhere, Requests
  <1> QED BY <1>4, <1>5, <1>6, <1>7

LEMMA KnowledgeStays ==
  ASSUME CallsGrow, NEW e
  PROVE  /\ ClientKnows(e) => ClientKnows(e)'
         /\ \A h \in Hosts : ServerKnows(h, e) => ServerKnows(h, e)'
  <1>1. \A g \in Hosts : \A r, s : Replied(g, e.id, r, s) => Replied(g, e.id, r, s)'
    BY RepliedStays
  <1>2. \A g \in Hosts : \A c, p : Asked(g, e.id, c, p) => Asked(g, e.id, c, p)'
    BY AskedStays
  <1>3. \A r : Confirmed(e.id, r) => Confirmed(e.id, r)'
    BY ConfirmedStays
  <1>4. ClientKnows(e) => ClientKnows(e)'
    BY <1>1 DEF ClientKnows
  <1>5. \A h \in Hosts : ServerKnows(h, e) => ServerKnows(h, e)'
    BY <1>2, <1>3 DEF ServerKnows
  <1> QED BY <1>4, <1>5

LEMMA FramesStay ==
  ASSUME TypeInv, HandshakeInv, CallsGrow, EndPointsGrow
  PROVE  /\ \A h \in Hosts : /\ toDaemon[h] \in Seq(Leaving(h)')
                             /\ toApp[h] \in Seq(Arriving(h)')
                             /\ connectionRequest[h] \in Seq(Requests(Arriving(h)'))
                             /\ unixRequest[h] \in Seq(Requests(Leaving(h)'))
                             /\ htpRequest[h] \in Seq(FromElsewhere(h)')
         /\ \A d \in BagToSet(net) : d.frame \in Arriving(d.to)'
  <1>1. ASSUME NEW h \in Hosts
        PROVE  /\ toDaemon[h] \in Seq(Leaving(h)') /\ toApp[h] \in Seq(Arriving(h)')
               /\ connectionRequest[h] \in Seq(Requests(Arriving(h)'))
               /\ unixRequest[h] \in Seq(Requests(Leaving(h)'))
               /\ htpRequest[h] \in Seq(FromElsewhere(h)')
    <2>1. /\ Leaving(h) \subseteq Leaving(h)' /\ Arriving(h) \subseteq Arriving(h)'
          /\ FromElsewhere(h) \subseteq FromElsewhere(h)'
      BY PlacesGrow
    <2>2. /\ Requests(Leaving(h)) \subseteq Requests(Leaving(h)')
          /\ Requests(Arriving(h)) \subseteq Requests(Arriving(h)')
      BY <2>1 DEF Requests
    <2>3. /\ Seq(Leaving(h)) \subseteq Seq(Leaving(h)') /\ Seq(Arriving(h)) \subseteq Seq(Arriving(h)')
          /\ Seq(FromElsewhere(h)) \subseteq Seq(FromElsewhere(h)')
      BY <2>1, SeqMonotonic
    <2>4. /\ Seq(Requests(Leaving(h))) \subseteq Seq(Requests(Leaving(h)'))
          /\ Seq(Requests(Arriving(h))) \subseteq Seq(Requests(Arriving(h)'))
      BY <2>2, SeqMonotonic
    <2> QED BY <2>3, <2>4 DEF HandshakeInv, AppFrames, LoopFrames
  <1>2. \A d \in BagToSet(net) : d.frame \in Arriving(d.to)'
    <2>1. \A d \in BagToSet(net) : d.to \in Hosts /\ d.frame \in Arriving(d.to)
      BY DEF TypeInv, DaemonPlaces, HandshakeInv, NetFrames
    <2> QED BY <2>1, PlacesGrow
  <1> QED BY <1>1, <1>2

LEMMA HoldsStays ==
  ASSUME CallsGrow, EndPointsGrow, NEW h \in Hosts, NEW x, Holds(h, x)
  PROVE  Holds(h, x)'
  <1>1. /\ Leaving(h) \subseteq Leaving(h)' /\ Arriving(h) \subseteq Arriving(h)'
        /\ Shortened(h) \subseteq Shortened(h)'
    BY PlacesGrow
  <1>2. /\ Of(Leaving(h), x.id) \subseteq Of(Leaving(h)', x.id)
        /\ Of(Arriving(h), x.id) \subseteq Of(Arriving(h)', x.id)
        /\ Of(Shortened(h), x.id) \subseteq Of(Shortened(h)', x.id)
    BY <1>1 DEF Of
  <1>3. /\ Seq(Of(Leaving(h), x.id)) \subseteq Seq(Of(Leaving(h)', x.id))
        /\ Seq(Of(Arriving(h), x.id)) \subseteq Seq(Of(Arriving(h)', x.id))
        /\ Seq(Of(Shortened(h), x.id)) \subseteq Seq(Of(Shortened(h)', x.id))
    BY <1>2, SeqMonotonic
  <1> QED BY <1>3 DEF Holds

LEMMA ServesStays ==
  ASSUME CallsGrow, TablesGrow, NEW h \in Hosts, NEW x, Serves(h, x),
         x.service \in {Untabled} \cup DOMAIN serviceTable[h]
  PROVE  Serves(h, x)'
  BY DEF CallsGrow, TablesGrow, Outlives, Serves

LEMMA EndPointFramesStay ==
  ASSUME TypeInv, HandshakeInv, CallsGrow, UNCHANGED daemonVars
  PROVE  LoopFrames' /\ EndPointFrames'
  <1>1. EndPointsGrow /\ TablesGrow
    BY DEF EndPointsGrow, TablesGrow, daemonVars
  <1>2. LoopFrames'
    BY <1>1, FramesStay DEF LoopFrames, daemonVars, requests
  <1>3. ASSUME NEW h \in Hosts, NEW i \in DOMAIN daemonEndPoints[h], NEW x, x = daemonEndPoints[h][i]
        PROVE  Serves(h, x)' /\ Holds(h, x)'
    <2>1. Serves(h, x) /\ Holds(h, x) /\ x.service \in {Untabled} \cup DOMAIN serviceTable[h]
      BY <1>3, Queued DEF HandshakeInv, EndPointFrames, TypeInv
    <2> QED BY <1>1, <2>1, HoldsStays, ServesStays
  <1>4. EndPointFrames'
    <2> SUFFICES ASSUME NEW h \in Hosts, NEW i \in DOMAIN daemonEndPoints'[h]
                 PROVE  (Serves(h, daemonEndPoints[h][i]) /\ Holds(h, daemonEndPoints[h][i]))'
      BY DEF EndPointFrames
    <2>1. UNCHANGED daemonEndPoints
      BY DEF daemonVars
    <2>2. PICK x : x = daemonEndPoints[h][i]
      OBVIOUS
    <2> QED BY <1>3, <2>1, <2>2
  <1> QED BY <1>2, <1>4

-----------------------------------------------------------------------------
(* The steps of the calls. *)
LEMMA Moved ==
  ASSUME NEW S, NEW q \in Seq(S), NEW r,
         r = q \/ (q # << >> /\ r = Tail(q)) \/ \E f \in S : r = Append(q, f)
  PROVE  r \in Seq(S)
  OBVIOUS

LEMMA AppFramesStep ==
  ASSUME TypeInv, HandshakeInv, CallsGrow, UNCHANGED daemonVars, UNCHANGED net, NEW h \in Hosts,
         \A g \in Hosts : g # h => /\ toDaemon'[g] = toDaemon[g] /\ toApp'[g] = toApp[g]
                                  /\ connectionRequest'[g] = connectionRequest[g],
         \/ toDaemon'[h] = toDaemon[h]
         \/ \E f \in Leaving(h)' : toDaemon'[h] = Append(toDaemon[h], f),
         \/ toApp'[h] = toApp[h]
         \/ toApp[h] # << >> /\ toApp'[h] = Tail(toApp[h]),
         \/ connectionRequest'[h] = connectionRequest[h]
         \/ connectionRequest[h] # << >> /\ connectionRequest'[h] = Tail(connectionRequest[h])
         \/ \E f \in Requests(Arriving(h)') : connectionRequest'[h] = Append(connectionRequest[h], f)
  PROVE  AppFrames' /\ NetFrames' /\ LoopFrames' /\ EndPointFrames'
  <1>1. EndPointsGrow
    BY DEF EndPointsGrow, daemonVars
  <1>2. LoopFrames' /\ EndPointFrames'
    BY EndPointFramesStay
  <1>3. NetFrames'
    BY <1>1, FramesStay DEF NetFrames
  <1>4. \A g \in Hosts : /\ toDaemon[g] \in Seq(Leaving(g)') /\ toApp[g] \in Seq(Arriving(g)')
                         /\ connectionRequest[g] \in Seq(Requests(Arriving(g)'))
    BY <1>1, FramesStay
  <1>5. /\ toDaemon'[h] \in Seq(Leaving(h)') /\ toApp'[h] \in Seq(Arriving(h)')
        /\ connectionRequest'[h] \in Seq(Requests(Arriving(h)'))
    <2>1. /\ toDaemon[h] \in Seq(Leaving(h)') /\ toApp[h] \in Seq(Arriving(h)')
          /\ connectionRequest[h] \in Seq(Requests(Arriving(h)'))
      BY <1>4
    <2>2. toDaemon'[h] \in Seq(Leaving(h)')
      BY <2>1, Moved
    <2>3. toApp'[h] \in Seq(Arriving(h)')
      BY <2>1, Moved
    <2>4. connectionRequest'[h] \in Seq(Requests(Arriving(h)'))
      BY <2>1, Moved
    <2> QED BY <2>2, <2>3, <2>4
  <1> QED BY <1>2, <1>3, <1>4, <1>5 DEF AppFrames

LEMMA Changed ==
  ASSUME TypeInv, HandshakeInv, NEW h \in Hosts, NEW i \in DOMAIN endPoints[h], NEW e \in Entries,
         endPoints' = [endPoints EXCEPT ![h] = [@ EXCEPT ![i] = e]],
         Outlives(endPoints[h][i], e)
  PROVE  /\ CallsGrow
         /\ (e.role = "client" => ClientKnows(e)') /\ (e.role = "server" => ServerKnows(h, e)')
              => Knowledge'
  <1>1. /\ \A g \in Hosts : DOMAIN endPoints'[g] = DOMAIN endPoints[g]
        /\ \A g \in Hosts : \A j \in DOMAIN endPoints[g] :
             endPoints'[g][j] = IF g = h /\ j = i THEN e ELSE endPoints[g][j]
    BY EntryChanged DEF TypeInv
  <1>2. CallsGrow
    BY <1>1 DEF CallsGrow, Outlives
  <1>3. ASSUME e.role = "client" => ClientKnows(e)', e.role = "server" => ServerKnows(h, e)'
        PROVE  Knowledge'
    <2> SUFFICES ASSUME NEW g \in Hosts, NEW j \in DOMAIN endPoints'[g]
                 PROVE  (/\ endPoints[g][j].role = "client" => ClientKnows(endPoints[g][j])
                         /\ endPoints[g][j].role = "server" => ServerKnows(g, endPoints[g][j]))'
      BY DEF Knowledge
    <2>1. PICK x : x = endPoints'[g][j]
      OBVIOUS
    <2>2. CASE g = h /\ j = i
      BY <1>1, <1>3, <2>1, <2>2
    <2>3. CASE ~(g = h /\ j = i)
      <3>1. x = endPoints[g][j] /\ j \in DOMAIN endPoints[g]
        BY <1>1, <2>1, <2>3
      <3>2. (x.role = "client" => ClientKnows(x)) /\ (x.role = "server" => ServerKnows(g, x))
        BY <3>1 DEF HandshakeInv, Knowledge
      <3>3. (x.role = "client" => ClientKnows(x)') /\ (x.role = "server" => ServerKnows(g, x)')
        BY <1>2, <3>2, KnowledgeStays
      <3> QED BY <2>1, <3>3
    <2> QED BY <2>2, <2>3
  <1> QED BY <1>2, <1>3

(* The entries of a call and what it knows, by its role. *)
LEMMA EntryKnows ==
  ASSUME TypeInv, HandshakeInv, NEW h \in Hosts, NEW i \in DOMAIN endPoints[h], NEW x, x = endPoints[h][i]
  PROVE  /\ x \in Entries
         /\ x.role = "client" => x \in ClientEntries /\ CallEntry(h, i, x) /\ ClientKnows(x)
         /\ x.role = "server" => x \in ServerEntries /\ ListenEntry(h, i, x) /\ ServerKnows(h, x)
  BY Roles DEF TypeInv, Calls, HandshakeInv, Knowledge

LEMMA HandedOver ==
  ASSUME TypeInv, TypeInv', NEW h \in Hosts, NEW f, toDaemon' = [toDaemon EXCEPT ![h] = Append(@, f)]
  PROVE  f \in Handed /\ toDaemon'[h] = Append(toDaemon[h], f)
         /\ \A g \in Hosts : g # h => toDaemon'[g] = toDaemon[g]
  <1>1. toDaemon[h] \in Seq(Handed) /\ toDaemon'[h] \in Seq(Handed) /\ toDaemon'[h] = Append(toDaemon[h], f)
        /\ \A g \in Hosts : g # h => toDaemon'[g] = toDaemon[g]
    BY DEF TypeInv, AppPlaces
  <1>2. /\ Len(toDaemon'[h]) = Len(toDaemon[h]) + 1 /\ Len(toDaemon[h]) \in Nat
        /\ toDaemon'[h][Len(toDaemon[h]) + 1] = f
    BY <1>1, AppendProperties
  <1> QED BY <1>1, <1>2

(* A new entry, of a call that knows nothing yet. *)
LEMMA Added ==
  ASSUME TypeInv, TypeInv', HandshakeInv, NEW h \in Hosts, NEW e,
         endPoints' = [endPoints EXCEPT ![h] = Append(@, e)],
         e.phase \in {"requested", "listening"}
  PROVE  /\ CallsGrow /\ Knowledge'
         /\ \E n \in DOMAIN endPoints'[h] : endPoints'[h][n] = e
  <1> DEFINE n == Len(endPoints[h]) + 1
  <1>1. e \in Entries
    <2>1. endPoints[h] \in Seq(Entries) /\ endPoints'[h] \in Seq(Entries) /\ endPoints'[h] = Append(endPoints[h], e)
      BY DEF TypeInv, Calls
    <2>2. Len(endPoints'[h]) = n /\ n \in 1..Len(endPoints'[h]) /\ endPoints'[h][n] = e
      BY <2>1, AppendProperties
    <2> QED BY <2>1, <2>2
  <1>2. /\ \A g \in Hosts : g # h => endPoints'[g] = endPoints[g]
        /\ DOMAIN endPoints'[h] = DOMAIN endPoints[h] \cup {n}
        /\ \A i \in DOMAIN endPoints[h] : endPoints'[h][i] = endPoints[h][i]
        /\ endPoints'[h][n] = e
    BY <1>1, EntryAdded DEF TypeInv
  <1>3. \A g \in Hosts : \A i \in DOMAIN endPoints[g] :
          i \in DOMAIN endPoints'[g] /\ endPoints'[g][i] = endPoints[g][i]
    BY <1>2
  <1>4. CallsGrow
    BY <1>3 DEF CallsGrow, Outlives
  <1>5. (e.role = "client" => ClientKnows(e)') /\ (e.role = "server" => \A g \in Hosts : ServerKnows(g, e)')
    <2>1. e.role = "server" => e.phase = "listening"
      BY <1>1, Roles, Names DEF ServerEntries
    <2>2. ClientKnows(e)'
      BY DEF ClientKnows
    <2> QED BY <2>1, <2>2 DEF ServerKnows
  <1>6. Knowledge'
    <2> SUFFICES ASSUME NEW g \in Hosts, NEW j \in DOMAIN endPoints'[g]
                 PROVE  (/\ endPoints[g][j].role = "client" => ClientKnows(endPoints[g][j])
                         /\ endPoints[g][j].role = "server" => ServerKnows(g, endPoints[g][j]))'
      BY DEF Knowledge
    <2>1. PICK x : x = endPoints'[g][j]
      OBVIOUS
    <2>2. CASE g = h /\ j = n
      BY <1>2, <1>5, <2>1, <2>2
    <2>3. CASE ~(g = h /\ j = n)
      <3>1. x = endPoints[g][j] /\ j \in DOMAIN endPoints[g]
        BY <1>2, <2>1, <2>3
      <3>2. (x.role = "client" => ClientKnows(x)) /\ (x.role = "server" => ServerKnows(g, x))
        BY <3>1 DEF HandshakeInv, Knowledge
      <3>3. (x.role = "client" => ClientKnows(x)') /\ (x.role = "server" => ServerKnows(g, x)')
        BY <1>4, <3>2, KnowledgeStays
      <3> QED BY <2>1, <3>3
    <2> QED BY <2>2, <2>3
  <1> QED BY <1>2, <1>4, <1>6

LEMMA EstablishKnows ==
  ASSUME TypeInv, TypeInv', HandshakeInv, NEW a \in Attempts, EstablishConnection(a), UNCHANGED daemonVars
  PROVE  HandshakeInv'
  <1>1. PICK h \in Hosts : h = ClientOf[a]
    BY SocketsAssumption
  <1>2. PICK n, c : n = Len(endPoints[h]) + 1 /\ c = ClientChallenge(h, n)
    OBVIOUS
  <1>3. PICK address :
          /\ endPoints' = [endPoints EXCEPT ![h] =
               Append(@, [NewClient(a, address) EXCEPT !.challengeSent = c])]
          /\ SendCommand(h, IdOf[a], "STEP1", <<c, address>>)
    BY <1>1, <1>2 DEF EstablishConnection
  <1>4. PICK e : e = [NewClient(a, address) EXCEPT !.challengeSent = c]
    OBVIOUS
  <1>5. PICK f : f = Frame(IdOf[a], "STEP1", <<c, address>>)
    OBVIOUS
  <1>6. e.phase = "requested" /\ e.role = "client" /\ e.id = IdOf[a] /\ e.challengeSent = c /\ e.peer = address
    BY <1>4 DEF NewClient
  <1>7. CallsGrow /\ Knowledge' /\ \E i \in DOMAIN endPoints'[h] : endPoints'[h][i] = e
    <2>1. endPoints' = [endPoints EXCEPT ![h] = Append(@, e)]
      BY <1>3, <1>4
    <2> QED BY <1>6, <2>1, Added
  <1>8. f \in Handed /\ toDaemon'[h] = Append(toDaemon[h], f)
        /\ \A g \in Hosts : g # h => toDaemon'[g] = toDaemon[g]
    BY <1>3, <1>5, HandedOver DEF SendCommand
  <1>9. f \in Leaving(h)'
    <2>1. f.id = IdOf[a] /\ f.cmd = "STEP1" /\ f.args[1] = c /\ f.args[2] = address
      BY <1>5 DEF Frame
    <2>2. Asked(h, f.id, f.args[1], f.args[2])'
      BY <1>6, <1>7, <2>1 DEF Asked
    <2>3. Answers(f)'
      BY <2>1 DEF Answers
    <2> QED BY <1>8, <2>2, <2>3 DEF Leaving
  <1>10. UNCHANGED <<toApp, connectionRequest, net>>
    BY DEF EstablishConnection, UnchangedButToDaemon
  <1>11. AppFrames' /\ NetFrames' /\ LoopFrames' /\ EndPointFrames'
    BY <1>7, <1>8, <1>9, <1>10, AppFramesStep
  <1> QED BY <1>7, <1>11 DEF HandshakeInv

LEMMA ListenKnows ==
  ASSUME TypeInv, TypeInv', HandshakeInv, NEW h \in Hosts, Listen(h), UNCHANGED daemonVars
  PROVE  HandshakeInv'
  <1>1. NewServer.phase = "listening"
    BY DEF NewServer
  <1>2. CallsGrow /\ Knowledge'
    BY <1>1, Added DEF Listen
  <1>3. UNCHANGED <<toDaemon, toApp, connectionRequest, net>>
    BY DEF Listen, socketVars
  <1>4. AppFrames' /\ NetFrames' /\ LoopFrames' /\ EndPointFrames'
    BY <1>2, <1>3, AppFramesStep
  <1> QED BY <1>2, <1>4 DEF HandshakeInv

LEMMA WaitKnows ==
  ASSUME TypeInv, TypeInv', HandshakeInv, NEW h \in Hosts, NEW i \in DOMAIN endPoints[h],
         RegisterWait(h, i) \/ Timeout(h, i) \/ StrayConfirms(h, i) \/ ServerVerifies(h, i), UNCHANGED daemonVars
  PROVE  HandshakeInv'
  <1>1. PICK x : x = endPoints[h][i]
    OBVIOUS
  <1>2. PICK p : /\ endPoints' = [endPoints EXCEPT ![h][i].phase = p]
                 /\ \/ x.phase = "requested" /\ p = "wait2"
                    \/ x.phase = "exchanged" /\ p = "wait3"
                    \/ x.phase = "answered" /\ p = "wait4"
                    \/ x.phase = "wait3" /\ p = "got3"
                    \/ x.phase \in {"wait2", "wait3", "wait4", "got4"} /\ p = "freed"
                    \/ x.phase = "got4" /\ x.params[1] = x.challengeSent /\ p = "connected"
    <2>1. CASE RegisterWait(h, i)
      BY <1>1, <2>1 DEF RegisterWait
    <2>2. CASE Timeout(h, i)
      BY <1>1, <2>2 DEF Timeout
    <2>3. CASE ServerVerifies(h, i)
      BY <1>1, <2>3 DEF ServerVerifies
    <2>4. CASE StrayConfirms(h, i)
      BY <1>1, <2>4 DEF StrayConfirms
    <2> QED BY <2>1, <2>2, <2>3, <2>4
  <1>3. PICK e : e = [x EXCEPT !.phase = p]
    OBVIOUS
  <1>4. /\ x \in Entries
        /\ x.role = "client" => x \in ClientEntries /\ CallEntry(h, i, x) /\ ClientKnows(x)
        /\ x.role = "server" => x \in ServerEntries /\ ListenEntry(h, i, x) /\ ServerKnows(h, x)
    BY <1>1, EntryKnows
  <1>5. endPoints' = [endPoints EXCEPT ![h] = [@ EXCEPT ![i] = e]]
    BY <1>1, <1>2, <1>3 DEF TypeInv, Calls
  <1>6. e \in Entries
    BY <1>5 DEF TypeInv, Calls
  <1>7. /\ e.phase = p /\ e.role = x.role
        /\ x.role = "client" => /\ e.id = x.id /\ e.challengeSent = x.challengeSent /\ e.peer = x.peer
                                /\ e.challengeReceived = x.challengeReceived
        /\ x.role = "server" => /\ e.id = x.id /\ e.challengeSent = x.challengeSent
                                /\ e.challengeReceived = x.challengeReceived
    BY <1>3, <1>4 DEF ClientEntries, ServerEntries
  <1>8. Outlives(x, e)
    BY <1>2, <1>7 DEF Outlives
  <1>9. CallsGrow
    BY <1>1, <1>5, <1>6, <1>8, Changed
  <1>10. ASSUME e.role = "client" PROVE ClientKnows(e)'
    <2>1. (ClientKnows(x))'
      BY <1>4, <1>7, <1>9, <1>10, KnowledgeStays
    <2>2. \/ p \in {"wait2", "freed"}
          \/ x.phase = "exchanged" /\ p = "wait3"
          \/ x.phase = "wait3" /\ p = "got3"
      BY <1>2, <1>4, <1>7, <1>10, Names DEF ClientEntries
    <2> QED BY <1>7, <1>10, <2>1, <2>2 DEF ClientKnows
  <1>11. ASSUME e.role = "server" PROVE ServerKnows(h, e)'
    <2>1. (ServerKnows(h, x))'
      BY <1>4, <1>7, <1>9, <1>11, KnowledgeStays
    <2> QED BY <1>2, <1>7, <1>11, <2>1 DEF ServerKnows
  <1>12. Knowledge'
    BY <1>1, <1>5, <1>6, <1>8, <1>10, <1>11, Changed
  <1>13. UNCHANGED <<toDaemon, toApp, connectionRequest, net>>
    BY DEF RegisterWait, Timeout, StrayConfirms, ServerVerifies, socketVars
  <1>14. AppFrames' /\ NetFrames' /\ LoopFrames' /\ EndPointFrames'
    BY <1>9, <1>13, AppFramesStep
  <1> QED BY <1>12, <1>14 DEF HandshakeInv

(* A frame that is neither a request nor an answer. *)
LEMMA PlainFrame ==
  ASSUME NEW f, f.cmd = "STEP3"
  PROVE  Answers(f) /\ Answers(f)'
  BY DEF Answers

(* A server that replied to an ID is on the host its callers ask for. *)
LEMMA RepliedThere ==
  ASSUME IdsTellCalls, TypeInv, HandshakeInv, NEW h \in Hosts, NEW i \in DOMAIN endPoints[h],
         endPoints[h][i].role = "client",
         NEW g \in Hosts, NEW r, NEW s, Replied(g, endPoints[h][i].id, r, s)
  PROVE  endPoints[h][i].peer = g
  <1>1. PICK j \in DOMAIN endPoints[g] :
          /\ endPoints[g][j].role = "server" /\ endPoints[g][j].phase # "listening"
          /\ endPoints[g][j].id = endPoints[h][i].id
    BY DEF Replied
  <1>2. ServerKnows(g, endPoints[g][j])
    BY <1>1 DEF HandshakeInv, Knowledge
  <1>3. PICK k \in Hosts : Asked(k, endPoints[h][i].id, endPoints[g][j].challengeReceived, g)
    BY <1>1, <1>2 DEF ServerKnows
  <1>4. PICK m \in DOMAIN endPoints[k] :
          /\ endPoints[k][m].role = "client" /\ endPoints[k][m].id = endPoints[h][i].id
          /\ endPoints[k][m].peer = g
    BY <1>3 DEF Asked
  <1> QED BY <1>4, OneCaller DEF TypeInv

LEMMA VerifyKnows ==
  ASSUME IdsTellCalls, TypeInv, TypeInv', HandshakeInv, NEW h \in Hosts, NEW i \in DOMAIN endPoints[h],
         ClientVerifies(h, i), UNCHANGED daemonVars
  PROVE  HandshakeInv'
  <1>1. PICK x : x = endPoints[h][i]
    OBVIOUS
  <1>2. x.phase = "got2" /\ UNCHANGED <<toApp, connectionRequest, net>>
    BY <1>1 DEF ClientVerifies, UnchangedButToDaemon
  <1>3. /\ x \in Entries /\ x.role = "client" /\ x \in ClientEntries /\ ClientKnows(x)
    BY <1>1, <1>2, EntryKnows, Roles, Names
  <1>4. CASE /\ x.params[1] = x.challengeSent
             /\ endPoints' = [endPoints EXCEPT ![h][i].phase = "exchanged",
                                               ![h][i].challengeReceived = x.params[2]]
             /\ SendCommand(h, x.id, "STEP3", << >>)
    <2>1. PICK e : e = [x EXCEPT !.phase = "exchanged", !.challengeReceived = x.params[2]]
      OBVIOUS
    <2>2. endPoints' = [endPoints EXCEPT ![h] = [@ EXCEPT ![i] = e]]
      <3>1. endPoints \in [Hosts -> Seq(Entries)]
        BY DEF TypeInv, Calls
      <3>2. PICK c : c = x.params[2]
        OBVIOUS
      <3>3. endPoints' = [endPoints EXCEPT ![h][i].phase = "exchanged", ![h][i].challengeReceived = c]
        BY <1>4, <3>2
      <3>4. endPoints' = [endPoints EXCEPT ![h] = [@ EXCEPT ![i] =
              [endPoints[h][i] EXCEPT !.phase = "exchanged", !.challengeReceived = c]]]
        BY <3>1, <3>3
      <3> QED BY <1>1, <2>1, <3>2, <3>4
    <2>3. e \in Entries
      BY <2>2 DEF TypeInv, Calls
    <2>4. /\ e.phase = "exchanged" /\ e.role = "client" /\ e.id = x.id /\ e.challengeSent = x.challengeSent
          /\ e.peer = x.peer /\ e.challengeReceived = x.params[2]
      BY <1>3, <2>1 DEF ClientEntries
    <2>5. Outlives(x, e)
      BY <1>2, <1>3, <2>4 DEF Outlives
    <2>6. CallsGrow
      BY <1>1, <2>2, <2>3, <2>5, Changed
    <2>7. PICK g \in Hosts : Replied(g, x.id, x.challengeSent, x.params[2])
      BY <1>2, <1>3, <1>4 DEF ClientKnows
    <2>8. x.peer = g
      BY <1>1, <1>3, <2>7, RepliedThere
    <2>9. ClientKnows(e)'
      <3>1. Replied(g, x.id, x.challengeSent, x.params[2])'
        BY <2>6, <2>7, RepliedStays
      <3> QED BY <2>4, <2>8, <3>1 DEF ClientKnows
    <2>10. Knowledge'
      BY <1>1, <2>2, <2>3, <2>4, <2>5, <2>9, Changed
    <2>11. PICK f : f = Frame(x.id, "STEP3", << >>)
      OBVIOUS
    <2>12. f \in Handed /\ toDaemon'[h] = Append(toDaemon[h], f)
           /\ \A k \in Hosts : k # h => toDaemon'[k] = toDaemon[k]
      BY <1>4, <2>11, HandedOver DEF SendCommand
    <2>13. f \in Leaving(h)'
      <3>1. f.cmd = "STEP3"
        BY <2>11 DEF Frame
      <3> QED BY <2>12, <3>1, PlainFrame DEF Leaving
    <2>14. AppFrames' /\ NetFrames' /\ LoopFrames' /\ EndPointFrames'
      BY <1>2, <2>6, <2>12, <2>13, AppFramesStep
    <2> QED BY <2>10, <2>14 DEF HandshakeInv
  <1>5. CASE endPoints' = [endPoints EXCEPT ![h][i].phase = "freed"] /\ UNCHANGED toDaemon
    <2>1. PICK e : e = [x EXCEPT !.phase = "freed"]
      OBVIOUS
    <2>2. endPoints' = [endPoints EXCEPT ![h] = [@ EXCEPT ![i] = e]]
      BY <1>1, <1>5, <2>1 DEF TypeInv, Calls
    <2>3. e \in Entries
      BY <2>2 DEF TypeInv, Calls
    <2>4. /\ e.phase = "freed" /\ e.role = "client" /\ e.id = x.id /\ e.challengeSent = x.challengeSent
          /\ e.peer = x.peer
      BY <1>3, <2>1 DEF ClientEntries
    <2>5. Outlives(x, e)
      BY <1>2, <1>3, <2>4 DEF Outlives
    <2>6. ClientKnows(e)'
      BY <2>4 DEF ClientKnows
    <2>7. CallsGrow /\ Knowledge'
      BY <1>1, <2>2, <2>3, <2>4, <2>5, <2>6, Changed
    <2>8. AppFrames' /\ NetFrames' /\ LoopFrames' /\ EndPointFrames'
      BY <1>2, <1>5, <2>7, AppFramesStep
    <2> QED BY <2>7, <2>8 DEF HandshakeInv
  <1> QED BY <1>1, <1>4, <1>5 DEF ClientVerifies

LEMMA ConfirmKnows ==
  ASSUME TypeInv, TypeInv', HandshakeInv, NEW h \in Hosts, NEW i \in DOMAIN endPoints[h],
         ClientConfirms(h, i), UNCHANGED daemonVars
  PROVE  HandshakeInv'
  <1>1. PICK x : x = endPoints[h][i]
    OBVIOUS
  <1>2. /\ x.phase = "got3" /\ endPoints' = [endPoints EXCEPT ![h][i].phase = "connected"]
        /\ SendCommand(h, x.id, "STEP4", <<x.challengeReceived>>)
        /\ UNCHANGED <<toApp, connectionRequest, net>>
    BY <1>1 DEF ClientConfirms, UnchangedButToDaemon
  <1>3. /\ x \in Entries /\ x.role = "client" /\ x \in ClientEntries /\ ClientKnows(x)
    BY <1>1, <1>2, EntryKnows, Roles, Names
  <1>4. PICK e : e = [x EXCEPT !.phase = "connected"]
    OBVIOUS
  <1>5. endPoints' = [endPoints EXCEPT ![h] = [@ EXCEPT ![i] = e]]
    BY <1>1, <1>2, <1>4 DEF TypeInv, Calls
  <1>6. e \in Entries
    BY <1>5 DEF TypeInv, Calls
  <1>7. /\ e.phase = "connected" /\ e.role = "client" /\ e.id = x.id /\ e.challengeSent = x.challengeSent
        /\ e.peer = x.peer /\ e.challengeReceived = x.challengeReceived
    BY <1>3, <1>4 DEF ClientEntries
  <1>8. Outlives(x, e)
    BY <1>2, <1>3, <1>7 DEF Outlives
  <1>9. CallsGrow
    BY <1>1, <1>5, <1>6, <1>8, Changed
  <1>10. ClientKnows(e)'
    <2>1. ClientKnows(x)'
      BY <1>3, <1>9, KnowledgeStays
    <2> QED BY <1>2, <1>7, <2>1 DEF ClientKnows
  <1>11. Knowledge'
    BY <1>1, <1>5, <1>6, <1>7, <1>8, <1>10, Changed
  <1>12. Confirmed(x.id, x.challengeReceived)'
    <2>1. endPoints'[h][i] = e /\ i \in DOMAIN endPoints'[h]
      BY <1>5, <1>6, EntryChanged DEF TypeInv
    <2> QED BY <1>7, <2>1 DEF Confirmed
  <1>13. PICK f : f = Frame(x.id, "STEP4", <<x.challengeReceived>>)
    OBVIOUS
  <1>14. f \in Handed /\ toDaemon'[h] = Append(toDaemon[h], f)
         /\ \A k \in Hosts : k # h => toDaemon'[k] = toDaemon[k]
    BY <1>2, <1>13, HandedOver DEF SendCommand
  <1>15. f \in Leaving(h)'
    <2>1. f.cmd = "STEP4" /\ f.id = x.id /\ f.args[1] = x.challengeReceived
      BY <1>13 DEF Frame
    <2>2. Answers(f)'
      BY <1>12, <2>1 DEF Answers
    <2> QED BY <1>14, <2>1, <2>2 DEF Leaving
  <1>16. AppFrames' /\ NetFrames' /\ LoopFrames' /\ EndPointFrames'
    BY <1>2, <1>9, <1>14, <1>15, AppFramesStep
  <1> QED BY <1>11, <1>16 DEF HandshakeInv

LEMMA FirstOf ==
  ASSUME NEW S, NEW q \in Seq(S), q # << >>
  PROVE  Head(q) \in S /\ Tail(q) \in Seq(S)
  OBVIOUS

LEMMA AnswerKnows ==
  ASSUME TypeInv, TypeInv', HandshakeInv, NEW h \in Hosts, NEW i \in DOMAIN endPoints[h],
         AnswerRequest(h, i), UNCHANGED daemonVars
  PROVE  HandshakeInv'
  <1>1. PICK x, q, r, c : /\ x = endPoints[h][i] /\ q = Head(connectionRequest[h])
                          /\ r = q.args[1] /\ c = ServerChallenge(h, i)
    OBVIOUS
  <1>2. /\ x.phase = "listening" /\ connectionRequest[h] # << >>
        /\ endPoints' = [endPoints EXCEPT ![h][i].phase = "answered", ![h][i].id = q.id,
                                          ![h][i].challengeSent = c, ![h][i].challengeReceived = r]
        /\ SendCommand(h, q.id, "STEP2", <<r, c>>)
        /\ connectionRequest' = [connectionRequest EXCEPT ![h] = Tail(@)]
        /\ UNCHANGED <<toApp, net>>
    BY <1>1 DEF AnswerRequest, UnchangedButToDaemon
  <1>3. /\ x \in Entries /\ x.role = "server" /\ x \in ServerEntries
    BY <1>1, <1>2, EntryKnows, Roles, Names
  <1>4. q \in Requests(Arriving(h))
    BY <1>1, <1>2, FirstOf DEF HandshakeInv, AppFrames
  <1>5. PICK g \in Hosts : Asked(g, q.id, r, h)
    BY <1>1, <1>4 DEF Requests, Arriving
  <1>6. PICK e : e = [x EXCEPT !.phase = "answered", !.id = q.id, !.challengeSent = c, !.challengeReceived = r]
    OBVIOUS
  <1>7. endPoints' = [endPoints EXCEPT ![h] = [@ EXCEPT ![i] = e]]
    <2>1. endPoints \in [Hosts -> Seq(Entries)]
      BY DEF TypeInv, Calls
    <2>2. PICK d : d = q.id
      OBVIOUS
    <2>3. endPoints' = [endPoints EXCEPT ![h][i].phase = "answered", ![h][i].id = d,
                                         ![h][i].challengeSent = c, ![h][i].challengeReceived = r]
      BY <1>2, <2>2
    <2>4. endPoints' = [endPoints EXCEPT ![h] = [@ EXCEPT ![i] =
            [endPoints[h][i] EXCEPT !.phase = "answered", !.id = d, !.challengeSent = c, !.challengeReceived = r]]]
      BY <2>1, <2>3
    <2> QED BY <1>1, <1>6, <2>2, <2>4
  <1>8. e \in Entries
    BY <1>7 DEF TypeInv, Calls
  <1>9. /\ e.phase = "answered" /\ e.role = "server" /\ e.id = q.id /\ e.challengeSent = c /\ e.challengeReceived = r
    BY <1>3, <1>6 DEF ServerEntries
  <1>10. Outlives(x, e)
    BY <1>2, <1>3, <1>9 DEF Outlives
  <1>11. CallsGrow
    BY <1>1, <1>7, <1>8, <1>10, Changed
  <1>12. ServerKnows(h, e)'
    <2>1. Asked(g, q.id, r, h)'
      BY <1>5, <1>11, AskedStays
    <2> QED BY <1>9, <2>1 DEF ServerKnows
  <1>13. Knowledge'
    BY <1>1, <1>7, <1>8, <1>9, <1>10, <1>12, Changed
  <1>14. Replied(h, q.id, r, c)'
    <2>1. endPoints'[h][i] = e /\ i \in DOMAIN endPoints'[h]
      BY <1>7, <1>8, EntryChanged DEF TypeInv
    <2> QED BY <1>9, <2>1 DEF Replied
  <1>15. PICK f : f = Frame(q.id, "STEP2", <<r, c>>)
    OBVIOUS
  <1>16. f \in Handed /\ toDaemon'[h] = Append(toDaemon[h], f)
         /\ \A k \in Hosts : k # h => toDaemon'[k] = toDaemon[k]
    BY <1>2, <1>15, HandedOver DEF SendCommand
  <1>17. f \in Leaving(h)'
    <2>1. f.cmd = "STEP2" /\ f.id = q.id /\ f.args[1] = r /\ f.args[2] = c
      BY <1>15 DEF Frame
    <2>2. Answers(f)'
      BY <1>14, <2>1 DEF Answers
    <2> QED BY <1>16, <2>1, <2>2 DEF Leaving
  <1>18. /\ connectionRequest'[h] = Tail(connectionRequest[h])
         /\ \A k \in Hosts : k # h => connectionRequest'[k] = connectionRequest[k]
    BY <1>2 DEF TypeInv, AppPlaces
  <1>19. AppFrames' /\ NetFrames' /\ LoopFrames' /\ EndPointFrames'
    BY <1>2, <1>11, <1>16, <1>17, <1>18, AppFramesStep
  <1> QED BY <1>13, <1>19 DEF HandshakeInv

LEMMA NotifyKnows ==
  ASSUME TypeInv, TypeInv', HandshakeInv, NEW h \in Hosts, PacketNotifies(h), UNCHANGED daemonVars
  PROVE  HandshakeInv'
  <1>1. PICK f, a : f = Head(toApp[h]) /\ a = f.args
    OBVIOUS
  <1>2. /\ toApp[h] # << >> /\ toApp' = [toApp EXCEPT ![h] = Tail(@)]
        /\ UNCHANGED <<toDaemon, net, connectionRequest>>
    BY DEF PacketNotifies, TakePacket
  <1>3. f \in Arriving(h)
    BY <1>1, <1>2, FirstOf DEF HandshakeInv, AppFrames
  <1>4. PICK i \in FirstLive(h, f.id) :
          /\ Awaits(endPoints[h][i], f.cmd)
          /\ endPoints' = [endPoints EXCEPT
               ![h][i].params = a,
               ![h][i].phase = CASE endPoints[h][i].phase = "wait2" -> "got2"
                                 [] endPoints[h][i].phase = "wait3" -> "got3"
                                 [] OTHER -> "got4"]
    BY <1>1 DEF PacketNotifies
  <1>5. PICK x : x = endPoints[h][i]
    OBVIOUS
  <1>6. i \in DOMAIN endPoints[h] /\ x.id = f.id
    BY <1>5 DEF FirstLive, LiveEntries, EntriesOf
  <1>7. PICK p : p = CASE x.phase = "wait2" -> "got2" [] x.phase = "wait3" -> "got3" [] OTHER -> "got4"
    OBVIOUS
  <1>8. \/ x.phase = "wait2" /\ p = "got2" /\ f.cmd = "STEP2"
        \/ x.phase = "wait3" /\ p = "got3"
        \/ x.phase = "wait4" /\ p = "got4" /\ f.cmd = "STEP4"
    BY <1>4, <1>5, <1>7 DEF Awaits
  <1>9. /\ x \in Entries
        /\ x.role = "client" => x \in ClientEntries /\ ClientKnows(x)
        /\ x.role = "server" => x \in ServerEntries /\ ServerKnows(h, x)
    BY <1>5, <1>6, EntryKnows
  <1>10. PICK e : e = [x EXCEPT !.params = a, !.phase = p]
    OBVIOUS
  <1>11. endPoints' = [endPoints EXCEPT ![h] = [@ EXCEPT ![i] = e]]
    <2>1. endPoints \in [Hosts -> Seq(Entries)]
      BY DEF TypeInv, Calls
    <2>2. endPoints' = [endPoints EXCEPT ![h][i].params = a, ![h][i].phase = p]
      BY <1>4, <1>5, <1>7
    <2>3. endPoints' = [endPoints EXCEPT ![h] = [@ EXCEPT ![i] = [endPoints[h][i] EXCEPT !.params = a, !.phase = p]]]
      BY <1>6, <2>1, <2>2
    <2> QED BY <1>5, <1>10, <2>3
  <1>12. e \in Entries
    BY <1>6, <1>11 DEF TypeInv, Calls
  <1>13. /\ e.phase = p /\ e.role = x.role /\ e.params = a
         /\ x.role = "client" => /\ e.id = x.id /\ e.challengeSent = x.challengeSent /\ e.peer = x.peer
                                 /\ e.challengeReceived = x.challengeReceived
         /\ x.role = "server" => /\ e.id = x.id /\ e.challengeSent = x.challengeSent
                                 /\ e.challengeReceived = x.challengeReceived
    BY <1>9, <1>10, Roles DEF ClientEntries, ServerEntries
  <1>14. Outlives(x, e)
    BY <1>8, <1>13 DEF Outlives
  <1>15. CallsGrow
    BY <1>5, <1>6, <1>11, <1>12, <1>14, Changed
  <1>16. Answers(f)'
    BY <1>3, <1>15, AnswersStay DEF Arriving
  <1>17. ASSUME e.role = "client" PROVE ClientKnows(e)'
    <2>1. ClientKnows(x)'
      BY <1>9, <1>13, <1>15, <1>17, KnowledgeStays
    <2>2. \/ p = "got2" /\ f.cmd = "STEP2"
          \/ x.phase = "wait3" /\ p = "got3"
      BY <1>8, <1>9, <1>13, <1>17, Names DEF ClientEntries
    <2>3. CASE p = "got2" /\ f.cmd = "STEP2"
      BY <1>1, <1>6, <1>13, <1>16, <1>17, <2>3 DEF ClientKnows, Answers
    <2>4. CASE x.phase = "wait3" /\ p = "got3"
      BY <1>13, <1>17, <2>1, <2>4 DEF ClientKnows
    <2> QED BY <2>2, <2>3, <2>4
  <1>18. ASSUME e.role = "server" PROVE ServerKnows(h, e)'
    <2>1. ServerKnows(h, x)'
      BY <1>9, <1>13, <1>15, <1>18, KnowledgeStays
    <2>2. x.phase = "wait4" /\ p = "got4" /\ f.cmd = "STEP4"
      BY <1>8, <1>9, <1>13, <1>18, Names DEF ServerEntries
    <2>3. Confirmed(e.id, e.params[1])'
      BY <1>1, <1>6, <1>13, <1>16, <1>18, <2>2 DEF Answers
    <2> QED BY <1>13, <1>18, <2>1, <2>2, <2>3 DEF ServerKnows
  <1>19. Knowledge'
    BY <1>5, <1>6, <1>11, <1>12, <1>14, <1>17, <1>18, Changed
  <1>20. /\ toApp'[h] = Tail(toApp[h]) /\ \A k \in Hosts : k # h => toApp'[k] = toApp[k]
    BY <1>2 DEF TypeInv, AppPlaces
  <1>21. AppFrames' /\ NetFrames' /\ LoopFrames' /\ EndPointFrames'
    BY <1>2, <1>15, <1>20, AppFramesStep
  <1> QED BY <1>19, <1>21 DEF HandshakeInv

LEMMA KnowledgeKept ==
  ASSUME HandshakeInv, UNCHANGED endPoints
  PROVE  CallsGrow /\ Knowledge'
  <1>1. CallsGrow
    BY DEF CallsGrow, Outlives
  <1>2. Knowledge'
    <2> SUFFICES ASSUME NEW g \in Hosts, NEW j \in DOMAIN endPoints[g], NEW x, x = endPoints[g][j]
                 PROVE  (x.role = "client" => ClientKnows(x)') /\ (x.role = "server" => ServerKnows(g, x)')
      BY DEF Knowledge
    <2>1. (x.role = "client" => ClientKnows(x)) /\ (x.role = "server" => ServerKnows(g, x))
      BY DEF HandshakeInv, Knowledge
    <2> QED BY <1>1, <2>1, KnowledgeStays
  <1> QED BY <1>1, <1>2

LEMMA OtherPacketKnows ==
  ASSUME TypeInv, HandshakeInv, NEW h \in Hosts, PacketRequests(h) \/ PacketDropped(h) \/ PacketCrashes(h),
         UNCHANGED daemonVars
  PROVE  HandshakeInv'
  <1>1. /\ toApp[h] # << >> /\ toApp' = [toApp EXCEPT ![h] = Tail(@)]
        /\ UNCHANGED <<toDaemon, net, endPoints>>
    BY DEF PacketRequests, PacketDropped, PacketCrashes, TakePacket, appVars
  <1>2. CallsGrow /\ Knowledge'
    BY <1>1, KnowledgeKept
  <1>3. EndPointsGrow
    BY DEF EndPointsGrow, daemonVars
  <1>5. /\ toApp'[h] = Tail(toApp[h]) /\ \A k \in Hosts : k # h => toApp'[k] = toApp[k]
    BY <1>1 DEF TypeInv, AppPlaces
  <1>6. PICK f : f = Head(toApp[h])
    OBVIOUS
  <1>7. f \in Arriving(h)'
    <2>1. f \in Arriving(h)
      BY <1>1, <1>6, FirstOf DEF HandshakeInv, AppFrames
    <2> QED BY <1>2, <1>3, <2>1, PlacesGrow
  <1>8. /\ \/ connectionRequest'[h] = connectionRequest[h]
           \/ \E r \in Requests(Arriving(h)') : connectionRequest'[h] = Append(connectionRequest[h], r)
        /\ \A k \in Hosts : k # h => connectionRequest'[k] = connectionRequest[k]
    <2>1. CASE PacketRequests(h)
      <3>1. f \in Requests(Arriving(h)') /\ connectionRequest' = [connectionRequest EXCEPT ![h] = Append(@, f)]
        BY <1>6, <1>7, <2>1 DEF PacketRequests, Requests
      <3> QED BY <3>1 DEF TypeInv, AppPlaces
    <2>2. CASE PacketDropped(h) \/ PacketCrashes(h)
      BY <2>2 DEF PacketDropped, PacketCrashes, appVars
    <2> QED BY <2>1, <2>2
  <1>9. AppFrames' /\ NetFrames' /\ LoopFrames' /\ EndPointFrames'
    BY <1>1, <1>2, <1>5, <1>8, AppFramesStep
  <1> QED BY <1>2, <1>9 DEF HandshakeInv

LEMMA StrayKnows ==
  ASSUME TypeInv, HandshakeInv, NEW h \in Hosts, NEW i \in DOMAIN endPoints[h], StrayCrashes(h, i),
         UNCHANGED daemonVars
  PROVE  HandshakeInv'
  <1>1. UNCHANGED <<endPoints, toDaemon, toApp, connectionRequest, net>>
    BY DEF StrayCrashes, socketVars
  <1>2. CallsGrow /\ Knowledge'
    BY <1>1, KnowledgeKept
  <1>3. AppFrames' /\ NetFrames' /\ LoopFrames' /\ EndPointFrames'
    BY <1>1, <1>2, AppFramesStep
  <1> QED BY <1>2, <1>3 DEF HandshakeInv

LEMMA AppKnows ==
  ASSUME IdsTellCalls, TypeInv, TypeInv', HandshakeInv, AppNext, UNCHANGED daemonVars
  PROVE  HandshakeInv'
  <1>1. ASSUME NEW a \in Attempts, EstablishConnection(a) PROVE HandshakeInv'
    BY <1>1, EstablishKnows
  <1>2. ASSUME NEW h \in Hosts, Listen(h) \/ ProcessPacket(h) PROVE HandshakeInv'
    BY <1>2, ListenKnows, NotifyKnows, OtherPacketKnows DEF ProcessPacket
  <1>3. ASSUME NEW h \in Hosts, NEW i \in DOMAIN endPoints[h],
               RegisterWait(h, i) \/ Timeout(h, i) \/ StrayCrashes(h, i) \/ StrayConfirms(h, i)
                 \/ ClientCall(h, i) \/ ServerCall(h, i)
        PROVE  HandshakeInv'
    BY <1>3, WaitKnows, StrayKnows, VerifyKnows, ConfirmKnows, AnswerKnows DEF ClientCall, ServerCall
  <1> QED BY <1>1, <1>2, <1>3 DEF AppNext
-----------------------------------------------------------------------------

(* The steps of the daemons: the calls stay as they are, the loops and the *)
(* threads of one host move frames.                                        *)
LEMMA OneAtMost ==
  ASSUME NEW S, NEW q \in Seq(S), NEW r, r \in {q, << >>} \/ \E f \in S : r = <<f>>
  PROVE  r \in Seq(S)
  <1>1. \A f \in S : <<f>> \in Seq(S)
    OBVIOUS
  <1>2. << >> \in Seq(S)
    OBVIOUS
  <1> QED BY <1>1, <1>2

LEMMA DaemonFramesStep ==
  ASSUME TypeInv, HandshakeInv, CallsGrow, EndPointsGrow, UNCHANGED connectionRequest, NEW h \in Hosts,
         \A g \in Hosts : g # h => /\ toDaemon'[g] = toDaemon[g] /\ toApp'[g] = toApp[g]
                                  /\ unixRequest'[g] = unixRequest[g] /\ htpRequest'[g] = htpRequest[g],
         \/ toDaemon'[h] = toDaemon[h]
         \/ toDaemon[h] # << >> /\ toDaemon'[h] = Tail(toDaemon[h]),
         \/ toApp'[h] = toApp[h]
         \/ \E f \in Arriving(h)' : toApp'[h] = Append(toApp[h], f),
         \/ unixRequest'[h] \in {unixRequest[h], << >>}
         \/ \E f \in Requests(Leaving(h)') : unixRequest'[h] = <<f>>,
         \/ htpRequest'[h] \in {htpRequest[h], << >>}
         \/ \E f \in FromElsewhere(h)' : htpRequest'[h] = <<f>>,
         \A d \in BagToSet(net') : d \in BagToSet(net) \/ d.frame \in Arriving(d.to)'
  PROVE  AppFrames' /\ NetFrames' /\ LoopFrames'
  <1>1. \A g \in Hosts : /\ toDaemon[g] \in Seq(Leaving(g)') /\ toApp[g] \in Seq(Arriving(g)')
                         /\ connectionRequest[g] \in Seq(Requests(Arriving(g)'))
                         /\ unixRequest[g] \in Seq(Requests(Leaving(g)'))
                         /\ htpRequest[g] \in Seq(FromElsewhere(g)')
    BY FramesStay
  <1>2. toDaemon'[h] \in Seq(Leaving(h)')
    BY <1>1, Moved
  <1>3. toApp'[h] \in Seq(Arriving(h)')
    BY <1>1, Moved
  <1>4. unixRequest'[h] \in Seq(Requests(Leaving(h)'))
    BY <1>1, OneAtMost
  <1>5. htpRequest'[h] \in Seq(FromElsewhere(h)')
    BY <1>1, OneAtMost
  <1>6. AppFrames'
    BY <1>1, <1>2, <1>3 DEF AppFrames
  <1>7. LoopFrames'
    BY <1>1, <1>4, <1>5 DEF LoopFrames
  <1>8. NetFrames'
    BY FramesStay DEF NetFrames
  <1> QED BY <1>6, <1>7, <1>8

(* The endpoints a step does not touch. *)
LEMMA OtherEndPoints ==
  ASSUME TypeInv, HandshakeInv, CallsGrow, EndPointsGrow, TablesGrow,
         NEW g \in Hosts, NEW j \in DOMAIN daemonEndPoints[g], NEW x, x = daemonEndPoints[g][j]
  PROVE  Serves(g, x)' /\ Holds(g, x)'
  <1>1. Serves(g, x) /\ Holds(g, x) /\ x.service \in {Untabled} \cup DOMAIN serviceTable[g]
    BY Queued DEF HandshakeInv, EndPointFrames, TypeInv
  <1> QED BY <1>1, HoldsStays, ServesStays

(* One endpoint changes its queues. *)
LEMMA QueuesChanged ==
  ASSUME TypeInv, HandshakeInv, UNCHANGED <<endPoints, serviceTable>>,
         NEW h \in Hosts, NEW i \in DOMAIN daemonEndPoints[h], NEW x, x = daemonEndPoints[h][i],
         NEW y \in Opened, y.id = x.id, y.service = x.service,
         daemonEndPoints' = [daemonEndPoints EXCEPT ![h] = [@ EXCEPT ![i] = y]]
  PROVE  /\ CallsGrow /\ EndPointsGrow /\ Knowledge' /\ Holds(h, x)'
         /\ Holds(h, y)' => EndPointFrames'
  <1>1. CallsGrow /\ Knowledge'
    BY KnowledgeKept
  <1>2. /\ \A g \in Hosts : DOMAIN daemonEndPoints'[g] = DOMAIN daemonEndPoints[g]
        /\ \A g \in Hosts : \A j \in DOMAIN daemonEndPoints[g] :
             daemonEndPoints'[g][j] = IF g = h /\ j = i THEN y ELSE daemonEndPoints[g][j]
    BY EndPointChanged DEF TypeInv
  <1>3. EndPointsGrow /\ TablesGrow
    BY <1>2 DEF EndPointsGrow, TablesGrow
  <1>4. Serves(h, x)' /\ Holds(h, x)'
    BY <1>1, <1>3, OtherEndPoints
  <1>5. ASSUME Holds(h, y)' PROVE EndPointFrames'
    <2> SUFFICES ASSUME NEW g \in Hosts, NEW j \in DOMAIN daemonEndPoints'[g]
                 PROVE  (Serves(g, daemonEndPoints[g][j]) /\ Holds(g, daemonEndPoints[g][j]))'
      BY DEF EndPointFrames
    <2>1. PICK z : z = daemonEndPoints'[g][j]
      OBVIOUS
    <2>2. CASE g = h /\ j = i
      <3>1. z = y
        BY <1>2, <2>1, <2>2
      <3>2. Serves(h, y)'
        BY <1>4 DEF Serves
      <3> QED BY <1>5, <2>1, <2>2, <3>1, <3>2
    <2>3. CASE ~(g = h /\ j = i)
      <3>1. z = daemonEndPoints[g][j] /\ j \in DOMAIN daemonEndPoints[g]
        BY <1>2, <2>1, <2>3
      <3>2. Serves(g, z)' /\ Holds(g, z)'
        BY <1>1, <1>3, <3>1, OtherEndPoints
      <3> QED BY <2>1, <3>2
    <2> QED BY <2>2, <2>3
  <1> QED BY <1>1, <1>3, <1>4, <1>5

LEMMA QueuesMoved ==
  ASSUME NEW h \in Hosts, NEW x, NEW y, Holds(h, x)', y.id = x.id,
         \/ y.incomingQueue = x.incomingQueue
         \/ x.incomingQueue # << >> /\ y.incomingQueue = Tail(x.incomingQueue)
         \/ \E f \in Of(Arriving(h)', x.id) : y.incomingQueue = Append(x.incomingQueue, f),
         \/ y.outgoingQueue = x.outgoingQueue
         \/ x.outgoingQueue # << >> /\ y.outgoingQueue = Tail(x.outgoingQueue)
         \/ \E f \in Of(Leaving(h)', x.id) : y.outgoingQueue = Append(x.outgoingQueue, f),
         \/ y.inQueue = x.inQueue
         \/ x.inQueue # << >> /\ y.inQueue = Tail(x.inQueue)
         \/ \E f \in Of(Arriving(h)', x.id) : y.inQueue = Append(x.inQueue, f),
         \/ y.outQueue = x.outQueue
         \/ x.outQueue # << >> /\ y.outQueue = Tail(x.outQueue)
         \/ \E f \in Of(Shortened(h)', x.id) : y.outQueue = Append(x.outQueue, f)
  PROVE  Holds(h, y)'
  <1>1. /\ x.incomingQueue \in Seq(Of(Arriving(h)', x.id)) /\ x.outgoingQueue \in Seq(Of(Leaving(h)', x.id))
        /\ x.inQueue \in Seq(Of(Arriving(h)', x.id)) /\ x.outQueue \in Seq(Of(Shortened(h)', x.id))
    BY DEF Holds
  <1>2. y.incomingQueue \in Seq(Of(Arriving(h)', x.id))
    BY <1>1, Moved
  <1>3. y.outgoingQueue \in Seq(Of(Leaving(h)', x.id))
    BY <1>1, Moved
  <1>4. y.inQueue \in Seq(Of(Arriving(h)', x.id))
    BY <1>1, Moved
  <1>5. y.outQueue \in Seq(Of(Shortened(h)', x.id))
    BY <1>1, Moved
  <1> QED BY <1>2, <1>3, <1>4, <1>5 DEF Holds

(* An endpoint is opened. *)
LEMMA QueuesAdded ==
  ASSUME TypeInv, HandshakeInv, UNCHANGED endPoints, TablesGrow, NEW h \in Hosts, NEW y \in Opened,
         daemonEndPoints' = [daemonEndPoints EXCEPT ![h] = Append(@, y)]
  PROVE  /\ CallsGrow /\ EndPointsGrow /\ Knowledge'
         /\ Serves(h, y)' /\ Holds(h, y)' => EndPointFrames'
  <1> DEFINE n == Len(daemonEndPoints[h]) + 1
  <1>1. CallsGrow /\ Knowledge'
    BY KnowledgeKept
  <1>2. /\ \A g \in Hosts : g # h => daemonEndPoints'[g] = daemonEndPoints[g]
        /\ DOMAIN daemonEndPoints'[h] = DOMAIN daemonEndPoints[h] \cup {n}
        /\ \A j \in DOMAIN daemonEndPoints[h] : daemonEndPoints'[h][j] = daemonEndPoints[h][j]
        /\ daemonEndPoints'[h][n] = y
    BY EndPointAdded DEF TypeInv
  <1>3. EndPointsGrow
    BY <1>2 DEF EndPointsGrow
  <1>4. ASSUME Serves(h, y)', Holds(h, y)' PROVE EndPointFrames'
    <2> SUFFICES ASSUME NEW g \in Hosts, NEW j \in DOMAIN daemonEndPoints'[g]
                 PROVE  (Serves(g, daemonEndPoints[g][j]) /\ Holds(g, daemonEndPoints[g][j]))'
      BY DEF EndPointFrames
    <2>1. PICK z : z = daemonEndPoints'[g][j]
      OBVIOUS
    <2>2. CASE g = h /\ j = n
      BY <1>2, <1>4, <2>1, <2>2
    <2>3. CASE ~(g = h /\ j = n)
      <3>1. z = daemonEndPoints[g][j] /\ j \in DOMAIN daemonEndPoints[g]
        BY <1>2, <2>1, <2>3
      <3>2. Serves(g, z)' /\ Holds(g, z)'
        BY <1>1, <1>3, <3>1, OtherEndPoints
      <3> QED BY <2>1, <3>2
    <2> QED BY <2>2, <2>3
  <1> QED BY <1>1, <1>3, <1>4

LEMMA UnixForwardsKnows ==
  ASSUME TypeInv, TypeInv', HandshakeInv, NEW h \in Hosts, UnixForwards(h), UNCHANGED appVars
  PROVE  HandshakeInv'
  <1>1. PICK f : f = Head(toDaemon[h])
    OBVIOUS
  <1>2. /\ toDaemon[h] # << >> /\ toDaemon' = [toDaemon EXCEPT ![h] = Tail(@)]
        /\ UNCHANGED <<toApp, net, serviceTable, unixRequest, htpRequest, endPoints, connectionRequest>>
    BY DEF UnixForwards, UnixReads, UnixTakes, requests, appVars
  <1>3. PICK i \in EndPointsByID(h, f.id) :
          daemonEndPoints' = [daemonEndPoints EXCEPT ![h][i].outgoingQueue = Append(@, f)]
    BY <1>1 DEF UnixForwards
  <1>4. PICK x : x = daemonEndPoints[h][i]
    OBVIOUS
  <1>5. i \in DOMAIN daemonEndPoints[h] /\ x \in Opened /\ x.id = f.id
    BY <1>4, Queued DEF EndPointsByID, TypeInv
  <1>6. PICK y : y = [x EXCEPT !.outgoingQueue = Append(@, f)]
    OBVIOUS
  <1>7. daemonEndPoints' = [daemonEndPoints EXCEPT ![h] = [@ EXCEPT ![i] = y]]
    BY <1>3, <1>4, <1>5, <1>6 DEF TypeInv, DaemonPlaces
  <1>8. y \in Opened
    BY <1>5, <1>7 DEF TypeInv, DaemonPlaces
  <1>9. /\ y.id = x.id /\ y.service = x.service /\ y.incomingQueue = x.incomingQueue
        /\ y.inQueue = x.inQueue /\ y.outQueue = x.outQueue /\ y.outgoingQueue = Append(x.outgoingQueue, f)
    BY <1>5, <1>6 DEF Opened
  <1>10. /\ CallsGrow /\ EndPointsGrow /\ Knowledge' /\ Holds(h, x)'
         /\ Holds(h, y)' => EndPointFrames'
    BY <1>2, <1>4, <1>5, <1>7, <1>8, <1>9, QueuesChanged
  <1>11. f \in Of(Leaving(h)', x.id)
    <2>1. f \in Leaving(h)
      BY <1>1, <1>2, FirstOf DEF HandshakeInv, AppFrames
    <2> QED BY <1>5, <1>10, <2>1, PlacesGrow DEF Of
  <1>12. EndPointFrames'
    BY <1>9, <1>10, <1>11, QueuesMoved
  <1>13. toDaemon'[h] = Tail(toDaemon[h]) /\ \A g \in Hosts : g # h => toDaemon'[g] = toDaemon[g]
    BY <1>2 DEF TypeInv, AppPlaces
  <1>14. AppFrames' /\ NetFrames' /\ LoopFrames'
    BY <1>2, <1>10, <1>13, DaemonFramesStep
  <1> QED BY <1>10, <1>12, <1>14 DEF HandshakeInv

(* No endpoint is opened or changed. *)
LEMMA EndPointsKept ==
  ASSUME TypeInv, HandshakeInv, UNCHANGED <<endPoints, serviceTable, daemonEndPoints>>
  PROVE  CallsGrow /\ EndPointsGrow /\ Knowledge' /\ EndPointFrames'
  <1>1. CallsGrow /\ Knowledge'
    BY KnowledgeKept
  <1>2. EndPointsGrow /\ TablesGrow
    BY DEF EndPointsGrow, TablesGrow
  <1>3. EndPointFrames'
    <2> SUFFICES ASSUME NEW g \in Hosts, NEW j \in DOMAIN daemonEndPoints'[g]
                 PROVE  (Serves(g, daemonEndPoints[g][j]) /\ Holds(g, daemonEndPoints[g][j]))'
      BY DEF EndPointFrames
    <2>1. PICK z : z = daemonEndPoints[g][j]
      OBVIOUS
    <2> QED BY <1>1, <1>2, <2>1, OtherEndPoints
  <1> QED BY <1>1, <1>2, <1>3

LEMMA UnixRequestKnows ==
  ASSUME TypeInv, HandshakeInv, NEW h \in Hosts, UNCHANGED appVars,
         UnixSeesRequest(h) \/ UnixRefusesAddress(h) \/ UnixDiscards(h)
  PROVE  HandshakeInv'
  <1>1. UNCHANGED <<endPoints, connectionRequest, serviceTable, daemonEndPoints, toApp, net, htpRequest>>
    BY DEF UnixSeesRequest, UnixRefusesAddress, UnixDiscards, appVars, daemonVars, requests, socketVars
  <1>2. CallsGrow /\ EndPointsGrow /\ Knowledge' /\ EndPointFrames'
    BY <1>1, EndPointsKept
  <1>3. /\ \/ toDaemon'[h] = toDaemon[h]
           \/ toDaemon[h] # << >> /\ toDaemon'[h] = Tail(toDaemon[h])
        /\ \A g \in Hosts : g # h => toDaemon'[g] = toDaemon[g]
    BY DEF UnixSeesRequest, UnixRefusesAddress, UnixDiscards, UnixReads, UnixTakes, socketVars, TypeInv, AppPlaces
  <1>4. /\ \/ unixRequest'[h] \in {unixRequest[h], << >>}
           \/ \E f \in Requests(Leaving(h)') : unixRequest'[h] = <<f>>
        /\ \A g \in Hosts : g # h => unixRequest'[g] = unixRequest[g]
    <2>1. CASE UnixSeesRequest(h)
      <3>1. PICK f : f = Head(toDaemon[h])
        OBVIOUS
      <3>2. toDaemon[h] # << >> /\ f.cmd = "STEP1" /\ unixRequest' = [unixRequest EXCEPT ![h] = <<f>>]
        BY <2>1, <3>1 DEF UnixSeesRequest, UnixReads
      <3>3. f \in Leaving(h)
        BY <3>1, <3>2, FirstOf DEF HandshakeInv, AppFrames
      <3>4. f \in Requests(Leaving(h)')
        BY <1>2, <3>2, <3>3, PlacesGrow DEF Requests
      <3> QED BY <3>2, <3>4 DEF TypeInv, DaemonPlaces
    <2>2. CASE UnixRefusesAddress(h) \/ UnixDiscards(h)
      BY <2>2 DEF UnixRefusesAddress, UnixDiscards, daemonVars, requests, TypeInv, DaemonPlaces
    <2> QED BY <2>1, <2>2
  <1>5. AppFrames' /\ NetFrames' /\ LoopFrames'
    BY <1>1, <1>2, <1>3, <1>4, DaemonFramesStep
  <1> QED BY <1>2, <1>5 DEF HandshakeInv

LEMMA UnixOpensKnows ==
  ASSUME TypeInv, HandshakeInv, NEW h \in Hosts, UNCHANGED appVars, UnixOpensEndPoint(h)
  PROVE  HandshakeInv'
  <1>1. PICK q : q = unixRequest[h][1]
    OBVIOUS
  <1>2. /\ unixRequest[h] # << >> /\ unixRequest' = [unixRequest EXCEPT ![h] = << >>]
        /\ UNCHANGED <<toDaemon, toApp, net, htpRequest, endPoints, connectionRequest>>
    BY DEF UnixOpensEndPoint, socketVars, appVars
  <1>3. q \in Requests(Leaving(h)) /\ UnixAddress(h) = q.args[2]
    <2>1. UnixAddress(h) = q.args[2]
      BY <1>1, RequestAddress DEF UnixOpensEndPoint, TypeInv
    <2>2. unixRequest[h] \in Seq(Requests(Leaving(h)))
      BY DEF HandshakeInv, LoopFrames
    <2> QED BY <1>1, <1>2, <2>1, <2>2
  <1>4. TablesGrow
    BY UnixOpens DEF TablesGrow
  <1>5. PICK s, y : /\ s # Untabled /\ serviceTable'[h][s] = q.args[2]
                    /\ y = NewEndPoint(q.id, s, << >>, <<q>>) /\ y \in Opened
                    /\ daemonEndPoints' = [daemonEndPoints EXCEPT ![h] = Append(@, y)]
    BY <1>1, <1>3, UnixOpens
  <1>6. /\ CallsGrow /\ EndPointsGrow /\ Knowledge'
        /\ Serves(h, y)' /\ Holds(h, y)' => EndPointFrames'
    BY <1>2, <1>4, <1>5, QueuesAdded
  <1>7. /\ y.id = q.id /\ y.service = s /\ y.incomingQueue = << >> /\ y.outgoingQueue = <<q>>
        /\ y.inQueue = << >> /\ y.outQueue = << >>
    BY <1>5 DEF NewEndPoint
  <1>8. Serves(h, y)'
    <2>1. Asked(h, q.id, q.args[1], q.args[2])
      BY <1>3 DEF Requests, Leaving
    <2>2. PICK i \in DOMAIN endPoints[h] :
            endPoints[h][i].role = "client" /\ endPoints[h][i].id = q.id /\ endPoints[h][i].peer = q.args[2]
      BY <2>1 DEF Asked
    <2> QED BY <1>2, <1>5, <1>7, <2>2 DEF Serves
  <1>9. Holds(h, y)'
    <2>1. q \in Of(Leaving(h)', y.id)
      BY <1>3, <1>6, <1>7, PlacesGrow DEF Requests, Of
    <2> QED BY <1>7, <2>1 DEF Holds
  <1>10. /\ unixRequest'[h] = << >> /\ \A g \in Hosts : g # h => unixRequest'[g] = unixRequest[g]
    BY <1>2 DEF TypeInv, DaemonPlaces
  <1>11. AppFrames' /\ NetFrames' /\ LoopFrames'
    BY <1>2, <1>6, <1>10, DaemonFramesStep
  <1> QED BY <1>6, <1>8, <1>9, <1>11 DEF HandshakeInv

LEMMA HtpForwardsKnows ==
  ASSUME TypeInv, TypeInv', HandshakeInv, NEW d \in BagToSet(net), HtpForwards(d), UNCHANGED appVars
  PROVE  HandshakeInv'
  <1>0. PICK h \in Hosts : h = d.to
    BY DEF TypeInv, DaemonPlaces
  <1>1. PICK f \in Arriving(h) : h = d.to /\ f = d.frame
    BY <1>0 DEF HandshakeInv, NetFrames
  <1>2. /\ UNCHANGED <<toDaemon, toApp, serviceTable, unixRequest, htpRequest, endPoints, connectionRequest>>
        /\ BagToSet(net') \subseteq BagToSet(net)
    BY Received DEF HtpForwards, HtpReads, requests, appVars, TypeInv
  <1>3. PICK i \in EndPointsByID(h, f.id) :
          daemonEndPoints' = [daemonEndPoints EXCEPT ![h][i].incomingQueue = Append(@, f)]
    BY <1>1 DEF HtpForwards
  <1>4. PICK x : x = daemonEndPoints[h][i]
    OBVIOUS
  <1>5. i \in DOMAIN daemonEndPoints[h] /\ x \in Opened /\ x.id = f.id
    BY <1>4, Queued DEF EndPointsByID, TypeInv
  <1>6. PICK y : y = [x EXCEPT !.incomingQueue = Append(@, f)]
    OBVIOUS
  <1>7. daemonEndPoints' = [daemonEndPoints EXCEPT ![h] = [@ EXCEPT ![i] = y]]
    BY <1>3, <1>4, <1>5, <1>6 DEF TypeInv, DaemonPlaces
  <1>8. y \in Opened
    BY <1>5, <1>7 DEF TypeInv, DaemonPlaces
  <1>9. /\ y.id = x.id /\ y.service = x.service /\ y.outgoingQueue = x.outgoingQueue
        /\ y.inQueue = x.inQueue /\ y.outQueue = x.outQueue /\ y.incomingQueue = Append(x.incomingQueue, f)
    BY <1>5, <1>6 DEF Opened
  <1>10. /\ CallsGrow /\ EndPointsGrow /\ Knowledge' /\ Holds(h, x)'
         /\ Holds(h, y)' => EndPointFrames'
    BY <1>2, <1>4, <1>5, <1>7, <1>8, <1>9, QueuesChanged
  <1>11. f \in Of(Arriving(h)', x.id)
    BY <1>1, <1>5, <1>10, PlacesGrow DEF Of
  <1>12. EndPointFrames'
    BY <1>9, <1>10, <1>11, QueuesMoved
  <1>13. AppFrames' /\ NetFrames' /\ LoopFrames'
    BY <1>2, <1>10, DaemonFramesStep
  <1> QED BY <1>10, <1>12, <1>13 DEF HandshakeInv

(* A request that arrives at a daemon that knows no endpoint for it was    *)
(* made on another host.                                                   *)
LEMMA HtpRequestKnows ==
  ASSUME TypeInv, HandshakeInv, NEW d \in BagToSet(net), HtpSeesRequest(d) \/ HtpDiscards(d), UNCHANGED appVars
  PROVE  HandshakeInv'
  <1>0. PICK h \in Hosts : h = d.to
    BY DEF TypeInv, DaemonPlaces
  <1>1. PICK f \in Arriving(h) : h = d.to /\ f = d.frame
    BY <1>0 DEF HandshakeInv, NetFrames
  <1>2. UNCHANGED <<toDaemon, toApp, serviceTable, daemonEndPoints, unixRequest, endPoints, connectionRequest>>
    BY DEF HtpSeesRequest, HtpDiscards, daemonVars, requests, appVars
  <1>3. BagToSet(net') \subseteq BagToSet(net)
    BY Received DEF HtpSeesRequest, HtpDiscards, HtpReads, TypeInv
  <1>4. CallsGrow /\ EndPointsGrow /\ Knowledge' /\ EndPointFrames'
    BY <1>2, EndPointsKept
  <1>5. /\ \/ htpRequest'[h] \in {htpRequest[h], << >>}
           \/ \E r \in FromElsewhere(h)' : htpRequest'[h] = <<r>>
        /\ \A g \in Hosts : g # h => htpRequest'[g] = htpRequest[g]
    <2>1. CASE HtpSeesRequest(d)
      <3>1. EndPointsByID(h, f.id) = {} /\ f.cmd = "STEP1" /\ htpRequest' = [htpRequest EXCEPT ![h] = <<f>>]
        BY <1>1, <2>1 DEF HtpSeesRequest
      <3>2. PICK g \in Hosts : Asked(g, f.id, f.args[1], h) /\ EndPointsByID(g, f.id) # {}
        BY <1>1, <3>1 DEF Arriving
      <3>3. f \in FromElsewhere(h)
        BY <1>1, <3>1, <3>2 DEF FromElsewhere, Requests
      <3>4. f \in FromElsewhere(h)'
        BY <1>4, <3>3, PlacesGrow
      <3> QED BY <3>1, <3>4 DEF TypeInv, DaemonPlaces
    <2>2. CASE HtpDiscards(d)
      BY <2>2 DEF HtpDiscards, daemonVars, requests
    <2> QED BY <2>1, <2>2
  <1>6. AppFrames' /\ NetFrames' /\ LoopFrames'
    BY <1>2, <1>3, <1>4, <1>5, DaemonFramesStep
  <1> QED BY <1>4, <1>6 DEF HandshakeInv

LEMMA HtpOpensKnows ==
  ASSUME TypeInv, HandshakeInv, NEW h \in Hosts, UNCHANGED appVars, HtpOpensEndPoint(h)
  PROVE  HandshakeInv'
  <1>1. PICK q, y : /\ q = htpRequest[h][1]
                    /\ y = NewEndPoint(q.id, ServiceBySessionID(h), <<q>>, << >>)
    OBVIOUS
  <1>2. /\ htpRequest[h] # << >> /\ htpRequest' = [htpRequest EXCEPT ![h] = << >>]
        /\ UNCHANGED <<toDaemon, toApp, net, unixRequest, serviceTable, endPoints, connectionRequest>>
        /\ daemonEndPoints' = [daemonEndPoints EXCEPT ![h] = Append(@, y)]
    BY <1>1 DEF HtpOpensEndPoint, socketVars, appVars
  <1>3. q \in FromElsewhere(h)
    <2>1. htpRequest[h] \in Seq(FromElsewhere(h))
      BY DEF HandshakeInv, LoopFrames
    <2> QED BY <1>1, <1>2, <2>1
  <1>4. y \in Opened
    BY <1>1, HtpOpens
  <1>5. TablesGrow
    BY <1>2 DEF TablesGrow
  <1>6. /\ CallsGrow /\ EndPointsGrow /\ Knowledge'
        /\ Serves(h, y)' /\ Holds(h, y)' => EndPointFrames'
    BY <1>2, <1>4, <1>5, QueuesAdded
  <1>7. /\ y.id = q.id /\ y.incomingQueue = <<q>> /\ y.outgoingQueue = << >>
        /\ y.inQueue = << >> /\ y.outQueue = << >>
    BY <1>1 DEF NewEndPoint
  <1>8. Serves(h, y)'
    <2>1. PICK g \in Hosts \ {h} : Asked(g, q.id, q.args[1], h)
      BY <1>3 DEF FromElsewhere
    <2>2. PICK i \in DOMAIN endPoints[g] : endPoints[g][i].role = "client" /\ endPoints[g][i].id = q.id
      BY <2>1 DEF Asked
    <2> QED BY <1>2, <1>7, <2>2 DEF Serves
  <1>9. Holds(h, y)'
    <2>1. q \in Arriving(h)
      BY <1>3 DEF FromElsewhere, Requests
    <2>2. q \in Of(Arriving(h)', y.id)
      BY <1>6, <1>7, <2>1, PlacesGrow DEF Of
    <2> QED BY <1>7, <2>2 DEF Holds
  <1>10. /\ htpRequest'[h] = << >> /\ \A g \in Hosts : g # h => htpRequest'[g] = htpRequest[g]
    BY <1>2 DEF TypeInv, DaemonPlaces
  <1>11. AppFrames' /\ NetFrames' /\ LoopFrames'
    BY <1>2, <1>6, <1>10, DaemonFramesStep
  <1> QED BY <1>6, <1>8, <1>9, <1>11 DEF HandshakeInv

(* The service of an endpoint has the address its client asks for.         *)
LEMMA ServedThere ==
  ASSUME IdsTellCalls, TypeInv, HandshakeInv, NEW h \in Hosts, NEW i \in DOMAIN daemonEndPoints[h],
         NEW id, id = daemonEndPoints[h][i].id, NEW c, NEW p, Asked(h, id, c, p)
  PROVE  p \in Hosts /\ p = serviceTable[h][daemonEndPoints[h][i].service]
  <1>1. PICK x : x = daemonEndPoints[h][i]
    OBVIOUS
  <1>2. Serves(h, x)
    BY <1>1 DEF HandshakeInv, EndPointFrames
  <1>3. PICK j \in DOMAIN endPoints[h] :
          endPoints[h][j].role = "client" /\ endPoints[h][j].id = x.id /\ endPoints[h][j].peer = p
    BY <1>1 DEF Asked
  <1>4. PICK g \in Hosts : \E k \in DOMAIN endPoints[g] :
          /\ endPoints[g][k].role = "client" /\ endPoints[g][k].id = x.id
          /\ g = h => x.service # Untabled /\ serviceTable[h][x.service] = endPoints[g][k].peer
    BY <1>2 DEF Serves
  <1>5. x.service # Untabled /\ serviceTable[h][x.service] = p
    BY <1>3, <1>4, OneCaller DEF TypeInv
  <1>6. x.service \in DOMAIN serviceTable[h]
    BY <1>1, <1>5, Queued DEF TypeInv
  <1>7. serviceTable[h] \in Seq(Hosts)
    BY DEF TypeInv, DaemonPlaces
  <1> QED BY <1>1, <1>5, <1>6, <1>7

LEMMA IncomingKnows ==
  ASSUME TypeInv, TypeInv', HandshakeInv, NEW h \in Hosts, NEW i \in DOMAIN daemonEndPoints[h],
         ProcessingIncomingMessage(h, i), UNCHANGED appVars
  PROVE  HandshakeInv'
  <1>1. PICK x : x = daemonEndPoints[h][i]
    OBVIOUS
  <1>2. PICK f : f = Head(x.incomingQueue)
    OBVIOUS
  <1>3. PICK q : q = IF f.cmd = "STEP3" THEN x.inQueue ELSE Append(x.inQueue, f)
    OBVIOUS
  <1>4. PICK y : y = [x EXCEPT !.incomingQueue = Tail(@), !.inQueue = q]
    OBVIOUS
  <1>5. x \in Opened
    BY <1>1, Queued DEF TypeInv
  <1>6. /\ x.incomingQueue # << >>
        /\ daemonEndPoints' = [daemonEndPoints EXCEPT ![h] = [@ EXCEPT ![i] = y]]
        /\ UNCHANGED <<toDaemon, toApp, net, serviceTable, unixRequest, htpRequest, endPoints, connectionRequest>>
    <2> DEFINE z == daemonEndPoints[h][i]
    <2>0. daemonEndPoints \in [Hosts -> Seq(Opened)]
      BY DEF TypeInv, DaemonPlaces
    <2>1. daemonEndPoints' = [daemonEndPoints EXCEPT ![h] = [@ EXCEPT ![i] =
            [z EXCEPT !.incomingQueue = Tail(@),
                      !.inQueue = IF Head(z.incomingQueue).cmd = "STEP3" THEN z.inQueue
                                  ELSE Append(z.inQueue, Head(z.incomingQueue))]]]
      BY <2>0 DEF ProcessingIncomingMessage
    <2>2. daemonEndPoints' = [daemonEndPoints EXCEPT ![h] = [@ EXCEPT ![i] = y]]
      BY <1>1, <1>2, <1>3, <1>4, <2>1
    <2> QED BY <1>1, <2>2 DEF ProcessingIncomingMessage, socketVars, requests, appVars
  <1>7. y \in Opened
    BY <1>6 DEF TypeInv, DaemonPlaces
  <1>8. /\ y.id = x.id /\ y.service = x.service /\ y.outgoingQueue = x.outgoingQueue
        /\ y.outQueue = x.outQueue /\ y.incomingQueue = Tail(x.incomingQueue) /\ y.inQueue = q
    BY <1>4, <1>5 DEF Opened
  <1>9. /\ CallsGrow /\ EndPointsGrow /\ Knowledge' /\ Holds(h, x)'
        /\ Holds(h, y)' => EndPointFrames'
    BY <1>1, <1>6, <1>7, <1>8, QueuesChanged
  <1>10. f \in Of(Arriving(h)', x.id)
    BY <1>2, <1>6, <1>9, FirstOf DEF Holds
  <1>11. EndPointFrames'
    BY <1>3, <1>6, <1>8, <1>9, <1>10, QueuesMoved
  <1>12. AppFrames' /\ NetFrames' /\ LoopFrames'
    BY <1>6, <1>9, DaemonFramesStep
  <1> QED BY <1>9, <1>11, <1>12 DEF HandshakeInv

LEMMA OutgoingKnows ==
  ASSUME IdsTellCalls, TypeInv, TypeInv', HandshakeInv, NEW h \in Hosts, NEW i \in DOMAIN daemonEndPoints[h],
         ProcessingOutgoingMessage(h, i), UNCHANGED appVars
  PROVE  HandshakeInv'
  <1>1. PICK x : x = daemonEndPoints[h][i]
    OBVIOUS
  <1>2. PICK f, o : f = Head(x.outgoingQueue) /\ o = Outgoing(f)
    OBVIOUS
  <1>3. PICK q : q = IF f.cmd = "STEP3" THEN Append(x.inQueue, f) ELSE x.inQueue
    OBVIOUS
  <1>4. PICK y : y = [x EXCEPT !.outgoingQueue = Tail(@), !.outQueue = Append(@, o), !.inQueue = q]
    OBVIOUS
  <1>5. x \in Opened
    BY <1>1, Queued DEF TypeInv
  <1>6. /\ x.outgoingQueue # << >>
        /\ daemonEndPoints' = [daemonEndPoints EXCEPT ![h] = [@ EXCEPT ![i] = y]]
        /\ UNCHANGED <<toDaemon, toApp, net, serviceTable, unixRequest, htpRequest, endPoints, connectionRequest>>
    <2> DEFINE z == daemonEndPoints[h][i]
    <2>0. daemonEndPoints \in [Hosts -> Seq(Opened)]
      BY DEF TypeInv, DaemonPlaces
    <2>1. daemonEndPoints' = [daemonEndPoints EXCEPT ![h] = [@ EXCEPT ![i] =
            [z EXCEPT !.outgoingQueue = Tail(@),
                      !.outQueue = Append(@, Outgoing(Head(z.outgoingQueue))),
                      !.inQueue = IF Head(z.outgoingQueue).cmd = "STEP3"
                                  THEN Append(z.inQueue, Head(z.outgoingQueue)) ELSE z.inQueue]]]
      BY <2>0 DEF ProcessingOutgoingMessage
    <2>2. daemonEndPoints' = [daemonEndPoints EXCEPT ![h] = [@ EXCEPT ![i] = y]]
      BY <1>1, <1>2, <1>3, <1>4, <2>1
    <2> QED BY <1>1, <2>2 DEF ProcessingOutgoingMessage, socketVars, requests, appVars
  <1>7. y \in Opened
    BY <1>6 DEF TypeInv, DaemonPlaces
  <1>8. /\ y.id = x.id /\ y.service = x.service /\ y.incomingQueue = x.incomingQueue
        /\ y.outgoingQueue = Tail(x.outgoingQueue) /\ y.outQueue = Append(x.outQueue, o) /\ y.inQueue = q
    BY <1>4, <1>5 DEF Opened
  <1>9. /\ CallsGrow /\ EndPointsGrow /\ Knowledge' /\ Holds(h, x)'
        /\ Holds(h, y)' => EndPointFrames'
    BY <1>1, <1>6, <1>7, <1>8, QueuesChanged
  <1>10. f \in Of(Leaving(h), x.id)
    BY <1>1, <1>2, <1>6, FirstOf DEF HandshakeInv, EndPointFrames, Holds
  <1>11. f \in Handed /\ f.id = x.id /\ Answers(f)
    BY <1>10 DEF Of, Leaving
  <1>12. o \in Of(Shortened(h)', x.id)
    <2>1. /\ o \in Sent /\ o.id = x.id /\ o.cmd = f.cmd
          /\ f.cmd = "STEP1" => o.args[1] = f.args[1]
          /\ f.cmd # "STEP1" => o = f
      BY <1>2, <1>11, Shorter
    <2>2. Answers(o)
      BY <1>11, <2>1 DEF Answers
    <2>3. o.cmd = "STEP1" => \E p \in Hosts : Asked(h, o.id, o.args[1], p)
      <3> SUFFICES ASSUME o.cmd = "STEP1" PROVE \E p \in Hosts : Asked(h, o.id, o.args[1], p)
        OBVIOUS
      <3>1. Asked(h, x.id, f.args[1], f.args[2])
        BY <1>10, <2>1 DEF Of, Leaving
      <3>2. f.args[2] \in Hosts
        BY <1>1, <3>1, ServedThere
      <3> QED BY <2>1, <3>1, <3>2
    <2>4. o \in Shortened(h)
      BY <2>1, <2>2, <2>3 DEF Shortened
    <2> QED BY <1>9, <2>1, <2>4, PlacesGrow DEF Of
  <1>13. f.cmd = "STEP3" => f \in Of(Arriving(h)', x.id)
    <2> SUFFICES ASSUME f.cmd = "STEP3" PROVE f \in Of(Arriving(h)', x.id)
      OBVIOUS
    <2>1. f \in Sent
      BY <1>11, Shorter
    <2>2. f \in Arriving(h)
      BY <1>11, <2>1 DEF Arriving
    <2> QED BY <1>9, <1>11, <2>2, PlacesGrow DEF Of
  <1>14. Holds(h, y)'
    <2>1. y.inQueue = x.inQueue \/ \E k \in Of(Arriving(h)', x.id) : y.inQueue = Append(x.inQueue, k)
      BY <1>3, <1>8, <1>13
    <2> QED BY <1>6, <1>8, <1>9, <1>12, <2>1, QueuesMoved
  <1>15. AppFrames' /\ NetFrames' /\ LoopFrames'
    BY <1>6, <1>9, DaemonFramesStep
  <1> QED BY <1>9, <1>14, <1>15 DEF HandshakeInv

LEMMA ToAppKnows ==
  ASSUME TypeInv, TypeInv', HandshakeInv, NEW h \in Hosts, NEW i \in DOMAIN daemonEndPoints[h],
         SendPacketToApp(h, i), UNCHANGED appVars
  PROVE  HandshakeInv'
  <1>1. PICK x : x = daemonEndPoints[h][i]
    OBVIOUS
  <1>2. PICK f : f = Head(x.inQueue)
    OBVIOUS
  <1>3. PICK y : y = [x EXCEPT !.inQueue = Tail(@)]
    OBVIOUS
  <1>4. x \in Opened
    BY <1>1, Queued DEF TypeInv
  <1>5. /\ x.inQueue # << >> /\ toApp' = [toApp EXCEPT ![h] = Append(@, f)]
        /\ daemonEndPoints' = [daemonEndPoints EXCEPT ![h] = [@ EXCEPT ![i] = y]]
        /\ UNCHANGED <<toDaemon, net, serviceTable, unixRequest, htpRequest, endPoints, connectionRequest>>
    BY <1>1, <1>2, <1>3 DEF SendPacketToApp, TypeInv, DaemonPlaces, requests, appVars
  <1>6. y \in Opened
    BY <1>5 DEF TypeInv, DaemonPlaces
  <1>7. /\ y.id = x.id /\ y.service = x.service /\ y.incomingQueue = x.incomingQueue
        /\ y.outgoingQueue = x.outgoingQueue /\ y.outQueue = x.outQueue /\ y.inQueue = Tail(x.inQueue)
    BY <1>3, <1>4 DEF Opened
  <1>8. /\ CallsGrow /\ EndPointsGrow /\ Knowledge' /\ Holds(h, x)'
        /\ Holds(h, y)' => EndPointFrames'
    BY <1>1, <1>5, <1>6, <1>7, QueuesChanged
  <1>9. f \in Arriving(h)'
    <2>1. f \in Of(Arriving(h)', x.id)
      BY <1>2, <1>5, <1>8, FirstOf DEF Holds
    <2> QED BY <2>1 DEF Of
  <1>10. EndPointFrames'
    BY <1>5, <1>7, <1>8, QueuesMoved
  <1>11. toApp'[h] = Append(toApp[h], f) /\ \A g \in Hosts : g # h => toApp'[g] = toApp[g]
    BY <1>5 DEF TypeInv, AppPlaces
  <1>12. AppFrames' /\ NetFrames' /\ LoopFrames'
    BY <1>5, <1>8, <1>9, <1>11, DaemonFramesStep
  <1> QED BY <1>8, <1>10, <1>12 DEF HandshakeInv

LEMMA OutsideKnows ==
  ASSUME IdsTellCalls, TypeInv, TypeInv', HandshakeInv, NEW h \in Hosts, NEW i \in DOMAIN daemonEndPoints[h],
         SendPacketOutside(h, i), UNCHANGED appVars
  PROVE  HandshakeInv'
  <1>1. PICK x : x = daemonEndPoints[h][i]
    OBVIOUS
  <1>2. PICK f, p : f = Head(x.outQueue) /\ p = serviceTable[h][x.service]
    OBVIOUS
  <1>3. PICK y, d : y = [x EXCEPT !.outQueue = Tail(@)] /\ d = Datagram(h, p, f)
    OBVIOUS
  <1>4. x \in Opened
    BY <1>1, Queued DEF TypeInv
  <1>5. /\ x.outQueue # << >> /\ net' = BagAdd(net, d)
        /\ daemonEndPoints' = [daemonEndPoints EXCEPT ![h] = [@ EXCEPT ![i] = y]]
        /\ UNCHANGED <<toDaemon, toApp, serviceTable, unixRequest, htpRequest, endPoints, connectionRequest>>
    BY <1>1, <1>2, <1>3 DEF SendPacketOutside, TypeInv, DaemonPlaces, requests, appVars
  <1>6. y \in Opened
    BY <1>5 DEF TypeInv, DaemonPlaces
  <1>7. /\ y.id = x.id /\ y.service = x.service /\ y.incomingQueue = x.incomingQueue
        /\ y.outgoingQueue = x.outgoingQueue /\ y.inQueue = x.inQueue /\ y.outQueue = Tail(x.outQueue)
    BY <1>3, <1>4 DEF Opened
  <1>8. /\ CallsGrow /\ EndPointsGrow /\ Knowledge' /\ Holds(h, x)'
        /\ Holds(h, y)' => EndPointFrames'
    BY <1>1, <1>5, <1>6, <1>7, QueuesChanged
  <1>9. f \in Of(Shortened(h), x.id)
    BY <1>1, <1>2, <1>5, FirstOf DEF HandshakeInv, EndPointFrames, Holds
  <1>10. f \in Sent /\ f.id = x.id /\ Answers(f)
    BY <1>9 DEF Of, Shortened
  <1>11. x.service # Untabled /\ p \in Hosts
    <2>1. x.service # Untabled
      BY <1>4, <1>5 DEF Opened
    <2>2. x.service \in DOMAIN serviceTable[h] /\ serviceTable[h] \in Seq(Hosts)
      BY <1>1, <2>1, Queued DEF TypeInv, DaemonPlaces
    <2> QED BY <1>2, <2>1, <2>2
  <1>12. f.cmd = "STEP1" => \E g \in Hosts : Asked(g, f.id, f.args[1], p) /\ EndPointsByID(g, f.id) # {}
    <2> SUFFICES ASSUME f.cmd = "STEP1" PROVE Asked(h, f.id, f.args[1], p) /\ EndPointsByID(h, f.id) # {}
      OBVIOUS
    <2>1. PICK r \in Hosts : Asked(h, x.id, f.args[1], r)
      BY <1>9, <1>10 DEF Of, Shortened
    <2>2. r = p
      <3>1. PICK id : id = daemonEndPoints[h][i].id
        OBVIOUS
      <3>2. Asked(h, id, f.args[1], r)
        BY <1>1, <2>1, <3>1
      <3>3. r = serviceTable[h][daemonEndPoints[h][i].service]
        BY <3>1, <3>2, ServedThere
      <3> QED BY <1>1, <1>2, <3>3
    <2>3. i \in EndPointsByID(h, f.id)
      BY <1>1, <1>10, <1>11 DEF EndPointsByID
    <2> QED BY <1>10, <2>1, <2>2, <2>3
  <1>13. f \in Arriving(p)'
    <2>1. f \in Arriving(p)
      BY <1>10, <1>12 DEF Arriving
    <2> QED BY <1>8, <1>11, <2>1, PlacesGrow
  <1>14. EndPointFrames'
    BY <1>5, <1>7, <1>8, QueuesMoved
  <1>15. \A e \in BagToSet(net') : e \in BagToSet(net) \/ e.frame \in Arriving(e.to)'
    <2>1. BagToSet(net') = BagToSet(net) \cup {d}
      BY <1>5, Outbound DEF TypeInv, DaemonPlaces
    <2>2. d.frame = f /\ d.to = p
      BY <1>3 DEF Datagram
    <2> QED BY <1>13, <2>1, <2>2
  <1>16. AppFrames' /\ NetFrames' /\ LoopFrames'
    BY <1>5, <1>8, <1>15, DaemonFramesStep
  <1> QED BY <1>8, <1>14, <1>16 DEF HandshakeInv

LEMMA DaemonKnows ==
  ASSUME IdsTellCalls, TypeInv, TypeInv', HandshakeInv, DaemonNext, UNCHANGED appVars
  PROVE  HandshakeInv'
  <1>1. ASSUME NEW h \in Hosts, UnixReadingLoop(h) \/ HtpOpensEndPoint(h) PROVE HandshakeInv'
    BY <1>1, UnixForwardsKnows, UnixRequestKnows, UnixOpensKnows, HtpOpensKnows DEF UnixReadingLoop
  <1>2. ASSUME NEW d \in BagToSet(net), HtpReadingLoop(d) PROVE HandshakeInv'
    BY <1>2, HtpForwardsKnows, HtpRequestKnows DEF HtpReadingLoop
  <1>3. ASSUME NEW h \in Hosts, NEW i \in DOMAIN daemonEndPoints[h], EndPointThreads(h, i) PROVE HandshakeInv'
    BY <1>3, IncomingKnows, OutgoingKnows, ToAppKnows, OutsideKnows DEF EndPointThreads
  <1> QED BY <1>1, <1>2, <1>3 DEF DaemonNext

LEMMA NextHandshake ==
  ASSUME IdsTellCalls, TypeInv, TypeInv', HandshakeInv, [Next]_vars PROVE HandshakeInv'
  <1>1. CASE UNCHANGED vars
    <2>1. UNCHANGED <<toDaemon, toApp, net, serviceTable, daemonEndPoints, unixRequest, htpRequest,
                      endPoints, connectionRequest>>
      BY <1>1 DEF vars, socketVars, daemonVars, requests, appVars
    <2>2. CallsGrow /\ EndPointsGrow /\ Knowledge' /\ EndPointFrames'
      BY <2>1, EndPointsKept
    <2>3. AppFrames' /\ NetFrames' /\ LoopFrames'
      BY <2>1, <2>2, FramesStay DEF AppFrames, NetFrames, LoopFrames
    <2> QED BY <2>2, <2>3 DEF HandshakeInv
  <1>2. CASE Next
    BY <1>2, AppKnows, DaemonKnows DEF Next
  <1> QED BY <1>1, <1>2

LEMMA InClients ==
  ASSUME NEW c PROVE c \in Clients <=> \E h \in Hosts : \E i \in DOMAIN endPoints[h] :
                                        c = endPoints[h][i] /\ endPoints[h][i].role = "client"
  BY DEF Clients

LEMMA InServers ==
  ASSUME NEW h \in Hosts, NEW s
  PROVE  s \in ServersAt(h) <=> \E i \in DOMAIN endPoints[h] :
                                  s = endPoints[h][i] /\ endPoints[h][i].role = "server"
  BY DEF ServersAt

LEMMA KnowsAgreement ==
  ASSUME IdsTellCalls, TypeInv, HandshakeInv
  PROVE  Agreement
  <1>1. ClientAgreement
    <2> SUFFICES ASSUME NEW c \in Clients, c.phase \in {"exchanged", "wait3", "got3", "connected"}
                 PROVE  \E s \in ServersAt(c.peer) : /\ s.id = c.id /\ s.challengeReceived = c.challengeSent
                                                     /\ s.challengeSent = c.challengeReceived
      BY DEF ClientAgreement
    <2>1. ClientKnows(c)
      BY InClients DEF HandshakeInv, Knowledge
    <2>2. c.peer \in Hosts /\ Replied(c.peer, c.id, c.challengeSent, c.challengeReceived)
      BY <2>1 DEF ClientKnows
    <2> QED BY <2>2, InServers DEF Replied
  <1>2. ServerAgreement
    <2> SUFFICES ASSUME NEW h \in Hosts, NEW s \in ServersAt(h), s.phase = "connected"
                 PROVE  \E c \in Clients : /\ c.phase = "connected" /\ c.id = s.id /\ c.peer = h
                                           /\ c.challengeReceived = s.challengeSent
                                           /\ c.challengeSent = s.challengeReceived
      BY DEF ServerAgreement
    <2>1. PICK i \in DOMAIN endPoints[h] : s = endPoints[h][i] /\ s.role = "server"
      BY InServers
    <2>2. ListenEntry(h, i, s) /\ ServerKnows(h, s)
      BY <2>1, EntryKnows
    <2>3. PICK g \in Hosts : Asked(g, s.id, s.challengeReceived, h)
      BY <2>2 DEF ServerKnows
    <2>4. PICK a \in DOMAIN endPoints[g] :
            /\ endPoints[g][a].role = "client" /\ endPoints[g][a].id = s.id
            /\ endPoints[g][a].challengeSent = s.challengeReceived /\ endPoints[g][a].peer = h
      BY <2>3 DEF Asked
    <2>5. PICK k \in Hosts : \E m \in DOMAIN endPoints[k] :
            /\ endPoints[k][m].role = "client" /\ endPoints[k][m].phase = "connected"
            /\ endPoints[k][m].id = s.id /\ endPoints[k][m].challengeReceived = s.challengeSent
      BY <2>2 DEF ServerKnows, Confirmed
    <2>6. PICK m \in DOMAIN endPoints[k] :
            /\ endPoints[k][m].role = "client" /\ endPoints[k][m].phase = "connected"
            /\ endPoints[k][m].id = s.id /\ endPoints[k][m].challengeReceived = s.challengeSent
      BY <2>5
    <2>7. PICK c : c = endPoints[k][m]
      OBVIOUS
    <2>8. c.peer = h
      BY <2>4, <2>6, <2>7, OneCaller DEF TypeInv
    <2>9. CallEntry(k, m, c) /\ ClientKnows(c) /\ CallEntry(g, a, endPoints[g][a])
      BY <2>4, <2>6, <2>7, EntryKnows
    <2>10. PICK j \in DOMAIN endPoints[h] :
             /\ endPoints[h][j].role = "server" /\ endPoints[h][j].phase # "listening"
             /\ endPoints[h][j].challengeReceived = c.challengeSent
             /\ endPoints[h][j].challengeSent = c.challengeReceived
      BY <2>6, <2>7, <2>8, <2>9 DEF ClientKnows, Replied
    <2>11. c.challengeSent = s.challengeReceived
      <3>1. CASE FreshChallenges
        <4>1. ListenEntry(h, j, endPoints[h][j])
          BY DEF TypeInv, Calls
        <4>2. ServerChallenge(h, i) = ServerChallenge(h, j)
          BY <2>1, <2>2, <2>6, <2>7, <2>10, <4>1 DEF ListenEntry
        <4>3. i = j
          BY <3>1, <4>2 DEF ServerChallenge
        <4> QED BY <2>1, <2>10, <4>3
      <3>2. CASE ~FreshChallenges
        BY <2>4, <2>6, <2>7, <2>9, <3>2 DEF CallEntry, ClientChallenge
      <3> QED BY <3>1, <3>2
    <2>12. c \in Clients
      BY <2>6, <2>7, InClients
    <2> QED BY <2>6, <2>7, <2>8, <2>11, <2>12
  <1> QED BY <1>1, <1>2 DEF Agreement

LEMMA HandshakeCorrect == ASSUME IdsTellCalls PROVE Spec => [](TypeInv /\ HandshakeInv)
  <1> DEFINE I == TypeInv /\ HandshakeInv
  <1>1. Init => I
    BY InitTypes, InitHandshake
  <1>2. I /\ [Next]_vars => I'
    BY NextTypes, NextHandshake
  <1> QED BY <1>1, <1>2, PTL DEF Spec

(* Where an endpoint ID tells calls apart, the two applications agree:     *)
(* an establishConnection that verified the server's proof was answered on *)
(* the host it asked for, a listenConnection that returned an endpoint has *)
(* its establishConnection that returned one, and both know the same two   *)
(* challenges - for any number of hosts, calls and services the daemons    *)
(* had before, whatever the network loses, repeats or reorders.            *)
THEOREM Agreed == ASSUME IdsTellCalls PROVE Spec => []Agreement
  <1>1. TypeInv /\ HandshakeInv => Agreement
    BY KnowsAgreement
  <1> QED BY <1>1, HandshakeCorrect, PTL

-----------------------------------------------------------------------------
(* The handshake implements SvcConnection.  An entry that is not yet       *)
(* trusted, or answered, becomes so once; from then on it keeps its        *)
(* session.                                                                *)
Untrusted == {"requested", "wait2", "got2"}
Trusted == {"exchanged", "wait3", "got3"}
Answered == {"answered", "wait4", "got4"}

Moves(e, f) ==
  /\ f.role = e.role
  /\ e.role = "client" =>
       /\ f.id = e.id /\ f.peer = e.peer /\ f.challengeSent = e.challengeSent
       /\ \/ e.phase \in Untrusted /\ f.phase \in Untrusted \cup {"freed"}
          \/ e.phase \in Untrusted /\ f.phase = "exchanged"
          \/ /\ e.phase \in Trusted /\ f.phase \in Trusted \cup {"connected", "freed"}
             /\ f.challengeReceived = e.challengeReceived
  /\ e.role = "server" =>
       \/ e.phase = "listening" /\ f.phase = "answered"
       \/ /\ e.phase \in Answered /\ f.phase \in Answered \cup {"connected", "freed"}
          /\ f.id = e.id /\ f.challengeReceived = e.challengeReceived /\ f.challengeSent = e.challengeSent

EntryMoves ==
  \/ UNCHANGED endPoints
  \/ \E h \in Hosts : \E e \in Entries :
       /\ e.phase \in {"requested", "listening"}
       /\ endPoints' = [endPoints EXCEPT ![h] = Append(@, e)]
  \/ \E h \in Hosts : \E i \in DOMAIN endPoints[h] : \E e \in Entries :
       /\ Moves(endPoints[h][i], e)
       /\ endPoints' = [endPoints EXCEPT ![h] = [@ EXCEPT ![i] = e]]

(* What an assignment to some fields leaves of an entry. *)
LEMMA EntryMoved ==
  ASSUME TypeInv, TypeInv', NEW h \in Hosts, NEW i \in DOMAIN endPoints[h], NEW e,
         Moves(endPoints[h][i], e),
         endPoints' = [endPoints EXCEPT ![h][i] = e]
  PROVE  EntryMoves
  <1>1. endPoints \in [Hosts -> Seq(Entries)] /\ endPoints' \in [Hosts -> Seq(Entries)]
    BY DEF TypeInv, Calls
  <1>2. endPoints' = [endPoints EXCEPT ![h] = [@ EXCEPT ![i] = e]]
    BY <1>1
  <1>3. e \in Entries
    BY <1>1, <1>2
  <1> QED BY <1>2, <1>3 DEF EntryMoves

AppendsEntry(h, e) ==
  e.phase \in {"requested", "listening"} /\ endPoints' = [endPoints EXCEPT ![h] = Append(@, e)]

LEMMA NewEntryMoves ==
  ASSUME TypeInv, TypeInv', NEW h \in Hosts, NEW e, AppendsEntry(h, e)
  PROVE  EntryMoves
  <1>1. e.phase \in {"requested", "listening"} /\ endPoints' = [endPoints EXCEPT ![h] = Append(@, e)]
    BY DEF AppendsEntry
  <1> DEFINE n == Len(endPoints[h]) + 1
  <1>2. endPoints[h] \in Seq(Entries) /\ endPoints'[h] \in Seq(Entries) /\ endPoints'[h] = Append(endPoints[h], e)
    BY <1>1 DEF TypeInv, Calls
  <1>3. Len(endPoints'[h]) = n /\ n \in 1..Len(endPoints'[h]) /\ endPoints'[h][n] = e
    BY <1>2, AppendProperties
  <1>4. e \in Entries
    BY <1>2, <1>3
  <1> QED BY <1>1, <1>4 DEF EntryMoves

LEMMA CallMoves ==
  ASSUME TypeInv, TypeInv', NEW h \in Hosts, NEW i \in DOMAIN endPoints[h],
         RegisterWait(h, i) \/ Timeout(h, i) \/ StrayConfirms(h, i) \/ ClientConfirms(h, i) \/ ServerVerifies(h, i)
  PROVE  EntryMoves
  <1>1. PICK x : x = endPoints[h][i]
    OBVIOUS
  <1>2. PICK p : /\ endPoints' = [endPoints EXCEPT ![h][i].phase = p]
                 /\ \/ x.phase = "requested" /\ p = "wait2"
                    \/ x.phase = "exchanged" /\ p = "wait3"
                    \/ x.phase = "answered" /\ p = "wait4"
                    \/ x.phase = "wait3" /\ p = "got3"
                    \/ x.phase \in {"wait2", "wait3", "wait4", "got4"} /\ p = "freed"
                    \/ x.phase \in {"got3", "got4"} /\ p = "connected"
    <2>1. CASE RegisterWait(h, i)
      BY <1>1, <2>1 DEF RegisterWait
    <2>2. CASE Timeout(h, i)
      BY <1>1, <2>2 DEF Timeout
    <2>3. CASE ClientConfirms(h, i)
      BY <1>1, <2>3 DEF ClientConfirms
    <2>4. CASE ServerVerifies(h, i)
      BY <1>1, <2>4 DEF ServerVerifies
    <2>5. CASE StrayConfirms(h, i)
      BY <1>1, <2>5 DEF StrayConfirms
    <2> QED BY <2>1, <2>2, <2>3, <2>4, <2>5
  <1>3. PICK e : e = [x EXCEPT !.phase = p]
    OBVIOUS
  <1>4. (x \in ClientEntries /\ x.role = "client") \/ (x \in ServerEntries /\ x.role = "server")
    BY <1>1, Entered, Roles DEF TypeInv
  <1>5. endPoints' = [endPoints EXCEPT ![h][i] = e]
    <2>1. endPoints \in [Hosts -> Seq(Entries)]
      BY DEF TypeInv, Calls
    <2>2. endPoints' = [endPoints EXCEPT ![h][i] = [endPoints[h][i] EXCEPT !.phase = p]]
      BY <1>2, <2>1
    <2> QED BY <1>1, <1>3, <2>2
  <1>6. Moves(x, e)
    <2>1. CASE x \in ClientEntries /\ x.role = "client"
      <3>1. e.role = x.role /\ e.id = x.id /\ e.peer = x.peer /\ e.challengeSent = x.challengeSent
            /\ e.challengeReceived = x.challengeReceived /\ e.phase = p
        BY <1>3, <2>1 DEF ClientEntries
      <3>2. x.phase \in ClientPhases \cup {"connected", "freed"}
        BY <2>1 DEF ClientEntries
      <3> QED BY <1>2, <2>1, <3>1, <3>2, Names DEF Moves, Untrusted, Trusted
    <2>2. CASE x \in ServerEntries /\ x.role = "server"
      <3>1. e.role = x.role /\ e.id = x.id /\ e.challengeSent = x.challengeSent
            /\ e.challengeReceived = x.challengeReceived /\ e.phase = p
        BY <1>3, <2>2 DEF ServerEntries
      <3>2. x.phase \in ServerPhases \cup {"connected", "freed"}
        BY <2>2 DEF ServerEntries
      <3> QED BY <1>2, <2>2, <3>1, <3>2, Names DEF Moves, Answered
    <2> QED BY <1>4, <2>1, <2>2
  <1> QED BY <1>1, <1>5, <1>6, EntryMoved

LEMMA VerifyMoves ==
  ASSUME TypeInv, TypeInv', NEW h \in Hosts, NEW i \in DOMAIN endPoints[h], ClientVerifies(h, i)
  PROVE  EntryMoves
  <1>1. PICK x : x = endPoints[h][i]
    OBVIOUS
  <1>2. PICK c : c = x.params[2]
    OBVIOUS
  <1>3. /\ x.phase = "got2"
        /\ \/ endPoints' = [endPoints EXCEPT ![h][i].phase = "exchanged", ![h][i].challengeReceived = c]
           \/ endPoints' = [endPoints EXCEPT ![h][i].phase = "freed"]
    BY <1>1, <1>2 DEF ClientVerifies
  <1>4. x \in ClientEntries /\ x.role = "client"
    BY <1>1, <1>3, Entered, Roles, Names DEF TypeInv
  <1>5. endPoints \in [Hosts -> Seq(Entries)]
    BY DEF TypeInv, Calls
  <1>6. CASE endPoints' = [endPoints EXCEPT ![h][i].phase = "exchanged", ![h][i].challengeReceived = c]
    <2>1. PICK e : e = [x EXCEPT !.phase = "exchanged", !.challengeReceived = c]
      OBVIOUS
    <2>2. endPoints' = [endPoints EXCEPT ![h][i] =
            [endPoints[h][i] EXCEPT !.phase = "exchanged", !.challengeReceived = c]]
      BY <1>5, <1>6
    <2>3. endPoints' = [endPoints EXCEPT ![h][i] = e]
      BY <1>1, <2>1, <2>2
    <2>4. Moves(x, e)
      BY <1>3, <1>4, <2>1 DEF ClientEntries, Moves, Untrusted
    <2> QED BY <1>1, <2>3, <2>4, EntryMoved
  <1>7. CASE endPoints' = [endPoints EXCEPT ![h][i].phase = "freed"]
    <2>1. PICK e : e = [x EXCEPT !.phase = "freed"]
      OBVIOUS
    <2>2. endPoints' = [endPoints EXCEPT ![h][i] = [endPoints[h][i] EXCEPT !.phase = "freed"]]
      BY <1>5, <1>7
    <2>3. endPoints' = [endPoints EXCEPT ![h][i] = e]
      BY <1>1, <2>1, <2>2
    <2>4. Moves(x, e)
      BY <1>3, <1>4, <2>1 DEF ClientEntries, Moves, Untrusted
    <2> QED BY <1>1, <2>3, <2>4, EntryMoved
  <1> QED BY <1>3, <1>6, <1>7

LEMMA AnswerMoves ==
  ASSUME TypeInv, TypeInv', NEW h \in Hosts, NEW i \in DOMAIN endPoints[h], AnswerRequest(h, i)
  PROVE  EntryMoves
  <1>1. PICK x, d, r, c : /\ x = endPoints[h][i] /\ d = Head(connectionRequest[h]).id
                          /\ r = Head(connectionRequest[h]).args[1] /\ c = ServerChallenge(h, i)
    OBVIOUS
  <1>2. /\ x.phase = "listening"
        /\ endPoints' = [endPoints EXCEPT ![h][i].phase = "answered", ![h][i].id = d,
                                          ![h][i].challengeSent = c, ![h][i].challengeReceived = r]
    BY <1>1 DEF AnswerRequest
  <1>3. x \in ServerEntries /\ x.role = "server"
    BY <1>1, <1>2, Entered, Roles, Names DEF TypeInv
  <1>4. PICK e : e = [x EXCEPT !.phase = "answered", !.id = d, !.challengeSent = c, !.challengeReceived = r]
    OBVIOUS
  <1>5. endPoints' = [endPoints EXCEPT ![h][i] = e]
    <2>1. endPoints \in [Hosts -> Seq(Entries)]
      BY DEF TypeInv, Calls
    <2>2. endPoints' = [endPoints EXCEPT ![h][i] =
            [endPoints[h][i] EXCEPT !.phase = "answered", !.id = d, !.challengeSent = c, !.challengeReceived = r]]
      BY <1>2, <2>1
    <2> QED BY <1>1, <1>4, <2>2
  <1>6. Moves(x, e)
    BY <1>2, <1>3, <1>4 DEF ServerEntries, Moves
  <1> QED BY <1>1, <1>5, <1>6, EntryMoved

LEMMA NotifyMoves ==
  ASSUME TypeInv, TypeInv', NEW h \in Hosts, PacketNotifies(h)
  PROVE  EntryMoves
  <1>1. PICK f, a : f = Head(toApp[h]) /\ a = f.args
    OBVIOUS
  <1>2. PICK i \in FirstLive(h, f.id) :
          /\ Awaits(endPoints[h][i], f.cmd)
          /\ endPoints' = [endPoints EXCEPT
               ![h][i].params = a,
               ![h][i].phase = CASE endPoints[h][i].phase = "wait2" -> "got2"
                                 [] endPoints[h][i].phase = "wait3" -> "got3"
                                 [] OTHER -> "got4"]
    BY <1>1 DEF PacketNotifies
  <1>3. i \in DOMAIN endPoints[h]
    BY DEF FirstLive, LiveEntries, EntriesOf
  <1>4. PICK x : x = endPoints[h][i]
    OBVIOUS
  <1>5. PICK p : p = CASE x.phase = "wait2" -> "got2" [] x.phase = "wait3" -> "got3" [] OTHER -> "got4"
    OBVIOUS
  <1>6. \/ x.phase = "wait2" /\ p = "got2"
        \/ x.phase = "wait3" /\ p = "got3"
        \/ x.phase = "wait4" /\ p = "got4"
    BY <1>2, <1>4, <1>5 DEF Awaits
  <1>7. PICK e : e = [x EXCEPT !.params = a, !.phase = p]
    OBVIOUS
  <1>8. endPoints' = [endPoints EXCEPT ![h][i] = e]
    <2>1. endPoints \in [Hosts -> Seq(Entries)]
      BY DEF TypeInv, Calls
    <2>2. endPoints' = [endPoints EXCEPT ![h][i].params = a, ![h][i].phase = p]
      BY <1>2, <1>4, <1>5
    <2>3. endPoints' = [endPoints EXCEPT ![h][i] = [endPoints[h][i] EXCEPT !.params = a, !.phase = p]]
      BY <1>3, <2>1, <2>2
    <2> QED BY <1>4, <1>7, <2>3
  <1>9. (x \in ClientEntries /\ x.role = "client") \/ (x \in ServerEntries /\ x.role = "server")
    BY <1>3, <1>4, Entered, Roles DEF TypeInv
  <1>10. Moves(x, e)
    <2>1. CASE x \in ClientEntries /\ x.role = "client"
      <3>1. e.role = x.role /\ e.id = x.id /\ e.peer = x.peer /\ e.challengeSent = x.challengeSent
            /\ e.challengeReceived = x.challengeReceived /\ e.phase = p
        BY <1>7, <2>1 DEF ClientEntries
      <3>2. x.phase \in ClientPhases \cup {"connected", "freed"}
        BY <2>1 DEF ClientEntries
      <3> QED BY <1>6, <2>1, <3>1, <3>2, Names DEF Moves, Untrusted, Trusted
    <2>2. CASE x \in ServerEntries /\ x.role = "server"
      <3>1. e.role = x.role /\ e.id = x.id /\ e.challengeSent = x.challengeSent
            /\ e.challengeReceived = x.challengeReceived /\ e.phase = p
        BY <1>7, <2>2 DEF ServerEntries
      <3>2. x.phase \in ServerPhases \cup {"connected", "freed"}
        BY <2>2 DEF ServerEntries
      <3> QED BY <1>6, <2>2, <3>1, <3>2, Names DEF Moves, Answered
    <2> QED BY <1>9, <2>1, <2>2
  <1> QED BY <1>3, <1>4, <1>8, <1>10, EntryMoved

LEMMA NextMoves == ASSUME TypeInv, TypeInv', [Next]_vars PROVE EntryMoves
  <1>1. CASE UNCHANGED vars \/ UNCHANGED appVars
    BY <1>1 DEF vars, appVars, EntryMoves
  <1>2. ASSUME NEW a \in Attempts, EstablishConnection(a) PROVE EntryMoves
    <2>1. PICK h \in Hosts : h = ClientOf[a]
      BY SocketsAssumption
    <2>2. PICK n, c : n = Len(endPoints[h]) + 1 /\ c = ClientChallenge(h, n)
      OBVIOUS
    <2>3. PICK address : endPoints' = [endPoints EXCEPT ![h] =
                           Append(@, [NewClient(a, address) EXCEPT !.challengeSent = c])]
      BY <1>2, <2>1, <2>2 DEF EstablishConnection
    <2>4. PICK e : e = [NewClient(a, address) EXCEPT !.challengeSent = c]
      OBVIOUS
    <2>5. e.phase \in {"requested", "listening"}
      BY <2>4 DEF NewClient
    <2>6. endPoints' = [endPoints EXCEPT ![h] = Append(@, e)]
      BY <2>3, <2>4
    <2>7. AppendsEntry(h, e)
      BY <2>5, <2>6 DEF AppendsEntry
    <2> QED BY <2>7, NewEntryMoves
  <1>3. ASSUME NEW h \in Hosts, Listen(h) PROVE EntryMoves
    <2>1. PICK e : e = NewServer
      OBVIOUS
    <2>2. e.phase \in {"requested", "listening"}
      BY <2>1 DEF NewServer
    <2>3. endPoints' = [endPoints EXCEPT ![h] = Append(@, e)]
      BY <1>3, <2>1 DEF Listen
    <2>4. AppendsEntry(h, e)
      BY <2>2, <2>3 DEF AppendsEntry
    <2> QED BY <2>4, NewEntryMoves
  <1>4. ASSUME NEW h \in Hosts, ProcessPacket(h) PROVE EntryMoves
    <2>1. CASE PacketNotifies(h)
      BY <2>1, NotifyMoves
    <2>2. CASE PacketRequests(h) \/ PacketDropped(h) \/ PacketCrashes(h)
      BY <2>2 DEF PacketRequests, PacketDropped, PacketCrashes, appVars, EntryMoves
    <2> QED BY <1>4, <2>1, <2>2 DEF ProcessPacket
  <1>5. ASSUME NEW h \in Hosts, NEW i \in DOMAIN endPoints[h],
               RegisterWait(h, i) \/ Timeout(h, i) \/ StrayCrashes(h, i) \/ StrayConfirms(h, i)
                 \/ ClientCall(h, i) \/ ServerCall(h, i)
        PROVE  EntryMoves
    BY <1>5, CallMoves, VerifyMoves, AnswerMoves DEF ClientCall, ServerCall, StrayCrashes, EntryMoves
  <1>6. CASE AppNext
    BY <1>2, <1>3, <1>4, <1>5, <1>6 DEF AppNext
  <1> QED BY <1>1, <1>6 DEF Next

(* The session of an entry, and where a session comes from. *)
SessionOf(h, e) ==
  IF e.role = "client" THEN Session(e.id, e.peer, e.challengeSent, e.challengeReceived)
  ELSE Session(e.id, h, e.challengeReceived, e.challengeSent)
SessionsOf(role, phases) ==
  IF role = "client" THEN ClientSessions(phases) ELSE ServerSessions(phases)

Arises(role, P, z) ==
  \E h \in Hosts : \E i \in DOMAIN endPoints[h] :
    /\ endPoints[h][i].role = role /\ endPoints[h][i].phase \in P
    /\ z = SessionOf(h, endPoints[h][i])
SessionsArise == \A role \in {"client", "server"} : \A P, z : z \in SessionsOf(role, P) <=> Arises(role, P, z)

LEMMA InSessions == SessionsArise
  <1> SUFFICES ASSUME NEW role \in {"client", "server"}, NEW P, NEW z
               PROVE  z \in SessionsOf(role, P) <=> Arises(role, P, z)
    BY DEF SessionsArise
  <1>1. CASE role = "client"
    <2>1. z \in SessionsOf(role, P) <=>
            \E c \in Clients : c.phase \in P /\ z = Session(c.id, c.peer, c.challengeSent, c.challengeReceived)
      BY <1>1 DEF SessionsOf, ClientSessions
    <2>2. \A c : c \in Clients <=> \E h \in Hosts : \E i \in DOMAIN endPoints[h] :
                                     c = endPoints[h][i] /\ endPoints[h][i].role = "client"
      BY InClients
    <2> QED BY <1>1, <2>1, <2>2 DEF SessionOf, Arises
  <1>2. CASE role = "server"
    <2>1. z \in SessionsOf(role, P) <=>
            \E h \in Hosts : \E s \in ServersAt(h) :
              s.phase \in P /\ z = Session(s.id, h, s.challengeReceived, s.challengeSent)
      BY <1>2 DEF SessionsOf, ServerSessions
    <2>2. \A h \in Hosts : \A s : s \in ServersAt(h) <=> \E i \in DOMAIN endPoints[h] :
                                     s = endPoints[h][i] /\ endPoints[h][i].role = "server"
      BY InServers
    <2> QED BY <1>2, <2>1, <2>2 DEF SessionOf, Arises
  <1> QED BY <1>1, <1>2

LEMMA InNextSessions == SessionsArise'
  BY InSessions, PTL

(* An entry that moves from e to f changes the sessions of its own role,   *)
(* by its own session.                                                     *)
EntryBecomes(h, i, e, f) ==
  /\ e = endPoints[h][i] /\ f.role = e.role
  /\ endPoints' = [endPoints EXCEPT ![h] = [@ EXCEPT ![i] = f]]
SessionsFollow(h, e, f, role, P) ==
  /\ role # e.role \/ (e.phase \notin P /\ f.phase \notin P) => SessionsOf(role, P)' = SessionsOf(role, P)
  /\ role = e.role /\ f.phase \in P /\ (e.phase \in P => SessionOf(h, f) = SessionOf(h, e))
       => SessionsOf(role, P)' = SessionsOf(role, P) \cup {SessionOf(h, f)}
  /\ role = e.role /\ e.phase \in P /\ f.phase \notin P
       => SessionsOf(role, P)' \in {SessionsOf(role, P), SessionsOf(role, P) \ {SessionOf(h, e)}}

LEMMA SessionsMove ==
  ASSUME TypeInv, NEW h \in Hosts, NEW i \in DOMAIN endPoints[h], NEW e, NEW f \in Entries,
         EntryBecomes(h, i, e, f), NEW role \in {"client", "server"}, NEW P
  PROVE  SessionsFollow(h, e, f, role, P)
  <1>0. /\ e = endPoints[h][i] /\ f.role = e.role
        /\ endPoints' = [endPoints EXCEPT ![h] = [@ EXCEPT ![i] = f]]
    BY DEF EntryBecomes
  <1>1. /\ \A g \in Hosts : DOMAIN endPoints'[g] = DOMAIN endPoints[g]
        /\ \A g \in Hosts : \A j \in DOMAIN endPoints[g] :
             endPoints'[g][j] = IF g = h /\ j = i THEN f ELSE endPoints[g][j]
    BY <1>0, EntryChanged DEF TypeInv
  <1> DEFINE Other(z) == \E g \in Hosts : \E j \in DOMAIN endPoints[g] :
               /\ ~(g = h /\ j = i)
               /\ endPoints[g][j].role = role /\ endPoints[g][j].phase \in P
               /\ z = SessionOf(g, endPoints[g][j])
  <1>2. \A z : z \in SessionsOf(role, P) <=>
                 Other(z) \/ (e.role = role /\ e.phase \in P /\ z = SessionOf(h, e))
    BY <1>0, InSessions DEF SessionsArise, Arises
  <1>3. \A z : z \in SessionsOf(role, P)' <=>
                 Other(z) \/ (f.role = role /\ f.phase \in P /\ z = SessionOf(h, f))
    <2>1. \A z : z \in SessionsOf(role, P)' <=> Arises(role, P, z)'
      BY InNextSessions DEF SessionsArise
    <2> QED BY <1>0, <1>1, <2>1 DEF Arises
  <1> HIDE DEF Other
  <1>4. CASE role # e.role \/ (e.phase \notin P /\ f.phase \notin P)
    <2>1. \A z : z \in SessionsOf(role, P)' <=> z \in SessionsOf(role, P)
      BY <1>0, <1>2, <1>3, <1>4
    <2> QED BY <1>0, <1>4, <2>1 DEF SessionsFollow
  <1>5. CASE role = e.role /\ f.phase \in P /\ (e.phase \in P => SessionOf(h, f) = SessionOf(h, e))
    <2>1. SessionsOf(role, P)' = SessionsOf(role, P) \cup {SessionOf(h, f)}
      BY <1>0, <1>2, <1>3, <1>5
    <2> QED BY <1>5, <2>1 DEF SessionsFollow
  <1>6. CASE role = e.role /\ e.phase \in P /\ f.phase \notin P
    <2>1. SessionsOf(role, P)' \in {SessionsOf(role, P), SessionsOf(role, P) \ {SessionOf(h, e)}}
      BY <1>0, <1>2, <1>3, <1>6
    <2> QED BY <1>6, <2>1 DEF SessionsFollow
  <1> QED BY <1>4, <1>5, <1>6 DEF SessionsFollow

(* The variables of SvcConnection. *)
InAnswered == {"answered", "wait4", "got4", "connected", "freed"}
InTrusted == {"exchanged", "wait3", "got3", "connected"}
LEMMA Mapped ==
  /\ ServerSessions(InAnswered) = SessionsOf("server", InAnswered)
  /\ ClientSessions(InTrusted) = SessionsOf("client", InTrusted)
  /\ ClientSessions({"connected"}) = SessionsOf("client", {"connected"})
  /\ ServerSessions({"connected"}) = SessionsOf("server", {"connected"})
  /\ (ServerSessions(InAnswered) = SessionsOf("server", InAnswered))'
  /\ (ClientSessions(InTrusted) = SessionsOf("client", InTrusted))'
  /\ (ClientSessions({"connected"}) = SessionsOf("client", {"connected"}))'
  /\ (ServerSessions({"connected"}) = SessionsOf("server", {"connected"}))'
  BY DEF SessionsOf

LEMMA ConnectionSteps ==
  ASSUME NEW A, NEW T, NEW C, NEW E, NEW A1, NEW T1, NEW C1, NEW E1,
         A = SessionsOf("server", InAnswered), T = SessionsOf("client", InTrusted),
         C = SessionsOf("client", {"connected"}), E = SessionsOf("server", {"connected"}),
         A1 = SessionsOf("server", InAnswered)', T1 = SessionsOf("client", InTrusted)',
         C1 = SessionsOf("client", {"connected"})', E1 = SessionsOf("server", {"connected"})',
         \/ A1 = A /\ T1 = T /\ C1 = C /\ E1 = E
         \/ \E s \in Sessions :
              \/ A1 = A \cup {s} /\ T1 = T /\ C1 = C /\ E1 = E
              \/ s \in A /\ T1 = T \cup {s} /\ A1 = A /\ C1 = C /\ E1 = E
              \/ s \notin C /\ T1 = T \ {s} /\ A1 = A /\ C1 = C /\ E1 = E
              \/ s \in T /\ C1 = C \cup {s} /\ A1 = A /\ T1 = T /\ E1 = E
              \/ s \in C /\ E1 = E \cup {s} /\ A1 = A /\ T1 = T /\ C1 = C
  PROVE  [Connection!Next]_Connection!vars
  BY Mapped DEF Connection!Next, Connection!vars, Connection!Answer, Connection!Trust, Connection!Abandon,
                Connection!Accept, Connection!Establish, InAnswered, InTrusted

(* An entry that is added is in no session yet. *)
LEMMA SessionsKept ==
  ASSUME TypeInv, NEW h \in Hosts, NEW e \in Entries,
         endPoints' = [endPoints EXCEPT ![h] = Append(@, e)],
         NEW role \in {"client", "server"}, NEW P, e.phase \notin P
  PROVE  SessionsOf(role, P)' = SessionsOf(role, P)
  <1> DEFINE n == Len(endPoints[h]) + 1
  <1>1. /\ \A g \in Hosts : g # h => endPoints'[g] = endPoints[g]
        /\ DOMAIN endPoints'[h] = DOMAIN endPoints[h] \cup {n}
        /\ \A i \in DOMAIN endPoints[h] : endPoints'[h][i] = endPoints[h][i]
        /\ endPoints'[h][n] = e
    BY EntryAdded DEF TypeInv
  <1>2. \A z : Arises(role, P, z)' <=> Arises(role, P, z)
    BY <1>1 DEF Arises
  <1>3. \A z : z \in SessionsOf(role, P)' <=> z \in SessionsOf(role, P)
    BY <1>2, InSessions, InNextSessions DEF SessionsArise
  <1> QED BY <1>3

LEMMA ClientStep ==
  ASSUME TypeInv, TypeInv', HandshakeInv', NEW h \in Hosts, NEW i \in DOMAIN endPoints[h], NEW e,
         e = endPoints[h][i], NEW f \in Entries, Moves(e, f), e.role = "client",
         endPoints' = [endPoints EXCEPT ![h] = [@ EXCEPT ![i] = f]]
  PROVE  [Connection!Next]_Connection!vars
  <1>1. PICK A, T, C, E, A1, T1, C1, E1 :
          /\ A = SessionsOf("server", InAnswered) /\ T = SessionsOf("client", InTrusted)
          /\ C = SessionsOf("client", {"connected"}) /\ E = SessionsOf("server", {"connected"})
          /\ A1 = SessionsOf("server", InAnswered)' /\ T1 = SessionsOf("client", InTrusted)'
          /\ C1 = SessionsOf("client", {"connected"})' /\ E1 = SessionsOf("server", {"connected"})'
    OBVIOUS
  <1>2. /\ f.role = "client" /\ f.id = e.id /\ f.peer = e.peer /\ f.challengeSent = e.challengeSent
        /\ \/ e.phase \in Untrusted /\ f.phase \in Untrusted \cup {"freed"}
           \/ e.phase \in Untrusted /\ f.phase = "exchanged"
           \/ /\ e.phase \in Trusted /\ f.phase \in Trusted \cup {"connected", "freed"}
              /\ f.challengeReceived = e.challengeReceived
    BY DEF Moves
  <1>0. /\ SessionsFollow(h, e, f, "server", InAnswered) /\ SessionsFollow(h, e, f, "client", InTrusted)
        /\ SessionsFollow(h, e, f, "client", {"connected"}) /\ SessionsFollow(h, e, f, "server", {"connected"})
    <2>1. EntryBecomes(h, i, e, f)
      BY <1>2 DEF EntryBecomes
    <2> QED BY <2>1, SessionsMove
  <1>3. A1 = A /\ E1 = E
    BY <1>0, <1>1, <1>2 DEF SessionsFollow
  <1>4. endPoints'[h][i] = f /\ i \in DOMAIN endPoints'[h]
    BY EntryChanged DEF TypeInv
  <1>5. /\ e \in ClientEntries /\ f \in ClientEntries /\ CallEntry(h, i, e) /\ CallEntry(h, i, f)
    <2>1. e \in Entries /\ CallEntry(h, i, e) /\ CallEntry(h, i, f)
      BY <1>4 DEF TypeInv, Calls
    <2> QED BY <1>2, <2>1, Roles
  <1>6. CASE e.phase \in Untrusted /\ f.phase \in Untrusted \cup {"freed"}
    <2>1. e.phase \notin InTrusted /\ f.phase \notin InTrusted
          /\ e.phase \notin {"connected"} /\ f.phase \notin {"connected"}
      BY <1>6 DEF Untrusted, InTrusted
    <2>2. T1 = T /\ C1 = C
      BY <1>0, <1>1, <2>1, <1>2 DEF SessionsFollow
    <2> QED BY <1>1, <1>3, <2>2, ConnectionSteps
  <1>7. CASE e.phase \in Untrusted /\ f.phase = "exchanged"
    <2>1. PICK s : s = SessionOf(h, f)
      OBVIOUS
    <2>2. /\ e.phase \notin InTrusted /\ f.phase \in InTrusted
          /\ e.phase \notin {"connected"} /\ f.phase \notin {"connected"}
      BY <1>7 DEF Untrusted, InTrusted
    <2>3. T1 = T \cup {s}
      BY <1>0, <1>1, <1>2, <2>1, <2>2 DEF SessionsFollow
    <2>4. C1 = C
      BY <1>0, <1>1, <1>2, <2>2 DEF SessionsFollow
    <2>5. s \in A1
      <3>1. ClientKnows(f)'
        BY <1>2, <1>4 DEF HandshakeInv, Knowledge
      <3>2. f.peer \in Hosts /\ Replied(f.peer, f.id, f.challengeSent, f.challengeReceived)'
        BY <1>7, <3>1 DEF ClientKnows
      <3>3. PICK j \in DOMAIN endPoints'[f.peer] :
              /\ endPoints'[f.peer][j].role = "server" /\ endPoints'[f.peer][j].phase # "listening"
              /\ endPoints'[f.peer][j].id = f.id
              /\ endPoints'[f.peer][j].challengeReceived = f.challengeSent
              /\ endPoints'[f.peer][j].challengeSent = f.challengeReceived
        BY <3>2 DEF Replied
      <3>4. endPoints'[f.peer][j].phase \in InAnswered
        <4>1. PICK y : y = endPoints'[f.peer][j]
          OBVIOUS
        <4>2. y \in Entries
          BY <3>2, <4>1 DEF TypeInv, Calls
        <4>3. y \in ServerEntries
          BY <3>3, <4>1, <4>2, Roles
        <4> QED BY <3>3, <4>1, <4>3, Names DEF ServerEntries, InAnswered
      <3>5. s = SessionOf(f.peer, endPoints'[f.peer][j])
        BY <1>2, <2>1, <3>3 DEF SessionOf
      <3>6. Arises("server", InAnswered, s)'
        BY <3>2, <3>3, <3>4, <3>5 DEF Arises
      <3> QED BY <1>1, <3>6, InNextSessions DEF SessionsArise
    <2>6. s \in Sessions
      BY <1>2, <1>5, <1>7, <2>1 DEF SessionOf, Session, Sessions, ClientEntries, CallEntry
    <2> QED BY <1>1, <1>3, <2>3, <2>4, <2>5, <2>6, ConnectionSteps
  <1>8. CASE /\ e.phase \in Trusted /\ f.phase \in Trusted \cup {"connected", "freed"}
             /\ f.challengeReceived = e.challengeReceived
    <2>1. PICK s : s = SessionOf(h, f)
      OBVIOUS
    <2>2. s = SessionOf(h, e)
      BY <1>2, <1>8, <2>1 DEF SessionOf
    <2>3. s \in T
      <3>1. Arises("client", InTrusted, s)
        BY <1>2, <1>8, <2>2 DEF Arises, Trusted, InTrusted
      <3> QED BY <1>1, <3>1, InSessions DEF SessionsArise
    <2>4. s \in Sessions
      BY <1>2, <1>5, <1>8, <2>1, <2>2 DEF SessionOf, Session, Sessions, ClientEntries, CallEntry, Trusted
    <2>5. e.phase \in InTrusted /\ e.phase \notin {"connected"}
      BY <1>8 DEF Trusted, InTrusted
    <2>6. CASE f.phase \in Trusted
      <3>1. f.phase \in InTrusted /\ f.phase \notin {"connected"}
        BY <2>6 DEF Trusted, InTrusted
      <3>2. T1 = T \cup {s}
        BY <1>0, <1>1, <1>2, <2>1, <2>2, <3>1 DEF SessionsFollow
      <3>3. C1 = C
        BY <1>0, <1>1, <1>2, <2>5, <3>1 DEF SessionsFollow
      <3> QED BY <1>1, <1>3, <2>3, <3>2, <3>3, ConnectionSteps
    <2>7. CASE f.phase = "connected"
      <3>1. f.phase \in InTrusted /\ f.phase \in {"connected"}
        BY <2>7 DEF InTrusted
      <3>2. T1 = T \cup {s}
        BY <1>0, <1>1, <1>2, <2>1, <2>2, <3>1 DEF SessionsFollow
      <3>3. C1 = C \cup {s}
        BY <1>0, <1>1, <1>2, <2>1, <2>2, <3>1 DEF SessionsFollow
      <3>4. T1 = T
        BY <2>3, <3>2
      <3> QED BY <1>1, <1>3, <2>3, <2>4, <3>3, <3>4, ConnectionSteps
    <2>8. CASE f.phase = "freed"
      <3>1. f.phase \notin InTrusted /\ f.phase \notin {"connected"}
        BY <2>8 DEF InTrusted
      <3>2. T1 \in {T, T \ {s}}
        BY <1>0, <1>1, <1>2, <2>2, <2>5, <3>1 DEF SessionsFollow
      <3>3. C1 = C
        BY <1>0, <1>1, <1>2, <2>5, <3>1 DEF SessionsFollow
      <3>4. C1 \subseteq T1
        <4>1. \A z : Arises("client", {"connected"}, z)' => Arises("client", InTrusted, z)'
          BY DEF Arises, InTrusted
        <4> QED BY <1>1, <4>1, InNextSessions DEF SessionsArise
      <3>5. CASE T1 = T
        BY <1>1, <1>3, <3>3, <3>5, ConnectionSteps
      <3>6. CASE T1 = T \ {s}
        <4>1. s \notin C
          BY <3>3, <3>4, <3>6
        <4> QED BY <1>1, <1>3, <2>4, <3>3, <3>6, <4>1, ConnectionSteps
      <3> QED BY <3>2, <3>5, <3>6
    <2> QED BY <1>8, <2>6, <2>7, <2>8
  <1> QED BY <1>2, <1>6, <1>7, <1>8

LEMMA ServerStep ==
  ASSUME TypeInv, TypeInv', Agreement', NEW h \in Hosts, NEW i \in DOMAIN endPoints[h], NEW e,
         e = endPoints[h][i], NEW f \in Entries, Moves(e, f), e.role = "server",
         endPoints' = [endPoints EXCEPT ![h] = [@ EXCEPT ![i] = f]]
  PROVE  [Connection!Next]_Connection!vars
  <1>1. PICK A, T, C, E, A1, T1, C1, E1 :
          /\ A = SessionsOf("server", InAnswered) /\ T = SessionsOf("client", InTrusted)
          /\ C = SessionsOf("client", {"connected"}) /\ E = SessionsOf("server", {"connected"})
          /\ A1 = SessionsOf("server", InAnswered)' /\ T1 = SessionsOf("client", InTrusted)'
          /\ C1 = SessionsOf("client", {"connected"})' /\ E1 = SessionsOf("server", {"connected"})'
    OBVIOUS
  <1>2. /\ f.role = "server"
        /\ \/ e.phase = "listening" /\ f.phase = "answered"
           \/ /\ e.phase \in Answered /\ f.phase \in Answered \cup {"connected", "freed"}
              /\ f.id = e.id /\ f.challengeReceived = e.challengeReceived /\ f.challengeSent = e.challengeSent
    BY DEF Moves
  <1>0. /\ SessionsFollow(h, e, f, "server", InAnswered) /\ SessionsFollow(h, e, f, "client", InTrusted)
        /\ SessionsFollow(h, e, f, "client", {"connected"}) /\ SessionsFollow(h, e, f, "server", {"connected"})
    <2>1. EntryBecomes(h, i, e, f)
      BY <1>2 DEF EntryBecomes
    <2> QED BY <2>1, SessionsMove
  <1>3. T1 = T /\ C1 = C
    BY <1>0, <1>1, <1>2 DEF SessionsFollow
  <1>4. endPoints'[h][i] = f /\ i \in DOMAIN endPoints'[h]
    BY EntryChanged DEF TypeInv
  <1>5. PICK s : s = SessionOf(h, f)
    OBVIOUS
  <1>6. s \in Sessions
    <2>1. ListenEntry(h, i, f)
      BY <1>4 DEF TypeInv, Calls
    <2>2. f \in ServerEntries /\ f.phase # "listening"
      BY <1>2, Roles DEF Answered
    <2>3. f.challengeSent \in Challenges
      <3>1. i \in Slots
        BY Slotted DEF TypeInv
      <3> QED BY <1>2, <2>1, <2>2, <3>1, ChallengesMade DEF ListenEntry
    <2> QED BY <1>2, <1>5, <2>1, <2>2, <2>3 DEF SessionOf, Session, Sessions, ListenEntry
  <1>7. CASE e.phase = "listening" /\ f.phase = "answered"
    <2>1. /\ e.phase \notin InAnswered /\ f.phase \in InAnswered
          /\ e.phase \notin {"connected"} /\ f.phase \notin {"connected"}
      BY <1>7 DEF InAnswered
    <2>2. A1 = A \cup {s}
      BY <1>0, <1>1, <1>2, <1>5, <2>1 DEF SessionsFollow
    <2>3. E1 = E
      BY <1>0, <1>1, <1>2, <2>1 DEF SessionsFollow
    <2> QED BY <1>1, <1>3, <1>6, <2>2, <2>3, ConnectionSteps
  <1>8. CASE /\ e.phase \in Answered /\ f.phase \in Answered \cup {"connected", "freed"}
             /\ f.id = e.id /\ f.challengeReceived = e.challengeReceived /\ f.challengeSent = e.challengeSent
    <2>1. s = SessionOf(h, e)
      BY <1>2, <1>5, <1>8 DEF SessionOf
    <2>2. e.phase \in InAnswered /\ f.phase \in InAnswered /\ e.phase \notin {"connected"}
      BY <1>8 DEF Answered, InAnswered
    <2>3. A1 = A
      <3>1. A1 = A \cup {s}
        BY <1>0, <1>1, <1>2, <1>5, <2>1, <2>2 DEF SessionsFollow
      <3>2. Arises("server", InAnswered, s)
        BY <2>1, <2>2 DEF Arises
      <3>3. s \in A
        BY <1>1, <3>2, InSessions DEF SessionsArise
      <3> QED BY <3>1, <3>3
    <2>4. CASE f.phase # "connected"
      <3>1. E1 = E
        BY <1>0, <1>1, <1>2, <2>2, <2>4 DEF SessionsFollow
      <3> QED BY <1>1, <1>3, <2>3, <3>1, ConnectionSteps
    <2>5. CASE f.phase = "connected"
      <3>1. E1 = E \cup {s}
        BY <1>0, <1>1, <1>2, <1>5, <2>1, <2>2, <2>5 DEF SessionsFollow
      <3>2. s \in C1
        <4>1. \E c \in Clients' : /\ c.phase = "connected" /\ c.id = f.id /\ c.peer = h
                                  /\ c.challengeReceived = f.challengeSent
                                  /\ c.challengeSent = f.challengeReceived
          <5>1. f \in ServersAt(h)'
            BY <1>2, <1>4 DEF ServersAt
          <5> QED BY <2>5, <5>1 DEF Agreement, ServerAgreement
        <4>2. PICK c : /\ c \in Clients' /\ c.phase = "connected" /\ c.id = f.id /\ c.peer = h
                       /\ c.challengeReceived = f.challengeSent
                       /\ c.challengeSent = f.challengeReceived
          BY <4>1
        <4>3. s = Session(c.id, c.peer, c.challengeSent, c.challengeReceived)
          BY <1>2, <1>5, <4>2 DEF SessionOf
        <4>4. s \in ClientSessions({"connected"})'
          BY <4>2, <4>3 DEF ClientSessions
        <4> QED BY <1>1, <4>4, Mapped
      <3> QED BY <1>1, <1>3, <1>6, <2>3, <3>1, <3>2, ConnectionSteps
    <2> QED BY <2>4, <2>5
  <1> QED BY <1>2, <1>7, <1>8

LEMMA StepConnects ==
  ASSUME TypeInv, TypeInv', HandshakeInv', Agreement', [Next]_vars
  PROVE  [Connection!Next]_Connection!vars
  <1>1. CASE UNCHANGED endPoints
    BY <1>1 DEF Connection!vars, ServerSessions, ClientSessions, Clients, ServersAt
  <1>2. ASSUME NEW h \in Hosts, NEW e \in Entries, e.phase \in {"requested", "listening"},
               endPoints' = [endPoints EXCEPT ![h] = Append(@, e)]
        PROVE  [Connection!Next]_Connection!vars
    <2>1. e.phase \notin InAnswered /\ e.phase \notin InTrusted /\ e.phase \notin {"connected"}
      BY <1>2 DEF InAnswered, InTrusted
    <2>2. /\ SessionsOf("server", InAnswered)' = SessionsOf("server", InAnswered)
          /\ SessionsOf("client", InTrusted)' = SessionsOf("client", InTrusted)
          /\ SessionsOf("client", {"connected"})' = SessionsOf("client", {"connected"})
          /\ SessionsOf("server", {"connected"})' = SessionsOf("server", {"connected"})
      BY <1>2, <2>1, SessionsKept
    <2> QED BY <2>2, ConnectionSteps
  <1>3. ASSUME NEW h \in Hosts, NEW i \in DOMAIN endPoints[h], NEW f \in Entries, Moves(endPoints[h][i], f),
               endPoints' = [endPoints EXCEPT ![h] = [@ EXCEPT ![i] = f]]
        PROVE  [Connection!Next]_Connection!vars
    <2>1. PICK e : e = endPoints[h][i]
      OBVIOUS
    <2>2. e.role \in {"client", "server"}
      BY <2>1, Entered, Roles DEF TypeInv
    <2> QED BY <1>3, <2>1, <2>2, ClientStep, ServerStep
  <1> QED BY <1>1, <1>2, <1>3, NextMoves DEF EntryMoves

(* Where an endpoint ID tells calls apart, the handshake implements        *)
(* SvcConnection: a session is answered before a client trusts it, trusted *)
(* before establishConnection returns it, and accepted before              *)
(* listenConnection does; none that was returned is taken back.            *)
THEOREM ConnectsInOrder == ASSUME IdsTellCalls PROVE Spec => Connects
  <1>1. Init => Connection!Init
    <2> SUFFICES ASSUME Init PROVE Connection!Init
      OBVIOUS
    <2>1. \A h \in Hosts : DOMAIN endPoints[h] = {}
      BY DEF Init, AppInit
    <2> QED BY <2>1 DEF Connection!Init, ServerSessions, ClientSessions, Clients, ServersAt
  <1>2. TypeInv /\ HandshakeInv => Agreement
    BY KnowsAgreement
  <1>3. /\ TypeInv /\ HandshakeInv /\ Agreement
        /\ (TypeInv /\ HandshakeInv /\ Agreement)'
        /\ [Next]_vars
        => [Connection!Next]_Connection!vars
    BY StepConnects
  <1> QED BY <1>1, <1>2, <1>3, HandshakeCorrect, PTL DEF Spec, Connects, Connection!Spec
=============================================================================
