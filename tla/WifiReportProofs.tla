--------------------------- MODULE WifiReportProofs ---------------------------
(***************************************************************************)
(* What report() guarantees for any interfaces, saved networks and frames  *)
(* on the air: the sniffer listens before a network is enabled, each phase *)
(* is written once and the last ones in their order, each network in range *)
(* is tried once on each interface, and every child is waited for.         *)
(*                                                                         *)
(* Then the durations of ReportTime, for any two time stamps.              *)
(***************************************************************************)
EXTENDS WifiReport, ReportTime, FiniteSetTheorems, TLAPS

InRound == {"handOver", "unlock", "join"}
AtAccessPoint == {"accessPoint", "interface"} \cup InRound

(* The hand-over: syncMutex is locked from the start of the sniffer until  *)
(* it is ready, and from then until report() enabled the network.          *)
HandOver ==
  /\ mutex \in BOOLEAN /\ enabled \in BOOLEAN
  /\ main \notin InRound => mutex = FALSE /\ enabled = FALSE /\ sniffer \in {"none", "ended"}
  /\ main = "handOver" => enabled = FALSE /\ (mutex = TRUE <=> sniffer = "start")
  /\ main \in InRound => sniffer \in {"start", "loop", "ended"}
  /\ main \in {"unlock", "join"} => sniffer \in {"loop", "ended"}
  /\ main = "unlock" => mutex = TRUE
  /\ main = "join" => mutex = FALSE

(* The phases of the association appear once, in their order, and the      *)
(* sniffer ends with the last one or before it wrote any.                  *)
InOrder(first, second) ==
  /\ Reported(second) => Reported(first)
  /\ \A m, n \in DOMAIN phases : phases[m] = first /\ phases[n] = second => m < n
Phased ==
  /\ IsInjective(phases)
  /\ InOrder("FirstEAP", "LastEAP")
  /\ InOrder("LastEAP", "FirstData")
  /\ counterEAP > 0 => Reported("FirstEAP")
  /\ counterEAP = 4 <=> Reported("LastEAP")
  /\ sniffer \in {"none", "start"} => phases = << >> /\ counterEAP = 0
  /\ sniffer = "loop" => ~Reported("FirstData")
  /\ sniffer = "ended" /\ phases # << >> => Reported("FirstData")

(* Where the loops are, and what was tested when they are there. *)
TestedInterfaces ==
  CASE main \in {"unlock", "join"} -> 1..interface
    [] main \in {"interface", "handOver"} -> 1..(interface - 1)
    [] OTHER -> {}
Loops ==
  /\ main \in AtAccessPoint => net \in DOMAIN Saved /\ Saved[net].enabled
  /\ main \in AtAccessPoint => ap >= 1 /\ \A k \in DOMAIN Saved[net].aps : k < ap => ~Saved[net].aps[k]
  /\ main \in {"interface"} \cup InRound => ap \in DOMAIN Saved[net].aps /\ Saved[net].aps[ap]
  /\ main \in InRound => interface \in Interfaces
  /\ main = "fork" => net = 1
  /\ main \in {"wait", "exit0"} => net \notin DOMAIN Saved
Tested ==
  /\ Loops
  /\ IsInjective(tested)
  /\ ToSet(tested) =
       {p \in ToBeTested : p[1] < net \/ (p[1] = net /\ p[2] \in TestedInterfaces)}

(* report() believes in at least as many children as there are to wait for.*)
Dead == {i \in Interfaces : children[i] = "dead"}
Children ==
  /\ main = "fork" => /\ pCount = interface - 1
                      /\ \A i \in Interfaces : children[i] = "none" <=> i >= interface
  /\ main # "fork" => \A i \in Interfaces : children[i] # "none"
  /\ main \notin {"fork", "wait", "exit0"} => pCount = NumInterfaces
  /\ main \in {"wait", "exit0"} => /\ \A i \in Interfaces : children[i] # "running"
                                   /\ Cardinality(Dead) <= pCount
  /\ main = "exit0" => pCount = 0 /\ monitors = {}

ReportInv == TypeOK /\ HandOver /\ Phased /\ Tested /\ Children

(* While nothing was sent again: the key frames that are still to be       *)
(* counted come in the order of their messages, and each has a higher      *)
(* number than there are counted.                                          *)
Message(frame) == CASE frame = "key1" -> 1 [] frame = "key2" -> 2 [] frame = "key3" -> 3 [] OTHER -> 4
OneHandshake ==
  \A j, k \in DOMAIN Script :
    j < k /\ Script[j] \in KeyFrames /\ Script[k] \in KeyFrames => Message(Script[j]) < Message(Script[k])
Counted ==
  repeats = 0 =>
    /\ \A b \in DOMAIN buffer : buffer[b] \in KeyFrames => counterEAP < Message(buffer[b])
    /\ \A b, c \in DOMAIN buffer :
         b < c /\ buffer[b] \in KeyFrames /\ buffer[c] \in KeyFrames => Message(buffer[b]) < Message(buffer[c])
    /\ \A j \in DOMAIN Script : j > air /\ Script[j] \in KeyFrames =>
         /\ counterEAP < Message(Script[j])
         /\ \A b \in DOMAIN buffer : buffer[b] \in KeyFrames => Message(buffer[b]) < Message(Script[j])

-----------------------------------------------------------------------------
(* About sequences. *)

Appends(S, s, x, t) == s \in Seq(S) /\ x \in S /\ t = Append(s, x)

Extended(S, s, x, t) ==
  /\ t \in Seq(S) /\ t # << >>
  /\ DOMAIN t = DOMAIN s \cup {Len(s) + 1} /\ Len(s) + 1 \notin DOMAIN s
  /\ \A n \in DOMAIN s : t[n] = s[n] /\ n < Len(s) + 1 /\ n \in Nat
  /\ t[Len(s) + 1] = x
  /\ ToSet(t) = ToSet(s) \cup {x}
  /\ IsInjective(s) /\ x \notin ToSet(s) => IsInjective(t)

LEMMA Appended ==
  ASSUME NEW S, NEW s, NEW x, NEW t, Appends(S, s, x, t)
  PROVE  Extended(S, s, x, t)
  <1>1. /\ t \in Seq(S) /\ t # << >>
        /\ DOMAIN t = DOMAIN s \cup {Len(s) + 1} /\ Len(s) + 1 \notin DOMAIN s
        /\ \A n \in DOMAIN s : t[n] = s[n] /\ n < Len(s) + 1 /\ n \in Nat
        /\ t[Len(s) + 1] = x
    BY DEF Appends
  <1>2. ToSet(t) = ToSet(s) \cup {x}
    BY <1>1 DEF ToSet
  <1>3. IsInjective(s) /\ x \notin ToSet(s) => IsInjective(t)
    BY <1>1 DEF ToSet, IsInjective
  <1> QED BY <1>1, <1>2, <1>3 DEF Extended

LEMMA TailOf ==
  ASSUME NEW S, NEW s \in Seq(S), s # << >>
  PROVE  /\ Head(s) \in S /\ Head(s) = s[1] /\ 1 \in DOMAIN s /\ Tail(s) \in Seq(S)
         /\ \A n \in DOMAIN Tail(s) : /\ Tail(s)[n] = s[n + 1] /\ n + 1 \in DOMAIN s
                                      /\ n \in Nat /\ 1 < n + 1
  OBVIOUS
-----------------------------------------------------------------------------
(* At first nothing was seen and nothing tested. *)

LEMMA InitReport == Init => ReportInv /\ Counted
  <1> SUFFICES ASSUME Init PROVE ReportInv /\ Counted
    OBVIOUS
  <1> USE ReportAssumption DEF Init
  <1>1. TypeOK
    <2>1. /\ net \in 1..(Len(Saved) + 1) /\ interface \in 1..(NumInterfaces + 1) /\ ap \in Nat
          /\ pCount \in 0..NumInterfaces /\ air \in 0..Len(Script)
          /\ repeats \in 0..MaxRepeats /\ missed \in 0..MaxMissed /\ counterEAP \in 0..4
      OBVIOUS
    <2>2. children \in [Interfaces -> {"none", "running", "dead", "failed", "reaped"}]
      OBVIOUS
    <2>3. /\ phases \in Seq(Phases) /\ buffer \in Seq(ManagementFrames \cup DataFrames)
          /\ tested \in Seq((DOMAIN Saved) \X Interfaces)
      OBVIOUS
    <2> QED BY <2>1, <2>2, <2>3 DEF TypeOK
  <1>2. HandOver
    BY DEF HandOver, InRound, association
  <1>3. Phased
    BY DEF Phased, InOrder, Reported, ToSet, IsInjective
  <1>4. Tested
    <2>1. Loops
      BY DEF Loops, AtAccessPoint, InRound
    <2>2. TestedInterfaces = {}
      BY DEF TestedInterfaces
    <2>3. ToSet(tested) = {} /\ IsInjective(tested)
      BY DEF ToSet, IsInjective
    <2>4. {p \in ToBeTested : p[1] < net \/ (p[1] = net /\ p[2] \in TestedInterfaces)} = {}
      <3> SUFFICES ASSUME NEW p \in ToBeTested PROVE ~(p[1] < net \/ (p[1] = net /\ p[2] \in TestedInterfaces))
        OBVIOUS
      <3>1. p[1] \in DOMAIN Saved
        BY DEF ToBeTested
      <3> QED BY <2>2, <3>1
    <2> QED BY <2>1, <2>3, <2>4 DEF Tested
  <1>5. Children
    BY DEF Children, Interfaces
  <1>6. Counted
    BY DEF Counted, KeyFrames, Message
  <1> QED BY <1>1, <1>2, <1>3, <1>4, <1>5, <1>6 DEF ReportInv
-----------------------------------------------------------------------------
(* The hand-over. *)

(* The actions that leave the hand-over alone: those of report() outside a *)
(* round, and those of the air.                                            *)
Outside == 
  \/ Fork \/ LoadSavedNetworks \/ BadSavedNetworks
  \/ SkipNetwork \/ EnterNetwork \/ OutOfRange \/ InRange
  \/ NoMoreAccessPoints \/ BreakAccessPoints
  \/ KillChildren \/ Wait \/ RemoveMonitors
Round == StartSniffing \/ EnableNetwork \/ Unlock \/ EndRound

LEMMA OutsideSteps ==
  ASSUME Outside
  PROVE  /\ main \notin InRound /\ main' \notin InRound
         /\ UNCHANGED <<mutex, sniffer, phases, counterEAP, enabled, air, repeats, buffer, missed, tested>>
  BY DEF Outside, Fork, LoadSavedNetworks, BadSavedNetworks, SkipNetwork, EnterNetwork, OutOfRange, InRange,
         NoMoreAccessPoints, BreakAccessPoints, KillChildren, Wait, RemoveMonitors, Goto, sniffing, association, InRound

LEMMA AirSteps ==
  ASSUME Air
  PROVE  /\ enabled /\ enabled' = enabled
         /\ UNCHANGED <<main, net, ap, interface, children, pCount, monitors, mutex, sniffer, phases, counterEAP, tested>>
  BY DEF Air, Transmit, Retransmit, Reassociate, indices, processes, sniffing

LEMMA SnifferSteps ==
  ASSUME PacketSniffing
  PROVE  UNCHANGED <<main, net, ap, interface, children, pCount, monitors, enabled, air, repeats, missed, tested>>
  BY DEF PacketSniffing, SniffingFails, SniffingStarts, ReadFrame, indices, processes, association

LEMMA NextCases ==
  ASSUME [Next]_vars
  PROVE  \/ UNCHANGED vars
         \/ Outside \/ Round \/ PacketSniffing \/ Air
  BY DEF Next, Report, Outside, Round

LEMMA HandOverKept == ASSUME HandOver, [Next]_vars PROVE HandOver'
  <1>1. CASE UNCHANGED vars
    BY <1>1 DEF vars, sniffing, association, HandOver, InRound
  <1>2. CASE Outside
    BY <1>2, OutsideSteps DEF HandOver, InRound
  <1>3. CASE Round
    <2>1. CASE StartSniffing
      BY <2>1 DEF StartSniffing, Goto, HandOver, InRound
    <2>2. CASE EnableNetwork
      BY <2>2 DEF EnableNetwork, Goto, sniffing, HandOver, InRound
    <2>3. CASE Unlock
      BY <2>3 DEF Unlock, Goto, sniffing, association, HandOver, InRound
    <2>4. CASE EndRound
      BY <2>4 DEF EndRound, Goto, sniffing, HandOver, InRound
    <2> QED BY <1>3, <2>1, <2>2, <2>3, <2>4 DEF Round
  <1>4. CASE PacketSniffing
    <2>1. CASE SniffingFails \/ SniffingStarts
      BY <2>1 DEF SniffingFails, SniffingStarts, association, HandOver, InRound
    <2>2. CASE ReadFrame
      <3>1. sniffer = "loop" /\ sniffer' \in {"loop", "ended"}
        BY <2>2 DEF ReadFrame, ReportManagement, ReportEap, ReportFirstData, IgnoreData
      <3> QED BY <2>2, <3>1 DEF ReadFrame, HandOver, InRound
    <2> QED BY <1>4, <2>1, <2>2 DEF PacketSniffing
  <1>5. CASE Air
    BY <1>5, AirSteps DEF HandOver
  <1> QED BY <1>1, <1>2, <1>3, <1>4, <1>5, NextCases

-----------------------------------------------------------------------------
(* The phases. *)

LEMMA Writes ==
  ASSUME phases \in Seq(Phases), NEW x \in Phases, phases' = Append(phases, x)
  PROVE  /\ phases' \in Seq(Phases) /\ phases' # << >>
         /\ \A y : Reported(y)' <=> Reported(y) \/ y = x
         /\ IsInjective(phases) /\ ~Reported(x) => IsInjective(phases')
         /\ \A f, s : InOrder(f, s) /\ ~Reported(x) /\ f # s /\ x # f /\ (x = s => Reported(f)) => InOrder(f, s)'
  <1>1. PICK s, t : s = phases /\ t = phases' /\ Appends(Phases, s, x, t)
    BY DEF Appends
  <1>2. Extended(Phases, s, x, t)
    BY <1>1, Appended
  <1>3. \A y : Reported(y)' <=> Reported(y) \/ y = x
    BY <1>1, <1>2 DEF Reported, Extended
  <1>4. ASSUME NEW f, NEW g, InOrder(f, g), ~Reported(x), f # g, x # f, x = g => Reported(f)
        PROVE  InOrder(f, g)'
    <2>1. Reported(g)' => Reported(f)'
      BY <1>3, <1>4 DEF InOrder
    <2>2. ASSUME NEW m \in DOMAIN t, NEW n \in DOMAIN t, t[m] = f, t[n] = g
          PROVE  m < n
      <3>1. m \in DOMAIN s /\ s[m] = f
        BY <1>2, <1>4, <2>2 DEF Extended
      <3>2. CASE n = Len(s) + 1
        BY <1>2, <3>1, <3>2 DEF Extended
      <3>3. CASE n \in DOMAIN s
        BY <1>1, <1>2, <1>4, <2>2, <3>1, <3>3 DEF InOrder, Extended
      <3> QED BY <1>2, <3>2, <3>3 DEF Extended
    <2> QED BY <1>1, <2>1, <2>2 DEF InOrder
  <1> QED BY <1>1, <1>2, <1>3, <1>4 DEF Reported, Extended

(* What a frame writes. *)
LEMMA Keys == /\ EapFrames = {"key1", "key2", "key3", "key4", "eap"}
              /\ DataFrames = EapFrames \cup {"data"} /\ KeyFrames \subseteq EapFrames
              /\ Phases = ManagementFrames \cup {"FirstEAP", "LastEAP", "FirstData"}
              /\ \A f \in ManagementFrames : f \notin {"FirstEAP", "LastEAP", "FirstData"}
  BY DEF EapFrames, DataFrames, KeyFrames, Phases, ManagementFrames

LEMMA FrameWrites ==
  ASSUME TypeOK, Phased, ReadFrame
  PROVE  \/ UNCHANGED <<phases, sniffer>> /\ counterEAP' = counterEAP
         \/ /\ \E x \in ManagementFrames : ~Reported(x) /\ phases' = Append(phases, x)
            /\ UNCHANGED <<counterEAP, sniffer>>
         \/ /\ Reported("LastEAP") /\ phases' = Append(phases, "FirstData")
            /\ sniffer' = "ended" /\ counterEAP' = counterEAP
         \/ /\ ~Reported("FirstEAP") /\ phases' = Append(phases, "FirstEAP")
            /\ counterEAP' \in {0, 1} /\ sniffer' = sniffer
         \/ /\ Reported("FirstEAP") /\ counterEAP' = counterEAP + 1 /\ counterEAP' < 4
            /\ UNCHANGED <<phases, sniffer>>
         \/ /\ Reported("FirstEAP") /\ ~Reported("LastEAP") /\ counterEAP = 3 /\ counterEAP' = 4
            /\ phases' = Append(phases, "LastEAP") /\ sniffer' = sniffer
  <1>1. PICK frame : frame = Head(buffer)
    OBVIOUS
  <1> USE DEF Reported
  <1>2. \/ frame \in ManagementFrames /\ ReportManagement(frame)
        \/ frame \in DataFrames /\ Reported("LastEAP") /\ ReportFirstData
        \/ frame \in EapFrames /\ ~Reported("LastEAP") /\ ReportEap(frame)
        \/ frame = "data" /\ ~Reported("LastEAP") /\ IgnoreData
    BY <1>1 DEF ReadFrame
  <1>3. CASE frame \in ManagementFrames /\ ReportManagement(frame)
    BY <1>3 DEF ReportManagement
  <1>4. CASE frame \in DataFrames /\ Reported("LastEAP") /\ ReportFirstData
    BY <1>4 DEF ReportFirstData
  <1>5. CASE frame \in EapFrames /\ ~Reported("LastEAP") /\ ReportEap(frame)
    <2>1. counterEAP \in 0..3
      <3>1. counterEAP # 4
        BY <1>5 DEF Phased
      <3> QED BY <3>1 DEF TypeOK
    <2>2. PICK key \in {0, 1} : counterEAP' = counterEAP + key
      BY <1>5, <2>1 DEF ReportEap
    <2>3. /\ sniffer' = sniffer /\ phases \in Seq(Phases)
          /\ phases' = phases \o (IF Reported("FirstEAP") THEN << >> ELSE <<"FirstEAP">>)
                              \o (IF counterEAP' = 4 THEN <<"LastEAP">> ELSE << >>)
      BY <1>5 DEF ReportEap, TypeOK
    <2>4. CASE ~Reported("FirstEAP")
      <3>1. counterEAP = 0
        BY <2>1, <2>4 DEF Phased
      <3>2. counterEAP' # 4
        BY <2>2, <3>1
      <3>3. phases' = Append(phases, "FirstEAP")
        BY <2>3, <2>4, <3>2
      <3> QED BY <2>2, <2>3, <2>4, <3>1, <3>3
    <2>5. CASE Reported("FirstEAP") /\ counterEAP' # 4
      <3>1. phases' = phases
        BY <2>3, <2>5
      <3>2. counterEAP' = counterEAP \/ (counterEAP' = counterEAP + 1 /\ counterEAP' < 4)
        BY <2>1, <2>2, <2>5
      <3> QED BY <2>3, <2>5, <3>1, <3>2
    <2>6. CASE Reported("FirstEAP") /\ counterEAP' = 4
      <3>1. counterEAP = 3
        BY <2>1, <2>2, <2>6
      <3>2. phases' = Append(phases, "LastEAP")
        BY <2>3, <2>6
      <3> QED BY <1>5, <2>3, <2>6, <3>1, <3>2
    <2> QED BY <2>4, <2>5, <2>6
  <1>6. CASE frame = "data" /\ ~Reported("LastEAP") /\ IgnoreData
    BY <1>6 DEF IgnoreData
  <1> QED BY <1>2, <1>3, <1>4, <1>5, <1>6

LEMMA PhasedAlike ==
  ASSUME Phased, UNCHANGED phases, UNCHANGED counterEAP, UNCHANGED sniffer
  PROVE  Phased'
  BY DEF Phased, InOrder, Reported

LEMMA PhasedAtFirst ==
  ASSUME phases' = << >>, counterEAP' = 0
  PROVE  Phased'
  <1>1. IsInjective(phases)' /\ \A x : ~Reported(x)'
    BY DEF IsInjective, Reported, ToSet
  <1>2. \A f, s : InOrder(f, s)'
    BY DEF InOrder, Reported, ToSet
  <1> QED BY <1>1, <1>2 DEF Phased

LEMMA FramePhased == ASSUME TypeOK, Phased, ReadFrame PROVE Phased'
  <1>1. /\ phases \in Seq(Phases) /\ counterEAP \in 0..4 /\ sniffer = "loop"
        /\ ~Reported("FirstData")
        /\ IsInjective(phases) /\ InOrder("FirstEAP", "LastEAP") /\ InOrder("LastEAP", "FirstData")
        /\ counterEAP > 0 => Reported("FirstEAP")
        /\ counterEAP = 4 <=> Reported("LastEAP")
    BY DEF TypeOK, Phased, ReadFrame
  <1>2. CASE UNCHANGED <<phases, sniffer>> /\ counterEAP' = counterEAP
    BY <1>2, PhasedAlike
  <1>3. CASE /\ \E x \in ManagementFrames : ~Reported(x) /\ phases' = Append(phases, x)
             /\ UNCHANGED <<counterEAP, sniffer>>
    <2>1. PICK x \in ManagementFrames : ~Reported(x) /\ phases' = Append(phases, x)
      BY <1>3
    <2>2. x \in Phases /\ x \notin {"FirstEAP", "LastEAP", "FirstData"}
      BY Keys
    <2>3. /\ IsInjective(phases)' /\ InOrder("FirstEAP", "LastEAP")' /\ InOrder("LastEAP", "FirstData")'
          /\ \A y : Reported(y)' <=> Reported(y) \/ y = x
      BY <1>1, <2>1, <2>2, Writes
    <2> QED BY <1>1, <1>3, <2>2, <2>3 DEF Phased
  <1>4. CASE /\ Reported("LastEAP") /\ phases' = Append(phases, "FirstData")
             /\ sniffer' = "ended" /\ counterEAP' = counterEAP
    <2>1. "FirstData" \in Phases
      BY Keys
    <2>2. /\ IsInjective(phases)' /\ InOrder("FirstEAP", "LastEAP")' /\ InOrder("LastEAP", "FirstData")'
          /\ \A y : Reported(y)' <=> Reported(y) \/ y = "FirstData"
      BY <1>1, <1>4, <2>1, Writes
    <2> QED BY <1>1, <1>4, <2>2 DEF Phased
  <1>5. CASE /\ ~Reported("FirstEAP") /\ phases' = Append(phases, "FirstEAP")
             /\ counterEAP' \in {0, 1} /\ sniffer' = sniffer
    <2>1. "FirstEAP" \in Phases
      BY Keys
    <2>2. ~Reported("LastEAP") /\ ~Reported("FirstData")
      BY <1>1, <1>5 DEF InOrder
    <2>3. /\ IsInjective(phases)' /\ InOrder("LastEAP", "FirstData")'
          /\ \A y : Reported(y)' <=> Reported(y) \/ y = "FirstEAP"
      BY <1>1, <1>5, <2>1, Writes
    <2>4. InOrder("FirstEAP", "LastEAP")'
      <3>1. ~Reported("LastEAP")'
        BY <2>2, <2>3
      <3> QED BY <3>1 DEF InOrder, Reported, ToSet
    <2> QED BY <1>1, <1>5, <2>2, <2>3, <2>4 DEF Phased
  <1>6. CASE /\ Reported("FirstEAP") /\ counterEAP' = counterEAP + 1 /\ counterEAP' < 4
             /\ UNCHANGED <<phases, sniffer>>
    <2>1. \A y : Reported(y)' <=> Reported(y)
      BY <1>6 DEF Reported
    <2>2. IsInjective(phases)' /\ InOrder("FirstEAP", "LastEAP")' /\ InOrder("LastEAP", "FirstData")'
      BY <1>1, <1>6, <2>1 DEF InOrder
    <2> QED BY <1>1, <1>6, <2>1, <2>2 DEF Phased
  <1>7. CASE /\ Reported("FirstEAP") /\ ~Reported("LastEAP") /\ counterEAP = 3 /\ counterEAP' = 4
             /\ phases' = Append(phases, "LastEAP") /\ sniffer' = sniffer
    <2>1. "LastEAP" \in Phases
      BY Keys
    <2>2. /\ IsInjective(phases)' /\ InOrder("FirstEAP", "LastEAP")'
          /\ \A y : Reported(y)' <=> Reported(y) \/ y = "LastEAP"
      BY <1>1, <1>7, <2>1, Writes
    <2>3. InOrder("LastEAP", "FirstData")'
      <3>1. ~Reported("FirstData")'
        BY <1>1, <2>2
      <3> QED BY <3>1 DEF InOrder, Reported, ToSet
    <2> QED BY <1>1, <1>7, <2>2, <2>3 DEF Phased
  <1> QED BY <1>2, <1>3, <1>4, <1>5, <1>6, <1>7, FrameWrites

LEMMA PhasedKept == ASSUME TypeOK, Phased, [Next]_vars PROVE Phased'
  <1>1. CASE UNCHANGED vars
    BY <1>1, PhasedAlike DEF vars, sniffing
  <1>2. CASE Outside
    BY <1>2, OutsideSteps, PhasedAlike
  <1>3. CASE Round
    <2>1. CASE StartSniffing
      BY <2>1, PhasedAtFirst DEF StartSniffing
    <2>2. CASE EnableNetwork \/ Unlock \/ EndRound
      BY <2>2, PhasedAlike DEF EnableNetwork, Unlock, EndRound, sniffing
    <2> QED BY <1>3, <2>1, <2>2 DEF Round
  <1>4. CASE PacketSniffing
    <2>1. CASE SniffingFails \/ SniffingStarts
      <3>1. phases' = << >> /\ counterEAP' = 0
        BY <2>1 DEF SniffingFails, SniffingStarts, Phased
      <3> QED BY <3>1, PhasedAtFirst
    <2> QED BY <1>4, <2>1, FramePhased DEF PacketSniffing
  <1>5. CASE Air
    BY <1>5, AirSteps, PhasedAlike
  <1> QED BY <1>1, <1>2, <1>3, <1>4, <1>5, NextCases

LEMMA PhasesComplete == TypeOK /\ Phased => ReportComplete
  <1> SUFFICES ASSUME TypeOK, Phased PROVE ReportComplete
    OBVIOUS
  <1>1. \A x : Reported(x) => PhaseAt(x) \in DOMAIN phases /\ phases[PhaseAt(x)] = x
    BY DEF Reported, ToSet, PhaseAt
  <1>2. CASE sniffer = "ended" /\ phases # << >>
    <2>1. Reported("FirstData") /\ Reported("LastEAP") /\ Reported("FirstEAP")
      BY <1>2 DEF Phased, InOrder
    <2>2. PhaseAt("FirstEAP") < PhaseAt("LastEAP") /\ PhaseAt("LastEAP") < PhaseAt("FirstData")
      BY <1>1, <2>1 DEF Phased, InOrder
    <2>3. counterEAP = 4 /\ IsInjective(phases)
      BY <2>1 DEF Phased
    <2> QED BY <1>2, <2>1, <2>2, <2>3 DEF ReportComplete, Reported
  <1> QED BY <1>2 DEF ReportComplete, Phased

-----------------------------------------------------------------------------
(* The types. *)

LoopTypes ==
  /\ main \in {"fork", "network", "accessPoint", "interface", "handOver", "unlock", "join",
               "wait", "exit0", "exitBad"}
  /\ net \in 1..(Len(Saved) + 1)
  /\ ap \in Nat
  /\ interface \in 1..(NumInterfaces + 1)
  /\ children \in [Interfaces -> {"none", "running", "dead", "failed", "reaped"}]
  /\ pCount \in 0..NumInterfaces
  /\ monitors \subseteq Interfaces
  /\ tested \in Seq((DOMAIN Saved) \X Interfaces)
RoundTypes ==
  /\ mutex \in BOOLEAN
  /\ sniffer \in {"none", "start", "loop", "ended"}
  /\ phases \in Seq(Phases)
  /\ counterEAP \in 0..4
  /\ enabled \in BOOLEAN
  /\ air \in 0..Len(Script)
  /\ repeats \in 0..MaxRepeats
  /\ buffer \in Seq(ManagementFrames \cup DataFrames)
  /\ missed \in 0..MaxMissed

LEMMA Types == TypeOK <=> LoopTypes /\ RoundTypes
  BY DEF TypeOK, LoopTypes, RoundTypes

LEMMA Bounds ==
  /\ DOMAIN Saved = 1..Len(Saved) /\ Len(Saved) \in Nat /\ DOMAIN Script = 1..Len(Script) /\ Len(Script) \in Nat
  /\ \A j \in DOMAIN Script : Script[j] \in ManagementFrames \cup DataFrames
  /\ \A n \in DOMAIN Saved : DOMAIN Saved[n].aps = 1..Len(Saved[n].aps) /\ Len(Saved[n].aps) \in Nat
  /\ Interfaces = 1..NumInterfaces /\ NumInterfaces \in Nat
  BY ReportAssumption DEF Interfaces

LEMMA LoopTypesKept == ASSUME LoopTypes, Loops, Children, [Next]_vars PROVE LoopTypes'
  <1>1. CASE UNCHANGED vars
    BY <1>1 DEF vars, indices, processes, LoopTypes
  <1>2. CASE Outside
    <2>1. tested' = tested
      BY <1>2, OutsideSteps
    <2>2. CASE Fork
      <3>1. PICK c \in {"running", "dead", "failed"} : children' = [children EXCEPT ![interface] = c]
        BY <2>2 DEF Fork
      <3>2. children' \in [Interfaces -> {"none", "running", "dead", "failed", "reaped"}]
        BY <3>1 DEF LoopTypes
      <3>3. pCount = interface - 1 /\ interface \in Interfaces
        BY <2>2 DEF Fork, Goto, Children
      <3>4. pCount' \in 0..NumInterfaces /\ interface' \in 1..(NumInterfaces + 1) /\ monitors' \subseteq Interfaces
        BY <2>2, <3>3, Bounds DEF Fork, LoopTypes
      <3> QED BY <2>1, <2>2, <3>2, <3>4 DEF Fork, Goto, LoopTypes
    <2>3. CASE LoadSavedNetworks \/ BadSavedNetworks
      BY <2>1, <2>3 DEF LoadSavedNetworks, BadSavedNetworks, Goto, indices, processes, LoopTypes
    <2>4. CASE SkipNetwork
      BY <2>1, <2>4, Bounds DEF SkipNetwork, Goto, processes, LoopTypes
    <2>5. CASE EnterNetwork
      BY <2>1, <2>5 DEF EnterNetwork, Goto, processes, LoopTypes
    <2>10. CASE OutOfRange
      BY <2>1, <2>10 DEF OutOfRange, Goto, processes, LoopTypes
    <2>11. CASE InRange
      BY <2>1, <2>11, Bounds DEF InRange, Goto, processes, LoopTypes
    <2>6. CASE NoMoreAccessPoints \/ BreakAccessPoints
      <3>1. net \in DOMAIN Saved
        BY <2>6 DEF NoMoreAccessPoints, BreakAccessPoints, Goto, Loops, AtAccessPoint
      <3>2. net' \in 1..(Len(Saved) + 1)
        BY <2>6, <3>1, Bounds DEF NoMoreAccessPoints, BreakAccessPoints
      <3> QED BY <2>1, <2>6, <3>2 DEF NoMoreAccessPoints, BreakAccessPoints, Goto, processes, LoopTypes
    <2>7. CASE KillChildren
      <3>1. children' \in [Interfaces -> {"none", "running", "dead", "failed", "reaped"}]
        BY <2>7 DEF KillChildren, LoopTypes
      <3> QED BY <2>1, <2>7, <3>1 DEF KillChildren, Goto, indices, LoopTypes
    <2>8. CASE Wait
      <3>1. children' \in [Interfaces -> {"none", "running", "dead", "failed", "reaped"}]
        BY <2>8 DEF Wait, LoopTypes
      <3>2. pCount' \in 0..NumInterfaces
        BY <2>8, Bounds DEF Wait, LoopTypes
      <3> QED BY <2>1, <2>8, <3>1, <3>2 DEF Wait, Goto, indices, LoopTypes
    <2>9. CASE RemoveMonitors
      BY <2>1, <2>9 DEF RemoveMonitors, Goto, indices, LoopTypes
    <2> QED BY <1>2, <2>2, <2>3, <2>4, <2>5, <2>6, <2>7, <2>8, <2>9, <2>10, <2>11 DEF Outside
  <1>3. CASE Round
    <2>1. CASE StartSniffing \/ Unlock
      BY <2>1 DEF StartSniffing, Unlock, Goto, indices, processes, LoopTypes
    <2>2. CASE EnableNetwork
      <3>1. net \in DOMAIN Saved /\ interface \in Interfaces
        BY <2>2 DEF EnableNetwork, Goto, Loops, AtAccessPoint, InRound
      <3>2. tested' \in Seq((DOMAIN Saved) \X Interfaces)
        BY <2>2, <3>1 DEF EnableNetwork, LoopTypes
      <3> QED BY <2>2, <3>2 DEF EnableNetwork, Goto, indices, processes, LoopTypes
    <2>3. CASE EndRound
      <3>1. interface \in Interfaces
        BY <2>3 DEF EndRound, Goto, Loops, InRound
      <3> QED BY <2>3, <3>1, Bounds DEF EndRound, Goto, processes, LoopTypes
    <2> QED BY <1>3, <2>1, <2>2, <2>3 DEF Round
  <1>4. CASE PacketSniffing
    BY <1>4, SnifferSteps DEF LoopTypes
  <1>5. CASE Air
    BY <1>5, AirSteps DEF LoopTypes
  <1> QED BY <1>1, <1>2, <1>3, <1>4, <1>5, NextCases

(* What the air does to the buffer. *)
LEMMA AirBuffer ==
  ASSUME RoundTypes, Air
  PROVE  /\ air' \in 0..Len(Script) /\ repeats' \in 0..MaxRepeats /\ missed' \in 0..MaxMissed
         /\ \/ buffer' = buffer
            \/ \E j \in DOMAIN Script : buffer' = Append(buffer, Script[j])
  <1>1. CASE Transmit
    <2>1. air + 1 \in DOMAIN Script /\ air' = air + 1 /\ repeats' = repeats
      BY <1>1, Bounds DEF Transmit, RoundTypes
    <2>2. Captured(Script[air + 1])
      BY <1>1 DEF Transmit
    <2>3. air' \in 0..Len(Script) /\ repeats' \in 0..MaxRepeats
      BY <2>1, Bounds DEF RoundTypes
    <2>4. missed' \in 0..MaxMissed /\ (buffer' = buffer \/ buffer' = Append(buffer, Script[air + 1]))
      BY <2>2, ReportAssumption DEF Captured, RoundTypes
    <2> QED BY <2>1, <2>3, <2>4
  <1>2. CASE Retransmit
    <2>1. air \in DOMAIN Script /\ air' = air /\ repeats' = repeats + 1 /\ repeats < MaxRepeats
      BY <1>2 DEF Retransmit
    <2>2. Captured(Script[air])
      BY <1>2 DEF Retransmit
    <2>3. air' \in 0..Len(Script) /\ repeats' \in 0..MaxRepeats
      BY <2>1, ReportAssumption DEF RoundTypes
    <2>4. missed' \in 0..MaxMissed /\ (buffer' = buffer \/ buffer' = Append(buffer, Script[air]))
      BY <2>2, ReportAssumption DEF Captured, RoundTypes
    <2> QED BY <2>1, <2>3, <2>4
  <1>3. CASE Reassociate
    BY <1>3, Bounds, ReportAssumption DEF Reassociate, RoundTypes
  <1> QED BY <1>1, <1>2, <1>3 DEF Air

LEMMA RoundTypesKept == ASSUME TypeOK, Phased, [Next]_vars PROVE RoundTypes'
  <1>0. RoundTypes
    BY Types
  <1>1. CASE UNCHANGED vars
    BY <1>0, <1>1 DEF vars, sniffing, association, RoundTypes
  <1>2. CASE Outside
    BY <1>0, <1>2, OutsideSteps DEF RoundTypes
  <1>3. CASE Round
    <2>1. CASE StartSniffing
      <3>1. phases' \in Seq(Phases) /\ buffer' \in Seq(ManagementFrames \cup DataFrames)
        BY <2>1 DEF StartSniffing
      <3>2. /\ air' \in 0..Len(Script) /\ repeats' \in 0..MaxRepeats /\ missed' \in 0..MaxMissed
            /\ counterEAP' \in 0..4
        BY <2>1, Bounds, ReportAssumption DEF StartSniffing
      <3> QED BY <1>0, <2>1, <3>1, <3>2 DEF StartSniffing, RoundTypes
    <2>2. CASE EnableNetwork
      BY <1>0, <2>2 DEF EnableNetwork, sniffing, RoundTypes
    <2>3. CASE Unlock
      BY <1>0, <2>3 DEF Unlock, sniffing, association, RoundTypes
    <2>4. CASE EndRound
      BY <1>0, <2>4 DEF EndRound, sniffing, RoundTypes
    <2> QED BY <1>3, <2>1, <2>2, <2>3, <2>4 DEF Round
  <1>4. CASE PacketSniffing
    <2>1. CASE SniffingFails \/ SniffingStarts
      BY <1>0, <2>1 DEF SniffingFails, SniffingStarts, association, RoundTypes
    <2>2. CASE ReadFrame
      <3>1. /\ buffer' \in Seq(ManagementFrames \cup DataFrames)
            /\ UNCHANGED mutex /\ UNCHANGED enabled /\ UNCHANGED air /\ UNCHANGED repeats /\ UNCHANGED missed
        BY <1>0, <2>2 DEF ReadFrame, RoundTypes
      <3>2. phases' \in Seq(Phases) /\ counterEAP' \in 0..4 /\ sniffer' \in {"none", "start", "loop", "ended"}
        <4>1. ManagementFrames \cup {"FirstEAP", "LastEAP", "FirstData"} \subseteq Phases
          BY Keys
        <4>2. phases' = phases \/ \E x \in Phases : phases' = Append(phases, x)
          BY <2>2, <4>1, FrameWrites
        <4>3. phases' \in Seq(Phases)
          BY <1>0, <4>2 DEF RoundTypes
        <4>4. counterEAP' \in 0..4 /\ sniffer' \in {"none", "start", "loop", "ended"}
          BY <1>0, <2>2, FrameWrites DEF RoundTypes
        <4> QED BY <4>3, <4>4
      <3> QED BY <1>0, <3>1, <3>2 DEF RoundTypes
    <2> QED BY <1>4, <2>1, <2>2 DEF PacketSniffing
  <1>5. CASE Air
    <2>1. buffer' \in Seq(ManagementFrames \cup DataFrames)
      <3>1. CASE buffer' = buffer
        BY <1>0, <3>1 DEF RoundTypes
      <3>2. CASE \E j \in DOMAIN Script : buffer' = Append(buffer, Script[j])
        BY <1>0, <3>2, Bounds DEF RoundTypes
      <3> QED BY <1>0, <1>5, <3>1, <3>2, AirBuffer
    <2> QED BY <1>0, <1>5, <2>1, AirBuffer, AirSteps DEF RoundTypes
  <1> QED BY <1>1, <1>2, <1>3, <1>4, <1>5, NextCases

-----------------------------------------------------------------------------
(* The children. *)

LEMMA DeadFinite ==
  /\ IsFiniteSet(Interfaces) /\ Cardinality(Interfaces) = NumInterfaces
  /\ \A S : S \subseteq Interfaces => IsFiniteSet(S) /\ Cardinality(S) \in Nat /\ Cardinality(S) <= NumInterfaces
  /\ \A S : S \subseteq Interfaces /\ Cardinality(S) = 0 => S = {}
  <1>1. IsFiniteSet(Interfaces) /\ Cardinality(Interfaces) = NumInterfaces
    BY FS_Interval, Bounds
  <1>2. \A S : S \subseteq Interfaces => IsFiniteSet(S) /\ Cardinality(S) \in Nat /\ Cardinality(S) <= NumInterfaces
    BY <1>1, FS_Subset, FS_CardinalityType
  <1> QED BY <1>1, <1>2, FS_EmptySet

LEMMA ChildrenKept == ASSUME LoopTypes, Loops, Children, [Next]_vars PROVE Children'
  <1>1. CASE UNCHANGED vars
    BY <1>1 DEF vars, indices, processes, Children, Dead
  <1>2. CASE Fork
    <2>1. PICK c \in {"running", "dead", "failed"} : children' = [children EXCEPT ![interface] = c]
      BY <1>2 DEF Fork
    <2>2. /\ main = "fork" /\ main' = "fork" /\ interface \in Interfaces /\ interface' = interface + 1
          /\ pCount' = pCount + 1
      BY <1>2 DEF Fork, Goto
    <2>3. pCount' = interface' - 1
      BY <2>2, Bounds DEF Children
    <2>4. \A i \in Interfaces : children'[i] = IF i = interface THEN c ELSE children[i]
      BY <2>1 DEF LoopTypes
    <2>5. \A i \in Interfaces : children'[i] = "none" <=> i >= interface'
      BY <2>2, <2>4, Bounds DEF Children
    <2> QED BY <2>2, <2>3, <2>5 DEF Children
  <1>3. CASE LoadSavedNetworks \/ BadSavedNetworks
    <2>1. /\ main = "fork" /\ main' \notin {"fork", "wait", "exit0"} /\ interface \notin Interfaces
          /\ children' = children /\ pCount' = pCount
      BY <1>3 DEF LoadSavedNetworks, BadSavedNetworks, Goto, processes
    <2>2. interface = NumInterfaces + 1
      BY <2>1, Bounds DEF LoopTypes
    <2>3. \A i \in Interfaces : children[i] # "none"
      BY <2>1, <2>2, Bounds DEF Children
    <2>4. pCount = NumInterfaces
      BY <2>1, <2>2, Bounds DEF Children
    <2> QED BY <2>1, <2>3, <2>4 DEF Children
  <1>4. CASE \/ SkipNetwork \/ EnterNetwork \/ OutOfRange \/ InRange \/ NoMoreAccessPoints \/ BreakAccessPoints
             \/ StartSniffing \/ EnableNetwork \/ Unlock \/ EndRound
    <2>1. /\ main \notin {"fork", "wait", "exit0"} /\ main' \notin {"fork", "wait", "exit0"}
          /\ children' = children /\ pCount' = pCount
      BY <1>4 DEF SkipNetwork, EnterNetwork, OutOfRange, InRange, NoMoreAccessPoints, BreakAccessPoints,
                  StartSniffing, EnableNetwork, Unlock, EndRound, Goto, processes
    <2> QED BY <2>1 DEF Children
  <1>5. CASE KillChildren
    <2>1. /\ main = "network" /\ main' = "wait" /\ pCount' = pCount
          /\ children' = [i \in Interfaces |-> IF children[i] = "running" THEN "dead" ELSE children[i]]
      BY <1>5 DEF KillChildren, Goto
    <2>2. pCount' = NumInterfaces /\ \A i \in Interfaces : children'[i] \notin {"none", "running"}
      BY <2>1 DEF Children
    <2>3. Cardinality(Dead)' <= NumInterfaces
      <3>1. Dead' \subseteq Interfaces
        BY DEF Dead
      <3> QED BY <3>1, DeadFinite
    <2> QED BY <2>1, <2>2, <2>3 DEF Children
  <1>6. CASE Wait
    <2>1. main = "wait" /\ main' = "wait" /\ pCount > 0 /\ pCount' = pCount - 1 /\ pCount \in Nat
      BY <1>6, Bounds DEF Wait, Goto, LoopTypes
    <2>2. \A i \in Interfaces : children[i] # "running" /\ children[i] # "none"
      BY <2>1 DEF Children
    <2>3. Cardinality(Dead) <= pCount /\ Dead \subseteq Interfaces
      <3>1. Cardinality(Dead) <= pCount
        BY <2>1 DEF Children
      <3> QED BY <3>1 DEF Dead
    <2>4. CASE \E i \in Interfaces : children[i] = "dead" /\ children' = [children EXCEPT ![i] = "reaped"]
      <3>1. PICK i \in Interfaces : children[i] = "dead" /\ children' = [children EXCEPT ![i] = "reaped"]
        BY <2>4
      <3>2. \A j \in Interfaces : children'[j] = IF j = i THEN "reaped" ELSE children[j]
        BY <3>1 DEF LoopTypes
      <3>3. Dead' = Dead \ {i} /\ i \in Dead
        BY <3>1, <3>2 DEF Dead
      <3>4. Cardinality(Dead') = Cardinality(Dead) - 1
        BY <2>3, <3>3, DeadFinite, FS_RemoveElement
      <3>5. Cardinality(Dead') <= pCount'
        BY <2>1, <2>3, <3>4, DeadFinite
      <3>6. \A j \in Interfaces : children'[j] # "running" /\ children'[j] # "none"
        BY <2>2, <3>2
      <3> QED BY <2>1, <3>5, <3>6 DEF Children
    <2>5. CASE (\A i \in Interfaces : children[i] \notin {"running", "dead"}) /\ children' = children
      <3>1. Dead' = {}
        BY <2>5 DEF Dead
      <3>2. Cardinality(Dead') <= pCount'
        BY <2>1, <3>1, FS_EmptySet
      <3> QED BY <2>1, <2>2, <2>5, <3>2 DEF Children
    <2> QED BY <1>6, <2>4, <2>5 DEF Wait
  <1>7. CASE RemoveMonitors
    BY <1>7 DEF RemoveMonitors, Goto, Children, Dead
  <1>8. CASE PacketSniffing
    BY <1>8, SnifferSteps DEF Children, Dead
  <1>9. CASE Air
    BY <1>9, AirSteps DEF Children, Dead
  <1> QED BY <1>1, <1>2, <1>3, <1>4, <1>5, <1>6, <1>7, <1>8, <1>9 DEF Next, Report

LEMMA AllReaped == LoopTypes /\ Children => CleanExit
  <1> SUFFICES ASSUME LoopTypes, Children, main = "exit0"
               PROVE  monitors = {} /\ \A i \in Interfaces : children[i] \in {"failed", "reaped"}
    BY DEF CleanExit
  <1>1. Cardinality(Dead) <= 0 /\ Dead \subseteq Interfaces
    <2>1. Cardinality(Dead) <= 0
      BY DEF Children
    <2> QED BY <2>1 DEF Dead
  <1>2. Dead = {}
    BY <1>1, DeadFinite
  <1>3. monitors = {} /\ \A i \in Interfaces : children[i] # "running" /\ children[i] # "none"
    BY DEF Children
  <1> QED BY <1>2, <1>3 DEF Dead, LoopTypes

-----------------------------------------------------------------------------
(* The networks. *)

LEMMA LoopsKept == ASSUME LoopTypes, Loops, [Next]_vars PROVE Loops'
  <1>1. CASE UNCHANGED vars
    BY <1>1 DEF vars, indices, Loops, AtAccessPoint, InRound
  <1>2. CASE Fork \/ LoadSavedNetworks \/ BadSavedNetworks
    BY <1>2 DEF Fork, LoadSavedNetworks, BadSavedNetworks, Goto, indices, Loops, AtAccessPoint, InRound
  <1>3. CASE SkipNetwork \/ NoMoreAccessPoints \/ BreakAccessPoints
    BY <1>3 DEF SkipNetwork, NoMoreAccessPoints, BreakAccessPoints, Goto, Loops, AtAccessPoint, InRound
  <1>4. CASE EnterNetwork
    <2>1. \A k \in DOMAIN Saved[net].aps : ~(k < 1)
      BY <1>4, Bounds DEF EnterNetwork
    <2> QED BY <1>4, <2>1 DEF EnterNetwork, Goto, Loops, AtAccessPoint, InRound
  <1>5. CASE OutOfRange
    <2>1. /\ main = "accessPoint" /\ main' = "accessPoint" /\ net \in DOMAIN Saved /\ Saved[net].enabled
          /\ ap \in DOMAIN Saved[net].aps /\ ~Saved[net].aps[ap] /\ ap' = ap + 1 /\ net' = net
      BY <1>5 DEF OutOfRange, Goto, Loops, AtAccessPoint
    <2>2. ap >= 1 /\ \A k \in DOMAIN Saved[net].aps : k < ap => ~Saved[net].aps[k]
      BY <2>1 DEF Loops, AtAccessPoint
    <2>3. ap' >= 1 /\ \A k \in DOMAIN Saved[net].aps : k < ap' => ~Saved[net].aps[k]
      <3>1. \A k \in DOMAIN Saved[net].aps : k < ap + 1 => k < ap \/ k = ap
        BY <2>1, Bounds
      <3> QED BY <2>1, <2>2, <3>1, Bounds
    <2> QED BY <2>1, <2>3 DEF Loops, AtAccessPoint, InRound
  <1>6. CASE InRange
    BY <1>6 DEF InRange, Goto, Loops, AtAccessPoint, InRound
  <1>7. CASE StartSniffing \/ EnableNetwork \/ Unlock
    BY <1>7 DEF StartSniffing, EnableNetwork, Unlock, Goto, indices, Loops, AtAccessPoint, InRound
  <1>8. CASE EndRound
    BY <1>8 DEF EndRound, Goto, Loops, AtAccessPoint, InRound
  <1>9. CASE KillChildren \/ Wait \/ RemoveMonitors
    BY <1>9 DEF KillChildren, Wait, RemoveMonitors, Goto, indices, Loops, AtAccessPoint, InRound
  <1>10. CASE PacketSniffing
    BY <1>10, SnifferSteps DEF Loops
  <1>11. CASE Air
    BY <1>11, AirSteps DEF Loops
  <1> QED BY <1>1, <1>2, <1>3, <1>4, <1>5, <1>6, <1>7, <1>8, <1>9, <1>10, <1>11 DEF Next, Report

(* What was tested before the loops come to a network and an interface. *)
Before(n, S) == {p \in ToBeTested : p[1] < n \/ (p[1] = n /\ p[2] \in S)}

LEMMA PairsTested ==
  \A p \in ToBeTested : /\ p = <<p[1], p[2]>> /\ p[1] \in DOMAIN Saved /\ p[1] \in Nat /\ p[2] \in Interfaces
                        /\ Saved[p[1]].enabled /\ TRUE \in ToSet(Saved[p[1]].aps)
  <1> SUFFICES ASSUME NEW p \in ToBeTested
               PROVE  /\ p = <<p[1], p[2]>> /\ p[1] \in DOMAIN Saved /\ p[1] \in Nat /\ p[2] \in Interfaces
                      /\ Saved[p[1]].enabled /\ TRUE \in ToSet(Saved[p[1]].aps)
    OBVIOUS
  <1>1. PICK n, i : /\ n \in DOMAIN Saved /\ Saved[n].enabled /\ TRUE \in ToSet(Saved[n].aps)
                    /\ i \in Interfaces /\ p = <<n, i>>
    <2>1. PICK N : N = {n \in DOMAIN Saved : Saved[n].enabled /\ TRUE \in ToSet(Saved[n].aps)}
      OBVIOUS
    <2>2. p \in N \X Interfaces
      BY <2>1 DEF ToBeTested
    <2>3. PICK n \in N, i \in Interfaces : p = <<n, i>>
      BY <2>2
    <2> QED BY <2>1, <2>3
  <1>2. n \in Nat
    BY <1>1, Bounds
  <1> QED BY <1>1, <1>2

(* With all interfaces, or with nothing to test, a network is done. *)
LEMMA NetworkDone ==
  ASSUME NEW n \in Nat, NEW S, Interfaces \subseteq S \/ n \notin DOMAIN Saved \/ ~Saved[n].enabled
                                 \/ TRUE \notin ToSet(Saved[n].aps)
  PROVE  Before(n, S) = Before(n + 1, {})
  <1> SUFFICES ASSUME NEW p \in ToBeTested
               PROVE  (p[1] < n \/ (p[1] = n /\ p[2] \in S)) <=> p[1] < n + 1
    BY DEF Before
  <1>1. p[1] \in Nat /\ p[2] \in Interfaces /\ p[1] \in DOMAIN Saved
        /\ Saved[p[1]].enabled /\ TRUE \in ToSet(Saved[p[1]].aps)
    BY PairsTested
  <1>2. p[1] = n => p[2] \in S
    BY <1>1
  <1> QED BY <1>1, <1>2

LEMMA OneMore ==
  ASSUME NEW n \in Nat, NEW i \in Interfaces, <<n, i>> \in ToBeTested
  PROVE  /\ Before(n, 1..i) = Before(n, 1..(i - 1)) \cup {<<n, i>>}
         /\ <<n, i>> \notin Before(n, 1..(i - 1))
  <1>1. 1..i = 1..(i - 1) \cup {i} /\ i \notin 1..(i - 1)
    BY Bounds
  <1>2. ASSUME NEW p \in ToBeTested
        PROVE  (p[1] < n \/ (p[1] = n /\ p[2] \in 1..i))
                 <=> (p[1] < n \/ (p[1] = n /\ p[2] \in 1..(i - 1))) \/ p = <<n, i>>
    <2>1. p = <<p[1], p[2]>>
      BY PairsTested
    <2> QED BY <1>1, <2>1
  <1> QED BY <1>1, <1>2 DEF Before

TestedAre == IsInjective(tested) /\ ToSet(tested) = Before(net, TestedInterfaces)

LEMMA TestedIs == Tested <=> Loops /\ TestedAre
  BY DEF Tested, TestedAre, Before

LEMMA TestedAlike ==
  ASSUME TestedAre, tested' = tested, Before(net, TestedInterfaces)' = Before(net, TestedInterfaces)
  PROVE  TestedAre'
  BY DEF TestedAre

LEMMA TestedKept == ASSUME LoopTypes, Loops, TestedAre, [Next]_vars PROVE TestedAre'
  <1>0. net \in Nat /\ interface \in Nat
    BY Bounds DEF LoopTypes
  <1>1. CASE UNCHANGED vars \/ PacketSniffing \/ Air
    <2>1. UNCHANGED <<main, net, interface, tested>>
      BY <1>1, SnifferSteps, AirSteps DEF vars, indices
    <2> QED BY <2>1 DEF TestedAre, Before, TestedInterfaces
  <1>2. CASE Fork \/ LoadSavedNetworks \/ BadSavedNetworks \/ EnterNetwork \/ OutOfRange \/ KillChildren \/ Wait
             \/ RemoveMonitors
    <2>1. /\ net' = net /\ tested' = tested
          /\ main \notin {"unlock", "join", "interface", "handOver"}
          /\ main' \notin {"unlock", "join", "interface", "handOver"}
      BY <1>2 DEF Fork, LoadSavedNetworks, BadSavedNetworks, EnterNetwork, OutOfRange, KillChildren, Wait,
                  RemoveMonitors, Goto, indices
    <2>2. TestedInterfaces = {} /\ TestedInterfaces' = {}
      BY <2>1 DEF TestedInterfaces
    <2> QED BY <2>1, <2>2, TestedAlike DEF Before
  <1>3. CASE SkipNetwork \/ NoMoreAccessPoints \/ BreakAccessPoints
    <2>1. /\ net' = net + 1 /\ tested' = tested /\ main' = "network" /\ main \in {"network", "accessPoint", "interface"}
      BY <1>3 DEF SkipNetwork, NoMoreAccessPoints, BreakAccessPoints, Goto
    <2>2. TestedInterfaces' = {}
      BY <2>1 DEF TestedInterfaces
    <2>3. \/ Interfaces \subseteq TestedInterfaces
          \/ ~Saved[net].enabled
          \/ TRUE \notin ToSet(Saved[net].aps)
      <3>1. CASE SkipNetwork
        BY <3>1 DEF SkipNetwork
      <3>2. CASE NoMoreAccessPoints
        <4>1. /\ net \in DOMAIN Saved /\ ap \notin DOMAIN Saved[net].aps /\ ap \in Nat /\ ap >= 1
              /\ \A k \in DOMAIN Saved[net].aps : k < ap => ~Saved[net].aps[k]
          BY <3>2 DEF NoMoreAccessPoints, Goto, Loops, AtAccessPoint, LoopTypes
        <4>2. \A k \in DOMAIN Saved[net].aps : k < ap
          BY <4>1, Bounds
        <4> QED BY <4>1, <4>2 DEF ToSet
      <3>3. CASE BreakAccessPoints
        <4>1. interface = NumInterfaces + 1 /\ main = "interface"
          BY <3>3, Bounds DEF BreakAccessPoints, Goto, LoopTypes
        <4>2. TestedInterfaces = 1..(interface - 1)
          BY <4>1 DEF TestedInterfaces
        <4>3. TestedInterfaces = Interfaces
          BY <4>1, <4>2, Bounds
        <4> QED BY <4>3
      <3> QED BY <1>3, <3>1, <3>2, <3>3
    <2>4. Before(net, TestedInterfaces) = Before(net + 1, {})
      BY <1>0, <2>3, NetworkDone
    <2>5. Before(net, TestedInterfaces)' = Before(net + 1, {})
      BY <2>1, <2>2 DEF Before
    <2> QED BY <2>1, <2>4, <2>5, TestedAlike
  <1>4. CASE InRange
    <2>1. /\ main = "accessPoint" /\ main' = "interface" /\ interface' = 1 /\ net' = net /\ tested' = tested
      BY <1>4 DEF InRange, Goto
    <2>2. TestedInterfaces = {}
      BY <2>1 DEF TestedInterfaces
    <2>3. TestedInterfaces' = {}
      BY <2>1 DEF TestedInterfaces
    <2> QED BY <2>1, <2>2, <2>3, TestedAlike DEF Before
  <1>5. CASE StartSniffing \/ Unlock
    <2>1. /\ net' = net /\ interface' = interface /\ tested' = tested
          /\ \/ main = "interface" /\ main' = "handOver"
             \/ main = "unlock" /\ main' = "join"
      BY <1>5 DEF StartSniffing, Unlock, Goto, indices
    <2>2. TestedInterfaces' = TestedInterfaces
      BY <2>1 DEF TestedInterfaces
    <2> QED BY <2>1, <2>2, TestedAlike DEF Before
  <1>6. CASE EnableNetwork
    <2>1. /\ main = "handOver" /\ main' = "unlock" /\ net' = net /\ interface' = interface
          /\ tested' = Append(tested, <<net, interface>>)
      BY <1>6 DEF EnableNetwork, Goto, indices
    <2>2. TestedInterfaces = 1..(interface - 1) /\ TestedInterfaces' = 1..interface
      BY <2>1 DEF TestedInterfaces
    <2>3. /\ interface \in Interfaces /\ net \in DOMAIN Saved /\ Saved[net].enabled
          /\ ap \in DOMAIN Saved[net].aps /\ Saved[net].aps[ap] = TRUE
      <3>1. /\ interface \in Interfaces /\ net \in DOMAIN Saved /\ Saved[net].enabled
            /\ ap \in DOMAIN Saved[net].aps /\ Saved[net].aps[ap]
        BY <2>1 DEF Loops, AtAccessPoint, InRound
      <3>2. Saved[net].aps[ap] \in BOOLEAN
        BY <3>1, ReportAssumption
      <3> QED BY <3>1, <3>2
    <2>4. <<net, interface>> \in ToBeTested
      BY <2>3 DEF ToBeTested, ToSet
    <2>5. PICK s, x, t : /\ s = tested /\ x = <<net, interface>> /\ t = tested'
                         /\ Appends((DOMAIN Saved) \X Interfaces, s, x, t)
      BY <2>1, <2>3 DEF Appends, LoopTypes
    <2>6. Extended((DOMAIN Saved) \X Interfaces, s, x, t)
      BY <2>5, Appended
    <2>7. /\ Before(net, 1..interface) = Before(net, 1..(interface - 1)) \cup {x}
          /\ x \notin Before(net, 1..(interface - 1))
      BY <1>0, <2>3, <2>4, <2>5, OneMore
    <2>8. ToSet(s) = Before(net, 1..(interface - 1)) /\ IsInjective(s)
      BY <2>2, <2>5 DEF TestedAre
    <2>9. ToSet(t) = Before(net, 1..interface) /\ IsInjective(t)
      BY <2>6, <2>7, <2>8 DEF Extended
    <2>10. Before(net, TestedInterfaces)' = Before(net, 1..interface)
      BY <2>1, <2>2 DEF Before
    <2> QED BY <2>5, <2>9, <2>10 DEF TestedAre
  <1>7. CASE EndRound
    <2>1. main = "join" /\ main' = "interface" /\ interface' = interface + 1 /\ net' = net /\ tested' = tested
      BY <1>7 DEF EndRound, Goto
    <2>2. TestedInterfaces = 1..interface
      BY <2>1 DEF TestedInterfaces
    <2>3. TestedInterfaces' = 1..interface
      BY <1>0, <2>1 DEF TestedInterfaces
    <2> QED BY <2>1, <2>2, <2>3, TestedAlike DEF Before
  <1> QED BY <1>1, <1>2, <1>3, <1>4, <1>5, <1>6, <1>7 DEF Next, Report

LEMMA AllTested == LoopTypes /\ Tested => EachNetworkTested
  <1> SUFFICES ASSUME LoopTypes, Tested PROVE EachNetworkTested
    OBVIOUS
  <1>1. /\ IsInjective(tested)
        /\ ToSet(tested) = Before(net, TestedInterfaces)
    BY TestedIs DEF TestedAre
  <1>2. ToSet(tested) \subseteq ToBeTested
    BY <1>1 DEF Before
  <1>3. CASE main = "exit0"
    <2>1. net = Len(Saved) + 1
      BY <1>3, Bounds DEF Tested, Loops, LoopTypes
    <2>2. \A p \in ToBeTested : p[1] < net
      <3>1. \A n \in DOMAIN Saved : n < net
        BY <2>1, Bounds
      <3> QED BY <3>1, PairsTested
    <2>3. Before(net, TestedInterfaces) = ToBeTested
      BY <2>2 DEF Before
    <2> QED BY <1>1, <1>2, <2>3 DEF EachNetworkTested
  <1> QED BY <1>1, <1>2, <1>3 DEF EachNetworkTested

-----------------------------------------------------------------------------
(* Together. *)

LEMMA NextReport == ReportInv /\ [Next]_vars => ReportInv'
  <1> SUFFICES ASSUME ReportInv, [Next]_vars PROVE ReportInv'
    OBVIOUS
  <1>1. /\ TypeOK /\ HandOver /\ Phased /\ Children /\ LoopTypes /\ RoundTypes /\ Loops /\ TestedAre
    BY Types, TestedIs DEF ReportInv
  <1>2. LoopTypes' /\ RoundTypes'
    BY <1>1, LoopTypesKept, RoundTypesKept
  <1>3. TypeOK'
    BY <1>2 DEF TypeOK, LoopTypes, RoundTypes
  <1>4. HandOver' /\ Phased' /\ Children'
    BY <1>1, HandOverKept, PhasedKept, ChildrenKept
  <1>5. Loops' /\ TestedAre'
    BY <1>1, LoopsKept, TestedKept
  <1>6. Tested'
    BY <1>5 DEF Tested, TestedAre, Before
  <1> QED BY <1>3, <1>4, <1>6 DEF ReportInv

LEMMA ReportAlways == Spec => []ReportInv
  <1>1. Init => ReportInv
    BY InitReport
  <1> QED BY <1>1, NextReport, PTL DEF Spec

(* The variables of the report keep their types: no child more than there  *)
(* are interfaces, no key frame more than four is counted.                 *)
THEOREM TypesCorrect == Spec => []TypeOK
  <1>1. ReportInv => TypeOK
    BY DEF ReportInv
  <1> QED BY <1>1, ReportAlways, PTL

(* No frame of an association is asked for before the sniffer listens or   *)
(* has given up, however the two threads run (syncMutex in main.cpp).      *)
THEOREM ListensFirst == Spec => []EnabledAfterListening
  <1>1. ReportInv => EnabledAfterListening
    BY DEF ReportInv, HandOver, InRound, EnabledAfterListening
  <1> QED BY <1>1, ReportAlways, PTL

(* Whatever frames are sent, sent again, or missed: each phase is written  *)
(* once, and a sniffer that ended wrote nothing or the last three phases   *)
(* in their order.                                                         *)
THEOREM ReportsComplete == Spec => []ReportComplete
  <1>1. ReportInv => ReportComplete
    BY PhasesComplete DEF ReportInv
  <1> QED BY <1>1, ReportAlways, PTL

(* For any saved networks and interfaces: nothing is tested twice, nothing *)
(* out of range or out of use is, and at the end everything else was.      *)
THEOREM EachTestedOnce == Spec => []EachNetworkTested
  <1>1. ReportInv => EachNetworkTested
    BY Types, AllTested DEF ReportInv
  <1> QED BY <1>1, ReportAlways, PTL

(* report() succeeds only after it waited for every child, though it also  *)
(* counts those that were never started.                                   *)
THEOREM ExitsClean == Spec => []CleanExit
  <1>1. ReportInv => CleanExit
    BY Types, AllReaped DEF ReportInv
  <1> QED BY <1>1, ReportAlways, PTL

-----------------------------------------------------------------------------
(* The fourth key frame. *)

LEMMA MessageIs ==
  \A f : /\ Message(f) \in 1..4
         /\ f \in KeyFrames /\ Message(f) = 4 => f = "key4"
  BY DEF Message, KeyFrames

LEMMA CountedAlike ==
  ASSUME Counted, UNCHANGED repeats, UNCHANGED buffer, UNCHANGED counterEAP, UNCHANGED air
  PROVE  Counted'
  BY DEF Counted

LEMMA FrameCounts ==
  ASSUME TypeOK, Phased, ReadFrame
  PROVE  /\ \/ counterEAP' = counterEAP
            \/ counterEAP' = counterEAP + 1 /\ Head(buffer) \in KeyFrames
         /\ LastEapWritten => counterEAP = 3 /\ Head(buffer) \in KeyFrames
  <1>1. counterEAP \in 0..4 /\ phases \in Seq(Phases)
    BY DEF TypeOK
  <1>2. \/ counterEAP' = counterEAP
        \/ counterEAP' = counterEAP + 1 /\ Head(buffer) \in KeyFrames
    <2>1. PICK frame : /\ frame = Head(buffer)
                       /\ \/ ReportManagement(frame) \/ ReportFirstData \/ ReportEap(frame) \/ IgnoreData
      BY DEF ReadFrame
    <2>2. CASE ReportManagement(frame) \/ ReportFirstData \/ IgnoreData
      BY <2>2 DEF ReportManagement, ReportFirstData, IgnoreData
    <2>3. CASE ReportEap(frame)
      <3>1. counterEAP' = counterEAP + (IF frame \in KeyFrames THEN 1 ELSE 0)
        BY <2>3 DEF ReportEap
      <3> QED BY <1>1, <2>1, <3>1
    <2> QED BY <2>1, <2>2, <2>3
  <1>3. ASSUME LastEapWritten PROVE counterEAP = 3 /\ counterEAP' = 4
    <2>1. \A x \in Phases : phases' = Append(phases, x) => x = "LastEAP"
      <3> SUFFICES ASSUME NEW x \in Phases, phases' = Append(phases, x) PROVE x = "LastEAP"
        OBVIOUS
      <3>1. \A y : Reported(y)' <=> Reported(y) \/ y = x
        BY <1>1, Writes
      <3> QED BY <1>3, <3>1 DEF LastEapWritten
    <2>2. phases' # phases
      BY <1>3 DEF LastEapWritten, Reported
    <2>3. /\ "FirstEAP" \in Phases /\ "FirstData" \in Phases /\ ManagementFrames \subseteq Phases
          /\ \A f \in ManagementFrames : f # "LastEAP"
      BY Keys
    <2> QED BY <2>1, <2>2, <2>3, FrameWrites
  <1> QED BY <1>1, <1>2, <1>3

LEMMA CountedKept ==
  ASSUME OneHandshake, TypeOK, Phased, Counted, [Next]_vars
  PROVE  Counted'
  <1>0. counterEAP \in 0..4 /\ buffer \in Seq(ManagementFrames \cup DataFrames) /\ air \in Nat /\ repeats \in Nat
    BY Bounds, ReportAssumption DEF TypeOK
  <1>1. CASE UNCHANGED vars
    BY <1>1, CountedAlike DEF vars, sniffing, association
  <1>2. CASE Outside
    BY <1>2, OutsideSteps, CountedAlike
  <1>3. CASE StartSniffing
    <2>1. buffer' = << >> /\ counterEAP' = 0
      BY <1>3 DEF StartSniffing
    <2>2. DOMAIN buffer' = {} /\ \A f : counterEAP' < Message(f)
      BY <2>1, MessageIs
    <2> QED BY <2>2 DEF Counted
  <1>4. CASE EnableNetwork \/ Unlock \/ EndRound \/ SniffingFails \/ SniffingStarts
    BY <1>4, CountedAlike DEF EnableNetwork, Unlock, EndRound, SniffingFails, SniffingStarts, sniffing, association
  <1>5. CASE ReadFrame /\ repeats = 0
    <2>1. /\ buffer # << >> /\ buffer' = Tail(buffer) /\ air' = air
      BY <1>5 DEF ReadFrame
    <2>2. /\ 1 \in DOMAIN buffer /\ Head(buffer) = buffer[1]
          /\ \A n \in DOMAIN buffer' : buffer'[n] = buffer[n + 1] /\ n + 1 \in DOMAIN buffer /\ n \in Nat /\ 1 < n + 1
      BY <1>0, <2>1, TailOf
    <2>3. /\ \A b \in DOMAIN buffer : buffer[b] \in KeyFrames => counterEAP < Message(buffer[b])
          /\ \A b, c \in DOMAIN buffer :
               b < c /\ buffer[b] \in KeyFrames /\ buffer[c] \in KeyFrames => Message(buffer[b]) < Message(buffer[c])
          /\ \A j \in DOMAIN Script : j > air /\ Script[j] \in KeyFrames =>
               /\ counterEAP < Message(Script[j])
               /\ \A b \in DOMAIN buffer : buffer[b] \in KeyFrames => Message(buffer[b]) < Message(Script[j])
      BY <1>5 DEF Counted
    <2>4. /\ \/ counterEAP' = counterEAP
             \/ counterEAP' = counterEAP + 1 /\ buffer[1] \in KeyFrames
      BY <1>5, <2>2, FrameCounts
    <2>5. \A f : /\ counterEAP < Message(f)
                 /\ buffer[1] \in KeyFrames => Message(buffer[1]) < Message(f)
                 => counterEAP' < Message(f)
      BY <1>0, <2>2, <2>3, <2>4, MessageIs
    <2>6. \A b \in DOMAIN buffer' : buffer'[b] \in KeyFrames => counterEAP' < Message(buffer'[b])
      BY <2>2, <2>3, <2>5
    <2>7. \A b, c \in DOMAIN buffer' :
            b < c /\ buffer'[b] \in KeyFrames /\ buffer'[c] \in KeyFrames => Message(buffer'[b]) < Message(buffer'[c])
      BY <2>2, <2>3
    <2>8. \A j \in DOMAIN Script : j > air /\ Script[j] \in KeyFrames =>
            /\ counterEAP' < Message(Script[j])
            /\ \A b \in DOMAIN buffer' : buffer'[b] \in KeyFrames => Message(buffer'[b]) < Message(Script[j])
      BY <2>2, <2>3, <2>5
    <2> QED BY <2>1, <2>6, <2>7, <2>8 DEF Counted
  <1>6. CASE ReadFrame /\ repeats # 0
    BY <1>6 DEF ReadFrame, Counted
  <1>7. CASE Transmit /\ repeats = 0
    <2>1. /\ air + 1 \in DOMAIN Script /\ air' = air + 1 /\ counterEAP' = counterEAP
      BY <1>0, <1>7, Bounds DEF Transmit, sniffing
    <2>2. /\ \A b \in DOMAIN buffer : buffer[b] \in KeyFrames => counterEAP < Message(buffer[b])
          /\ \A b, c \in DOMAIN buffer :
               b < c /\ buffer[b] \in KeyFrames /\ buffer[c] \in KeyFrames => Message(buffer[b]) < Message(buffer[c])
          /\ \A j \in DOMAIN Script : j > air /\ Script[j] \in KeyFrames =>
               /\ counterEAP < Message(Script[j])
               /\ \A b \in DOMAIN buffer : buffer[b] \in KeyFrames => Message(buffer[b]) < Message(Script[j])
      BY <1>7 DEF Counted
    <2>3. \A j \in DOMAIN Script : j > air + 1 => j > air /\ air + 1 < j
      BY <1>0, Bounds
    <2>4. buffer' = buffer \/ buffer' = Append(buffer, Script[air + 1])
      BY <1>7 DEF Transmit, Captured
    <2>5. CASE buffer' = buffer
      BY <2>1, <2>2, <2>3, <2>5 DEF Counted
    <2>6. CASE buffer' = Append(buffer, Script[air + 1])
      <3>1. PICK S, s, x, t : /\ S = ManagementFrames \cup DataFrames /\ s = buffer /\ x = Script[air + 1]
                              /\ t = buffer' /\ Appends(S, s, x, t)
        BY <1>0, <2>1, <2>6, Bounds DEF Appends
      <3>2. /\ DOMAIN t = DOMAIN s \cup {Len(s) + 1}
            /\ \A n \in DOMAIN s : t[n] = s[n] /\ n < Len(s) + 1
            /\ t[Len(s) + 1] = x /\ \A n \in DOMAIN s : n \in Nat
        <4>1. Extended(S, s, x, t)
          BY <3>1, Appended
        <4> QED BY <4>1 DEF Extended
      <3>3. Len(s) \in Nat
        BY <1>0, <3>1
      <3>4. x \in KeyFrames => /\ counterEAP < Message(x)
                               /\ \A b \in DOMAIN s : s[b] \in KeyFrames => Message(s[b]) < Message(x)
        BY <1>0, <2>1, <2>2, <3>1
      <3>5. \A b \in DOMAIN t : t[b] \in KeyFrames => counterEAP < Message(t[b])
        BY <2>2, <3>1, <3>2, <3>4
      <3>6. \A b, c \in DOMAIN t :
              b < c /\ t[b] \in KeyFrames /\ t[c] \in KeyFrames => Message(t[b]) < Message(t[c])
        BY <2>2, <3>1, <3>2, <3>3, <3>4
      <3>7. \A j \in DOMAIN Script : j > air + 1 /\ Script[j] \in KeyFrames =>
              /\ counterEAP < Message(Script[j])
              /\ \A b \in DOMAIN t : t[b] \in KeyFrames => Message(t[b]) < Message(Script[j])
        <4> SUFFICES ASSUME NEW j \in DOMAIN Script, j > air + 1, Script[j] \in KeyFrames
                     PROVE  /\ counterEAP < Message(Script[j])
                            /\ \A b \in DOMAIN t : t[b] \in KeyFrames => Message(t[b]) < Message(Script[j])
          OBVIOUS
        <4>1. x \in KeyFrames => Message(x) < Message(Script[j])
          BY <2>1, <2>3, <3>1 DEF OneHandshake
        <4> QED BY <2>2, <2>3, <3>1, <3>2, <4>1
      <3> QED BY <2>1, <3>1, <3>5, <3>6, <3>7 DEF Counted
    <2> QED BY <2>4, <2>5, <2>6
  <1>8. CASE Transmit /\ repeats # 0
    BY <1>8 DEF Transmit, Counted
  <1>9. CASE Retransmit \/ Reassociate
    <2>1. repeats' # 0
      BY <1>0, <1>9 DEF Retransmit, Reassociate
    <2> QED BY <2>1 DEF Counted
  <1> QED BY <1>1, <1>2, <1>3, <1>4, <1>5, <1>6, <1>7, <1>8, <1>9, NextCases DEF Round, PacketSniffing, Air

LEMMA FourthIsLast ==
  ASSUME TypeOK, Phased, Counted, [Next]_vars, LastEapWritten, repeats = 0
  PROVE  Head(buffer) = "key4"
  <1>1. ReadFrame
    <2>1. phases' # phases /\ phases' # << >>
      BY DEF LastEapWritten, Reported, ToSet
    <2>2. CASE Outside \/ Air \/ UNCHANGED vars
      BY <2>1, <2>2, OutsideSteps, AirSteps DEF vars, sniffing
    <2>3. CASE Round
      BY <2>1, <2>3 DEF Round, StartSniffing, EnableNetwork, Unlock, EndRound, sniffing
    <2>4. CASE SniffingFails \/ SniffingStarts
      BY <2>1, <2>4 DEF SniffingFails, SniffingStarts
    <2> QED BY <2>2, <2>3, <2>4, NextCases DEF PacketSniffing
  <1>2. counterEAP = 3 /\ Head(buffer) \in KeyFrames
    BY <1>1, FrameCounts
  <1>3. buffer \in Seq(ManagementFrames \cup DataFrames) /\ buffer # << >>
    BY <1>1 DEF TypeOK, ReadFrame
  <1>4. 1 \in DOMAIN buffer /\ Head(buffer) = buffer[1]
    BY <1>3, TailOf
  <1>5. 3 < Message(Head(buffer))
    BY <1>2, <1>4 DEF Counted
  <1> QED BY <1>2, <1>5, MessageIs

(* For every association whose script has each message of the handshake at *)
(* most once and in order: while nothing is sent again, "LastEAP" is       *)
(* written for the fourth message, whatever frames the monitor misses.     *)
THEOREM LastEapIsRight == ASSUME OneHandshake PROVE Spec => LastEapRight
  <1>1. Init => ReportInv /\ Counted
    BY InitReport
  <1>2. ReportInv /\ Counted /\ [Next]_vars => (ReportInv /\ Counted)'
    BY NextReport, CountedKept DEF ReportInv
  <1>3. ReportInv /\ Counted /\ [Next]_vars => (LastEapWritten /\ repeats = 0 => Head(buffer) = "key4")
    BY FourthIsLast DEF ReportInv
  <1> QED BY <1>1, <1>2, <1>3, PTL DEF Spec, LastEapRight

-----------------------------------------------------------------------------
(* The durations. *)

(* For a later frame whose microseconds differ the report says the whole   *)
(* milliseconds that passed: borrowing a second in report_to_file and      *)
(* writing two numbers behind each other loses nothing.                    *)
THEOREM GapsAreRight ==
  ASSUME NEW event \in TimeStamps, NEW time \in TimeStamps,
         Microseconds(event) < Microseconds(time),
         event.usec # time.usec
  PROVE  GapRight(event, time)
<1> DEFINE ds == time.sec - event.sec
           du == time.usec - event.usec
<1>1. /\ ds \in Int /\ du \in Int
      /\ -Million < du /\ du < Million /\ du # 0
  BY SMT DEF TimeStamps, Million
<1>2. Elapsed(event, time) = (ds * Million + du) \div 1000
  BY SMT DEF Elapsed, Microseconds, TimeStamps, Million
<1>3. ds * Million + du > 0
  BY SMT DEF Microseconds, TimeStamps, Million
<1>4. CASE du > 0
  <2>1. ds >= 0
    BY SMT, <1>1, <1>3, <1>4 DEF Million
  <2>2. du \div 1000 \in 0..999
    BY SMT, <1>1, <1>4 DEF Million
  <2>3. report_to_file(event, time) = ReadAs(ds, du \div 1000)
    BY SMT, <1>4 DEF report_to_file, WrittenSeconds, WrittenMilliseconds, TimeStamps
  <2>4. ReadAs(ds, du \div 1000) = ds * 1000 + du \div 1000
    BY SMT, <1>1, <2>1, <2>2 DEF ReadAs
  <2>5. (ds * Million + du) \div 1000 = ds * 1000 + du \div 1000
    BY SMT, <1>1 DEF Million
  <2> QED BY SMT, <1>2, <2>3, <2>4, <2>5 DEF GapRight
<1>5. CASE ~(du > 0)
  <2>1. ds - 1 >= 0
    BY SMT, <1>1, <1>3, <1>5 DEF Million
  <2>2. (du + Million) \div 1000 \in 0..999
    BY SMT, <1>1, <1>5 DEF Million
  <2>3. report_to_file(event, time) = ReadAs(ds - 1, (du + Million) \div 1000)
    BY SMT, <1>5 DEF report_to_file, WrittenSeconds, WrittenMilliseconds, TimeStamps
  <2>4. ReadAs(ds - 1, (du + Million) \div 1000) = (ds - 1) * 1000 + (du + Million) \div 1000
    BY SMT, <1>1, <2>1, <2>2 DEF ReadAs
  <2>5. (ds * Million + du) \div 1000 = (ds - 1) * 1000 + (du + Million) \div 1000
    BY SMT, <1>1 DEF Million
  <2> QED BY SMT, <1>2, <2>3, <2>4, <2>5 DEF GapRight
<1> QED BY SMT, <1>4, <1>5

(* With equal microseconds 1000 milliseconds are written behind the        *)
(* seconds: two seconds or more become more than ten.                      *)
THEOREM EqualMicrosecondsMislead ==
  ASSUME NEW event \in TimeStamps, NEW time \in TimeStamps,
         event.usec = time.usec,
         time.sec >= event.sec + 2
  PROVE  report_to_file(event, time) = (time.sec - event.sec - 1) * 10000 + 1000
<1>1. WrittenSeconds(event, time) = time.sec - event.sec - 1
  BY SMT DEF WrittenSeconds, TimeStamps, Million
<1>2. WrittenMilliseconds(event, time) = 1000
  BY SMT DEF WrittenMilliseconds, TimeStamps, Million
<1> QED BY SMT, <1>1, <1>2 DEF report_to_file, ReadAs, TimeStamps
=============================================================================
