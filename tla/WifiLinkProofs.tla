---------------------------- MODULE WifiLinkProofs ----------------------------
(***************************************************************************)
(* What WifiInterface guarantees for any objects that run their operations *)
(* at once: a scan that succeeds is no older than its call, where one      *)
(* interface is scanned, a connect that succeeds was authenticated by the  *)
(* access point it asked for as far as strcmp tells addresses, and by that *)
(* one where it tells all of them, and the list a scan makes has each      *)
(* network and each access point once, however far it came.                *)
(***************************************************************************)
EXTENDS WifiLink, TLAPS

Messages == [kind : Kinds, ifc : Interfaces, ap : Named, status : {0, 1}]
ScanStates == {"trigger", "ack", "event", "dump", "list"}
States == {"unused", "idle", "auth", "assoc", "leave", "done", "crashed"} \cup ScanStates

LinkTypes ==
    /\ pc \in [Objects -> States]
    /\ done \in [Objects -> BOOLEAN]
    /\ status \in [Objects -> {-1, 0, 1}]
    /\ ret \in [Objects -> {Pending, -1, 0, 1}]
    /\ member \in [Objects -> {"none", "scan", "mlme"}]
    /\ queue \in [Objects -> Seq(Messages)]
    /\ began \in [Objects -> [Interfaces -> Nat]]
    /\ scanning \subseteq Interfaces
    /\ scans \in [Interfaces -> Nat]
    /\ asked \in [Interfaces -> [kind : {"none", "auth", "assoc", "leave"}, ap : Named]]

(* An object is in the states of its operation; nothing reaches it before. *)
Running ==
    \A o \in Objects :
        /\ pc[o] \in ScanStates => Op[o] = "scan"
        /\ pc[o] \in {"auth", "assoc"} => Op[o] = "connect"
        /\ pc[o] \in {"unused", "idle"} =>
             member[o] = "none" /\ queue[o] = <<>> /\ done[o] = FALSE /\ status[o] = -1 /\ ret[o] = Pending

Unread(o, m) == \E n \in DOMAIN queue[o] : queue[o][n] = m

(* The end of a scan that is unread, was read or was returned is of a scan *)
(* that was completed after the object joined the group.                   *)
Scanned == Shared \cup {IfOf[o] : o \in {p \in Objects : Op[p] = "scan"}}
OneScanned == \A o \in Objects : Op[o] = "scan" => Scanned \subseteq {IfOf[o]}

Recent(o) == scans[IfOf[o]] > began[o][IfOf[o]]
ScanInv ==
    /\ scanning \subseteq Scanned
    /\ \A o \in Objects : Op[o] = "scan" =>
         /\ began[o][IfOf[o]] <= scans[IfOf[o]]
         /\ \A m : Unread(o, m) /\ m.kind = "results" => Recent(o)
         /\ status[o] = 0 => Recent(o)
         /\ ret[o] = 0 => Recent(o)

(* An authentication that is unread was granted; a connect is past its own *)
(* only when one was that strcmp does not tell from it.                    *)
Granted(o) == \E g \in granted : Alike(g[1], IfOf[o]) /\ Alike(g[2], Target[o])
Accepted(o) == pc[o] = "auth" /\ done[o] = TRUE /\ status[o] = 0
GrantInv ==
    \A o \in Objects :
        /\ \A m : Unread(o, m) /\ m.kind = "auth" /\ m.status = 0 => <<m.ifc, m.ap>> \in granted
        /\ Accepted(o) => Granted(o)
        /\ pc[o] = "assoc" => Granted(o)
        /\ Op[o] = "connect" /\ ret[o] = 0 => Granted(o)

LinkInv == LinkTypes /\ Running /\ GrantInv
-----------------------------------------------------------------------------
(* At first nothing runs. *)
LEMMA InitLink == Init => LinkInv /\ ScanInv
  <1> SUFFICES ASSUME Init PROVE LinkInv /\ ScanInv
    OBVIOUS
  <1>1. PICK crew \in Crews : pc = [o \in Objects |-> IF o \in crew THEN "idle" ELSE "unused"]
    BY DEF Init
  <1>2. LinkTypes
    BY <1>1 DEF Init, LinkTypes, States, NoAsk, Down, Named, Pending
  <1>3. \A o \in Objects : pc[o] \in {"idle", "unused"} /\ queue[o] = <<>> /\ status[o] = -1 /\ ret[o] = Pending
                           /\ member[o] = "none" /\ done[o] = FALSE
    BY <1>1 DEF Init
  <1>4. Running
    BY <1>3 DEF Running, ScanStates
  <1>5. \A o \in Objects : \A m : ~Unread(o, m)
    BY <1>3 DEF Unread
  <1>6. GrantInv
    BY <1>3, <1>5 DEF GrantInv, Accepted, Pending
  <1>7. ScanInv
    <2>1. \A o \in Objects : began[o][IfOf[o]] <= scans[IfOf[o]]
      BY LinkAssumption DEF Init
    <2> QED BY <1>3, <1>5, <2>1 DEF Init, ScanInv, Pending
  <1> QED BY <1>2, <1>4, <1>6, <1>7 DEF LinkInv
-----------------------------------------------------------------------------
(* Reading a message, answering and delivering one. *)

LEMMA TakenUnread ==
  ASSUME queue \in [Objects -> Seq(Messages)], NEW o \in Objects, Arrived(o), Taken(o)
  PROVE  /\ queue' \in [Objects -> Seq(Messages)]
         /\ First(o) \in Messages /\ Unread(o, First(o))
         /\ \A p \in Objects : queue[p] = <<>> => queue'[p] = <<>>
         /\ \A p \in Objects : \A m : Unread(p, m)' => Unread(p, m)
  <1>1. queue[o] \in Seq(Messages) /\ queue[o] # <<>>
    BY DEF Arrived
  <1>2. \A p \in Objects : queue'[p] = IF p = o THEN Tail(queue[o]) ELSE queue[p]
    BY DEF Taken
  <1>3. queue' \in [Objects -> Seq(Messages)]
    BY <1>1 DEF Taken
  <1>4. First(o) \in Messages /\ Unread(o, First(o))
    BY <1>1 DEF First, Unread
  <1>5. \A n \in DOMAIN Tail(queue[o]) : Tail(queue[o])[n] = queue[o][n + 1] /\ n + 1 \in DOMAIN queue[o]
    BY <1>1
  <1>6. \A p \in Objects : \A m : Unread(p, m)' => Unread(p, m)
    BY <1>2, <1>5 DEF Unread
  <1> QED BY <1>1, <1>2, <1>3, <1>4, <1>6

Gains(s, m, t) == s \in Seq(Messages) /\ m \in Messages /\ t = Append(s, m)
OneOf(s, m, t) == t \in Seq(Messages) /\ \A n \in DOMAIN t : t[n] = m \/ \E k \in DOMAIN s : t[n] = s[k]
LEMMA Gained == ASSUME NEW s, NEW m, NEW t, Gains(s, m, t) PROVE OneOf(s, m, t)
  <1>1. t \in Seq(Messages) /\ DOMAIN t = DOMAIN s \cup {Len(s) + 1} /\ t[Len(s) + 1] = m
        /\ \A n \in DOMAIN s : t[n] = s[n]
    BY DEF Gains
  <1> QED BY <1>1 DEF OneOf

LEMMA AnsweredUnread ==
  ASSUME queue \in [Objects -> Seq(Messages)], NEW o \in Objects, NEW msg \in Messages, Answered(o, msg)
  PROVE  /\ queue' \in [Objects -> Seq(Messages)]
         /\ \A p \in Objects : p # o => queue'[p] = queue[p]
         /\ \A p \in Objects : \A m : Unread(p, m)' => Unread(p, m) \/ m = msg
  <1>1. PICK s, t : s = queue[o] /\ t = Append(s, msg) /\ Gains(s, msg, t)
    BY DEF Gains
  <1>2. OneOf(s, msg, t)
    BY <1>1, Gained
  <1>3. queue' = [queue EXCEPT ![o] = t]
    BY <1>1 DEF Answered
  <1>4. queue' \in [Objects -> Seq(Messages)] /\ \A p \in Objects : queue'[p] = IF p = o THEN t ELSE queue[p]
    BY <1>2, <1>3 DEF OneOf
  <1>5. \A p \in Objects : \A m : Unread(p, m)' => Unread(p, m) \/ m = msg
    <2>1. \A m : Unread(o, m)' => Unread(o, m) \/ m = msg
      <3>1. queue'[o] = t
        BY <1>4
      <3> QED BY <1>1, <1>2, <3>1 DEF Unread, OneOf
    <2>2. ASSUME NEW p \in Objects, p # o PROVE \A m : Unread(p, m)' => Unread(p, m)
      BY <1>4, <2>2 DEF Unread
    <2> QED BY <2>1, <2>2
  <1> QED BY <1>4, <1>5

LEMMA DeliveredUnread ==
  ASSUME queue \in [Objects -> Seq(Messages)], NEW group, NEW msg \in Messages, Delivered(group, msg)
  PROVE  /\ queue' \in [Objects -> Seq(Messages)]
         /\ \A p \in Objects : member[p] # group => queue'[p] = queue[p]
         /\ \A p \in Objects : \A m : Unread(p, m)' => Unread(p, m) \/ (m = msg /\ member[p] = group)
  <1>1. \A p \in Objects : queue'[p] = IF member[p] = group THEN Append(queue[p], msg) ELSE queue[p]
    BY DEF Delivered
  <1>2. queue' \in [Objects -> Seq(Messages)]
    BY DEF Delivered
  <1>3. ASSUME NEW p \in Objects, member[p] = group
        PROVE  \A m : Unread(p, m)' => Unread(p, m) \/ m = msg
    <2>1. PICK s, t : s = queue[p] /\ t = queue'[p] /\ Gains(s, msg, t)
      BY <1>1, <1>3 DEF Gains
    <2>2. OneOf(s, msg, t)
      BY <2>1, Gained
    <2> QED BY <2>1, <2>2 DEF Unread, OneOf
  <1>4. \A p \in Objects : \A m : Unread(p, m)' => Unread(p, m) \/ (m = msg /\ member[p] = group)
    BY <1>1, <1>3 DEF Unread
  <1> QED BY <1>1, <1>2, <1>4

LEMMA Replies ==
  ASSUME NEW o \in Objects, NEW kind \in {"ack", "busy", "error"}
  PROVE  Reply(kind, o) \in Messages /\ Reply(kind, o).kind = kind
  BY LinkAssumption DEF Reply, Msg, Messages, Kinds, Named
-----------------------------------------------------------------------------
(* What a step of an object or of the kernel may do, action by action, is  *)
(* summarised here: which messages are new, and what else it sets.         *)

KernelSpeaks(m) == m.kind \in {"results", "aborted", "auth", "assoc", "leave", "authTimeout", "assocTimeout"}

(* Nothing but a refusal or an acknowledgement is new in a queue. *)
QueueQuiet ==
  /\ queue' \in [Objects -> Seq(Messages)]
  /\ \A p \in Objects : pc[p] \in {"unused", "idle"} /\ pc'[p] = pc[p] /\ queue[p] = <<>> => queue'[p] = <<>>
  /\ \A p \in Objects : \A m : Unread(p, m)' => Unread(p, m) \/ m.kind \in {"ack", "busy", "error"}

LEMMA QuietUnchanged ==
  ASSUME queue \in [Objects -> Seq(Messages)], queue' = queue PROVE QueueQuiet
  BY DEF QueueQuiet, Unread
LEMMA QuietTaken ==
  ASSUME queue \in [Objects -> Seq(Messages)], NEW o \in Objects, Arrived(o), Taken(o)
  PROVE  QueueQuiet
  BY TakenUnread DEF QueueQuiet
LEMMA QuietAnswered ==
  ASSUME queue \in [Objects -> Seq(Messages)], NEW o \in Objects,
         pc[o] \notin {"unused", "idle"} \/ pc'[o] # pc[o],
         NEW kind \in {"ack", "busy", "error"}, Answered(o, Reply(kind, o))
  PROVE  QueueQuiet
  <1>1. PICK msg : msg = Reply(kind, o)
    OBVIOUS
  <1>2. msg \in Messages /\ msg.kind = kind
    BY <1>1, Replies
  <1>3. /\ queue' \in [Objects -> Seq(Messages)]
        /\ \A p \in Objects : p # o => queue'[p] = queue[p]
        /\ \A p \in Objects : \A m : Unread(p, m)' => Unread(p, m) \/ m = msg
    BY <1>1, <1>2, AnsweredUnread
  <1> QED BY <1>2, <1>3 DEF QueueQuiet

LEMMA AsksQuiet ==
  ASSUME LinkTypes, NEW o \in Objects, NEW kind \in {"auth", "assoc", "leave"}, Asks(o, kind),
         pc[o] \notin {"unused", "idle"} \/ pc'[o] # pc[o]
  PROVE  /\ QueueQuiet
         /\ asked' \in [Interfaces -> [kind : {"none", "auth", "assoc", "leave"}, ap : Named]]
  <1>1. CASE asked' = [asked EXCEPT ![IfOf[o]] = [kind |-> kind, ap |-> Target[o]]] /\ UNCHANGED queue
    <2>1. [kind |-> kind, ap |-> Target[o]] \in [kind : {"none", "auth", "assoc", "leave"}, ap : Named]
      BY LinkAssumption DEF Named
    <2> QED BY <1>1, <2>1, QuietUnchanged DEF LinkTypes
  <1>2. CASE Answered(o, Reply("error", o)) /\ UNCHANGED asked
    BY <1>2, QuietAnswered DEF LinkTypes
  <1> QED BY <1>1, <1>2 DEF Asks

(* The steps of an operation. *)
LEMMA CallQuiet ==
  ASSUME LinkTypes, NEW o \in Objects, CallStep(o)
  PROVE  /\ QueueQuiet
         /\ asked' \in [Interfaces -> [kind : {"none", "auth", "assoc", "leave"}, ap : Named]]
         /\ UNCHANGED scans /\ UNCHANGED granted
         /\ pc[o] \notin {"unused", "done", "crashed"}
         /\ \A p \in Objects \ {o} : /\ pc'[p] = pc[p] \/ pc'[p] = "crashed"
                                     /\ done'[p] = done[p] /\ status'[p] = status[p] /\ ret'[p] = ret[p]
                                     /\ member'[p] = member[p] /\ began'[p] = began[p]
  <1>1. CASE Scan(o)
    BY <1>1, QuietUnchanged DEF Scan, scanVars, linkVars, LinkTypes
  <1>2. CASE Trigger(o)
    <2>1. QueueQuiet
      BY <1>2, QuietAnswered DEF Trigger, LinkTypes
    <2> QED BY <1>2, <2>1 DEF Trigger, linkVars, LinkTypes
  <1>3. CASE ScanEvent(o)
    BY <1>3, QuietTaken DEF ScanEvent, scanVars, linkVars, LinkTypes
  <1>4. CASE Acknowledged(o)
    BY <1>4, QuietTaken DEF Acknowledged, scanVars, linkVars, LinkTypes
  <1>5. CASE Refused(o)
    BY <1>5, QuietTaken DEF Refused, Returns, scanVars, linkVars, LinkTypes
  <1>6. CASE ScanEnded(o)
    BY <1>6, QuietUnchanged DEF ScanEnded, scanVars, linkVars, LinkTypes
  <1>7. CASE Dump(o)
    BY <1>7, QuietUnchanged DEF Dump, linkVars, LinkTypes
  <1>16. CASE ListNext(o)
    BY <1>16, QuietUnchanged DEF ListNext, linkVars, LinkTypes
  <1>17. CASE ListEnds(o)
    BY <1>17, QuietUnchanged DEF ListEnds, Returns, scanVars, linkVars, LinkTypes
  <1>8. CASE Connect(o)
    <2>1. pc'[o] # pc[o]
      BY <1>8 DEF Connect, LinkTypes
    <2> QED BY <1>8, <2>1, AsksQuiet DEF Connect, scanVars, LinkTypes
  <1>9. CASE Frame(o)
    BY <1>9, QuietTaken DEF Frame, scanVars, linkVars, LinkTypes
  <1>10. CASE PassedOver(o)
    BY <1>10, QuietTaken DEF PassedOver, callVars, scanVars, linkVars, LinkTypes
  <1>18. CASE TimedOut(o)
    BY <1>18, QuietTaken DEF TimedOut, scanVars, linkVars, LinkTypes
  <1>11. CASE Authenticated(o)
    BY <1>11, AsksQuiet DEF Authenticated, scanVars, LinkTypes
  <1>12. CASE NotAuthenticated(o)
    BY <1>12, QuietUnchanged DEF NotAuthenticated, Returns, scanVars, linkVars, LinkTypes
  <1>13. CASE Associated(o)
    BY <1>13, QuietUnchanged DEF Associated, Returns, scanVars, linkVars, LinkTypes
  <1>14. CASE Disconnect(o)
    <2>1. CASE link[IfOf[o]].state = "down"
      BY <1>14, <2>1, QuietUnchanged DEF Disconnect, Returns, scanVars, LinkTypes
    <2>2. CASE link[IfOf[o]].state # "down"
      <3>1. pc'[o] # pc[o] /\ Asks(o, "leave")
        BY <1>14, <2>2 DEF Disconnect, LinkTypes
      <3> QED BY <1>14, <2>2, <3>1, AsksQuiet DEF Disconnect, scanVars, LinkTypes
    <2> QED BY <2>1, <2>2
  <1>15. CASE LeaveRead(o)
    <2>1. \A p \in Objects : pc'[p] = pc[p] \/ pc'[p] = "crashed"
      BY <1>15 DEF LeaveRead
    <2> QED BY <1>15, <2>1, QuietTaken DEF LeaveRead, scanVars, linkVars, LinkTypes
  <1> QED BY <1>1, <1>2, <1>3, <1>4, <1>5, <1>6, <1>7, <1>8, <1>9, <1>10, <1>11, <1>12, <1>13, <1>14, <1>15, <1>16, <1>17, <1>18
          DEF CallStep

(* What an operation makes of itself. *)
Verdict(o) ==
  /\ pc'[o] \in States /\ done'[o] \in BOOLEAN /\ status'[o] \in {-1, 0, 1} /\ ret'[o] \in {Pending, -1, 0, 1}
  /\ pc'[o] \in ScanStates => Op[o] = "scan"
  /\ pc'[o] \in {"auth", "assoc"} => Op[o] = "connect"
  /\ pc'[o] \notin {"unused", "idle"}

CallTyped ==
  /\ pc' \in [Objects -> States] /\ done' \in [Objects -> BOOLEAN]
  /\ status' \in [Objects -> {-1, 0, 1}] /\ ret' \in [Objects -> {Pending, -1, 0, 1}]
  /\ member' \in [Objects -> {"none", "scan", "mlme"}] /\ began' \in [Objects -> [Interfaces -> Nat]]
  /\ scanning' \subseteq Interfaces

LEMMA CallTypes ==
  ASSUME LinkTypes, Running, NEW o \in Objects, CallStep(o)
  PROVE  CallTyped /\ Verdict(o)
  <1> USE DEF LinkTypes, Running, CallTyped, Verdict, States, ScanStates, Pending
  <1>1. CASE Scan(o)
    BY <1>1 DEF Scan, scanVars
  <1>2. CASE Trigger(o)
    <2>1. scanning' = scanning \/ scanning' = scanning \cup {IfOf[o]}
      BY <1>2 DEF Trigger
    <2>2. scanning' \subseteq Interfaces
      BY <2>1, LinkAssumption
    <2> QED BY <1>2, <2>2 DEF Trigger
  <1>3. CASE ScanEvent(o)
    BY <1>3 DEF ScanEvent, scanVars
  <1>4. CASE Acknowledged(o)
    BY <1>4 DEF Acknowledged, scanVars
  <1>5. CASE Refused(o)
    BY <1>5 DEF Refused, Returns, scanVars
  <1>6. CASE ScanEnded(o)
    BY <1>6 DEF ScanEnded, scanVars
  <1>7. CASE Dump(o)
    BY <1>7 DEF Dump
  <1>16. CASE ListNext(o)
    BY <1>16 DEF ListNext
  <1>17. CASE ListEnds(o)
    BY <1>17 DEF ListEnds, Returns, scanVars
  <1>8. CASE Connect(o)
    BY <1>8 DEF Connect, scanVars
  <1>9. CASE Frame(o)
    <2>1. First(o) \in Messages
      BY <1>9, TakenUnread DEF Frame
    <2>2. First(o).status \in {-1, 0, 1}
      BY <2>1 DEF Messages
    <2> QED BY <1>9, <2>2 DEF Frame, scanVars
  <1>10. CASE PassedOver(o)
    BY <1>10 DEF PassedOver, callVars, scanVars
  <1>18. CASE TimedOut(o)
    BY <1>18 DEF TimedOut, scanVars
  <1>11. CASE Authenticated(o)
    BY <1>11 DEF Authenticated, scanVars
  <1>12. CASE NotAuthenticated(o)
    BY <1>12 DEF NotAuthenticated, Returns, scanVars
  <1>13. CASE Associated(o)
    BY <1>13 DEF Associated, Returns, scanVars
  <1>14. CASE Disconnect(o)
    <2>1. /\ \/ pc' = [pc EXCEPT ![o] = "done"] /\ ret' = [ret EXCEPT ![o] = -1] /\ member' = member
             \/ pc' = [pc EXCEPT ![o] = "leave"] /\ ret' = ret /\ member' = [member EXCEPT ![o] = "mlme"]
          /\ UNCHANGED done /\ UNCHANGED status /\ UNCHANGED began /\ UNCHANGED scanning
      BY <1>14 DEF Disconnect, Returns, scanVars
    <2> QED BY <2>1
  <1>15. CASE LeaveRead(o)
    BY <1>15 DEF LeaveRead, scanVars
  <1> QED BY <1>1, <1>2, <1>3, <1>4, <1>5, <1>6, <1>7, <1>8, <1>9, <1>10, <1>11, <1>12, <1>13, <1>14, <1>15, <1>16, <1>17, <1>18
          DEF CallStep

LEMMA CallRuns ==
  ASSUME LinkTypes, Running, NEW o \in Objects, CallStep(o)
  PROVE  LinkTypes' /\ Running'
  <1>1. CallTyped /\ Verdict(o)
    BY CallTypes
  <1>2. /\ QueueQuiet
        /\ asked' \in [Interfaces -> [kind : {"none", "auth", "assoc", "leave"}, ap : Named]]
        /\ UNCHANGED scans
        /\ \A p \in Objects \ {o} : /\ pc'[p] = pc[p] \/ pc'[p] = "crashed"
                                    /\ done'[p] = done[p] /\ status'[p] = status[p] /\ ret'[p] = ret[p]
                                    /\ member'[p] = member[p] /\ began'[p] = began[p]
    BY CallQuiet
  <1>3. LinkTypes'
    BY <1>1, <1>2 DEF LinkTypes, CallTyped, QueueQuiet
  <1>4. Running'
    <2> SUFFICES ASSUME NEW p \in Objects
                 PROVE  /\ pc'[p] \in ScanStates => Op[p] = "scan"
                        /\ pc'[p] \in {"auth", "assoc"} => Op[p] = "connect"
                        /\ pc'[p] \in {"unused", "idle"} =>
                             /\ member'[p] = "none" /\ queue'[p] = <<>> /\ done'[p] = FALSE
                             /\ status'[p] = -1 /\ ret'[p] = Pending
      BY DEF Running
    <2>1. CASE p = o
      BY <1>1, <2>1 DEF Verdict
    <2>2. CASE p # o /\ pc'[p] = pc[p]
      BY <1>2, <2>2 DEF Running, QueueQuiet
    <2>3. CASE p # o /\ pc'[p] = "crashed"
      BY <2>3 DEF ScanStates
    <2> QED BY <1>2, <2>1, <2>2, <2>3
  <1> QED BY <1>3, <1>4
-----------------------------------------------------------------------------
(* The steps of the kernel. *)

LEMMA KernelRuns ==
  ASSUME LinkTypes, Running, NEW i \in Interfaces, KernelScan(i) \/ KernelLink(i) \/ OtherScan(i)
  PROVE  /\ LinkTypes' /\ Running' /\ UNCHANGED callVars /\ UNCHANGED member
         /\ granted \subseteq granted' /\ \A j \in Interfaces : scans'[j] >= scans[j]
         /\ scanning' \subseteq scanning \cup Shared
         /\ \A p \in Objects : \A m : Unread(p, m)' =>
              \/ Unread(p, m)
              \/ m.kind = "results" /\ i \in scanning /\ scans'[i] = scans[i] + 1
              \/ m.kind \notin {"results", "auth"}
              \/ m.kind = "auth" /\ (m.status = 0 => <<m.ifc, m.ap>> \in granted')
  <1> DEFINE Told(group, msg) ==
        /\ queue' \in [Objects -> Seq(Messages)]
        /\ \A p \in Objects : member[p] # group => queue'[p] = queue[p]
        /\ \A p \in Objects : \A m : Unread(p, m)' => Unread(p, m) \/ (m = msg /\ member[p] = group)
  <1>0. ASSUME NEW kind \in Kinds, NEW ap \in Named, NEW st \in {0, 1}
        PROVE  LET msg == Msg(kind, i, ap, st)
               IN  msg \in Messages /\ msg.kind = kind /\ msg.ifc = i /\ msg.ap = ap /\ msg.status = st
    BY DEF Msg, Messages
  <1>1. ASSUME NEW group \in {"scan", "mlme"}, UNCHANGED <<callVars, member>>, queue' \in [Objects -> Seq(Messages)],
               \A p \in Objects : member[p] # group => queue'[p] = queue[p],
               scanning' \subseteq Interfaces, scans' \in [Interfaces -> Nat],
               asked' \in [Interfaces -> [kind : {"none", "auth", "assoc", "leave"}, ap : Named]]
        PROVE  LinkTypes' /\ Running'
    BY <1>1 DEF LinkTypes, Running, callVars
  <1>2. CASE OtherScan(i)
    <2>1. \A p \in Objects : \A m : Unread(p, m)' => Unread(p, m)
      BY <1>2 DEF OtherScan, Unread
    <2>2. UNCHANGED <<callVars, member, queue, scans, asked, granted>> /\ scanning' \subseteq scanning \cup Shared
      BY <1>2 DEF OtherScan, linkVars
    <2>3. LinkTypes' /\ Running'
      BY <1>1, <2>2, LinkAssumption DEF LinkTypes
    <2> QED BY <2>1, <2>2, <2>3 DEF LinkTypes
  <1>3. CASE ScanDone(i)
    <2>1. PICK msg : msg = Msg("results", i, Down.ap, 0) /\ Delivered("scan", msg)
      BY <1>3 DEF ScanDone
    <2>2. msg \in Messages /\ msg.kind = "results"
      BY <1>0, <2>1 DEF Kinds, Named
    <2>3. Told("scan", msg)
      BY <2>1, <2>2, DeliveredUnread DEF LinkTypes
    <2>4. UNCHANGED <<callVars, member, asked, granted>> /\ scanning' = scanning \ {i} /\ i \in scanning
          /\ scans' = [scans EXCEPT ![i] = @ + 1]
      BY <1>3 DEF ScanDone, linkVars
    <2>5. scans' \in [Interfaces -> Nat] /\ scans'[i] = scans[i] + 1 /\ \A j \in Interfaces : scans'[j] >= scans[j]
      BY <2>4 DEF LinkTypes
    <2>6. LinkTypes' /\ Running'
      BY <1>1, <2>3, <2>4, <2>5 DEF LinkTypes
    <2> QED BY <2>2, <2>3, <2>4, <2>5, <2>6
  <1>4. CASE ScanAborted(i)
    <2>1. PICK msg : msg = Msg("aborted", i, Down.ap, 0) /\ Delivered("scan", msg)
      BY <1>4 DEF ScanAborted
    <2>2. msg \in Messages /\ msg.kind = "aborted"
      BY <1>0, <2>1 DEF Kinds, Named
    <2>3. Told("scan", msg)
      BY <2>1, <2>2, DeliveredUnread DEF LinkTypes
    <2>4. UNCHANGED <<callVars, member, asked, granted, scans>> /\ scanning' = scanning \ {i}
      BY <1>4 DEF ScanAborted, linkVars
    <2>5. LinkTypes' /\ Running'
      BY <1>1, <2>3, <2>4 DEF LinkTypes
    <2> QED BY <2>2, <2>3, <2>4, <2>5 DEF LinkTypes
  <1>5. CASE Answer(i)
    <2>0. PICK ask : ask = asked[i]
      OBVIOUS
    <2>1. PICK st \in {0, 1} :
            /\ ask = asked[i] /\ ask.kind # "none" /\ asked' = [asked EXCEPT ![i] = NoAsk]
            /\ Delivered("mlme", Msg(ask.kind, i, ask.ap, st))
            /\ granted' = IF ask.kind = "auth" /\ st = 0 THEN granted \cup {<<i, ask.ap>>} ELSE granted
      <3>1. PICK st \in IF ask.kind = "leave" THEN {0} ELSE {0, 1} :
              /\ Delivered("mlme", Msg(ask.kind, i, ask.ap, st))
              /\ granted' = IF ask.kind = "auth" /\ st = 0 THEN granted \cup {<<i, ask.ap>>} ELSE granted
        BY <1>5, <2>0 DEF Answer
      <3>2. ask.kind # "none" /\ asked' = [asked EXCEPT ![i] = NoAsk]
        BY <1>5, <2>0 DEF Answer
      <3> QED BY <2>0, <3>1, <3>2
    <2>2. ask.kind \in {"auth", "assoc", "leave"} /\ ask.ap \in Named
      BY <2>1 DEF LinkTypes
    <2>3. PICK msg : msg = Msg(ask.kind, i, ask.ap, st) /\ Delivered("mlme", msg)
      BY <2>1
    <2>4. msg \in Messages /\ msg.kind = ask.kind /\ msg.ifc = i /\ msg.ap = ask.ap /\ msg.status = st
      BY <1>0, <2>2, <2>3 DEF Kinds
    <2>5. Told("mlme", msg)
      BY <2>3, <2>4, DeliveredUnread DEF LinkTypes
    <2>6. UNCHANGED <<callVars, member, scanVars>>
      BY <1>5 DEF Answer
    <2>7. asked' \in [Interfaces -> [kind : {"none", "auth", "assoc", "leave"}, ap : Named]]
      BY <2>1 DEF LinkTypes, NoAsk, Named, Down
    <2>8. LinkTypes' /\ Running'
      BY <1>1, <2>5, <2>6, <2>7 DEF LinkTypes, scanVars
    <2>9. \A m : m = msg => \/ m.kind \notin {"results", "auth"}
                            \/ m.kind = "auth" /\ (m.status = 0 => <<m.ifc, m.ap>> \in granted')
      BY <2>1, <2>2, <2>4
    <2>10. granted \subseteq granted' /\ \A j \in Interfaces : scans'[j] >= scans[j]
      BY <2>1, <2>6 DEF scanVars, LinkTypes
    <2> QED BY <2>5, <2>6, <2>8, <2>9, <2>10 DEF scanVars
  <1>6. CASE AnswerTimesOut(i)
    <2>1. PICK ask, kind : /\ ask = asked[i] /\ kind = TimeoutKind(ask.kind)
                           /\ Delivered("mlme", Msg(kind, i, ask.ap, 1))
      BY <1>6 DEF AnswerTimesOut
    <2>2. ask.ap \in Named /\ kind \in {"authTimeout", "assocTimeout"}
      BY <2>1 DEF LinkTypes, TimeoutKind
    <2>3. PICK msg : msg = Msg(kind, i, ask.ap, 1) /\ Delivered("mlme", msg)
      BY <2>1
    <2>4. msg \in Messages /\ msg.kind \in {"authTimeout", "assocTimeout"}
      BY <1>0, <2>2, <2>3 DEF Kinds
    <2>5. Told("mlme", msg)
      BY <2>3, <2>4, DeliveredUnread DEF LinkTypes
    <2>6. UNCHANGED <<callVars, member, scanVars, granted>> /\ asked' = [asked EXCEPT ![i] = NoAsk]
      BY <1>6 DEF AnswerTimesOut
    <2>7. asked' \in [Interfaces -> [kind : {"none", "auth", "assoc", "leave"}, ap : Named]]
      BY <2>6 DEF LinkTypes, NoAsk, Named, Down
    <2>8. LinkTypes' /\ Running'
      BY <1>1, <2>5, <2>6, <2>7 DEF LinkTypes, scanVars
    <2> QED BY <2>4, <2>5, <2>6, <2>8 DEF scanVars, LinkTypes
  <1> QED BY <1>2, <1>3, <1>4, <1>5, <1>6 DEF KernelScan, KernelLink

-----------------------------------------------------------------------------
(* What a scan returns. *)

(* An object that scans reads the end of a scan, or returns what it read.  *)
ScansRightly(o) ==
  /\ scanning' \subseteq scanning \cup Scanned
  /\ Op[o] = "scan" =>
       /\ began'[o] = began[o] \/ (pc[o] = "idle" /\ began'[o] = scans)
       /\ \/ status'[o] = status[o] \/ status'[o] # 0
          \/ \E m : Unread(o, m) /\ m.kind = "results" /\ status'[o] = 0
       /\ ret'[o] = ret[o] \/ ret'[o] # 0 \/ status[o] = 0
  /\ pc[o] = "idle" => status'[o] # 0 /\ ret'[o] # 0 

LEMMA CallScans ==
  ASSUME LinkTypes, Running, NEW o \in Objects, CallStep(o)
  PROVE  ScansRightly(o)
  <1> USE DEF LinkTypes, Running, ScanStates, States, ScansRightly, Pending
  <1>1. CASE Scan(o)
    BY <1>1 DEF Scan, scanVars
  <1>2. CASE Trigger(o)
    <2>1. Op[o] = "scan" /\ pc[o] = "trigger"
      BY <1>2 DEF Trigger
    <2>2. scanning' = scanning \/ scanning' = scanning \cup {IfOf[o]}
      BY <1>2 DEF Trigger
    <2>3. IfOf[o] \in Scanned
      BY <2>1 DEF Scanned
    <2> QED BY <1>2, <2>1, <2>2, <2>3 DEF Trigger
  <1>3. CASE ScanEvent(o)
    <2>1. PICK m : m = First(o) /\ Unread(o, m) /\ m.kind \in {"results", "aborted"}
      BY <1>3, TakenUnread DEF ScanEvent
    <2>2. status' = [status EXCEPT ![o] = IF m.kind = "aborted" THEN 1 ELSE 0]
      BY <1>3, <2>1 DEF ScanEvent
    <2> QED BY <1>3, <2>1, <2>2 DEF ScanEvent, scanVars
  <1>4. CASE Acknowledged(o)
    BY <1>4 DEF Acknowledged, scanVars
  <1>5. CASE Refused(o)
    BY <1>5 DEF Refused, Returns, scanVars
  <1>6. CASE ScanEnded(o)
    BY <1>6 DEF ScanEnded, scanVars
  <1>7. CASE Dump(o)
    BY <1>7 DEF Dump
  <1>16. CASE ListNext(o)
    BY <1>16 DEF ListNext
  <1>17. CASE ListEnds(o)
    BY <1>17 DEF ListEnds, Returns, scanVars
  <1>8. CASE Connect(o)
    BY <1>8 DEF Connect, scanVars
  <1>9. CASE Frame(o)
    BY <1>9 DEF Frame, scanVars
  <1>10. CASE PassedOver(o)
    BY <1>10 DEF PassedOver, callVars, scanVars
  <1>18. CASE TimedOut(o)
    BY <1>18 DEF TimedOut, scanVars
  <1>11. CASE Authenticated(o)
    BY <1>11 DEF Authenticated, scanVars
  <1>12. CASE NotAuthenticated(o)
    BY <1>12 DEF NotAuthenticated, Returns, scanVars
  <1>13. CASE Associated(o)
    BY <1>13 DEF Associated, Returns, scanVars
  <1>14. CASE Disconnect(o)
    <2>1. /\ ret' = ret \/ ret' = [ret EXCEPT ![o] = -1]
          /\ Op[o] = "disconnect" /\ pc[o] = "idle" /\ UNCHANGED status /\ UNCHANGED scanning
      BY <1>14 DEF Disconnect, Returns, scanVars
    <2> QED BY <2>1
  <1>15. CASE LeaveRead(o)
    BY <1>15 DEF LeaveRead, scanVars
  <1> QED BY <1>1, <1>2, <1>3, <1>4, <1>5, <1>6, <1>7, <1>8, <1>9, <1>10, <1>11, <1>12, <1>13, <1>14, <1>15, <1>16, <1>17, <1>18
          DEF CallStep

LEMMA CallKeepsScans ==
  ASSUME LinkTypes, Running, ScanInv, NEW o \in Objects, CallStep(o)
  PROVE  ScanInv'
  <1>1. ScansRightly(o)
    BY CallScans
  <1>2. /\ QueueQuiet
        /\ UNCHANGED scans
        /\ \A p \in Objects \ {o} : status'[p] = status[p] /\ ret'[p] = ret[p] /\ began'[p] = began[p]
    BY CallQuiet
  <1>3. scanning' \subseteq Scanned
    BY <1>1 DEF ScansRightly, ScanInv
  <1> SUFFICES ASSUME NEW p \in Objects, Op[p] = "scan"
               PROVE  /\ began'[p][IfOf[p]] <= scans'[IfOf[p]]
                      /\ \A m : Unread(p, m)' /\ m.kind = "results" => Recent(p)'
                      /\ status'[p] = 0 => Recent(p)'
                      /\ ret'[p] = 0 => Recent(p)'
    BY <1>3 DEF ScanInv
  <1>4. /\ began[p][IfOf[p]] <= scans[IfOf[p]]
        /\ \A m : Unread(p, m) /\ m.kind = "results" => Recent(p)
        /\ status[p] = 0 => Recent(p)
        /\ ret[p] = 0 => Recent(p)
    BY DEF ScanInv
  <1>5. \A m : Unread(p, m)' /\ m.kind = "results" => Unread(p, m)
    BY <1>2 DEF QueueQuiet
  <1>6. CASE began'[p] = began[p]
    <2>1. Recent(p)' <=> Recent(p)
      BY <1>2, <1>6 DEF Recent
    <2>2. status'[p] = 0 => Recent(p)
      BY <1>1, <1>2, <1>4 DEF ScansRightly
    <2>3. ret'[p] = 0 => Recent(p)
      BY <1>1, <1>2, <1>4 DEF ScansRightly
    <2> QED BY <1>2, <1>4, <1>5, <1>6, <2>1, <2>2, <2>3
  <1>7. CASE p = o /\ pc[o] = "idle" /\ began'[o] = scans
    <2>1. \A m : ~Unread(o, m)
      BY <1>7 DEF Running, Unread
    <2>2. began'[o][IfOf[o]] <= scans'[IfOf[o]]
      BY <1>2, <1>7, LinkAssumption DEF LinkTypes
    <2> QED BY <1>1, <1>5, <1>7, <2>1, <2>2 DEF ScansRightly
  <1> QED BY <1>1, <1>2, <1>6, <1>7 DEF ScansRightly

LEMMA KernelKeepsScans ==
  ASSUME OneScanned, LinkTypes, Running, ScanInv,
         NEW i \in Interfaces, KernelScan(i) \/ KernelLink(i) \/ OtherScan(i)
  PROVE  ScanInv'
  <1>1. /\ UNCHANGED callVars
        /\ \A j \in Interfaces : scans'[j] >= scans[j]
        /\ scanning' \subseteq scanning \cup Shared
        /\ \A p \in Objects : \A m : Unread(p, m)' /\ m.kind = "results" =>
             Unread(p, m) \/ (i \in scanning /\ scans'[i] = scans[i] + 1)
        /\ scans' \in [Interfaces -> Nat]
    BY KernelRuns DEF LinkTypes
  <1>2. scanning' \subseteq Scanned
    BY <1>1 DEF ScanInv, Scanned
  <1> SUFFICES ASSUME NEW p \in Objects, Op[p] = "scan"
               PROVE  /\ began'[p][IfOf[p]] <= scans'[IfOf[p]]
                      /\ \A m : Unread(p, m)' /\ m.kind = "results" => Recent(p)'
                      /\ status'[p] = 0 => Recent(p)'
                      /\ ret'[p] = 0 => Recent(p)'
    BY <1>2 DEF ScanInv
  <1>3. /\ began[p][IfOf[p]] <= scans[IfOf[p]]
        /\ \A m : Unread(p, m) /\ m.kind = "results" => Recent(p)
        /\ status[p] = 0 => Recent(p)
        /\ ret[p] = 0 => Recent(p)
    BY DEF ScanInv
  <1>4. IfOf[p] \in Interfaces /\ began[p][IfOf[p]] \in Nat /\ scans[IfOf[p]] \in Nat /\ scans'[IfOf[p]] \in Nat
    BY <1>1, LinkAssumption DEF LinkTypes
  <1>5. began' = began /\ status' = status /\ ret' = ret
    BY <1>1 DEF callVars
  <1>6. began'[p][IfOf[p]] <= scans'[IfOf[p]] /\ (Recent(p) => Recent(p)')
    BY <1>1, <1>3, <1>4, <1>5 DEF Recent
  <1>7. ASSUME i \in scanning, scans'[i] = scans[i] + 1 PROVE Recent(p)'
    <2>1. i = IfOf[p]
      BY <1>7 DEF OneScanned, ScanInv
    <2> QED BY <1>3, <1>4, <1>5, <1>7, <2>1 DEF Recent
  <1> QED BY <1>1, <1>3, <1>5, <1>6, <1>7
-----------------------------------------------------------------------------
(* What a connect returns. *)

ConnectsRightly(o) ==
  /\ pc[o] = "idle" => ret'[o] # 0
  /\ Accepted(o)' => Accepted(o) \/ (\E m : Unread(o, m) /\ m.kind = "auth" /\ m.status = 0
                                           /\ Alike(m.ifc, IfOf[o]) /\ Alike(m.ap, Target[o]))
  /\ pc'[o] = "assoc" => pc[o] = "assoc" \/ Accepted(o)
  /\ Op[o] = "connect" /\ ret'[o] = 0 => ret[o] = 0 \/ pc[o] = "assoc"

LEMMA CallConnects ==
  ASSUME LinkTypes, Running, NEW o \in Objects, CallStep(o)
  PROVE  ConnectsRightly(o)
  <1> USE DEF LinkTypes, Running, ScanStates, States, ConnectsRightly, Pending, Accepted
  <1>1. CASE Scan(o)
    BY <1>1 DEF Scan, scanVars
  <1>2. CASE Trigger(o)
    BY <1>2 DEF Trigger
  <1>3. CASE ScanEvent(o)
    BY <1>3 DEF ScanEvent, scanVars
  <1>4. CASE Acknowledged(o)
    BY <1>4 DEF Acknowledged, scanVars
  <1>5. CASE Refused(o)
    BY <1>5 DEF Refused, Returns, scanVars
  <1>6. CASE ScanEnded(o)
    BY <1>6 DEF ScanEnded, scanVars
  <1>7. CASE Dump(o)
    BY <1>7 DEF Dump
  <1>16. CASE ListNext(o)
    BY <1>16 DEF ListNext
  <1>17. CASE ListEnds(o)
    BY <1>17 DEF ListEnds, Returns, scanVars
  <1>8. CASE Connect(o)
    BY <1>8 DEF Connect, scanVars
  <1>9. CASE Frame(o)
    <2>1. PICK m : m = First(o) /\ Unread(o, m) /\ m.kind = pc[o]
               /\ Alike(m.ifc, IfOf[o]) /\ Alike(m.ap, Target[o])
      BY <1>9, TakenUnread DEF Frame, FromTarget
    <2>2. status' = [status EXCEPT ![o] = m.status]
      BY <1>9, <2>1 DEF Frame
    <2> QED BY <1>9, <2>1, <2>2 DEF Frame, scanVars
  <1>10. CASE PassedOver(o)
    BY <1>10 DEF PassedOver, callVars, scanVars
  <1>18. CASE TimedOut(o)
    BY <1>18 DEF TimedOut, scanVars
  <1>11. CASE Authenticated(o)
    BY <1>11 DEF Authenticated, scanVars
  <1>12. CASE NotAuthenticated(o)
    BY <1>12 DEF NotAuthenticated, Returns, scanVars
  <1>13. CASE Associated(o)
    BY <1>13 DEF Associated, Returns, scanVars
  <1>14. CASE Disconnect(o)
    <2>1. /\ \/ pc' = [pc EXCEPT ![o] = "done"] /\ ret' = [ret EXCEPT ![o] = -1]
             \/ pc' = [pc EXCEPT ![o] = "leave"] /\ ret' = ret
          /\ Op[o] = "disconnect" /\ pc[o] = "idle"
      BY <1>14 DEF Disconnect, Returns, scanVars
    <2> QED BY <2>1
  <1>15. CASE LeaveRead(o)
    BY <1>15 DEF LeaveRead, scanVars
  <1> QED BY <1>1, <1>2, <1>3, <1>4, <1>5, <1>6, <1>7, <1>8, <1>9, <1>10, <1>11, <1>12, <1>13, <1>14, <1>15, <1>16, <1>17, <1>18
          DEF CallStep

LEMMA CallKeepsGrants ==
  ASSUME LinkInv, NEW o \in Objects, CallStep(o)
  PROVE  GrantInv'
  <1>1. ConnectsRightly(o)
    BY CallConnects DEF LinkInv
  <1>2. /\ QueueQuiet
        /\ UNCHANGED granted
        /\ \A p \in Objects \ {o} : /\ pc'[p] = pc[p] \/ pc'[p] = "crashed"
                                    /\ done'[p] = done[p] /\ status'[p] = status[p] /\ ret'[p] = ret[p]
    BY CallQuiet DEF LinkInv
  <1> SUFFICES ASSUME NEW p \in Objects
               PROVE  /\ \A m : Unread(p, m)' /\ m.kind = "auth" /\ m.status = 0 => <<m.ifc, m.ap>> \in granted'
                      /\ Accepted(p)' => Granted(p)'
                      /\ pc'[p] = "assoc" => Granted(p)'
                      /\ Op[p] = "connect" /\ ret'[p] = 0 => Granted(p)'
    BY DEF GrantInv
  <1>3. /\ \A m : Unread(p, m) /\ m.kind = "auth" /\ m.status = 0 => <<m.ifc, m.ap>> \in granted
        /\ Accepted(p) => Granted(p)
        /\ pc[p] = "assoc" => Granted(p)
        /\ Op[p] = "connect" /\ ret[p] = 0 => Granted(p)
    BY DEF LinkInv, GrantInv
  <1>4. \A m : Unread(p, m)' /\ m.kind = "auth" => Unread(p, m)
    BY <1>2 DEF QueueQuiet
  <1>5. Granted(p)' <=> Granted(p)
    BY <1>2 DEF Granted
  <1>6. CASE p = o
    <2>1. ASSUME NEW m, Unread(o, m), m.kind = "auth", m.status = 0,
                 Alike(m.ifc, IfOf[o]), Alike(m.ap, Target[o])
          PROVE  Granted(o)
      <3>1. <<m.ifc, m.ap>> \in granted
        BY <1>3, <1>6, <2>1
      <3> QED BY <2>1, <3>1 DEF Granted
    <2>4. Accepted(o)' => Granted(o)
      BY <1>1, <1>3, <1>6, <2>1 DEF ConnectsRightly
    <2>2. pc'[o] = "assoc" => Granted(o)
      BY <1>1, <1>3, <1>6 DEF ConnectsRightly
    <2>3. Op[o] = "connect" /\ ret'[o] = 0 => Granted(o)
      BY <1>1, <1>3, <1>6 DEF ConnectsRightly
    <2> QED BY <1>2, <1>3, <1>4, <1>5, <1>6, <2>2, <2>3, <2>4
  <1>7. CASE p # o
    <2>1. Accepted(p)' => Accepted(p)
      BY <1>2, <1>7 DEF Accepted
    <2> QED BY <1>2, <1>3, <1>4, <1>5, <1>7, <2>1
  <1> QED BY <1>6, <1>7

LEMMA KernelKeepsGrants ==
  ASSUME LinkInv, NEW i \in Interfaces, KernelScan(i) \/ KernelLink(i) \/ OtherScan(i)
  PROVE  GrantInv'
  <1>1. /\ UNCHANGED callVars /\ granted \subseteq granted'
        /\ \A p \in Objects : \A m : Unread(p, m)' /\ m.kind = "auth" /\ m.status = 0 =>
             Unread(p, m) \/ <<m.ifc, m.ap>> \in granted'
    BY KernelRuns DEF LinkInv
  <1>2. \A p \in Objects : /\ Accepted(p)' <=> Accepted(p)
                           /\ Granted(p) => Granted(p)'
                           /\ pc'[p] = pc[p] /\ ret'[p] = ret[p]
    BY <1>1 DEF callVars, Accepted, Granted
  <1> QED BY <1>1, <1>2 DEF LinkInv, GrantInv

LEMMA StepLink == LinkInv /\ [Next]_vars => LinkInv'
  <1> SUFFICES ASSUME LinkInv, [Next]_vars PROVE LinkInv'
    OBVIOUS
  <1>1. ASSUME NEW o \in Objects, CallStep(o) PROVE LinkInv'
    BY <1>1, CallRuns, CallKeepsGrants DEF LinkInv
  <1>2. ASSUME NEW i \in Interfaces, KernelScan(i) \/ KernelLink(i) \/ OtherScan(i) PROVE LinkInv'
    BY <1>2, KernelRuns, KernelKeepsGrants DEF LinkInv
  <1>3. CASE UNCHANGED vars
    BY <1>3 DEF vars, callVars, scanVars, linkVars, LinkInv, LinkTypes, Running, GrantInv, Unread, Accepted, Granted
  <1> QED BY <1>1, <1>2, <1>3 DEF Next

LEMMA LinkHolds == Spec => []LinkInv
  <1>1. Init => LinkInv
    BY InitLink
  <1> QED BY <1>1, StepLink, PTL DEF Spec

LEMMA StepScan == ASSUME OneScanned PROVE LinkInv /\ ScanInv /\ [Next]_vars => ScanInv'
  <1> SUFFICES ASSUME LinkInv, ScanInv, [Next]_vars PROVE ScanInv'
    OBVIOUS
  <1>1. ASSUME NEW o \in Objects, CallStep(o) PROVE ScanInv'
    BY <1>1, CallKeepsScans DEF LinkInv
  <1>2. ASSUME NEW i \in Interfaces, KernelScan(i) \/ KernelLink(i) \/ OtherScan(i) PROVE ScanInv'
    BY <1>2, KernelKeepsScans DEF LinkInv
  <1>3. CASE UNCHANGED vars
    BY <1>3 DEF vars, callVars, scanVars, ScanInv, Unread, Recent
  <1> QED BY <1>1, <1>2, <1>3 DEF Next

(* A scan that reports success is of its own interface and was completed   *)
(* after the object joined the group, whoever else scans that interface,   *)
(* if no other interface is scanned: the callback does not compare the     *)
(* interface of an event (full_network_scan_trigger).                      *)
THEOREM ScansAreRecent == ASSUME OneScanned PROVE Spec => []ScanIsRecent
  <1>1. Init => ScanInv
    BY InitLink
  <1>2. ScanInv => ScanIsRecent
    BY DEF ScanInv, ScanIsRecent, Recent
  <1>3. LinkInv /\ ScanInv /\ [Next]_vars => ScanInv'
    BY StepScan
  <1> QED BY <1>1, <1>2, <1>3, LinkHolds, PTL DEF Spec

(* A connect that reports success was authenticated: frames other objects  *)
(* wait for, of other access points and of other interfaces, stand for its *)
(* own only when strcmp does not tell their addresses from those it asked  *)
(* for (connect_to_access_point; the association is not looked at).        *)
THEOREM ConnectsAreGranted == Spec => []ConnectIsGranted
  <1>1. LinkInv => ConnectIsGranted
    BY DEF LinkInv, GrantInv, ConnectIsGranted, Granted
  <1> QED BY <1>1, LinkHolds, PTL

(* No two addresses agree up to a zero byte. *)
AddressesDiffer == \A a, b \in Interfaces \cup AccessPoints : Alike(a, b) => a = b

-----------------------------------------------------------------------------
(* The list a scan makes. *)

(* A list has each network once and each access point once, under the name *)
(* it announces, and none that is still to be listed.                      *)
TidyNetwork(net, left) ==
    /\ IsInjective(net.accessPoints)
    /\ \A n \in DOMAIN net.accessPoints :
         /\ Ssid[net.accessPoints[n]] = net.ssid
         /\ net.accessPoints[n] \notin left
Tidy(nets, left) ==
    /\ nets \in Seq(Network)
    /\ \A j, k \in DOMAIN nets : nets[j].ssid = nets[k].ssid => j = k
    /\ \A k \in DOMAIN nets : TidyNetwork(nets[k], left)

(* Nothing is listed before the results are asked for; only a scan returns *)
(* a positive value.                                                       *)
NotListed == {"unused", "idle", "trigger", "ack", "event", "dump"}
ListInv ==
    /\ wifiNetworks \in [Objects -> Seq(Network)]
    /\ unlisted \in [Objects -> SUBSET AccessPoints]
    /\ heard \in [Interfaces -> SUBSET AccessPoints]
    /\ \A o \in Objects : /\ Tidy(wifiNetworks[o], unlisted[o])
                          /\ pc[o] \in NotListed => wifiNetworks[o] = <<>>
                          /\ Op[o] # "scan" => ret[o] # 1

(* The rest of what the kernel keeps. *)
KernelTypes ==
    /\ link \in [Interfaces -> [state : {"down", "auth", "assoc"}, ap : Named]]
    /\ granted \subseteq Interfaces \X Named
    /\ other \in 0..MaxOther

LEMMA EmptyTidy == ASSUME NEW left PROVE <<>> \in Seq(Network) /\ Tidy(<<>>, left)
  <1>1. <<>> \in Seq(Network)
    OBVIOUS
  <1> QED BY <1>1 DEF Tidy

(* A network that gets another access point. *)
LEMMA NetworkGains ==
  ASSUME NEW net \in Network, NEW left, NEW ap \in left, ap \in AccessPoints, TidyNetwork(net, left),
         net.ssid = Ssid[ap], NEW new, new = [net EXCEPT !.accessPoints = Append(@, ap)]
  PROVE  new \in Network /\ new.ssid = net.ssid /\ TidyNetwork(new, left \ {ap})
  <1>1. PICK aps : aps = net.accessPoints /\ aps \in Seq(AccessPoints)
    BY DEF Network
  <1>2. PICK more : more = Append(aps, ap)
    OBVIOUS
  <1>3. /\ more \in Seq(AccessPoints) /\ DOMAIN more = DOMAIN aps \cup {Len(aps) + 1}
        /\ more[Len(aps) + 1] = ap /\ \A n \in DOMAIN aps : more[n] = aps[n]
    BY <1>1, <1>2
  <1>4. new = [ssid |-> net.ssid, accessPoints |-> more]
    BY <1>1, <1>2 DEF Network
  <1>5. new \in Network /\ new.ssid = net.ssid /\ new.accessPoints = more
    <2>1. net.ssid \in {Ssid[a] : a \in AccessPoints}
      BY DEF Network
    <2>2. new.ssid = net.ssid /\ new.accessPoints = more
      BY <1>4
    <2> QED BY <1>3, <1>4, <2>1, <2>2 DEF Network
  <1>6. \A n \in DOMAIN aps : Ssid[aps[n]] = net.ssid /\ aps[n] \notin left
    BY <1>1 DEF TidyNetwork
  <1>7. \A m, n \in DOMAIN aps : aps[m] = aps[n] => m = n
    BY <1>1 DEF TidyNetwork, IsInjective
  <1>8. \A m, n \in DOMAIN more : more[m] = more[n] => m = n
    BY <1>3, <1>6, <1>7
  <1>9. \A n \in DOMAIN more : Ssid[more[n]] = net.ssid /\ more[n] \notin left \ {ap}
    BY <1>3, <1>6
  <1> QED BY <1>5, <1>8, <1>9 DEF TidyNetwork, IsInjective

(* An access point that is listed for the first time leaves a tidy list: it *)
(* goes to the one network of its name, or to a new one.                    *)
LEMMA ListedTidy ==
  ASSUME NEW nets, NEW left \in SUBSET AccessPoints, NEW ap \in left, Tidy(nets, left)
  PROVE  Tidy(Listed(nets, ap), left \ {ap})
  <1> DEFINE same == {k \in DOMAIN nets : nets[k].ssid = Ssid[ap]}
  <1>0. nets \in Seq(Network)
    BY DEF Tidy
  <1>1. ASSUME NEW net, TidyNetwork(net, left) PROVE TidyNetwork(net, left \ {ap})
    BY <1>1 DEF TidyNetwork
  <1>2. CASE same = {}
    <2>1. PICK new : new = [ssid |-> Ssid[ap], accessPoints |-> <<ap>>]
      OBVIOUS
    <2>2. new \in Network /\ new.ssid = Ssid[ap]
      <3>1. <<ap>> \in Seq(AccessPoints)
        OBVIOUS
      <3> QED BY <2>1, <3>1 DEF Network
    <2>3. TidyNetwork(new, left \ {ap})
      BY <2>1 DEF TidyNetwork, IsInjective
    <2>4. PICK more : more = Append(nets, new)
      OBVIOUS
    <2>5. /\ more \in Seq(Network) /\ DOMAIN more = DOMAIN nets \cup {Len(nets) + 1}
          /\ more[Len(nets) + 1] = new /\ \A k \in DOMAIN nets : more[k] = nets[k]
      BY <1>0, <2>2, <2>4
    <2>6. \A k \in DOMAIN nets : nets[k].ssid # Ssid[ap]
      BY <1>2
    <2>7. \A j, k \in DOMAIN more : more[j].ssid = more[k].ssid => j = k
      BY <2>2, <2>5, <2>6 DEF Tidy
    <2>8. \A k \in DOMAIN more : TidyNetwork(more[k], left \ {ap})
      BY <1>1, <2>3, <2>5 DEF Tidy
    <2>9. Listed(nets, ap) = more
      BY <1>2, <2>1, <2>4 DEF Listed
    <2> QED BY <2>5, <2>7, <2>8, <2>9 DEF Tidy
  <1>3. CASE same # {}
    <2>1. PICK k \in same : TRUE
      BY <1>3
    <2>2. k \in DOMAIN nets /\ nets[k].ssid = Ssid[ap] /\ same = {k}
      BY <2>1 DEF Tidy
    <2>3. (CHOOSE i \in same : \A j \in same : i <= j) = k
      <3>1. k \in Nat
        BY <1>0, <2>2
      <3> QED BY <2>2, <3>1
    <2>4. PICK new : new = [nets[k] EXCEPT !.accessPoints = Append(@, ap)]
      OBVIOUS
    <2>5. PICK more : more = [nets EXCEPT ![k] = new]
      OBVIOUS
    <2>6. nets[k] \in Network /\ TidyNetwork(nets[k], left)
      BY <1>0, <2>2 DEF Tidy
    <2>7. new \in Network /\ new.ssid = nets[k].ssid /\ TidyNetwork(new, left \ {ap})
      BY <2>2, <2>4, <2>6, NetworkGains
    <2>8. more \in Seq(Network) /\ DOMAIN more = DOMAIN nets /\ \A j \in DOMAIN nets : more[j] = IF j = k THEN new ELSE nets[j]
      BY <1>0, <2>2, <2>5, <2>7
    <2>9. \A j \in DOMAIN nets : more[j].ssid = nets[j].ssid
      BY <2>7, <2>8
    <2>10. \A i, j \in DOMAIN more : more[i].ssid = more[j].ssid => i = j
      BY <2>8, <2>9 DEF Tidy
    <2>11. \A j \in DOMAIN more : TidyNetwork(more[j], left \ {ap})
      BY <1>1, <2>7, <2>8 DEF Tidy
    <2>12. Listed(nets, ap) = more
      BY <1>3, <2>3, <2>4, <2>5 DEF Listed
    <2> QED BY <2>8, <2>10, <2>11, <2>12 DEF Tidy
  <1> QED BY <1>2, <1>3

(* What a step of an operation does to the list and to what it returns. *)
ListsRightly(o) ==
  /\ \/ /\ wifiNetworks' = wifiNetworks /\ unlisted' = unlisted
        /\ pc'[o] \in NotListed => pc[o] \in NotListed
     \/ /\ wifiNetworks' = [wifiNetworks EXCEPT ![o] = <<>>] /\ unlisted' = unlisted
     \/ /\ wifiNetworks' = wifiNetworks /\ unlisted' \in [Objects -> SUBSET AccessPoints]
        /\ \A p \in Objects \ {o} : unlisted'[p] = unlisted[p]
        /\ pc[o] \in NotListed /\ pc'[o] \notin NotListed
     \/ /\ \E ap \in unlisted[o] : /\ wifiNetworks' = [wifiNetworks EXCEPT ![o] = Listed(@, ap)]
                                   /\ unlisted' = [unlisted EXCEPT ![o] = @ \ {ap}]
        /\ pc'[o] \notin NotListed
  /\ Op[o] # "scan" => ret'[o] = ret[o] \/ ret'[o] # 1
  /\ UNCHANGED <<heard, link, granted>>
  /\ other' = other

LEMMA CallLists ==
  ASSUME LinkTypes, Running, ListInv, NEW o \in Objects, CallStep(o)
  PROVE  ListsRightly(o)
  <1> USE DEF LinkTypes, Running, ScanStates, States, ListsRightly, Pending, NotListed
  <1>1. CASE Scan(o)
    BY <1>1 DEF Scan, scanVars, linkVars
  <1>2. CASE Trigger(o)
    BY <1>2 DEF Trigger, linkVars
  <1>3. CASE ScanEvent(o)
    BY <1>3 DEF ScanEvent, scanVars, linkVars
  <1>4. CASE Acknowledged(o)
    BY <1>4 DEF Acknowledged, scanVars, linkVars
  <1>5. CASE Refused(o)
    BY <1>5 DEF Refused, Returns, scanVars, linkVars
  <1>6. CASE ScanEnded(o)
    BY <1>6 DEF ScanEnded, scanVars, linkVars
  <1>7. CASE Dump(o)
    <2>1. heard[IfOf[o]] \in SUBSET AccessPoints
      BY LinkAssumption DEF ListInv
    <2>2. unlisted' \in [Objects -> SUBSET AccessPoints] /\ \A p \in Objects \ {o} : unlisted'[p] = unlisted[p]
      BY <1>7, <2>1 DEF Dump, ListInv
    <2> QED BY <1>7, <2>2 DEF Dump, linkVars
  <1>8. CASE Connect(o)
    BY <1>8 DEF Connect, scanVars
  <1>9. CASE Frame(o)
    BY <1>9 DEF Frame, scanVars, linkVars
  <1>10. CASE PassedOver(o)
    BY <1>10 DEF PassedOver, callVars, scanVars, linkVars
  <1>18. CASE TimedOut(o)
    BY <1>18 DEF TimedOut, scanVars, linkVars
  <1>11. CASE Authenticated(o)
    BY <1>11 DEF Authenticated, scanVars
  <1>12. CASE NotAuthenticated(o)
    BY <1>12 DEF NotAuthenticated, Returns, scanVars, linkVars
  <1>13. CASE Associated(o)
    BY <1>13 DEF Associated, Returns, scanVars, linkVars
  <1>14. CASE Disconnect(o)
    <2>1. /\ \/ pc' = [pc EXCEPT ![o] = "done"] /\ ret' = [ret EXCEPT ![o] = -1]
             \/ pc' = [pc EXCEPT ![o] = "leave"] /\ ret' = ret
          /\ wifiNetworks' = wifiNetworks /\ UNCHANGED <<unlisted, heard, link, granted>> /\ other' = other
      BY <1>14 DEF Disconnect, Returns, scanVars
    <2> QED BY <2>1
  <1>15. CASE LeaveRead(o)
    <2>1. pc' = pc \/ pc' = [p \in Objects |-> "crashed"]
      BY <1>15 DEF LeaveRead
    <2> QED BY <1>15, <2>1 DEF LeaveRead, scanVars, linkVars
  <1>16. CASE ListNext(o)
    BY <1>16 DEF ListNext, linkVars
  <1>17. CASE ListEnds(o)
    BY <1>17 DEF ListEnds, Returns, scanVars, linkVars
  <1> QED BY <1>1, <1>2, <1>3, <1>4, <1>5, <1>6, <1>7, <1>8, <1>9, <1>10, <1>11, <1>12, <1>13, <1>14, <1>15, <1>16, <1>17, <1>18
          DEF CallStep

(* Another object's list is left alone. *)
LEMMA CallKeepsList ==
  ASSUME LinkTypes, Running, ListInv, NEW o \in Objects, CallStep(o)
  PROVE  ListInv'
  <1>1. ListsRightly(o)
    BY CallLists
  <1>2. \A p \in Objects \ {o} : (pc'[p] = pc[p] \/ pc'[p] = "crashed") /\ ret'[p] = ret[p]
    BY CallQuiet
  <1>3. heard' \in [Interfaces -> SUBSET AccessPoints]
    BY <1>1 DEF ListsRightly, ListInv
  <1>4. PICK nets, left : nets = wifiNetworks[o] /\ left = unlisted[o]
    OBVIOUS
  <1>5. nets \in Seq(Network) /\ left \in SUBSET AccessPoints /\ Tidy(nets, left) /\ (pc[o] \in NotListed => nets = <<>>)
    BY <1>4 DEF ListInv
  <1>6. PICK nets1, left1 :
          /\ wifiNetworks' = [wifiNetworks EXCEPT ![o] = nets1] /\ unlisted' = [unlisted EXCEPT ![o] = left1]
          /\ left1 \in SUBSET AccessPoints /\ Tidy(nets1, left1)
          /\ pc'[o] \in NotListed => nets1 = <<>>
    <2>1. CASE /\ wifiNetworks' = wifiNetworks /\ unlisted' = unlisted
               /\ pc'[o] \in NotListed => pc[o] \in NotListed
      <3>1. wifiNetworks' = [wifiNetworks EXCEPT ![o] = nets] /\ unlisted' = [unlisted EXCEPT ![o] = left]
        BY <1>4, <2>1 DEF ListInv
      <3> QED BY <1>5, <2>1, <3>1
    <2>2. CASE wifiNetworks' = [wifiNetworks EXCEPT ![o] = <<>>] /\ unlisted' = unlisted
      <3>1. unlisted' = [unlisted EXCEPT ![o] = left]
        BY <1>4, <2>2 DEF ListInv
      <3> QED BY <1>5, <2>2, <3>1, EmptyTidy
    <2>3. CASE /\ wifiNetworks' = wifiNetworks /\ unlisted' \in [Objects -> SUBSET AccessPoints]
               /\ \A p \in Objects \ {o} : unlisted'[p] = unlisted[p]
               /\ pc[o] \in NotListed /\ pc'[o] \notin NotListed
      <3>1. PICK left1 : left1 = unlisted'[o]
        OBVIOUS
      <3>2. left1 \in SUBSET AccessPoints /\ unlisted' = [unlisted EXCEPT ![o] = left1]
        BY <2>3, <3>1 DEF ListInv
      <3>3. wifiNetworks' = [wifiNetworks EXCEPT ![o] = nets] /\ nets = <<>>
        BY <1>4, <1>5, <2>3 DEF ListInv
      <3>4. Tidy(<<>>, left1)
        BY EmptyTidy
      <3> QED BY <2>3, <3>2, <3>3, <3>4
    <2>4. CASE /\ \E ap \in unlisted[o] : /\ wifiNetworks' = [wifiNetworks EXCEPT ![o] = Listed(@, ap)]
                                          /\ unlisted' = [unlisted EXCEPT ![o] = @ \ {ap}]
               /\ pc'[o] \notin NotListed
      <3>1. PICK ap \in left : /\ wifiNetworks' = [wifiNetworks EXCEPT ![o] = Listed(nets, ap)]
                               /\ unlisted' = [unlisted EXCEPT ![o] = left \ {ap}]
        BY <1>4, <2>4
      <3>2. PICK nets1, left1 : nets1 = Listed(nets, ap) /\ left1 = left \ {ap}
        OBVIOUS
      <3>3. Tidy(nets1, left1)
        BY <1>5, <3>2, ListedTidy
      <3>4. /\ wifiNetworks' = [wifiNetworks EXCEPT ![o] = nets1] /\ unlisted' = [unlisted EXCEPT ![o] = left1]
            /\ left1 \in SUBSET AccessPoints /\ pc'[o] \notin NotListed
        BY <1>5, <2>4, <3>1, <3>2
      <3> QED BY <3>3, <3>4
    <2> QED BY <1>1, <2>1, <2>2, <2>3, <2>4 DEF ListsRightly
  <1>7. nets1 \in Seq(Network)
    BY <1>6 DEF Tidy
  <1>8. /\ wifiNetworks' \in [Objects -> Seq(Network)] /\ unlisted' \in [Objects -> SUBSET AccessPoints]
        /\ wifiNetworks'[o] = nets1 /\ unlisted'[o] = left1
        /\ \A p \in Objects \ {o} : wifiNetworks'[p] = wifiNetworks[p] /\ unlisted'[p] = unlisted[p]
    BY <1>6, <1>7 DEF ListInv
  <1> SUFFICES ASSUME NEW p \in Objects
               PROVE  /\ Tidy(wifiNetworks'[p], unlisted'[p])
                      /\ pc'[p] \in NotListed => wifiNetworks'[p] = <<>>
                      /\ Op[p] # "scan" => ret'[p] # 1
    BY <1>3, <1>8 DEF ListInv, Tidy, TidyNetwork
  <1>9. CASE p = o
    <2>1. Op[o] # "scan" => ret'[o] # 1
      BY <1>1 DEF ListsRightly, ListInv
    <2> QED BY <1>6, <1>8, <1>9, <2>1
  <1>10. CASE p # o
    <2>1. Tidy(wifiNetworks'[p], unlisted'[p])
      BY <1>8, <1>10 DEF ListInv
    <2>2. /\ pc'[p] \in NotListed => wifiNetworks'[p] = <<>>
          /\ Op[p] # "scan" => ret'[p] # 1
      BY <1>2, <1>8, <1>10 DEF ListInv, NotListed
    <2> QED BY <2>1, <2>2
  <1> QED BY <1>9, <1>10

(* The kernel finds access points and keeps its links; the lists are not its. *)
LEMMA KernelKeepsList ==
  ASSUME LinkTypes, ListInv, KernelTypes, NEW i \in Interfaces, KernelScan(i) \/ KernelLink(i) \/ OtherScan(i)
  PROVE  ListInv' /\ KernelTypes'
  <1>1. UNCHANGED callVars /\ UNCHANGED unlisted
    BY DEF KernelScan, KernelLink, ScanDone, ScanAborted, Answer, AnswerTimesOut, OtherScan, scanVars
  <1>2. CASE OtherScan(i)
    <2>1. other' \in 0..MaxOther
      BY <1>2, LinkAssumption DEF OtherScan, KernelTypes
    <2> QED BY <1>1, <1>2, <2>1 DEF OtherScan, linkVars, callVars, ListInv, KernelTypes
  <1>3. CASE ScanDone(i)
    <2>1. PICK found \in Audible : heard' = [heard EXCEPT ![i] = found]
      BY <1>3 DEF ScanDone
    <2>2. heard' \in [Interfaces -> SUBSET AccessPoints]
      BY <2>1, LinkAssumption DEF ListInv
    <2>3. UNCHANGED <<link, granted>> /\ UNCHANGED other
      BY <1>3 DEF ScanDone, linkVars
    <2> QED BY <1>1, <2>2, <2>3 DEF callVars, ListInv, KernelTypes
  <1>4. CASE ScanAborted(i)
    BY <1>1, <1>4 DEF ScanAborted, linkVars, callVars, ListInv, KernelTypes
  <1>5. CASE Answer(i)
    <2>1. PICK kind, ap : kind = asked[i].kind /\ ap = asked[i].ap
      OBVIOUS
    <2>2. kind \in {"auth", "assoc", "leave"} /\ ap \in Named
      BY <1>5, <2>1 DEF Answer, LinkTypes
    <2>3. /\ \/ link' = link
             \/ kind = "leave" /\ link' = [link EXCEPT ![i] = Down]
             \/ kind # "leave" /\ link' = [link EXCEPT ![i] = [state |-> kind, ap |-> ap]]
          /\ granted' = granted \/ granted' = granted \cup {<<i, ap>>}
          /\ UNCHANGED scanVars
      BY <1>5, <2>1 DEF Answer
    <2>4. Down \in [state : {"down", "auth", "assoc"}, ap : Named]
      BY DEF Down, Named
    <2>5. kind # "leave" => [state |-> kind, ap |-> ap] \in [state : {"down", "auth", "assoc"}, ap : Named]
      BY <2>2
    <2>6. link' \in [Interfaces -> [state : {"down", "auth", "assoc"}, ap : Named]]
      BY <2>3, <2>4, <2>5 DEF KernelTypes
    <2>7. granted' \subseteq Interfaces \X Named
      BY <2>2, <2>3 DEF KernelTypes
    <2> QED BY <1>1, <2>3, <2>6, <2>7 DEF scanVars, callVars, ListInv, KernelTypes
  <1>6. CASE AnswerTimesOut(i)
    BY <1>1, <1>6 DEF AnswerTimesOut, scanVars, callVars, ListInv, KernelTypes
  <1> QED BY <1>2, <1>3, <1>4, <1>5, <1>6 DEF KernelScan, KernelLink

LEMMA InitList == Init => ListInv /\ KernelTypes
  <1> SUFFICES ASSUME Init PROVE ListInv /\ KernelTypes
    OBVIOUS
  <1>1. wifiNetworks \in [Objects -> Seq(Network)]
    BY EmptyTidy DEF Init
  <1>2. \A o \in Objects : wifiNetworks[o] = <<>> /\ Tidy(wifiNetworks[o], unlisted[o]) /\ ret[o] # 1
    BY EmptyTidy DEF Init, Pending
  <1>3. ListInv
    BY <1>1, <1>2 DEF Init, ListInv
  <1>4. Down \in [state : {"down", "auth", "assoc"}, ap : Named]
    BY DEF Down, Named
  <1>5. KernelTypes
    BY <1>4, LinkAssumption DEF Init, KernelTypes
  <1> QED BY <1>3, <1>5

LEMMA StepList == LinkInv /\ ListInv /\ KernelTypes /\ [Next]_vars => ListInv' /\ KernelTypes'
  <1> SUFFICES ASSUME LinkInv, ListInv, KernelTypes, [Next]_vars PROVE ListInv' /\ KernelTypes'
    OBVIOUS
  <1>1. ASSUME NEW o \in Objects, CallStep(o) PROVE ListInv' /\ KernelTypes'
    <2>1. ListInv'
      BY <1>1, CallKeepsList DEF LinkInv
    <2>2. UNCHANGED <<link, granted>> /\ UNCHANGED other
      BY <1>1, CallLists DEF LinkInv, ListsRightly
    <2> QED BY <2>1, <2>2 DEF KernelTypes
  <1>2. ASSUME NEW i \in Interfaces, KernelScan(i) \/ KernelLink(i) \/ OtherScan(i) PROVE ListInv' /\ KernelTypes'
    BY <1>2, KernelKeepsList DEF LinkInv
  <1>3. CASE UNCHANGED vars
    BY <1>3 DEF vars, callVars, scanVars, linkVars, ListInv, KernelTypes
  <1> QED BY <1>1, <1>2, <1>3 DEF Next

LEMMA ListHolds == Spec => [](LinkInv /\ ListInv /\ KernelTypes)
  <1>1. Init => LinkInv /\ ListInv /\ KernelTypes
    BY InitLink, InitList
  <1>2. LinkInv /\ ListInv /\ KernelTypes /\ [Next]_vars => (LinkInv /\ ListInv /\ KernelTypes)'
    BY StepLink, StepList
  <1> QED BY <1>1, <1>2, PTL DEF Spec

(* Every variable keeps its type; only a scan returns a positive value, as *)
(* full_network_scan_trigger does for an abort.                            *)
THEOREM TypesCorrect == Spec => []TypeOK
  <1>1. LinkInv /\ ListInv /\ KernelTypes => TypeOK
    <2> SUFFICES ASSUME LinkInv, ListInv, KernelTypes PROVE TypeOK
      OBVIOUS
    <2>1. pc \in [Objects -> {"unused", "idle", "trigger", "ack", "event", "dump", "list", "auth", "assoc",
                              "leave", "done", "crashed"}]
      BY DEF LinkInv, LinkTypes, States, ScanStates
    <2> QED BY <2>1 DEF LinkInv, LinkTypes, Messages, ListInv, KernelTypes, TypeOK
  <1> QED BY <1>1, ListHolds, PTL

(* The list of a scan names every network once and every access point once, *)
(* under the name it announces, in whatever order the kernel lists them and *)
(* wherever an event ends the reading (full_network_scan_handler).          *)
THEOREM ListsOnce == Spec => []ListedOnce
  <1>1. ListInv => ListedOnce
    <2> SUFFICES ASSUME ListInv, NEW o \in Objects
                 PROVE  LET nets == wifiNetworks[o] IN
                        /\ \A j, k \in DOMAIN nets : nets[j].ssid = nets[k].ssid => j = k
                        /\ \A k \in DOMAIN nets :
                             /\ IsInjective(nets[k].accessPoints)
                             /\ \A n \in DOMAIN nets[k].accessPoints :
                                  Ssid[nets[k].accessPoints[n]] = nets[k].ssid
      BY DEF ListedOnce
    <2>1. Tidy(wifiNetworks[o], unlisted[o])
      BY DEF ListInv
    <2> QED BY <2>1 DEF Tidy, TidyNetwork
  <1> QED BY <1>1, ListHolds, PTL

(* Where strcmp tells the addresses, a connect that reports success was    *)
(* authenticated by the access point it asked for, on its own interface    *)
(* ("yes this is from the ap we wanted to connect").                       *)
THEOREM ConnectsAreWanted == ASSUME AddressesDiffer PROVE Spec => []ConnectIsWanted
  <1>1. LinkInv /\ KernelTypes => ConnectIsWanted
    <2> SUFFICES ASSUME LinkInv, KernelTypes, NEW o \in Objects, Op[o] = "connect", ret[o] = 0
                 PROVE  <<IfOf[o], Target[o]>> \in granted
      BY DEF ConnectIsWanted
    <2>1. PICK g \in granted : Alike(g[1], IfOf[o]) /\ Alike(g[2], Target[o])
      BY DEF LinkInv, GrantInv, Granted
    <2>2. IfOf[o] \in Interfaces /\ Target[o] \in AccessPoints /\ Named = AccessPoints
      BY LinkAssumption DEF Named, Down
    <2>3. g \in Interfaces \X AccessPoints
      BY <2>2 DEF KernelTypes
    <2>4. g[1] = IfOf[o] /\ g[2] = Target[o] /\ g = <<g[1], g[2]>>
      BY <2>1, <2>2, <2>3 DEF AddressesDiffer
    <2> QED BY <2>4
  <1> QED BY <1>1, ListHolds, PTL
=============================================================================
