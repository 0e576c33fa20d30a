-------------------------- MODULE SvcEndPointProofs --------------------------
(***************************************************************************)
(* What the daemon guarantees about the life of an endpoint, for any set   *)
(* of endpoints and any number of frames and interrupts: it is deleted     *)
(* once, after the threads that use it ended, and whoever finds it in the  *)
(* table while nobody holds endPointsMutex finds it alive.  Then the kinds *)
(* of messages each of its queues can hold, that no message is deleted     *)
(* twice, that frames stay in order, and when an endpoint may be used      *)
(* after its destructor.                                                   *)
(***************************************************************************)
EXTENDS SvcEndPoint, SequenceTheorems, TLAPS

Others == Roles \ {"sendIn"}

LifeType ==
  /\ opened \subseteq EndPoints
  /\ table \subseteq opened
  /\ deletes \in [EndPoints -> Nat]
  /\ thread \in [EndPoints -> [Roles -> Labels]]
  /\ main \in MainStates

(* What was never opened has no threads and was never deleted. *)
Unopened ==
  \A e \in EndPoints \ opened : deletes[e] = 0 /\ \A r \in Roles : thread[e][r] = "none"

(* A sending thread on its way to delete its endpoint is the first to: the *)
(* main thread waits for its end before it deletes.                        *)
SenderFirst ==
  \A e \in EndPoints :
    thread[e]["sendIn"] \in {"loop", "failed", "joining", "erase", "delete"} => deletes[e] = 0

(* It is the last of the four, and the endpoint has left the table. *)
SenderLast ==
  \A e \in EndPoints :
    /\ thread[e]["sendIn"] \in {"erase", "delete", "deleted"} => Ended(e, Others)
    /\ thread[e]["sendIn"] \in {"delete", "deleted"} => e \notin table

(* Before the main thread begins to delete, the table is of live endpoints;*)
(* then those it has still to stop are, and stay, in the table.            *)
LeftAlone ==
  /\ main.at \in {"loops", "worker"} => \A e \in table : deletes[e] = 0
  /\ main.at \in {"choose", "join"} => \A e \in main.left : e \in table /\ deletes[e] = 0
  /\ main.at = "join" =>
       main.ep \in table /\ main.ep \notin main.left /\ deletes[main.ep] = 0

LifeInv ==
  /\ LifeType /\ Unopened /\ SenderFirst /\ SenderLast /\ LeftAlone
  /\ ThreadsEndFirst /\ DeletedOnce
-----------------------------------------------------------------------------
(* At first there is no endpoint. *)
LEMMA InitLife == Init => LifeInv
  <1> SUFFICES ASSUME Init PROVE LifeInv
    OBVIOUS
  <1>1. /\ opened = {} /\ table = {} /\ main = [at |-> "loops"]
        /\ deletes = [e \in EndPoints |-> 0]
        /\ thread = [e \in EndPoints |-> [r \in Roles |-> "none"]]
    BY DEF Init
  <1>2. LifeType
    BY <1>1 DEF LifeType, Labels, MainStates
  <1>3. \A e \in EndPoints : deletes[e] = 0 /\ \A r \in Roles : thread[e][r] = "none"
    BY <1>1
  <1>4. "sendIn" \in Roles
    BY DEF Roles
  <1>5. Unopened /\ SenderFirst /\ SenderLast
    BY <1>3, <1>4 DEF Unopened, SenderFirst, SenderLast
  <1>6. LeftAlone
    BY <1>1 DEF LeftAlone
  <1>7. ThreadsEndFirst /\ DeletedOnce
    BY <1>3 DEF ThreadsEndFirst, DeletedOnce, Freed
  <1> QED BY <1>2, <1>5, <1>6, <1>7 DEF LifeInv

(* One thread of one endpoint goes on, the others stay where they are. *)
LEMMA Goes ==
  ASSUME LifeType, NEW e \in EndPoints, NEW r \in Roles, NEW from, NEW to \in Labels,
         ThreadGoes(e, r, from, to)
  PROVE  /\ thread[e][r] = from
         /\ thread' \in [EndPoints -> [Roles -> Labels]]
         /\ \A f \in EndPoints, q \in Roles :
              thread'[f][q] = IF f = e /\ q = r THEN to ELSE thread[f][q]
  BY DEF ThreadGoes, LifeType

(* A step of a thread that deletes nothing and leaves the table and the    *)
(* main thread alone: its endpoint's sending thread has not yet come to    *)
(* the end of its joins, or it is none of the others that steps.           *)
LEMMA ThreadStep ==
  ASSUME LifeInv, UNCHANGED <<opened, table, deletes, main>>,
         NEW e \in EndPoints, NEW r \in Roles,
         NEW from \in {"loop", "moved", "failed", "joining"},
         NEW to \in {"loop", "moved", "failed", "joining", "ended"},
         ThreadGoes(e, r, from, to),
         r = "sendIn" => from # "moved"
  PROVE  LifeInv'
  <1>1. /\ thread[e][r] = from
        /\ thread' \in [EndPoints -> [Roles -> Labels]]
        /\ \A f \in EndPoints, q \in Roles :
             thread'[f][q] = IF f = e /\ q = r THEN to ELSE thread[f][q]
    BY Goes DEF LifeInv, Labels
  <1>2. "sendIn" \in Roles /\ Others \subseteq Roles
    BY DEF Roles, Others
  <1>3. LifeType' /\ Unopened'
    <2>1. e \in opened
      BY <1>1 DEF LifeInv, Unopened
    <2> QED BY <1>1, <2>1 DEF LifeInv, LifeType, Unopened
  <1>4. SenderFirst'
    BY <1>1, <1>2 DEF LifeInv, LifeType, SenderFirst
  <1>5. SenderLast'
    BY <1>1, <1>2 DEF LifeInv, SenderLast, Ended, Others
  <1>6. LeftAlone' /\ DeletedOnce'
    BY DEF LifeInv, LeftAlone, DeletedOnce
  <1>7. ThreadsEndFirst'
    BY <1>1, <1>2 DEF LifeInv, ThreadsEndFirst, Freed
  <1> QED BY <1>3, <1>4, <1>5, <1>6, <1>7 DEF LifeInv

(* The steps that are about queues, loops, the worker or a flag only. *)
LEMMA OtherSteps == ASSUME LifeInv, UNCHANGED <<opened, table, deletes, thread, main>>
                    PROVE  LifeInv'
  BY DEF LifeInv, LifeType, Unopened, SenderFirst, SenderLast, LeftAlone, ThreadsEndFirst,
         DeletedOnce, Freed, Ended

(* The four threads while nobody removes their endpoint. *)
LEMMA PassStep ==
  ASSUME LifeInv, NEW e \in EndPoints,
         \/ ProcessIncoming(e) \/ ProcessOutgoing(e) \/ SendOut(e)
         \/ SendPacketToApp(e) \/ EndThread(e, "sendIn")
         \/ SendFails(e) \/ RemoveDaemonEndPoint(e)
  PROVE  LifeInv'
  <1>1. AfterPass(e) \in {"loop", "ended"}
    BY DEF AfterPass
  <1>2. Roles = {"processIncoming", "processOutgoing", "sendIn", "sendOut"}
    BY DEF Roles
  <1>3. CASE MoveIncoming(e) \/ KeepIncoming(e) \/ DequeueIncoming(e)
    BY <1>1, <1>2, <1>3, ThreadStep
    DEF MoveIncoming, KeepIncoming, DequeueIncoming, UnchangedByThreads, life
  <1>4. CASE MoveOutgoing(e) \/ DequeueOutgoing(e)
    BY <1>1, <1>2, <1>4, ThreadStep DEF MoveOutgoing, DequeueOutgoing, UnchangedByThreads, life
  <1>5. CASE SendPacketOutside(e)
    BY <1>1, <1>2, <1>5, ThreadStep DEF SendPacketOutside, UnchangedByThreads, life
  <1>6. CASE SendPacketToApp(e) \/ SendFails(e)
    BY <1>1, <1>2, <1>6, ThreadStep DEF SendPacketToApp, SendFails, UnchangedByThreads, life
  <1>7. CASE \E r \in Roles : EndThread(e, r)
    BY <1>7, ThreadStep DEF EndThread, UnchangedByThreads, life
  <1>8. CASE RemoveDaemonEndPoint(e)
    BY <1>2, <1>8, ThreadStep DEF RemoveDaemonEndPoint
  <1> QED
    BY <1>2, <1>3, <1>4, <1>5, <1>6, <1>7, <1>8 DEF ProcessIncoming, ProcessOutgoing, SendOut

(* addDaemonEndPoint: its four threads are the first of this ID. *)
LEMMA AddStep ==
  ASSUME LifeInv, NEW l \in Loops, NEW e \in EndPoints, AddDaemonEndPoint(l, e)
  PROVE  LifeInv'
  <1>1. /\ e \notin opened /\ MutexFree
        /\ opened' = opened \cup {e} /\ table' = table \cup {e}
        /\ deletes' = deletes /\ main' = main
        /\ thread' = [thread EXCEPT ![e] = [r \in Roles |-> "loop"]]
    BY DEF AddDaemonEndPoint, Reads
  <1>2. deletes[e] = 0 /\ e \notin table
    BY <1>1 DEF LifeInv, LifeType, Unopened
  <1>3. "sendIn" \in Roles /\ Others \subseteq Roles /\ "loop" \in Labels
    BY DEF Roles, Others, Labels
  <1>4. \A f \in EndPoints, q \in Roles :
          thread'[f][q] = IF f = e THEN "loop" ELSE thread[f][q]
    BY <1>1 DEF LifeInv, LifeType
  <1>5. LifeType' /\ Unopened'
    BY <1>1, <1>3, <1>4 DEF LifeInv, LifeType, Unopened
  <1>6. SenderFirst'
    BY <1>1, <1>2, <1>3, <1>4 DEF LifeInv, SenderFirst
  <1>7. SenderLast'
    BY <1>1, <1>3, <1>4 DEF LifeInv, SenderLast, Ended, Others
  <1>8. LeftAlone'
    BY <1>1, <1>2 DEF LifeInv, LeftAlone, MutexFree, MainHolds
  <1>9. ThreadsEndFirst' /\ DeletedOnce'
    BY <1>1, <1>2, <1>4 DEF LifeInv, ThreadsEndFirst, DeletedOnce, Freed
  <1> QED BY <1>5, <1>6, <1>7, <1>8, <1>9 DEF LifeInv
-----------------------------------------------------------------------------
(* removeDaemonEndPoint, from its joins to the use of what it deleted. *)
LEMMA RemoveStep ==
  ASSUME LifeInv, NEW e \in EndPoints,
         JoinOthers(e) \/ EraseEndPoint(e) \/ DeleteEndPoint(e) \/ UseDeleted(e)
  PROVE  LifeInv'
  <1>1. "sendIn" \in Roles /\ Others \subseteq Roles /\ "sendIn" \notin Others
    BY DEF Roles, Others
  <1>2. CASE JoinOthers(e)
    <2>1. /\ thread[e]["sendIn"] = "joining" /\ Ended(e, Others)
          /\ thread' \in [EndPoints -> [Roles -> Labels]]
          /\ \A f \in EndPoints, q \in Roles :
               thread'[f][q] = IF f = e /\ q = "sendIn" THEN "erase" ELSE thread[f][q]
      BY <1>1, <1>2, Goes DEF LifeInv, JoinOthers, Labels, Others
    <2>2. UNCHANGED <<opened, table, deletes, main>>
      BY <1>2 DEF JoinOthers, UnchangedByThreads, life
    <2>3. LifeType' /\ Unopened' /\ SenderFirst'
      BY <1>1, <2>1, <2>2 DEF LifeInv, LifeType, Unopened, SenderFirst
    <2>4. SenderLast'
      BY <1>1, <2>1, <2>2 DEF LifeInv, SenderLast, Ended, Others
    <2>5. LeftAlone' /\ DeletedOnce' /\ ThreadsEndFirst'
      BY <1>1, <2>1, <2>2 DEF LifeInv, LeftAlone, DeletedOnce, ThreadsEndFirst, Freed
    <2> QED BY <2>3, <2>4, <2>5 DEF LifeInv
  <1>3. CASE EraseEndPoint(e)
    <2>1. /\ thread[e]["sendIn"] = "erase"
          /\ thread' \in [EndPoints -> [Roles -> Labels]]
          /\ \A f \in EndPoints, q \in Roles :
               thread'[f][q] = IF f = e /\ q = "sendIn" THEN "delete" ELSE thread[f][q]
      BY <1>1, <1>3, Goes DEF LifeInv, EraseEndPoint, Labels
    <2>2. UNCHANGED <<opened, deletes, main>> /\ table' = table \ {e} /\ MutexFree
      BY <1>3 DEF EraseEndPoint
    <2>3. LifeType' /\ Unopened' /\ SenderFirst'
      BY <1>1, <2>1, <2>2 DEF LifeInv, LifeType, Unopened, SenderFirst
    <2>4. SenderLast'
      BY <1>1, <2>1, <2>2 DEF LifeInv, SenderLast, Ended, Others
    <2>5. LeftAlone'
      BY <2>2 DEF LifeInv, LeftAlone, MutexFree, MainHolds
    <2>6. DeletedOnce' /\ ThreadsEndFirst'
      BY <1>1, <2>1, <2>2 DEF LifeInv, DeletedOnce, ThreadsEndFirst, Freed
    <2> QED BY <2>3, <2>4, <2>5, <2>6 DEF LifeInv
  <1>4. CASE DeleteEndPoint(e)
    <2>1. /\ thread[e]["sendIn"] = "delete"
          /\ thread' \in [EndPoints -> [Roles -> Labels]]
          /\ \A f \in EndPoints, q \in Roles :
               thread'[f][q] = IF f = e /\ q = "sendIn" THEN "deleted" ELSE thread[f][q]
      BY <1>1, <1>4, Goes DEF LifeInv, DeleteEndPoint, Labels
    <2>2. UNCHANGED <<opened, table, main>> /\ deletes' = [deletes EXCEPT ![e] = @ + 1]
      BY <1>4 DEF DeleteEndPoint
    <2>3. deletes[e] = 0 /\ e \notin table /\ Ended(e, Others) /\ e \in opened
      BY <2>1, <1>1 DEF LifeInv, SenderFirst, SenderLast, Unopened
    <2>4. /\ deletes' \in [EndPoints -> Nat]
          /\ \A f \in EndPoints : deletes'[f] = IF f = e THEN 1 ELSE deletes[f]
      BY <2>2, <2>3 DEF LifeInv, LifeType
    <2>5. LifeType' /\ Unopened' /\ SenderFirst'
      BY <1>1, <2>1, <2>2, <2>3, <2>4 DEF LifeInv, LifeType, Unopened, SenderFirst
    <2>6. SenderLast'
      BY <1>1, <2>1, <2>2, <2>3 DEF LifeInv, SenderLast, Ended, Others
    <2>7. LeftAlone'
      BY <2>2, <2>3, <2>4 DEF LifeInv, LifeType, LeftAlone
    <2>8. DeletedOnce' /\ ThreadsEndFirst'
      BY <1>1, <2>1, <2>3, <2>4
      DEF LifeInv, DeletedOnce, ThreadsEndFirst, Freed, Ended, Others
    <2> QED BY <2>5, <2>6, <2>7, <2>8 DEF LifeInv
  <1>5. CASE UseDeleted(e)
    <2>1. /\ thread[e]["sendIn"] = "deleted"
          /\ thread' \in [EndPoints -> [Roles -> Labels]]
          /\ \A f \in EndPoints, q \in Roles :
               thread'[f][q] = IF f = e /\ q = "sendIn" THEN "ended" ELSE thread[f][q]
      BY <1>1, <1>5, Goes DEF LifeInv, UseDeleted, Labels
    <2>2. UNCHANGED <<opened, table, deletes, main>>
      BY <1>5 DEF UseDeleted, life
    <2>3. LifeType' /\ Unopened' /\ SenderFirst'
      BY <1>1, <2>1, <2>2 DEF LifeInv, LifeType, Unopened, SenderFirst
    <2>4. SenderLast'
      BY <1>1, <2>1, <2>2 DEF LifeInv, SenderLast, Ended, Others
    <2>5. LeftAlone' /\ DeletedOnce' /\ ThreadsEndFirst'
      BY <1>1, <2>1, <2>2 DEF LifeInv, LeftAlone, DeletedOnce, ThreadsEndFirst, Freed
    <2> QED BY <2>3, <2>4, <2>5 DEF LifeInv
  <1> QED BY <1>2, <1>3, <1>4, <1>5
-----------------------------------------------------------------------------
(* The shutdown: the mutex is taken when the table is final. *)
LEMMA MainInv == ASSUME LifeInv, MainStep PROVE LifeInv'
  <1>1. CASE JoinLoops \/ JoinWorker \/ Exit \/ (\E e \in EndPoints : StopEndPoint(e))
    <2>1. UNCHANGED <<opened, table, deletes, thread>>
      BY <1>1 DEF JoinLoops, JoinWorker, Exit, StopEndPoint, life
    <2>2. main' \in MainStates
      BY <1>1 DEF LifeInv, LifeType, JoinLoops, JoinWorker, Exit, StopEndPoint, MainGoes, MainStates
    <2>3. LeftAlone'
      BY <1>1, <2>1 DEF LifeInv, LifeType, LeftAlone, JoinLoops, JoinWorker, Exit, StopEndPoint,
         MainGoes
    <2> QED
      BY <2>1, <2>2, <2>3 DEF LifeInv, LifeType, Unopened, SenderFirst, SenderLast,
         ThreadsEndFirst, DeletedOnce, Freed, Ended
  <1>2. CASE DeleteStopped
    <2> DEFINE e == main.ep
    <2>1. /\ main.at = "join" /\ Ended(e, Roles)
          /\ main' = [at |-> "choose", left |-> main.left]
          /\ UNCHANGED <<opened, table, thread>> /\ deletes' = [deletes EXCEPT ![e] = @ + 1]
      BY <1>2 DEF DeleteStopped, MainGoes
    <2>2. e \in EndPoints /\ e \in table /\ e \notin main.left /\ deletes[e] = 0
      BY <2>1 DEF LifeInv, LifeType, LeftAlone
    <2>3. main.left \subseteq EndPoints /\ main' \in MainStates
      BY <2>1 DEF LifeInv, LifeType, MainStates
    <2>4. /\ deletes' \in [EndPoints -> Nat]
          /\ \A f \in EndPoints : deletes'[f] = IF f = e THEN 1 ELSE deletes[f]
      BY <2>1, <2>2 DEF LifeInv, LifeType
    <2>5. "sendIn" \in Roles
      BY DEF Roles
    <2>6. LifeType' /\ Unopened'
      BY <2>1, <2>2, <2>3, <2>4 DEF LifeInv, LifeType, Unopened
    <2>7. SenderFirst' /\ SenderLast'
      BY <2>1, <2>4, <2>5 DEF LifeInv, SenderFirst, SenderLast, Ended
    <2>8. LeftAlone'
      BY <2>1, <2>2, <2>3, <2>4 DEF LifeInv, LeftAlone
    <2>9. DeletedOnce' /\ ThreadsEndFirst'
      BY <2>1, <2>4 DEF LifeInv, DeletedOnce, ThreadsEndFirst, Freed, Ended
    <2> QED BY <2>6, <2>7, <2>8, <2>9 DEF LifeInv
  <1> QED BY <1>1, <1>2 DEF MainStep

(* Every step keeps the inductive invariant. *)
LEMMA NextLife == LifeInv /\ [Next]_vars => LifeInv'
  <1> SUFFICES ASSUME LifeInv, [Next]_vars PROVE LifeInv'
    OBVIOUS
  <1>1. ASSUME NEW l \in Loops, LoopStep(l) PROVE LifeInv'
    <2>1. CASE \E e \in EndPoints : AddDaemonEndPoint(l, e)
      BY <2>1, AddStep
    <2>2. CASE \/ \E e \in EndPoints, k \in Kinds : FindService(l, e, k)
               \/ GetDaemonEndPoint(l) \/ EnqueueFrame(l) \/ ExitLoop(l)
      BY <2>2, OtherSteps DEF FindService, GetDaemonEndPoint, EnqueueFrame, ExitLoop, life
    <2> QED BY <1>1, <2>1, <2>2 DEF LoopStep
  <1>2. ASSUME NEW e \in EndPoints,
               ProcessIncoming(e) \/ ProcessOutgoing(e) \/ SendOut(e) \/ SendIn(e)
        PROVE  LifeInv'
    BY <1>2, PassStep, RemoveStep DEF SendIn
  <1>3. CASE \/ \E e \in EndPoints : AppEnds(e)
             \/ Tick \/ WorkerTakesSigint \/ SignalHandler \/ UNCHANGED vars
    BY <1>3, OtherSteps DEF AppEnds, Tick, WorkerTakesSigint, SignalHandler, vars, life
  <1>4. CASE MainStep
    BY <1>4, MainInv
  <1> QED BY <1>1, <1>2, <1>3, <1>4 DEF Next

LEMMA LifeCorrect == Spec => []LifeInv
  BY InitLife, NextLife, PTL DEF Spec

(* An endpoint is deleted after the threads that use its queues ended,     *)
(* whether its sending thread (removeDaemonEndPoint) or the main thread    *)
(* (stopWorking) deletes it.                                               *)
THEOREM ThreadsEnd == Spec => []ThreadsEndFirst
  <1>1. LifeInv => ThreadsEndFirst
    BY DEF LifeInv
  <1> QED BY <1>1, LifeCorrect, PTL

(* Its destructor runs once: what the shutdown meets in the table no       *)
(* sending thread has deleted or can still delete.                         *)
THEOREM OneDelete == Spec => []DeletedOnce
  <1>1. LifeInv => DeletedOnce
    BY DEF LifeInv
  <1> QED BY <1>1, LifeCorrect, PTL

(* Every pointer a lookup follows with endPointsMutex is alive.            *)
THEOREM TableLives == Spec => []LookupsLive
  <1>1. LifeInv => LookupsLive
    BY DEF LifeInv, LifeType, LeftAlone, LookupsLive, Running, MutexFree, MainHolds, MainStates,
       Alive, Freed
  <1> QED BY <1>1, LifeCorrect, PTL
-----------------------------------------------------------------------------
(* The kinds of messages in each queue.  The thread that passes a message  *)
(* on finds it again at the head of the queue it dequeues from.            *)
FlagType ==
  /\ working \in BOOLEAN /\ workerStopped \in BOOLEAN /\ crashed \in BOOLEAN
  /\ epWorking \in [EndPoints -> BOOLEAN]

RestType ==
  /\ FlagType
  /\ gone \subseteq EndPoints
  /\ loop \in [Loops -> LoopStates] /\ frames \in 0..MaxFrames
  /\ worker \in {"wait", "ended"} /\ timerDeletes \in Nat
  /\ sigints \in 0..MaxSigints

Read == Messages(Commands)
ForApp == Messages({"STEP1", "STEP2", "STEP3 copy", "CHECK_ALIVE"})
ForPeer == Messages({"STEP1 shortened", "STEP2", "STEP3"})

QueueType ==
  /\ incomingQueue \in [EndPoints -> Seq(Read)]
  /\ outgoingQueue \in [EndPoints -> Seq(Read)]
  /\ inQueue \in [EndPoints -> Seq(ForApp)]
  /\ outQueue \in [EndPoints -> Seq(ForPeer)]

Moved ==
  \A e \in EndPoints :
    /\ thread[e]["processIncoming"] = "moved" => incomingQueue[e] # << >>
    /\ thread[e]["processOutgoing"] = "moved" =>
         outgoingQueue[e] # << >> /\ Head(outgoingQueue[e]).kind # "other"

TypeInv == LifeInv /\ RestType /\ QueueType /\ Moved

LEMMA TypeInvSays == TypeInv => TypeOK
  BY DEF TypeInv, LifeInv, LifeType, RestType, FlagType, QueueType, Read, ForApp, ForPeer, TypeOK

LEMMA InitTypes == Init => TypeInv
  <1> SUFFICES ASSUME Init PROVE TypeInv
    OBVIOUS
  <1>1. RestType
    <2>1. Reading \in LoopStates
      BY DEF LoopStates
    <2>2. /\ working = TRUE /\ gone = {} /\ epWorking = [e \in EndPoints |-> FALSE]
          /\ loop = [l \in Loops |-> Reading] /\ frames = 0
          /\ worker = "wait" /\ workerStopped = FALSE /\ timerDeletes = 0
          /\ sigints = 0 /\ crashed = FALSE
      BY DEF Init
    <2>3. FlagType
      BY <2>2, Zenon DEF FlagType
    <2> QED BY <2>1, <2>2, <2>3, EndPointAssumption DEF RestType
  <1>2. QueueType
    BY DEF Init, QueueType
  <1>3. Moved
    BY DEF Init, Moved, Roles
  <1> QED BY <1>1, <1>2, <1>3, InitLife DEF TypeInv

(* enqueue and dequeue at one endpoint. *)
LEMMA Enqueues ==
  ASSUME NEW S, NEW q \in [EndPoints -> Seq(S)], NEW e \in EndPoints, NEW m \in S,
         NEW p, p = [q EXCEPT ![e] = Append(@, m)]
  PROVE  /\ p \in [EndPoints -> Seq(S)]
         /\ \A f \in EndPoints : q[f] # << >> => p[f] # << >> /\ Head(p[f]) = Head(q[f])
  <1>1. q[e] \in Seq(S)
    OBVIOUS
  <1>2. Append(q[e], m) \in Seq(S) /\ Append(q[e], m) # << >>
    BY <1>1, AppendProperties
  <1>3. q[e] # << >> => Head(Append(q[e], m)) = Head(q[e])
    BY <1>1, HeadTailAppend
  <1> QED BY <1>2, <1>3

LEMMA Dequeues ==
  ASSUME NEW S, NEW q \in [EndPoints -> Seq(S)], NEW e \in EndPoints, q[e] # << >>
  PROVE  Head(q[e]) \in S /\ [q EXCEPT ![e] = Tail(@)] \in [EndPoints -> Seq(S)]
  <1>1. q[e] \in Seq(S)
    OBVIOUS
  <1>2. Head(q[e]) \in S /\ Tail(q[e]) \in Seq(S)
    BY <1>1, HeadTailProperties
  <1> QED BY <1>2

(* A step that leaves the queues alone, and no thread begins to move.      *)
NoneMoves ==
  \A e \in EndPoints :
    /\ thread'[e]["processIncoming"] = "moved" => thread[e]["processIncoming"] = "moved"
    /\ thread'[e]["processOutgoing"] = "moved" => thread[e]["processOutgoing"] = "moved"

LEMMA QueuesKept ==
  ASSUME QueueType, Moved, UNCHANGED queues, NoneMoves
  PROVE  QueueType' /\ Moved'
  <1>1. QueueType'
    BY DEF QueueType, queues
  <1>2. Moved'
    BY DEF Moved, queues, NoneMoves
  <1> QED BY <1>1, <1>2

(* The reading loops: they enqueue into incomingQueue and outgoingQueue.   *)
LEMMA LoopTypes ==
  ASSUME TypeInv, NEW l \in Loops, LoopStep(l)
  PROVE  RestType' /\ QueueType' /\ Moved'
  <1> USE DEF TypeInv
  <1>1. ASSUME NEW k \in Commands, frames < MaxFrames
        PROVE  Message(k) \in Read /\ frames + 1 \in 0..MaxFrames
    BY <1>1, EndPointAssumption DEF RestType, Message, Read, Messages
  <1>2. Reading \in LoopStates /\ Exited \in LoopStates /\ NextPass \in LoopStates
    BY DEF LoopStates, NextPass
  <1>3. CASE \E e \in EndPoints : AddDaemonEndPoint(l, e)
    <2>1. PICK e \in EndPoints : AddDaemonEndPoint(l, e)
      BY <1>3
    <2>2. /\ frames < MaxFrames /\ frames' = frames + 1
          /\ loop' = [loop EXCEPT ![l] = [at |-> "hold", ep |-> e, msg |-> Message("STEP1")]]
          /\ epWorking' = [epWorking EXCEPT ![e] = TRUE]
          /\ thread' = [thread EXCEPT ![e] = [r \in Roles |-> "loop"]]
          /\ UNCHANGED <<working, gone, workerVars, main, sigints, crashed>>
          /\ UNCHANGED queues
      BY <2>1 DEF AddDaemonEndPoint, Reads, LoopGoes
    <2>3. [at |-> "hold", ep |-> e, msg |-> Message("STEP1")] \in LoopStates
      BY <1>1, <2>2 DEF LoopStates, Read, Commands
    <2>4. FlagType'
      BY <2>2, Zenon DEF RestType, FlagType, workerVars
    <2>5. RestType'
      BY <1>1, <2>2, <2>3, <2>4 DEF RestType, workerVars, Commands
    <2>6. NoneMoves
      BY <2>2 DEF NoneMoves, LifeInv, LifeType, Roles
    <2> QED BY <2>2, <2>5, <2>6, QueuesKept
  <1>4. CASE \E e \in EndPoints, k \in Kinds : FindService(l, e, k)
    <2>1. PICK e \in EndPoints, k \in Kinds : FindService(l, e, k)
      BY <1>4
    <2>2. /\ frames < MaxFrames /\ frames' = frames + 1 /\ k \in Commands
          /\ loop' = [loop EXCEPT ![l] = [at |-> "found", ep |-> e, msg |-> Message(k)]]
          /\ UNCHANGED <<working, gone, epWorking, thread, workerVars, sigints, crashed>>
          /\ UNCHANGED queues
      BY <2>1, EndPointAssumption DEF FindService, Reads, LoopGoes, life
    <2>3. [at |-> "found", ep |-> e, msg |-> Message(k)] \in LoopStates
      BY <1>1, <2>2 DEF LoopStates, Read
    <2>4. RestType'
      BY <1>1, <2>2, <2>3 DEF RestType, FlagType, workerVars
    <2>5. NoneMoves
      BY <2>2 DEF NoneMoves
    <2> QED BY <2>2, <2>4, <2>5, QueuesKept
  <1>5. CASE GetDaemonEndPoint(l) \/ ExitLoop(l)
    <2>1. UNCHANGED <<working, gone, epWorking, thread, frames, workerVars, sigints>>
          /\ UNCHANGED queues
      BY <1>5 DEF GetDaemonEndPoint, ExitLoop, life
    <2>2. FlagType'
      <3>1. crashed' \in BOOLEAN
        BY <1>5, Zenon DEF GetDaemonEndPoint, ExitLoop, RestType, FlagType
      <3> QED BY <2>1, <3>1, Zenon DEF RestType, FlagType, workerVars
    <2>3. loop' \in [Loops -> LoopStates]
      <3>1. loop[l] \in LoopStates /\ loop \in [Loops -> LoopStates]
        BY DEF RestType
      <3>2. loop[l].at = "found" => [loop[l] EXCEPT !.at = "hold"] \in LoopStates
        BY <3>1 DEF LoopStates, Reading, Exited
      <3> QED BY <1>2, <1>5, <3>1, <3>2 DEF GetDaemonEndPoint, ExitLoop, LoopGoes
    <2>4. RestType'
      BY <2>1, <2>2, <2>3 DEF RestType, workerVars
    <2>5. NoneMoves
      BY <2>1 DEF NoneMoves
    <2> QED BY <2>1, <2>4, <2>5, QueuesKept
  <1>6. CASE EnqueueFrame(l)
    <2>1. /\ loop[l].at = "hold" /\ loop' = [loop EXCEPT ![l] = NextPass]
          /\ UNCHANGED <<working, gone, epWorking, inQueue, outQueue, thread, frames>>
          /\ UNCHANGED workerVars /\ sigints' = sigints
      BY <1>6 DEF EnqueueFrame, LoopGoes, life
    <2>2. loop[l].ep \in EndPoints /\ loop[l].msg \in Read
      BY <2>1 DEF RestType, LoopStates, Reading, Exited, Read
    <2>3. FlagType'
      <3>1. crashed' \in BOOLEAN
        BY <1>6, Zenon DEF EnqueueFrame
      <3> QED BY <2>1, <3>1, Zenon DEF RestType, FlagType, workerVars
    <2>4. RestType'
      BY <1>2, <2>1, <2>3 DEF RestType, workerVars
    <2>5. \/ UNCHANGED <<incomingQueue, outgoingQueue>>
          \/ /\ incomingQueue' = incomingQueue
             /\ outgoingQueue' = [outgoingQueue EXCEPT ![loop[l].ep] = Append(@, loop[l].msg)]
          \/ /\ outgoingQueue' = outgoingQueue
             /\ incomingQueue' = [incomingQueue EXCEPT ![loop[l].ep] = Append(@, loop[l].msg)]
      BY <1>6 DEF EnqueueFrame
    <2>6. \A q \in [EndPoints -> Seq(Read)] : \A p :
            p = [q EXCEPT ![loop[l].ep] = Append(@, loop[l].msg)] =>
              /\ p \in [EndPoints -> Seq(Read)]
              /\ \A f \in EndPoints : q[f] # << >> => p[f] # << >> /\ Head(p[f]) = Head(q[f])
      BY <2>2, Enqueues
    <2>7. /\ QueueType'
          /\ \A f \in EndPoints :
               /\ incomingQueue[f] # << >> => incomingQueue'[f] # << >>
               /\ outgoingQueue[f] # << >> =>
                    outgoingQueue'[f] # << >> /\ Head(outgoingQueue'[f]) = Head(outgoingQueue[f])
      <3> DEFINE Grown(q, p) ==
            /\ p \in [EndPoints -> Seq(Read)]
            /\ \A f \in EndPoints : q[f] # << >> => p[f] # << >> /\ Head(p[f]) = Head(q[f])
      <3>1. /\ incomingQueue \in [EndPoints -> Seq(Read)]
            /\ outgoingQueue \in [EndPoints -> Seq(Read)]
        BY DEF QueueType
      <3>2. Grown(incomingQueue, incomingQueue')
        BY <2>5, <2>6, <3>1
      <3>3. Grown(outgoingQueue, outgoingQueue')
        BY <2>5, <2>6, <3>1
      <3> HIDE DEF Read
      <3> QED BY <2>1, <3>2, <3>3 DEF QueueType
    <2>8. Moved'
      BY <2>1, <2>7 DEF Moved
    <2> QED BY <2>4, <2>7, <2>8
  <1> QED BY <1>3, <1>4, <1>5, <1>6 DEF LoopStep

(* The threads that process: each moves a message and then dequeues it.    *)
LEMMA RestKept == ASSUME RestType, UnchangedByThreads PROVE RestType'
  BY DEF RestType, FlagType, UnchangedByThreads, life, workerVars

LEMMA IncomingTypes ==
  ASSUME TypeInv, NEW e \in EndPoints, ProcessIncoming(e)
  PROVE  RestType' /\ QueueType' /\ Moved'
  <1> USE DEF TypeInv
  <1>1. UnchangedByThreads
    BY DEF ProcessIncoming, MoveIncoming, KeepIncoming, DequeueIncoming, EndThread
  <1>2. RestType'
    BY <1>1, RestKept
  <1>3. /\ "processIncoming" \in Roles /\ "processOutgoing" \in Roles
        /\ AfterPass(e) \in {"loop", "ended"}
        /\ LifeType
    BY DEF Roles, AfterPass, LifeInv
  <1>4. \A f \in EndPoints : thread'[f]["processOutgoing"] = thread[f]["processOutgoing"]
    <2>1. \E to : thread' = [thread EXCEPT ![e]["processIncoming"] = to]
      BY DEF ProcessIncoming, MoveIncoming, KeepIncoming, DequeueIncoming,
         EndThread, ThreadGoes
    <2> QED BY <1>3, <2>1 DEF LifeType
  <1>5. CASE MoveIncoming(e)
    <2>1. /\ incomingQueue[e] # << >> /\ Head(incomingQueue[e]).kind \in {"STEP1", "STEP2"}
          /\ inQueue' = [inQueue EXCEPT ![e] = Append(@, Head(incomingQueue[e]))]
          /\ UNCHANGED <<incomingQueue, outgoingQueue, outQueue>>
      BY <1>5 DEF MoveIncoming
    <2>2. Head(incomingQueue[e]) \in Read
      BY <2>1, Dequeues DEF QueueType
    <2>3. Head(incomingQueue[e]) \in ForApp
      BY <2>1, <2>2 DEF Read, ForApp, Messages
    <2>4. inQueue' \in [EndPoints -> Seq(ForApp)]
      BY <2>1, <2>3, Enqueues DEF QueueType
    <2>5. QueueType'
      BY <2>1, <2>4 DEF QueueType
    <2>6. \A f \in EndPoints : f # e => thread'[f] = thread[f]
      BY <1>5 DEF MoveIncoming, ThreadGoes, LifeInv, LifeType
    <2>7. Moved'
      BY <1>4, <2>1, <2>6 DEF Moved
    <2> QED BY <1>2, <2>5, <2>7
  <1>6. CASE KeepIncoming(e)
    <2>1. incomingQueue[e] # << >> /\ UNCHANGED queues
      BY <1>6 DEF KeepIncoming
    <2>2. \A f \in EndPoints : f # e => thread'[f] = thread[f]
      BY <1>6 DEF KeepIncoming, ThreadGoes, LifeInv, LifeType
    <2>3. Moved'
      BY <1>4, <2>1, <2>2 DEF Moved, queues
    <2> QED BY <1>2, <2>1, <2>3 DEF QueueType, queues
  <1>7. CASE DequeueIncoming(e)
    <2>1. /\ thread[e]["processIncoming"] = "moved"
          /\ incomingQueue' = [incomingQueue EXCEPT ![e] = Tail(@)]
          /\ UNCHANGED <<outgoingQueue, inQueue, outQueue>>
      BY <1>7 DEF DequeueIncoming, ThreadGoes
    <2>2. incomingQueue[e] # << >>
      BY <2>1 DEF Moved
    <2>3. incomingQueue' \in [EndPoints -> Seq(Read)]
      BY <2>1, <2>2, Dequeues DEF QueueType
    <2>4. QueueType'
      BY <2>1, <2>3 DEF QueueType
    <2>5. \A f \in EndPoints : thread'[f]["processIncoming"] = "moved" =>
            f # e /\ thread[f]["processIncoming"] = "moved"
      BY <1>3, <1>7 DEF DequeueIncoming, ThreadGoes, LifeInv, LifeType
    <2>6. \A f \in EndPoints : f # e => incomingQueue'[f] = incomingQueue[f]
      BY <2>1 DEF QueueType
    <2>7. Moved'
      BY <1>4, <2>1, <2>5, <2>6 DEF Moved
    <2> QED BY <1>2, <2>4, <2>7
  <1>8. CASE EndThread(e, "processIncoming")
    <2>1. NoneMoves
      BY <1>3, <1>8 DEF EndThread, ThreadGoes, NoneMoves, LifeInv, LifeType
    <2> QED BY <1>2, <1>8, <2>1, QueuesKept DEF EndThread
  <1> QED BY <1>5, <1>6, <1>7, <1>8 DEF ProcessIncoming

LEMMA OutgoingTypes ==
  ASSUME TypeInv, NEW e \in EndPoints, ProcessOutgoing(e)
  PROVE  RestType' /\ QueueType' /\ Moved'
  <1> USE DEF TypeInv
  <1>1. UnchangedByThreads
    BY DEF ProcessOutgoing, MoveOutgoing, DequeueOutgoing, EndThread
  <1>2. RestType'
    BY <1>1, RestKept
  <1>3. /\ "processIncoming" \in Roles /\ "processOutgoing" \in Roles
        /\ AfterPass(e) \in {"loop", "ended"}
        /\ LifeType
    BY DEF Roles, AfterPass, LifeInv
  <1>4. \A f \in EndPoints : thread'[f]["processIncoming"] = thread[f]["processIncoming"]
    <2>1. \E to : thread' = [thread EXCEPT ![e]["processOutgoing"] = to]
      BY DEF ProcessOutgoing, MoveOutgoing, DequeueOutgoing, EndThread, ThreadGoes
    <2> QED BY <1>3, <2>1 DEF LifeType
  <1>5. CASE MoveOutgoing(e)
    <2>1. /\ outgoingQueue[e] # << >> /\ Head(outgoingQueue[e]).kind # "other"
          /\ outQueue' = [outQueue EXCEPT ![e] = Append(@, Outgoing(Head(outgoingQueue[e])))]
          /\ UNCHANGED <<incomingQueue, outgoingQueue, inQueue>>
      BY <1>5 DEF MoveOutgoing
    <2>2. Head(outgoingQueue[e]) \in Read
      BY <2>1, Dequeues DEF QueueType
    <2>3. Outgoing(Head(outgoingQueue[e])) \in ForPeer
      BY <2>1, <2>2 DEF Outgoing, Read, ForPeer, Messages, Commands
    <2>4. outQueue' \in [EndPoints -> Seq(ForPeer)]
      BY <2>1, <2>3, Enqueues DEF QueueType
    <2>5. QueueType'
      BY <2>1, <2>4 DEF QueueType
    <2>6. \A f \in EndPoints : f # e => thread'[f] = thread[f]
      BY <1>5 DEF MoveOutgoing, ThreadGoes, LifeInv, LifeType
    <2>7. Moved'
      BY <1>4, <2>1, <2>6 DEF Moved
    <2> QED BY <1>2, <2>5, <2>7
  <1>6. CASE DequeueOutgoing(e)
    <2> DEFINE m == Head(outgoingQueue[e])
    <2>1. /\ thread[e]["processOutgoing"] = "moved"
          /\ outgoingQueue' = [outgoingQueue EXCEPT ![e] = Tail(@)]
          /\ inQueue' = IF m.kind = "STEP3"
                        THEN [inQueue EXCEPT ![e] = Append(@, [m EXCEPT !.kind = "STEP3 copy"])]
                        ELSE inQueue
          /\ UNCHANGED <<incomingQueue, outQueue>>
      BY <1>6 DEF DequeueOutgoing, ThreadGoes
    <2>2. outgoingQueue[e] # << >>
      BY <2>1 DEF Moved
    <2>3. m \in Read /\ outgoingQueue' \in [EndPoints -> Seq(Read)]
      BY <2>1, <2>2, Dequeues DEF QueueType
    <2>4. [m EXCEPT !.kind = "STEP3 copy"] \in ForApp
      BY <2>3 DEF Read, ForApp, Messages
    <2>5. inQueue' \in [EndPoints -> Seq(ForApp)]
      <3>1. CASE m.kind = "STEP3"
        BY <2>1, <2>4, <3>1, Enqueues DEF QueueType
      <3>2. CASE m.kind # "STEP3"
        BY <2>1, <3>2 DEF QueueType
      <3> QED BY <3>1, <3>2
    <2>6. QueueType'
      BY <2>1, <2>3, <2>5 DEF QueueType
    <2>7. \A f \in EndPoints : thread'[f]["processOutgoing"] = "moved" =>
            f # e /\ thread[f]["processOutgoing"] = "moved"
      BY <1>3, <1>6 DEF DequeueOutgoing, ThreadGoes, LifeInv, LifeType
    <2>8. \A f \in EndPoints : f # e => outgoingQueue'[f] = outgoingQueue[f]
      BY <2>1 DEF QueueType
    <2>9. Moved'
      BY <1>4, <2>1, <2>7, <2>8 DEF Moved
    <2> QED BY <1>2, <2>6, <2>9
  <1>7. CASE EndThread(e, "processOutgoing")
    <2>1. NoneMoves
      BY <1>3, <1>7 DEF EndThread, ThreadGoes, NoneMoves, LifeInv, LifeType
    <2> QED BY <1>2, <1>7, <2>1, QueuesKept DEF EndThread
  <1> QED BY <1>5, <1>6, <1>7 DEF ProcessOutgoing

(* Draining the queues of an endpoint none of whose threads moves.         *)
LEMMA Drained ==
  ASSUME QueueType, Moved, NEW e \in EndPoints, Emptied(e), NoneMoves,
         thread'[e]["processIncoming"] # "moved", thread'[e]["processOutgoing"] # "moved"
  PROVE  QueueType' /\ Moved'
  <1>1. QueueType'
    BY DEF QueueType, Emptied
  <1>2. \A f \in EndPoints : f # e =>
          incomingQueue'[f] = incomingQueue[f] /\ outgoingQueue'[f] = outgoingQueue[f]
    BY DEF QueueType, Emptied
  <1>3. Moved'
    BY <1>2 DEF Moved, NoneMoves
  <1> QED BY <1>1, <1>3

LEMMA SendTypes ==
  ASSUME TypeInv, NEW e \in EndPoints, SendOut(e) \/ SendIn(e)
  PROVE  RestType' /\ QueueType' /\ Moved'
  <1> USE DEF TypeInv
  <1>1. \A f \in EndPoints :
          /\ thread'[f]["processIncoming"] = thread[f]["processIncoming"]
          /\ thread'[f]["processOutgoing"] = thread[f]["processOutgoing"]
    <2>1. \E r \in {"sendOut", "sendIn"} : \E to : thread' = [thread EXCEPT ![e][r] = to]
      BY DEF SendOut, SendPacketOutside, SendIn, SendPacketToApp, EndThread, SendFails,
         RemoveDaemonEndPoint, JoinOthers, EraseEndPoint, DeleteEndPoint, UseDeleted, ThreadGoes
    <2>2. \A r \in {"sendOut", "sendIn"} : r # "processIncoming" /\ r # "processOutgoing"
      OBVIOUS
    <2> QED BY <2>1, <2>2 DEF LifeInv, LifeType, Roles
  <1>2. NoneMoves
    BY <1>1 DEF NoneMoves
  <1>3. CASE SendPacketOutside(e) \/ SendPacketToApp(e)
    <2>1. RestType'
      BY <1>3, RestKept DEF SendPacketOutside, SendPacketToApp
    <2>2. UNCHANGED <<incomingQueue, outgoingQueue>>
      BY <1>3 DEF SendPacketOutside, SendPacketToApp
    <2>3. /\ inQueue' \in [EndPoints -> Seq(ForApp)]
          /\ outQueue' \in [EndPoints -> Seq(ForPeer)]
      <3>1. CASE SendPacketOutside(e)
        BY <3>1, Dequeues DEF SendPacketOutside, QueueType
      <3>2. CASE SendPacketToApp(e)
        BY <3>2, Dequeues DEF SendPacketToApp, QueueType
      <3> QED BY <1>3, <3>1, <3>2
    <2>4. QueueType' /\ Moved'
      BY <1>1, <2>2, <2>3 DEF QueueType, Moved
    <2> QED BY <2>1, <2>4
  <1>4. CASE EndThread(e, "sendOut") \/ EndThread(e, "sendIn") \/ SendFails(e) \/ JoinOthers(e)
    BY <1>2, <1>4, RestKept, QueuesKept DEF EndThread, SendFails, JoinOthers
  <1>5. CASE RemoveDaemonEndPoint(e) \/ EraseEndPoint(e) \/ UseDeleted(e)
    <2>1. UNCHANGED <<working, gone, loop, frames, workerVars, sigints>> /\ UNCHANGED queues
      BY <1>5 DEF RemoveDaemonEndPoint, EraseEndPoint, UseDeleted
    <2>2. crashed' \in BOOLEAN
      BY <1>5, Zenon DEF RestType, FlagType, RemoveDaemonEndPoint, EraseEndPoint, UseDeleted
    <2>3. epWorking' = epWorking \/ epWorking' = [epWorking EXCEPT ![e] = FALSE]
      BY <1>5 DEF RemoveDaemonEndPoint, EraseEndPoint, UseDeleted, life
    <2>4. FlagType'
      BY <2>1, <2>2, <2>3, Zenon DEF RestType, FlagType, workerVars
    <2>5. RestType'
      BY <2>1, <2>4 DEF RestType, workerVars
    <2> QED BY <1>2, <2>1, <2>5, QueuesKept
  <1>6. CASE DeleteEndPoint(e)
    <2>1. RestType'
      BY <1>6 DEF DeleteEndPoint, RestType, FlagType, workerVars
    <2>2. thread[e]["sendIn"] = "delete" /\ Emptied(e)
      BY <1>6 DEF DeleteEndPoint, ThreadGoes
    <2>3. Ended(e, Others)
      BY <2>2 DEF LifeInv, SenderLast
    <2>4. /\ thread'[e]["processIncoming"] # "moved"
          /\ thread'[e]["processOutgoing"] # "moved"
      BY <1>1, <2>3 DEF Ended, Others, Roles
    <2> QED BY <1>2, <2>1, <2>2, <2>4, Drained
  <1> QED BY <1>3, <1>4, <1>5, <1>6 DEF SendOut, SendIn

(* The worker, the signal handler and the main thread. *)
LEMMA OtherTypes ==
  ASSUME TypeInv,
         Tick \/ WorkerTakesSigint \/ SignalHandler \/ MainStep \/ (\E e \in EndPoints : AppEnds(e))
  PROVE  RestType' /\ QueueType' /\ Moved'
  <1> USE DEF TypeInv
  <1>1. thread' = thread /\ loop' = loop /\ frames' = frames /\ crashed' = crashed
    BY DEF Tick, WorkerTakesSigint, SignalHandler, MainStep, AppEnds, JoinLoops, JoinWorker,
       DeleteStopped, Exit, StopEndPoint
  <1>2. NoneMoves
    BY <1>1 DEF NoneMoves
  <1>3. CASE Tick
    <2>1. RestType'
      BY <1>1, <1>3 DEF Tick, RestType, FlagType, life
    <2>2. CheckAlive \in ForApp
      BY EndPointAssumption DEF CheckAlive, ForApp, Messages
    <2>3. \A e \in EndPoints :
            inQueue[e] \in Seq(ForApp) /\ Append(inQueue[e], CheckAlive) \in Seq(ForApp)
      BY <2>2, AppendProperties DEF QueueType
    <2>4. inQueue' \in [EndPoints -> Seq(ForApp)]
      BY <1>3, <2>3 DEF Tick
    <2>5. UNCHANGED <<incomingQueue, outgoingQueue, outQueue>>
      BY <1>3 DEF Tick
    <2> QED BY <1>1, <2>1, <2>4, <2>5 DEF QueueType, Moved
  <1>4. CASE WorkerTakesSigint \/ SignalHandler \/ (\E e \in EndPoints : AppEnds(e))
    <2>1. /\ UNCHANGED queues /\ epWorking' = epWorking
          /\ working' \in {working, FALSE} /\ workerStopped' \in {workerStopped, TRUE}
      BY <1>4 DEF WorkerTakesSigint, SignalHandler, AppEnds, workerVars, life
    <2>2. FlagType'
      BY <1>1, <2>1, Zenon DEF RestType, FlagType
    <2>3. gone' \subseteq EndPoints /\ worker' \in {"wait", "ended"} /\ timerDeletes' \in Nat
      BY <1>4 DEF WorkerTakesSigint, SignalHandler, AppEnds, workerVars, RestType
    <2>4. sigints' \in 0..MaxSigints
      BY <1>4, EndPointAssumption DEF WorkerTakesSigint, SignalHandler, AppEnds, RestType
    <2> QED BY <1>1, <1>2, <2>1, <2>2, <2>3, <2>4, QueuesKept DEF RestType
  <1>5. CASE JoinLoops \/ JoinWorker \/ Exit \/ (\E e \in EndPoints : StopEndPoint(e))
    <2>1. /\ UNCHANGED queues /\ UNCHANGED <<working, gone, worker, sigints>>
          /\ workerStopped' \in {workerStopped, TRUE}
      BY <1>5 DEF JoinLoops, JoinWorker, Exit, StopEndPoint, workerVars
    <2>2. \/ epWorking' = epWorking
          \/ \E e \in EndPoints : epWorking' = [epWorking EXCEPT ![e] = FALSE]
      BY <1>5 DEF JoinLoops, JoinWorker, Exit, StopEndPoint, life
    <2>3. FlagType'
      BY <1>1, <2>1, <2>2, Zenon DEF RestType, FlagType
    <2>4. timerDeletes' \in Nat
      <3>1. timerDeletes' = timerDeletes \/ timerDeletes' = timerDeletes + 1
        BY <1>5 DEF JoinLoops, JoinWorker, Exit, StopEndPoint, workerVars
      <3> QED BY <3>1 DEF RestType
    <2> QED BY <1>1, <1>2, <2>1, <2>3, <2>4, QueuesKept DEF RestType
  <1>6. CASE DeleteStopped
    <2>1. RestType'
      BY <1>1, <1>6 DEF DeleteStopped, RestType, FlagType, workerVars
    <2>2. main.at = "join" /\ Ended(main.ep, Roles) /\ Emptied(main.ep)
      BY <1>6 DEF DeleteStopped, MainGoes
    <2>3. main.ep \in EndPoints
      BY <2>2 DEF LifeInv, LifeType, LeftAlone
    <2>4. /\ thread'[main.ep]["processIncoming"] # "moved"
          /\ thread'[main.ep]["processOutgoing"] # "moved"
      BY <1>1, <2>2 DEF Ended, Roles
    <2> QED BY <1>2, <2>1, <2>2, <2>3, <2>4, Drained
  <1> QED BY <1>3, <1>4, <1>5, <1>6 DEF MainStep

LEMMA NextTypes == TypeInv /\ [Next]_vars => TypeInv'
  <1> SUFFICES ASSUME TypeInv, [Next]_vars PROVE TypeInv'
    OBVIOUS
  <1>1. LifeInv'
    BY NextLife DEF TypeInv
  <1>2. RestType' /\ QueueType' /\ Moved'
    <2>1. CASE UNCHANGED vars
      BY <2>1 DEF vars, life, queues, workerVars, TypeInv, RestType, FlagType, QueueType, Moved
    <2>2. CASE Next
      BY <2>2, LoopTypes, IncomingTypes, OutgoingTypes, SendTypes, OtherTypes DEF Next
    <2> QED BY <2>1, <2>2
  <1> QED BY <1>1, <1>2 DEF TypeInv

(* What the queues between the threads can hold: a frame that leaves the   *)
(* host carries no address parameter and no unknown command, and no STEP3  *)
(* of the peer reaches the application (processingIncomingMessage,         *)
(* processingOutgoingMessage).                                             *)
THEOREM TypeCorrect == Spec => []TypeOK
  <1>1. Spec => []TypeInv
    BY InitTypes, NextTypes, PTL DEF Spec
  <1> QED BY <1>1, TypeInvSays, PTL

-----------------------------------------------------------------------------
(* Which messages are in which queues.  A message is in one queue of its    *)
(* endpoint, but for the one a thread is about to dequeue again.            *)
FromPeer(e) == Range(incomingQueue[e]) \cup Range(inQueue[e])
FromApp(e) == Range(outgoingQueue[e]) \cup Range(outQueue[e])
InQueues(e) == FromPeer(e) \cup FromApp(e)
Copied(m) == [m EXCEPT !.kind = "STEP3 copy"]

EachOnce(e) ==
  /\ NoneTwice(incomingQueue[e]) /\ NoneTwice(outgoingQueue[e])
  /\ NoneTwice(inQueue[e]) /\ NoneTwice(outQueue[e])

Apart(e) == FromPeer(e) \cap FromApp(e) = {}

HeadIn(e) ==
  \A m \in Range(incomingQueue[e]) \cap Range(inQueue[e]) :
    thread[e]["processIncoming"] = "moved" /\ m = Head(incomingQueue[e])

HeadOut(e) ==
  \A m \in Range(outgoingQueue[e]) : Outgoing(m) \in Range(outQueue[e]) =>
    thread[e]["processOutgoing"] = "moved" /\ m = Head(outgoingQueue[e])

(* STEP3 is copied for the application when it leaves the queue, not before.*)
CopiesLast(e) ==
  \A m \in Range(outgoingQueue[e]) :
    m.kind = "STEP3" => Copied(m) \notin Range(inQueue[e])

OrderAt(e) == EachOnce(e) /\ Apart(e) /\ HeadIn(e) /\ HeadOut(e) /\ CopiesLast(e)

(* What a reading loop holds is in no queue, nor does another hold it.      *)
Holds(l) == loop[l].at \in {"found", "hold"}
NewFrames ==
  /\ \A l \in Loops : Holds(l) =>
       /\ loop[l].msg.frame \in 1..frames
       /\ \A e \in EndPoints : \A m \in InQueues(e) : m.frame # loop[l].msg.frame
  /\ \A k, l \in Loops :
       Holds(k) /\ Holds(l) /\ loop[k].msg.frame = loop[l].msg.frame => k = l
  /\ \A e \in EndPoints : \A m \in InQueues(e) : m.frame <= frames

MessageInv == NewFrames /\ \A e \in EndPoints : OrderAt(e)

(* Sequences of messages: what appending one and taking one off do.         *)
LEMMA AppendedOnce ==
  ASSUME NEW S, NEW s \in Seq(S), NEW m \in S
  PROVE  /\ Range(Append(s, m)) = Range(s) \cup {m}
         /\ NoneTwice(s) /\ (m \in Range(s) => m = CheckAlive) => NoneTwice(Append(s, m))
  <1> DEFINE t == Append(s, m)
  <1>1. /\ t \in Seq(S) /\ Len(t) = Len(s) + 1
        /\ \A i \in 1..Len(s) : t[i] = s[i]
        /\ t[Len(s) + 1] = m
    BY AppendProperties
  <1>2. /\ Len(s) \in Nat /\ DOMAIN s = 1..Len(s) /\ DOMAIN t = 1..(Len(s) + 1)
    BY <1>1, LenProperties
  <1> HIDE DEF t
  <1>3. Range(t) = Range(s) \cup {m}
    BY <1>1, <1>2 DEF Range
  <1>4. ASSUME NoneTwice(s), m \in Range(s) => m = CheckAlive PROVE NoneTwice(t)
    <2> SUFFICES ASSUME NEW i \in DOMAIN t, NEW j \in DOMAIN t,
                        t[i] = t[j], t[i] # CheckAlive
                 PROVE  i = j
      BY DEF NoneTwice
    <2>1. CASE i \in DOMAIN s /\ j \in DOMAIN s
      BY <1>1, <1>2, <1>4, <2>1 DEF NoneTwice
    <2>2. CASE i \in DOMAIN s /\ j \notin DOMAIN s
      <3>1. s[i] = m
        BY <1>1, <1>2, <2>2
      <3> QED BY <1>1, <1>2, <1>4, <2>2, <3>1 DEF Range
    <2>3. CASE i \notin DOMAIN s /\ j \in DOMAIN s
      <3>1. s[j] = m /\ t[i] = m
        BY <1>1, <1>2, <2>3
      <3> QED BY <1>1, <1>2, <1>4, <2>3, <3>1 DEF Range
    <2> QED BY <1>2, <2>1, <2>2, <2>3
  <1> QED BY <1>3, <1>4 DEF t

LEMMA TakenOnce ==
  ASSUME NEW S, NEW s \in Seq(S), s # << >>
  PROVE  /\ Head(s) \in Range(s)
         /\ Range(s) = Range(Tail(s)) \cup {Head(s)}
         /\ NoneTwice(s) => NoneTwice(Tail(s))
         /\ NoneTwice(s) /\ Head(s) # CheckAlive => Head(s) \notin Range(Tail(s))
  <1> DEFINE t == Tail(s)
  <1>1. /\ t \in Seq(S) /\ Len(t) = Len(s) - 1
        /\ \A i \in 1..Len(t) : t[i] = s[i + 1]
        /\ Head(s) = s[1]
    BY HeadTailProperties
  <1>2. Len(s) \in Nat \ {0} /\ DOMAIN s = 1..Len(s) /\ DOMAIN t = 1..(Len(s) - 1)
    BY <1>1, LenProperties, EmptySeq
  <1>3. Head(s) \in Range(s)
    BY <1>1, <1>2 DEF Range
  <1> HIDE DEF t
  <1>4. Range(s) = Range(t) \cup {Head(s)}
    <2>1. ASSUME NEW m \in Range(t) PROVE m \in Range(s)
      <3>1. PICK i \in DOMAIN t : t[i] = m
        BY DEF Range
      <3>2. i + 1 \in DOMAIN s /\ s[i + 1] = m
        BY <1>1, <1>2, <3>1
      <3> QED BY <3>2 DEF Range
    <2>2. ASSUME NEW m \in Range(s), m # Head(s) PROVE m \in Range(t)
      <3>1. PICK i \in DOMAIN s : s[i] = m
        BY DEF Range
      <3>2. i - 1 \in DOMAIN t /\ (i - 1) + 1 = i
        BY <1>1, <1>2, <2>2, <3>1
      <3>3. t[i - 1] = m
        BY <1>1, <1>2, <3>1, <3>2
      <3> QED BY <3>2, <3>3 DEF Range
    <2> QED BY <1>3, <2>1, <2>2
  <1>5. ASSUME NoneTwice(s) PROVE NoneTwice(t)
    <2> SUFFICES ASSUME NEW i \in DOMAIN t, NEW j \in DOMAIN t,
                        t[i] = t[j], t[i] # CheckAlive
                 PROVE  i = j
      BY DEF NoneTwice
    <2>1. i + 1 \in DOMAIN s /\ j + 1 \in DOMAIN s /\ s[i + 1] = t[i] /\ s[j + 1] = t[j]
      BY <1>1, <1>2
    <2>2. i + 1 = j + 1
      BY <1>5, <2>1 DEF NoneTwice
    <2> QED BY <1>2, <2>2
  <1>6. ASSUME NoneTwice(s), Head(s) # CheckAlive, Head(s) \in Range(t) PROVE FALSE
    <2>1. PICK i \in DOMAIN t : t[i] = Head(s)
      BY <1>6 DEF Range
    <2>2. 1 \in DOMAIN s /\ i + 1 \in DOMAIN s /\ s[i + 1] = s[1] /\ s[1] # CheckAlive
      BY <1>1, <1>2, <1>6, <2>1
    <2>3. i + 1 = 1
      BY <1>6, <2>2 DEF NoneTwice
    <2> QED BY <1>2, <2>1, <2>3
  <1> QED BY <1>3, <1>4, <1>5, <1>6 DEF t

LEMMA JoinedOnce ==
  ASSUME NEW S, NEW s \in Seq(S), NEW t \in Seq(S), NoneTwice(s), NoneTwice(t),
         Range(s) \cap Range(t) \subseteq {CheckAlive}
  PROVE  /\ s \o t \in Seq(S) /\ NoneTwice(s \o t)
         /\ Range(s \o t) \subseteq Range(s) \cup Range(t)
  <1> DEFINE u == s \o t
  <1>1. /\ u \in Seq(S) /\ Len(u) = Len(s) + Len(t)
        /\ \A i \in 1..(Len(s) + Len(t)) :
             u[i] = IF i <= Len(s) THEN s[i] ELSE t[i - Len(s)]
    BY ConcatProperties
  <1>2. /\ Len(s) \in Nat /\ DOMAIN s = 1..Len(s)
        /\ Len(t) \in Nat /\ DOMAIN t = 1..Len(t)
        /\ DOMAIN u = 1..(Len(s) + Len(t))
    BY <1>1, LenProperties
  <1> HIDE DEF u
  <1>3. \A i \in DOMAIN u :
          \/ i \in DOMAIN s /\ u[i] = s[i] /\ s[i] \in Range(s)
          \/ /\ i \notin DOMAIN s /\ i - Len(s) \in DOMAIN t
             /\ u[i] = t[i - Len(s)] /\ t[i - Len(s)] \in Range(t)
    BY <1>1, <1>2 DEF Range
  <1>4. Range(u) \subseteq Range(s) \cup Range(t)
    BY <1>3 DEF Range
  <1>5. NoneTwice(u)
    <2> SUFFICES ASSUME NEW i \in DOMAIN u, NEW j \in DOMAIN u,
                        u[i] = u[j], u[i] # CheckAlive
                 PROVE  i = j
      BY DEF NoneTwice
    <2>1. i \in DOMAIN s <=> j \in DOMAIN s
      BY <1>3
    <2>2. CASE i \in DOMAIN s /\ j \in DOMAIN s
      BY <1>3, <2>2 DEF NoneTwice
    <2>3. CASE i \notin DOMAIN s /\ j \notin DOMAIN s
      <3>1. /\ i - Len(s) \in DOMAIN t /\ u[i] = t[i - Len(s)]
            /\ j - Len(s) \in DOMAIN t /\ u[j] = t[j - Len(s)]
        BY <1>3, <2>3
      <3>2. i - Len(s) = j - Len(s)
        BY <3>1 DEF NoneTwice
      <3> QED BY <1>2, <3>2
    <2> QED BY <2>1, <2>2, <2>3
  <1> QED BY <1>1, <1>4, <1>5 DEF u

(* The kinds keep the messages of different queues apart.                   *)
LEMMA KindsApart ==
  ASSUME NEW m \in Read
  PROVE  /\ Outgoing(m).frame = m.frame /\ Copied(m).frame = m.frame
         /\ Outgoing(m) \in Read \cup ForApp => Outgoing(m) = m
         /\ Copied(m) \notin Read \cup ForPeer
         /\ m # CheckAlive /\ Outgoing(m) # CheckAlive /\ Copied(m) # CheckAlive
         /\ \A n \in Read : Outgoing(n) = Outgoing(m) => n = m
         /\ \A n \in Read : m.kind = "STEP3" /\ n.kind = "STEP3" /\ Copied(n) = Copied(m) => n = m
  <1> USE DEF Read, Messages, Commands, Outgoing, Copied
  <1>1. Outgoing(m).frame = m.frame /\ Copied(m).frame = m.frame
    OBVIOUS
  <1>2. Outgoing(m) \in Read \cup ForApp => Outgoing(m) = m
    BY DEF ForApp
  <1>3. Copied(m) \notin Read \cup ForPeer
    BY DEF ForPeer
  <1>4. m # CheckAlive /\ Outgoing(m) # CheckAlive /\ Copied(m) # CheckAlive
    <2>1. CheckAlive.kind = "CHECK_ALIVE"
      BY DEF CheckAlive
    <2>2. m.kind \in Commands /\ Copied(m).kind = "STEP3 copy"
      OBVIOUS
    <2>3. Outgoing(m).kind \in {m.kind, "STEP1 shortened"}
      OBVIOUS
    <2> QED BY <2>1, <2>2, <2>3
  <1>5. \A n \in Read : n.frame = m.frame /\ n.kind = m.kind => n = m
    OBVIOUS
  <1>6. ASSUME NEW n \in Read, Outgoing(n) = Outgoing(m) PROVE n = m
    <2>1. \A k \in Read : /\ Outgoing(k).frame = k.frame
                          /\ Outgoing(k).kind = IF k.kind = "STEP1" THEN "STEP1 shortened"
                                                ELSE k.kind
                          /\ k.kind # "STEP1 shortened"
      OBVIOUS
    <2>2. n.frame = m.frame /\ n.kind = m.kind
      BY <1>6, <2>1
    <2> QED BY <1>5, <2>2
  <1>7. ASSUME NEW n \in Read, m.kind = "STEP3", n.kind = "STEP3", Copied(n) = Copied(m)
        PROVE  n = m
    <2>1. Copied(n).frame = n.frame /\ Copied(m).frame = m.frame
      OBVIOUS
    <2> QED BY <1>5, <1>7, <2>1
  <1> QED BY <1>1, <1>2, <1>3, <1>4, <1>6, <1>7

LEMMA RangeTypes ==
  ASSUME QueueType, NEW e \in EndPoints
  PROVE  /\ Range(incomingQueue[e]) \subseteq Read /\ Range(outgoingQueue[e]) \subseteq Read
         /\ Range(inQueue[e]) \subseteq ForApp /\ Range(outQueue[e]) \subseteq ForPeer
  <1>1. /\ incomingQueue[e] \in Seq(Read) /\ outgoingQueue[e] \in Seq(Read)
        /\ inQueue[e] \in Seq(ForApp) /\ outQueue[e] \in Seq(ForPeer)
    BY DEF QueueType
  <1>2. \A S : \A s \in Seq(S) : Range(s) \subseteq S
    BY DEF Range
  <1> QED BY <1>1, <1>2

(* An endpoint whose queues stay as they are, and no thread of it begins or *)
(* ends to move a message.                                                  *)
SameAt(e) ==
  /\ incomingQueue'[e] = incomingQueue[e] /\ outgoingQueue'[e] = outgoingQueue[e]
  /\ inQueue'[e] = inQueue[e] /\ outQueue'[e] = outQueue[e]
  /\ \A r \in {"processIncoming", "processOutgoing"} :
       (thread[e][r] = "moved") <=> (thread'[e][r] = "moved")

LEMMA OrderKept == ASSUME NEW e \in EndPoints, OrderAt(e), SameAt(e) PROVE OrderAt(e)'
  BY DEF OrderAt, EachOnce, Apart, FromPeer, FromApp, HeadIn, HeadOut, CopiesLast, SameAt

(* A step that reads no frame brings no new one into the queues.            *)
NoNewFrames ==
  \A e \in EndPoints : \A m \in InQueues(e)' :
    m = CheckAlive \/ (\E n \in InQueues(e) : m.frame = n.frame)

LEMMA FramesKept ==
  ASSUME TypeInv, NewFrames, NoNewFrames, UNCHANGED <<loop, frames>>
  PROVE  NewFrames'
  <1>1. frames \in Nat /\ CheckAlive.frame = 0
    BY EndPointAssumption DEF TypeInv, RestType, CheckAlive
  <1>2. \A l \in Loops : Holds(l)' <=> Holds(l)
    BY DEF Holds
  <1>3. ASSUME NEW l \in Loops, Holds(l), NEW e \in EndPoints, NEW m \in InQueues(e)'
        PROVE  m.frame # loop[l].msg.frame
    BY <1>1, <1>3 DEF NewFrames, NoNewFrames
  <1>4. ASSUME NEW e \in EndPoints, NEW m \in InQueues(e)' PROVE m.frame <= frames
    BY <1>1 DEF NewFrames, NoNewFrames
  <1> QED BY <1>2, <1>3, <1>4 DEF NewFrames

LEMMA OneMoves ==
  ASSUME TypeInv, MessageInv, UNCHANGED <<loop, frames>>, NEW e \in EndPoints, OrderAt(e)',
         \A f \in EndPoints \ {e} : SameAt(f),
         \A m \in InQueues(e)' : m = CheckAlive \/ (\E n \in InQueues(e) : m.frame = n.frame)
  PROVE  MessageInv'
  <1>1. \A f \in EndPoints \ {e} : InQueues(f)' = InQueues(f)
    BY DEF SameAt, InQueues, FromPeer, FromApp
  <1>2. NoNewFrames
    BY <1>1 DEF NoNewFrames
  <1>3. NewFrames'
    BY <1>2, FramesKept DEF MessageInv
  <1>4. \A f \in EndPoints : OrderAt(f)'
    BY OrderKept DEF MessageInv
  <1> QED BY <1>3, <1>4 DEF MessageInv

(* Nothing but the threads moves.                                           *)
LEMMA AllSame ==
  ASSUME TypeInv, MessageInv, UNCHANGED <<loop, frames>>, \A e \in EndPoints : SameAt(e)
  PROVE  MessageInv'
  <1>1. \A e \in EndPoints : InQueues(e)' = InQueues(e)
    BY DEF SameAt, InQueues, FromPeer, FromApp
  <1>2. NewFrames'
    BY <1>1, FramesKept DEF MessageInv, NoNewFrames
  <1> QED BY <1>2, OrderKept DEF MessageInv

(* processingIncomingMessage *)
LEMMA IncomingOrder ==
  ASSUME TypeInv, MessageInv, NEW e \in EndPoints, ProcessIncoming(e)
  PROVE  MessageInv'
  <1> DEFINE h == Head(incomingQueue[e])
  <1>1. UNCHANGED <<loop, frames>>
    BY DEF ProcessIncoming, MoveIncoming, KeepIncoming, DequeueIncoming, EndThread,
       UnchangedByThreads
  <1>2. /\ thread \in [EndPoints -> [Roles -> Labels]] /\ QueueType /\ Moved
        /\ "processIncoming" \in Roles /\ "processOutgoing" \in Roles
    BY DEF TypeInv, LifeInv, LifeType, Roles
  <1>3. /\ \A f \in EndPoints \ {e} : thread'[f] = thread[f]
        /\ thread'[e]["processOutgoing"] = thread[e]["processOutgoing"]
    <2>1. \E to : thread' = [thread EXCEPT ![e]["processIncoming"] = to]
      BY DEF ProcessIncoming, MoveIncoming, KeepIncoming, DequeueIncoming,
         EndThread, ThreadGoes
    <2> QED BY <1>2, <2>1
  <1>4. /\ incomingQueue[e] \in Seq(Read) /\ inQueue[e] \in Seq(ForApp)
        /\ OrderAt(e)
    BY <1>2 DEF QueueType, MessageInv
  <1>5. CASE MoveIncoming(e)
    <2>1. /\ incomingQueue[e] # << >> /\ h.kind \in {"STEP1", "STEP2"}
          /\ inQueue' = [inQueue EXCEPT ![e] = Append(@, h)]
          /\ UNCHANGED <<incomingQueue, outgoingQueue, outQueue>>
          /\ thread[e]["processIncoming"] = "loop"
          /\ thread' = [thread EXCEPT ![e]["processIncoming"] = "moved"]
      BY <1>5 DEF MoveIncoming, ThreadGoes
    <2>2. h \in Range(incomingQueue[e]) /\ h \in Read
      BY <1>4, <2>1, TakenOnce, RangeTypes, <1>2
    <2>3. h \in ForApp
      BY <2>1, <2>2 DEF Read, ForApp, Messages
    <2>4. inQueue'[e] = Append(inQueue[e], h) /\ thread'[e]["processIncoming"] = "moved"
      BY <1>2, <2>1 DEF QueueType
    <2>5. h \notin Range(inQueue[e])
      BY <1>4, <2>1, <2>2 DEF OrderAt, HeadIn
    <2>6. Range(inQueue'[e]) = Range(inQueue[e]) \cup {h} /\ NoneTwice(inQueue'[e])
      BY <1>4, <2>3, <2>4, <2>5, AppendedOnce DEF OrderAt, EachOnce
    <2> HIDE DEF h
    <2>7. EachOnce(e)'
      BY <1>4, <2>1, <2>6 DEF OrderAt, EachOnce
    <2>8. Apart(e)'
      BY <1>4, <2>1, <2>2, <2>6 DEF OrderAt, Apart, FromPeer, FromApp
    <2>9. HeadIn(e)'
      BY <1>4, <2>1, <2>4, <2>6 DEF OrderAt, HeadIn, h
    <2>10. HeadOut(e)'
      BY <1>3, <1>4, <2>1 DEF OrderAt, HeadOut
    <2>11. CopiesLast(e)'
      <3>1. \A m \in Range(outgoingQueue[e]) : Copied(m) # h
        BY <1>2, <2>2, RangeTypes, KindsApart
      <3> QED BY <1>4, <2>1, <2>6, <3>1 DEF OrderAt, CopiesLast
    <2>12. OrderAt(e)'
      BY <2>7, <2>8, <2>9, <2>10, <2>11 DEF OrderAt
    <2>13. InQueues(e)' = InQueues(e)
      BY <2>1, <2>2, <2>6 DEF InQueues, FromPeer, FromApp
    <2>14. \A f \in EndPoints \ {e} : SameAt(f)
      BY <1>2, <1>3, <2>1 DEF SameAt, QueueType
    <2> QED BY <1>1, <2>12, <2>13, <2>14, OneMoves
  <1>6. CASE KeepIncoming(e)
    <2>1. /\ UNCHANGED queues /\ thread[e]["processIncoming"] = "loop"
      BY <1>6 DEF KeepIncoming, ThreadGoes
    <2>2. \A f \in EndPoints \ {e} : SameAt(f)
      BY <1>3, <2>1 DEF SameAt, queues
    <2>3. InQueues(e)' = InQueues(e)
      BY <2>1 DEF queues, InQueues, FromPeer, FromApp
    <2>4. OrderAt(e)'
      BY <1>3, <1>4, <2>1 DEF queues, OrderAt, EachOnce, Apart, FromPeer, FromApp,
                              HeadIn, HeadOut, CopiesLast
    <2> QED BY <1>1, <2>2, <2>3, <2>4, OneMoves
  <1>7. CASE DequeueIncoming(e)
    <2>1. /\ incomingQueue' = [incomingQueue EXCEPT ![e] = Tail(@)]
          /\ UNCHANGED <<outgoingQueue, inQueue, outQueue>>
          /\ thread[e]["processIncoming"] = "moved"
      BY <1>7 DEF DequeueIncoming, ThreadGoes
    <2>2. incomingQueue[e] # << >> /\ incomingQueue'[e] = Tail(incomingQueue[e])
      BY <1>2, <2>1 DEF Moved, QueueType
    <2>3. h \in Range(incomingQueue[e]) /\ h \in Read /\ h # CheckAlive
      BY <1>2, <1>4, <2>2, TakenOnce, RangeTypes, KindsApart
    <2>4. /\ NoneTwice(incomingQueue'[e]) /\ h \notin Range(incomingQueue'[e])
          /\ Range(incomingQueue'[e]) \subseteq Range(incomingQueue[e])
      BY <1>4, <2>2, <2>3, TakenOnce DEF OrderAt, EachOnce
    <2> HIDE DEF h
    <2>5. EachOnce(e)'
      BY <1>4, <2>1, <2>4 DEF OrderAt, EachOnce
    <2>6. Apart(e)'
      BY <1>4, <2>1, <2>4 DEF OrderAt, Apart, FromPeer, FromApp
    <2>7. HeadIn(e)'
      BY <1>4, <2>1, <2>4 DEF OrderAt, HeadIn, h
    <2>8. HeadOut(e)' /\ CopiesLast(e)'
      BY <1>3, <1>4, <2>1 DEF OrderAt, HeadOut, CopiesLast
    <2>9. OrderAt(e)'
      BY <2>5, <2>6, <2>7, <2>8 DEF OrderAt
    <2>10. InQueues(e)' \subseteq InQueues(e)
      BY <2>1, <2>4 DEF InQueues, FromPeer, FromApp
    <2>11. \A f \in EndPoints \ {e} : SameAt(f)
      BY <1>2, <1>3, <2>1 DEF SameAt, QueueType
    <2> QED BY <1>1, <2>9, <2>10, <2>11, OneMoves
  <1>8. CASE EndThread(e, "processIncoming")
    <2>1. /\ UNCHANGED queues
          /\ thread[e]["processIncoming"] = "loop" /\ thread'[e]["processIncoming"] = "ended"
      BY <1>2, <1>8 DEF EndThread, ThreadGoes
    <2>2. \A f \in EndPoints : SameAt(f)
      BY <1>3, <2>1 DEF SameAt, queues
    <2> QED BY <1>1, <2>2, AllSame
  <1> QED BY <1>5, <1>6, <1>7, <1>8 DEF ProcessIncoming

(* processingOutgoingMessage *)
LEMMA OutgoingOrder ==
  ASSUME TypeInv, MessageInv, NEW e \in EndPoints, ProcessOutgoing(e)
  PROVE  MessageInv'
  <1> DEFINE h == Head(outgoingQueue[e])
  <1>1. UNCHANGED <<loop, frames>>
    BY DEF ProcessOutgoing, MoveOutgoing, DequeueOutgoing, EndThread, UnchangedByThreads
  <1>2. /\ thread \in [EndPoints -> [Roles -> Labels]] /\ QueueType /\ Moved
        /\ "processIncoming" \in Roles /\ "processOutgoing" \in Roles
    BY DEF TypeInv, LifeInv, LifeType, Roles
  <1>3. /\ \A f \in EndPoints \ {e} : thread'[f] = thread[f]
        /\ thread'[e]["processIncoming"] = thread[e]["processIncoming"]
    <2>1. \E to : thread' = [thread EXCEPT ![e]["processOutgoing"] = to]
      BY DEF ProcessOutgoing, MoveOutgoing, DequeueOutgoing, EndThread, ThreadGoes
    <2> QED BY <1>2, <2>1
  <1>4. /\ outgoingQueue[e] \in Seq(Read) /\ outQueue[e] \in Seq(ForPeer)
        /\ inQueue[e] \in Seq(ForApp) /\ OrderAt(e)
    BY <1>2 DEF QueueType, MessageInv
  <1>5. CASE MoveOutgoing(e)
    <2>1. /\ outgoingQueue[e] # << >> /\ h.kind # "other"
          /\ outQueue' = [outQueue EXCEPT ![e] = Append(@, Outgoing(h))]
          /\ UNCHANGED <<incomingQueue, outgoingQueue, inQueue>>
          /\ thread[e]["processOutgoing"] = "loop"
          /\ thread' = [thread EXCEPT ![e]["processOutgoing"] = "moved"]
      BY <1>5 DEF MoveOutgoing, ThreadGoes
    <2>2. h \in Range(outgoingQueue[e]) /\ h \in Read
      BY <1>4, <2>1, TakenOnce, RangeTypes, <1>2
    <2>3. Outgoing(h) \in ForPeer
      BY <2>1, <2>2 DEF Outgoing, Read, ForPeer, Messages, Commands
    <2>4. /\ outQueue'[e] = Append(outQueue[e], Outgoing(h))
          /\ thread'[e]["processOutgoing"] = "moved"
      BY <1>2, <2>1 DEF QueueType
    <2>5. Outgoing(h) \notin Range(outQueue[e])
      BY <1>4, <2>1, <2>2 DEF OrderAt, HeadOut
    <2>6. /\ Range(outQueue'[e]) = Range(outQueue[e]) \cup {Outgoing(h)}
          /\ NoneTwice(outQueue'[e])
      BY <1>4, <2>3, <2>4, <2>5, AppendedOnce DEF OrderAt, EachOnce
    <2>7. /\ Range(incomingQueue[e]) \subseteq Read /\ Range(inQueue[e]) \subseteq ForApp
          /\ Range(outgoingQueue[e]) \subseteq Read
      BY <1>2, RangeTypes
    <2> HIDE DEF h
    <2>8. EachOnce(e)'
      BY <1>4, <2>1, <2>6 DEF OrderAt, EachOnce
    <2>9. Apart(e)'
      <3>1. Outgoing(h) \in Read \cup ForApp => Outgoing(h) \in Range(outgoingQueue[e])
        BY <2>2, KindsApart
      <3>2. Outgoing(h) \notin FromPeer(e)
        BY <1>4, <2>7, <3>1 DEF OrderAt, Apart, FromPeer, FromApp
      <3> QED BY <1>4, <2>1, <2>6, <3>2 DEF OrderAt, Apart, FromPeer, FromApp
    <2>10. HeadIn(e)' /\ CopiesLast(e)'
      BY <1>3, <1>4, <2>1 DEF OrderAt, HeadIn, CopiesLast
    <2>11. HeadOut(e)'
      <3>1. \A m \in Range(outgoingQueue[e]) : Outgoing(m) = Outgoing(h) => m = h
        BY <2>2, <2>7, KindsApart
      <3> QED BY <1>4, <2>1, <2>4, <2>6, <3>1 DEF OrderAt, HeadOut, h
    <2>12. OrderAt(e)'
      BY <2>8, <2>9, <2>10, <2>11 DEF OrderAt
    <2>13. \A m \in InQueues(e)' : \E n \in InQueues(e) : m.frame = n.frame
      <3>1. InQueues(e)' = InQueues(e) \cup {Outgoing(h)}
        BY <2>1, <2>6 DEF InQueues, FromPeer, FromApp
      <3>2. h \in InQueues(e) /\ Outgoing(h).frame = h.frame
        BY <2>2, KindsApart DEF InQueues, FromApp
      <3> QED BY <3>1, <3>2
    <2>14. \A f \in EndPoints \ {e} : SameAt(f)
      BY <1>2, <1>3, <2>1 DEF SameAt, QueueType
    <2> QED BY <1>1, <2>12, <2>13, <2>14, OneMoves
  <1>6. CASE DequeueOutgoing(e)
    <2>1. /\ outgoingQueue' = [outgoingQueue EXCEPT ![e] = Tail(@)]
          /\ inQueue' = IF h.kind = "STEP3"
                        THEN [inQueue EXCEPT ![e] = Append(@, Copied(h))]
                        ELSE inQueue
          /\ UNCHANGED <<incomingQueue, outQueue>>
          /\ thread[e]["processOutgoing"] = "moved"
      BY <1>6 DEF DequeueOutgoing, ThreadGoes, Copied
    <2>2. outgoingQueue[e] # << >> /\ outgoingQueue'[e] = Tail(outgoingQueue[e])
      BY <1>2, <2>1 DEF Moved, QueueType
    <2>3. h \in Range(outgoingQueue[e]) /\ h \in Read /\ h # CheckAlive
      BY <1>2, <1>4, <2>2, TakenOnce, RangeTypes, KindsApart
    <2>4. /\ NoneTwice(outgoingQueue'[e]) /\ h \notin Range(outgoingQueue'[e])
          /\ Range(outgoingQueue'[e]) \subseteq Range(outgoingQueue[e])
      BY <1>4, <2>2, <2>3, TakenOnce DEF OrderAt, EachOnce
    <2>5. Copied(h) \in ForApp
      BY <2>3 DEF Read, ForApp, Messages, Copied
    <2>6. IF h.kind = "STEP3"
          THEN inQueue'[e] = Append(inQueue[e], Copied(h)) ELSE inQueue'[e] = inQueue[e]
      BY <1>2, <2>1 DEF QueueType
    <2>7. /\ Range(incomingQueue[e]) \subseteq Read /\ Range(outgoingQueue[e]) \subseteq Read
          /\ Range(outQueue[e]) \subseteq ForPeer
      BY <1>2, RangeTypes
    <2>8. /\ NoneTwice(inQueue'[e])
          /\ IF h.kind = "STEP3" THEN Range(inQueue'[e]) = Range(inQueue[e]) \cup {Copied(h)}
                                 ELSE Range(inQueue'[e]) = Range(inQueue[e])
      <3>1. NoneTwice(inQueue[e])
        BY <1>4 DEF OrderAt, EachOnce
      <3>2. CASE h.kind = "STEP3"
        <4>1. Copied(h) \notin Range(inQueue[e])
          BY <1>4, <2>3, <3>2 DEF OrderAt, CopiesLast
        <4>2. /\ NoneTwice(Append(inQueue[e], Copied(h)))
              /\ Range(Append(inQueue[e], Copied(h))) = Range(inQueue[e]) \cup {Copied(h)}
          <5> HIDE DEF h
          <5> QED BY <1>4, <2>5, <3>1, <4>1, AppendedOnce
        <4>3. inQueue'[e] = Append(inQueue[e], Copied(h))
          BY <2>6, <3>2
        <4> HIDE DEF h
        <4> QED BY <3>2, <4>2, <4>3
      <3>3. CASE h.kind # "STEP3"
        BY <2>6, <3>1, <3>3
      <3> QED BY <3>2, <3>3
    <2>9. /\ Copied(h).frame = h.frame /\ Copied(h) \notin Read \cup ForPeer
          /\ \A n \in Read : h.kind = "STEP3" /\ n.kind = "STEP3" /\ Copied(n) = Copied(h)
                             => n = h
      BY <2>3, KindsApart
    <2> HIDE DEF h
    <2>10. Range(inQueue'[e]) \subseteq Range(inQueue[e]) \cup {Copied(h)}
      BY <2>8
    <2>11. EachOnce(e)'
      BY <1>4, <2>1, <2>4, <2>8 DEF OrderAt, EachOnce
    <2>12. Apart(e)'
      BY <1>4, <2>1, <2>4, <2>7, <2>9, <2>10 DEF OrderAt, Apart, FromPeer, FromApp
    <2>13. HeadIn(e)'
      BY <1>3, <1>4, <2>1, <2>7, <2>9, <2>10 DEF OrderAt, HeadIn
    <2>14. HeadOut(e)'
      BY <1>4, <2>1, <2>4 DEF OrderAt, HeadOut, h
    <2>15. CopiesLast(e)'
      <3>1. \A m \in Range(outgoingQueue'[e]) :
              m \in Range(outgoingQueue[e]) /\ m \in Read /\ m # h
        BY <2>4, <2>7
      <3> QED BY <1>4, <2>8, <2>9, <3>1 DEF OrderAt, CopiesLast
    <2>16. OrderAt(e)'
      BY <2>11, <2>12, <2>13, <2>14, <2>15 DEF OrderAt
    <2>17. \A m \in InQueues(e)' : \E n \in InQueues(e) : m.frame = n.frame
      <3>1. InQueues(e)' \subseteq InQueues(e) \cup {Copied(h)}
        BY <2>1, <2>4, <2>10 DEF InQueues, FromPeer, FromApp
      <3>2. h \in InQueues(e)
        BY <2>3 DEF InQueues, FromApp
      <3> QED BY <2>9, <3>1, <3>2
    <2>18. \A f \in EndPoints \ {e} : SameAt(f)
      BY <1>2, <1>3, <2>1 DEF SameAt, QueueType
    <2> QED BY <1>1, <2>16, <2>17, <2>18, OneMoves
  <1>7. CASE EndThread(e, "processOutgoing")
    <2>1. /\ UNCHANGED queues
          /\ thread[e]["processOutgoing"] = "loop" /\ thread'[e]["processOutgoing"] = "ended"
      BY <1>2, <1>7 DEF EndThread, ThreadGoes
    <2>2. \A f \in EndPoints : SameAt(f)
      BY <1>3, <2>1 DEF SameAt, queues
    <2> QED BY <1>1, <2>2, AllSame
  <1> QED BY <1>5, <1>6, <1>7 DEF ProcessOutgoing

(* An endpoint whose queues were drained, or lost a message at their head.  *)
LEMMA DrainedOrder ==
  ASSUME TypeInv, MessageInv, NEW e \in EndPoints, Emptied(e), UNCHANGED <<loop, frames>>,
         \A f \in EndPoints \ {e} : \A r \in {"processIncoming", "processOutgoing"} :
           (thread[f][r] = "moved") <=> (thread'[f][r] = "moved")
  PROVE  MessageInv'
  <1>1. QueueType
    BY DEF TypeInv
  <1>2. /\ incomingQueue'[e] = << >> /\ outgoingQueue'[e] = << >>
        /\ inQueue'[e] = << >> /\ outQueue'[e] = << >>
    BY <1>1 DEF Emptied, QueueType
  <1>3. NoneTwice(<< >>) /\ Range(<< >>) = {}
    BY DEF NoneTwice, Range
  <1>4. OrderAt(e)'
    BY <1>2, <1>3 DEF OrderAt, EachOnce, Apart, FromPeer, FromApp, HeadIn, HeadOut, CopiesLast
  <1>5. InQueues(e)' = {}
    BY <1>2, <1>3 DEF InQueues, FromPeer, FromApp
  <1>6. \A f \in EndPoints \ {e} : SameAt(f)
    BY <1>1 DEF SameAt, Emptied, QueueType
  <1> QED BY <1>4, <1>5, <1>6, OneMoves

(* sendPacketOutside, sendPacketToApp, and the end of the endpoint.         *)
LEMMA SendOrder ==
  ASSUME TypeInv, MessageInv, NEW e \in EndPoints, SendOut(e) \/ SendIn(e)
  PROVE  MessageInv'
  <1>1. UNCHANGED <<loop, frames>>
    BY DEF SendOut, SendPacketOutside, SendIn, SendPacketToApp, EndThread, SendFails,
       RemoveDaemonEndPoint, JoinOthers, EraseEndPoint, DeleteEndPoint, UseDeleted,
       UnchangedByThreads
  <1>2. QueueType /\ OrderAt(e)
    BY DEF TypeInv, MessageInv
  <1>3. \A f \in EndPoints : \A r \in {"processIncoming", "processOutgoing"} :
          thread'[f][r] = thread[f][r]
    <2>1. \E r \in {"sendOut", "sendIn"} : \E to : thread' = [thread EXCEPT ![e][r] = to]
      BY DEF SendOut, SendPacketOutside, SendIn, SendPacketToApp, EndThread, SendFails,
         RemoveDaemonEndPoint, JoinOthers, EraseEndPoint, DeleteEndPoint, UseDeleted, ThreadGoes
    <2>2. \A r \in {"sendOut", "sendIn"} : r # "processIncoming" /\ r # "processOutgoing"
      OBVIOUS
    <2> QED BY <2>1, <2>2 DEF TypeInv, LifeInv, LifeType, Roles
  <1>4. CASE SendPacketOutside(e)
    <2>1. /\ outQueue[e] # << >> /\ outQueue' = [outQueue EXCEPT ![e] = Tail(@)]
          /\ UNCHANGED <<incomingQueue, outgoingQueue, inQueue>>
      BY <1>4 DEF SendPacketOutside
    <2>2. /\ outQueue[e] \in Seq(ForPeer) /\ outQueue'[e] = Tail(outQueue[e])
          /\ \A f \in EndPoints \ {e} : outQueue'[f] = outQueue[f]
      BY <1>2, <2>1 DEF QueueType
    <2>3. NoneTwice(outQueue'[e]) /\ Range(outQueue'[e]) \subseteq Range(outQueue[e])
      BY <1>2, <2>1, <2>2, TakenOnce DEF OrderAt, EachOnce
    <2>4. EachOnce(e)' /\ Apart(e)'
      BY <1>2, <2>1, <2>3 DEF OrderAt, EachOnce, Apart, FromPeer, FromApp
    <2>5. HeadIn(e)' /\ HeadOut(e)' /\ CopiesLast(e)'
      BY <1>2, <1>3, <2>1, <2>3 DEF OrderAt, HeadIn, HeadOut, CopiesLast
    <2>6. OrderAt(e)'
      BY <2>4, <2>5 DEF OrderAt
    <2>7. InQueues(e)' \subseteq InQueues(e)
      BY <2>1, <2>3 DEF InQueues, FromPeer, FromApp
    <2>8. \A f \in EndPoints \ {e} : SameAt(f)
      BY <1>3, <2>1, <2>2 DEF SameAt
    <2> QED BY <1>1, <2>6, <2>7, <2>8, OneMoves
  <1>5. CASE SendPacketToApp(e)
    <2>1. /\ inQueue[e] # << >> /\ inQueue' = [inQueue EXCEPT ![e] = Tail(@)]
          /\ UNCHANGED <<incomingQueue, outgoingQueue, outQueue>>
      BY <1>5 DEF SendPacketToApp
    <2>2. /\ inQueue[e] \in Seq(ForApp) /\ inQueue'[e] = Tail(inQueue[e])
          /\ \A f \in EndPoints \ {e} : inQueue'[f] = inQueue[f]
      BY <1>2, <2>1 DEF QueueType
    <2>3. NoneTwice(inQueue'[e]) /\ Range(inQueue'[e]) \subseteq Range(inQueue[e])
      BY <1>2, <2>1, <2>2, TakenOnce DEF OrderAt, EachOnce
    <2>4. EachOnce(e)' /\ Apart(e)'
      BY <1>2, <2>1, <2>3 DEF OrderAt, EachOnce, Apart, FromPeer, FromApp
    <2>5. HeadIn(e)' /\ HeadOut(e)' /\ CopiesLast(e)'
      BY <1>2, <1>3, <2>1, <2>3 DEF OrderAt, HeadIn, HeadOut, CopiesLast
    <2>6. OrderAt(e)'
      BY <2>4, <2>5 DEF OrderAt
    <2>7. InQueues(e)' \subseteq InQueues(e)
      BY <2>1, <2>3 DEF InQueues, FromPeer, FromApp
    <2>8. \A f \in EndPoints \ {e} : SameAt(f)
      BY <1>3, <2>1, <2>2 DEF SameAt
    <2> QED BY <1>1, <2>6, <2>7, <2>8, OneMoves
  <1>6. CASE DeleteEndPoint(e)
    <2>1. Emptied(e)
      BY <1>6 DEF DeleteEndPoint
    <2> QED BY <1>1, <1>3, <2>1, DrainedOrder
  <1>7. CASE UNCHANGED queues
    <2>1. \A f \in EndPoints : SameAt(f)
      BY <1>3, <1>7 DEF SameAt, queues
    <2> QED BY <1>1, <2>1, AllSame
  <1>8. SendPacketOutside(e) \/ SendPacketToApp(e) \/ DeleteEndPoint(e) \/ UNCHANGED queues
    BY DEF SendOut, SendIn, EndThread, SendFails, RemoveDaemonEndPoint, JoinOthers,
       EraseEndPoint, UseDeleted
  <1> QED BY <1>4, <1>5, <1>6, <1>7, <1>8

(* The worker's tick, and the steps that leave the queues alone.            *)
LEMMA OtherOrder ==
  ASSUME TypeInv, MessageInv,
         Tick \/ WorkerTakesSigint \/ SignalHandler \/ MainStep \/ (\E e \in EndPoints : AppEnds(e))
  PROVE  MessageInv'
  <1>1. thread' = thread /\ UNCHANGED <<loop, frames>>
    BY DEF Tick, WorkerTakesSigint, SignalHandler, MainStep, AppEnds, JoinLoops, JoinWorker,
       DeleteStopped, Exit, StopEndPoint
  <1>2. CASE Tick
    <2>1. UNCHANGED <<incomingQueue, outgoingQueue, outQueue>>
      BY <1>2 DEF Tick
    <2>2. CheckAlive \in ForApp
      BY EndPointAssumption DEF CheckAlive, ForApp, Messages
    <2>3. ASSUME NEW e \in EndPoints
          PROVE  /\ OrderAt(e)'
                 /\ \A m \in InQueues(e)' : m = CheckAlive \/ m \in InQueues(e)
      <3>1. inQueue'[e] \in {inQueue[e], Append(inQueue[e], CheckAlive)}
        BY <1>2 DEF Tick
      <3>2. inQueue[e] \in Seq(ForApp) /\ OrderAt(e)
        BY DEF TypeInv, QueueType, MessageInv
      <3>3. /\ NoneTwice(inQueue'[e])
            /\ Range(inQueue'[e]) \subseteq Range(inQueue[e]) \cup {CheckAlive}
        <4>1. NoneTwice(inQueue[e])
          BY <3>2 DEF OrderAt, EachOnce
        <4>2. /\ NoneTwice(Append(inQueue[e], CheckAlive))
              /\ Range(Append(inQueue[e], CheckAlive)) = Range(inQueue[e]) \cup {CheckAlive}
          BY <2>2, <3>2, <4>1, AppendedOnce
        <4>3. CASE inQueue'[e] = inQueue[e]
          BY <4>1, <4>3
        <4>4. CASE inQueue'[e] = Append(inQueue[e], CheckAlive)
          BY <4>2, <4>4
        <4> QED BY <3>1, <4>3, <4>4
      <3>4. /\ CheckAlive \notin Range(incomingQueue[e]) /\ CheckAlive \notin FromApp(e)
            /\ \A m \in Range(outgoingQueue[e]) : Copied(m) # CheckAlive
        <4>1. CheckAlive \notin Read /\ CheckAlive \notin ForPeer
          <5>1. CheckAlive.kind = "CHECK_ALIVE"
            BY DEF CheckAlive
          <5>2. \A m \in Read \cup ForPeer : m.kind # "CHECK_ALIVE"
            BY DEF Read, ForPeer, Messages, Commands
          <5> QED BY <5>1, <5>2
        <4> QED BY <4>1, RangeTypes, KindsApart DEF TypeInv, FromApp
      <3>5. EachOnce(e)' /\ Apart(e)'
        BY <2>1, <3>2, <3>3, <3>4 DEF OrderAt, EachOnce, Apart, FromPeer, FromApp
      <3>6. HeadIn(e)' /\ HeadOut(e)' /\ CopiesLast(e)'
        BY <1>1, <2>1, <3>2, <3>3, <3>4 DEF OrderAt, HeadIn, HeadOut, CopiesLast
      <3>7. OrderAt(e)'
        BY <3>5, <3>6 DEF OrderAt
      <3>8. \A m \in InQueues(e)' : m = CheckAlive \/ m \in InQueues(e)
        BY <2>1, <3>3 DEF InQueues, FromPeer, FromApp
      <3> QED BY <3>7, <3>8
    <2>4. NoNewFrames
      BY <2>3 DEF NoNewFrames
    <2> QED BY <1>1, <2>3, <2>4, FramesKept DEF MessageInv
  <1>3. CASE DeleteStopped
    <2>1. main.at = "join" /\ Emptied(main.ep)
      BY <1>3 DEF DeleteStopped, MainGoes
    <2>2. main.ep \in EndPoints
      BY <2>1 DEF TypeInv, LifeInv, LifeType, LeftAlone
    <2> QED BY <1>1, <2>1, <2>2, DrainedOrder
  <1>4. CASE UNCHANGED queues
    <2>1. \A f \in EndPoints : SameAt(f)
      BY <1>1, <1>4 DEF SameAt, queues
    <2> QED BY <1>1, <2>1, AllSame
  <1>5. Tick \/ DeleteStopped \/ UNCHANGED queues
    BY DEF WorkerTakesSigint, SignalHandler, MainStep, AppEnds, JoinLoops, JoinWorker,
       Exit, StopEndPoint
  <1> QED BY <1>2, <1>3, <1>4, <1>5

(* The reading loops: a frame that is read is new, the one that is enqueued *)
(* was in no queue.                                                         *)
LEMMA FramesRead ==
  ASSUME TypeInv, NEW l \in Loops,
         \/ \E e \in EndPoints : AddDaemonEndPoint(l, e)
         \/ \E e \in EndPoints, k \in Kinds : FindService(l, e, k)
  PROVE  /\ \A f \in EndPoints : SameAt(f)
         /\ frames' = frames + 1 /\ loop'[l].msg.frame = frames + 1
         /\ \A k \in Loops \ {l} : loop'[k] = loop[k]
  <1>1. /\ loop \in [Loops -> LoopStates]
        /\ Message("STEP1").frame = frames + 1
        /\ \A k \in Kinds : Message(k).frame = frames + 1
    BY DEF TypeInv, RestType, Message
  <1>2. UNCHANGED queues /\ frames' = frames + 1
    BY DEF AddDaemonEndPoint, FindService, Reads
  <1>3. \A f \in EndPoints : SameAt(f)
    <2>1. CASE thread' = thread
      BY <1>2, <2>1 DEF SameAt, queues
    <2>2. CASE \E e \in EndPoints : AddDaemonEndPoint(l, e)
      <3>1. PICK e \in EndPoints : AddDaemonEndPoint(l, e)
        BY <2>2
      <3>2. /\ e \notin opened /\ thread' = [thread EXCEPT ![e] = [r \in Roles |-> "loop"]]
        BY <3>1 DEF AddDaemonEndPoint
      <3>3. \A r \in Roles : thread[e][r] # "moved" /\ thread'[e][r] # "moved"
        BY <3>2 DEF TypeInv, LifeInv, LifeType, Unopened
      <3> QED BY <1>2, <3>2, <3>3 DEF SameAt, queues, TypeInv, LifeInv, LifeType, Roles
    <2> QED BY <2>1, <2>2 DEF FindService
  <1>4. loop'[l].msg.frame = frames + 1 /\ \A k \in Loops \ {l} : loop'[k] = loop[k]
    BY <1>1 DEF AddDaemonEndPoint, FindService, Reads, LoopGoes
  <1> QED BY <1>2, <1>3, <1>4

LEMMA FramesHeld ==
  ASSUME TypeInv, NEW l \in Loops, GetDaemonEndPoint(l) \/ ExitLoop(l)
  PROVE  /\ UNCHANGED <<queues, thread, frames>>
         /\ \A k \in Loops : Holds(k)' => Holds(k) /\ loop'[k].msg = loop[k].msg
  <1>1. loop \in [Loops -> LoopStates]
    BY DEF TypeInv, RestType
  <1>2. ~(Reading.at \in {"found", "hold"}) /\ ~(Exited.at \in {"found", "hold"})
    BY DEF Reading, Exited
  <1>3. UNCHANGED <<queues, thread, frames>>
    BY DEF GetDaemonEndPoint, ExitLoop
  <1>4. CASE ExitLoop(l)
    BY <1>1, <1>2, <1>3, <1>4 DEF ExitLoop, LoopGoes, Holds
  <1>5. CASE GetDaemonEndPoint(l)
    <2>1. /\ loop[l].at = "found" /\ loop' = [loop EXCEPT ![l] = [loop[l] EXCEPT !.at = "hold"]]
      BY <1>5 DEF GetDaemonEndPoint, LoopGoes
    <2>2. loop[l] \in [at : {"found", "hold"}, ep : EndPoints, msg : Messages(Commands)]
      BY <1>1, <2>1 DEF LoopStates, Reading, Exited
    <2>3. loop'[l].msg = loop[l].msg
      BY <1>1, <2>1, <2>2
    <2> QED BY <1>1, <1>3, <2>1, <2>3 DEF Holds
  <1> QED BY <1>4, <1>5

LEMMA LoopOrder ==
  ASSUME TypeInv, MessageInv, NEW l \in Loops, LoopStep(l)
  PROVE  MessageInv'
  <1>1. frames \in Nat /\ loop \in [Loops -> LoopStates] /\ QueueType
    BY EndPointAssumption DEF TypeInv, RestType
  <1>2. ~(Reading.at \in {"found", "hold"}) /\ ~(Exited.at \in {"found", "hold"})
    BY DEF Reading, Exited
  <1>3. CASE \/ \E e \in EndPoints : AddDaemonEndPoint(l, e)
             \/ \E e \in EndPoints, k \in Kinds : FindService(l, e, k)
    <2>1. frames' = frames + 1
      BY <1>3, FramesRead
    <2>2. \A f \in EndPoints : SameAt(f)
      BY <1>3, FramesRead
    <2>3. \A f \in EndPoints : OrderAt(f)' /\ InQueues(f)' = InQueues(f)
      BY <2>2, OrderKept DEF MessageInv, SameAt, InQueues, FromPeer, FromApp
    <2>4. loop'[l].msg.frame = frames + 1 /\ \A k \in Loops \ {l} : loop'[k] = loop[k]
      BY <1>3, FramesRead
    <2>5. NewFrames'
      <3>1. \A k \in Loops \ {l} : Holds(k)' => Holds(k)
        BY <2>4 DEF Holds
      <3>2. \A f \in EndPoints : \A m \in InQueues(f) : m.frame <= frames /\ m.frame \in Nat
        <4>1. \A m \in Read \cup ForApp \cup ForPeer : m.frame \in Nat
          <5>1. \A k : \A m \in Messages(k) : m.frame \in Nat
            BY EndPointAssumption DEF Messages
          <5> QED BY <5>1 DEF Read, ForApp, ForPeer
        <4>2. \A f \in EndPoints : InQueues(f) \subseteq Read \cup ForApp \cup ForPeer
          BY <1>1, RangeTypes DEF InQueues, FromPeer, FromApp
        <4> QED BY <4>1, <4>2 DEF MessageInv, NewFrames
      <3>3. /\ \A k \in Loops : Holds(k)' => loop'[k].msg.frame \in 1..(frames + 1)
            /\ \A k \in Loops \ {l} : Holds(k)' => loop'[k].msg.frame \in 1..frames
        BY <1>1, <2>4, <3>1 DEF MessageInv, NewFrames
      <3>4. ASSUME NEW k \in Loops, Holds(k)', NEW f \in EndPoints, NEW m \in InQueues(f)
            PROVE  m.frame # loop'[k].msg.frame
        <4>1. CASE k = l
          BY <1>1, <2>4, <3>2, <4>1
        <4>2. CASE k # l
          BY <2>4, <3>1, <3>4, <4>2 DEF MessageInv, NewFrames
        <4> QED BY <4>1, <4>2
      <3>5. ASSUME NEW k \in Loops, NEW j \in Loops, Holds(k)', Holds(j)',
                   loop'[k].msg.frame = loop'[j].msg.frame
            PROVE  k = j
        <4>1. CASE k # l /\ j # l
          BY <2>4, <3>1, <3>5, <4>1 DEF MessageInv, NewFrames
        <4>2. CASE k = l \/ j = l
          BY <1>1, <2>4, <3>3, <3>5, <4>2
        <4> QED BY <4>1, <4>2
      <3>6. \A f \in EndPoints : \A m \in InQueues(f) : m.frame <= frames + 1
        BY <1>1, <3>2
      <3> QED BY <2>1, <2>3, <3>3, <3>4, <3>5, <3>6 DEF NewFrames
    <2> QED BY <2>3, <2>5 DEF MessageInv
  <1>4. CASE GetDaemonEndPoint(l) \/ ExitLoop(l)
    <2>1. UNCHANGED <<queues, thread, frames>>
      BY <1>4, FramesHeld
    <2>2. \A f \in EndPoints : OrderAt(f)' /\ InQueues(f)' = InQueues(f)
      BY <2>1, OrderKept DEF MessageInv, SameAt, queues, InQueues, FromPeer, FromApp
    <2>3. \A k \in Loops : Holds(k)' => Holds(k) /\ loop'[k].msg = loop[k].msg
      BY <1>4, FramesHeld
    <2>4. NewFrames'
      BY <2>1, <2>2, <2>3 DEF MessageInv, NewFrames
    <2> QED BY <2>2, <2>4 DEF MessageInv
  <1>5. CASE EnqueueFrame(l)
    <2>0. PICK e \in EndPoints, m \in Read : e = loop[l].ep /\ m = loop[l].msg
      <3>1. loop[l].at = "hold"
        BY <1>5 DEF EnqueueFrame, LoopGoes
      <3>2. loop[l].ep \in EndPoints /\ loop[l].msg \in Read
        BY <1>1, <3>1 DEF LoopStates, Reading, Exited, Read
      <3> QED BY <3>2
    <2>1. /\ loop[l].at = "hold" /\ loop' = [loop EXCEPT ![l] = NextPass]
          /\ UNCHANGED <<inQueue, outQueue, thread, frames>>
          /\ \/ UNCHANGED <<incomingQueue, outgoingQueue>>
             \/ /\ incomingQueue' = incomingQueue
                /\ outgoingQueue' = [outgoingQueue EXCEPT ![e] = Append(@, m)]
             \/ /\ outgoingQueue' = outgoingQueue
                /\ incomingQueue' = [incomingQueue EXCEPT ![e] = Append(@, m)]
      BY <1>5, <2>0 DEF EnqueueFrame, LoopGoes
    <2>2. e \in EndPoints /\ m \in Read
      BY <2>0
    <2>3. m.frame \in 1..frames /\ \A f \in EndPoints : \A n \in InQueues(f) : n.frame # m.frame
      BY <2>0, <2>1 DEF MessageInv, NewFrames, Holds
    <2>4. /\ m \notin InQueues(e) /\ Outgoing(m) \notin InQueues(e)
          /\ Copied(m) \notin InQueues(e)
      BY <2>2, <2>3, KindsApart
    <2>5. /\ incomingQueue[e] \in Seq(Read) /\ outgoingQueue[e] \in Seq(Read) /\ OrderAt(e)
      BY <1>1, <2>2 DEF QueueType, MessageInv
    <2>6. OrderAt(e)' /\ InQueues(e)' \subseteq InQueues(e) \cup {m}
      <3>1. CASE UNCHANGED <<incomingQueue, outgoingQueue>>
        <4>1. SameAt(e)
          BY <2>1, <3>1 DEF SameAt
        <4> QED BY <2>2, <2>5, <4>1, OrderKept DEF SameAt, InQueues, FromPeer, FromApp
      <3>2. CASE /\ incomingQueue' = incomingQueue
                 /\ outgoingQueue' = [outgoingQueue EXCEPT ![e] = Append(@, m)]
        <4>1. outgoingQueue'[e] = Append(outgoingQueue[e], m)
          BY <1>1, <2>2, <3>2 DEF QueueType
        <4>2. NoneTwice(outgoingQueue[e]) /\ m \notin Range(outgoingQueue[e])
          BY <2>4, <2>5 DEF OrderAt, EachOnce, InQueues, FromApp
        <4>3. /\ NoneTwice(outgoingQueue'[e])
              /\ Range(outgoingQueue'[e]) = Range(outgoingQueue[e]) \cup {m}
          BY <2>2, <2>5, <4>1, <4>2, AppendedOnce
        <4>4. \A n \in Range(outgoingQueue[e]) : Head(outgoingQueue'[e]) = Head(outgoingQueue[e])
          <5>1. outgoingQueue[e] # << >> =>
                  Head(Append(outgoingQueue[e], m)) = Head(outgoingQueue[e])
            BY <2>2, <2>5, HeadTailAppend
          <5>2. Range(<< >>) = {}
            BY DEF Range
          <5> QED BY <4>1, <5>1, <5>2
        <4>5. EachOnce(e)' /\ Apart(e)'
          BY <2>1, <2>4, <2>5, <3>2, <4>3
             DEF OrderAt, EachOnce, Apart, FromPeer, FromApp, InQueues
        <4>6. HeadIn(e)' /\ CopiesLast(e)'
          BY <2>1, <2>4, <2>5, <3>2, <4>3 DEF OrderAt, HeadIn, CopiesLast, InQueues, FromPeer
        <4>7. HeadOut(e)'
          BY <2>1, <2>4, <2>5, <4>3, <4>4 DEF OrderAt, HeadOut, InQueues, FromApp
        <4> QED BY <2>1, <3>2, <4>3, <4>5, <4>6, <4>7 DEF OrderAt, InQueues, FromPeer, FromApp
      <3>3. CASE /\ outgoingQueue' = outgoingQueue
                 /\ incomingQueue' = [incomingQueue EXCEPT ![e] = Append(@, m)]
        <4>1. incomingQueue'[e] = Append(incomingQueue[e], m)
          BY <1>1, <2>2, <3>3 DEF QueueType
        <4>2. NoneTwice(incomingQueue[e]) /\ m \notin Range(incomingQueue[e])
          BY <2>4, <2>5 DEF OrderAt, EachOnce, InQueues, FromPeer
        <4>3. /\ NoneTwice(incomingQueue'[e])
              /\ Range(incomingQueue'[e]) = Range(incomingQueue[e]) \cup {m}
          BY <2>2, <2>5, <4>1, <4>2, AppendedOnce
        <4>4. \A n \in Range(incomingQueue[e]) : Head(incomingQueue'[e]) = Head(incomingQueue[e])
          <5>1. incomingQueue[e] # << >> =>
                  Head(Append(incomingQueue[e], m)) = Head(incomingQueue[e])
            BY <2>2, <2>5, HeadTailAppend
          <5>2. Range(<< >>) = {}
            BY DEF Range
          <5> QED BY <4>1, <5>1, <5>2
        <4>5. EachOnce(e)' /\ Apart(e)'
          BY <2>1, <2>4, <2>5, <3>3, <4>3
             DEF OrderAt, EachOnce, Apart, FromPeer, FromApp, InQueues
        <4>6. HeadIn(e)'
          BY <2>1, <2>4, <2>5, <4>3, <4>4 DEF OrderAt, HeadIn, InQueues, FromPeer
        <4>7. HeadOut(e)' /\ CopiesLast(e)'
          BY <2>1, <2>5, <3>3 DEF OrderAt, HeadOut, CopiesLast
        <4> QED BY <2>1, <3>3, <4>3, <4>5, <4>6, <4>7 DEF OrderAt, InQueues, FromPeer, FromApp
      <3> QED BY <2>1, <3>1, <3>2, <3>3
    <2>7. \A f \in EndPoints \ {e} : SameAt(f)
      BY <1>1, <2>1 DEF SameAt, QueueType
    <2>8. \A f \in EndPoints : OrderAt(f)' /\ InQueues(f)' \subseteq InQueues(f) \cup {m}
      BY <2>6, <2>7, OrderKept DEF MessageInv, SameAt, InQueues, FromPeer, FromApp
    <2>9. \A k \in Loops : Holds(k)' => /\ k # l /\ Holds(k) /\ loop'[k] = loop[k]
                                        /\ loop[k].msg.frame # m.frame
      <3>1. loop'[l] = NextPass /\ \A k \in Loops \ {l} : loop'[k] = loop[k]
        BY <1>1, <2>1
      <3>2. ~Holds(l)'
        BY <1>2, <3>1 DEF Holds, NextPass
      <3>3. \A k \in Loops \ {l} : Holds(k) => loop[k].msg.frame # m.frame
        BY <2>0, <2>1 DEF MessageInv, NewFrames, Holds
      <3> QED BY <3>1, <3>2, <3>3 DEF Holds
    <2>10. NewFrames'
      BY <1>1, <2>1, <2>3, <2>8, <2>9 DEF MessageInv, NewFrames
    <2> QED BY <2>8, <2>10 DEF MessageInv
  <1>6. CASE \E e \in EndPoints : AddDaemonEndPoint(l, e) \/ (\E k \in Kinds : FindService(l, e, k))
    BY <1>3, <1>6
  <1> QED BY <1>4, <1>5, <1>6 DEF LoopStep

LEMMA InitMessages == Init => MessageInv
  <1> SUFFICES ASSUME Init PROVE MessageInv
    OBVIOUS
  <1>1. /\ incomingQueue = [e \in EndPoints |-> << >>]
        /\ outgoingQueue = [e \in EndPoints |-> << >>]
        /\ inQueue = [e \in EndPoints |-> << >>] /\ outQueue = [e \in EndPoints |-> << >>]
        /\ loop = [l \in Loops |-> Reading]
    BY DEF Init
  <1>2. NoneTwice(<< >>) /\ Range(<< >>) = {}
    BY DEF NoneTwice, Range
  <1>3. \A e \in EndPoints : InQueues(e) = {}
    BY <1>1, <1>2 DEF InQueues, FromPeer, FromApp
  <1>4. \A e \in EndPoints : OrderAt(e)
    BY <1>1, <1>2
       DEF OrderAt, EachOnce, Apart, FromPeer, FromApp, HeadIn, HeadOut, CopiesLast
  <1>5. \A l \in Loops : ~Holds(l)
    BY <1>1 DEF Holds, Reading
  <1> QED BY <1>3, <1>4, <1>5 DEF MessageInv, NewFrames

LEMMA NextMessages == TypeInv /\ MessageInv /\ [Next]_vars => MessageInv'
  <1> SUFFICES ASSUME TypeInv, MessageInv, [Next]_vars PROVE MessageInv'
    OBVIOUS
  <1>1. CASE UNCHANGED vars
    <2>1. UNCHANGED <<loop, frames>> /\ \A e \in EndPoints : SameAt(e)
      BY <1>1 DEF vars, queues, SameAt
    <2> QED BY <2>1, AllSame
  <1>2. CASE Next
    BY <1>2, LoopOrder, IncomingOrder, OutgoingOrder, SendOrder, OtherOrder DEF Next
  <1> QED BY <1>1, <1>2

(* An endpoint is deleted when no thread is about to dequeue what it has    *)
(* moved, so that its queues have nothing in common.                        *)
LEMMA DeletesWhole ==
  ASSUME TypeInv, MessageInv, Next, NEW e \in EndPoints, deletes'[e] > deletes[e]
  PROVE  NoneTwice(AllMessages(e))
  <1>1. Ended(e, Others)
    <2>1. deletes \in [EndPoints -> Nat]
      BY DEF TypeInv, LifeInv, LifeType
    <2>2. deletes' # deletes
      BY <2>1
    <2>3. DeleteStopped \/ (\E f \in EndPoints : DeleteEndPoint(f))
      BY <2>2 DEF Next, LoopStep, AddDaemonEndPoint, FindService, GetDaemonEndPoint,
         EnqueueFrame, ExitLoop, ProcessIncoming, MoveIncoming, KeepIncoming, DequeueIncoming,
         ProcessOutgoing, MoveOutgoing, DequeueOutgoing, SendOut, SendPacketOutside, SendIn,
         SendPacketToApp, EndThread, SendFails, RemoveDaemonEndPoint, JoinOthers,
         EraseEndPoint, UseDeleted, AppEnds, Tick, WorkerTakesSigint, SignalHandler, MainStep,
         JoinLoops, JoinWorker, StopEndPoint, Exit, UnchangedByThreads, life
    <2>4. CASE DeleteStopped
      <3>1. e = main.ep /\ Ended(main.ep, Roles)
        BY <2>1, <2>4 DEF DeleteStopped
      <3> QED BY <3>1 DEF Ended, Others
    <2>5. CASE \E f \in EndPoints : DeleteEndPoint(f)
      <3>1. PICK f \in EndPoints : DeleteEndPoint(f)
        BY <2>5
      <3>2. e = f /\ thread[f]["sendIn"] = "delete"
        BY <2>1, <3>1 DEF DeleteEndPoint, ThreadGoes
      <3> QED BY <3>2 DEF TypeInv, LifeInv, SenderLast
    <2> QED BY <2>3, <2>4, <2>5
  <1>2. thread[e]["processIncoming"] # "moved" /\ thread[e]["processOutgoing"] # "moved"
    BY <1>1 DEF Ended, Others, Roles
  <1> DEFINE All == Read \cup ForApp \cup ForPeer
             I == incomingQueue[e]
             O == outgoingQueue[e]
             A == inQueue[e]
             P == outQueue[e]
  <1>3. I \in Seq(Read) /\ O \in Seq(Read) /\ A \in Seq(ForApp) /\ P \in Seq(ForPeer)
    BY DEF TypeInv, QueueType
  <1>4. I \in Seq(All) /\ O \in Seq(All) /\ A \in Seq(All) /\ P \in Seq(All)
    <2>1. \A S, T : S \subseteq T => Seq(S) \subseteq Seq(T)
      OBVIOUS
    <2> QED BY <1>3, <2>1
  <1>5. NoneTwice(I) /\ NoneTwice(O) /\ NoneTwice(A) /\ NoneTwice(P)
    BY DEF MessageInv, OrderAt, EachOnce
  <1>6. Range(I) \cap Range(O) = {} /\ Range(I) \cap Range(P) = {}
        /\ Range(A) \cap Range(O) = {} /\ Range(A) \cap Range(P) = {}
    BY DEF MessageInv, OrderAt, Apart, FromPeer, FromApp
  <1>7. Range(I) \cap Range(A) = {}
    BY <1>2 DEF MessageInv, OrderAt, HeadIn
  <1>8. Range(O) \cap Range(P) = {}
    <2> SUFFICES ASSUME NEW n \in Range(O), n \in Range(P) PROVE FALSE
      OBVIOUS
    <2>1. n \in Read /\ n \in ForPeer
      BY RangeTypes DEF TypeInv
    <2>2. Outgoing(n) = n
      BY <2>1 DEF Read, ForPeer, Messages, Commands, Outgoing
    <2> QED BY <1>2, <2>2 DEF MessageInv, OrderAt, HeadOut
  <1>9. AllMessages(e) = ((I \o O) \o A) \o P
    BY DEF AllMessages
  <1> HIDE DEF All, I, O, A, P
  <1>10. /\ I \o O \in Seq(All) /\ NoneTwice(I \o O)
         /\ Range(I \o O) \subseteq Range(I) \cup Range(O)
    BY <1>4, <1>5, <1>6, JoinedOnce
  <1>11. /\ (I \o O) \o A \in Seq(All) /\ NoneTwice((I \o O) \o A)
         /\ Range((I \o O) \o A) \subseteq Range(I \o O) \cup Range(A)
    <2>1. Range(I \o O) \cap Range(A) \subseteq {CheckAlive}
      BY <1>6, <1>7, <1>10
    <2> QED BY <1>4, <1>5, <1>10, <2>1, JoinedOnce
  <1>12. NoneTwice(((I \o O) \o A) \o P)
    <2>1. Range((I \o O) \o A) \cap Range(P) \subseteq {CheckAlive}
      BY <1>6, <1>8, <1>10, <1>11
    <2> QED BY <1>4, <1>5, <1>11, <2>1, JoinedOnce
  <1> QED BY <1>9, <1>12

(* When an endpoint is deleted no message is in two of its queues or twice  *)
(* in one, so that ~DaemonEndPoint, which drains the four queues and        *)
(* deletes what it finds, deletes no message twice.                         *)
THEOREM DeletesMessagesOnce == Spec => MessagesDeletedOnce
  <1>1. Spec => []TypeInv
    BY InitTypes, NextTypes, PTL DEF Spec
  <1>2. Spec => []MessageInv
    BY <1>1, InitMessages, NextMessages, PTL DEF Spec
  <1>3. TypeInv /\ MessageInv /\ [Next]_vars =>
          [\A e \in EndPoints : deletes'[e] > deletes[e] => NoneTwice(AllMessages(e))]_vars
    BY DeletesWhole
  <1> QED BY <1>1, <1>2, <1>3, PTL DEF Spec, MessagesDeletedOnce

-----------------------------------------------------------------------------
(* The order of frames.  A frame that was moved on is behind every frame of *)
(* the queue it came from, but for itself until it is dequeued there.       *)
Anywhere == Read \cup ForApp \cup ForPeer

Behind(from, kinds, to, moved) ==
  \A m \in Range(from), n \in Range(to) : n.kind \in kinds =>
    n.frame < m.frame \/ (moved /\ n.frame = m.frame /\ m = Head(from))

Flows(from, kinds, to, moved) ==
  InOrder(from, Commands) /\ InOrder(to, kinds) /\ Behind(from, kinds, to, moved)

ToPeer == {"STEP1 shortened", "STEP2", "STEP3"}
ToApp == {"STEP1", "STEP2"}
Back == {"STEP3 copy"}

FlowsAt(e) ==
  /\ Flows(outgoingQueue[e], ToPeer, outQueue[e], thread[e]["processOutgoing"] = "moved")
  /\ Flows(incomingQueue[e], ToApp, inQueue[e], thread[e]["processIncoming"] = "moved")
  /\ Flows(outgoingQueue[e], Back, inQueue[e], FALSE)

(* What a loop holds is newer than all that went the same way before.       *)
OfKinds(q, kinds) == {m \in Range(q) : m.kind \in kinds}
SameWay(l, e) ==
  IF l = "unix"
  THEN Range(outgoingQueue[e]) \cup OfKinds(outQueue[e], ToPeer) \cup OfKinds(inQueue[e], Back)
  ELSE Range(incomingQueue[e]) \cup OfKinds(inQueue[e], ToApp)
Newest ==
  \A l \in Loops : Holds(l) =>
    \A e \in EndPoints : \A m \in SameWay(l, e) : m.frame < loop[l].msg.frame

FlowInv == Newest /\ \A e \in EndPoints : FlowsAt(e)

LEMMA Numbers ==
  /\ \A m \in Anywhere : m.frame \in Nat
  /\ \A m \in Read : m.kind \in Commands
  <1>1. \A k : \A m \in Messages(k) : m.frame \in Nat /\ m.kind \in k
    BY EndPointAssumption DEF Messages
  <1> QED BY <1>1 DEF Anywhere, Read, ForApp, ForPeer

LEMMA AppendOrder ==
  ASSUME NEW kinds, NEW s \in Seq(Anywhere), NEW m \in Anywhere, InOrder(s, kinds),
         m.kind \in kinds => \A n \in Range(s) : n.kind \in kinds => n.frame < m.frame
  PROVE  InOrder(Append(s, m), kinds)
  <1> DEFINE t == Append(s, m)
  <1>1. /\ t \in Seq(Anywhere) /\ Len(t) = Len(s) + 1
        /\ \A i \in 1..Len(s) : t[i] = s[i]
        /\ t[Len(s) + 1] = m
    BY AppendProperties
  <1>2. /\ Len(s) \in Nat /\ DOMAIN s = 1..Len(s) /\ DOMAIN t = 1..(Len(s) + 1)
    BY <1>1, LenProperties
  <1> HIDE DEF t
  <1>3. ASSUME NEW i \in DOMAIN t, NEW j \in DOMAIN t, i < j,
               {t[i].kind, t[j].kind} \subseteq kinds
        PROVE  t[i].frame < t[j].frame
    <2>1. i \in DOMAIN s /\ t[i] = s[i]
      BY <1>1, <1>2, <1>3
    <2>2. CASE j \in DOMAIN s
      <3>1. t[j] = s[j]
        BY <1>1, <1>2, <2>2
      <3> QED BY <1>3, <2>1, <2>2, <3>1 DEF InOrder
    <2>3. CASE j \notin DOMAIN s
      <3>1. t[j] = m
        BY <1>1, <1>2, <2>3
      <3> QED BY <1>3, <2>1, <3>1 DEF Range
    <2> QED BY <2>2, <2>3
  <1>4. InOrder(t, kinds)
    BY <1>3 DEF InOrder
  <1> QED BY <1>4 DEF t

LEMMA TailOrder ==
  ASSUME NEW kinds, NEW s \in Seq(Anywhere), s # << >>, InOrder(s, kinds)
  PROVE  /\ InOrder(Tail(s), kinds)
         /\ \A n \in Range(Tail(s)) :
              {Head(s).kind, n.kind} \subseteq kinds => Head(s).frame < n.frame
  <1> DEFINE t == Tail(s)
  <1>1. /\ t \in Seq(Anywhere) /\ Len(t) = Len(s) - 1
        /\ \A i \in 1..Len(t) : t[i] = s[i + 1]
        /\ Head(s) = s[1]
    BY HeadTailProperties
  <1>2. Len(s) \in Nat \ {0} /\ DOMAIN s = 1..Len(s) /\ DOMAIN t = 1..(Len(s) - 1)
    BY <1>1, LenProperties, EmptySeq
  <1> HIDE DEF t
  <1>3. \A i \in DOMAIN t : i + 1 \in DOMAIN s /\ t[i] = s[i + 1] /\ 1 < i + 1
    BY <1>1, <1>2
  <1>4. ASSUME NEW i \in DOMAIN t, NEW j \in DOMAIN t, i < j,
               {t[i].kind, t[j].kind} \subseteq kinds
        PROVE  t[i].frame < t[j].frame
    <2>1. i + 1 < j + 1
      BY <1>2, <1>4
    <2> QED BY <1>3, <1>4, <2>1 DEF InOrder
  <1>5. ASSUME NEW n \in Range(t), {Head(s).kind, n.kind} \subseteq kinds
        PROVE  Head(s).frame < n.frame
    <2>1. PICK i \in DOMAIN t : t[i] = n
      BY DEF Range
    <2>2. 1 \in DOMAIN s /\ i + 1 \in DOMAIN s /\ n = s[i + 1] /\ 1 < i + 1
      BY <1>2, <1>3, <2>1
    <2> QED BY <1>1, <1>5, <2>2 DEF InOrder
  <1> QED BY <1>4, <1>5 DEF InOrder, t

(* A queue in order: its head comes before the rest.                        *)
LEMMA HeadFirst ==
  ASSUME NEW s \in Seq(Read), s # << >>, InOrder(s, Commands)
  PROVE  /\ InOrder(Tail(s), Commands) /\ Head(s) \in Read
         /\ Range(s) = Range(Tail(s)) \cup {Head(s)}
         /\ \A n \in Range(Tail(s)) : n \in Read /\ Head(s).frame < n.frame
  <1>1. s \in Seq(Anywhere)
    BY DEF Anywhere
  <1>2. Range(s) = Range(Tail(s)) \cup {Head(s)}
    BY TakenOnce
  <1>3. Range(s) \subseteq Read
    BY DEF Range
  <1>4. \A n \in Range(Tail(s)) : {Head(s).kind, n.kind} \subseteq Commands
    BY <1>2, <1>3, Numbers
  <1> QED BY <1>1, <1>2, <1>3, <1>4, TailOrder

(* What the steps do to a flow: a loop appends to its first queue; a thread *)
(* moves the head on, and dequeues it; the last queue is sent from, or gets *)
(* what belongs to another flow.                                            *)
LEMMA FlowEnqueues ==
  ASSUME NEW kinds, NEW from \in Seq(Read), NEW to \in Seq(Anywhere), NEW moved \in BOOLEAN,
         NEW m \in Read, Flows(from, kinds, to, moved),
         \A n \in Range(from) \cup OfKinds(to, kinds) : n.frame < m.frame
  PROVE  Flows(Append(from, m), kinds, to, moved)
  <1>1. from \in Seq(Anywhere) /\ m \in Anywhere
    BY DEF Anywhere
  <1>2. InOrder(Append(from, m), Commands)
    BY <1>1, AppendOrder DEF Flows
  <1>3. Range(Append(from, m)) = Range(from) \cup {m}
    BY AppendedOnce
  <1>4. ASSUME NEW k \in Range(from) PROVE Head(Append(from, m)) = Head(from)
    <2>1. from # << >>
      BY <1>4 DEF Range
    <2> QED BY <2>1, HeadTailAppend
  <1>5. Behind(Append(from, m), kinds, to, moved)
    <2> SUFFICES ASSUME NEW k \in Range(from) \cup {m}, NEW n \in Range(to), n.kind \in kinds
                 PROVE  \/ n.frame < k.frame
                        \/ moved /\ n.frame = k.frame /\ k = Head(Append(from, m))
      BY <1>3 DEF Behind
    <2>1. CASE k = m
      BY <2>1 DEF OfKinds
    <2>2. CASE k \in Range(from)
      BY <1>4, <2>2 DEF Flows, Behind
    <2> QED BY <2>1, <2>2
  <1> QED BY <1>2, <1>5 DEF Flows

LEMMA FlowMoves ==
  ASSUME NEW kinds, NEW from \in Seq(Read), NEW to \in Seq(Anywhere), NEW h \in Anywhere,
         from # << >>, h.frame = Head(from).frame, Flows(from, kinds, to, FALSE)
  PROVE  Flows(from, kinds, Append(to, h), TRUE)
  <1>1. /\ Head(from) \in Read /\ Range(from) = Range(Tail(from)) \cup {Head(from)}
        /\ \A n \in Range(Tail(from)) : Head(from).frame < n.frame
    BY HeadFirst DEF Flows
  <1>2. \A n \in Range(to) : n.kind \in kinds => n.frame < Head(from).frame
    BY <1>1 DEF Flows, Behind
  <1>3. InOrder(Append(to, h), kinds)
    BY <1>2, AppendOrder DEF Flows
  <1>4. Range(Append(to, h)) = Range(to) \cup {h}
    BY AppendedOnce
  <1>5. Behind(from, kinds, Append(to, h), TRUE)
    <2> SUFFICES ASSUME NEW k \in Range(from), NEW n \in Range(to) \cup {h}, n.kind \in kinds
                 PROVE  n.frame < k.frame \/ (n.frame = k.frame /\ k = Head(from))
      BY <1>4 DEF Behind
    <2>1. CASE n = h
      BY <1>1, <2>1
    <2>2. CASE n \in Range(to)
      BY <2>2 DEF Flows, Behind
    <2> QED BY <2>1, <2>2
  <1> QED BY <1>3, <1>5 DEF Flows

LEMMA FlowDequeues ==
  ASSUME NEW kinds, NEW from \in Seq(Read), NEW to \in Seq(Anywhere), NEW moved \in BOOLEAN,
         from # << >>, Flows(from, kinds, to, moved)
  PROVE  Flows(Tail(from), kinds, to, FALSE)
  <1>1. /\ InOrder(Tail(from), Commands) /\ Head(from) \in Read
        /\ Range(from) = Range(Tail(from)) \cup {Head(from)}
        /\ \A k \in Range(Tail(from)) : k \in Read /\ Head(from).frame < k.frame
    BY HeadFirst DEF Flows
  <1>2. Behind(Tail(from), kinds, to, FALSE)
    <2> SUFFICES ASSUME NEW k \in Range(Tail(from)), NEW n \in Range(to), n.kind \in kinds
                 PROVE  n.frame < k.frame
      BY DEF Behind
    <2>1. k # Head(from)
      <3>1. Head(from).frame \in Nat /\ Head(from).frame < k.frame
        BY <1>1, Numbers DEF Anywhere
      <3> QED BY <3>1
    <2> QED BY <1>1, <2>1 DEF Flows, Behind
  <1> QED BY <1>1, <1>2 DEF Flows

LEMMA FlowSends ==
  ASSUME NEW kinds, NEW from \in Seq(Read), NEW to \in Seq(Anywhere), NEW moved \in BOOLEAN,
         to # << >>, Flows(from, kinds, to, moved)
  PROVE  Flows(from, kinds, Tail(to), moved)
  <1>1. InOrder(Tail(to), kinds)
    BY TailOrder DEF Flows
  <1>2. Range(Tail(to)) \subseteq Range(to)
    BY TakenOnce
  <1> QED BY <1>1, <1>2 DEF Flows, Behind

LEMMA FlowIgnores ==
  ASSUME NEW kinds, NEW from \in Seq(Read), NEW to \in Seq(Anywhere), NEW moved \in BOOLEAN,
         NEW m \in Anywhere, m.kind \notin kinds, Flows(from, kinds, to, moved)
  PROVE  Flows(from, kinds, Append(to, m), moved)
  <1>1. InOrder(Append(to, m), kinds)
    BY AppendOrder DEF Flows
  <1>2. Range(Append(to, m)) = Range(to) \cup {m}
    BY AppendedOnce
  <1> QED BY <1>1, <1>2 DEF Flows, Behind

LEMMA FlowWeakens ==
  ASSUME NEW kinds, NEW from, NEW to, Flows(from, kinds, to, FALSE)
  PROVE  \A moved : Flows(from, kinds, to, moved)
  BY DEF Flows, Behind

LEMMA NothingFlows ==
  \A kinds, moved : Flows(<< >>, kinds, << >>, moved)
  BY DEF Flows, Behind, InOrder, Range

LEMMA FlowKept ==
  ASSUME NEW e \in EndPoints, FlowsAt(e), SameAt(e)
  PROVE  FlowsAt(e)' /\ \A l \in Loops : SameWay(l, e)' = SameWay(l, e)
  BY Zenon DEF FlowsAt, SameAt, SameWay

(* The types the lemmas above need.                                         *)
LEMMA FlowTypes ==
  ASSUME QueueType, NEW e \in EndPoints
  PROVE  /\ incomingQueue[e] \in Seq(Read) /\ outgoingQueue[e] \in Seq(Read)
         /\ inQueue[e] \in Seq(Anywhere) /\ outQueue[e] \in Seq(Anywhere)
  <1>1. \A S, T : S \subseteq T => Seq(S) \subseteq Seq(T)
    OBVIOUS
  <1>2. ForApp \subseteq Anywhere /\ ForPeer \subseteq Anywhere
    BY DEF Anywhere
  <1> QED BY <1>1, <1>2 DEF QueueType

(* A step of one endpoint's threads puts no newer frame anywhere.           *)
NoneNewer(e) ==
  \A l \in Loops : \A m \in SameWay(l, e)' : \E n \in SameWay(l, e) : n.frame = m.frame

LEMMA OneFlows ==
  ASSUME FlowInv, UNCHANGED loop, NEW e \in EndPoints, FlowsAt(e)', NoneNewer(e),
         \A f \in EndPoints \ {e} : SameAt(f)
  PROVE  FlowInv'
  <1>1. \A f \in EndPoints \ {e} :
          FlowsAt(f)' /\ \A l \in Loops : SameWay(l, f)' = SameWay(l, f)
    BY FlowKept DEF FlowInv
  <1>2. ASSUME NEW l \in Loops, Holds(l)', NEW f \in EndPoints, NEW m \in SameWay(l, f)'
        PROVE  m.frame < loop'[l].msg.frame
    <2>1. Holds(l) /\ loop' = loop
      BY <1>2 DEF Holds
    <2>2. \E n \in SameWay(l, f) : n.frame = m.frame
      BY <1>1, <1>2 DEF NoneNewer
    <2> QED BY <2>1, <2>2 DEF FlowInv, Newest
  <1>3. Newest'
    BY <1>2 DEF Newest
  <1> QED BY <1>1, <1>3 DEF FlowInv

LEMMA AllFlows ==
  ASSUME FlowInv, UNCHANGED loop, \A e \in EndPoints : SameAt(e)
  PROVE  FlowInv'
  <1>1. \A f \in EndPoints :
          FlowsAt(f)' /\ \A l \in Loops : SameWay(l, f)' = SameWay(l, f)
    BY FlowKept DEF FlowInv
  <1>2. Newest'
    <2>1. \A l \in Loops : Holds(l)' => Holds(l)
      BY DEF Holds
    <2> QED BY <1>1, <2>1 DEF FlowInv, Newest
  <1> QED BY <1>1, <1>2 DEF FlowInv

LEMMA IncomingFlows ==
  ASSUME TypeInv, FlowInv, NEW e \in EndPoints, ProcessIncoming(e)
  PROVE  FlowInv'
  <1>1. UNCHANGED loop
    BY DEF ProcessIncoming, MoveIncoming, KeepIncoming, DequeueIncoming, EndThread,
       UnchangedByThreads
  <1>2. /\ thread \in [EndPoints -> [Roles -> Labels]] /\ QueueType /\ Moved
        /\ "processIncoming" \in Roles /\ "processOutgoing" \in Roles
    BY DEF TypeInv, LifeInv, LifeType, Roles
  <1>3. /\ \A f \in EndPoints \ {e} : thread'[f] = thread[f]
        /\ thread'[e]["processOutgoing"] = thread[e]["processOutgoing"]
    <2>1. \E to : thread' = [thread EXCEPT ![e]["processIncoming"] = to]
      BY DEF ProcessIncoming, MoveIncoming, KeepIncoming, DequeueIncoming,
         EndThread, ThreadGoes
    <2> QED BY <1>2, <2>1
  <1>4. /\ incomingQueue[e] \in Seq(Read) /\ outgoingQueue[e] \in Seq(Read)
        /\ inQueue[e] \in Seq(Anywhere)
    BY <1>2, FlowTypes
  <1>5. /\ Flows(outgoingQueue[e], ToPeer, outQueue[e], thread[e]["processOutgoing"] = "moved")
        /\ Flows(incomingQueue[e], ToApp, inQueue[e], thread[e]["processIncoming"] = "moved")
        /\ Flows(outgoingQueue[e], Back, inQueue[e], FALSE)
    BY DEF FlowInv, FlowsAt
  <1>6. CASE MoveIncoming(e)
    <2>0. PICK h : h = Head(incomingQueue[e])
      OBVIOUS
    <2>1. /\ incomingQueue[e] # << >> /\ h.kind \in ToApp
          /\ inQueue' = [inQueue EXCEPT ![e] = Append(@, h)]
          /\ UNCHANGED <<incomingQueue, outgoingQueue, outQueue>>
          /\ thread[e]["processIncoming"] = "loop"
          /\ thread' = [thread EXCEPT ![e]["processIncoming"] = "moved"]
      BY <1>6, <2>0 DEF MoveIncoming, ThreadGoes, ToApp
    <2>2. h \in Range(incomingQueue[e]) /\ h \in Read /\ h \in Anywhere /\ h.kind \notin Back
      <3>1. h \in Range(incomingQueue[e]) /\ h \in Read
        BY <1>2, <1>4, <2>0, <2>1, TakenOnce, RangeTypes
      <3> QED BY <2>1, <3>1 DEF Anywhere, ToApp, Back
    <2>3. inQueue'[e] = Append(inQueue[e], h) /\ thread'[e]["processIncoming"] = "moved"
      BY <1>2, <2>1 DEF QueueType
    <2>4. Flows(incomingQueue[e], ToApp, inQueue[e], FALSE)
      BY <1>5, <2>1 DEF Flows, Behind
    <2>5. Flows(incomingQueue[e], ToApp, inQueue'[e], TRUE)
      <3>1. incomingQueue[e] # << >> /\ h.frame = Head(incomingQueue[e]).frame /\ h \in Anywhere
        BY <2>0, <2>1, <2>2
      <3>2. Flows(incomingQueue[e], ToApp, Append(inQueue[e], h), TRUE)
        BY <1>4, <2>4, <3>1, FlowMoves
      <3> QED BY <2>3, <3>2
    <2>6. Flows(outgoingQueue[e], Back, inQueue'[e], FALSE)
      BY <1>4, <1>5, <2>2, <2>3, FlowIgnores
    <2>7. FlowsAt(e)'
      BY <1>3, <1>5, <2>1, <2>3, <2>5, <2>6 DEF FlowsAt, Flows, Behind
    <2>8. Range(inQueue'[e]) = Range(inQueue[e]) \cup {h}
      BY <1>4, <2>2, <2>3, AppendedOnce
    <2>9. NoneNewer(e)
      BY <2>1, <2>2, <2>8 DEF NoneNewer, SameWay, OfKinds
    <2>10. \A f \in EndPoints \ {e} : SameAt(f)
      BY <1>2, <1>3, <2>1 DEF SameAt, QueueType
    <2> QED BY <1>1, <2>7, <2>9, <2>10, OneFlows
  <1>7. CASE KeepIncoming(e)
    <2>1. UNCHANGED queues /\ thread[e]["processIncoming"] = "loop"
      BY <1>7 DEF KeepIncoming, ThreadGoes
    <2>2. FlowsAt(e)'
      BY <1>3, <1>5, <2>1 DEF FlowsAt, Flows, Behind, queues
    <2>3. NoneNewer(e)
      BY <2>1 DEF NoneNewer, SameWay, queues
    <2>4. \A f \in EndPoints \ {e} : SameAt(f)
      BY <1>3, <2>1 DEF SameAt, queues
    <2> QED BY <1>1, <2>2, <2>3, <2>4, OneFlows
  <1>8. CASE DequeueIncoming(e)
    <2>1. /\ incomingQueue' = [incomingQueue EXCEPT ![e] = Tail(@)]
          /\ UNCHANGED <<outgoingQueue, inQueue, outQueue>>
          /\ thread[e]["processIncoming"] = "moved"
      BY <1>8 DEF DequeueIncoming, ThreadGoes
    <2>2. incomingQueue[e] # << >> /\ incomingQueue'[e] = Tail(incomingQueue[e])
      BY <1>2, <2>1 DEF Moved, QueueType
    <2>3. Flows(incomingQueue'[e], ToApp, inQueue[e], FALSE)
      BY <1>4, <1>5, <2>2, FlowDequeues
    <2>4. FlowsAt(e)'
      BY <1>3, <1>5, <2>1, <2>3 DEF FlowsAt, Flows, Behind
    <2>5. Range(incomingQueue'[e]) \subseteq Range(incomingQueue[e])
      BY <1>4, <2>2, TakenOnce
    <2>6. NoneNewer(e)
      BY <2>1, <2>5 DEF NoneNewer, SameWay
    <2>7. \A f \in EndPoints \ {e} : SameAt(f)
      BY <1>2, <1>3, <2>1 DEF SameAt, QueueType
    <2> QED BY <1>1, <2>4, <2>6, <2>7, OneFlows
  <1>9. CASE EndThread(e, "processIncoming")
    <2>1. /\ UNCHANGED queues
          /\ thread[e]["processIncoming"] = "loop" /\ thread'[e]["processIncoming"] = "ended"
      BY <1>2, <1>9 DEF EndThread, ThreadGoes
    <2>2. \A f \in EndPoints : SameAt(f)
      BY <1>3, <2>1 DEF SameAt, queues
    <2> QED BY <1>1, <2>2, AllFlows
  <1> QED BY <1>6, <1>7, <1>8, <1>9 DEF ProcessIncoming

LEMMA OutgoingFlows ==
  ASSUME TypeInv, FlowInv, NEW e \in EndPoints, ProcessOutgoing(e)
  PROVE  FlowInv'
  <1>1. UNCHANGED loop
    BY DEF ProcessOutgoing, MoveOutgoing, DequeueOutgoing, EndThread, UnchangedByThreads
  <1>2. /\ thread \in [EndPoints -> [Roles -> Labels]] /\ QueueType /\ Moved
        /\ "processIncoming" \in Roles /\ "processOutgoing" \in Roles
    BY DEF TypeInv, LifeInv, LifeType, Roles
  <1>3. /\ \A f \in EndPoints \ {e} : thread'[f] = thread[f]
        /\ thread'[e]["processIncoming"] = thread[e]["processIncoming"]
    <2>1. \E to : thread' = [thread EXCEPT ![e]["processOutgoing"] = to]
      BY DEF ProcessOutgoing, MoveOutgoing, DequeueOutgoing, EndThread, ThreadGoes
    <2> QED BY <1>2, <2>1
  <1>4. /\ incomingQueue[e] \in Seq(Read) /\ outgoingQueue[e] \in Seq(Read)
        /\ inQueue[e] \in Seq(Anywhere) /\ outQueue[e] \in Seq(Anywhere)
    BY <1>2, FlowTypes
  <1>5. /\ Flows(outgoingQueue[e], ToPeer, outQueue[e], thread[e]["processOutgoing"] = "moved")
        /\ Flows(incomingQueue[e], ToApp, inQueue[e], thread[e]["processIncoming"] = "moved")
        /\ Flows(outgoingQueue[e], Back, inQueue[e], FALSE)
    BY DEF FlowInv, FlowsAt
  <1>6. CASE MoveOutgoing(e)
    <2>0. PICK h, m : h = Head(outgoingQueue[e]) /\ m = Outgoing(h)
      OBVIOUS
    <2>1. /\ outgoingQueue[e] # << >> /\ h.kind # "other"
          /\ outQueue' = [outQueue EXCEPT ![e] = Append(@, m)]
          /\ UNCHANGED <<incomingQueue, outgoingQueue, inQueue>>
          /\ thread[e]["processOutgoing"] = "loop"
          /\ thread' = [thread EXCEPT ![e]["processOutgoing"] = "moved"]
      BY <1>6, <2>0 DEF MoveOutgoing, ThreadGoes
    <2>2. h \in Range(outgoingQueue[e]) /\ h \in Read
      BY <1>2, <1>4, <2>0, <2>1, TakenOnce, RangeTypes
    <2>3. m \in Anywhere /\ m.frame = h.frame
      <3>1. m \in ForPeer
        BY <2>0, <2>1, <2>2 DEF Outgoing, Read, ForPeer, Messages, Commands
      <3> QED BY <2>0, <2>2, <3>1, KindsApart DEF Anywhere
    <2>4. outQueue'[e] = Append(outQueue[e], m) /\ thread'[e]["processOutgoing"] = "moved"
      BY <1>2, <2>1 DEF QueueType
    <2>5. Flows(outgoingQueue[e], ToPeer, outQueue[e], FALSE)
      BY <1>5, <2>1 DEF Flows, Behind
    <2>6. Flows(outgoingQueue[e], ToPeer, outQueue'[e], TRUE)
      <3>1. outgoingQueue[e] # << >> /\ m.frame = Head(outgoingQueue[e]).frame
        BY <2>0, <2>1, <2>3
      <3>2. Flows(outgoingQueue[e], ToPeer, Append(outQueue[e], m), TRUE)
        BY <1>4, <2>3, <2>5, <3>1, FlowMoves
      <3> QED BY <2>4, <3>2
    <2>7. FlowsAt(e)'
      BY <1>3, <1>5, <2>1, <2>4, <2>6 DEF FlowsAt, Flows, Behind
    <2>8. Range(outQueue'[e]) = Range(outQueue[e]) \cup {m}
      BY <1>4, <2>3, <2>4, AppendedOnce
    <2>9. NoneNewer(e)
      BY <2>1, <2>2, <2>3, <2>8 DEF NoneNewer, SameWay, OfKinds
    <2>10. \A f \in EndPoints \ {e} : SameAt(f)
      BY <1>2, <1>3, <2>1 DEF SameAt, QueueType
    <2> QED BY <1>1, <2>7, <2>9, <2>10, OneFlows
  <1>7. CASE DequeueOutgoing(e)
    <2>0. PICK h, m : h = Head(outgoingQueue[e]) /\ m = Copied(h)
      OBVIOUS
    <2>1. /\ outgoingQueue' = [outgoingQueue EXCEPT ![e] = Tail(@)]
          /\ inQueue' = IF h.kind = "STEP3" THEN [inQueue EXCEPT ![e] = Append(@, m)]
                        ELSE inQueue
          /\ UNCHANGED <<incomingQueue, outQueue>>
          /\ thread[e]["processOutgoing"] = "moved"
          /\ thread'[e]["processOutgoing"] # "moved"
      BY <1>2, <1>7, <2>0 DEF DequeueOutgoing, ThreadGoes, Copied, AfterPass
    <2>2. outgoingQueue[e] # << >> /\ outgoingQueue'[e] = Tail(outgoingQueue[e])
      BY <1>2, <2>1 DEF Moved, QueueType
    <2>3. /\ h \in Range(outgoingQueue[e]) /\ h \in Read
          /\ Range(outgoingQueue'[e]) \subseteq Range(outgoingQueue[e])
      BY <1>2, <1>4, <2>0, <2>2, TakenOnce, RangeTypes
    <2>4. Flows(outgoingQueue'[e], ToPeer, outQueue[e], FALSE)
      BY <1>4, <1>5, <2>2, FlowDequeues
    <2>5. \A f \in EndPoints \ {e} : SameAt(f)
      BY <1>2, <1>3, <2>1 DEF SameAt, QueueType
    <2>6. CASE h.kind # "STEP3"
      <3>1. inQueue' = inQueue
        BY <2>1, <2>6
      <3>2. Flows(outgoingQueue'[e], Back, inQueue[e], FALSE)
        BY <1>4, <1>5, <2>2, FlowDequeues
      <3>3. FlowsAt(e)'
        BY <1>3, <1>5, <2>1, <2>4, <3>1, <3>2 DEF FlowsAt, Flows, Behind
      <3>4. NoneNewer(e)
        BY <2>1, <2>3, <3>1 DEF NoneNewer, SameWay
      <3> QED BY <1>1, <2>5, <3>3, <3>4, OneFlows
    <2>7. CASE h.kind = "STEP3"
      <3>1. inQueue'[e] = Append(inQueue[e], m)
        BY <1>2, <2>1, <2>7 DEF QueueType
      <3>2. m \in Anywhere /\ m.frame = h.frame /\ m.kind \notin ToApp
        <4>1. m \in ForApp /\ m.kind = "STEP3 copy"
          BY <2>0, <2>3 DEF Read, ForApp, Messages, Copied
        <4> QED BY <2>0, <2>3, <4>1, KindsApart DEF Anywhere, ToApp
      <3>3. Flows(outgoingQueue'[e], Back, inQueue'[e], FALSE)
        <4>0. PICK q : q = Append(inQueue[e], m)
          OBVIOUS
        <4>1. m.frame = Head(outgoingQueue[e]).frame /\ q \in Seq(Anywhere)
          BY <1>4, <2>0, <3>2, <4>0, AppendProperties
        <4>2. Flows(outgoingQueue[e], Back, q, TRUE)
          BY <1>4, <1>5, <2>2, <3>2, <4>0, <4>1, FlowMoves
        <4>3. Flows(Tail(outgoingQueue[e]), Back, q, FALSE)
          BY <1>4, <2>2, <4>1, <4>2, FlowDequeues
        <4> QED BY <2>2, <3>1, <4>0, <4>3
      <3>4. Flows(incomingQueue[e], ToApp, inQueue'[e], thread[e]["processIncoming"] = "moved")
        <4>1. \A b \in BOOLEAN : Flows(incomingQueue[e], ToApp, inQueue[e], b) =>
                Flows(incomingQueue[e], ToApp, Append(inQueue[e], m), b)
          BY <1>4, <3>2, FlowIgnores
        <4> QED BY <1>5, <3>1, <4>1
      <3>5. FlowsAt(e)'
        BY <1>3, <2>1, <2>4, <3>3, <3>4 DEF FlowsAt, Flows, Behind
      <3>6. Range(inQueue'[e]) = Range(inQueue[e]) \cup {m}
        BY <1>4, <3>1, <3>2, AppendedOnce
      <3>7. NoneNewer(e)
        BY <2>1, <2>3, <3>2, <3>6 DEF NoneNewer, SameWay, OfKinds
      <3> QED BY <1>1, <2>5, <3>5, <3>7, OneFlows
    <2> QED BY <2>6, <2>7
  <1>8. CASE EndThread(e, "processOutgoing")
    <2>1. /\ UNCHANGED queues
          /\ thread[e]["processOutgoing"] = "loop" /\ thread'[e]["processOutgoing"] = "ended"
      BY <1>2, <1>8 DEF EndThread, ThreadGoes
    <2>2. \A f \in EndPoints : SameAt(f)
      BY <1>3, <2>1 DEF SameAt, queues
    <2> QED BY <1>1, <2>2, AllFlows
  <1> QED BY <1>6, <1>7, <1>8 DEF ProcessOutgoing

LEMMA DrainedFlows ==
  ASSUME TypeInv, FlowInv, NEW e \in EndPoints, Emptied(e), UNCHANGED loop,
         \A f \in EndPoints \ {e} : \A r \in {"processIncoming", "processOutgoing"} :
           (thread[f][r] = "moved") <=> (thread'[f][r] = "moved")
  PROVE  FlowInv'
  <1>1. QueueType
    BY DEF TypeInv
  <1>2. /\ incomingQueue'[e] = << >> /\ outgoingQueue'[e] = << >>
        /\ inQueue'[e] = << >> /\ outQueue'[e] = << >>
    BY <1>1 DEF Emptied, QueueType
  <1>3. FlowsAt(e)'
    BY <1>2, NothingFlows DEF FlowsAt, Flows, Behind, Range
  <1>4. NoneNewer(e)
    BY <1>2 DEF NoneNewer, SameWay, OfKinds, Range
  <1>5. \A f \in EndPoints \ {e} : SameAt(f)
    BY <1>1 DEF SameAt, Emptied, QueueType
  <1> QED BY <1>3, <1>4, <1>5, OneFlows

LEMMA SendFlowsOn ==
  ASSUME TypeInv, FlowInv, NEW e \in EndPoints, SendOut(e) \/ SendIn(e)
  PROVE  FlowInv'
  <1>1. UNCHANGED loop
    BY DEF SendOut, SendPacketOutside, SendIn, SendPacketToApp, EndThread, SendFails,
       RemoveDaemonEndPoint, JoinOthers, EraseEndPoint, DeleteEndPoint, UseDeleted,
       UnchangedByThreads
  <1>2. /\ QueueType /\ FlowsAt(e)
        /\ incomingQueue[e] \in Seq(Read) /\ outgoingQueue[e] \in Seq(Read)
        /\ inQueue[e] \in Seq(Anywhere) /\ outQueue[e] \in Seq(Anywhere)
    BY FlowTypes DEF TypeInv, FlowInv
  <1>3. \A f \in EndPoints : \A r \in {"processIncoming", "processOutgoing"} :
          thread'[f][r] = thread[f][r]
    <2>1. \E r \in {"sendOut", "sendIn"} : \E to : thread' = [thread EXCEPT ![e][r] = to]
      BY DEF SendOut, SendPacketOutside, SendIn, SendPacketToApp, EndThread, SendFails,
         RemoveDaemonEndPoint, JoinOthers, EraseEndPoint, DeleteEndPoint, UseDeleted, ThreadGoes
    <2>2. \A r \in {"sendOut", "sendIn"} : r # "processIncoming" /\ r # "processOutgoing"
      OBVIOUS
    <2> QED BY <2>1, <2>2 DEF TypeInv, LifeInv, LifeType, Roles
  <1>4. CASE SendPacketOutside(e)
    <2>1. /\ outQueue[e] # << >> /\ outQueue' = [outQueue EXCEPT ![e] = Tail(@)]
          /\ UNCHANGED <<incomingQueue, outgoingQueue, inQueue>>
      BY <1>4 DEF SendPacketOutside
    <2>2. /\ outQueue'[e] = Tail(outQueue[e])
          /\ \A f \in EndPoints \ {e} : outQueue'[f] = outQueue[f]
      BY <1>2, <2>1 DEF QueueType
    <2>3. \A b \in BOOLEAN : Flows(outgoingQueue[e], ToPeer, outQueue[e], b) =>
            Flows(outgoingQueue[e], ToPeer, outQueue'[e], b)
      BY <1>2, <2>1, <2>2, FlowSends
    <2>4. FlowsAt(e)'
      BY <1>2, <1>3, <2>1, <2>3 DEF FlowsAt
    <2>5. Range(outQueue'[e]) \subseteq Range(outQueue[e])
      BY <1>2, <2>1, <2>2, TakenOnce
    <2>6. NoneNewer(e)
      BY <2>1, <2>5 DEF NoneNewer, SameWay, OfKinds
    <2>7. \A f \in EndPoints \ {e} : SameAt(f)
      BY <1>3, <2>1, <2>2 DEF SameAt
    <2> QED BY <1>1, <2>4, <2>6, <2>7, OneFlows
  <1>5. CASE SendPacketToApp(e)
    <2>1. /\ inQueue[e] # << >> /\ inQueue' = [inQueue EXCEPT ![e] = Tail(@)]
          /\ UNCHANGED <<incomingQueue, outgoingQueue, outQueue>>
      BY <1>5 DEF SendPacketToApp
    <2>2. /\ inQueue'[e] = Tail(inQueue[e])
          /\ \A f \in EndPoints \ {e} : inQueue'[f] = inQueue[f]
      BY <1>2, <2>1 DEF QueueType
    <2>3. /\ \A b \in BOOLEAN : Flows(incomingQueue[e], ToApp, inQueue[e], b) =>
               Flows(incomingQueue[e], ToApp, inQueue'[e], b)
          /\ \A b \in BOOLEAN : Flows(outgoingQueue[e], Back, inQueue[e], b) =>
               Flows(outgoingQueue[e], Back, inQueue'[e], b)
      BY <1>2, <2>1, <2>2, FlowSends
    <2>4. FlowsAt(e)'
      BY <1>2, <1>3, <2>1, <2>3 DEF FlowsAt
    <2>5. Range(inQueue'[e]) \subseteq Range(inQueue[e])
      BY <1>2, <2>1, <2>2, TakenOnce
    <2>6. NoneNewer(e)
      BY <2>1, <2>5 DEF NoneNewer, SameWay, OfKinds
    <2>7. \A f \in EndPoints \ {e} : SameAt(f)
      BY <1>3, <2>1, <2>2 DEF SameAt
    <2> QED BY <1>1, <2>4, <2>6, <2>7, OneFlows
  <1>6. CASE DeleteEndPoint(e)
    <2>1. Emptied(e)
      BY <1>6 DEF DeleteEndPoint
    <2> QED BY <1>1, <1>3, <2>1, DrainedFlows
  <1>7. CASE UNCHANGED queues
    <2>1. \A f \in EndPoints : SameAt(f)
      BY <1>3, <1>7 DEF SameAt, queues
    <2> QED BY <1>1, <2>1, AllFlows
  <1>8. SendPacketOutside(e) \/ SendPacketToApp(e) \/ DeleteEndPoint(e) \/ UNCHANGED queues
    BY DEF SendOut, SendIn, EndThread, SendFails, RemoveDaemonEndPoint, JoinOthers,
       EraseEndPoint, UseDeleted
  <1> QED BY <1>4, <1>5, <1>6, <1>7, <1>8

LEMMA OtherFlows ==
  ASSUME TypeInv, FlowInv,
         Tick \/ WorkerTakesSigint \/ SignalHandler \/ MainStep \/ (\E e \in EndPoints : AppEnds(e))
  PROVE  FlowInv'
  <1>1. thread' = thread /\ UNCHANGED loop
    BY DEF Tick, WorkerTakesSigint, SignalHandler, MainStep, AppEnds, JoinLoops, JoinWorker,
       DeleteStopped, Exit, StopEndPoint
  <1>2. CASE Tick
    <2>1. UNCHANGED <<incomingQueue, outgoingQueue, outQueue>>
      BY <1>2 DEF Tick
    <2>2. CheckAlive \in Anywhere /\ CheckAlive.kind \notin ToApp /\ CheckAlive.kind \notin Back
      <3>1. CheckAlive \in ForApp
        BY EndPointAssumption DEF CheckAlive, ForApp, Messages
      <3>2. CheckAlive.kind = "CHECK_ALIVE"
        BY DEF CheckAlive
      <3> QED BY <3>1, <3>2 DEF Anywhere, ToApp, Back
    <2>3. ASSUME NEW e \in EndPoints
          PROVE  FlowsAt(e)' /\ \A l \in Loops : SameWay(l, e)' = SameWay(l, e)
      <3>1. inQueue'[e] \in {inQueue[e], Append(inQueue[e], CheckAlive)}
        BY <1>2 DEF Tick
      <3>2. /\ FlowsAt(e) /\ incomingQueue[e] \in Seq(Read) /\ outgoingQueue[e] \in Seq(Read)
            /\ inQueue[e] \in Seq(Anywhere)
        BY FlowTypes DEF TypeInv, FlowInv
      <3>3. CASE inQueue'[e] = inQueue[e]
        <4>1. SameAt(e)
          BY <1>1, <2>1, <3>3 DEF SameAt
        <4> QED BY <3>2, <4>1, FlowKept
      <3>4. CASE inQueue'[e] = Append(inQueue[e], CheckAlive)
        <4>1. \A b \in BOOLEAN : Flows(incomingQueue[e], ToApp, inQueue[e], b) =>
                Flows(incomingQueue[e], ToApp, inQueue'[e], b)
          BY <2>2, <3>2, <3>4, FlowIgnores
        <4>2. Flows(outgoingQueue[e], Back, inQueue[e], FALSE) =>
                Flows(outgoingQueue[e], Back, inQueue'[e], FALSE)
          BY <2>2, <3>2, <3>4, FlowIgnores
        <4>3. FlowsAt(e)'
          BY <1>1, <2>1, <3>2, <4>1, <4>2 DEF FlowsAt
        <4>4. Range(inQueue'[e]) = Range(inQueue[e]) \cup {CheckAlive}
          BY <2>2, <3>2, <3>4, AppendedOnce
        <4>5. \A k \in {ToApp, Back} : OfKinds(inQueue'[e], k) = OfKinds(inQueue[e], k)
          BY <2>2, <4>4 DEF OfKinds
        <4> QED BY <2>1, <4>3, <4>5 DEF SameWay
      <3> QED BY <3>1, <3>3, <3>4
    <2>4. \A l \in Loops : Holds(l)' => Holds(l)
      BY <1>1 DEF Holds
    <2>5. Newest'
      BY <1>1, <2>3, <2>4 DEF FlowInv, Newest
    <2> QED BY <2>3, <2>5 DEF FlowInv
  <1>3. CASE DeleteStopped
    <2>1. main.at = "join" /\ Emptied(main.ep)
      BY <1>3 DEF DeleteStopped, MainGoes
    <2>2. main.ep \in EndPoints
      BY <2>1 DEF TypeInv, LifeInv, LifeType, LeftAlone
    <2> QED BY <1>1, <2>1, <2>2, DrainedFlows
  <1>4. CASE UNCHANGED queues
    <2>1. \A f \in EndPoints : SameAt(f)
      BY <1>1, <1>4 DEF SameAt, queues
    <2> QED BY <1>1, <2>1, AllFlows
  <1>5. Tick \/ DeleteStopped \/ UNCHANGED queues
    BY DEF WorkerTakesSigint, SignalHandler, MainStep, AppEnds, JoinLoops, JoinWorker,
       Exit, StopEndPoint
  <1> QED BY <1>2, <1>3, <1>4, <1>5

(* A frame that is read is newer than all that went its way, and a loop     *)
(* reads no other before it enqueued it.                                    *)
LEMMA LoopFlows ==
  ASSUME TypeInv, MessageInv, FlowInv, NEW l \in Loops, LoopStep(l)
  PROVE  FlowInv'
  <1>1. frames \in Nat /\ loop \in [Loops -> LoopStates] /\ QueueType
    BY EndPointAssumption DEF TypeInv, RestType
  <1>2. CASE \/ \E e \in EndPoints : AddDaemonEndPoint(l, e)
             \/ \E e \in EndPoints, k \in Kinds : FindService(l, e, k)
    <2>1. /\ \A f \in EndPoints : SameAt(f)
          /\ loop'[l].msg.frame = frames + 1
          /\ \A k \in Loops \ {l} : loop'[k] = loop[k]
      BY <1>2, FramesRead
    <2>2. \A f \in EndPoints : FlowsAt(f)' /\ \A k \in Loops : SameWay(k, f)' = SameWay(k, f)
      BY <2>1, FlowKept DEF FlowInv
    <2>3. \A f \in EndPoints : \A m \in SameWay(l, f) : m.frame <= frames /\ m.frame \in Nat
      <3>1. \A f \in EndPoints : InQueues(f) \subseteq Anywhere
        BY <1>1, RangeTypes DEF InQueues, FromPeer, FromApp, Anywhere
      <3>2. \A f \in EndPoints : SameWay(l, f) \subseteq InQueues(f)
        BY DEF SameWay, OfKinds, InQueues, FromPeer, FromApp
      <3> QED BY <3>1, <3>2, Numbers DEF MessageInv, NewFrames
    <2>4. ASSUME NEW k \in Loops, Holds(k)', NEW f \in EndPoints, NEW m \in SameWay(k, f)
          PROVE  m.frame < loop'[k].msg.frame
      <3>1. CASE k = l
        BY <1>1, <2>1, <2>3, <2>4, <3>1
      <3>2. CASE k # l
        BY <2>1, <2>4, <3>2 DEF FlowInv, Newest, Holds
      <3> QED BY <3>1, <3>2
    <2>5. Newest'
      BY <2>2, <2>4 DEF Newest
    <2> QED BY <2>2, <2>5 DEF FlowInv
  <1>3. CASE GetDaemonEndPoint(l) \/ ExitLoop(l)
    <2>1. /\ UNCHANGED <<queues, thread>>
          /\ \A k \in Loops : Holds(k)' => Holds(k) /\ loop'[k].msg = loop[k].msg
      BY <1>3, FramesHeld
    <2>2. \A f \in EndPoints : FlowsAt(f)' /\ \A k \in Loops : SameWay(k, f)' = SameWay(k, f)
      BY <2>1, FlowKept DEF FlowInv, SameAt, queues
    <2>3. Newest'
      BY <2>1, <2>2 DEF FlowInv, Newest
    <2> QED BY <2>2, <2>3 DEF FlowInv
  <1>4. CASE EnqueueFrame(l)
    <2>1. PICK e \in EndPoints, m \in Read : e = loop[l].ep /\ m = loop[l].msg
      <3>1. loop[l].at = "hold"
        BY <1>4 DEF EnqueueFrame, LoopGoes
      <3>2. loop[l].ep \in EndPoints /\ loop[l].msg \in Read
        BY <1>1, <3>1 DEF LoopStates, Reading, Exited, Read
      <3> QED BY <3>2
    <2>2. /\ loop[l].at = "hold" /\ loop' = [loop EXCEPT ![l] = NextPass]
          /\ UNCHANGED <<inQueue, outQueue, thread>>
          /\ \/ UNCHANGED <<incomingQueue, outgoingQueue>>
             \/ /\ l = "unix" /\ incomingQueue' = incomingQueue
                /\ outgoingQueue' = [outgoingQueue EXCEPT ![e] = Append(@, m)]
             \/ /\ l # "unix" /\ outgoingQueue' = outgoingQueue
                /\ incomingQueue' = [incomingQueue EXCEPT ![e] = Append(@, m)]
      BY <1>4, <2>1 DEF EnqueueFrame, LoopGoes
    <2>3. \A k \in Loops : Holds(k)' => k # l /\ Holds(k) /\ loop'[k] = loop[k]
      <3>1. ~Holds(l)'
        BY <1>1, <2>2 DEF Holds, NextPass, Reading, Exited
      <3>2. \A k \in Loops \ {l} : loop'[k] = loop[k]
        BY <1>1, <2>2
      <3> QED BY <3>1, <3>2 DEF Holds
    <2>4. \A n \in SameWay(l, e) : n.frame < m.frame
      BY <2>1, <2>2 DEF FlowInv, Newest, Holds
    <2>5. /\ incomingQueue[e] \in Seq(Read) /\ outgoingQueue[e] \in Seq(Read)
          /\ inQueue[e] \in Seq(Anywhere) /\ outQueue[e] \in Seq(Anywhere)
          /\ FlowsAt(e)
      BY <1>1, FlowTypes DEF FlowInv
    <2>6. FlowsAt(e)' /\ \A k \in Loops \ {l} : SameWay(k, e)' = SameWay(k, e)
      <3>1. CASE UNCHANGED <<incomingQueue, outgoingQueue>>
        <4>1. SameAt(e)
          BY <2>2, <3>1 DEF SameAt
        <4> QED BY <2>5, <4>1, FlowKept
      <3>2. CASE /\ l = "unix" /\ incomingQueue' = incomingQueue
                 /\ outgoingQueue' = [outgoingQueue EXCEPT ![e] = Append(@, m)]
        <4>1. outgoingQueue'[e] = Append(outgoingQueue[e], m)
          BY <1>1, <2>1, <3>2 DEF QueueType
        <4>2. /\ \A n \in Range(outgoingQueue[e]) \cup OfKinds(outQueue[e], ToPeer) :
                   n.frame < m.frame
              /\ \A n \in Range(outgoingQueue[e]) \cup OfKinds(inQueue[e], Back) :
                   n.frame < m.frame
          BY <2>4, <3>2 DEF SameWay
        <4>3. \A b \in BOOLEAN : Flows(outgoingQueue[e], ToPeer, outQueue[e], b) =>
                Flows(outgoingQueue'[e], ToPeer, outQueue[e], b)
          BY <2>5, <4>1, <4>2, FlowEnqueues
        <4>4. Flows(outgoingQueue[e], Back, inQueue[e], FALSE) =>
                Flows(outgoingQueue'[e], Back, inQueue[e], FALSE)
          BY <2>5, <4>1, <4>2, FlowEnqueues
        <4>5. FlowsAt(e)'
          BY <2>2, <2>5, <3>2, <4>3, <4>4 DEF FlowsAt
        <4>6. \A k \in Loops \ {l} : SameWay(k, e)' = SameWay(k, e)
          BY <2>2, <3>2 DEF SameWay
        <4> QED BY <4>5, <4>6
      <3>3. CASE /\ l # "unix" /\ outgoingQueue' = outgoingQueue
                 /\ incomingQueue' = [incomingQueue EXCEPT ![e] = Append(@, m)]
        <4>1. incomingQueue'[e] = Append(incomingQueue[e], m)
          BY <1>1, <2>1, <3>3 DEF QueueType
        <4>2. \A n \in Range(incomingQueue[e]) \cup OfKinds(inQueue[e], ToApp) :
                n.frame < m.frame
          BY <2>4, <3>3 DEF SameWay
        <4>3. \A b \in BOOLEAN : Flows(incomingQueue[e], ToApp, inQueue[e], b) =>
                Flows(incomingQueue'[e], ToApp, inQueue[e], b)
          BY <2>5, <4>1, <4>2, FlowEnqueues
        <4>4. FlowsAt(e)'
          BY <2>2, <2>5, <3>3, <4>3 DEF FlowsAt
        <4>5. \A k \in Loops \ {l} : k = "unix"
          BY <3>3 DEF Loops
        <4>6. SameWay("unix", e)' = SameWay("unix", e)
          BY <2>2, <3>3 DEF SameWay
        <4> QED BY <4>4, <4>5, <4>6
      <3> QED BY <2>2, <3>1, <3>2, <3>3
    <2>7. \A f \in EndPoints \ {e} : SameAt(f)
      BY <1>1, <2>2 DEF SameAt, QueueType
    <2>8. \A f \in EndPoints :
            FlowsAt(f)' /\ \A k \in Loops \ {l} : SameWay(k, f)' = SameWay(k, f)
      BY <2>6, <2>7, FlowKept DEF FlowInv
    <2>9. Newest'
      BY <2>3, <2>8 DEF FlowInv, Newest
    <2> QED BY <2>8, <2>9 DEF FlowInv
  <1> QED BY <1>2, <1>3, <1>4 DEF LoopStep

LEMMA InitFlows == Init => FlowInv
  <1> SUFFICES ASSUME Init PROVE FlowInv
    OBVIOUS
  <1>1. \A e \in EndPoints : /\ incomingQueue[e] = << >> /\ outgoingQueue[e] = << >>
                             /\ inQueue[e] = << >> /\ outQueue[e] = << >>
    BY DEF Init
  <1>2. \A e \in EndPoints : FlowsAt(e)
    BY <1>1, NothingFlows DEF FlowsAt, Flows, Behind, Range
  <1>3. \A l \in Loops : ~Holds(l)
    BY DEF Init, Holds, Reading
  <1> QED BY <1>2, <1>3 DEF FlowInv, Newest

LEMMA NextFlows == TypeInv /\ MessageInv /\ FlowInv /\ [Next]_vars => FlowInv'
  <1> SUFFICES ASSUME TypeInv, MessageInv, FlowInv, [Next]_vars PROVE FlowInv'
    OBVIOUS
  <1>1. CASE UNCHANGED vars
    <2>1. UNCHANGED loop /\ \A e \in EndPoints : SameAt(e)
      BY <1>1 DEF vars, queues, SameAt
    <2> QED BY <2>1, AllFlows
  <1>2. CASE Next
    BY <1>2, LoopFlows, IncomingFlows, OutgoingFlows, SendFlowsOn, OtherFlows DEF Next
  <1> QED BY <1>1, <1>2

LEMMA FlowsKeepOrder ==
  ASSUME QueueType, NEW e \in EndPoints, FlowsAt(e)
  PROVE  /\ KeepsOrder(outgoingQueue[e], ToPeer, outQueue[e])
         /\ KeepsOrder(incomingQueue[e], ToApp, inQueue[e])
         /\ KeepsOrder(outgoingQueue[e], Back, inQueue[e])
  <1>1. ASSUME NEW kinds, NEW moved, NEW from \in Seq(Read), NEW to \in Seq(Anywhere),
               Flows(from, kinds, to, moved)
        PROVE  KeepsOrder(from, kinds, to)
    <2>1. ASSUME NEW i \in DOMAIN from, NEW j \in DOMAIN to, to[j].kind \in kinds
          PROVE  to[j].frame <= from[i].frame
      <3>1. /\ from[i] \in Range(from) /\ to[j] \in Range(to)
            /\ from[i] \in Read /\ to[j] \in Anywhere
        BY DEF Range
      <3>2. to[j].frame < from[i].frame \/ to[j].frame = from[i].frame
        BY <1>1, <2>1, <3>1 DEF Flows, Behind
      <3>3. from[i].frame \in Nat /\ to[j].frame \in Nat
        BY <3>1, Numbers DEF Anywhere
      <3> QED BY <3>2, <3>3
    <2> QED BY <1>1, <2>1 DEF KeepsOrder, NoneAhead, Flows
  <1> QED BY <1>1, FlowTypes DEF FlowsAt

(* No frame overtakes another of its way: the two threads that move frames  *)
(* put the head of one queue at the end of another and dequeue it only      *)
(* afterwards, the two that send take the head, a reading loop has enqueued *)
(* a frame before it reads the next, and ~DaemonEndPoint drains all four    *)
(* queues of an endpoint.                                                   *)
THEOREM FramesKeepOrder == Spec => []FramesInOrder
  <1>1. Spec => []TypeInv
    BY InitTypes, NextTypes, PTL DEF Spec
  <1>2. Spec => []MessageInv
    BY <1>1, InitMessages, NextMessages, PTL DEF Spec
  <1>3. Spec => []FlowInv
    BY <1>1, <1>2, InitFlows, NextFlows, PTL DEF Spec
  <1>4. TypeInv /\ FlowInv => FramesInOrder
    BY FlowsKeepOrder DEF TypeInv, FlowInv, FramesInOrder, ToPeer, ToApp, Back
  <1> QED BY <1>1, <1>3, <1>4, PTL

-----------------------------------------------------------------------------
(* Who uses an endpoint after its destructor. *)

Removing == {"failed", "joining", "erase", "delete", "deleted"}

(* An endpoint leaves the table, and its sending thread deletes it, only   *)
(* when its application is gone.                                           *)
RemovedGone ==
  \A e \in EndPoints :
    /\ thread[e]["sendIn"] \in Removing => e \in gone
    /\ e \in opened => e \in gone \/ e \in table
    /\ Freed(e) => e \in gone \/ main.at \notin {"loops", "worker"}

(* The main thread goes on, and deletes the others, when both reading      *)
(* loops ended; what a loop looks up or holds was constructed before.      *)
LoopsFirst ==
  \A l \in Loops :
    /\ main.at # "loops" => loop[l] = Exited
    /\ loop[l].at \in {"found", "hold"} => loop[l].ep \in opened

UseInv == RemovedGone /\ LoopsFirst /\ (crashed => gone # {})

LEMMA UseInvSays == TypeInv /\ UseInv => UsedAfterGone
  <1> SUFFICES ASSUME TypeInv, UseInv PROVE UsedAfterGone
    OBVIOUS
  <1>1. \A e \in EndPoints : thread[e]["sendIn"] = "deleted" => e \in gone
    BY DEF UseInv, RemovedGone, Removing
  <1>2. ASSUME NEW l \in Loops, loop[l].at = "hold", ~Alive(loop[l].ep)
        PROVE  loop[l].ep \in gone
    <2>1. main.at = "loops"
      BY <1>2 DEF UseInv, LoopsFirst, Exited
    <2>2. loop[l].ep \in opened /\ loop[l].ep \in EndPoints
      BY <1>2 DEF UseInv, LoopsFirst, TypeInv, LifeInv, LifeType
    <2> QED BY <1>2, <2>1, <2>2 DEF UseInv, RemovedGone, Alive
  <1> QED BY <1>1, <1>2 DEF UseInv, UsedAfterGone

LEMMA InitUse == Init => UseInv
  <1> SUFFICES ASSUME Init PROVE UseInv
    OBVIOUS
  <1>1. /\ opened = {} /\ crashed = FALSE /\ main.at = "loops"
        /\ deletes = [e \in EndPoints |-> 0] /\ loop = [l \in Loops |-> Reading]
        /\ thread = [e \in EndPoints |-> [r \in Roles |-> "none"]]
    BY DEF Init
  <1>2. RemovedGone
    BY <1>1 DEF RemovedGone, Removing, Freed, Roles
  <1>3. LoopsFirst
    BY <1>1 DEF LoopsFirst, Reading
  <1> QED BY <1>1, <1>2, <1>3 DEF UseInv

(* A step of the endpoint's threads that leaves its sending thread outside *)
(* the removal, or finds its application gone.                             *)
LEMMA ThreadUse ==
  ASSUME TypeInv, UseInv, UNCHANGED <<gone, opened, table, deletes, loop, main, crashed>>,
         NEW e \in EndPoints, NEW r \in Roles, NEW from, NEW to \in Labels,
         ThreadGoes(e, r, from, to),
         r # "sendIn" \/ to \notin Removing \/ e \in gone
  PROVE  UseInv'
  <1>1. \A f \in EndPoints, q \in Roles :
          thread'[f][q] = IF f = e /\ q = r THEN to ELSE thread[f][q]
    BY Goes DEF TypeInv, LifeInv
  <1>2. "sendIn" \in Roles
    BY DEF Roles
  <1>3. RemovedGone'
    BY <1>1, <1>2 DEF UseInv, RemovedGone, Freed
  <1>4. LoopsFirst'
    BY DEF UseInv, LoopsFirst
  <1> QED BY <1>3, <1>4 DEF UseInv

LEMMA PassUse ==
  ASSUME TypeInv, UseInv, NEW e \in EndPoints,
         \/ ProcessIncoming(e) \/ ProcessOutgoing(e) \/ SendOut(e)
         \/ SendPacketToApp(e) \/ EndThread(e, "sendIn")
         \/ SendFails(e) \/ RemoveDaemonEndPoint(e) \/ JoinOthers(e)
  PROVE  UseInv'
  <1>1. AfterPass(e) \in {"loop", "ended"} /\ {"loop", "ended"} \cap Removing = {}
    BY DEF AfterPass, Removing
  <1>2. /\ Roles = {"processIncoming", "processOutgoing", "sendIn", "sendOut"}
        /\ {"loop", "moved", "ended", "failed", "joining", "erase"} \subseteq Labels
    BY DEF Roles, Labels
  <1>4. CASE MoveIncoming(e) \/ KeepIncoming(e) \/ DequeueIncoming(e)
    BY <1>1, <1>2, <1>4, ThreadUse
    DEF MoveIncoming, KeepIncoming, DequeueIncoming, UnchangedByThreads, life
  <1>5. CASE MoveOutgoing(e) \/ DequeueOutgoing(e)
    BY <1>1, <1>2, <1>5, ThreadUse DEF MoveOutgoing, DequeueOutgoing, UnchangedByThreads, life
  <1>6. CASE SendPacketOutside(e)
    BY <1>1, <1>2, <1>6, ThreadUse DEF SendPacketOutside, UnchangedByThreads, life
  <1>7. CASE SendPacketToApp(e)
    BY <1>1, <1>2, <1>7, ThreadUse DEF SendPacketToApp, UnchangedByThreads, life
  <1>8. CASE \E r \in Roles : EndThread(e, r)
    BY <1>1, <1>2, <1>8, ThreadUse DEF EndThread, UnchangedByThreads, life
  <1>9. CASE SendFails(e)
    BY <1>2, <1>9, ThreadUse DEF SendFails, UnchangedByThreads, life
  <1>10. CASE RemoveDaemonEndPoint(e)
    <2>1. thread[e]["sendIn"] = "failed"
      BY <1>10 DEF RemoveDaemonEndPoint, ThreadGoes
    <2>2. e \in gone
      BY <2>1 DEF UseInv, RemovedGone, Removing
    <2> QED BY <1>2, <1>10, <2>2, ThreadUse DEF RemoveDaemonEndPoint
  <1>11. CASE JoinOthers(e)
    <2>1. thread[e]["sendIn"] = "joining"
      BY <1>11 DEF JoinOthers, ThreadGoes
    <2>2. e \in gone
      BY <2>1 DEF UseInv, RemovedGone, Removing
    <2> QED BY <1>2, <1>11, <2>2, ThreadUse DEF JoinOthers, UnchangedByThreads, life
  <1> QED
    BY <1>2, <1>4, <1>5, <1>6, <1>7, <1>8, <1>9, <1>10, <1>11
    DEF ProcessIncoming, ProcessOutgoing, SendOut

(* The endpoint leaves the table and its destructor runs after a send      *)
(* failed; then its sending thread, if the daemon lives, ends.             *)
LEMMA RemoveUse ==
  ASSUME TypeInv, UseInv, NEW e \in EndPoints,
         EraseEndPoint(e) \/ DeleteEndPoint(e) \/ UseDeleted(e)
  PROVE  UseInv'
  <1>1. PICK from \in {"erase", "delete", "deleted"}, to \in Labels :
          ThreadGoes(e, "sendIn", from, to)
    BY DEF EraseEndPoint, DeleteEndPoint, UseDeleted, Labels
  <1>2. "sendIn" \in Roles
    BY DEF Roles
  <1>3. /\ thread[e]["sendIn"] = from
        /\ \A f \in EndPoints, q \in Roles :
             thread'[f][q] = IF f = e /\ q = "sendIn" THEN to ELSE thread[f][q]
    BY <1>1, <1>2, Goes DEF TypeInv, LifeInv
  <1>4. e \in gone
    BY <1>3 DEF UseInv, RemovedGone, Removing
  <1>5. /\ UNCHANGED <<gone, opened, loop, main>>
        /\ \A f \in EndPoints \ {e} : (f \in table => f \in table') /\ deletes'[f] = deletes[f]
    BY DEF EraseEndPoint, DeleteEndPoint, UseDeleted, life, TypeInv, LifeInv, LifeType
  <1>6. RemovedGone'
    BY <1>2, <1>3, <1>4, <1>5 DEF UseInv, RemovedGone, Freed
  <1>7. LoopsFirst'
    BY <1>5 DEF UseInv, LoopsFirst
  <1> QED BY <1>4, <1>5, <1>6, <1>7 DEF UseInv

(* A reading loop: the main thread waits for it. *)
LEMMA LoopUse == ASSUME TypeInv, UseInv, NEW l \in Loops, LoopStep(l) PROVE UseInv'
  <1>1. PICK from, to : from \in {"read", "found", "hold"} /\ LoopGoes(l, from, to)
    <2>1. CASE \E e \in EndPoints : AddDaemonEndPoint(l, e) \/ \E k \in Kinds : FindService(l, e, k)
      <3>1. PICK to : LoopGoes(l, "read", to)
        BY <2>1, Zenon DEF AddDaemonEndPoint, FindService, Reads
      <3> QED BY <3>1
    <2>2. CASE GetDaemonEndPoint(l) \/ EnqueueFrame(l) \/ ExitLoop(l)
      <3>1. PICK from \in {"read", "found", "hold"} : \E to : LoopGoes(l, from, to)
        BY <2>2, Zenon DEF GetDaemonEndPoint, EnqueueFrame, ExitLoop
      <3> QED BY <3>1
    <2> QED BY <2>1, <2>2 DEF LoopStep
  <1>2. /\ loop[l].at = from
        /\ \A k \in Loops : loop'[k] = IF k = l THEN to ELSE loop[k]
    BY <1>1 DEF LoopGoes, TypeInv, RestType
  <1>3. main.at = "loops" /\ main' = main /\ gone' = gone /\ deletes' = deletes
    <2>1. main.at = "loops"
      BY <1>1, <1>2 DEF UseInv, LoopsFirst, Exited
    <2> QED
      BY <2>1 DEF LoopStep, AddDaemonEndPoint, FindService, GetDaemonEndPoint, EnqueueFrame,
         ExitLoop, life
  <1>4. CASE \E e \in EndPoints : AddDaemonEndPoint(l, e)
    <2>1. PICK e \in EndPoints : AddDaemonEndPoint(l, e)
      BY <1>4
    <2>2. /\ opened' = opened \cup {e} /\ table' = table \cup {e} /\ crashed' = crashed
          /\ to.at = "hold" /\ to.ep = e
          /\ thread' = [thread EXCEPT ![e] = [r \in Roles |-> "loop"]]
      <3>1. /\ opened' = opened \cup {e} /\ table' = table \cup {e} /\ crashed' = crashed
            /\ thread' = [thread EXCEPT ![e] = [r \in Roles |-> "loop"]]
        BY <2>1 DEF AddDaemonEndPoint
      <3>2. loop'[l].at = "hold" /\ loop'[l].ep = e
        BY <2>1 DEF AddDaemonEndPoint, Reads, LoopGoes, TypeInv, RestType
      <3> QED BY <1>2, <3>1, <3>2
    <2>3. \A f \in EndPoints : thread'[f]["sendIn"] \in {"loop", thread[f]["sendIn"]}
      BY <2>2 DEF Roles, TypeInv, LifeInv, LifeType
    <2>4. RemovedGone'
      BY <1>3, <2>2, <2>3 DEF UseInv, RemovedGone, Freed, Removing
    <2>5. LoopsFirst'
      BY <1>2, <1>3, <2>2 DEF UseInv, LoopsFirst
    <2> QED BY <1>3, <2>2, <2>4, <2>5 DEF UseInv
  <1>5. CASE \/ \E e \in EndPoints, k \in Kinds : FindService(l, e, k)
             \/ GetDaemonEndPoint(l) \/ EnqueueFrame(l) \/ ExitLoop(l)
    <2>1. UNCHANGED <<opened, table, thread>>
      BY <1>5 DEF FindService, GetDaemonEndPoint, EnqueueFrame, ExitLoop, life
    <2>2. RemovedGone'
      BY <1>3, <2>1 DEF UseInv, RemovedGone, Freed
    <2>3. to.at \in {"found", "hold"} => to.ep \in opened
      <3>1. CASE \E e \in EndPoints, k \in Kinds : FindService(l, e, k)
        <4>1. PICK e \in EndPoints, k \in Kinds : FindService(l, e, k)
          BY <3>1
        <4>2. e \in opened /\ loop'[l].ep = e
          BY <4>1 DEF FindService, Reads, LoopGoes, TypeInv, LifeInv, LifeType, RestType
        <4> QED BY <1>2, <4>2
      <3>2. CASE GetDaemonEndPoint(l)
        <4>1. loop[l].at = "found" /\ loop'[l].ep = loop[l].ep
          BY <3>2 DEF GetDaemonEndPoint, LoopGoes, TypeInv, RestType
        <4> QED BY <1>2, <4>1 DEF UseInv, LoopsFirst
      <3>3. CASE EnqueueFrame(l) \/ ExitLoop(l)
        <4>1. loop'[l] \in {Reading, Exited}
          BY <3>3 DEF EnqueueFrame, ExitLoop, NextPass, LoopGoes, TypeInv, RestType
        <4> QED BY <1>2, <4>1 DEF Reading, Exited
      <3> QED BY <1>5, <3>1, <3>2, <3>3
    <2>4. LoopsFirst'
      BY <1>2, <1>3, <2>1, <2>3 DEF UseInv, LoopsFirst
    <2>5. crashed' => gone # {}
      <3>1. CASE GetDaemonEndPoint(l)
        <4>1. loop[l].at = "found" /\ crashed' = (loop[l].ep \notin table)
          BY <3>1 DEF GetDaemonEndPoint, LoopGoes
        <4>2. loop[l].ep \in opened /\ loop[l].ep \in EndPoints
          BY <4>1 DEF UseInv, LoopsFirst, TypeInv, LifeInv, LifeType
        <4> QED BY <4>1, <4>2 DEF UseInv, RemovedGone
      <3>2. CASE EnqueueFrame(l)
        <4>1. loop[l].at = "hold" /\ (crashed' = FALSE \/ Freed(loop[l].ep))
          BY <3>2 DEF EnqueueFrame, LoopGoes
        <4>2. loop[l].ep \in EndPoints
          BY <4>1 DEF UseInv, LoopsFirst, TypeInv, LifeInv, LifeType
        <4> QED BY <1>3, <4>1, <4>2 DEF UseInv, RemovedGone
      <3>3. CASE ExitLoop(l) \/ \E e \in EndPoints, k \in Kinds : FindService(l, e, k)
        BY <3>3 DEF ExitLoop, FindService, UseInv
      <3> QED BY <1>5, <3>1, <3>2, <3>3
    <2> QED BY <1>3, <2>2, <2>4, <2>5 DEF UseInv
  <1> QED BY <1>4, <1>5 DEF LoopStep

(* The shutdown deletes what it finds in the table, the loops having ended. *)
LEMMA MainUse == ASSUME TypeInv, UseInv, MainStep PROVE UseInv'
  <1>1. UNCHANGED <<gone, opened, table, thread, loop, crashed>>
    BY DEF MainStep, JoinLoops, JoinWorker, DeleteStopped, Exit, StopEndPoint, life
  <1>2. /\ main.at = "loops" => \A l \in Loops : loop[l] = Exited
        /\ main'.at # "loops"
        /\ main'.at = "worker" => main.at = "loops"
    BY DEF MainStep, JoinLoops, JoinWorker, DeleteStopped, Exit, StopEndPoint, MainGoes
  <1>3. main'.at = "worker" => deletes' = deletes
    BY DEF MainStep, JoinLoops, JoinWorker, DeleteStopped, Exit, StopEndPoint, MainGoes, life
  <1>4. RemovedGone'
    BY <1>1, <1>2, <1>3 DEF UseInv, RemovedGone, Freed
  <1>5. LoopsFirst'
    BY <1>1, <1>2 DEF UseInv, LoopsFirst
  <1> QED BY <1>1, <1>4, <1>5 DEF UseInv

LEMMA NextUse == TypeInv /\ UseInv /\ [Next]_vars => UseInv'
  <1> SUFFICES ASSUME TypeInv, UseInv, [Next]_vars PROVE UseInv'
    OBVIOUS
  <1>1. ASSUME NEW e \in EndPoints,
               ProcessIncoming(e) \/ ProcessOutgoing(e) \/ SendOut(e) \/ SendIn(e)
        PROVE  UseInv'
    BY <1>1, PassUse, RemoveUse DEF SendIn
  <1>2. CASE \/ \E e \in EndPoints : AppEnds(e)
             \/ Tick \/ WorkerTakesSigint \/ SignalHandler \/ UNCHANGED vars
    <2>1. /\ UNCHANGED <<opened, table, deletes, thread, loop, main, crashed>>
          /\ gone \subseteq gone'
      BY <1>2 DEF AppEnds, Tick, WorkerTakesSigint, SignalHandler, vars, life
    <2>2. RemovedGone' /\ LoopsFirst'
      BY <2>1 DEF UseInv, RemovedGone, LoopsFirst, Freed
    <2> QED BY <2>1, <2>2 DEF UseInv
  <1> QED BY <1>1, <1>2, LoopUse, MainUse DEF Next

(* While its application is there no endpoint is used after its            *)
(* destructor, and the daemon does not die before some application ended:  *)
(* only a failed send makes a sending thread remove its endpoint, the main *)
(* thread deletes the others after it joined both reading loops.           *)
THEOREM UsedOnlyAfterGone == Spec => []UsedAfterGone
  <1>1. Spec => []TypeInv
    BY InitTypes, NextTypes, PTL DEF Spec
  <1>2. Spec => []UseInv
    BY <1>1, InitUse, NextUse, PTL DEF Spec
  <1> QED BY <1>1, <1>2, UseInvSays, PTL
=============================================================================
