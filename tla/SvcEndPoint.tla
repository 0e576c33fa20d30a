----------------------------- MODULE SvcEndPoint -----------------------------
(***************************************************************************)
(* The life of the daemon's endpoints, wifi/svc/svc/SVC-daemon.cpp and     *)
(* PeriodicWorker of SVC-utils.cpp: who makes an endpoint, who uses it,    *)
(* who deletes it, and how the daemon stops.                               *)
(*                                                                         *)
(* One service of the table is modelled with its PeriodicWorker, the two   *)
(* reading loops, the main thread, and four threads for each endpoint.     *)
(* endPointsMutex is taken to be a correct lock (SharedMutex models the    *)
(* one it is); a share is never held while waiting, so what is done under  *)
(* it is one step.  Only the main thread waits with the mutex held.        *)
(*                                                                         *)
(* A thread that passes a message on first enqueues and then dequeues it,  *)
(* two steps: in between the message is in two queues.  What a thread does *)
(* with memory that is gone is undefined; here the daemon crashes, or the  *)
(* memory still holds what it held and the thread goes on.                 *)
(***************************************************************************)
EXTENDS Naturals, Sequences, SequencesExt

CONSTANTS
  EndPoints,   \* the endpoint IDs; each is opened once
  Kinds,       \* the kinds of frames: commands, "other" for an unknown one
  MaxFrames,   \* bound: frames the reading loops read
  MaxQueue,    \* bound: a tick comes when no queue is longer, as five
               \* seconds are long for a thread that polls
  MaxSigints   \* bound: how often the user interrupts the daemon

Commands == {"STEP1", "STEP2", "STEP3", "other"}

ASSUME EndPointAssumption ==
  /\ Kinds \subseteq Commands
  /\ MaxFrames \in Nat /\ MaxQueue \in Nat /\ MaxSigints \in Nat

VARIABLES
  working,        \* the daemon's flag, cleared by the SIGINT handler
  gone,           \* endpoints whose application's socket is gone
  table,          \* the endpoints in the service's vector endPoints
  epWorking,      \* epWorking[e]: the flag of the endpoint
  deletes,        \* deletes[e]: how often its destructor ran
  opened,         \* the endpoints constructed so far
  incomingQueue, outgoingQueue, inQueue, outQueue,   \* the queues of each endpoint
  thread,         \* thread[e]: where its four threads are
  loop,           \* loop[l]: where each reading loop is
  frames,         \* how many frames were read
  worker,         \* where the thread of the PeriodicWorker is
  workerStopped,  \* whether its "working" was cleared
  timerDeletes,   \* how often its timer was deleted
  main,           \* where the main thread is
  sigints,        \* how many SIGINT came
  crashed         \* the process died on memory that was gone

queues == <<incomingQueue, outgoingQueue, inQueue, outQueue>>
life == <<table, epWorking, deletes, opened>>
workerVars == <<worker, workerStopped, timerDeletes>>
vars == <<working, gone, life, queues, thread, loop, frames, workerVars, main, sigints, crashed>>

Loops == {"unix", "htp"}
Roles == {"processIncoming", "processOutgoing", "sendIn", "sendOut"}
Reading == [at |-> "read"]
Exited == [at |-> "exited"]

Freed(e) == deletes[e] > 0
Alive(e) == e \in opened /\ ~Freed(e)

(* The main thread holds endPointsMutex from its lock() to its unlock(). *)
MainHolds == main.at \in {"choose", "join"}
MutexFree == ~MainHolds
Running == ~crashed /\ main.at # "exit"

Message(kind) == [frame |-> frames + 1, kind |-> kind]
CheckAlive == [frame |-> 0, kind |-> "CHECK_ALIVE"]

Init ==
  /\ working = TRUE
  /\ gone = {}
  /\ table = {}
  /\ epWorking = [e \in EndPoints |-> FALSE]
  /\ deletes = [e \in EndPoints |-> 0]
  /\ opened = {}
  /\ incomingQueue = [e \in EndPoints |-> << >>]
  /\ outgoingQueue = [e \in EndPoints |-> << >>]
  /\ inQueue = [e \in EndPoints |-> << >>]
  /\ outQueue = [e \in EndPoints |-> << >>]
  /\ thread = [e \in EndPoints |-> [r \in Roles |-> "none"]]
  /\ loop = [l \in Loops |-> Reading]
  /\ frames = 0
  /\ worker = "wait"
  /\ workerStopped = FALSE
  /\ timerDeletes = 0
  /\ main = [at |-> "loops"]
  /\ sigints = 0
  /\ crashed = FALSE
-----------------------------------------------------------------------------
(* The reading loops.  A pass takes a frame, finds the service that has    *)
(* its endpoint, asks the service for the endpoint and enqueues; nothing   *)
(* is locked between these.                                                *)

LoopGoes(l, from, to) ==
  /\ Running
  /\ loop[l].at = from
  /\ loop' = [loop EXCEPT ![l] = to]

Reads(l, to) ==
  /\ frames < MaxFrames
  /\ frames' = frames + 1
  /\ MutexFree
  /\ LoopGoes(l, "read", to)

(* getServiceByEndPointID finds the service. *)
FindService(l, e, kind) ==
  /\ e \in table
  /\ Reads(l, [at |-> "found", ep |-> e, msg |-> Message(kind)])
  /\ UNCHANGED <<working, gone, life, queues, thread, workerVars, main, sigints, crashed>>

(* addDaemonEndPoint for a request nobody knows: the constructor starts    *)
(* the four threads before the endpoint is in the vector.                  *)
AddDaemonEndPoint(l, e) ==
  /\ e \notin opened
  /\ Reads(l, [at |-> "hold", ep |-> e, msg |-> Message("STEP1")])
  /\ opened' = opened \cup {e}
  /\ table' = table \cup {e}
  /\ epWorking' = [epWorking EXCEPT ![e] = TRUE]
  /\ thread' = [thread EXCEPT ![e] = [r \in Roles |-> "loop"]]
  /\ UNCHANGED <<working, gone, deletes, queues, workerVars, main, sigints, crashed>>

(* getDaemonEndPoint; an endpoint removed since then makes it NULL, which  *)
(* the loop follows.                                                       *)
GetDaemonEndPoint(l) ==
  /\ MutexFree
  /\ LoopGoes(l, "found", [loop[l] EXCEPT !.at = "hold"])
  /\ crashed' = (loop[l].ep \notin table)
  /\ UNCHANGED <<working, gone, life, queues, thread, frames, workerVars, main, sigints>>

NextPass == IF working THEN Reading ELSE Exited

(* Mutant: the frames of both loops go the way of the application's.        *)
EnqueueOneWay(l) ==
  /\ LoopGoes(l, "hold", NextPass)
  /\ outgoingQueue' = [outgoingQueue EXCEPT ![loop[l].ep] = Append(@, loop[l].msg)]
  /\ UNCHANGED <<working, gone, life, incomingQueue, inQueue, outQueue, thread, frames,
                 workerVars, main, sigints, crashed>>

EnqueueFrame(l) ==
  /\ LoopGoes(l, "hold", NextPass)
  /\ LET e == loop[l].ep
         AppendTo(q) == [q EXCEPT ![e] = Append(@, loop[l].msg)] IN
     \/ /\ Alive(e)
        /\ IF l = "unix"
           THEN outgoingQueue' = AppendTo(outgoingQueue) /\ incomingQueue' = incomingQueue
           ELSE incomingQueue' = AppendTo(incomingQueue) /\ outgoingQueue' = outgoingQueue
        /\ crashed' = FALSE
     \/ /\ Freed(e)
        /\ crashed' \in BOOLEAN
        /\ UNCHANGED <<incomingQueue, outgoingQueue>>
  /\ UNCHANGED <<working, gone, life, inQueue, outQueue, thread, frames, workerVars, main, sigints>>

(* The loop was told to stop while it had nothing to read. *)
ExitLoop(l) ==
  /\ ~working
  /\ LoopGoes(l, "read", Exited)
  /\ UNCHANGED <<working, gone, life, queues, thread, frames, workerVars, main, sigints, crashed>>
-----------------------------------------------------------------------------
(* The four threads of an endpoint.  A thread at "loop" has seen working   *)
(* set; one that moved a message still has it in the queue it came from.   *)

ThreadGoes(e, r, from, to) ==
  /\ Running
  /\ thread[e][r] = from
  /\ thread' = [thread EXCEPT ![e][r] = to]

AfterPass(e) == IF epWorking[e] THEN "loop" ELSE "ended"

UnchangedByThreads ==
  UNCHANGED <<working, gone, life, loop, frames, workerVars, main, sigints, crashed>>

(* processingIncomingMessage: STEP1 and STEP2 go to the application.       *)
MoveIncoming(e) ==
  /\ incomingQueue[e] # << >>
  /\ Head(incomingQueue[e]).kind \in {"STEP1", "STEP2"}
  /\ ThreadGoes(e, "processIncoming", "loop", "moved")
  /\ inQueue' = [inQueue EXCEPT ![e] = Append(@, Head(incomingQueue[e]))]
  /\ UNCHANGED <<incomingQueue, outgoingQueue, outQueue>>
  /\ UnchangedByThreads

(* The rest ends here. *)
KeepIncoming(e) ==
  /\ incomingQueue[e] # << >>
  /\ Head(incomingQueue[e]).kind \in {"STEP3", "other"}
  /\ ThreadGoes(e, "processIncoming", "loop", "moved")
  /\ UNCHANGED queues
  /\ UnchangedByThreads

DequeueIncoming(e) ==
  /\ ThreadGoes(e, "processIncoming", "moved", AfterPass(e))
  /\ incomingQueue' = [incomingQueue EXCEPT ![e] = Tail(@)]
  /\ UNCHANGED <<outgoingQueue, inQueue, outQueue>>
  /\ UnchangedByThreads

(* processingOutgoingMessage.  For STEP1 a new, shorter message goes on    *)
(* and the old one is deleted; an unknown command stays where it is.       *)
(* Mutant: the address parameter leaves the host. *)
OutgoingAsItIs(m) == m

Outgoing(m) == IF m.kind = "STEP1" THEN [m EXCEPT !.kind = "STEP1 shortened"] ELSE m

(* Mutant: STEP3 has no case of its own. *)
MoveAllButStep3(e) ==
  /\ outgoingQueue[e] # << >>
  /\ Head(outgoingQueue[e]).kind \notin {"STEP3", "other"}
  /\ ThreadGoes(e, "processOutgoing", "loop", "moved")
  /\ outQueue' = [outQueue EXCEPT ![e] = Append(@, Outgoing(Head(outgoingQueue[e])))]
  /\ UNCHANGED <<incomingQueue, outgoingQueue, inQueue>>
  /\ UnchangedByThreads

MoveOutgoing(e) ==
  /\ outgoingQueue[e] # << >>
  /\ Head(outgoingQueue[e]).kind # "other"
  /\ ThreadGoes(e, "processOutgoing", "loop", "moved")
  /\ outQueue' = [outQueue EXCEPT ![e] = Append(@, Outgoing(Head(outgoingQueue[e])))]
  /\ UNCHANGED <<incomingQueue, outgoingQueue, inQueue>>
  /\ UnchangedByThreads

(* A copy of STEP3 is the daemon's answer to the application. *)
DequeueOutgoing(e) ==
  /\ ThreadGoes(e, "processOutgoing", "moved", AfterPass(e))
  /\ outgoingQueue' = [outgoingQueue EXCEPT ![e] = Tail(@)]
  /\ inQueue' = IF Head(outgoingQueue[e]).kind = "STEP3"
                THEN [inQueue EXCEPT ![e] =
                        Append(@, [Head(outgoingQueue[e]) EXCEPT !.kind = "STEP3 copy"])]
                ELSE inQueue
  /\ UNCHANGED <<incomingQueue, outQueue>>
  /\ UnchangedByThreads

(* sendPacketOutside: sendto does not fail for the daemon. *)
SendPacketOutside(e) ==
  /\ outQueue[e] # << >>
  /\ ThreadGoes(e, "sendOut", "loop", AfterPass(e))
  /\ outQueue' = [outQueue EXCEPT ![e] = Tail(@)]
  /\ UNCHANGED <<incomingQueue, outgoingQueue, inQueue>>
  /\ UnchangedByThreads

(* sendPacketToApp: the application takes the message. *)
SendPacketToApp(e) ==
  /\ inQueue[e] # << >>
  /\ e \notin gone
  /\ ThreadGoes(e, "sendIn", "loop", AfterPass(e))
  /\ inQueue' = [inQueue EXCEPT ![e] = Tail(@)]
  /\ UNCHANGED <<incomingQueue, outgoingQueue, outQueue>>
  /\ UnchangedByThreads

EndThread(e, r) ==
  /\ ~epWorking[e]
  /\ ThreadGoes(e, r, "loop", "ended")
  /\ UNCHANGED queues
  /\ UnchangedByThreads
-----------------------------------------------------------------------------
(* removeDaemonEndPoint, called by the endpoint's own sending thread when  *)
(* the application is gone.                                                *)

SendFails(e) ==
  /\ inQueue[e] # << >>
  /\ e \in gone
  /\ ThreadGoes(e, "sendIn", "loop", "failed")
  /\ UNCHANGED queues
  /\ UnchangedByThreads

(* getDaemonEndPoint finds the endpoint: it was in the vector before the   *)
(* first message came.  Then stopWorking clears the flag.                  *)
RemoveDaemonEndPoint(e) ==
  /\ MutexFree
  /\ ThreadGoes(e, "sendIn", "failed", "joining")
  /\ epWorking' = [epWorking EXCEPT ![e] = FALSE]
  /\ UNCHANGED <<working, gone, table, deletes, opened, queues, loop, frames, workerVars,
                 main, sigints, crashed>>

(* stopWorking of the daemon's endpoints: the joins.  The sending thread   *)
(* joins the other three; its join of itself fails at once (EDEADLK).      *)
(* Mutant: stopWorking forgets the thread that processes incoming frames. *)
EndedButIncoming(e, roles) == \A r \in roles \ {"processIncoming"} : thread[e][r] = "ended"

Ended(e, roles) == \A r \in roles : thread[e][r] = "ended"

JoinOthers(e) ==
  /\ Ended(e, Roles \ {"sendIn"})
  /\ ThreadGoes(e, "sendIn", "joining", "erase")
  /\ UNCHANGED queues
  /\ UnchangedByThreads

(* Mutant: the reference in the vector is not removed. *)
ForgetErase(e) ==
  /\ MutexFree
  /\ ThreadGoes(e, "sendIn", "erase", "delete")
  /\ UNCHANGED <<working, gone, life, queues, loop, frames, workerVars, main, sigints, crashed>>

EraseEndPoint(e) ==
  /\ MutexFree
  /\ ThreadGoes(e, "sendIn", "erase", "delete")
  /\ table' = table \ {e}
  /\ UNCHANGED <<working, gone, epWorking, deletes, opened, queues, loop, frames, workerVars,
                 main, sigints, crashed>>

Emptied(e) ==
  /\ incomingQueue' = [incomingQueue EXCEPT ![e] = << >>]
  /\ outgoingQueue' = [outgoingQueue EXCEPT ![e] = << >>]
  /\ inQueue' = [inQueue EXCEPT ![e] = << >>]
  /\ outQueue' = [outQueue EXCEPT ![e] = << >>]

(* The destructor drains the queues. *)
DeleteEndPoint(e) ==
  /\ ThreadGoes(e, "sendIn", "delete", "deleted")
  /\ deletes' = [deletes EXCEPT ![e] = @ + 1]
  /\ Emptied(e)
  /\ UNCHANGED <<working, gone, table, epWorking, opened, loop, frames, workerVars,
                 main, sigints, crashed>>

(* Back in sendPacketToApp: dequeue and the test of working, both in the   *)
(* endpoint that was deleted.                                              *)
UseDeleted(e) ==
  /\ ThreadGoes(e, "sendIn", "deleted", "ended")
  /\ crashed' \in BOOLEAN
  /\ UNCHANGED <<working, gone, life, queues, loop, frames, workerVars, main, sigints>>
-----------------------------------------------------------------------------
(* PeriodicWorker *)

(* Mutant: the worker does not look at its flag again. *)
TickForEver ==
  /\ Running
  /\ worker = "wait"
  /\ MutexFree
  /\ \A e \in table : Len(inQueue[e]) <= MaxQueue
  /\ inQueue' = [e \in EndPoints |-> IF e \in table THEN Append(inQueue[e], CheckAlive)
                                     ELSE inQueue[e]]
  /\ UNCHANGED <<working, gone, life, incomingQueue, outgoingQueue, outQueue, thread, loop,
                 frames, workerVars, main, sigints, crashed>>

(* A tick: checkAliveEndPoint puts a frame into the inQueue of every       *)
(* endpoint, whether or not the worker was told to stop meanwhile.         *)
Tick ==
  /\ Running
  /\ worker = "wait"
  /\ MutexFree
  /\ \A e \in table : Len(inQueue[e]) <= MaxQueue
  /\ inQueue' = [e \in EndPoints |-> IF e \in table THEN Append(inQueue[e], CheckAlive)
                                     ELSE inQueue[e]]
  /\ worker' = IF workerStopped THEN "ended" ELSE "wait"
  /\ UNCHANGED <<working, gone, life, incomingQueue, outgoingQueue, outQueue, thread, loop,
                 frames, workerStopped, timerDeletes, main, sigints, crashed>>

(* SIGINT is in the set the worker waits for: when the worker takes it, it *)
(* stops itself, and nobody runs the handler.                              *)
WorkerTakesSigint ==
  /\ Running
  /\ sigints < MaxSigints
  /\ sigints' = sigints + 1
  /\ worker = "wait"
  /\ worker' = "ended"
  /\ workerStopped' = TRUE
  /\ timerDeletes' = timerDeletes + 1
  /\ UNCHANGED <<working, gone, life, queues, thread, loop, frames, main, crashed>>
-----------------------------------------------------------------------------
(* The main thread and the signal handler *)

SignalHandler ==
  /\ Running
  /\ sigints < MaxSigints
  /\ sigints' = sigints + 1
  /\ working' = FALSE
  /\ UNCHANGED <<gone, life, queues, thread, loop, frames, workerVars, main, crashed>>

MainGoes(from, to) ==
  /\ Running
  /\ main.at = from
  /\ main' = to

(* Mutant: the loop that reads from other hosts is not joined. *)
JoinUnixLoop ==
  /\ loop["unix"] = Exited
  /\ MainGoes("loops", [at |-> "worker"])
  /\ workerStopped' = TRUE
  /\ UNCHANGED <<working, gone, life, queues, thread, loop, frames, worker, timerDeletes,
                 sigints, crashed>>

(* Both reading loops are joined; PeriodicWorker::stopWorking begins. *)
JoinLoops ==
  /\ \A l \in Loops : loop[l] = Exited
  /\ MainGoes("loops", [at |-> "worker"])
  /\ workerStopped' = TRUE
  /\ UNCHANGED <<working, gone, life, queues, thread, loop, frames, worker, timerDeletes,
                 sigints, crashed>>

(* The worker is joined, its timer deleted, and endPointsMutex locked. *)
JoinWorker ==
  /\ worker = "ended"
  /\ MainGoes("worker", [at |-> "choose", left |-> table])
  /\ timerDeletes' = timerDeletes + 1
  /\ UNCHANGED <<working, gone, life, queues, thread, loop, frames, worker, workerStopped,
                 sigints, crashed>>

StopEndPoint(e) ==
  /\ MainGoes("choose", [at |-> "join", left |-> main.left \ {e}, ep |-> e])
  /\ e \in main.left
  /\ epWorking' = [epWorking EXCEPT ![e] = FALSE]
  /\ UNCHANGED <<working, gone, table, deletes, opened, queues, thread, loop, frames,
                 workerVars, sigints, crashed>>

(* All four threads joined: the endpoint is deleted and stays in the vector. *)
DeleteStopped ==
  /\ MainGoes("join", [at |-> "choose", left |-> main.left])
  /\ Ended(main.ep, Roles)
  /\ deletes' = [deletes EXCEPT ![main.ep] = @ + 1]
  /\ Emptied(main.ep)
  /\ UNCHANGED <<working, gone, table, epWorking, opened, thread, loop, frames, workerVars,
                 sigints, crashed>>

(* unlock, delete the service, return from main(). *)
Exit ==
  /\ MainGoes("choose", [at |-> "exit"])
  /\ main.left = {}
  /\ UNCHANGED <<working, gone, life, queues, thread, loop, frames, workerVars, sigints, crashed>>

(* An application ends, and its socket with it. *)
AppEnds(e) ==
  /\ Running
  /\ gone' = gone \cup {e}
  /\ UNCHANGED <<working, life, queues, thread, loop, frames, workerVars, main, sigints, crashed>>
-----------------------------------------------------------------------------
LoopStep(l) ==
  \/ \E e \in EndPoints : AddDaemonEndPoint(l, e) \/ (\E k \in Kinds : FindService(l, e, k))
  \/ GetDaemonEndPoint(l) \/ EnqueueFrame(l) \/ ExitLoop(l)

ProcessIncoming(e) ==
  MoveIncoming(e) \/ KeepIncoming(e) \/ DequeueIncoming(e) \/ EndThread(e, "processIncoming")
ProcessOutgoing(e) ==
  MoveOutgoing(e) \/ DequeueOutgoing(e) \/ EndThread(e, "processOutgoing")
SendOut(e) == SendPacketOutside(e) \/ EndThread(e, "sendOut")
SendIn(e) ==
  \/ SendPacketToApp(e) \/ EndThread(e, "sendIn")
  \/ SendFails(e) \/ RemoveDaemonEndPoint(e) \/ JoinOthers(e) \/ EraseEndPoint(e)
  \/ DeleteEndPoint(e) \/ UseDeleted(e)

MainStep ==
  \/ JoinLoops \/ JoinWorker \/ DeleteStopped \/ Exit
  \/ \E e \in EndPoints : StopEndPoint(e)

Next ==
  \/ \E l \in Loops : LoopStep(l)
  \/ \E e \in EndPoints :
       ProcessIncoming(e) \/ ProcessOutgoing(e) \/ SendOut(e) \/ SendIn(e) \/ AppEnds(e)
  \/ Tick \/ WorkerTakesSigint \/ SignalHandler \/ MainStep

Spec == Init /\ [][Next]_vars

(* Every thread runs, and the timer ticks until it is deleted.  No frame   *)
(* has to come, no application has to end, nobody has to send SIGINT.      *)
FairSpec ==
  /\ Spec
  /\ \A l \in Loops : WF_vars(GetDaemonEndPoint(l) \/ EnqueueFrame(l) \/ ExitLoop(l))
  /\ \A e \in EndPoints :
       /\ WF_vars(ProcessIncoming(e)) /\ WF_vars(ProcessOutgoing(e))
       /\ WF_vars(SendOut(e)) /\ WF_vars(SendIn(e))
  /\ WF_vars(Tick) /\ WF_vars(MainStep)
-----------------------------------------------------------------------------
Messages(kinds) == [frame : 0..MaxFrames, kind : kinds]
Labels == {"none", "loop", "moved", "failed", "joining", "erase", "delete", "deleted", "ended"}
LoopStates ==
  {Reading, Exited} \cup [at : {"found", "hold"}, ep : EndPoints, msg : Messages(Commands)]
MainStates ==
  [at : {"loops", "worker", "exit"}] \cup [at : {"choose"}, left : SUBSET EndPoints]
    \cup [at : {"join"}, left : SUBSET EndPoints, ep : EndPoints]

(* Types of the variables: above all what kinds of messages a queue can    *)
(* hold.  No address parameter and no unknown command leaves the host, no  *)
(* STEP3 of the peer reaches the application.                              *)
TypeOK ==
  /\ working \in BOOLEAN
  /\ gone \subseteq EndPoints
  /\ table \subseteq EndPoints
  /\ epWorking \in [EndPoints -> BOOLEAN]
  /\ deletes \in [EndPoints -> Nat]
  /\ opened \subseteq EndPoints
  /\ incomingQueue \in [EndPoints -> Seq(Messages(Commands))]
  /\ outgoingQueue \in [EndPoints -> Seq(Messages(Commands))]
  /\ inQueue \in [EndPoints -> Seq(Messages({"STEP1", "STEP2", "STEP3 copy", "CHECK_ALIVE"}))]
  /\ outQueue \in [EndPoints -> Seq(Messages({"STEP1 shortened", "STEP2", "STEP3"}))]
  /\ thread \in [EndPoints -> [Roles -> Labels]]
  /\ loop \in [Loops -> LoopStates]
  /\ frames \in 0..MaxFrames
  /\ worker \in {"wait", "ended"}
  /\ workerStopped \in BOOLEAN
  /\ timerDeletes \in Nat
  /\ main \in MainStates
  /\ sigints \in 0..MaxSigints
  /\ crashed \in BOOLEAN

(* An endpoint is deleted after its threads ended, whoever deletes it: the *)
(* processing threads and sendPacketOutside never use one that is gone.    *)
(* Only the sending thread that removes its own endpoint still runs.       *)
ThreadsEndFirst ==
  \A e \in EndPoints : Freed(e) =>
    \A r \in Roles \ {"sendIn"} : thread[e][r] = "ended"

(* No destructor runs twice, though an endpoint is deleted by its sending  *)
(* thread (removeDaemonEndPoint) or by the main thread (stopWorking).      *)
DeletedOnce == \A e \in EndPoints : deletes[e] <= 1

(* Whoever gets endPointsMutex finds endpoints in the vector that exist:   *)
(* checkAliveEndPoint and the lookups follow every pointer of it.          *)
LookupsLive == Running /\ MutexFree => \A e \in table : Alive(e)

(* When an endpoint is deleted no message is in two of its queues, or      *)
(* ~DaemonEndPoint, which drains all four, would delete it twice.          *)
AllMessages(e) == incomingQueue[e] \o outgoingQueue[e] \o inQueue[e] \o outQueue[e]
NoneTwice(s) == \A i, j \in DOMAIN s : s[i] = s[j] /\ s[i] # CheckAlive => i = j
MessagesDeletedOnce ==
  [][\A e \in EndPoints : deletes'[e] > deletes[e] => NoneTwice(AllMessages(e))]_vars

(* No frame overtakes another of its way through the endpoint, from the    *)
(* application to the peer, from the peer to the application, or from the  *)
(* application back to it: a frame is in two queues at a time, a thread    *)
(* takes what it finds first and not what it moved, and the daemon's own   *)
(* CHECK_ALIVE frames come in between.                                     *)
InOrder(q, kinds) ==
  \A i, j \in DOMAIN q :
    i < j /\ {q[i].kind, q[j].kind} \subseteq kinds => q[i].frame < q[j].frame
NoneAhead(from, kinds, to) ==
  \A i \in DOMAIN from, j \in DOMAIN to : to[j].kind \in kinds => to[j].frame <= from[i].frame
KeepsOrder(from, kinds, to) ==
  InOrder(from, Commands) /\ InOrder(to, kinds) /\ NoneAhead(from, kinds, to)
FramesInOrder ==
  \A e \in EndPoints :
    /\ KeepsOrder(outgoingQueue[e], {"STEP1 shortened", "STEP2", "STEP3"}, outQueue[e])
    /\ KeepsOrder(incomingQueue[e], {"STEP1", "STEP2"}, inQueue[e])
    /\ KeepsOrder(outgoingQueue[e], {"STEP3 copy"}, inQueue[e])

(* Nobody uses an endpoint after its destructor while its application is   *)
(* there: not the sending thread that deletes it, nor a reading loop that  *)
(* looked it up before.  So the daemon dies of such a use, or of the NULL  *)
(* that a lookup answers, only after an application ended; the shutdown    *)
(* alone, which deletes the endpoints of all the others, is safe.          *)
UsedAfterGone ==
  /\ \A e \in EndPoints : thread[e]["sendIn"] = "deleted" => e \in gone
  /\ \A l \in Loops : loop[l].at = "hold" /\ ~Alive(loop[l].ep) => loop[l].ep \in gone
  /\ crashed => gone # {}

(* A frame of the application leaves the daemon, unless an unknown command *)
(* before it blocks processingOutgoingMessage or the endpoint is stopped.  *)
FramesOf(q) == {q[i].frame : i \in DOMAIN q}
Unblocked(e, n) ==
  \E i \in DOMAIN outgoingQueue[e] :
    outgoingQueue[e][i].frame = n /\ \A j \in 1..i : outgoingQueue[e][j].kind # "other"
FramesLeave ==
  \A e \in EndPoints, n \in 1..MaxFrames :
    Unblocked(e, n) ~>
      (~epWorking[e] \/ n \notin FramesOf(outgoingQueue[e]) \cup FramesOf(outQueue[e]))

(* Once the handler cleared "working" the daemon exits, as long as no      *)
(* application is gone whose endpoint has to be removed: each join of the  *)
(* shutdown, the worker's included, is answered.                           *)
ShutdownEnds == (~working /\ gone = {}) ~> (main.at = "exit" \/ gone # {})
-----------------------------------------------------------------------------
(* What the code or its comments say and do not keep. *)

(* main() cleans up and ends whatever applications did ("DO CLEANING UP    *)
(* BEFORE EXIT").                                                          *)
AlwaysExits == ~working ~> (main.at = "exit" \/ crashed)

(* sendPacketToApp: "remove the message from queue" after the removal uses *)
(* an endpoint that still exists.                                          *)
SenderAlive == \A e \in EndPoints : thread[e]["sendIn"] = "deleted" => Alive(e)

(* A reading loop enqueues into an endpoint that exists. *)
LoopHoldsLive == \A l \in Loops : loop[l].at = "hold" => Alive(loop[l].ep)

(* The timer of a PeriodicWorker is deleted once. *)
TimerDeletedOnce == timerDeletes <= 1

(* SIGINT stops the daemon ("SIGINT caught, stopping daemon"). *)
SigintStops == sigints > 0 ~> ~working
=============================================================================
