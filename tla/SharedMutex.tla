----------------------------- MODULE SharedMutex -----------------------------
(***************************************************************************)
(* The hand-made reader/writer lock of wifi/svc/svc/shared_mutex.h.        *)
(*                                                                         *)
(* The class keeps two counters and two wait queues, each behind a mutex   *)
(* of its own, and wakes a waiting thread with pthread_kill(SIGUSR1) while *)
(* the thread sits in sigwait.  One critical section of one of the four    *)
(* inner mutexes is one step here, because no other thread can see what    *)
(* happens inside it; between two critical sections any thread may run.    *)
(* That is the whole point: lock() tests the counters in two critical      *)
(* sections and changes them in a third one.                               *)
(*                                                                         *)
(* SIGUSR1 is blocked in every thread that uses the lock, so a signal sent *)
(* before the target reaches sigwait stays pending, and two signals to the *)
(* same thread are one: "signaled" is a set.                               *)
(*                                                                         *)
(* A caller pairs each lock with one unlock.  A thread may nest            *)
(* lock_shared up to MaxDepth times, as SVC::processPacket does when it    *)
(* calls getEndPointByID while it holds the same mutex (SVC.cpp:136-138).  *)
(***************************************************************************)
EXTENDS Naturals, Sequences, FiniteSets

CONSTANTS
  Readers,     \* threads that call lock_shared / unlock_shared
  Writers,     \* threads that call lock / unlock (may overlap Readers)
  MaxDepth     \* how many shared acquisitions one thread nests

ASSUME ThreadsAssumption == IsFiniteSet(Readers) /\ IsFiniteSet(Writers)
ASSUME DepthAssumption   == MaxDepth \in Nat \ {0}

Threads == Readers \cup Writers

VARIABLES
  readerPresence,   \* shared_mutex::readerPresence
  writerPresence,   \* shared_mutex::writerPresence
  readWaitQueue,    \* shared_mutex::readWaitQueue
  writeWaitQueue,   \* shared_mutex::writeWaitQueue
  signaled,         \* threads with a pending SIGUSR1
  shared,           \* shared[t]: shared acquisitions t holds
  pc                \* pc[t]: where t is inside the lock's operations

vars == <<readerPresence, writerPresence, readWaitQueue, writeWaitQueue,
          signaled, shared, pc>>

(* Places between two critical sections.  "out" is outside every           *)
(* operation, "writing" is between the return of lock and unlock.          *)
WriterAnnounced == {"lock_enqueue", "lock_wait", "writing"}
Places == WriterAnnounced \cup
          {"out", "lock_readers", "lock_enter", "lock_announce",
           "shared_enqueue", "shared_wait", "shared_enter",
           "unshare_notify", "unlock_notify", "unlock_readers"}

Init ==
  /\ readerPresence = 0
  /\ writerPresence = 0
  /\ readWaitQueue = << >>
  /\ writeWaitQueue = << >>
  /\ signaled = {}
  /\ shared = [t \in Threads |-> 0]
  /\ pc = [t \in Threads |-> "out"]

Goto(t, from, to) == pc[t] = from /\ pc' = [pc EXCEPT ![t] = to]

counters == <<readerPresence, writerPresence>>
queues   == <<readWaitQueue, writeWaitQueue, signaled>>
-----------------------------------------------------------------------------
(* lock() *)

(* The first test of lock: no writer seen, go and look at the readers.  The *)
(* test changes nothing, so nothing stops another thread from passing it    *)
(* too.                                                                     *)
LockSeesNoWriter(t) ==
  /\ shared[t] = 0
  /\ writerPresence = 0
  /\ Goto(t, "out", "lock_readers")
  /\ UNCHANGED <<counters, queues, shared>>

(* Another writer has announced itself: announce this one in the same       *)
(* critical section and go and queue.                                       *)
LockSeesWriter(t) ==
  /\ shared[t] = 0
  /\ writerPresence > 0
  /\ writerPresence' = writerPresence + 1
  /\ Goto(t, "out", "lock_enqueue")
  /\ UNCHANGED <<readerPresence, queues, shared>>

(* The second test of lock, under readerPresenceMutex. *)
LockChecksReaders(t) ==
  /\ \/ readerPresence = 0 /\ Goto(t, "lock_readers", "lock_enter")
     \/ readerPresence > 0 /\ Goto(t, "lock_readers", "lock_announce")
  /\ UNCHANGED <<counters, queues, shared>>

(* No reader was seen: take the lock by counting this writer. *)
LockEnters(t) ==
  /\ writerPresence' = writerPresence + 1
  /\ Goto(t, "lock_enter", "writing")
  /\ UNCHANGED <<readerPresence, queues, shared>>

(* Mutant: the waiting writer is not counted, as if lock went straight to   *)
(* the queue.                                                               *)
LockAnnouncesUncounted(t) ==
  /\ Goto(t, "lock_announce", "lock_enqueue")
  /\ UNCHANGED <<counters, queues, shared>>

(* Readers were seen: count this writer so that no new reader comes in. *)
LockAnnounces(t) ==
  /\ writerPresence' = writerPresence + 1
  /\ Goto(t, "lock_announce", "lock_enqueue")
  /\ UNCHANGED <<readerPresence, queues, shared>>

LockEnqueues(t) ==
  /\ writeWaitQueue' = Append(writeWaitQueue, t)
  /\ Goto(t, "lock_enqueue", "lock_wait")
  /\ UNCHANGED <<counters, readWaitQueue, signaled, shared>>

(* sigwait returns: the writer holds the lock without another test. *)
LockWakes(t) ==
  /\ t \in signaled
  /\ signaled' = signaled \ {t}
  /\ Goto(t, "lock_wait", "writing")
  /\ UNCHANGED <<counters, readWaitQueue, writeWaitQueue, shared>>
-----------------------------------------------------------------------------
(* lock_shared() *)

SharedChecksWriter(t) ==
  /\ shared[t] < MaxDepth
  /\ \/ writerPresence = 0 /\ Goto(t, "out", "shared_enter")
     \/ writerPresence > 0 /\ Goto(t, "out", "shared_enqueue")
  /\ UNCHANGED <<counters, queues, shared>>

SharedEnqueues(t) ==
  /\ readWaitQueue' = Append(readWaitQueue, t)
  /\ Goto(t, "shared_enqueue", "shared_wait")
  /\ UNCHANGED <<counters, writeWaitQueue, signaled, shared>>

SharedWakes(t) ==
  /\ t \in signaled
  /\ signaled' = signaled \ {t}
  /\ Goto(t, "shared_wait", "shared_enter")
  /\ UNCHANGED <<counters, readWaitQueue, writeWaitQueue, shared>>

(* Both ways into lock_shared end here, without another look at the         *)
(* writers.                                                                 *)
SharedEnters(t) ==
  /\ readerPresence' = readerPresence + 1
  /\ shared' = [shared EXCEPT ![t] = @ + 1]
  /\ Goto(t, "shared_enter", "out")
  /\ UNCHANGED <<writerPresence, queues>>
-----------------------------------------------------------------------------
(* unlock_shared() *)

(* Mutant: unlock_shared gives back a nested share together with this one. *)
UnsharesTwice(t) ==
  /\ shared[t] > 0
  /\ readerPresence' = readerPresence - 2
  /\ shared' = [shared EXCEPT ![t] = @ - 1]
  /\ Goto(t, "out", "unshare_notify")
  /\ UNCHANGED <<writerPresence, queues>>

(* With no share counted the function returns at once; the caller gives up  *)
(* the share it believed to hold either way.                                *)
Unshares(t) ==
  /\ shared[t] > 0
  /\ readerPresence' = IF readerPresence = 0 THEN 0 ELSE readerPresence - 1
  /\ shared' = [shared EXCEPT ![t] = @ - 1]
  /\ Goto(t, "out", IF readerPresence = 1 THEN "unshare_notify" ELSE "out")
  /\ UNCHANGED <<writerPresence, queues>>

(* Mutant: the writer is signaled and stays in the queue. *)
WakeAndKeepFirstWriter ==
  /\ writeWaitQueue # << >>
  /\ signaled' = signaled \cup {Head(writeWaitQueue)}
  /\ UNCHANGED <<counters, readWaitQueue, writeWaitQueue, shared>>

(* Signal the first waiting writer and take it off the queue. *)
WakeFirstWriter ==
  /\ writeWaitQueue # << >>
  /\ signaled' = signaled \cup {Head(writeWaitQueue)}
  /\ writeWaitQueue' = Tail(writeWaitQueue)
  /\ UNCHANGED <<counters, readWaitQueue, shared>>

(* The last reader wakes the first writer that is in the queue by now. *)
UnshareNotifies(t) ==
  /\ Goto(t, "unshare_notify", "out")
  /\ \/ WakeFirstWriter
     \/ writeWaitQueue = << >> /\ UNCHANGED <<counters, queues, shared>>
-----------------------------------------------------------------------------
(* unlock() *)

(* With no writer counted the function returns at once. *)
Unlocks(t) ==
  /\ writerPresence' = IF writerPresence = 0 THEN 0 ELSE writerPresence - 1
  /\ Goto(t, "writing", IF writerPresence = 0 THEN "out" ELSE "unlock_notify")
  /\ UNCHANGED <<readerPresence, queues, shared>>

UnlockNotifiesWriter(t) ==
  /\ Goto(t, "unlock_notify", "out")
  /\ WakeFirstWriter

UnlockFindsNoWriter(t) ==
  /\ writeWaitQueue = << >>
  /\ Goto(t, "unlock_notify", "unlock_readers")
  /\ UNCHANGED <<counters, queues, shared>>

(* Signal every waiting reader, in one critical section. *)
UnlockNotifiesReaders(t) ==
  /\ Goto(t, "unlock_readers", "out")
  /\ signaled' = signaled \cup {readWaitQueue[i] : i \in DOMAIN readWaitQueue}
  /\ readWaitQueue' = << >>
  /\ UNCHANGED <<counters, writeWaitQueue, shared>>
-----------------------------------------------------------------------------
Lock(t) ==
  \/ LockSeesNoWriter(t) \/ LockSeesWriter(t) \/ LockChecksReaders(t)
  \/ LockEnters(t) \/ LockAnnounces(t) \/ LockEnqueues(t) \/ LockWakes(t)

Unlock(t) ==
  \/ Unlocks(t)
  \/ UnlockNotifiesWriter(t) \/ UnlockFindsNoWriter(t)
  \/ UnlockNotifiesReaders(t)

LockShared(t) ==
  \/ SharedChecksWriter(t) \/ SharedEnqueues(t)
  \/ SharedWakes(t) \/ SharedEnters(t)

UnlockShared(t) == Unshares(t) \/ UnshareNotifies(t)

Next ==
  \/ \E t \in Writers : Lock(t) \/ Unlock(t)
  \/ \E t \in Readers : LockShared(t) \/ UnlockShared(t)

Spec == Init /\ [][Next]_vars
-----------------------------------------------------------------------------
(* Every variable has its type. *)
TypeOK ==
  /\ readerPresence \in Nat
  /\ writerPresence \in Nat
  /\ readWaitQueue \in Seq(Threads)
  /\ writeWaitQueue \in Seq(Threads)
  /\ signaled \in SUBSET Threads
  /\ shared \in [Threads -> 0..MaxDepth]
  /\ pc \in [Threads -> Places]

(* The shares held, one pair for each nested acquisition. *)
Holds == {h \in Threads \X (1..MaxDepth) : h[2] <= shared[h[1]]}

(* The writers that counted themselves and did not take it back yet. *)
Announced == {t \in Threads : pc[t] \in WriterAnnounced}

(* Each counter, changed in a critical section of its own long before or    *)
(* after the test that justified the change, is at every moment the number  *)
(* of threads that own a share or have announced themselves as writers.  So *)
(* the "nothing to unlock" returns of unlock and unlock_shared, which would *)
(* skip the wakeup, are never taken, and a writerPresence of 0 lets readers *)
(* in exactly when no writer holds or waits for the lock.                   *)
CountersMatch ==
  /\ readerPresence = Cardinality(Holds)
  /\ writerPresence = Cardinality(Announced)

Queued(q) == {q[i] : i \in DOMAIN q}
NoDuplicates(q) == \A i, j \in DOMAIN q : q[i] = q[j] => i = j

(* The threads in sigwait are those in the queue of their kind and those    *)
(* with a SIGUSR1 pending, never both and never twice.  So no wakeup is     *)
(* sent to a thread that already left: a stray SIGUSR1 would end a later    *)
(* wait of that thread, on this lock, on another one or in waitCommand,     *)
(* which all wait for the same signal.                                      *)
SignalsReachWaiters ==
  /\ NoDuplicates(writeWaitQueue) /\ NoDuplicates(readWaitQueue)
  /\ signaled \subseteq {t \in Threads : pc[t] \in {"lock_wait", "shared_wait"}}
  /\ Queued(writeWaitQueue) = {t \in Threads : pc[t] = "lock_wait"} \ signaled
  /\ Queued(readWaitQueue) = {t \in Threads : pc[t] = "shared_wait"} \ signaled
-----------------------------------------------------------------------------
(* What the comments of lock() promise: "there is no writer, we are the     *)
(* only one" (shared_mutex.h:116) and "there is no reader, we can lock"     *)
(* (shared_mutex.h:121).  A thread that returned from lock is alone.        *)
WriterAlone ==
  \A w \in Threads : pc[w] = "writing" =>
     \A t \in Threads \ {w} : pc[t] # "writing" /\ shared[t] = 0

(* Each thread that is inside an operation goes on, and who holds the lock  *)
(* gives it back; nobody has to ask for it.                                 *)
Fairness ==
  /\ \A t \in Writers : /\ WF_vars(pc[t] # "out" /\ Lock(t))
                        /\ WF_vars(Unlock(t))
  /\ \A t \in Readers : /\ WF_vars(pc[t] # "out" /\ LockShared(t))
                        /\ WF_vars(UnlockShared(t))

FairSpec == Spec /\ Fairness

(* "wait for the last reader to notify" (shared_mutex.h:134) and "wait for  *)
(* signal from preceeded thread" (shared_mutex.h:154): the notification a   *)
(* queued writer waits for comes.                                           *)
WaitingWriterWakes ==
  \A t \in Writers : pc[t] = "lock_wait" ~> pc[t] = "writing"

(* "wait here for the last writer to notify" (shared_mutex.h:180): the      *)
(* notification a queued reader waits for comes.                            *)
WaitingReaderWakes ==
  \A t \in Readers : pc[t] = "shared_wait" ~> pc[t] = "shared_enter"
==============================================================================
