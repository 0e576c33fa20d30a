-------------------------- MODULE SharedMutexProofs --------------------------
(***************************************************************************)
(* What shared_mutex.h guarantees for any number of readers and writers    *)
(* and any nesting: its counters count and its signals reach waiting       *)
(* threads.  (It does not guarantee exclusion: MCSharedMutexAlone.cfg.)    *)
(***************************************************************************)
EXTENDS SharedMutex, SequenceTheorems, FiniteSetTheorems, TLAPS

Waiting == {t \in Threads : pc[t] \in {"lock_wait", "shared_wait"}}

(* Enqueueing adds one thread and keeps the queue free of duplicates. *)
LEMMA AppendQueued ==
  ASSUME NEW S, NEW q \in Seq(S), NEW x \in S
  PROVE  /\ Append(q, x) \in Seq(S)
         /\ Queued(Append(q, x)) = Queued(q) \cup {x}
         /\ NoDuplicates(q) /\ x \notin Queued(q) => NoDuplicates(Append(q, x))
  <1>1. /\ Append(q, x) \in Seq(S)
        /\ Len(Append(q, x)) = Len(q) + 1
        /\ \A i \in 1..Len(q) : Append(q, x)[i] = q[i]
        /\ Append(q, x)[Len(q) + 1] = x
    BY AppendProperties
  <1>2. /\ DOMAIN q = 1..Len(q)
        /\ DOMAIN Append(q, x) = 1..(Len(q) + 1)
        /\ Len(q) \in Nat
    BY <1>1
  <1> HIDE DEF Queued
  <1> DEFINE a == Append(q, x)
  <1> HIDE DEF a
  <1>3. /\ DOMAIN a = 1..(Len(q) + 1)
        /\ \A i \in 1..Len(q) : a[i] = q[i]
        /\ a[Len(q) + 1] = x
    BY <1>1, <1>2 DEF a
  <1>4. Queued(a) = Queued(q) \cup {x}
    BY <1>2, <1>3, SMTT(30) DEF Queued
  <1>5. NoDuplicates(q) /\ x \notin Queued(q) => NoDuplicates(a)
    BY <1>2, <1>3, SMTT(30) DEF Queued, NoDuplicates
  <1>6. QED BY <1>1, <1>4, <1>5 DEF a

(* Dequeueing removes exactly the first thread. *)
LEMMA TailQueued ==
  ASSUME NEW S, NEW q \in Seq(S), q # << >>, NoDuplicates(q)
  PROVE  /\ Head(q) \in S /\ Head(q) \in Queued(q)
         /\ Tail(q) \in Seq(S)
         /\ Queued(Tail(q)) = Queued(q) \ {Head(q)}
         /\ NoDuplicates(Tail(q))
  <1>1. /\ Head(q) \in S /\ Tail(q) \in Seq(S)
        /\ Len(Tail(q)) = Len(q) - 1
        /\ \A i \in 1..Len(Tail(q)) : Tail(q)[i] = q[i + 1]
    BY HeadTailProperties
  <1>2. /\ Len(q) \in Nat \ {0} /\ DOMAIN q = 1..Len(q)
        /\ DOMAIN Tail(q) = 1..(Len(q) - 1)
        /\ Head(q) = q[1]
    BY <1>1
  <1> DEFINE b == Tail(q) h == Head(q)
  <1> HIDE DEF b, h
  <1>3. /\ DOMAIN b = 1..(Len(q) - 1)
        /\ \A i \in 1..(Len(q) - 1) : b[i] = q[i + 1]
        /\ h = q[1]
    BY <1>1, <1>2 DEF b, h
  <1>4. h \in Queued(q)
    BY <1>2, <1>3 DEF Queued
  <1>5. ASSUME NEW y PROVE y \in Queued(b) <=> y \in Queued(q) \ {h}
    <2>1. ASSUME y \in Queued(b) PROVE y \in Queued(q) \ {h}
      <3>1. PICK i \in 1..(Len(q) - 1) : y = b[i]
        BY <1>3, <2>1 DEF Queued
      <3>2. i + 1 \in DOMAIN q /\ 1 \in DOMAIN q /\ y = q[i + 1] /\ i + 1 # 1
        BY <1>2, <1>3, <3>1
      <3>3. QED BY <1>3, <3>2 DEF Queued, NoDuplicates
    <2>2. ASSUME y \in Queued(q) \ {h} PROVE y \in Queued(b)
      <3>1. PICK i \in DOMAIN q : y = q[i]
        BY <2>2 DEF Queued
      <3>2. i - 1 \in 1..(Len(q) - 1) /\ b[i - 1] = y
        BY <1>2, <1>3, <2>2, <3>1
      <3>3. QED BY <1>3, <3>2 DEF Queued
    <2>3. QED BY <2>1, <2>2
  <1>6. NoDuplicates(b)
    BY <1>2, <1>3, SMTT(30) DEF NoDuplicates
  <1>7. QED BY <1>1, <1>4, <1>5, <1>6 DEF b, h
-----------------------------------------------------------------------------
(* A thread on its way into lock_shared has room for one more share, and a *)
(* thread in lock or unlock holds none.                                    *)
NestingOK ==
  \A t \in Threads :
    /\ pc[t] \in {"shared_enqueue", "shared_wait", "shared_enter"}
          => shared[t] < MaxDepth
    /\ pc[t] \in WriterAnnounced \cup {"lock_readers", "lock_enter", "lock_announce"}
          => shared[t] = 0

TypeInv == TypeOK /\ NestingOK

(* Initially every thread is outside the lock.                             *)
LEMMA TypeInvInit == Init => TypeInv
  BY DepthAssumption DEF Init, TypeInv, TypeOK, NestingOK, Places, WriterAnnounced

(* A step keeps the types and the depth of nested shares.                  *)
LEMMA TypeInvNext == TypeInv /\ [Next]_vars => TypeInv'
  <1> SUFFICES ASSUME TypeInv, [Next]_vars PROVE TypeInv'
    OBVIOUS
  <1> USE DEF TypeInv, TypeOK, NestingOK, Places, WriterAnnounced, Goto, counters, queues
  <1>1. ASSUME NEW t \in Writers, Lock(t) PROVE TypeInv'
    <2>1. t \in Threads
      BY DEF Threads
    <2>2. CASE LockSeesNoWriter(t) BY <2>1, <2>2 DEF LockSeesNoWriter
    <2>3. CASE LockSeesWriter(t) BY <2>1, <2>3 DEF LockSeesWriter
    <2>4. CASE LockChecksReaders(t) BY <2>1, <2>4 DEF LockChecksReaders
    <2>5. CASE LockEnters(t) BY <2>1, <2>5 DEF LockEnters
    <2>6. CASE LockAnnounces(t) BY <2>1, <2>6 DEF LockAnnounces
    <2>7. CASE LockEnqueues(t) BY <2>1, <2>7 DEF LockEnqueues
    <2>8. CASE LockWakes(t) BY <2>1, <2>8 DEF LockWakes
    <2>9. QED BY <1>1, <2>2, <2>3, <2>4, <2>5, <2>6, <2>7, <2>8 DEF Lock
  <1>2. ASSUME NEW t \in Writers, Unlock(t) PROVE TypeInv'
    <2>1. t \in Threads
      BY DEF Threads
    <2>2. CASE Unlocks(t) BY <2>1, <2>2 DEF Unlocks
    <2>3. CASE UnlockNotifiesWriter(t)
      BY <2>1, <2>3, HeadTailProperties DEF UnlockNotifiesWriter, WakeFirstWriter
    <2>4. CASE UnlockFindsNoWriter(t) BY <2>1, <2>4 DEF UnlockFindsNoWriter
    <2>5. CASE UnlockNotifiesReaders(t)
      <3>1. {readWaitQueue[i] : i \in DOMAIN readWaitQueue} \subseteq Threads
        OBVIOUS
      <3>2. << >> \in Seq(Threads)
        OBVIOUS
      <3>3. QED BY <2>1, <2>5, <3>1, <3>2 DEF UnlockNotifiesReaders
    <2>6. QED BY <1>2, <2>2, <2>3, <2>4, <2>5 DEF Unlock
  <1>3. ASSUME NEW t \in Readers, LockShared(t) PROVE TypeInv'
    <2>1. t \in Threads
      BY DEF Threads
    <2>2. CASE SharedChecksWriter(t) BY <2>1, <2>2 DEF SharedChecksWriter
    <2>3. CASE SharedEnqueues(t) BY <2>1, <2>3 DEF SharedEnqueues
    <2>4. CASE SharedWakes(t) BY <2>1, <2>4 DEF SharedWakes
    <2>5. CASE SharedEnters(t) BY <2>1, <2>5, DepthAssumption DEF SharedEnters
    <2>6. QED BY <1>3, <2>2, <2>3, <2>4, <2>5 DEF LockShared
  <1>4. ASSUME NEW t \in Readers, UnlockShared(t) PROVE TypeInv'
    <2>1. t \in Threads
      BY DEF Threads
    <2>2. CASE Unshares(t) BY <2>1, <2>2, DepthAssumption DEF Unshares
    <2>3. CASE UnshareNotifies(t)
      BY <2>1, <2>3, HeadTailProperties DEF UnshareNotifies, WakeFirstWriter
    <2>4. QED BY <1>4, <2>2, <2>3 DEF UnlockShared
  <1>5. CASE UNCHANGED vars
    BY <1>5 DEF vars
  <1>6. QED BY <1>1, <1>2, <1>3, <1>4, <1>5 DEF Next

(* The type invariant holds in every reachable state of the lock, however  *)
(* many threads use it and however deep they nest.                         *)
THEOREM TypeCorrect == Spec => []TypeOK
  <1>1. TypeInv => TypeOK
    BY DEF TypeInv
  <1>2. QED BY <1>1, TypeInvInit, TypeInvNext, PTL DEF Spec
-----------------------------------------------------------------------------
(* The queues and the pending signals describe the waiting threads after   *)
(* each step: per action, the set of threads at each of the two waits      *)
(* changes the way the queue and the signals do.                           *)
LEMMA SignalsInit == Init => SignalsReachWaiters
  BY DEF Init, SignalsReachWaiters, NoDuplicates, Queued

(* Signaling the first queued writer moves it from the queue to signaled.  *)
LEMMA WakeFirstWriterOK ==
  ASSUME TypeInv, SignalsReachWaiters, WakeFirstWriter,
         NEW t \in Threads, NEW from, NEW to, Goto(t, from, to),
         from \notin {"lock_wait", "shared_wait"},
         to \notin {"lock_wait", "shared_wait"}
  PROVE  SignalsReachWaiters'
  <1>1. /\ Head(writeWaitQueue) \in Threads
        /\ Head(writeWaitQueue) \in Queued(writeWaitQueue)
        /\ Queued(writeWaitQueue') = Queued(writeWaitQueue) \ {Head(writeWaitQueue)}
        /\ NoDuplicates(writeWaitQueue')
    BY TailQueued DEF TypeInv, TypeOK, WakeFirstWriter, SignalsReachWaiters
  <1>2. signaled' = signaled \cup {Head(writeWaitQueue)}
    BY DEF WakeFirstWriter
  <1>3. \A u \in Threads : /\ pc'[u] = "lock_wait" <=> pc[u] = "lock_wait"
                           /\ pc'[u] = "shared_wait" <=> pc[u] = "shared_wait"
    BY DEF TypeInv, TypeOK, Goto
  <1>4. readWaitQueue' = readWaitQueue
    BY DEF WakeFirstWriter
  <1>5. QED BY <1>1, <1>2, <1>3, <1>4 DEF SignalsReachWaiters

(* A step keeps every signal with a thread that waits for it.              *)
LEMMA SignalsNext == TypeInv /\ SignalsReachWaiters /\ [Next]_vars => SignalsReachWaiters'
  <1> SUFFICES ASSUME TypeInv, SignalsReachWaiters, [Next]_vars
               PROVE  SignalsReachWaiters'
    OBVIOUS
  <1>q. ASSUME UNCHANGED queues, NEW t \in Threads, NEW from, NEW to,
               Goto(t, from, to),
               from \notin {"lock_wait", "shared_wait"},
               to \notin {"lock_wait", "shared_wait"}
        PROVE  SignalsReachWaiters'
    <2>1. \A u \in Threads : /\ pc'[u] = "lock_wait" <=> pc[u] = "lock_wait"
                             /\ pc'[u] = "shared_wait" <=> pc[u] = "shared_wait"
      BY <1>q DEF TypeInv, TypeOK, Goto
    <2>2. /\ readWaitQueue' = readWaitQueue /\ writeWaitQueue' = writeWaitQueue
          /\ signaled' = signaled
      BY <1>q DEF queues
    <2>3. QED BY <2>1, <2>2 DEF SignalsReachWaiters
  <1>1. ASSUME NEW t \in Writers, Lock(t) PROVE SignalsReachWaiters'
    <2>1. t \in Threads
      BY DEF Threads
    <2>2. CASE LockSeesNoWriter(t) BY <1>q, <2>1, <2>2 DEF LockSeesNoWriter
    <2>3. CASE LockSeesWriter(t) BY <1>q, <2>1, <2>3 DEF LockSeesWriter
    <2>4. CASE LockChecksReaders(t) BY <1>q, <2>1, <2>4 DEF LockChecksReaders
    <2>5. CASE LockEnters(t) BY <1>q, <2>1, <2>5 DEF LockEnters
    <2>6. CASE LockAnnounces(t) BY <1>q, <2>1, <2>6 DEF LockAnnounces
    <2>7. CASE LockEnqueues(t)
      <3>1. t \notin Queued(writeWaitQueue) /\ t \notin signaled
        BY <2>1, <2>7 DEF SignalsReachWaiters, LockEnqueues, Goto
      <3>2. /\ Queued(writeWaitQueue') = Queued(writeWaitQueue) \cup {t}
            /\ NoDuplicates(writeWaitQueue')
        BY <2>1, <2>7, <3>1, AppendQueued
        DEF TypeInv, TypeOK, SignalsReachWaiters, LockEnqueues
      <3>3. \A u \in Threads :
               /\ pc'[u] = "lock_wait" <=> pc[u] = "lock_wait" \/ u = t
               /\ pc'[u] = "shared_wait" <=> pc[u] = "shared_wait"
        BY <2>1, <2>7 DEF TypeInv, TypeOK, LockEnqueues, Goto
      <3>4. readWaitQueue' = readWaitQueue /\ signaled' = signaled
        BY <2>7 DEF LockEnqueues
      <3>5. QED BY <2>1, <3>1, <3>2, <3>3, <3>4 DEF SignalsReachWaiters
    <2>8. CASE LockWakes(t)
      <3>1. \A u \in Threads :
               /\ pc'[u] = "lock_wait" <=> pc[u] = "lock_wait" /\ u # t
               /\ pc'[u] = "shared_wait" <=> pc[u] = "shared_wait"
        BY <2>1, <2>8 DEF TypeInv, TypeOK, LockWakes, Goto
      <3>2. /\ readWaitQueue' = readWaitQueue /\ writeWaitQueue' = writeWaitQueue
            /\ signaled' = signaled \ {t} /\ t \in signaled /\ pc[t] = "lock_wait"
        BY <2>8 DEF LockWakes, Goto
      <3>3. QED BY <2>1, <3>1, <3>2 DEF SignalsReachWaiters
    <2>9. QED BY <1>1, <2>2, <2>3, <2>4, <2>5, <2>6, <2>7, <2>8 DEF Lock
  <1>2. ASSUME NEW t \in Writers, Unlock(t) PROVE SignalsReachWaiters'
    <2>1. t \in Threads
      BY DEF Threads
    <2>2. CASE Unlocks(t) BY <1>q, <2>1, <2>2 DEF Unlocks
    <2>3. CASE UnlockNotifiesWriter(t)
      BY <2>1, <2>3, WakeFirstWriterOK DEF UnlockNotifiesWriter
    <2>4. CASE UnlockFindsNoWriter(t) BY <1>q, <2>1, <2>4 DEF UnlockFindsNoWriter
    <2>5. CASE UnlockNotifiesReaders(t)
      <3>1. /\ signaled' = signaled \cup Queued(readWaitQueue)
            /\ writeWaitQueue' = writeWaitQueue
            /\ Queued(readWaitQueue') = {} /\ NoDuplicates(readWaitQueue')
        BY <2>5 DEF UnlockNotifiesReaders, Queued, NoDuplicates
      <3>2. \A u \in Threads : /\ pc'[u] = "lock_wait" <=> pc[u] = "lock_wait"
                               /\ pc'[u] = "shared_wait" <=> pc[u] = "shared_wait"
        BY <2>1, <2>5 DEF TypeInv, TypeOK, UnlockNotifiesReaders, Goto
      <3>3. QED BY <3>1, <3>2 DEF SignalsReachWaiters
    <2>6. QED BY <1>2, <2>2, <2>3, <2>4, <2>5 DEF Unlock
  <1>3. ASSUME NEW t \in Readers, LockShared(t) PROVE SignalsReachWaiters'
    <2>1. t \in Threads
      BY DEF Threads
    <2>2. CASE SharedChecksWriter(t) BY <1>q, <2>1, <2>2 DEF SharedChecksWriter
    <2>3. CASE SharedEnqueues(t)
      <3>1. t \notin Queued(readWaitQueue) /\ t \notin signaled
        BY <2>1, <2>3 DEF SignalsReachWaiters, SharedEnqueues, Goto
      <3>2. /\ Queued(readWaitQueue') = Queued(readWaitQueue) \cup {t}
            /\ NoDuplicates(readWaitQueue')
        BY <2>1, <2>3, <3>1, AppendQueued
        DEF TypeInv, TypeOK, SignalsReachWaiters, SharedEnqueues
      <3>3. \A u \in Threads :
               /\ pc'[u] = "lock_wait" <=> pc[u] = "lock_wait"
               /\ pc'[u] = "shared_wait" <=> pc[u] = "shared_wait" \/ u = t
        BY <2>1, <2>3 DEF TypeInv, TypeOK, SharedEnqueues, Goto
      <3>4. writeWaitQueue' = writeWaitQueue /\ signaled' = signaled
        BY <2>3 DEF SharedEnqueues
      <3>5. QED BY <2>1, <3>1, <3>2, <3>3, <3>4 DEF SignalsReachWaiters
    <2>4. CASE SharedWakes(t)
      <3>1. \A u \in Threads :
               /\ pc'[u] = "lock_wait" <=> pc[u] = "lock_wait"
               /\ pc'[u] = "shared_wait" <=> pc[u] = "shared_wait" /\ u # t
        BY <2>1, <2>4 DEF TypeInv, TypeOK, SharedWakes, Goto
      <3>2. /\ readWaitQueue' = readWaitQueue /\ writeWaitQueue' = writeWaitQueue
            /\ signaled' = signaled \ {t} /\ t \in signaled /\ pc[t] = "shared_wait"
        BY <2>4 DEF SharedWakes, Goto
      <3>3. QED BY <2>1, <3>1, <3>2 DEF SignalsReachWaiters
    <2>5. CASE SharedEnters(t) BY <1>q, <2>1, <2>5 DEF SharedEnters
    <2>6. QED BY <1>3, <2>2, <2>3, <2>4, <2>5 DEF LockShared
  <1>4. ASSUME NEW t \in Readers, UnlockShared(t) PROVE SignalsReachWaiters'
    <2>1. t \in Threads
      BY DEF Threads
    <2>2. CASE Unshares(t) BY <1>q, <2>1, <2>2 DEF Unshares
    <2>3. CASE UnshareNotifies(t)
      <3>1. CASE WakeFirstWriter
        BY <2>1, <2>3, <3>1, WakeFirstWriterOK DEF UnshareNotifies
      <3>2. CASE UNCHANGED queues
        BY <1>q, <2>1, <2>3, <3>2 DEF UnshareNotifies
      <3>3. QED BY <2>3, <3>1, <3>2 DEF UnshareNotifies
    <2>4. QED BY <1>4, <2>2, <2>3 DEF UnlockShared
  <1>5. CASE UNCHANGED vars
    BY <1>5 DEF vars, SignalsReachWaiters, NoDuplicates, Queued
  <1>6. QED BY <1>1, <1>2, <1>3, <1>4, <1>5 DEF Next

(* No SIGUSR1 is ever sent to a thread that is not waiting on this lock    *)
(* for it, and no waiting thread is forgotten by its queue before it is    *)
(* signaled.                                                               *)
THEOREM SignalsCorrect == Spec => []SignalsReachWaiters
  BY TypeInvInit, TypeInvNext, SignalsInit, SignalsNext, PTL DEF Spec
-----------------------------------------------------------------------------
(* Both sets the counters count are finite. *)
LEMMA CountedFinite == IsFiniteSet(Holds) /\ IsFiniteSet(Announced)
  <1>1. IsFiniteSet(Threads)
    BY ThreadsAssumption, FS_Union DEF Threads
  <1>2. IsFiniteSet(1..MaxDepth)
    BY DepthAssumption, FS_Interval
  <1>3. IsFiniteSet(Threads \X (1..MaxDepth))
    BY <1>1, <1>2, FS_Product
  <1>4. Holds \in SUBSET (Threads \X (1..MaxDepth)) /\ Announced \in SUBSET Threads
    BY DEF Holds, Announced
  <1>5. QED BY <1>1, <1>3, <1>4, FS_Subset

(* Initially nobody holds the lock and both counters are 0.                *)
LEMMA CountersInit == Init => CountersMatch
  <1> SUFFICES ASSUME Init PROVE CountersMatch
    OBVIOUS
  <1>1. Announced = {}
    BY DEF Init, Announced, WriterAnnounced
  <1>2. Holds = {}
    BY DepthAssumption DEF Init, Holds
  <1>3. QED BY <1>1, <1>2, FS_EmptySet DEF Init, CountersMatch

(* A step of one thread moves at most that thread in or out of Announced.  *)
LEMMA AnnouncedStep ==
  ASSUME TypeInv, NEW t \in Threads, NEW from, NEW to, Goto(t, from, to)
  PROVE  Announced' = IF to \in WriterAnnounced
                      THEN Announced \cup {t} ELSE Announced \ {t}
  BY DEF TypeInv, TypeOK, Goto, Announced

(* Who holds how many shares depends on shared alone.                      *)
LEMMA HoldsSame == ASSUME UNCHANGED shared PROVE Holds' = Holds
  BY DEF Holds

(* The step of a writer that leaves both counters and its class alone. *)
LEMMA CountersSame ==
  ASSUME TypeInv, CountersMatch, NEW t \in Threads, NEW from, NEW to,
         Goto(t, from, to), UNCHANGED counters, UNCHANGED shared,
         from \in WriterAnnounced <=> to \in WriterAnnounced
  PROVE  CountersMatch'
  <1>1. Announced' = Announced
    BY AnnouncedStep DEF Goto, Announced
  <1>2. Holds' = Holds
    BY HoldsSame
  <1>3. QED BY <1>1, <1>2 DEF CountersMatch, counters

(* The step that counts one more writer is the step that announces it. *)
LEMMA CountersAnnounce ==
  ASSUME TypeInv, CountersMatch, NEW t \in Threads, NEW from, NEW to,
         Goto(t, from, to), UNCHANGED <<readerPresence, shared>>,
         writerPresence' = writerPresence + 1,
         from \notin WriterAnnounced, to \in WriterAnnounced
  PROVE  CountersMatch'
  <1>1. Announced' = Announced \cup {t} /\ t \notin Announced
    BY AnnouncedStep DEF Goto, Announced
  <1>2. Cardinality(Announced') = Cardinality(Announced) + 1
    BY <1>1, CountedFinite, FS_AddElement
  <1>3. Holds' = Holds
    BY HoldsSame
  <1>4. QED BY <1>2, <1>3 DEF CountersMatch

(* A step changes a counter by what it changes in the holders.             *)
LEMMA CountersNext == TypeInv /\ CountersMatch /\ [Next]_vars => CountersMatch'
  <1> SUFFICES ASSUME TypeInv, CountersMatch, [Next]_vars PROVE CountersMatch'
    OBVIOUS
  <1>1. ASSUME NEW t \in Writers, Lock(t) PROVE CountersMatch'
    <2> USE DEF counters, WriterAnnounced
    <2>1. t \in Threads
      BY DEF Threads
    <2>2. CASE LockSeesNoWriter(t) BY <2>1, <2>2, CountersSame DEF LockSeesNoWriter
    <2>3. CASE LockSeesWriter(t) BY <2>1, <2>3, CountersAnnounce DEF LockSeesWriter
    <2>4. CASE LockChecksReaders(t) BY <2>1, <2>4, CountersSame DEF LockChecksReaders
    <2>5. CASE LockEnters(t) BY <2>1, <2>5, CountersAnnounce DEF LockEnters
    <2>6. CASE LockAnnounces(t) BY <2>1, <2>6, CountersAnnounce DEF LockAnnounces
    <2>7. CASE LockEnqueues(t) BY <2>1, <2>7, CountersSame DEF LockEnqueues
    <2>8. CASE LockWakes(t) BY <2>1, <2>8, CountersSame DEF LockWakes
    <2>9. QED BY <1>1, <2>2, <2>3, <2>4, <2>5, <2>6, <2>7, <2>8 DEF Lock
  <1>2. ASSUME NEW t \in Writers, Unlock(t) PROVE CountersMatch'
    <2>1. t \in Threads
      BY DEF Threads
    <2>2. CASE Unlocks(t)
      <3>1. t \in Announced /\ Holds' = Holds
        BY <2>1, <2>2, HoldsSame DEF Unlocks, Goto, Announced, WriterAnnounced
      <3>2. writerPresence \in Nat \ {0}
        BY <3>1, CountedFinite, FS_EmptySet, FS_CardinalityType DEF CountersMatch
      <3>3. Announced' = Announced \ {t}
        BY <2>1, <2>2, <3>2, AnnouncedStep DEF Unlocks, WriterAnnounced
      <3>4. Cardinality(Announced') = Cardinality(Announced) - 1
        BY <3>1, <3>3, CountedFinite, FS_RemoveElement
      <3>5. QED BY <2>2, <3>1, <3>2, <3>4 DEF Unlocks, CountersMatch
    <2>3. CASE UnlockNotifiesWriter(t)
      BY <2>1, <2>3, CountersSame DEF UnlockNotifiesWriter, WakeFirstWriter, WriterAnnounced
    <2>4. CASE UnlockFindsNoWriter(t)
      BY <2>1, <2>4, CountersSame DEF UnlockFindsNoWriter, WriterAnnounced
    <2>5. CASE UnlockNotifiesReaders(t)
      BY <2>1, <2>5, CountersSame DEF UnlockNotifiesReaders, WriterAnnounced
    <2>6. QED BY <1>2, <2>2, <2>3, <2>4, <2>5 DEF Unlock
  <1>3. ASSUME NEW t \in Readers, LockShared(t) PROVE CountersMatch'
    <2>1. t \in Threads
      BY DEF Threads
    <2>2. CASE SharedChecksWriter(t)
      BY <2>1, <2>2, CountersSame DEF SharedChecksWriter, WriterAnnounced
    <2>3. CASE SharedEnqueues(t)
      BY <2>1, <2>3, CountersSame DEF SharedEnqueues, WriterAnnounced
    <2>4. CASE SharedWakes(t)
      BY <2>1, <2>4, CountersSame DEF SharedWakes, WriterAnnounced
    <2>5. CASE SharedEnters(t)
      <3>1. Announced' = Announced
        BY <2>1, <2>5, AnnouncedStep DEF SharedEnters, Goto, Announced, WriterAnnounced
      <3> DEFINE h == <<t, shared[t] + 1>>
      <3>2. shared[t] \in 0..MaxDepth /\ shared[t] < MaxDepth
        BY <2>1, <2>5 DEF TypeInv, TypeOK, NestingOK, SharedEnters, Goto
      <3>3. Holds' = Holds \cup {h} /\ h \notin Holds
        <4>1. \A u \in Threads : shared'[u] = IF u = t THEN shared[t] + 1 ELSE shared[u]
          BY <2>1, <2>5 DEF TypeInv, TypeOK, SharedEnters
        <4>2. shared \in [Threads -> 0..MaxDepth]
          BY DEF TypeInv, TypeOK
        <4>3. QED BY <2>1, <3>2, <4>1, <4>2, DepthAssumption, SMTT(30) DEF Holds
      <3>4. Cardinality(Holds') = Cardinality(Holds) + 1
        BY <3>3, CountedFinite, FS_AddElement
      <3>5. QED BY <2>5, <3>1, <3>4 DEF SharedEnters, CountersMatch
    <2>6. QED BY <1>3, <2>2, <2>3, <2>4, <2>5 DEF LockShared
  <1>4. ASSUME NEW t \in Readers, UnlockShared(t) PROVE CountersMatch'
    <2>1. t \in Threads
      BY DEF Threads
    <2>2. CASE Unshares(t)
      <3>1. Announced' = Announced
        BY <2>1, <2>2, AnnouncedStep DEF Unshares, Goto, Announced, WriterAnnounced
      <3> DEFINE h == <<t, shared[t]>>
      <3>2. shared[t] \in 1..MaxDepth
        BY <2>1, <2>2 DEF TypeInv, TypeOK, Unshares
      <3>3. Holds' = Holds \ {h} /\ h \in Holds
        <4>1. \A u \in Threads : shared'[u] = IF u = t THEN shared[t] - 1 ELSE shared[u]
          BY <2>1, <2>2 DEF TypeInv, TypeOK, Unshares
        <4>2. shared \in [Threads -> 0..MaxDepth]
          BY DEF TypeInv, TypeOK
        <4>3. QED BY <2>1, <3>2, <4>1, <4>2, DepthAssumption, SMTT(30) DEF Holds
      <3>4. Cardinality(Holds') = Cardinality(Holds) - 1
        BY <3>3, CountedFinite, FS_RemoveElement
      <3>5. readerPresence \in Nat \ {0}
        BY <3>3, CountedFinite, FS_EmptySet, FS_CardinalityType DEF CountersMatch
      <3>6. QED BY <2>2, <3>1, <3>4, <3>5 DEF Unshares, CountersMatch
    <2>3. CASE UnshareNotifies(t)
      BY <2>1, <2>3, CountersSame
      DEF UnshareNotifies, WakeFirstWriter, WriterAnnounced, counters
    <2>4. QED BY <1>4, <2>2, <2>3 DEF UnlockShared
  <1>5. CASE UNCHANGED vars
    BY <1>5 DEF vars, CountersMatch, Holds, Announced
  <1>6. QED BY <1>1, <1>2, <1>3, <1>4, <1>5 DEF Next

(* readerPresence and writerPresence are exact in every reachable state,   *)
(* although each is tested and changed in different critical sections.     *)
THEOREM CountersCorrect == Spec => []CountersMatch
  BY TypeInvInit, TypeInvNext, CountersInit, CountersNext, PTL DEF Spec
==============================================================================
