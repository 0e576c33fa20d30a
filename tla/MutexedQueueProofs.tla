------------------------- MODULE MutexedQueueProofs -------------------------
(***************************************************************************)
(* The queue keeps its types, its count and its order for any number of    *)
(* threads and elements.                                                   *)
(***************************************************************************)
EXTENDS MutexedQueue, SequenceTheorems, TLAPS

(* Who holds which mutex follows from where the threads are. *)
LocksOK ==
  /\ \A p \in Producers : pc[p] # "out" <=> lastOwner = p
  /\ \A c \in Consumers :
       pc[c] \in {"remove", "uncount", "enlist", "wait", "interrupted"} <=> firstOwner = c

(* Nodes are linked in order; the head is the next node to take, or lost.  *)
(* A producer that found the list empty finds it so when it replaces it.   *)
ListOK ==
  /\ last = Len(next)
  /\ Len(taken) <= Len(next)
  /\ first \in {Null, Len(taken) + 1}
  /\ \A n \in DOMAIN next : next[n] \in {Null, n + 1}
  /\ \A p \in Producers : pc[p] = "replace" => Len(taken) = Len(next)

IInv == TypeOK /\ LocksOK /\ ListOK /\ CountBalanced

(* Linking a node behind the last one: the pointer of the last node is set  *)
(* and the new node's is NULL.                                              *)
LEMMA LinkProperties ==
  ASSUME NEW s \in Seq(Nat), NEW l \in Nat, NEW r,
         r = Append([s EXCEPT ![l] = Len(s) + 1], 0)
  PROVE  /\ r \in Seq(Nat)
         /\ Len(r) = Len(s) + 1 /\ DOMAIN r = 1..(Len(s) + 1)
         /\ \A n \in DOMAIN s : r[n] = IF n = l THEN Len(s) + 1 ELSE s[n]
         /\ r[Len(s) + 1] = 0
         /\ Len(s) \in Nat /\ DOMAIN s = 1..Len(s)
  <1> DEFINE m == [s EXCEPT ![l] = Len(s) + 1]
  <1>1. Len(s) \in Nat /\ DOMAIN s = 1..Len(s)
    BY LenProperties
  <1>2. /\ DOMAIN m = 1..Len(s)
        /\ \A n \in DOMAIN s : m[n] = IF n = l THEN Len(s) + 1 ELSE s[n]
    BY <1>1
  <1>3. m \in Seq(Nat) /\ Len(m) = Len(s)
    <2>1. \A n \in 1..Len(s) : s[n] \in Nat
      BY <1>1
    <2>2. m = [n \in 1..Len(s) |-> m[n]]
      BY <1>1
    <2> HIDE DEF m
    <2>3. \A n \in 1..Len(s) : m[n] \in Nat
      BY <1>1, <1>2, <2>1
    <2>4. m \in [1..Len(s) -> Nat]
      BY <2>2, <2>3
    <2> QED BY <1>1, <2>4
  <1>4. r = Append(m, 0)
    OBVIOUS
  <1> HIDE DEF m
  <1>5. /\ r \in Seq(Nat) /\ Len(r) = Len(m) + 1
        /\ \A n \in 1..Len(m) : r[n] = m[n]
        /\ r[Len(m) + 1] = 0
    <2>1. /\ Append(m, 0) \in Seq(Nat) /\ Len(Append(m, 0)) = Len(m) + 1
          /\ \A n \in 1..Len(m) : Append(m, 0)[n] = m[n]
          /\ Append(m, 0)[Len(m) + 1] = 0
      BY <1>3, AppendProperties, 0 \in Nat
    <2> QED BY <1>4, <2>1
  <1>6. DOMAIN r = 1..(Len(s) + 1)
    BY <1>3, <1>5, LenProperties
  <1> QED BY <1>1, <1>2, <1>3, <1>5, <1>6

(* The numbers that Uncounted and Overcounted can be. *)
LEMMA Corrections == Uncounted \in {0, 1} /\ Overcounted \in {0, 1}
  BY DEF Uncounted, Overcounted

(* The initial states satisfy the invariant. *)
LEMMA InitIInv == Init => IInv
<1> SUFFICES ASSUME Init PROVE IInv
  OBVIOUS
<1> USE QueueAssumption DEF Init, Threads, Consumers, Null
<1>1. next \in Seq(Nat) /\ waiting \in Seq(Waiters) /\ taken \in Seq(Nat) /\ Len(next) = 0
      /\ DOMAIN next = {}
  OBVIOUS
<1>2. pc \in [Threads -> Places]
  BY DEF Places
<1>3. TypeOK
  <2>1. /\ \A n \in DOMAIN next : next[n] \in 0..Len(next)
        /\ first \in 0..Len(next) /\ last \in 0..Len(next) /\ count \in Int
    BY <1>1
  <2>2. /\ firstOwner \in Consumers \cup {NoThread}
        /\ lastOwner \in Producers \cup {NoThread}
        /\ signaled \in SUBSET Waiters /\ crashed \in BOOLEAN
    OBVIOUS
  <2>3. peeked \in [Pollers -> Nat]
    OBVIOUS
  <2> QED BY <1>1, <1>2, <2>1, <2>2, <2>3 DEF TypeOK
<1>4. LocksOK
  BY DEF LocksOK
<1>5. ListOK
  BY <1>1 DEF ListOK
<1>6. CountBalanced
  BY <1>1 DEF CountBalanced, Uncounted, Overcounted
<1> QED BY <1>3, <1>4, <1>5, <1>6 DEF IInv

(* Every step keeps the invariant. *)
LEMMA NextIInv == IInv /\ [Next]_vars => IInv'
<1> SUFFICES ASSUME IInv, [Next]_vars PROVE IInv'
  OBVIOUS
<1> USE QueueAssumption DEF IInv, Threads, Consumers, Null, list, locks, signals
<1>1. ASSUME NEW p \in Producers, EnqueueTests(p) PROVE IInv'
  <2> USE <1>1 DEF EnqueueTests, Goto, NotEmpty, NewNode, Crash
  <2>1. TypeOK'
    BY DEF TypeOK, Places
  <2>2. LocksOK'
    BY DEF TypeOK, LocksOK
  <2>3. ListOK'
    <3>1. Uncounted = 0
      BY DEF TypeOK, LocksOK, Uncounted
    <3>2. count <= 0 => Len(taken) = Len(next)
      BY <3>1, Corrections, LenProperties DEF TypeOK, ListOK, CountBalanced
    <3> QED BY <3>2 DEF TypeOK, LocksOK, ListOK
  <2>4. CountBalanced'
    <3>1. Uncounted' = Uncounted
      BY DEF TypeOK, Uncounted
    <3>2. Overcounted' = Overcounted
      BY DEF TypeOK, Overcounted
    <3> QED BY <3>1, <3>2 DEF CountBalanced
  <2> QED BY <2>1, <2>2, <2>3, <2>4
<1>2. ASSUME NEW p \in Producers, EnqueueLinks(p) PROVE IInv'
  <2> USE <1>2 DEF EnqueueLinks, Goto, NotEmpty, NewNode, Crash
  <2>0. /\ next' \in Seq(Nat)
        /\ Len(next') = Len(next) + 1 /\ DOMAIN next' = 1..(Len(next) + 1)
        /\ \A n \in DOMAIN next : next'[n] = IF n = last THEN Len(next) + 1 ELSE next[n]
        /\ next'[Len(next) + 1] = 0
        /\ Len(next) \in Nat /\ DOMAIN next = 1..Len(next)
    <3>1. next \in Seq(Nat) /\ last \in Nat
      BY LenProperties DEF TypeOK
    <3>2. next' = Append([next EXCEPT ![last] = Len(next) + 1], 0)
      OBVIOUS
    <3> QED BY <3>1, <3>2, LinkProperties
  <2>1. TypeOK'
    <3>1. \A n \in DOMAIN next' : next'[n] \in 0..Len(next')
      BY <2>0 DEF TypeOK
    <3> QED BY <2>0, <3>1 DEF TypeOK, Places
  <2>2. LocksOK'
    BY DEF TypeOK, LocksOK
  <2>3. ListOK'
    <3>1. \A n \in DOMAIN next' : next'[n] \in {Null, n + 1}
      BY <2>0 DEF TypeOK, ListOK
    <3>2. last' = Len(next') /\ Len(taken') <= Len(next')
      BY <2>0, LenProperties DEF TypeOK, ListOK
    <3>3. \A q \in Producers : pc'[q] # "replace"
      BY DEF TypeOK, LocksOK
    <3> QED BY <3>1, <3>2, <3>3 DEF ListOK
  <2>4. CountBalanced'
    <3>1. Uncounted = 0 /\ Uncounted' = 1
      BY DEF TypeOK, LocksOK, Uncounted
    <3>2. Overcounted' = Overcounted
      BY DEF TypeOK, Overcounted
    <3>3. Len(next') = Len(next) + 1 /\ Len(next) \in Nat
      BY <2>0 DEF TypeOK
    <3> QED BY <3>1, <3>2, <3>3, Corrections, LenProperties DEF TypeOK, CountBalanced
  <2> QED BY <2>1, <2>2, <2>3, <2>4
<1>3. ASSUME NEW p \in Producers, EnqueueReplaces(p) PROVE IInv'
  <2> USE <1>3 DEF EnqueueReplaces, Goto, NotEmpty, NewNode, Crash
  <2>1. TypeOK'
    BY DEF TypeOK, Places
  <2>2. LocksOK'
    BY DEF TypeOK, LocksOK
  <2>3. ListOK'
    BY Corrections DEF TypeOK, LocksOK, ListOK, CountBalanced
  <2>4. CountBalanced'
    <3>1. Uncounted = 0 /\ Uncounted' = 1
      BY DEF TypeOK, LocksOK, Uncounted
    <3>2. Overcounted' = Overcounted
      BY DEF TypeOK, Overcounted
    <3>3. Len(next') = Len(next) + 1 /\ Len(next) \in Nat
      BY AppendProperties, LenProperties DEF TypeOK
    <3> QED BY <3>1, <3>2, <3>3, Corrections, LenProperties DEF TypeOK, CountBalanced
  <2> QED BY <2>1, <2>2, <2>3, <2>4
<1>4. ASSUME NEW p \in Producers, EnqueueSignals(p) PROVE IInv'
  <2> USE <1>4 DEF EnqueueSignals, Goto, NotEmpty, NewNode, Crash
  <2>1. TypeOK'
    <3>1. CASE waiting # << >>
      <4>1. Head(waiting) \in Waiters /\ Tail(waiting) \in Seq(Waiters)
        BY <3>1, HeadTailProperties DEF TypeOK
      <4>2. waiting' \in Seq(Waiters) /\ signaled' \in SUBSET Waiters
        BY <3>1, <4>1 DEF TypeOK
      <4> QED BY <4>2 DEF TypeOK, Places
    <3>2. CASE waiting = << >>
      BY <3>2 DEF TypeOK, Places
    <3> QED BY <3>1, <3>2
  <2>2. LocksOK'
    BY DEF TypeOK, LocksOK
  <2>3. ListOK'
    BY Corrections DEF TypeOK, LocksOK, ListOK, CountBalanced
  <2>4. CountBalanced'
    BY DEF TypeOK, LocksOK, ListOK, CountBalanced, Uncounted, Overcounted
  <2> QED BY <2>1, <2>2, <2>3, <2>4
<1>5. ASSUME NEW p \in Producers, EnqueueCounts(p) PROVE IInv'
  <2> USE <1>5 DEF EnqueueCounts, Goto, NotEmpty, NewNode, Crash
  <2>1. TypeOK'
    BY DEF TypeOK, Places
  <2>2. LocksOK'
    BY DEF TypeOK, LocksOK
  <2>3. ListOK'
    BY Corrections DEF TypeOK, LocksOK, ListOK, CountBalanced
  <2>4. CountBalanced'
    <3>1. Uncounted = 1 /\ Uncounted' = 0
      BY DEF TypeOK, LocksOK, Uncounted
    <3>2. Overcounted' = Overcounted
      BY DEF TypeOK, Overcounted
    <3> QED BY <3>1, <3>2, Corrections, LenProperties DEF TypeOK, CountBalanced
  <2> QED BY <2>1, <2>2, <2>3, <2>4
<1>6. ASSUME NEW c \in Pollers, PeakTests(c) PROVE IInv'
  <2> USE <1>6 DEF PeakTests, Goto, NotEmpty, NewNode, Crash
  <2>1. TypeOK'
    BY DEF TypeOK, Places
  <2>2. LocksOK'
    BY DEF TypeOK, LocksOK
  <2>3. ListOK'
    BY Corrections DEF TypeOK, LocksOK, ListOK, CountBalanced
  <2>4. CountBalanced'
    BY DEF TypeOK, LocksOK, ListOK, CountBalanced, Uncounted, Overcounted
  <2> QED BY <2>1, <2>2, <2>3, <2>4
<1>7. ASSUME NEW c \in Pollers, Peaks(c) PROVE IInv'
  <2> USE <1>7 DEF Peaks, Goto, NotEmpty, NewNode, Crash
  <2>1. TypeOK'
    BY DEF TypeOK, Places
  <2>2. LocksOK'
    BY DEF TypeOK, LocksOK
  <2>3. ListOK'
    BY Corrections DEF TypeOK, LocksOK, ListOK, CountBalanced
  <2>4. CountBalanced'
    BY DEF TypeOK, LocksOK, ListOK, CountBalanced, Uncounted, Overcounted
  <2> QED BY <2>1, <2>2, <2>3, <2>4
<1>8. ASSUME NEW c \in Pollers, PeakCrashes(c) PROVE IInv'
  <2> USE <1>8 DEF PeakCrashes, Goto, NotEmpty, NewNode, Crash
  <2>1. TypeOK'
    BY DEF TypeOK, Places
  <2>2. LocksOK'
    BY DEF TypeOK, LocksOK
  <2>3. ListOK'
    BY Corrections DEF TypeOK, LocksOK, ListOK, CountBalanced
  <2>4. CountBalanced'
    BY DEF TypeOK, LocksOK, ListOK, CountBalanced, Uncounted, Overcounted
  <2> QED BY <2>1, <2>2, <2>3, <2>4
<1>9. ASSUME NEW c \in Pollers, DequeueTests(c) PROVE IInv'
  <2> USE <1>9 DEF DequeueTests, Goto, NotEmpty, NewNode, Crash
  <2>1. TypeOK'
    BY DEF TypeOK, Places
  <2>2. LocksOK'
    BY DEF TypeOK, LocksOK
  <2>3. ListOK'
    BY Corrections DEF TypeOK, LocksOK, ListOK, CountBalanced
  <2>4. CountBalanced'
    BY DEF TypeOK, LocksOK, ListOK, CountBalanced, Uncounted, Overcounted
  <2> QED BY <2>1, <2>2, <2>3, <2>4
<1>10. ASSUME NEW c \in Consumers, Removes(c) PROVE IInv'
  <2> USE <1>10 DEF Removes, Goto, NotEmpty, NewNode, Crash
  <2>1. TypeOK'
    BY DEF TypeOK, Places
  <2>2. LocksOK'
    BY DEF TypeOK, LocksOK
  <2>0. /\ first = Len(taken) + 1 /\ first \in 1..Len(next)
        /\ Len(taken') = Len(taken) + 1
        /\ Len(taken) \in Nat /\ Len(next) \in Nat /\ DOMAIN next = 1..Len(next)
    BY AppendProperties, LenProperties DEF TypeOK, ListOK
  <2>3. ListOK'
    <3>1. first' \in {Null, first + 1}
      BY <2>0 DEF ListOK
    <3>2. \A p \in Producers : pc[p] # "replace"
      BY <2>0 DEF ListOK
    <3>3. \A p \in Producers : pc'[p] = pc[p]
      BY DEF TypeOK
    <3> QED BY <2>0, <3>1, <3>2, <3>3 DEF ListOK
  <2>4. CountBalanced'
    <3>1. Overcounted = 0 /\ Overcounted' = 1
      BY DEF TypeOK, LocksOK, Overcounted
    <3>2. Uncounted' = Uncounted
      BY DEF TypeOK, Uncounted
    <3> QED BY <2>0, <3>1, <3>2, Corrections DEF TypeOK, CountBalanced
  <2> QED BY <2>1, <2>2, <2>3, <2>4
<1>11. ASSUME NEW c \in Consumers, RemoveCrashes(c) PROVE IInv'
  <2> USE <1>11 DEF RemoveCrashes, Goto, NotEmpty, NewNode, Crash
  <2>1. TypeOK'
    BY DEF TypeOK, Places
  <2>2. LocksOK'
    BY DEF TypeOK, LocksOK
  <2>3. ListOK'
    BY Corrections DEF TypeOK, LocksOK, ListOK, CountBalanced
  <2>4. CountBalanced'
    BY DEF TypeOK, LocksOK, ListOK, CountBalanced, Uncounted, Overcounted
  <2> QED BY <2>1, <2>2, <2>3, <2>4
<1>12. ASSUME NEW c \in Consumers, Uncounts(c) PROVE IInv'
  <2> USE <1>12 DEF Uncounts, Goto, NotEmpty, NewNode, Crash
  <2>1. TypeOK'
    BY DEF TypeOK, Places
  <2>2. LocksOK'
    BY DEF TypeOK, LocksOK
  <2>3. ListOK'
    BY Corrections DEF TypeOK, LocksOK, ListOK, CountBalanced
  <2>4. CountBalanced'
    <3>1. Overcounted = 1 /\ Overcounted' = 0
      BY DEF TypeOK, LocksOK, Overcounted
    <3>2. Uncounted' = Uncounted
      BY DEF TypeOK, Uncounted
    <3> QED BY <3>1, <3>2, Corrections, LenProperties DEF TypeOK, CountBalanced
  <2> QED BY <2>1, <2>2, <2>3, <2>4
<1>13. ASSUME NEW w \in Waiters, WaitTests(w) PROVE IInv'
  <2> USE <1>13 DEF WaitTests, Goto, NotEmpty, NewNode, Crash
  <2>1. TypeOK'
    BY DEF TypeOK, Places
  <2>2. LocksOK'
    BY DEF TypeOK, LocksOK
  <2>3. ListOK'
    BY Corrections DEF TypeOK, LocksOK, ListOK, CountBalanced
  <2>4. CountBalanced'
    <3>1. Uncounted' = Uncounted /\ Overcounted' = Overcounted
      BY DEF TypeOK, Uncounted, Overcounted
    <3> QED BY <3>1 DEF CountBalanced
  <2> QED BY <2>1, <2>2, <2>3, <2>4
<1>14. ASSUME NEW w \in Waiters, WaitEnlists(w) PROVE IInv'
  <2> USE <1>14 DEF WaitEnlists, Goto, NotEmpty, NewNode, Crash
  <2>1. TypeOK'
    BY DEF TypeOK, Places
  <2>2. LocksOK'
    BY DEF TypeOK, LocksOK
  <2>3. ListOK'
    BY Corrections DEF TypeOK, LocksOK, ListOK, CountBalanced
  <2>4. CountBalanced'
    BY DEF TypeOK, LocksOK, ListOK, CountBalanced, Uncounted, Overcounted
  <2> QED BY <2>1, <2>2, <2>3, <2>4
<1>15. ASSUME NEW w \in Waiters, WaitWakes(w) PROVE IInv'
  <2> USE <1>15 DEF WaitWakes, Goto, NotEmpty, NewNode, Crash
  <2>1. TypeOK'
    BY DEF TypeOK, Places
  <2>2. LocksOK'
    BY DEF TypeOK, LocksOK
  <2>3. ListOK'
    BY Corrections DEF TypeOK, LocksOK, ListOK, CountBalanced
  <2>4. CountBalanced'
    BY DEF TypeOK, LocksOK, ListOK, CountBalanced, Uncounted, Overcounted
  <2> QED BY <2>1, <2>2, <2>3, <2>4
<1>16. ASSUME NEW w \in Waiters, WaitInterrupted(w) PROVE IInv'
  <2> USE <1>16 DEF WaitInterrupted, Goto, NotEmpty, NewNode, Crash
  <2>1. TypeOK'
    BY DEF TypeOK, Places
  <2>2. LocksOK'
    BY DEF TypeOK, LocksOK
  <2>3. ListOK'
    BY Corrections DEF TypeOK, LocksOK, ListOK, CountBalanced
  <2>4. CountBalanced'
    BY DEF TypeOK, LocksOK, ListOK, CountBalanced, Uncounted, Overcounted
  <2> QED BY <2>1, <2>2, <2>3, <2>4
<1>17. CASE UNCHANGED vars
  BY <1>17 DEF vars, TypeOK, LocksOK, ListOK, CountBalanced, Uncounted, Overcounted
<1> QED
  BY <1>1, <1>2, <1>3, <1>4, <1>5, <1>6, <1>7, <1>8, <1>9, <1>10, <1>11, <1>12, <1>13, <1>14, <1>15, <1>16, <1>17
  DEF Next, Enqueue, Peak, Dequeue, DequeueWait, Remove
-----------------------------------------------------------------------------
(* Every variable of the queue keeps its type: no pointer ever leaves the   *)
(* nodes of the list, whatever the threads do.                              *)
THEOREM TypeCorrect == Spec => []TypeOK
<1>1. IInv => TypeOK
  BY DEF IInv
<1> QED BY <1>1, InitIInv, NextIInv, PTL DEF Spec

(* The length agrees with the list up to the operations in progress.        *)
THEOREM CountCorrect == Spec => []CountBalanced
<1>1. IInv => CountBalanced
  BY DEF IInv
<1> QED BY <1>1, InitIInv, NextIInv, PTL DEF Spec
-----------------------------------------------------------------------------
(* Undelivered is the run of node numbers after those taken. *)
LEMMA UndeliveredProperties ==
  ASSUME NEW n \in Nat, NEW k \in Nat, k <= n, NEW u,
         u = [i \in 1..(n - k) |-> k + i]
  PROVE  /\ u \in Seq(Nat) /\ Len(u) = n - k
         /\ [i \in 1..((n + 1) - k) |-> k + i] = Append(u, k + Len(u) + 1)
         /\ k < n => /\ u # << >> /\ Head(u) = k + 1
                     /\ [i \in 1..(n - (k + 1)) |-> (k + 1) + i] = Tail(u)
  <1> DEFINE longer == [i \in 1..((n + 1) - k) |-> k + i]
             shorter == [i \in 1..(n - (k + 1)) |-> (k + 1) + i]
  <1>1. u \in Seq(Nat) /\ Len(u) = n - k /\ DOMAIN u = 1..(n - k)
        /\ \A i \in 1..(n - k) : u[i] = k + i
    OBVIOUS
  <1>2. longer \in Seq(Nat) /\ Len(longer) = Len(u) + 1
        /\ \A i \in 1..(Len(u) + 1) : longer[i] = k + i
    BY <1>1
  <1>3. longer = Append(u, k + Len(u) + 1)
    <2> DEFINE a == Append(u, k + Len(u) + 1)
    <2>1. a \in Seq(Nat) /\ Len(a) = Len(u) + 1
          /\ (\A i \in 1..Len(u) : a[i] = u[i]) /\ a[Len(u) + 1] = k + Len(u) + 1
      BY <1>1, AppendProperties
    <2>2. \A i \in 1..(Len(u) + 1) : a[i] = longer[i]
      BY <1>1, <1>2, <2>1
    <2> HIDE DEF a, longer
    <2>3. a = longer
      BY <1>1, <1>2, <2>1, <2>2, SeqEqual
    <2> QED BY <2>3 DEF a
  <1>4. ASSUME k < n PROVE u # << >> /\ Head(u) = k + 1 /\ shorter = Tail(u)
    <2>1. u # << >> /\ Head(u) = k + 1
      BY <1>1, <1>4
    <2>2. Tail(u) \in Seq(Nat) /\ Len(Tail(u)) = Len(u) - 1
          /\ \A i \in 1..Len(Tail(u)) : Tail(u)[i] = u[i + 1]
      BY <1>1, <2>1, HeadTailProperties
    <2>3. shorter \in Seq(Nat) /\ Len(shorter) = Len(u) - 1
          /\ \A i \in 1..(Len(u) - 1) : shorter[i] = (k + 1) + i
      BY <1>1, <1>4
    <2>4. \A i \in 1..(Len(u) - 1) : shorter[i] = Tail(u)[i]
      BY <1>1, <1>4, <2>2, <2>3
    <2> HIDE DEF shorter
    <2> QED BY <1>1, <2>1, <2>2, <2>3, <2>4, SeqEqual
  <1> QED BY <1>1, <1>3, <1>4

(* The two steps at which the abstract queue changes, and all others. *)
LEMMA StepsAreFifo == IInv /\ IInv' /\ [Next]_vars => [Fifo!Next]_(Fifo!vars)
<1> SUFFICES ASSUME IInv, IInv', [Next]_vars PROVE [Fifo!Next]_(Fifo!vars)
  OBVIOUS
<1> USE QueueAssumption DEF Threads, Consumers, Null, list, locks, signals
<1> DEFINE n == Len(next) k == Len(taken)
<1>0. n \in Nat /\ k \in Nat /\ k <= n
  BY LenProperties DEF IInv, TypeOK, ListOK
<1>1. ASSUME taken' = taken, Len(next') = Len(next) + 1 PROVE Fifo!Put
  <2>1. Undelivered' = [i \in 1..((n + 1) - k) |-> k + i]
    BY <1>1 DEF Undelivered
  <2>2. Undelivered' = Append(Undelivered, k + Len(Undelivered) + 1)
    <3>1. Undelivered = [i \in 1..(n - k) |-> k + i]
      BY DEF Undelivered
    <3> HIDE DEF n, k
    <3> QED BY <1>0, <2>1, <3>1, UndeliveredProperties
  <2> QED BY <1>1, <2>2 DEF Fifo!Put
<1>2. ASSUME NEW c \in Consumers, Removes(c) PROVE Fifo!Take
  <2>1. first = k + 1 /\ k < n /\ taken' = Append(taken, k + 1) /\ next' = next
    BY <1>0, <1>2 DEF Removes, IInv, TypeOK, ListOK
  <2>2. Len(taken') = k + 1
    BY <2>1, <1>0, AppendProperties DEF IInv, TypeOK
  <2>3. Undelivered' = [i \in 1..(n - (k + 1)) |-> (k + 1) + i]
    BY <2>1, <2>2 DEF Undelivered
  <2> HIDE DEF n, k
  <2>4. Undelivered = [i \in 1..(n - k) |-> k + i]
    BY DEF Undelivered, n, k
  <2>5. Undelivered # << >> /\ Head(Undelivered) = k + 1 /\ Undelivered' = Tail(Undelivered)
    BY <1>0, <2>1, <2>3, <2>4, UndeliveredProperties
  <2> QED BY <2>1, <2>5 DEF Fifo!Take
<1>3. ASSUME taken' = taken, next' = next PROVE UNCHANGED Fifo!vars
  BY <1>3 DEF Fifo!vars, Undelivered
<1>4. ASSUME NEW p \in Producers, EnqueueLinks(p) PROVE Fifo!Put
  <2>1. taken' = taken /\ Len(next') = Len(next) + 1
    BY <1>4, LinkProperties DEF EnqueueLinks, NewNode, IInv, TypeOK
  <2> QED BY <1>1, <2>1
<1>5. ASSUME NEW p \in Producers, EnqueueReplaces(p) PROVE Fifo!Put
  <2>1. taken' = taken /\ Len(next') = Len(next) + 1
    BY <1>5, AppendProperties DEF EnqueueReplaces, IInv, TypeOK
  <2> QED BY <1>1, <2>1
<1>6. ASSUME NEW p \in Producers,
             EnqueueTests(p) \/ EnqueueSignals(p) \/ EnqueueCounts(p)
      PROVE  taken' = taken /\ next' = next
  BY <1>6 DEF EnqueueTests, EnqueueSignals, EnqueueCounts
<1>7. ASSUME NEW c \in Consumers,
             \/ PeakTests(c) \/ Peaks(c) \/ PeakCrashes(c) \/ DequeueTests(c)
             \/ RemoveCrashes(c) \/ Uncounts(c) \/ WaitTests(c) \/ WaitEnlists(c)
             \/ WaitWakes(c) \/ WaitInterrupted(c)
      PROVE  taken' = taken /\ next' = next
  BY <1>7 DEF PeakTests, Peaks, PeakCrashes, DequeueTests, RemoveCrashes, Uncounts,
              WaitTests, WaitEnlists, WaitWakes, WaitInterrupted, Crash
<1>8. CASE UNCHANGED vars
  BY <1>3, <1>8 DEF vars
<1> QED
  <2>1. CASE \E p \in Producers : Enqueue(p)
    BY <2>1, <1>3, <1>4, <1>5, <1>6 DEF Enqueue, Fifo!Next
  <2>2. CASE \E c \in Pollers : Peak(c) \/ Dequeue(c)
    BY <2>2, <1>2, <1>3, <1>7 DEF Peak, Dequeue, Remove, Fifo!Next
  <2>3. CASE \E w \in Waiters : DequeueWait(w) \/ WaitInterrupted(w)
    BY <2>3, <1>2, <1>3, <1>7 DEF DequeueWait, Remove, Fifo!Next
  <2> QED BY <1>8, <2>1, <2>2, <2>3 DEF Next

(* The queue implements a first-in-first-out queue that delivers every      *)
(* element once, for any number of threads - until a cut list ends it.      *)
THEOREM FifoCorrect == Spec => FifoSpec
<1>1. Init => Fifo!Init
  BY DEF Init, Fifo!Init, Undelivered
<1> QED BY <1>1, InitIInv, NextIInv, StepsAreFifo, PTL DEF Spec, FifoSpec, Fifo!Spec

(* The queue is read by one thread: every endpoint has one that handles its *)
(* packets, and it calls nothing but peak and dequeue in turn.              *)
OneReader == \A c, d \in Consumers : c = d

(* What a thread got from peak is the next element to be taken.             *)
NextPeeked ==
  \A c \in Pollers :
     pc[c] \in {"peaked", "remove"} => peeked[c] = Len(taken) + 1

LEMMA NextNextPeeked ==
  ASSUME OneReader, IInv, IInv', NextPeeked, [Next]_vars
  PROVE  NextPeeked'
  <1> SUFFICES ASSUME NEW c \in Pollers, pc'[c] \in {"peaked", "remove"}
               PROVE  peeked'[c] = Len(taken') + 1
    BY DEF NextPeeked
  <1>t. /\ c \in Consumers /\ c \in Threads
        /\ pc \in [Threads -> Places] /\ peeked \in [Pollers -> Nat]
    BY DEF IInv, TypeOK, Consumers, Threads
  <1>1. CASE UNCHANGED vars
    BY <1>1 DEF vars, list, locks, signals, NextPeeked
  <1>2. ASSUME NEW p \in Producers, Enqueue(p)
        PROVE  peeked'[c] = Len(taken') + 1
    <2>1. p \in Threads /\ UNCHANGED <<peeked, taken>>
      BY <1>2 DEF Threads, Enqueue, EnqueueTests, EnqueueLinks, EnqueueReplaces,
                  EnqueueSignals, EnqueueCounts
    <2>2. \E from \in {"out", "link", "replace", "signal", "count"},
             to \in {"out", "link", "replace", "signal", "count"} :
             Goto(p, from, to)
      BY <1>2 DEF Enqueue, EnqueueTests, EnqueueLinks, EnqueueReplaces,
                  EnqueueSignals, EnqueueCounts
    <2>3. pc'[c] = pc[c]
      BY <1>t, <2>1, <2>2, QueueAssumption DEF Goto
    <2> QED BY <2>1, <2>3 DEF NextPeeked
  <1>3. CASE Peaks(c)
    BY <1>3, <1>t DEF Peaks, IInv, ListOK, Goto
  <1>4. CASE DequeueTests(c)
    BY <1>4, <1>t DEF DequeueTests, Goto, NextPeeked
  <1>5. CASE PeakTests(c) \/ Removes(c) \/ Uncounts(c)
    BY <1>5, <1>t DEF PeakTests, Removes, Uncounts, Goto
  <1>6. CASE PeakCrashes(c) \/ RemoveCrashes(c)
    BY <1>6, <1>t DEF PeakCrashes, RemoveCrashes, Crash, list, locks, signals,
                      Goto, NextPeeked
  <1>7. Waiters = {}
    BY <1>t, QueueAssumption DEF OneReader, Consumers
  <1>8. \A d \in Pollers : Peak(d) \/ Dequeue(d) => d = c
    BY <1>t DEF OneReader, Consumers
  <1> QED
    BY <1>1, <1>2, <1>3, <1>4, <1>5, <1>6, <1>7, <1>8
       DEF Next, Peak, Dequeue, Remove

(* What a thread got from peak is what its dequeue then removes, unless the *)
(* list was cut in between: for one reading thread, any number of threads   *)
(* that enqueue and any number of elements.                                 *)
THEOREM PeekStays ==
  ASSUME OneReader
  PROVE  Spec => []PeekedStays
<1>1. Init => IInv /\ NextPeeked
  BY InitIInv DEF Init, NextPeeked, Threads, Consumers
<1>2. IInv /\ NextPeeked /\ [Next]_vars => (IInv /\ NextPeeked)'
  BY OneReader, NextIInv, NextNextPeeked
<1>3. IInv /\ NextPeeked => PeekedStays
  BY DEF IInv, ListOK, NextPeeked, PeekedStays
<1> QED BY <1>1, <1>2, <1>3, PTL DEF Spec
=============================================================================
