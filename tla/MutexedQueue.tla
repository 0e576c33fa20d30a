---------------------------- MODULE MutexedQueue ----------------------------
(***************************************************************************)
(* The queue between threads of wifi/svc/svc/MutexedQueue.h: a linked list *)
(* with a mutex for its head, one for its tail and one for its length.     *)
(*                                                                         *)
(* The mutexes are taken to work (SharedMutex says what they really do);   *)
(* even so enqueue and dequeue exclude each other nowhere, they only meet  *)
(* at "count".  One step is what a thread does between two points where    *)
(* another thread can see the difference.                                  *)
(*                                                                         *)
(* The daemon reads its queues with peak and dequeue, one thread for each  *)
(* queue; SVC::listenConnection reads connectionRequest with dequeueWait.  *)
(* Nodes are numbered in the order in which they are linked; 0 is NULL.    *)
(***************************************************************************)
EXTENDS Integers, Sequences

CONSTANTS
  Producers,   \* threads that call enqueue
  Pollers,     \* threads that call peak and dequeue
  Waiters,     \* threads that call dequeueWait
  NoThread,    \* the owner of a free mutex
  MaxItems     \* bound: how many elements are enqueued

Consumers == Pollers \cup Waiters
Threads   == Producers \cup Consumers

ASSUME QueueAssumption ==
  /\ Producers \cap Consumers = {} /\ Pollers \cap Waiters = {}
  /\ NoThread \notin Threads
  /\ MaxItems \in Nat

VARIABLES
  next,        \* next[n]: the successor of node n
  first,       \* MutexedQueue::first
  last,        \* MutexedQueue::last
  count,       \* MutexedQueue::count
  firstOwner,  \* who holds firstMutex exclusively
  lastOwner,   \* who holds lastMutex
  waiting,     \* MutexedQueue::waitDataThreads
  signaled,    \* threads with a pending SIGUSR2
  peeked,      \* peeked[c]: the node whose data c got from peak
  taken,       \* the nodes taken off, in order (history)
  crashed,     \* a NULL pointer was followed
  pc           \* pc[t]: where t is inside the queue's operations

list == <<next, first, last>>
locks == <<firstOwner, lastOwner>>
signals == <<waiting, signaled>>
vars == <<list, count, locks, signals, peeked, taken, crashed, pc>>

Null == 0

Init ==
  /\ next = << >>
  /\ first = Null
  /\ last = Null
  /\ count = 0
  /\ firstOwner = NoThread
  /\ lastOwner = NoThread
  /\ waiting = << >>
  /\ signaled = {}
  /\ peeked = [c \in Pollers |-> Null]
  /\ taken = << >>
  /\ crashed = FALSE
  /\ pc = [t \in Threads |-> "out"]

NotEmpty == count > 0
NewNode == Len(next) + 1

Goto(t, from, to) ==
  /\ ~crashed
  /\ pc[t] = from
  /\ pc' = [pc EXCEPT ![t] = to]

(* Following a NULL pointer ends the process. *)
Crash ==
  /\ crashed' = TRUE
  /\ UNCHANGED <<list, count, locks, signals, peeked, taken>>
-----------------------------------------------------------------------------
(* enqueue *)

(* Mutant: the test is off by one, a single element is taken for none. *)
EnqueueTestsLate(p) ==
  /\ Len(next) < MaxItems
  /\ lastOwner = NoThread
  /\ lastOwner' = p
  /\ \/ count > 1 /\ Goto(p, "out", "link")
     \/ count <= 1 /\ Goto(p, "out", "replace")
  /\ UNCHANGED <<list, count, firstOwner, signals, peeked, taken, crashed>>

EnqueueTests(p) ==
  /\ Len(next) < MaxItems
  /\ lastOwner = NoThread
  /\ lastOwner' = p
  /\ \/ NotEmpty /\ Goto(p, "out", "link")
     \/ ~NotEmpty /\ Goto(p, "out", "replace")
  /\ UNCHANGED <<list, count, firstOwner, signals, peeked, taken, crashed>>

(* The list was not empty at the test: append to its last node. *)
EnqueueLinks(p) ==
  /\ Goto(p, "link", "count")
  /\ next' = Append([next EXCEPT ![last] = NewNode], Null)
  /\ last' = NewNode
  /\ UNCHANGED <<first, count, locks, signals, peeked, taken, crashed>>

(* Mutant: setNext(NULL) is forgotten and the pointer dangles. *)
EnqueueReplacesUnset(p) ==
  /\ Goto(p, "replace", "signal")
  /\ next' = Append(next, NewNode + 1)
  /\ first' = NewNode
  /\ last' = NewNode
  /\ UNCHANGED <<count, locks, signals, peeked, taken, crashed>>

(* The list was empty at the test: start a new one. *)
EnqueueReplaces(p) ==
  /\ Goto(p, "replace", "signal")
  /\ next' = Append(next, Null)
  /\ first' = NewNode
  /\ last' = NewNode
  /\ UNCHANGED <<count, locks, signals, peeked, taken, crashed>>

(* signalThread: wake the first thread that waits for data, if any. *)
EnqueueSignals(p) ==
  /\ Goto(p, "signal", "count")
  /\ \/ /\ waiting # << >>
        /\ signaled' = signaled \cup {Head(waiting)}
        /\ waiting' = Tail(waiting)
     \/ waiting = << >> /\ UNCHANGED signals
  /\ UNCHANGED <<list, count, locks, peeked, taken, crashed>>

EnqueueCounts(p) ==
  /\ Goto(p, "count", "out")
  /\ count' = count + 1
  /\ lastOwner' = NoThread
  /\ UNCHANGED <<list, firstOwner, signals, peeked, taken, crashed>>
-----------------------------------------------------------------------------
(* peak, which leaves its test of an empty queue without any effect *)

PeakTests(c) ==
  /\ NotEmpty
  /\ Goto(c, "out", "peak")
  /\ UNCHANGED <<list, count, locks, signals, peeked, taken, crashed>>

Peaks(c) ==
  /\ firstOwner = NoThread
  /\ first # Null
  /\ Goto(c, "peak", "peaked")
  /\ peeked' = [peeked EXCEPT ![c] = first]
  /\ UNCHANGED <<list, count, locks, signals, taken, crashed>>

PeakCrashes(c) ==
  /\ firstOwner = NoThread
  /\ first = Null
  /\ Goto(c, "peak", "peak")
  /\ Crash
-----------------------------------------------------------------------------
(* dequeue; the threads that call it have just seen an element with peak,   *)
(* so the queue is not empty                                                *)

DequeueTests(c) ==
  /\ firstOwner = NoThread
  /\ NotEmpty
  /\ Goto(c, "peaked", "remove")
  /\ firstOwner' = c
  /\ UNCHANGED <<list, count, lastOwner, signals, peeked, taken, crashed>>

(* Mutant: the first node is returned and not taken off. *)
RemovesNothing(c) ==
  /\ first # Null
  /\ Goto(c, "remove", "uncount")
  /\ taken' = Append(taken, first)
  /\ UNCHANGED <<list, count, locks, signals, peeked, crashed>>

(* Take the first node off; dequeue and dequeueWait do the same.  The       *)
(* length is changed a step later.                                          *)
Removes(c) ==
  /\ first # Null
  /\ Goto(c, "remove", "uncount")
  /\ first' = next[first]
  /\ taken' = Append(taken, first)
  /\ UNCHANGED <<next, last, count, locks, signals, peeked, crashed>>

RemoveCrashes(c) ==
  /\ first = Null
  /\ Goto(c, "remove", "remove")
  /\ Crash

(* Mutant: count-- is forgotten. *)
UncountsNothing(c) ==
  /\ Goto(c, "uncount", "out")
  /\ firstOwner' = NoThread
  /\ UNCHANGED <<list, count, lastOwner, signals, peeked, taken, crashed>>

Uncounts(c) ==
  /\ Goto(c, "uncount", "out")
  /\ count' = count - 1
  /\ firstOwner' = NoThread
  /\ UNCHANGED <<list, lastOwner, signals, peeked, taken, crashed>>
-----------------------------------------------------------------------------
(* dequeueWait, which keeps firstMutex while it waits *)

WaitTests(w) ==
  /\ firstOwner = NoThread
  /\ firstOwner' = w
  /\ \/ NotEmpty /\ Goto(w, "out", "remove")
     \/ ~NotEmpty /\ Goto(w, "out", "enlist")
  /\ UNCHANGED <<list, count, lastOwner, signals, peeked, taken, crashed>>

WaitEnlists(w) ==
  /\ Goto(w, "enlist", "wait")
  /\ waiting' = Append(waiting, w)
  /\ UNCHANGED <<list, count, locks, signaled, peeked, taken, crashed>>

WaitWakes(w) ==
  /\ w \in signaled
  /\ Goto(w, "wait", "remove")
  /\ signaled' = signaled \ {w}
  /\ UNCHANGED <<list, count, locks, waiting, peeked, taken, crashed>>

(* SIGINT: dequeueWait returns NULL, listenConnection throws and the        *)
(* application stops listening; firstMutex is not unlocked.                 *)
WaitInterrupted(w) ==
  /\ Goto(w, "wait", "interrupted")
  /\ UNCHANGED <<list, count, locks, signals, peeked, taken, crashed>>
-----------------------------------------------------------------------------
Enqueue(p) ==
  \/ EnqueueTests(p) \/ EnqueueLinks(p) \/ EnqueueReplaces(p)
  \/ EnqueueSignals(p) \/ EnqueueCounts(p)

Peak(c) == PeakTests(c) \/ Peaks(c) \/ PeakCrashes(c)
Remove(c) == Removes(c) \/ RemoveCrashes(c) \/ Uncounts(c)
Dequeue(c) == DequeueTests(c) \/ Remove(c)
DequeueWait(w) == WaitTests(w) \/ WaitEnlists(w) \/ WaitWakes(w) \/ Remove(w)

Next ==
  \/ \E p \in Producers : Enqueue(p)
  \/ \E c \in Pollers : Peak(c) \/ Dequeue(c)
  \/ \E w \in Waiters : DequeueWait(w) \/ WaitInterrupted(w)

Spec == Init /\ [][Next]_vars

(* Threads inside an operation go on; none has to start one but a waiter    *)
(* that was woken.                                                          *)
Fairness ==
  /\ \A p \in Producers : WF_vars(pc[p] # "out" /\ Enqueue(p))
  /\ \A w \in Waiters : WF_vars(DequeueWait(w))

FairSpec == Spec /\ Fairness
-----------------------------------------------------------------------------
Places == {"out", "link", "replace", "signal", "count", "peak", "peaked",
           "remove", "uncount", "enlist", "wait", "interrupted"}

(* Every variable has its type; no pointer leaves the nodes there are. *)
TypeOK ==
  /\ next \in Seq(Nat) /\ \A n \in DOMAIN next : next[n] \in 0..Len(next)
  /\ first \in 0..Len(next) /\ last \in 0..Len(next)
  /\ count \in Int
  /\ firstOwner \in Consumers \cup {NoThread}
  /\ lastOwner \in Producers \cup {NoThread}
  /\ waiting \in Seq(Waiters) /\ signaled \in SUBSET Waiters
  /\ peeked \in [Pollers -> Nat]
  /\ taken \in Seq(Nat)
  /\ crashed \in BOOLEAN
  /\ pc \in [Threads -> Places]

(* A node linked and not counted yet, and one removed and still counted. *)
Uncounted == IF \E p \in Producers : pc[p] \in {"signal", "count"} THEN 1 ELSE 0
Overcounted == IF \E c \in Consumers : pc[c] = "uncount" THEN 1 ELSE 0

(* "count", which the two ends of the queue change under different mutexes, *)
(* is the number of nodes linked and not removed, but for the one node at   *)
(* each end that an operation in progress is about to count.  A woken       *)
(* dequeueWait may overtake its enqueue: the count is -1 for a moment and   *)
(* right again after it.                                                    *)
CountBalanced ==
  count = Len(next) - Len(taken) - Uncounted + Overcounted

(* With one polling thread, the element that processingIncomingMessage and  *)
(* its siblings got from peak is the one dequeue then removes, whatever is  *)
(* enqueued in between - unless the list was cut.                           *)
PeekedStays ==
  \A c \in Pollers : pc[c] \in {"peaked", "remove"} =>
     /\ first # Null => first = peeked[c]
     /\ peeked[c] = Len(taken) + 1

(* The queue is first in, first out and delivers nothing twice, as long as  *)
(* the process lives: the abstract queue is what was linked and not taken.  *)
Undelivered == [i \in 1..(Len(next) - Len(taken)) |-> Len(taken) + i]
Fifo == INSTANCE FifoQueue WITH queue <- Undelivered
FifoSpec == Fifo!Spec
-----------------------------------------------------------------------------
(* "This queue is implemented to be generic and thread-safe"                *)
(* (MutexedQueue.h:14): no interleaving of its operations cuts the list, so *)
(* that the next reader follows a NULL pointer.                             *)
ThreadSafe == ~crashed

(* "after waitData there must be data in queue" (MutexedQueue.h:102): a     *)
(* waiting thread is woken when there is.                                   *)
WaiterWoken ==
  \A w \in Waiters :
     (pc[w] = "wait" /\ NotEmpty) ~> (pc[w] # "wait" \/ ~NotEmpty)
==============================================================================
