# TLA+ verification of SVC and its surroundings

This directory holds TLA+ modules of the concurrent core of the repository, the
TLC configurations that check them on small instances, and TLAPS proofs of the
properties that must hold for every size. All paths below are relative to
`src/`; "the code" is the source there, and every definition of a module is
translated from it (`PROJECT.json`, "map", gives the lines).

The repository collects three programs around one idea, monitoring the WiFi of
an office and giving its machines a secure connection:

* **SVC** (`wifi/svc`), a connection service: applications link a library, a
  daemon on each machine carries their connections to the daemon of the peer;
* the **WiFi reporter** (`wifi/netlink`, `wifi/iw-regex`), which scans, connects
  through wpa_supplicant and times every phase of the association;
* two small **control servers** (`client`, `server`).

SVC is where several threads, processes and machines meet, so it came first; the
WiFi reporter and the file transfer of an earlier SVC, kept under
`wifi/document`, followed. The program's own logic is C and C++: nearly all
JavaScript of the tree is saved web pages and installed packages.

## Inventory

| Component | State | Operations | Meets whom | What makes it correct |
|---|---|---|---|---|
| `shared_mutex` (`svc/shared_mutex.h`) | two counters, two queues of waiting threads, four inner mutexes | `lock`, `unlock`, `lock_shared`, `unlock_shared` | every other class of SVC | writers are alone; counters exact; a wakeup goes to a thread that waits, and comes |
| `MutexedQueue` (`svc/MutexedQueue.h`, `Node.h`) | linked list, its length, threads that wait for data | `enqueue`, `dequeue`, `dequeueWait`, `peak`, `notEmpty` | daemon threads, `listenConnection` | first in first out, nothing lost or twice; length right; no NULL followed |
| `SignalNotificator`, `waitSignal` (`svc/SVC-utils.cpp`) | notificators by command, timers, pending signals | `waitCommand`, `getNotificator`, `removeNotificator`, `waitCommandHandler` | caller thread and reading thread | a wait ends; it ends for its own reason; memory in use is alive |
| `PeriodicWorker` (`svc/SVC-utils.cpp`) | one timer, one thread | start, stop, the work | `DaemonService`, SIGINT | stops when told to, with the daemon |
| SVC library (`svc/SVC.cpp`) | endpoints, connection requests, reading thread | `establishConnection`, `listenConnection`, `processPacket`, `sendCommand` | daemon (AF_LOCAL), application | both ends agree on who is connected; calls return |
| SVC daemon (`svc/SVC-daemon.cpp`) | service table, endpoints, four queues and five threads for each | two reading loops, four endpoint threads, CHECK_ALIVE, removal, shutdown | library, other daemons (UDP) | a frame reaches the endpoint it is for, none overtakes another; an endpoint is deleted once, after its last use; shutdown ends |
| `SVCHostIP`, demo applications | an address; nothing | parse, challenges, proofs | library | a bad address is reported |
| HTP (`svc/htp`), PKI authenticator | none yet | stubs | - | - |
| WiFi report (`netlink/main.cpp`) | a sniffing child, two mutexes, five time stamps | `report`, `packet_sniffing`, `report_to_file` | wpa_supplicant, pcap | nothing is sent before somebody listens; the report is complete, in order, and ends |
| WiFi scans (`netlink/network.cpp`, `nlwifi.c`) | networks, access points, netlink sockets | trigger, wait for multicast, dump, connect | kernel | a success stands for an event of one's own; a wait ends |
| Frame parsing (`netlink/pcapwifi.c`) | none | `getTaggedValue` | `network.cpp` | stays inside the frame |
| Control servers (`client/client.js`, `server/server.js`) | a flag | `/start`, `/stop`, `/status` | a shell script | the flag follows the service |
| Earlier SVC (`wifi/document/svc/Source_SVC`) | a TLS-like negotiation and a resumable file transfer | connect, negotiate, send, resume | sockets | the file arrives whole after a reconnect |

Vendored and generated material (`node_modules`, hostap files, saved web pages,
reports, certificates) is no part of it. `netlink/main.cpp` does not compile as
committed: a merge marker is left at line 354.

What is hard in it: a lock built from four mutexes and a signal; a list with
three mutexes; waits that end by a signal that is shared with the lock and by
timers that are never deleted; two loops and four threads per endpoint that look
up, change and delete from one table; a handshake of four steps over lossy,
reordering, duplicating datagrams, with timeouts, IDs taken from the clock in
seconds and constant challenges; a mutex locked by one thread and unlocked by
another; requests whose answer is a multicast about anybody; a transfer that
resumes on a new connection. `PROJECT.json` lists every hazard at its line.

## Modules

| Module | Models | State | Actions |
|---|---|---|---|
| `SharedMutex` | `shared_mutex.h` | counters, queues, `signaled`, `shared`, `pc` | one per critical section of an inner mutex, and the return of `sigwait` |
| `SharedMutexProofs` | - | | theorems on it |
| `FifoQueue` | what a queue promises | `queue` | put, get |
| `MutexedQueue` | `MutexedQueue.h` | nodes, `first`, `last`, `count`, who holds which mutex, `pc` | one per point at which another thread can see a difference |
| `MutexedQueueProofs` | - | | theorems on it, and that it refines `FifoQueue` |
| `SvcWait` | `SignalNotificator`, `waitSignal` | notificators, `timers`, pending signals, the reading thread | caller, timers, reading thread |
| `SvcWaitProofs` | - | | theorems on it |
| `SvcSockets` | frames, the AF_LOCAL sockets, UDP | `toDaemon`, `toApp`, `net` | `Receive` |
| `SvcDaemon` | the daemon's loops and endpoint threads | service table, endpoints with four queues, requests being opened | one per branch of a loop's pass, one per endpoint thread |
| `SvcApp` | the library | endpoints with the phase of their call, requests | one per part of a call between two waits, one per outcome of `processPacket` |
| `SvcSystem` | `SvcSockets`, `SvcDaemon` and `SvcApp` composed | | |
| `SvcSystemProofs` | - | | theorems on it, and that it refines `SvcConnection` |
| `SvcConnection` | what the handshake promises two applications | sessions answered, trusted, accepted, established | one each, and giving up |
| `SvcEndPoint` | the life of a daemon endpoint, `PeriodicWorker`, SIGINT, shutdown | the table, four queues, where each thread is, who was deleted | one per queue operation, lookup, join and deletion |
| `SvcEndPointProofs` | - | | theorems on it |
| `WifiReport` | `report`, `packet_sniffing` | loop indices, children, monitors, `mutex`, phases written, frames captured | one per branch of the loops, one per frame read; the air |
| `ReportTime` | `report_to_file` | none: functions | |
| `WifiReportProofs` | - | | theorems on both |
| `FileCopy` | what the file transfer promises | `copy`, `whole` | grow, complete |
| `FileTransfer` | `Client/main.cpp`, `Server/main.cpp` of the earlier SVC | each client, each connection with its server thread, whether the server is up | one per send, receive, outcome of the loop; faults |
| `FileTransferProofs` | - | | theorems on it, and that it refines `FileCopy` |
| `WifiLink` | `fullNetworkScan`, `connect`, `disconnect` and their nl80211 requests | each call, its socket's queue and group; the kernel's scans and links | one per request, message read and return; the kernel |
| `WifiLinkProofs` | - | | theorems on it |

`MC*` modules give the constants values; they contain nothing else.

### How finely the code is cut into steps

* **SharedMutex.** One critical section of `writerPresenceMutex`,
  `readerPresenceMutex`, `writeWaitQueueMutex` or `readWaitQueueMutex` is one
  step. Nothing shared is touched outside them but the signals. SIGUSR1 is
  blocked in the threads that use the lock, so `pthread_kill` makes it pending
  and `sigwait` takes it; two pending ones are one.
* **MutexedQueue.** The inner mutexes are taken to work, so each end of the
  queue has one owner; `count` and the nodes are what the two ends share, and
  every access to them that the other end can observe is a step of its own.
  Following a NULL pointer ends the process (`crashed`). The `waitDataThreads`
  container is changed in one step although two threads may touch it at once.
* **SvcWait.** The caller registers, arms its timer, sleeps; the reading thread
  looks up, fills in, signals, removes. Using a deleted object is undefined: it
  sets `corrupted`, after which nothing happens.
* **SvcApp, SvcDaemon.** What a thread does between two waits or two reads is a
  step, because it touches only what is its own or behind a mutex. The
  exceptions are steps of their own: sending a request and registering the wait
  for its answer, and the two halves of opening an endpoint (look up, create).
  A freed endpoint stays in `SVC::endPoints`, and a lookup that meets it passes
  over it, stops at it or crashes. A SIGUSR1 left by a call that failed may end a
  wait of a later one, which then follows parameters that are not there
  (`StrayCrashes`) or goes on without the daemon's answer (`StrayConfirms`).

* **SvcEndPoint.** Moving a message enqueues and then dequeues it: two steps,
  between which it is in two queues. What is done under a share of
  `endPointsMutex` is one step; only the main thread waits with the mutex held,
  and it is taken to be a correct lock. Joining a thread that ended, and an
  endpoint's sending thread joining itself, return at once. Use of a deleted
  endpoint crashes the daemon or goes on.
* **WifiReport.** One step per turn of a loop, per lock operation and per frame
  read. Between two of them `report` and the sniffer share nothing.
* **FileTransfer.** `send` and `recv` of a whole message are one step each, as
  are the ends of a connection; a broken connection drops what was under way
  from some message on, and both ends come to see it.
* **WifiLink.** One step per message read from a socket, each access point of a
  dump included, so an event may come between two of them. Every object runs its
  operation once on a fresh socket.

### What is abstracted

Endpoint IDs, challenges and hosts are model values; a proof is written as the
challenge it answers, as the demo's proof is the challenge and "OK". Identity
strings never differ and are left out. All applications have one application
ID, as the two demos do, so each host has one application socket. The
`encrypt`/`decrypt` stubs copy. Data frames are not modelled: `sendData` and
`readData` have no body. `SvcApp` lets a wait time out at any moment; why and
when it does is the subject of `SvcWait`, as is the answer that arrives between
the timeout and the deletion of the call. Of the signal such an answer leaves,
`SvcApp` keeps that an earlier call of the host failed. Daemon endpoints live for ever in
`SvcDaemon`, which is about what the frames say; `SvcEndPoint` is about their
life and keeps of a frame its command and a number. It has one service, whose
endpoint IDs are opened once each; STEP4 frames move as STEP2 frames do. A
service that is in no table is never stopped, so it plays no part in it.

`WifiReport` keeps of a frame its place in the association. The air sends the
frames of a script in order, repeats the last one or begins again, and the
monitor may miss one; the first data frame is dhclient's and follows "Last EAP".
Signal strength is whether an access point is in range.

In `FileTransfer` the file is the sequence of its positions, so a byte out of
place shows. A message is read as it was sent or not at all; certificates, key
exchange and ciphers show only in the two messages of the negotiation.
`MessagesFit` says why `recv`'s buffer for bytes nobody asked for yet is left
out: it stays empty. `recv` adds the count of bytes to a `uint32_t*` when a
length arrives in pieces; a length is taken to arrive whole. The server's SIGINT
handler closes the listening socket under `accept`, after which its main loop
spins; nobody interrupts it here.

`WifiLink` takes the kernel to list what it had when it was asked, each access
point once. Of a hardware address it keeps what `strcmp` sees: the bytes up to
the first zero byte (`Seen`), and whether there is one (`WithZero`). Addresses
that agree up to a zero byte are equal to the callbacks, whatever follows;
without a zero byte they are read on past their six bytes, so that a frame may be
passed over although it agrees. The acknowledgements of an authentication or
association are passed over by the code and left out.

## Runs

Twelve runs. The violated one states what a comment of the repository says and
the code does not do.

| Run | Instance | Shows |
|---|---|---|
| `lock` | three readers, two of which write, shares nested twice | counters are exact at every step, a wakeup only goes to a thread in `sigwait` for it |
| `lock_exclusive` (violated) | two writers | "we are the only one" (shared_mutex.h:116) is not so |
| `queue_polled` | three producers, one polling thread, five elements | `dequeue` removes what `peak` showed, whatever the producers append |
| `queue_waited` | two producers, two threads in `dequeueWait`, five elements | order and length, the woken thread overtaking the enqueue, SIGINT |
| `wait` | two threads, one call of two waits each, the reading thread | a timer runs for every sleeper although threads steal alarms, every wait ends |
| `svc_crossed` | two hosts call each other, one datagram twice | library, daemons and network implement `SvcConnection` |
| `svc_same_second` | two calls of one host with one ID, fair | frames meet, a failed call leaves its endpoint and a signal behind; client and server agree on challenges; each call returns, unless it stays in the lock of `addNotificator` or its process is brought down |
| `svc_replay` | constant challenges, two datagrams twice, an invalid address string | a replayed handshake is not accepted again |
| `endpoint` | one endpoint, two frames of any command, two SIGINT, fair | threads end before their endpoint is deleted, once, out of reach of lookups; while its application is there nobody uses it afterwards; frames leave, none overtakes another; shutdown ends unless an application is gone |
| `report` | two interfaces, three saved networks, two repetitions, one missed frame, fair | the sniffer listens before the network is enabled, the report is complete and in order, each network is tried once, nothing is left, `report` returns unless a supplicant is not there or the monitor missed frames of the round |
| `transfer` | two clients, five bytes in buffers of two, connections that carry four, one fault, fair | each file is a copy in progress and whole at the end (`FileCopy`); every client ends |
| `link` | pairs of objects on one interface, a scan of another process, two access points that `strcmp` takes for one and a third, fair | a scan that succeeds is recent, a connect that succeeds was granted by what `strcmp` takes for its access point, lists have no duplicates, a scan returns |

More configurations are kept to be run by hand. The violated ones are
counterexamples to a sentence of the code or documents; the hazards and findings
in `PROJECT.json` refer to them. Where a configuration has several properties,
one is active and the others are comments to be exchanged with it.

| Configuration, module | Property | Shows |
|---|---|---|
| `MCSharedMutexWakeup.cfg`, MCSharedMutex | `WaitingWriterWakes`, `WaitingReaderWakes` | a writer or reader queues itself after the last wakeup was sent |
| `MCQueueThreadSafe.cfg`, MCMutexedQueue | `ThreadSafe` | a queue of one element is cut |
| `MCQueueWoken.cfg`, MCMutexedQueue | `WaiterWoken` | an element arrives between the test and the wait, nobody signals |
| `MCSvcWaitRefuted.cfg`, MCSvcWait | `TimeoutIsOwn` | a wait ended by an earlier wait's timer |
| | `AnswerHasParams` | a late SIGUSR1 answers the next call, with no parameters |
| | `ListInUseStays` | the reading thread uses a notificator list the caller deleted |
| `MCSvcOrphan.cfg`, MCSvcSystem | `AnswerLeavesDaemon` | the server's answer never leaves a daemon that knows no peer |
| `MCSvcMisroute.cfg`, MCSvcSystem | `AnswerGoesToClient` | session ID 0 matches the first service: the answer goes to another host |
| `MCSvcParams.cfg`, MCSvcSystem | `OnlyBadAddressRefused` | the parameters of a refused request judge the next one |
| `MCSvcRefuted.cfg`, MCSvcSystem | `RemovedNotFound` | the lookup meets a removed endpoint |
| | `DaemonAnswerComes` | the answer overtakes the registration of its wait and is dropped |
| `MCSvcTwins.cfg`, MCSvcSystem | `LookupsUnique` | crossing calls with one ID: both loops of a daemon open an endpoint for it |
| `MCSvcEndPointRefuted.cfg`, MCSvcEndPoint | `LoopHoldsLive` | a reading loop enqueues into an endpoint deleted meanwhile |
| | `SenderAlive` | the sending thread goes on in the endpoint it deleted |
| | `TimerDeletedOnce`, `SigintStops` | the worker takes the SIGINT meant for the daemon |
| | `AlwaysExits` | the shutdown waits for a thread that waits for its mutex |
| `MCSvcEndPointTwo.cfg`, MCSvcEndPoint | the invariants of `endpoint` | hold for two endpoints (2.27 million states) |
| `MCWifiReportRefuted.cfg`, MCWifiReport | `LastEapIsFourth` | a repeated key frame is counted |
| | `ReportEnds` | on an open network the sniffer never ends |
| | `NothingLeft` | a bad file of saved networks leaves children and monitors behind |
| `MCFileTransferRefuted.cfg`, MCFileTransfer | `LoopCompletes` | SIGPIPE ends a client that would reconnect |
| | `Undisturbed` | `fclose` of a pointer never set may end the server for all |
| `MCWifiLinkShared.cfg`, MCWifiLink | `ScanIsRecent` | with two interfaces, the other one's scan ends the wait |
| | `SuccessLists` | an event left unread ends the dump: success, and an empty list |
| `MCWifiLinkRefuted.cfg`, MCWifiLink | `ConnectAssociates`, `ConnectReturns` | a refused association is a success, a timeout is passed over for ever |
| | `DisconnectSurvives` | the callback of a disconnect follows NULL |
| | `ConnectIsWanted` | another access point's frame is taken: both addresses begin with a zero byte |

### Bounds, and why they are enough

* `MaxDepth` 2: `processPacket` nests one share in another and nothing nests
  deeper. Three threads: two that race and one that blocks them.
* `MaxItems` 5, up to five threads: the list is empty, has one or more nodes,
  runs empty and fills again; the cases of `enqueue` and `dequeue` are these.
  `queue_polled` has the three producers `inQueue` has in the daemon.
* `MaxCalls` 1 with two callers: two waits each, so four timers that cross. The
  second call of a thread matters only for `AnswerHasParams`, which has 2.
* Two attempts (one in `svc_replay`), up to two duplicates: handshakes whose frames
  overtake, repeat and get lost, which `net` does by itself (a lost datagram is
  one never received). `MaxListens` bounds the server's loop; two are needed to
  accept something twice. `KnownPeers` starts the daemons with the services
  earlier calls left, as a service is never removed.

* `SvcEndPoint`: one endpoint and two frames put every pair of its threads, a
  loop and the main thread against each other; a second frame is what an unknown
  command blocks. Two endpoints add the second join of the shutdown and are run
  by hand. `MaxQueue` 0 lets a tick come to empty queues only: five seconds are
  long for threads that poll, and one CHECK_ALIVE is enough to notice that an
  application is gone. Two SIGINT: one for the worker, one for the handler.
* `report`: two interfaces and a network out of use, one out of range and one
  with two access points in range meet every branch of the loops; the script
  has one frame of management and all of the authentication, and two
  repetitions reach four counted frames without the fourth message. One frame may
  be missed in each round, so that a round may go wrong and the next must not. Longer
  scripts are in `MCWifiReportRefuted.cfg`.
* `transfer`: five bytes in buffers of two give full and last messages; a
  connection that ends after more than three bytes (`MaxSend`, in place of the
  code's 10^9) makes every client reconnect at least once, and the fault comes
  at any point of it. Four connections let both clients have an old and a new one.
* `link`: the properties relate two objects, or one and another process; three
  access points make two networks, of one and of two access points, and a scan
  hears none, one or all of them (`Audible`). The addresses of the interface and
  of two access points begin with a zero byte and are one to `strcmp`; the third
  has none. Two connects go to the first two, or to the first and the third, so
  that a foreign frame is taken in the one case and must not be in the other.

`CHECK_DEADLOCK FALSE` is set everywhere because these systems may stop: callers
need not call, elements and calls are bounded, and a thread may wait for ever
when nothing is sent to it (where it should not, a liveness property says so).

### Fairness, and why the code justifies it

Every assumption is weak fairness of a thread that is inside an operation: the
operating system runs it. Nobody has to begin an operation, no application has
to call and no network has to deliver. A lock holder gives the lock back
(each `lock` is followed by its `unlock` with only local work between, for
`FairSpec` of `SharedMutex`); an armed timer expires (the kernel's timer is
external); a thread with a pending signal in `sigwait` returns from it.
`WaitReturns` needs the timers and no answer. `EstablishReturns` needs the
timeouts of the waits and that a thread outside locks goes on. Nothing is assumed
of `addNotificator`: it takes a `shared_mutex` that a packet arriving at that
moment shares, and the lock may lose its wakeup (`WaitingWriterWakes`,
`WaitingReaderWakes`). The property names that place, `InAddNotificator`, as one
where a call may stay for ever.

`ShutdownEnds` and `FramesLeave` rest on every thread of the daemon running and
on the worker's timer ticking. `ReportEnds` needs the two threads and an
association that goes on once the network is enabled. It names the two places
where `report()` may stay: with a supplicant that is not there (`Unanswered`) and
with a sniffer that waits for what its monitor missed in this round (`Unheard`).
Elsewhere it goes on to its exit, over the kill and the wait for its children
whichever of them died before. `TransferEnds` needs each process and thread to run and a server that is
down to be started again, which is the operator's part; no connection has to
stay up. `ScanReturns` needs the kernel to end a scan it began, by results or by
an abort.

## Proofs

All theorems are for every value of the constants: any sets of threads,
endpoints, hosts, calls, clients, interfaces or networks, any file and buffer,
and any bounds. They rest on the assumptions named in the modules
(`ThreadsAssumption`, `DepthAssumption`, `QueueAssumption`, `WaitAssumption`,
`EndPointAssumption`, `SocketsAssumption`, `DaemonAssumption`, `AppAssumption`,
`SystemAssumption`, `ReportAssumption`, `TransferAssumption`, `LinkAssumption`),
which give the types of the constants, that sets to be counted are finite, and
that a daemon starts with one service for a peer. Five properties are not true of
all constants; their theorems name what they need (`OneReader`, `IdsTellCalls`,
`OneHandshake`, `OneScanned`), it holds in the instances TLC checks, and the text
below says what happens without it. A sixth, `ConnectIsWanted`, needs
`AddressesDiffer`, which the instances of `WifiLink` break on purpose.

* **SharedMutexProofs.** `TypeInv` is `TypeOK` with `NestingOK`: a thread on its
  way into a share holds fewer than `MaxDepth`, and one on its way into `lock`
  holds none; without it a further share could leave its range. On it rest
  `SignalsCorrect` (`SignalsReachWaiters` is inductive relative to `TypeInv`:
  the sleepers of each kind are the queue of that kind and the signaled
  threads, disjointly, so taking the head of a queue signals a thread that
  sleeps) and `CountersCorrect` (each counter is the cardinality of a set, and
  each step that changes the counter by one moves one element of that set).
* **MutexedQueueProofs.** `IInv` is `TypeOK`, `LocksOK` (who is inside the
  critical part of an end owns that end, so there is one), `ListOK` (nodes are
  linked in the order of their numbers, `last` is the newest; `first` is the
  successor of the last node taken, or NULL; a producer about to replace `first`
  finds everything taken) and `CountBalanced`. `FifoCorrect` maps the abstract
  queue to the nodes linked and not taken and shows each step to be a put, a get
  or a stutter. The count belongs to the invariant because `enqueue` decides by
  `count` whether to replace `first`: that nothing is lost then follows from
  `CountBalanced`, which in turn needs the list. `PeekStays` (`PeekedStays`) adds
  that what was peeked is the next element to be taken, and needs `OneReader`, the
  one polling thread each queue of an endpoint has: a second reader could take
  the element between `peak` and `dequeue`.
* **SvcWaitProofs.** `EnoughAlarms` is made inductive by `Begun` (a thread
  that never called is outside and has no notificator) and `TimersPast` (every
  timer belongs to a wait that was armed already), so that `ArmTimer` adds a
  timer that was not there and the sleeper it adds is paid for.
* **SvcEndPointProofs.** `LifeInv` says who may still delete an endpoint.
  `SenderFirst`: a sending thread on its way there is the first to, for the main
  thread deletes only what has four ended threads. `SenderLast`: having joined
  the other three it is the last to run, and it takes the endpoint out of the
  table before it deletes it. `LeftAlone`: what the shutdown has still to stop is
  in the table and alive, and stays so, since a sending thread needs
  `endPointsMutex` to erase its endpoint and the main thread holds it. With
  `ThreadsEndFirst` and `DeletedOnce` this is inductive, and `LookupsLive`
  follows. `TypeCorrect` adds `Moved`: a thread between its enqueue and its
  dequeue finds the message it moved at the head, which needs `LifeInv`, since
  the destructor empties the queues. `DeletesMessagesOnce`
  (`MessagesDeletedOnce`) adds `MessageInv`, which says where each message is:
  once in a queue (`EachOnce`), what came from the peer never where the
  application's goes (`Apart`), in two queues only while its thread is between
  enqueue and dequeue, and then it is the head (`HeadIn`, `HeadOut`); a STEP3 has
  no copy before it is dequeued (`CopiesLast`), and a frame a reading loop holds
  is in no queue (`NewFrames`). The destructor runs after the two threads that
  move messages ended, so it finds the four queues disjoint. `FramesKeepOrder`
  (`FramesInOrder`) adds `FlowInv`, about each of the three ways through an
  endpoint (`Flows`): both queues are in order, and what was moved on is behind
  everything of the queue it came from, but for the head until that is dequeued.
  Only the dequeue makes the next move safe, so the exception has to name the
  thread that owes it. A loop holds a frame newer than all that went its way
  (`Newest`); it would not if both loops enqueued into one queue.
  `SenderAlive` and `LoopHoldsLive` do not hold; `UsedOnlyAfterGone`
  (`UsedAfterGone`) proves what remains of them: while an application is there,
  nobody uses its endpoint after the destructor, and the daemon does not die of
  such a use, or of a lookup that answers NULL, before some application ended.
  `UseInv` is why: only a failed send takes an endpoint out of the table and
  deletes it before the shutdown (`RemovedGone`), and the shutdown deletes
  nothing until it joined both reading loops (`LoopsFirst`).
* **SvcSystemProofs.** `TypeInv` is `Calls` (the entry of a call carries the ID,
  peer and challenge of its call, and a call has one entry), `Turns` (calls of
  `listenConnection` follow one another, and the first connected endpoint of an
  ID takes all its frames), `AppPlaces` and `DaemonPlaces` (which frames with how
  many parameters are in each socket, queue and request, and that an endpoint
  without a service sends nothing). `TypeCorrect` and `AcceptedAtMostOnce` follow
  from it, the latter without any assumption on challenges or IDs.
  `HandshakeInv` is about knowledge: every STEP2, wherever it is, repeats what
  some server answered, every STEP4 comes of a client that returned its
  endpoint, every STEP1 of a client that asked this host (`Answers`, `Leaving`,
  `Shortened`, `Arriving`); calls know accordingly (`Knowledge`), and the frames
  in each socket, datagram, request and queue are such frames. `Agreed`
  (`Agreement`) follows, and `ConnectsInOrder` (`Connects`) shows each step to be
  one of `SvcConnection`'s or a stutter, from the ways an entry's phase may
  change (`Moves`). Both need `IdsTellCalls`: calls that share an ID name one
  server. Without it they are false, as TLC finds: of two calls of one second on
  one host to two servers, the daemon sends the frames of both to the service of
  the first, whose application may then be connected to a call that asked for the
  other. Calls with one ID to one server, as in `svc_same_second`, are covered.
* **WifiReportProofs.** `ReportInv` joins `HandOver` (who holds `syncMutex`
  follows from where `report` and the sniffer are), `Phased` (each phase is
  written once, in its order; four frames are counted exactly when "Last EAP" is
  written), `Tested` (what was tested is what lies before the loop indices) and
  `Children` (`report` believes in at least the children there are to wait for).
  It gives `TypesCorrect`, `ListensFirst`, `ReportsComplete`, `EachTestedOnce` and
  `ExitsClean`. `LastEapIsRight` adds `Counted`: as long as nothing was sent
  again, the frames still to come are of later messages than were counted. It
  needs `OneHandshake`, that the script has each message of the handshake at most
  once and in order; a re-keying inside the association would be counted too.
  `GapsAreRight`: for two frames whose microseconds differ, what
  `report_to_file` writes reads as the whole milliseconds between them; both
  cases of the borrow are linear arithmetic. `EqualMicrosecondsMislead` is the
  case left out, where the code borrows a second it should not.
* **WifiLinkProofs.** `LinkInv` is the types of the messages, `Running` (an
  object is in the states of its operation, nothing reaches it before) and
  `GrantInv`: an authentication with status 0 that is unread, was accepted or led
  to an association was granted by an access point, on an interface, that `strcmp`
  does not tell from those it is for. `ConnectsAreGranted` (`ConnectIsGranted`)
  follows for any addresses, and `ConnectsAreWanted` (`ConnectIsWanted`) where no
  two agree up to a zero byte (`AddressesDiffer`): only then do frames of other
  access points and interfaces never stand for one's own. `ScanInv` says the same of scans: the end of a scan that
  is unread, read or returned is younger than the object's membership in the
  group. `ScansAreRecent` (`ScanIsRecent`) needs `OneScanned`, that one interface
  is scanned, by whomever: the callback does not compare the interface of an event
  and `MCWifiLinkShared.cfg` shows what comes of it. `ListInv` is about the list: what
  the kernel has still to say of a dump is not listed yet, a listed network has a
  name of its own and access points of that name, each once (`Tidy`).
  `full_network_scan_handler` takes the first network of the name or appends one,
  so a new access point leaves the list tidy; `ListsOnce` (`ListedOnce`) follows,
  wherever an event ends the reading. `TypesCorrect` (`TypeOK`) adds the types of
  the scans and lists.
* **FileTransferProofs.** `TransferInv` couples each client with its connection.
  `PairsOK`: by where the client is, what its queue holds, message by message,
  and, if the connection is open, where the server's thread is and what it still
  has to read; in the loop the chunks under way begin where the client's file
  ends, and end where the thread is. On a connection that broke only the first
  half is true, which is why the two are separate. `Owned`: a connection has one
  client, and an open one has its client's socket. `ClientsOK` and `ConnsOK` say
  what each knows by itself: the length, the offset, the bytes written.
  `TypesRight` (`TypeOK`, which the run leaves to the proof), `MessagesAreWhole`
  (`MessagesFit`) and `ThreadsInStep` (`InStep`) follow, and `TransferCopies` (`CopiesFile`) shows that a receive in the loop
  is a `Grow` of `FileCopy`, its end a `Complete` of a whole file, and that every
  other step, fault and reconnection stutters.

Only model-checked are the liveness properties `WaitReturns`,
`EstablishReturns`, `FramesLeave`, `ShutdownEnds`, `ReportEnds`, `TransferEnds`
and `ScanReturns`: the prover has no rule for fairness. Every invariant, action
property and refinement that a passing run checks is a theorem.

## Not modelled

* **Control servers** (`client/client.js`, `server/server.js`). A flag behind
  three routes, each handled in one turn of a single-threaded event loop, and a
  service to start that is still a placeholder: nothing interleaves and a model
  would restate the assignments. All other JavaScript is saved pages and
  installed packages.
* **Stubs**: `sendData`, `readData`, the PKI authenticator, the HTP kernel
  module, `encrypt` and `decrypt`.
* **Certificates, Diffie-Hellman and ciphers** of the earlier SVC: calculations
  of a library, of which the transfer uses that a message arrives as sent.
* **Requests with one reply** of nl80211 (`add_network_interface`,
  `dump_interface_list`, `get_interface_state`) and the destructors of
  `network.cpp`. `~WifiInterface` frees its socket a second time through the
  device it deletes, on every destruction.
* **Parsing and scraping** (`pcapwifi.c`, `wifi/iw-regex`, `geo.cpp`,
  `wpawrapper.cpp`): no state of their own.
* **Socket errors** while the daemon or the library starts, option parsing.

## Plan

Done: the lock, the queue, the wait, the handshake with its abstract
specification, the life of endpoints, the WiFi report, scans and connections,
the file transfer, and proofs of their safety properties and of the three
refinements. Next:

* **Compositions**: the queue over the lock as it is (lost updates of
  `count`); `processPacket`, `establishConnection` and the lock with SIGUSR1
  shared between lock and wait, including the nested share that deadlocks.

## Running it

    tlc -workers 4 -config MCSvcSystem.cfg MCSvcSystem.tla
    tlapm MutexedQueueProofs.tla

`svc_crossed` is the largest run, with 605,188 distinct states.
