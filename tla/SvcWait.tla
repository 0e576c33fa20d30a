------------------------------- MODULE SvcWait -------------------------------
(***************************************************************************)
(* How a call of the SVC library waits for a command: SignalNotificator    *)
(* and waitSignal of wifi/svc/svc/SVC-utils.cpp.                           *)
(*                                                                         *)
(* The caller registers a notificator, arms a timer and sits in sigwait    *)
(* for SIGUSR1 or SIGALRM.  The reading thread of the process              *)
(* (SVC::processPacket) looks up the notificator of a command, fills in    *)
(* the parameters, sends SIGUSR1 to the caller and removes the             *)
(* notificator.  SIGUSR1 goes to one thread and stays pending for it, two  *)
(* of them are one.  The timers' SIGALRM (SIGEV_SIGNAL) goes to the        *)
(* process: any thread in sigwait takes it, and each timer has its own.    *)
(* No timer is ever deleted.                                               *)
(*                                                                         *)
(* A call is establishConnection: at most two waits on a SignalNotificator *)
(* of its own, which the call deletes when it fails.                       *)
(***************************************************************************)
EXTENDS Naturals, FiniteSets

CONSTANTS
  Callers,    \* threads that call establishConnection again and again
  MaxCalls    \* bound: calls of each thread

ASSUME WaitAssumption == IsFiniteSet(Callers) /\ MaxCalls \in Nat

VARIABLES
  pc,         \* pc[c]: where c is in its call
  call,       \* call[c]: how many calls c has begun
  wait,       \* wait[c]: which wait of its call c is at, 1 or 2
  slots,      \* slots[c]: waits with an entry in c's notificationArray
  params,     \* params[c]: whether "params" of the call holds anything
  signaled,   \* callers with a pending SIGUSR1
  timers,     \* timers armed and not expired: caller, call, wait
  alarms,     \* how many SIGALRM are pending for the process
  reader,     \* the notificator the reading thread is busy with
  deleted,    \* the failed calls, whose SignalNotificator is deleted
  corrupted   \* the reading thread used memory that is gone

local == <<pc, call, wait>>
memory == <<deleted, corrupted>>
vars == <<local, slots, params, signaled, timers, alarms, reader, memory>>

Waits == {1, 2}
Idle == [at |-> "idle"]
Busy == [at : {"found", "filled", "signaled"}, caller : Callers, call : 1..MaxCalls, wait : Waits]

Init ==
  /\ pc = [c \in Callers |-> "out"]
  /\ call = [c \in Callers |-> 0]
  /\ wait = [c \in Callers |-> 1]
  /\ slots = [c \in Callers |-> {}]
  /\ params = [c \in Callers |-> FALSE]
  /\ signaled = {}
  /\ timers = {}
  /\ alarms = 0
  /\ reader = Idle
  /\ deleted = {}
  /\ corrupted = FALSE

Goto(c, from, to) ==
  /\ ~corrupted
  /\ pc[c] = from
  /\ pc' = [pc EXCEPT ![c] = to]
-----------------------------------------------------------------------------
(* The caller *)

(* A new call makes a new SignalNotificator. *)
Begin(c) ==
  /\ call[c] < MaxCalls
  /\ Goto(c, "out", "register")
  /\ call' = [call EXCEPT ![c] = @ + 1]
  /\ wait' = [wait EXCEPT ![c] = 1]
  /\ slots' = [slots EXCEPT ![c] = {}]
  /\ UNCHANGED <<params, signaled, timers, alarms, reader, memory>>

(* clearParams and addNotificator.  Its exception for a duplicate is never  *)
(* thrown: the two waits of a call are for different commands.              *)
AddNotificator(c) ==
  /\ Goto(c, "register", "arm")
  /\ slots' = [slots EXCEPT ![c] = @ \cup {wait[c]}]
  /\ params' = [params EXCEPT ![c] = FALSE]
  /\ UNCHANGED <<call, wait, signaled, timers, alarms, reader, memory>>

(* Mutant: one timer serves all threads. *)
ArmOneTimer(c) ==
  /\ Goto(c, "arm", "sleep")
  /\ timers' = IF timers = {} THEN {<<c, call[c], wait[c]>>} ELSE timers
  /\ UNCHANGED <<call, wait, slots, params, signaled, alarms, reader, memory>>

(* The timer of the call is created and set; sigwait comes right after. *)
ArmTimer(c) ==
  /\ Goto(c, "arm", "sleep")
  /\ timers' = timers \cup {<<c, call[c], wait[c]>>}
  /\ UNCHANGED <<call, wait, slots, params, signaled, alarms, reader, memory>>

(* sigwait returns SIGUSR1: the wait succeeded. *)
WakeBySignal(c) ==
  /\ c \in signaled
  /\ Goto(c, "sleep", "answered")
  /\ signaled' = signaled \ {c}
  /\ UNCHANGED <<call, wait, slots, params, timers, alarms, reader, memory>>

(* Mutant: the thread that timed out discards the other SIGALRMs. *)
WakeByLastAlarm(c) ==
  /\ alarms > 0 /\ c \notin signaled
  /\ Goto(c, "sleep", "failed")
  /\ alarms' = 0
  /\ UNCHANGED <<call, wait, slots, params, signaled, timers, reader, memory>>

(* Mutant: a thread gives up as soon as no answer is there. *)
WakeUnsignaled(c) ==
  /\ c \notin signaled
  /\ Goto(c, "sleep", "failed")
  /\ alarms' = alarms - 1
  /\ UNCHANGED <<call, wait, slots, params, signaled, timers, reader, memory>>

(* sigwait returns SIGALRM: the wait failed and the call will.  A signal of *)
(* the thread itself goes before one of the process.                        *)
WakeByAlarm(c) ==
  /\ alarms > 0 /\ c \notin signaled
  /\ Goto(c, "sleep", "failed")
  /\ alarms' = alarms - 1
  /\ UNCHANGED <<call, wait, slots, params, signaled, timers, reader, memory>>

(* The answer is good: on to the second wait, or return the endpoint.       *)
UseAnswer(c) ==
  /\ \/ /\ wait[c] = 1
        /\ Goto(c, "answered", "register")
        /\ wait' = [wait EXCEPT ![c] = 2]
     \/ /\ wait[c] = 2
        /\ Goto(c, "answered", "out")
        /\ UNCHANGED wait
  /\ UNCHANGED <<call, slots, params, signaled, timers, alarms, reader, memory>>

(* verifyIdentity refuses the first answer. *)
RefuseAnswer(c) ==
  /\ wait[c] = 1
  /\ Goto(c, "answered", "failed")
  /\ UNCHANGED <<call, wait, slots, params, signaled, timers, alarms, reader, memory>>

(* The call deletes its SignalNotificator and returns NULL. *)
Fail(c) ==
  /\ Goto(c, "failed", "out")
  /\ deleted' = deleted \cup {<<c, call[c]>>}
  /\ slots' = [slots EXCEPT ![c] = {}]
  /\ UNCHANGED <<call, wait, params, signaled, timers, alarms, reader, corrupted>>
-----------------------------------------------------------------------------
(* The timers *)

Expire(t) ==
  /\ ~corrupted
  /\ t \in timers
  /\ timers' = timers \ {t}
  /\ alarms' = alarms + 1
  /\ UNCHANGED <<local, slots, params, signaled, reader, memory>>
-----------------------------------------------------------------------------
(* The reading thread *)

(* A frame for the endpoint of c comes in and its command has a             *)
(* notificator; other frames change nothing here.                           *)
GetNotificator(c) ==
  /\ ~corrupted
  /\ reader = Idle
  /\ \E w \in slots[c] :
       reader' = [at |-> "found", caller |-> c, call |-> call[c], wait |-> w]
  /\ UNCHANGED <<local, slots, params, signaled, timers, alarms, memory>>

ReaderAt(place) == ~corrupted /\ reader.at = place

(* The parameters are on the stack of the call; the SignalNotificator lives *)
(* until a failed call deletes it.                                          *)
CallReturned == pc[reader.caller] = "out" \/ call[reader.caller] # reader.call
NotificatorDeleted == <<reader.caller, reader.call>> \in deleted

(* waitCommandHandler: extractParams, then pthread_kill. *)
FillParams ==
  /\ ReaderAt("found") /\ ~CallReturned
  /\ params' = [params EXCEPT ![reader.caller] = TRUE]
  /\ reader' = [reader EXCEPT !.at = "filled"]
  /\ UNCHANGED <<local, slots, signaled, timers, alarms, memory>>

SignalCaller ==
  /\ ReaderAt("filled")
  /\ signaled' = signaled \cup {reader.caller}
  /\ reader' = [reader EXCEPT !.at = "signaled"]
  /\ UNCHANGED <<local, slots, params, timers, alarms, memory>>

RemoveNotificator ==
  /\ ReaderAt("signaled") /\ ~NotificatorDeleted
  /\ slots' = IF call[reader.caller] # reader.call THEN slots
              ELSE [slots EXCEPT ![reader.caller] = @ \ {reader.wait}]
  /\ reader' = Idle
  /\ UNCHANGED <<local, params, signaled, timers, alarms, memory>>

(* Undefined behaviour; what the process does after it is not modelled.     *)
UseFreed ==
  /\ \/ ReaderAt("found") /\ CallReturned
     \/ ReaderAt("signaled") /\ NotificatorDeleted
  /\ corrupted' = TRUE
  /\ UNCHANGED <<local, slots, params, signaled, timers, alarms, reader, deleted>>
-----------------------------------------------------------------------------
WaitSignal(c) == ArmTimer(c) \/ WakeBySignal(c) \/ WakeByAlarm(c)

EstablishConnection(c) ==
  \/ Begin(c) \/ AddNotificator(c) \/ WaitSignal(c)
  \/ UseAnswer(c) \/ RefuseAnswer(c) \/ Fail(c)

ProcessPacket ==
  \/ \E c \in Callers : GetNotificator(c)
  \/ FillParams \/ SignalCaller \/ RemoveNotificator \/ UseFreed

Next ==
  \/ \E c \in Callers : EstablishConnection(c)
  \/ \E t \in timers : Expire(t)
  \/ ProcessPacket

Spec == Init /\ [][Next]_vars

(* An armed timer expires and a thread whose signal is pending runs; no     *)
(* frame has to come.                                                       *)
Fairness ==
  /\ \A c \in Callers : WF_vars(WaitSignal(c))
  /\ WF_vars(\E t \in timers : Expire(t))

FairSpec == Spec /\ Fairness
-----------------------------------------------------------------------------
(* Every variable has its type. *)
TypeOK ==
  /\ pc \in [Callers -> {"out", "register", "arm", "sleep", "answered", "failed"}]
  /\ call \in [Callers -> 0..MaxCalls]
  /\ wait \in [Callers -> Waits]
  /\ slots \in [Callers -> SUBSET Waits]
  /\ params \in [Callers -> BOOLEAN]
  /\ signaled \in SUBSET Callers
  /\ timers \in SUBSET (Callers \X (1..MaxCalls) \X Waits)
  /\ alarms \in Nat
  /\ reader \in Busy \cup {Idle}
  /\ deleted \in SUBSET (Callers \X (1..MaxCalls))
  /\ corrupted \in BOOLEAN

Sleeping == {c \in Callers : pc[c] = "sleep"}

(* There is a timer running or a SIGALRM pending for every thread in        *)
(* sigwait, although any of them takes the SIGALRM of any other's timer,    *)
(* so that nobody is left to wait for ever.                                 *)
EnoughAlarms == Cardinality(Sleeping) <= Cardinality(timers) + alarms

(* Every wait ends, whether or not an answer comes. *)
WaitReturns == \A c \in Callers : pc[c] = "sleep" ~> (pc[c] # "sleep" \/ corrupted)
-----------------------------------------------------------------------------
(* "else: time out" (SVC.cpp:267-269): a wait that fails has waited for its *)
(* own time.                                                                *)
TimeoutIsOwn ==
  [][\A c \in Callers : WakeByAlarm(c) => <<c, call[c], wait[c]>> \notin timers]_vars

(* "get identity, proof, challenge" (SVC.cpp:220), from params[0] to        *)
(* params[2]: a wait that succeeds has its parameters.                      *)
AnswerHasParams == \A c \in Callers : pc[c] = "answered" => params[c]

(* "use mutex to synchonize multiple threads which may use the list at a    *)
(* same time" (SVC-utils.cpp:65): the reading thread uses no list that a    *)
(* caller has deleted.                                                      *)
ListInUseStays == ~corrupted
==============================================================================
