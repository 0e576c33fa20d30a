---------------------------- MODULE SvcWaitProofs ----------------------------
(***************************************************************************)
(* What waitSignal guarantees for any number of threads and calls: there   *)
(* is a timer or a SIGALRM for each thread that waits, so that none waits  *)
(* for ever.                                                               *)
(***************************************************************************)
EXTENDS SvcWait, FiniteSetTheorems, TLAPS

(* Every timer of a thread was armed at a wait the thread has reached and,  *)
(* if it is about to arm one, already left: a timer that is armed is new.   *)
TimersPast ==
  \A t \in timers :
     \/ t[2] < call[t[1]]
     \/ /\ t[2] = call[t[1]]
        /\ \/ t[3] < wait[t[1]]
           \/ t[3] = wait[t[1]] /\ pc[t[1]] \notin {"register", "arm"}

(* A thread that never began a call has nothing of one. *)
Begun == \A c \in Callers : call[c] = 0 => pc[c] = "out" /\ slots[c] = {}

TInv == TypeOK /\ Begun
IInv == TInv /\ IsFiniteSet(timers) /\ TimersPast /\ EnoughAlarms
-----------------------------------------------------------------------------
(* The initial values have their types. *)
LEMMA InitTypeOK == Init => TInv
  <1> SUFFICES ASSUME Init PROVE TInv
    OBVIOUS
  <1>1. /\ pc \in [Callers -> {"out", "register", "arm", "sleep", "answered", "failed"}]
        /\ call \in [Callers -> 0..MaxCalls]
        /\ wait \in [Callers -> Waits]
        /\ slots \in [Callers -> SUBSET Waits]
        /\ params \in [Callers -> BOOLEAN]
    BY WaitAssumption DEF Init, Waits
  <1>2. /\ signaled = {} /\ timers = {} /\ alarms = 0 /\ reader = Idle
        /\ deleted = {} /\ corrupted = FALSE
    BY DEF Init
  <1>3. TypeOK
    BY <1>1, <1>2 DEF TypeOK
  <1>4. Begun
    BY DEF Init, Begun
  <1> QED BY <1>3, <1>4 DEF TInv

(* With Begun the type invariant is inductive. *)
LEMMA NextTypeOK == TInv /\ [Next]_vars => TInv'
  <1> SUFFICES ASSUME TInv, [Next]_vars PROVE TInv'
    OBVIOUS
  <1> USE WaitAssumption DEF TInv, TypeOK, Begun, Goto, Waits, local, memory
  <1>1. ASSUME NEW c \in Callers, Begin(c) PROVE TInv'
    BY <1>1 DEF Begin
  <1>2. ASSUME NEW c \in Callers, AddNotificator(c) PROVE TInv'
    BY <1>2 DEF AddNotificator
  <1>3. ASSUME NEW c \in Callers, ArmTimer(c) PROVE TInv'
    BY <1>3 DEF ArmTimer
  <1>4. ASSUME NEW c \in Callers, WakeBySignal(c) PROVE TInv'
    BY <1>4 DEF WakeBySignal
  <1>5. ASSUME NEW c \in Callers, WakeByAlarm(c) PROVE TInv'
    BY <1>5 DEF WakeByAlarm
  <1>6. ASSUME NEW c \in Callers, UseAnswer(c) PROVE TInv'
    BY <1>6 DEF UseAnswer
  <1>7. ASSUME NEW c \in Callers, RefuseAnswer(c) PROVE TInv'
    BY <1>7 DEF RefuseAnswer
  <1>8. ASSUME NEW c \in Callers, Fail(c) PROVE TInv'
    BY <1>8 DEF Fail
  <1>9. ASSUME NEW t \in timers, Expire(t) PROVE TInv'
    BY <1>9 DEF Expire
  <1>10. ASSUME NEW c \in Callers, GetNotificator(c) PROVE TInv'
    BY <1>10 DEF GetNotificator, Busy, Idle
  <1>11. ASSUME FillParams PROVE TInv'
    BY <1>11 DEF FillParams, ReaderAt, Busy, Idle
  <1>12. ASSUME SignalCaller PROVE TInv'
    BY <1>12 DEF SignalCaller, ReaderAt, Busy, Idle
  <1>13. ASSUME RemoveNotificator PROVE TInv'
    BY <1>13 DEF RemoveNotificator
  <1>14. ASSUME UseFreed PROVE TInv'
    BY <1>14 DEF UseFreed
  <1>15. CASE UNCHANGED vars
    BY <1>15 DEF vars
  <1> QED
    BY <1>1, <1>2, <1>3, <1>4, <1>5, <1>6, <1>7, <1>8, <1>9, <1>10, <1>11,
       <1>12, <1>13, <1>14, <1>15
    DEF Next, EstablishConnection, WaitSignal, ProcessPacket

(* Each variable keeps its type: the reading thread and the callers meet in *)
(* the lists, the signals and the timers, and none of them leaves its set.  *)
THEOREM TypeCorrect == Spec => []TypeOK
  <1>1. TInv => TypeOK
    BY DEF TInv
  <1> QED BY <1>1, InitTypeOK, NextTypeOK, PTL DEF Spec
-----------------------------------------------------------------------------
(* At first nobody sleeps. *)
LEMMA InitIInv == Init => IInv
  <1> SUFFICES ASSUME Init PROVE IInv
    OBVIOUS
  <1>1. TInv /\ TimersPast
    BY InitTypeOK DEF Init, TimersPast
  <1>2. IsFiniteSet(timers) /\ Sleeping = {} /\ timers = {} /\ alarms = 0
    BY FS_EmptySet DEF Init, Sleeping
  <1>3. EnoughAlarms
    BY <1>2, FS_EmptySet DEF EnoughAlarms
  <1> QED BY <1>1, <1>2, <1>3 DEF IInv

(* A step that arms no timer, takes no SIGALRM and puts nobody to sleep     *)
(* keeps the count.                                                         *)
LEMMA Undisturbed ==
  ASSUME IInv, TInv', timers' = timers, alarms' = alarms, Sleeping' \subseteq Sleeping
  PROVE  IsFiniteSet(timers') /\ EnoughAlarms'
  <1>1. IsFiniteSet(Sleeping) /\ IsFiniteSet(timers)
    BY WaitAssumption, FS_Subset DEF IInv, Sleeping
  <1>2. IsFiniteSet(Sleeping') /\ Cardinality(Sleeping') <= Cardinality(Sleeping)
    BY <1>1, FS_Subset
  <1>3. /\ Cardinality(Sleeping) \in Nat /\ Cardinality(Sleeping') \in Nat
        /\ Cardinality(timers) \in Nat /\ alarms \in Nat
    BY <1>1, <1>2, FS_CardinalityType DEF IInv, TInv, TypeOK
  <1> QED BY <1>1, <1>2, <1>3 DEF IInv, EnoughAlarms

(* The steps of a caller and of the reading thread that only Undisturbed is *)
(* needed for.                                                              *)
LEMMA OtherSteps ==
  ASSUME IInv, TInv',
         \/ \E c \in Callers :
              \/ Begin(c) \/ AddNotificator(c) \/ WakeBySignal(c)
              \/ UseAnswer(c) \/ RefuseAnswer(c) \/ Fail(c)
         \/ ProcessPacket
         \/ UNCHANGED vars
  PROVE  IInv'
  <1> USE DEF Goto, TInv, TypeOK, local, memory
  <1>1. timers' = timers /\ alarms' = alarms
    BY DEF Begin, AddNotificator, WakeBySignal, UseAnswer, RefuseAnswer, Fail,
           ProcessPacket, GetNotificator, FillParams, SignalCaller,
           RemoveNotificator, UseFreed, vars
  <1>2. \A c \in Callers : pc'[c] = "sleep" => pc[c] = "sleep"
    BY DEF IInv, Begin, AddNotificator, WakeBySignal, UseAnswer, RefuseAnswer, Fail,
           ProcessPacket, GetNotificator, FillParams, SignalCaller,
           RemoveNotificator, UseFreed, vars
  <1>3. Sleeping' \subseteq Sleeping
    BY <1>2 DEF Sleeping
  <1>4. IsFiniteSet(timers') /\ EnoughAlarms'
    BY <1>1, <1>3, Undisturbed
  <1>5. TimersPast'
    <2> SUFFICES ASSUME NEW t \in timers
                 PROVE  \/ t[2] < call'[t[1]]
                        \/ /\ t[2] = call'[t[1]]
                           /\ \/ t[3] < wait'[t[1]]
                              \/ t[3] = wait'[t[1]] /\ pc'[t[1]] \notin {"register", "arm"}
      BY <1>1 DEF TimersPast
    <2>1. /\ t[1] \in Callers /\ t[2] \in 1..MaxCalls /\ t[3] \in Waits
          /\ call[t[1]] \in Nat /\ wait[t[1]] \in Waits
      BY WaitAssumption DEF IInv
    <2>2. \/ t[2] < call[t[1]]
          \/ /\ t[2] = call[t[1]]
             /\ \/ t[3] < wait[t[1]]
                \/ t[3] = wait[t[1]] /\ pc[t[1]] \notin {"register", "arm"}
      BY DEF IInv, TimersPast
    <2>3. ASSUME NEW c \in Callers, Begin(c)
          PROVE  /\ call' = [call EXCEPT ![c] = @ + 1]
                 /\ t[1] # c => pc'[t[1]] = pc[t[1]] /\ wait'[t[1]] = wait[t[1]]
      BY <2>1, <2>3 DEF IInv, Begin
    <2>4. CASE \E c \in Callers : Begin(c)
      BY <2>1, <2>2, <2>3, <2>4 DEF IInv
    <2>5. CASE \E c \in Callers : AddNotificator(c)
      BY <2>1, <2>2, <2>5 DEF IInv, AddNotificator
    <2>6. CASE \E c \in Callers : WakeBySignal(c)
      BY <2>1, <2>2, <2>6 DEF IInv, WakeBySignal
    <2>7. CASE \E c \in Callers : UseAnswer(c)
      BY <2>1, <2>2, <2>7 DEF IInv, UseAnswer, Waits
    <2>8. CASE \E c \in Callers : RefuseAnswer(c) \/ Fail(c)
      BY <2>1, <2>2, <2>8 DEF IInv, RefuseAnswer, Fail
    <2>9. CASE ProcessPacket \/ UNCHANGED vars
      BY <2>1, <2>2, <2>9 DEF ProcessPacket, GetNotificator, FillParams,
         SignalCaller, RemoveNotificator, UseFreed, vars
    <2> QED BY <2>4, <2>5, <2>6, <2>7, <2>8, <2>9
  <1> QED BY <1>4, <1>5 DEF IInv

(* ArmTimer adds a sleeper and a timer that was not there. *)
LEMMA ArmStep == ASSUME IInv, TInv', NEW c \in Callers, ArmTimer(c) PROVE IInv'
  <1> DEFINE t == <<c, call[c], wait[c]>>
  <1>1. t \notin timers
    <2>1. call[c] \in Nat /\ wait[c] \in Nat /\ pc[c] = "arm"
      BY WaitAssumption DEF IInv, TInv, TypeOK, Waits, ArmTimer, Goto
    <2> QED BY <2>1 DEF IInv, TimersPast
  <1>2. /\ IsFiniteSet(timers)
        /\ IsFiniteSet(timers') /\ Cardinality(timers') = Cardinality(timers) + 1
    BY <1>1, FS_AddElement DEF IInv, ArmTimer
  <1>3. c \notin Sleeping /\ Sleeping' = Sleeping \cup {c}
    BY DEF IInv, TInv, TypeOK, Sleeping, ArmTimer, Goto
  <1>4. /\ IsFiniteSet(Sleeping)
        /\ IsFiniteSet(Sleeping') /\ Cardinality(Sleeping') = Cardinality(Sleeping) + 1
    <2>1. IsFiniteSet(Sleeping)
      BY WaitAssumption, FS_Subset DEF Sleeping
    <2> QED BY <1>3, <2>1, FS_AddElement
  <1>5. EnoughAlarms'
    BY <1>2, <1>4, FS_CardinalityType DEF IInv, TInv, EnoughAlarms, TypeOK, ArmTimer
  <1>6. TimersPast'
    <2> SUFFICES ASSUME NEW u \in timers'
                 PROVE  \/ u[2] < call[u[1]]
                        \/ /\ u[2] = call[u[1]]
                           /\ \/ u[3] < wait[u[1]]
                              \/ u[3] = wait[u[1]] /\ pc'[u[1]] \notin {"register", "arm"}
      BY DEF TimersPast, ArmTimer
    <2>1. CASE u = t
      BY <2>1 DEF IInv, TInv, TypeOK, ArmTimer, Goto
    <2>2. CASE u \in timers
      BY <2>2 DEF IInv, TInv, TypeOK, TimersPast, ArmTimer, Goto
    <2> QED BY <2>1, <2>2 DEF ArmTimer
  <1> QED BY <1>2, <1>5, <1>6 DEF IInv

(* A thread that takes a SIGALRM sleeps no more. *)
LEMMA AlarmStep == ASSUME IInv, TInv', NEW c \in Callers, WakeByAlarm(c) PROVE IInv'
  <1>1. c \in Sleeping /\ Sleeping' = Sleeping \ {c}
    BY DEF IInv, TInv, TypeOK, Sleeping, WakeByAlarm, Goto
  <1>2. /\ IsFiniteSet(Sleeping)
        /\ Cardinality(Sleeping') = Cardinality(Sleeping) - 1
    <2>1. IsFiniteSet(Sleeping)
      BY WaitAssumption, FS_Subset DEF Sleeping
    <2> QED BY <1>1, <2>1, FS_RemoveElement
  <1>3. timers' = timers /\ alarms' = alarms - 1 /\ alarms \in Nat
    BY DEF WakeByAlarm, IInv, TInv, TypeOK
  <1>4. EnoughAlarms'
    BY <1>2, <1>3, FS_CardinalityType DEF IInv, EnoughAlarms
  <1>5. TimersPast'
    BY DEF IInv, TInv, TypeOK, TimersPast, WakeByAlarm, Goto
  <1> QED BY <1>3, <1>4, <1>5 DEF IInv

(* A timer that expires becomes a SIGALRM. *)
LEMMA ExpireStep == ASSUME IInv, TInv', NEW t \in timers, Expire(t) PROVE IInv'
  <1>1. /\ IsFiniteSet(timers)
        /\ IsFiniteSet(timers') /\ Cardinality(timers') = Cardinality(timers) - 1
    BY FS_RemoveElement DEF IInv, Expire
  <1>2. Sleeping' = Sleeping /\ alarms' = alarms + 1 /\ alarms \in Nat
    BY DEF IInv, TInv, TypeOK, Sleeping, Expire, local
  <1>3. Cardinality(Sleeping) \in Nat
    BY WaitAssumption, FS_Subset, FS_CardinalityType DEF Sleeping
  <1>4. EnoughAlarms'
    BY <1>1, <1>2, <1>3, FS_CardinalityType DEF IInv, EnoughAlarms
  <1>5. TimersPast'
    BY DEF IInv, TimersPast, Expire, local
  <1> QED BY <1>1, <1>4, <1>5 DEF IInv

(* Every step keeps the inductive invariant. *)
LEMMA NextIInv == IInv /\ [Next]_vars => IInv'
  <1> SUFFICES ASSUME IInv, [Next]_vars PROVE IInv'
    OBVIOUS
  <1>1. TInv'
    BY NextTypeOK DEF IInv
  <1> QED
    BY <1>1, OtherSteps, ArmStep, AlarmStep, ExpireStep
    DEF Next, EstablishConnection, WaitSignal

(* For each thread in sigwait a timer is running or a SIGALRM is pending,   *)
(* whoever takes whose: the timers waitSignal never deletes are what keeps  *)
(* a thread whose SIGALRM another one took from waiting for ever.           *)
THEOREM AlarmsCorrect == Spec => []EnoughAlarms
  <1>1. IInv => EnoughAlarms
    BY DEF IInv
  <1> QED BY <1>1, InitIInv, NextIInv, PTL DEF Spec
==============================================================================
