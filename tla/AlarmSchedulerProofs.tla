------------------------ MODULE AlarmSchedulerProofs ------------------------
(***************************************************************************)
(* The safety properties of AlarmScheduler, for every set of alarms and    *)
(* definitions, every order on the severities, every delay and every       *)
(* bound, and that it implements AlarmNotifier.  Then what the scheduler   *)
(* does with its requests and its informs over time: the safety properties *)
(* of AlarmHistory, from the same inductive invariant.                     *)
(***************************************************************************)
EXTENDS AlarmHistory, TLAPS

(* An inductive invariant has to say of every timer what the properties    *)
(* say of those in the heap: a timer that a request took out of the heap   *)
(* comes back with the severity and the pop time it had.                   *)
TimerInv(a) ==
  \/ timer[a] = idle_timer /\ a \notin heap
  \/ /\ is_valid(a, timer[a].severity)
     /\ \/ timer[a].pop_time <= now + ALARM_REDUCED_DELAY
        \/ timer[a].pop_time <= now + ALARM_RETRY_DELAY
     /\ Exceeds(timer[a].severity, severity[a]) => timer[a].pop_time <= now
     /\ timer[a].severity = severity[a] => a \in heap

SentInv(a) == severity[a] = UNDEFINED_SEVERITY \/ is_valid(a, severity[a])

(* The destructor cannot set _terminated while the heap thread has the     *)
(* lock, so that the thread never goes back to sleep after it.             *)
LockInv == thread = "sending" => ~_terminated

IInv ==
  /\ TypeOK
  /\ \A a \in Alarms : TimerInv(a) /\ SentInv(a)
  /\ NoMissedWakeup
  /\ LockInv

-----------------------------------------------------------------------------
(* The types of the constants, and the order of the severities. *)
LEMMA ConstantsType ==
  /\ Rank \in [Severity -> Nat]
  /\ UINT64_MAX \in Nat
  /\ \A a \in Alarms, s \in Severity :
        is_valid(a, s) => s # UNDEFINED_SEVERITY
BY LevelsAssumption, RankAssumption, DelayAssumption
   DEF is_valid, UNDEFINED_SEVERITY, Severity

(* The initial state satisfies the invariant. *)
LEMMA InitIInv == Init => IInv
<1> SUFFICES ASSUME Init PROVE IInv
  OBVIOUS
<1>1. TypeOK
  <2>1. informs \in [Inform -> Nat]
    BY DEF Init, TrapSenderInit
  <2>2. active_rows \in [Alarms -> Severity]
    BY DEF Init, ActiveAlarmsInit, Severity, UNDEFINED_SEVERITY
  <2>3. severity \in [Alarms -> Severity] /\ timer \in [Alarms -> Timer]
    BY DelayAssumption
       DEF Init, Severity, UNDEFINED_SEVERITY, Timer, idle_timer
  <2>4. _terminated \in BOOLEAN
    BY DEF Init
  <2>5. /\ heap \in SUBSET Alarms
        /\ thread \in ThreadStates
        /\ time_now \in Nat
        /\ deadline \in Nat
        /\ now \in 0 .. MaxNow
    BY DelayAssumption DEF Init, ThreadStates
  <2> QED
    BY <2>1, <2>2, <2>3, <2>4, <2>5 DEF TypeOK
<1>2. \A a \in Alarms : TimerInv(a) /\ SentInv(a)
  BY DEF Init, TimerInv, SentInv
<1>3. NoMissedWakeup /\ LockInv
  BY DEF Init, NoMissedWakeup, LockInv
<1> QED
  BY <1>1, <1>2, <1>3 DEF IInv

(* What change_schedule makes of a timer, be it idle, scheduled or left    *)
(* over: it is for the new severity, near, and due if that is an increase. *)
LEMMA Rescheduled ==
  ASSUME IInv, NEW a \in Alarms, NEW s \in Severity, is_valid(a, s),
         NEW delay \in {0, ALARM_REDUCED_DELAY, ALARM_RETRY_DELAY},
         Exceeds(s, severity[a]) => delay = 0
  PROVE  LET t == change_schedule(timer[a], s, delay) IN
         /\ t \in Timer
         /\ t.severity = s
         /\ \/ t.pop_time <= now + ALARM_REDUCED_DELAY
            \/ t.pop_time <= now + ALARM_RETRY_DELAY
         /\ Exceeds(s, severity[a]) => t.pop_time <= now
<1>1. /\ timer[a] \in Timer /\ now \in Nat
      /\ ALARM_REDUCED_DELAY \in Nat /\ ALARM_RETRY_DELAY \in Nat
  BY DelayAssumption DEF IInv, TypeOK
<1>2. CASE s # timer[a].severity
  BY <1>1, <1>2 DEF change_schedule, Timer
<1>3. CASE s = timer[a].severity
  <2>1. change_schedule(timer[a], s, delay) = timer[a]
    BY <1>3 DEF change_schedule
  <2>2. timer[a] # idle_timer
    BY <1>3, ConstantsType DEF idle_timer
  <2>3. TimerInv(a)
    BY DEF IInv
  <2> QED
    BY <1>1, <1>3, <2>1, <2>2, <2>3 DEF TimerInv
<1> QED
  BY <1>2, <1>3

(* A signal leaves the heap thread where it is, or takes it out of a wait. *)
LEMMA Signalled ==
  ASSUME IInv, signal
  PROVE  /\ thread' \in ThreadStates /\ thread' # "waiting"
         /\ thread' = "sending" => ~_terminated
BY DEF IInv, TypeOK, LockInv, signal, ThreadStates

(* A handler that reschedules alarm a and signals keeps the invariant. *)
LEMMA RescheduleStep ==
  ASSUME IInv, NEW a \in Alarms, NEW s \in Severity, is_valid(a, s),
         NEW delay \in {0, ALARM_REDUCED_DELAY, ALARM_RETRY_DELAY},
         Exceeds(s, severity[a]) => delay = 0,
         change_schedule_for_alarm(a, s, delay), signal,
         informs' \in [Inform -> Nat],
         UNCHANGED <<severity, active_rows, _terminated, time_now, deadline,
                     now>>
  PROVE  IInv'
<1> DEFINE t == change_schedule(timer[a], s, delay)
<1>1. /\ t \in Timer
      /\ t.severity = s
      /\ \/ t.pop_time <= now + ALARM_REDUCED_DELAY
         \/ t.pop_time <= now + ALARM_RETRY_DELAY
      /\ Exceeds(s, severity[a]) => t.pop_time <= now
  BY Rescheduled
<1>2. heap' = heap \cup {a} /\ timer' = [timer EXCEPT ![a] = t]
  BY DEF change_schedule_for_alarm
<1>3. /\ thread' \in ThreadStates /\ thread' # "waiting"
      /\ thread' = "sending" => ~_terminated
  BY Signalled
<1> HIDE DEF t
<1>4. TypeOK'
  <2>1. timer' \in [Alarms -> Timer]
    BY <1>1, <1>2 DEF IInv, TypeOK
  <2> QED
    BY <1>2, <1>3, <2>1 DEF IInv, TypeOK
<1>5. ASSUME NEW b \in Alarms PROVE TimerInv(b)'
  <2>1. TimerInv(b) /\ timer \in [Alarms -> Timer]
    BY DEF IInv, TypeOK
  <2>2. CASE b = a
    BY <1>1, <1>2, <2>1, <2>2 DEF TimerInv, is_valid, Exceeds
  <2>3. CASE b # a
    BY <1>2, <2>1, <2>3 DEF TimerInv, is_valid, Exceeds, idle_timer
  <2> QED
    BY <2>2, <2>3
<1>6. ASSUME NEW b \in Alarms PROVE SentInv(b)'
  BY DEF IInv, SentInv, is_valid
<1>7. NoMissedWakeup' /\ LockInv'
  BY <1>1, <1>3 DEF NoMissedWakeup, LockInv
<1> QED
  BY <1>4, <1>5, <1>6, <1>7 DEF IInv

(* Sleeping, waking up and the clock change nothing TimerInv speaks of,    *)
(* and later times only make timers more due.                              *)
LEMMA AlarmsUnchanged ==
  ASSUME IInv, UNCHANGED alarmVars, now' \in Nat, now <= now',
         NEW b \in Alarms
  PROVE  TimerInv(b)' /\ SentInv(b)'
<1>1. /\ TimerInv(b) /\ SentInv(b) /\ timer[b].pop_time \in Nat
      /\ now \in Nat
      /\ ALARM_REDUCED_DELAY \in Nat /\ ALARM_RETRY_DELAY \in Nat
  BY DelayAssumption DEF IInv, TypeOK, Timer
<1>2. timer' = timer /\ severity' = severity /\ heap' = heap
  BY DEF alarmVars
<1>3. TimerInv(b)'
  BY <1>1, <1>2 DEF TimerInv, is_valid, Exceeds, idle_timer
<1>4. SentInv(b)'
  BY <1>1, <1>2 DEF SentInv, is_valid
<1> QED
  BY <1>3, <1>4

(* Taking an outstanding inform off Net-SNMP's list keeps the counts natural. *)
LEMMA AnsweredType ==
  ASSUME IInv, NEW i \in Inform, Answered(i)
  PROVE  informs' \in [Inform -> Nat]
BY DEF IInv, TypeOK, Answered

(* issue_alarm: unchanged severity, increase and reduction. *)
LEMMA IssueStep ==
  ASSUME IInv, NEW a \in Alarms, NEW s \in Severity, Issue(a, s)
  PROVE  IInv'
<1>1. /\ is_valid(a, s)
      /\ UNCHANGED <<informs, severity, active_rows, _terminated, time_now,
                     deadline, now>>
  BY DEF Issue, issue_alarm
<1>2. informs' \in [Inform -> Nat]
  BY <1>1 DEF IInv, TypeOK
<1>3. CASE /\ s = severity[a]
           /\ remove_outdated_alarm_from_heap(a)
           /\ UNCHANGED timer
  <2>1. CASE severity[a] = timer[a].severity
    <3>1. UNCHANGED vars
      BY <1>1, <1>3, <2>1
         DEF remove_outdated_alarm_from_heap, vars, alarmVars, threadVars
    <3>2. TypeOK' /\ NoMissedWakeup' /\ LockInv'
      BY <3>1
         DEF IInv, TypeOK, NoMissedWakeup, LockInv, vars, alarmVars, threadVars
    <3>3. UNCHANGED alarmVars /\ now' \in Nat /\ now <= now'
      BY <3>1, DelayAssumption DEF IInv, TypeOK, vars
    <3> QED
      BY <3>2, <3>3, AlarmsUnchanged DEF IInv
  <2>2. CASE severity[a] # timer[a].severity
    <3>1. heap' = heap \ {a} /\ signal
      BY <1>3, <2>2 DEF remove_outdated_alarm_from_heap
    <3>2. /\ thread' \in ThreadStates /\ thread' # "waiting"
          /\ thread' = "sending" => ~_terminated
      BY <3>1, Signalled
    <3>3. TypeOK'
      BY <1>1, <1>3, <3>1, <3>2 DEF IInv, TypeOK
    <3>4. ASSUME NEW b \in Alarms PROVE TimerInv(b)' /\ SentInv(b)'
      <4>1. TimerInv(b) /\ SentInv(b)
        BY DEF IInv
      <4> QED
        BY <1>1, <1>3, <2>2, <3>1, <4>1
           DEF TimerInv, SentInv, is_valid, Exceeds, idle_timer
    <3>5. NoMissedWakeup' /\ LockInv'
      BY <1>1, <3>2 DEF NoMissedWakeup, LockInv
    <3> QED
      BY <3>3, <3>4, <3>5 DEF IInv
  <2> QED
    BY <2>1, <2>2
<1>4. CASE /\ Exceeds(s, severity[a])
           /\ change_schedule_for_alarm(a, s, ALARM_INCREASED_DELAY)
           /\ signal
  BY <1>1, <1>2, <1>4, RescheduleStep DEF ALARM_INCREASED_DELAY
<1>5. CASE /\ s # severity[a]
           /\ ~Exceeds(s, severity[a])
           /\ change_schedule_for_alarm(a, s, ALARM_REDUCED_DELAY)
           /\ signal
  BY <1>1, <1>2, <1>5, RescheduleStep
<1> QED
  BY <1>3, <1>4, <1>5 DEF Issue, issue_alarm

(* handle_failed_alarm: with a retry and without one. *)
LEMMA FailedStep ==
  ASSUME IInv, NEW i \in Inform, InformTimedOut(i)
  PROVE  IInv'
<1>1. /\ Answered(i)
      /\ UNCHANGED <<severity, active_rows, _terminated, time_now, deadline,
                     now>>
  BY DEF InformTimedOut, handle_failed_alarm
<1>2. informs' \in [Inform -> Nat]
  BY <1>1, AnsweredType
<1>3. i.index \in Alarms /\ i.severity \in Severity
      /\ is_valid(i.index, i.severity)
  BY DEF Inform
<1>4. CASE should_resend_alarm(i.index, i.severity)
  <2>1. /\ change_schedule_for_alarm(i.index, i.severity, ALARM_RETRY_DELAY)
        /\ signal
    BY <1>4 DEF InformTimedOut, handle_failed_alarm
  <2>2. ~Exceeds(i.severity, severity[i.index])
    BY <1>3, <1>4, ConstantsType DEF should_resend_alarm, Exceeds
  <2> QED
    BY <1>1, <1>2, <1>3, <2>1, <2>2, RescheduleStep
<1>5. CASE ~should_resend_alarm(i.index, i.severity)
  <2>1. UNCHANGED <<heap, timer, thread>>
    BY <1>5 DEF InformTimedOut, handle_failed_alarm
  <2>2. TypeOK' /\ NoMissedWakeup' /\ LockInv'
    BY <1>1, <1>2, <2>1 DEF IInv, TypeOK, NoMissedWakeup, LockInv
  <2>3. UNCHANGED alarmVars /\ now' \in Nat /\ now <= now'
    BY <1>1, <2>1, DelayAssumption DEF IInv, TypeOK, alarmVars
  <2> QED
    BY <2>2, <2>3, AlarmsUnchanged DEF IInv
<1> QED
  BY <1>4, <1>5

(* sync_alarms reschedules every alarm the NMS was told of. *)
LEMMA SyncStep ==
  ASSUME IInv, Sync
  PROVE  IInv'
<1> DEFINE t(a) == change_schedule(timer[a], severity[a], ALARM_RESYNC_DELAY)
<1>1. /\ heap' = heap \cup known_alarms
      /\ timer' = [a \in Alarms |-> IF a \in known_alarms THEN t(a)
                                                          ELSE timer[a]]
      /\ signal
      /\ UNCHANGED <<informs, severity, active_rows, _terminated, time_now,
                     deadline, now>>
  BY DEF Sync, sync_alarms
<1>2. ASSUME NEW a \in known_alarms
      PROVE  /\ a \in Alarms
             /\ is_valid(a, severity[a])
             /\ ~Exceeds(severity[a], severity[a])
             /\ t(a) \in Timer
             /\ t(a).severity = severity[a]
             /\ \/ t(a).pop_time <= now + ALARM_REDUCED_DELAY
                \/ t(a).pop_time <= now + ALARM_RETRY_DELAY
  <2>1. a \in Alarms /\ severity[a] # UNDEFINED_SEVERITY
    BY DEF known_alarms
  <2>2. severity[a] \in Severity /\ is_valid(a, severity[a])
    BY <2>1 DEF IInv, TypeOK, SentInv
  <2>3. ~Exceeds(severity[a], severity[a])
    BY <2>2, ConstantsType DEF Exceeds
  <2> QED
    BY <2>1, <2>2, <2>3, Rescheduled DEF ALARM_RESYNC_DELAY
<1>3. /\ thread' \in ThreadStates /\ thread' # "waiting"
      /\ thread' = "sending" => ~_terminated
  BY <1>1, Signalled
<1>4. known_alarms \subseteq Alarms
  BY DEF known_alarms
<1> HIDE DEF t
<1>5. TypeOK'
  <2>1. timer' \in [Alarms -> Timer]
    BY <1>1, <1>2 DEF IInv, TypeOK
  <2> QED
    BY <1>1, <1>3, <1>4, <2>1 DEF IInv, TypeOK
<1>6. ASSUME NEW b \in Alarms PROVE TimerInv(b)' /\ SentInv(b)'
  <2>1. TimerInv(b) /\ SentInv(b)
    BY DEF IInv
  <2>2. SentInv(b)'
    BY <1>1, <2>1 DEF SentInv, is_valid
  <2>3. CASE b \in known_alarms
    BY <1>1, <1>2, <2>2, <2>3 DEF TimerInv, is_valid, Exceeds
  <2>4. CASE b \notin known_alarms
    BY <1>1, <2>1, <2>2, <2>4 DEF TimerInv, is_valid, Exceeds, idle_timer
  <2> QED
    BY <2>3, <2>4
<1>7. NoMissedWakeup' /\ LockInv'
  BY <1>1, <1>3 DEF NoMissedWakeup, LockInv
<1> QED
  BY <1>5, <1>6, <1>7 DEF IInv

(* A turn of heap_sender's inner loop: the timer it sends becomes idle. *)
LEMMA SendStep ==
  ASSUME IInv, NEW a \in Alarms, SendDueAlarm(a)
  PROVE  IInv'
<1> DEFINE s == timer[a].severity
<1>1. /\ thread = "sending" /\ a \in heap
      /\ timer' = [timer EXCEPT ![a] = idle_timer]
      /\ heap' = heap \ {a}
      /\ UNCHANGED <<_terminated, thread, time_now, deadline, now>>
  BY DEF SendDueAlarm, NextTimers, threadVars
<1>2. s \in Severity /\ is_valid(a, s)
  BY <1>1 DEF IInv, TypeOK, Timer, TimerInv
<1>3. /\ send_trap(a, s)
      /\ severity' = [severity EXCEPT ![a] = s]
      /\ alarmActiveTable_trap_handler(a, s)
  BY <1>2 DEF SendDueAlarm, update_alarm_state
<1> HIDE DEF s
<1>4. TypeOK'
  <2>1. informs' \in [Inform -> Nat]
    BY <1>3 DEF IInv, TypeOK, send_trap
  <2>2. active_rows' \in [Alarms -> Severity]
    BY <1>2, <1>3
       DEF IInv, TypeOK, alarmActiveTable_trap_handler, Severity,
           UNDEFINED_SEVERITY
  <2>3. timer' \in [Alarms -> Timer] /\ severity' \in [Alarms -> Severity]
    BY <1>1, <1>2, <1>3, ConstantsType
       DEF IInv, TypeOK, idle_timer, Timer, Severity, UNDEFINED_SEVERITY
  <2> QED
    BY <1>1, <2>1, <2>2, <2>3 DEF IInv, TypeOK
<1>5. ASSUME NEW b \in Alarms PROVE TimerInv(b)' /\ SentInv(b)'
  <2>1. /\ TimerInv(b) /\ SentInv(b)
        /\ timer \in [Alarms -> Timer] /\ severity \in [Alarms -> Severity]
    BY DEF IInv, TypeOK
  <2>2. CASE b = a
    BY <1>1, <1>2, <1>3, <2>1, <2>2 DEF TimerInv, SentInv, is_valid, idle_timer
  <2>3. CASE b # a
    BY <1>1, <1>3, <2>1, <2>3
       DEF TimerInv, SentInv, is_valid, Exceeds, idle_timer
  <2> QED
    BY <2>2, <2>3
<1>6. NoMissedWakeup' /\ LockInv'
  BY <1>1 DEF NoMissedWakeup, IInv, LockInv
<1> QED
  BY <1>4, <1>5, <1>6 DEF IInv

(* A step of a thread or of the clock that leaves the alarms alone. *)
LEMMA QuietStep ==
  ASSUME IInv, UNCHANGED alarmVars, now' \in 0 .. MaxNow, now <= now',
         informs' \in [Inform -> Nat],
         _terminated' \in BOOLEAN, thread' \in ThreadStates,
         time_now' \in Nat, deadline' \in Nat, NoMissedWakeup', LockInv'
  PROVE  IInv'
<1>1. TypeOK'
  BY DEF IInv, TypeOK, alarmVars
<1>2. now' \in Nat
  BY DelayAssumption
<1> QED
  BY <1>1, <1>2, AlarmsUnchanged DEF IInv

(* A stuttering step. *)
LEMMA UnchangedStep ==
  ASSUME IInv, UNCHANGED vars
  PROVE  IInv'
<1>1. NoMissedWakeup' /\ LockInv'
  BY DEF IInv, NoMissedWakeup, LockInv, vars, alarmVars, threadVars
<1>2. now' \in 0 .. MaxNow /\ now <= now'
  BY DelayAssumption DEF IInv, TypeOK, vars
<1> QED
  BY <1>1, <1>2, QuietStep DEF IInv, TypeOK, vars, threadVars

(* The heap thread, the destructor and the clock. *)
LEMMA InternalStep ==
  ASSUME IInv, Internal
  PROVE  IInv'
<1> USE DEF alarmVars, threadVars
<1>0. /\ MaxNow \in Nat /\ UINT64_MAX \in Nat
      /\ now \in Nat /\ now <= now /\ TypeOK /\ NoMissedWakeup /\ LockInv
  BY DelayAssumption DEF IInv, TypeOK
<1>1. CASE UNCHANGED vars
  BY <1>1, UnchangedStep
<1>2. CASE HeapWake
  <2>1. /\ thread' \in {"done", "sending"} /\ time_now' \in Nat
        /\ thread' = "sending" => ~_terminated
    BY <1>0, <1>2 DEF HeapWake, TypeOK
  <2>2. NoMissedWakeup' /\ LockInv'
    BY <1>2, <2>1 DEF HeapWake, NoMissedWakeup, LockInv
  <2> QED
    BY <1>0, <1>2, <2>1, <2>2, QuietStep DEF HeapWake, TypeOK, ThreadStates
<1>3. CASE HeapWait
  <2>1. deadline' \in Nat /\ \A a \in heap : deadline' <= timer[a].pop_time
    BY <1>0, <1>3 DEF HeapWait, NextTimers, TypeOK, Timer
  <2>2. NoMissedWakeup' /\ LockInv'
    BY <1>0, <1>3, <2>1 DEF HeapWait, NoMissedWakeup, LockInv
  <2> QED
    BY <1>0, <1>3, <2>1, <2>2, QuietStep DEF HeapWait, TypeOK, ThreadStates
<1>4. CASE WaitTimeout \/ SpuriousWakeup
  <2>1. NoMissedWakeup' /\ LockInv'
    BY <1>4 DEF WaitTimeout, SpuriousWakeup, NoMissedWakeup, LockInv
  <2> QED
    BY <1>0, <1>4, <2>1, QuietStep
       DEF WaitTimeout, SpuriousWakeup, TypeOK, ThreadStates
<1>5. CASE Terminate
  <2>1. thread' \in ThreadStates \ {"sending", "waiting"}
    BY <1>0, <1>5 DEF Terminate, LockFree, signal, TypeOK, ThreadStates
  <2>2. NoMissedWakeup' /\ LockInv'
    BY <2>1 DEF NoMissedWakeup, LockInv
  <2>3. _terminated' \in BOOLEAN
    BY <1>5 DEF Terminate
  <2> QED
    BY <1>0, <1>5, <2>1, <2>2, <2>3, QuietStep DEF Terminate, TypeOK
<1>6. CASE JoinAndDestroy
  <2>1. TypeOK'
    <3>1. timer' \in [Alarms -> Timer]
      BY <1>0, <1>6
         DEF JoinAndDestroy, idle_timer, Timer, Severity, UNDEFINED_SEVERITY
    <3> QED
      BY <1>0, <1>6, <3>1 DEF JoinAndDestroy, TypeOK, ThreadStates
  <2>2. ASSUME NEW b \in Alarms PROVE TimerInv(b)' /\ SentInv(b)'
    BY <1>6 DEF JoinAndDestroy, TimerInv, SentInv, is_valid, idle_timer, IInv
  <2>3. NoMissedWakeup' /\ LockInv'
    BY <1>6 DEF JoinAndDestroy, NoMissedWakeup, LockInv
  <2> QED
    BY <2>1, <2>2, <2>3 DEF IInv
<1>7. CASE Tick
  <2>1. now' \in 0 .. MaxNow /\ now <= now'
    BY <1>0, <1>7 DEF Tick, TypeOK
  <2>2. NoMissedWakeup' /\ LockInv'
    BY <1>0, <1>7 DEF Tick, NoMissedWakeup, LockInv
  <2> QED
    BY <1>0, <1>7, <2>1, <2>2, QuietStep DEF Tick, TypeOK
<1> QED
  BY <1>1, <1>2, <1>3, <1>4, <1>5, <1>6, <1>7
     DEF Internal, issue_unknown_alarm, Destroyed

(* Every step keeps the invariant. *)
LEMMA StepIInv == IInv /\ [Next]_vars => IInv'
<1> SUFFICES ASSUME IInv, [Next]_vars PROVE IInv'
  OBVIOUS
<1>1. CASE \E a \in Alarms, s \in Severity : Issue(a, s)
  BY <1>1, IssueStep
<1>2. CASE Sync
  BY <1>2, SyncStep
<1>3. CASE \E a \in Alarms : SendDueAlarm(a)
  BY <1>3, SendStep
<1>4. CASE \E i \in Inform : InformTimedOut(i)
  BY <1>4, FailedStep
<1>5. CASE \E i \in Inform : InformReceived(i)
  <2>1. /\ informs' \in [Inform -> Nat]
        /\ UNCHANGED <<alarmVars, _terminated, threadVars, now>>
    BY <1>5, AnsweredType DEF InformReceived
  <2>2. NoMissedWakeup' /\ LockInv'
    BY <2>1 DEF IInv, NoMissedWakeup, LockInv, alarmVars, threadVars
  <2> QED
    BY <2>1, <2>2, QuietStep, DelayAssumption DEF IInv, TypeOK, threadVars
<1>6. CASE Internal
  BY <1>6, InternalStep
<1>7. CASE UNCHANGED vars
  BY <1>7, UnchangedStep
<1> QED
  BY <1>1, <1>2, <1>3, <1>4, <1>5, <1>6, <1>7 DEF Next

(* The inductive invariant holds throughout every behaviour. *)
LEMMA Invariance == Spec => []IInv
BY InitIInv, StepIInv, PTL DEF Spec

-----------------------------------------------------------------------------
(* Every state the scheduler reaches is well typed. *)
THEOREM TypeCorrect == Spec => []TypeOK
<1>1. IInv => TypeOK
  BY DEF IInv
<1> QED
  BY <1>1, Invariance, PTL

(* Nothing in the heap lacks a definition: heap_sender's is_valid() test   *)
(* never drops a scheduled alarm.                                          *)
THEOREM SendableThm == Spec => []ScheduledIsSendable
<1>1. IInv => ScheduledIsSendable
  BY DEF IInv, TypeOK, TimerInv, ScheduledIsSendable
<1> QED
  BY <1>1, Invariance, PTL

(* No scheduled alarm is further away than the longest delay. *)
THEOREM NearThm == Spec => []ScheduledIsNear
<1>1. IInv => ScheduledIsNear
  BY DEF IInv, TypeOK, TimerInv, ScheduledIsNear
<1> QED
  BY <1>1, Invariance, PTL

(* What remove_outdated_alarm_from_heap leaves in a timer is never the     *)
(* alarm's current severity.                                               *)
THEOREM LeftoverThm == Spec => []LeftoverIsNotCurrent
<1>1. IInv => LeftoverIsNotCurrent
  BY DEF IInv, TimerInv, LeftoverIsNotCurrent, idle_timer
<1> QED
  BY <1>1, Invariance, PTL

(* A scheduled increase of severity is due at once. *)
THEOREM IncreaseThm == Spec => []IncreaseIsDue
<1>1. IInv => IncreaseIsDue
  BY DEF IInv, TypeOK, TimerInv, IncreaseIsDue
<1> QED
  BY <1>1, Invariance, PTL

(* The heap thread never sleeps past a timer or past the shutdown. *)
THEOREM WakeupThm == Spec => []NoMissedWakeup
<1>1. IInv => NoMissedWakeup
  BY DEF IInv
<1> QED
  BY <1>1, Invariance, PTL

-----------------------------------------------------------------------------
(* Only a timeout both settles an inform and puts an alarm into the heap.  *)
LEMMA RetryStep ==
  ASSUME IInv, [Next]_vars, NEW a \in heap' \ heap, informs' # informs
  PROVE  timer'[a].pop_time = now + ALARM_RETRY_DELAY
<1>1. PICK i \in Inform : InformTimedOut(i)
  <2>1. ~UNCHANGED vars /\ ~Internal
    BY DEF vars, alarmVars, Internal, issue_unknown_alarm, HeapWake, HeapWait,
           WaitTimeout, SpuriousWakeup, Terminate, JoinAndDestroy, Destroyed,
           Tick
  <2>2. ~(\E b \in Alarms, s \in Severity : Issue(b, s)) /\ ~Sync
    BY DEF Issue, issue_alarm, Sync, sync_alarms
  <2>3. ~(\E b \in Alarms : SendDueAlarm(b))
    BY DEF SendDueAlarm
  <2>4. ~(\E j \in Inform : InformReceived(j))
    BY DEF InformReceived, alarmVars
  <2> QED
    BY <2>1, <2>2, <2>3, <2>4 DEF Next
<1>2. /\ i.index \in Alarms /\ i.severity \in Severity
      /\ i.severity # UNDEFINED_SEVERITY
  BY ConstantsType DEF Inform
<1>3. /\ should_resend_alarm(i.index, i.severity)
      /\ change_schedule_for_alarm(i.index, i.severity, ALARM_RETRY_DELAY)
  BY <1>1 DEF InformTimedOut, handle_failed_alarm
<1>4. a = i.index /\ i.severity = severity[a] /\ a \notin heap
  BY <1>3 DEF change_schedule_for_alarm, should_resend_alarm
<1>5. i.severity # timer[a].severity
  BY <1>2, <1>4 DEF IInv, TimerInv, idle_timer
<1> QED
  BY <1>2, <1>3, <1>4, <1>5
     DEF change_schedule_for_alarm, change_schedule, IInv, TypeOK

(* A retry waits for the full retry delay, whatever its timer was used for *)
(* before.                                                                 *)
THEOREM RetryThm == Spec => RetryWaits
<1>1. IInv /\ [Next]_vars =>
        [\A a \in heap' \ heap :
           informs' # informs =>
             timer'[a].pop_time = now + ALARM_RETRY_DELAY]_vars
  BY RetryStep
<1> QED
  BY <1>1, Invariance, PTL DEF Spec, RetryWaits

(* change_schedule leaves a timer alone that is for the severity already. *)
LEMMA RepeatStep ==
  ASSUME IInv, [Next]_vars, NEW a \in heap \cap heap',
         timer'[a].severity = timer[a].severity
  PROVE  timer'[a].pop_time <= timer[a].pop_time
<1>1. a \in Alarms /\ timer \in [Alarms -> Timer]
  BY DEF IInv, TypeOK
<1>2. ASSUME NEW b \in Alarms, NEW s, NEW delay,
             change_schedule_for_alarm(b, s, delay)
      PROVE  timer'[a] = timer[a]
  BY <1>1, <1>2 DEF change_schedule_for_alarm, change_schedule
<1>3. timer'[a] = timer[a]
  <2>1. CASE \E b \in Alarms, s \in Severity : Issue(b, s)
    BY <1>2, <2>1 DEF Issue, issue_alarm
  <2>2. CASE Sync
    BY <1>1, <2>2 DEF Sync, sync_alarms, change_schedule
  <2>3. CASE \E b \in Alarms : SendDueAlarm(b)
    BY <1>1, <2>3 DEF SendDueAlarm
  <2>4. CASE \E i \in Inform : InformTimedOut(i)
    BY <1>2, <2>4 DEF InformTimedOut, handle_failed_alarm, Inform
  <2>5. CASE Internal \/ UNCHANGED vars
    BY <2>5
       DEF vars, alarmVars, Internal, issue_unknown_alarm, HeapWake, HeapWait,
           WaitTimeout, SpuriousWakeup, Terminate, JoinAndDestroy, Destroyed,
           Tick
  <2>6. CASE \E i \in Inform : InformReceived(i)
    BY <2>6 DEF InformReceived, alarmVars
  <2> QED
    BY <2>1, <2>2, <2>3, <2>4, <2>5, <2>6 DEF Next
<1> QED
  BY <1>1, <1>3 DEF Timer

(* Repeated requests, resyncs and timeouts never put off what is scheduled. *)
THEOREM RepeatThm == Spec => RepeatNeverPostpones
<1>1. IInv /\ [Next]_vars =>
        [\A a \in heap \cap heap' :
           timer'[a].severity = timer[a].severity =>
             timer'[a].pop_time <= timer[a].pop_time]_vars
  BY RepeatStep
<1> QED
  BY <1>1, Invariance, PTL DEF Spec, RepeatNeverPostpones

(* A timer that sync_alarms leaves as it is was for the current severity,  *)
(* and such a timer is in the heap.                                        *)
LEMMA ResyncStep ==
  ASSUME IInv, Sync, NEW a \in known_alarms
  PROVE  /\ a \in heap' /\ timer'[a].severity = severity[a]
         /\ timer'[a].pop_time <= now \/ (a \in heap /\ timer'[a] = timer[a])
<1>1. a \in Alarms /\ severity[a] # UNDEFINED_SEVERITY /\ now \in Nat
  BY DelayAssumption DEF known_alarms, IInv, TypeOK
<1>2. a \in heap' /\ timer'[a] = change_schedule(timer[a], severity[a], 0)
  BY <1>1 DEF Sync, sync_alarms, ALARM_RESYNC_DELAY
<1>3. CASE timer[a].severity = severity[a]
  BY <1>1, <1>2, <1>3 DEF change_schedule, IInv, TimerInv, idle_timer
<1>4. CASE timer[a].severity # severity[a]
  BY <1>1, <1>2, <1>4 DEF change_schedule
<1> QED
  BY <1>3, <1>4

(* A resync leaves every alarm the NMS was told of scheduled at its        *)
(* current severity; one that is not due then was waiting for a retry and  *)
(* keeps its place, and no pop time of a waiting or cancelled change is    *)
(* taken over.                                                             *)
THEOREM ResyncThm == Spec => OnlyRetriesDelayResyncs
<1>1. IInv /\ [Next]_vars =>
        [Sync =>
           \A a \in known_alarms :
             /\ a \in heap' /\ timer'[a].severity = severity[a]
             /\ timer'[a].pop_time <= now \/ (a \in heap /\ timer'[a] = timer[a])]_vars
  BY ResyncStep
<1> QED
  BY <1>1, Invariance, PTL DEF Spec, OnlyRetriesDelayResyncs

-----------------------------------------------------------------------------
(* AlarmScheduler implements AlarmNotifier: initial states are initial     *)
(* states, and every step is a step of the notifier or changes nothing it  *)
(* sees.                                                                   *)

(* The pending map of the refinement. *)
PendingMap == [a \in Alarms |-> Pending(a)]

(* The severities are the same in both modules. *)
LEMMA SameUndefined == Notifier!UNDEFINED_SEVERITY = UNDEFINED_SEVERITY
BY DEF Notifier!UNDEFINED_SEVERITY, UNDEFINED_SEVERITY

(* The scheduler starts as the notifier does: nothing sent or scheduled. *)
LEMMA RefinesInit == Init => Notifier!NotifierInit
BY SameUndefined DEF Init, Notifier!NotifierInit, Pending

(* A step in which the notifier sees nothing. *)
LEMMA Invisible ==
  ASSUME UNCHANGED <<severity, timer, heap>>,
         (thread = "joined") = (thread' = "joined")
  PROVE  UNCHANGED Notifier!notifierVars
BY DEF Notifier!notifierVars, Pending

(* Rescheduling alarm a makes the new severity its pending one. *)
LEMMA PendingRescheduled ==
  ASSUME IInv, NEW a \in Alarms, NEW s \in Severity, NEW delay,
         change_schedule_for_alarm(a, s, delay)
  PROVE  PendingMap' = [PendingMap EXCEPT ![a] = s]
<1>1. /\ heap' = heap \cup {a}
      /\ timer' = [timer EXCEPT ![a] = change_schedule(timer[a], s, delay)]
      /\ timer \in [Alarms -> Timer]
  BY DEF change_schedule_for_alarm, IInv, TypeOK
<1>2. change_schedule(timer[a], s, delay).severity = s
  BY DEF change_schedule
<1>3. ASSUME NEW b \in Alarms
      PROVE  PendingMap'[b] = [PendingMap EXCEPT ![a] = s][b]
  BY <1>1, <1>2 DEF PendingMap, Pending
<1> QED
  BY <1>3 DEF PendingMap

(* issue_alarm requests a change or cancels one, or changes nothing. *)
LEMMA RefinesIssue ==
  ASSUME IInv, NEW a \in Alarms, NEW s \in Severity, Issue(a, s)
  PROVE  [Notifier!NotifierNext]_(Notifier!notifierVars)
<1>1. /\ thread # "joined" /\ thread' # "joined"
      /\ s \in levels[a] /\ s # UNDEFINED_SEVERITY
      /\ severity' = severity
  BY ConstantsType
     DEF Issue, issue_alarm, LockFree, is_valid, signal,
         remove_outdated_alarm_from_heap
<1>2. ASSUME NEW delay, change_schedule_for_alarm(a, s, delay),
             s # severity[a]
      PROVE  Notifier!NotifierNext
  <2>1. PendingMap' = [PendingMap EXCEPT ![a] = s]
    BY <1>2, PendingRescheduled
  <2>2. Notifier!Request(a, s)
    BY <1>2, <2>1 DEF Notifier!Request, PendingMap
  <2> QED
    BY <1>1, <2>2 DEF Notifier!NotifierNext
<1>3. CASE /\ s = severity[a]
           /\ remove_outdated_alarm_from_heap(a)
           /\ UNCHANGED timer
  <2>1. CASE a \in heap /\ severity[a] # timer[a].severity
    <3>1. heap' = heap \ {a}
      BY <1>3, <2>1 DEF remove_outdated_alarm_from_heap
    <3>2. PendingMap' = [PendingMap EXCEPT ![a] = UNDEFINED_SEVERITY]
      BY <1>3, <3>1 DEF PendingMap, Pending
    <3>3. Notifier!Cancel(a)
      BY <1>1, <1>3, <2>1, <3>2, SameUndefined
         DEF Notifier!Cancel, PendingMap, Pending
    <3> QED
      BY <1>1, <3>3 DEF Notifier!NotifierNext
  <2>2. CASE ~(a \in heap /\ severity[a] # timer[a].severity)
    <3>1. heap' = heap
      BY <1>3, <2>2 DEF remove_outdated_alarm_from_heap
    <3> QED
      BY <1>1, <1>3, <3>1, Invisible
  <2> QED
    BY <2>1, <2>2
<1>4. Exceeds(s, severity[a]) => s # severity[a]
  BY ConstantsType DEF Exceeds
<1> QED
  BY <1>2, <1>3, <1>4 DEF Issue, issue_alarm

(* sync_alarms reminds the NMS of all it was told. *)
LEMMA RefinesSync ==
  ASSUME IInv, Sync
  PROVE  Notifier!NotifierNext
<1>1. /\ thread # "joined" /\ thread' # "joined" /\ severity' = severity
      /\ known_alarms \in SUBSET Alarms
      /\ \A a \in known_alarms : severity[a] # UNDEFINED_SEVERITY
  BY DEF Sync, sync_alarms, LockFree, signal, known_alarms
<1>2. ASSUME NEW b \in Alarms
      PROVE  Pending(b)' = IF b \in known_alarms THEN severity[b]
                                                 ELSE Pending(b)
  BY DEF Sync, sync_alarms, Pending, change_schedule
<1>3. Notifier!Remind(known_alarms)
  BY <1>1, <1>2, SameUndefined DEF Notifier!Remind
<1> QED
  BY <1>1, <1>3 DEF Notifier!NotifierNext

(* handle_failed_alarm reminds the NMS of one alarm, or changes nothing. *)
LEMMA RefinesFailed ==
  ASSUME IInv, NEW i \in Inform, InformTimedOut(i)
  PROVE  [Notifier!NotifierNext]_(Notifier!notifierVars)
<1>1. /\ i.index \in Alarms /\ i.severity \in Severity
      /\ i.severity # UNDEFINED_SEVERITY
  BY ConstantsType DEF Inform
<1>2. /\ severity' = severity /\ thread # "joined" /\ thread' # "joined"
  BY DEF InformTimedOut, handle_failed_alarm, LockFree, signal
<1>3. CASE should_resend_alarm(i.index, i.severity)
  <2>1. PendingMap' = [PendingMap EXCEPT ![i.index] = i.severity]
    BY <1>1, <1>3, PendingRescheduled DEF InformTimedOut, handle_failed_alarm
  <2>2. i.severity = severity[i.index]
    BY <1>3 DEF should_resend_alarm
  <2>3. Notifier!Remind({i.index})
    BY <1>1, <2>1, <2>2, SameUndefined DEF Notifier!Remind, PendingMap
  <2> QED
    BY <1>1, <1>2, <2>3 DEF Notifier!NotifierNext
<1>4. CASE ~should_resend_alarm(i.index, i.severity)
  BY <1>2, <1>4, Invisible DEF InformTimedOut, handle_failed_alarm
<1> QED
  BY <1>3, <1>4

(* A turn of heap_sender's inner loop notifies the NMS of what is pending. *)
LEMMA RefinesSend ==
  ASSUME IInv, NEW a \in Alarms, SendDueAlarm(a)
  PROVE  Notifier!NotifierNext
<1>1. /\ thread = "sending" /\ thread' = thread /\ a \in heap
      /\ heap' = heap \ {a}
      /\ timer' = [timer EXCEPT ![a] = idle_timer]
      /\ timer \in [Alarms -> Timer]
  BY DEF SendDueAlarm, NextTimers, threadVars, IInv, TypeOK
<1>2. timer[a].severity \in Severity /\ is_valid(a, timer[a].severity)
  BY <1>1 DEF IInv, TimerInv, Timer
<1>3. /\ severity' = [severity EXCEPT ![a] = timer[a].severity]
      /\ timer[a].severity # UNDEFINED_SEVERITY
  BY <1>2, ConstantsType DEF SendDueAlarm, update_alarm_state
<1>4. PendingMap' = [PendingMap EXCEPT ![a] = UNDEFINED_SEVERITY]
  BY <1>1 DEF PendingMap, Pending
<1>5. Notifier!Notify(a)
  BY <1>1, <1>3, <1>4, SameUndefined
     DEF Notifier!Notify, PendingMap, Pending
<1> QED
  BY <1>1, <1>5 DEF Notifier!NotifierNext

(* Of the other steps only the destructor shows: it stops the notifier. *)
LEMMA RefinesInternal ==
  ASSUME IInv, Internal
  PROVE  [Notifier!NotifierNext]_(Notifier!notifierVars)
<1>1. CASE JoinAndDestroy
  BY <1>1, SameUndefined
     DEF JoinAndDestroy, Notifier!NotifierNext, Notifier!Stop, Pending
<1>2. CASE ~JoinAndDestroy
  BY <1>2, Invisible
     DEF Internal, issue_unknown_alarm, HeapWake, HeapWait, WaitTimeout,
         SpuriousWakeup, Terminate, LockFree, signal, Destroyed, Tick, vars,
         alarmVars, threadVars
<1> QED
  BY <1>1, <1>2

(* Every step of the scheduler is one of the notifier or a stutter. *)
LEMMA RefinesNext ==
  ASSUME IInv, [Next]_vars
  PROVE  [Notifier!NotifierNext]_(Notifier!notifierVars)
<1>1. CASE \E i \in Inform : InformReceived(i)
  BY <1>1, Invisible DEF InformReceived, alarmVars, threadVars
<1>2. CASE UNCHANGED vars
  BY <1>2, Invisible DEF vars, alarmVars, threadVars
<1> QED
  BY <1>1, <1>2, RefinesIssue, RefinesSync, RefinesFailed, RefinesSend,
     RefinesInternal
     DEF Next

(* The scheduler implements the notifier for every set of alarms, order of *)
(* severities and delays.                                                  *)
THEOREM Refinement == Spec => ImplementsNotifier
BY RefinesInit, RefinesNext, Invariance, PTL
   DEF Spec, ImplementsNotifier, Notifier!NotifierSpec

-----------------------------------------------------------------------------
(* The histories only add variables to AlarmScheduler, so that its         *)
(* invariant holds with them too.                                          *)
LEMMA HistoryNextIsNext ==
  ASSUME [HistoryNext]_historyVars
  PROVE  [Next]_vars
BY DEF HistoryNext, historyVars, Next

(* What a step of the scheduler means for the history of requests. *)
LEMMA RequestStep ==
  ASSUME [HistoryNext]_historyVars
  PROVE  \/ \E a \in Alarms, s \in Severity :
              /\ Issue(a, s)
              /\ requested' = [requested EXCEPT ![a] = s]
              /\ overwritten' = overwritten \ {a}
         \/ /\ Sync
            /\ overwritten' = overwritten \cup
                                {a \in known_alarms : Outcome(a) # severity[a]}
            /\ UNCHANGED requested
         \/ /\ \/ \E a \in Alarms : SendDueAlarm(a)
               \/ \E i \in Inform : InformTimedOut(i)
               \/ \E i \in Inform : InformReceived(i)
               \/ Internal
               \/ UNCHANGED vars
            /\ UNCHANGED <<requested, overwritten>>
BY DEF HistoryNext, historyVars, requestHistory

(* What it means for the history of informs. *)
LEMMA InformStep ==
  ASSUME [HistoryNext]_historyVars
  PROVE  \/ \E a \in Alarms :
              /\ SendDueAlarm(a)
              /\ delivered' = [delivered EXCEPT ![a] = FALSE]
              /\ last_sent' = [last_sent EXCEPT ![a] = now]
         \/ \E i \in Inform :
              /\ InformReceived(i)
              /\ delivered' = [delivered EXCEPT
                                 ![i.index] = @ \/ i.severity = severity[i.index]]
              /\ UNCHANGED last_sent
         \/ /\ \/ \E a \in Alarms, s \in Severity : Issue(a, s)
               \/ Sync
               \/ \E i \in Inform : InformTimedOut(i)
               \/ Internal
               \/ UNCHANGED vars
            /\ UNCHANGED <<delivered, last_sent>>
BY DEF HistoryNext, historyVars, informHistory

-----------------------------------------------------------------------------
(* LastRequestWins is inductive once the timers are as IInv has them. *)
RequestsInv ==
  /\ IInv
  /\ requested \in [Alarms -> Severity]
  /\ LastRequestWins

(* Initially nothing was requested, sent or scheduled. *)
LEMMA InitRequestsInv == HistoryInit => RequestsInv
<1> SUFFICES ASSUME HistoryInit PROVE RequestsInv
  OBVIOUS
<1>1. IInv
  BY InitIInv DEF HistoryInit
<1>2. LastRequestWins
  BY DEF HistoryInit, Init, LastRequestWins, Outcome
<1>3. requested \in [Alarms -> Severity]
  BY DEF HistoryInit, UNDEFINED_SEVERITY, Severity
<1> QED
  BY <1>1, <1>2, <1>3 DEF RequestsInv

(* A request decides the outcome, whether it is scheduled, is the same as  *)
(* what is scheduled, or cancels it.                                       *)
LEMMA IssueOutcome ==
  ASSUME RequestsInv, NEW a \in Alarms, NEW s \in Severity, Issue(a, s),
         NEW b \in Alarms
  PROVE  Outcome(b)' = IF b = a THEN s ELSE Outcome(b)
<1>1. /\ timer \in [Alarms -> Timer] /\ heap \subseteq Alarms
      /\ severity' = severity
  BY DEF RequestsInv, IInv, TypeOK, Issue, issue_alarm
<1>2. CASE /\ s = severity[a]
           /\ remove_outdated_alarm_from_heap(a)
           /\ UNCHANGED timer
  BY <1>1, <1>2 DEF Outcome, remove_outdated_alarm_from_heap
<1>3. ASSUME NEW delay, change_schedule_for_alarm(a, s, delay)
      PROVE  Outcome(b)' = IF b = a THEN s ELSE Outcome(b)
  <2>1. change_schedule(timer[a], s, delay).severity = s
    BY DEF change_schedule
  <2>2. /\ heap' = heap \cup {a}
        /\ timer' = [timer EXCEPT ![a] = change_schedule(timer[a], s, delay)]
    BY <1>3 DEF change_schedule_for_alarm
  <2> QED
    BY <1>1, <2>1, <2>2 DEF Outcome
<1> QED
  BY <1>2, <1>3 DEF Issue, issue_alarm

(* A resync changes the outcome only of an alarm for which a change was    *)
(* waiting.                                                                *)
LEMMA SyncOutcome ==
  ASSUME Sync, NEW b \in Alarms,
         b \notin {a \in known_alarms : Outcome(a) # severity[a]}
  PROVE  Outcome(b)' = Outcome(b)
<1>1. severity' = severity /\ heap' = heap \cup known_alarms
  BY DEF Sync, sync_alarms
<1>2. CASE b \in known_alarms
  <2>1. timer'[b] = change_schedule(timer[b], severity[b], ALARM_RESYNC_DELAY)
    BY <1>2 DEF Sync, sync_alarms
  <2>2. timer'[b].severity = severity[b]
    BY <2>1 DEF change_schedule
  <2>3. Outcome(b) = severity[b]
    BY <1>2
  <2> QED
    BY <1>1, <1>2, <2>2, <2>3 DEF Outcome
<1>3. CASE b \notin known_alarms
  <2>1. timer'[b] = timer[b]
    BY <1>3 DEF Sync, sync_alarms
  <2> QED
    BY <1>1, <1>3, <2>1 DEF Outcome
<1> QED
  BY <1>2, <1>3

(* No other step changes the outcome, until the scheduler is destroyed. *)
LEMMA OutcomeKept ==
  ASSUME RequestsInv, thread' # "joined", NEW b \in Alarms,
         \/ \E a \in Alarms : SendDueAlarm(a)
         \/ \E i \in Inform : InformTimedOut(i)
         \/ \E i \in Inform : InformReceived(i)
         \/ Internal
         \/ UNCHANGED vars
  PROVE  Outcome(b)' = Outcome(b)
<1>1. /\ timer \in [Alarms -> Timer] /\ heap \subseteq Alarms
      /\ severity \in [Alarms -> Severity]
  BY DEF RequestsInv, IInv, TypeOK
<1>2. ASSUME NEW a \in Alarms, SendDueAlarm(a)
      PROVE  Outcome(b)' = Outcome(b)
  <2>1. a \in heap /\ is_valid(a, timer[a].severity)
    BY <1>2 DEF SendDueAlarm, NextTimers, RequestsInv, IInv, TypeOK, TimerInv
  <2>2. /\ severity' = [severity EXCEPT ![a] = timer[a].severity]
        /\ heap' = heap \ {a}
        /\ timer' = [timer EXCEPT ![a] = idle_timer]
    BY <1>2, <2>1 DEF SendDueAlarm, update_alarm_state
  <2> QED
    BY <1>1, <2>1, <2>2 DEF Outcome
<1>3. ASSUME NEW i \in Inform, InformTimedOut(i)
      PROVE  Outcome(b)' = Outcome(b)
  <2>1. severity' = severity
    BY <1>3 DEF InformTimedOut, handle_failed_alarm
  <2>2. CASE ~should_resend_alarm(i.index, i.severity)
    BY <1>3, <2>1, <2>2 DEF InformTimedOut, handle_failed_alarm, Outcome
  <2>3. CASE should_resend_alarm(i.index, i.severity)
    <3> DEFINE t == change_schedule(timer[i.index], i.severity,
                                    ALARM_RETRY_DELAY)
    <3>1. i.severity = severity[i.index] /\ i.index \notin heap
      BY <2>3 DEF should_resend_alarm
    <3>2. t.severity = i.severity
      BY DEF change_schedule
    <3>3. heap' = heap \cup {i.index} /\ timer' = [timer EXCEPT ![i.index] = t]
      BY <1>3, <2>3 DEF InformTimedOut, handle_failed_alarm,
                        change_schedule_for_alarm
    <3> HIDE DEF t
    <3> QED
      BY <1>1, <2>1, <3>1, <3>2, <3>3 DEF Outcome
  <2> QED
    BY <2>2, <2>3
<1>4. CASE UNCHANGED alarmVars
  BY <1>4 DEF alarmVars, Outcome
<1>5. (\E i \in Inform : InformReceived(i)) => UNCHANGED alarmVars
  BY DEF InformReceived
<1>6. Internal \/ UNCHANGED vars => UNCHANGED alarmVars
  BY DEF vars, Internal, issue_unknown_alarm, HeapWake, HeapWait, WaitTimeout,
         SpuriousWakeup, Terminate, JoinAndDestroy, Destroyed, Tick
<1> QED
  BY <1>2, <1>3, <1>4, <1>5, <1>6

(* A scheduler that is destroyed stays so and takes no requests. *)
LEMMA JoinedStays ==
  ASSUME [Next]_vars, thread = "joined"
  PROVE  thread' = "joined"
BY DEF Next, vars, threadVars, Issue, issue_alarm, Sync, sync_alarms,
       SendDueAlarm, InformTimedOut, handle_failed_alarm, InformReceived,
       LockFree, Internal, issue_unknown_alarm, HeapWake, HeapWait,
       WaitTimeout, SpuriousWakeup, Terminate, JoinAndDestroy, Destroyed, Tick

(* Every step keeps the invariant. *)
LEMMA StepRequestsInv ==
  RequestsInv /\ [HistoryNext]_historyVars => RequestsInv'
<1> SUFFICES ASSUME RequestsInv, [HistoryNext]_historyVars
             PROVE  RequestsInv'
  OBVIOUS
<1>1. [Next]_vars
  BY HistoryNextIsNext
<1>2. IInv'
  BY <1>1, StepIInv DEF RequestsInv
<1>3. ASSUME NEW a \in Alarms, NEW s \in Severity, Issue(a, s),
             requested' = [requested EXCEPT ![a] = s],
             overwritten' = overwritten \ {a}
      PROVE  RequestsInv'
  <2>1. thread # "joined"
    BY <1>3 DEF Issue, issue_alarm, LockFree
  <2>2. ASSUME NEW b \in Alarms \ overwritten'
        PROVE  Outcome(b)' = requested'[b]
    <3>1. Outcome(b)' = IF b = a THEN s ELSE Outcome(b)
      BY <1>3, IssueOutcome
    <3>2. b = a \/ b \in Alarms \ overwritten
      BY <1>3
    <3> QED
      BY <1>3, <2>1, <3>1, <3>2 DEF RequestsInv, LastRequestWins
  <2> QED
    BY <1>2, <1>3, <2>2 DEF RequestsInv, LastRequestWins
<1>4. CASE /\ \/ \E a \in Alarms : SendDueAlarm(a)
              \/ \E i \in Inform : InformTimedOut(i)
              \/ \E i \in Inform : InformReceived(i)
              \/ Internal
              \/ UNCHANGED vars
           /\ UNCHANGED <<requested, overwritten>>
  <2>1. ASSUME thread' # "joined", NEW b \in Alarms \ overwritten
        PROVE  Outcome(b)' = requested'[b]
    <3>1. Outcome(b)' = Outcome(b)
      BY <1>4, <2>1, OutcomeKept
    <3>2. thread # "joined"
      BY <1>1, <2>1, JoinedStays
    <3> QED
      BY <1>4, <3>1, <3>2 DEF RequestsInv, LastRequestWins
  <2> QED
    BY <1>2, <1>4, <2>1 DEF RequestsInv, LastRequestWins
<1>5. CASE /\ Sync
           /\ overwritten' = overwritten \cup
                               {a \in known_alarms : Outcome(a) # severity[a]}
           /\ UNCHANGED requested
  <2>1. thread # "joined"
    BY <1>5 DEF Sync, sync_alarms, LockFree
  <2>2. ASSUME NEW b \in Alarms \ overwritten'
        PROVE  Outcome(b)' = requested'[b]
    <3>1. Outcome(b)' = Outcome(b)
      BY <1>5, SyncOutcome
    <3> QED
      BY <1>5, <2>1, <3>1 DEF RequestsInv, LastRequestWins
  <2> QED
    BY <1>2, <1>5, <2>2 DEF RequestsInv, LastRequestWins
<1> QED
  BY <1>3, <1>4, <1>5, RequestStep

(* The last request for an alarm decides what it was or will be sent as,   *)
(* unless a resync found a change of the alarm waiting: no retry,          *)
(* cancelled change or timer left over from one brings back an older       *)
(* request.                                                                *)
THEOREM LastRequestThm == HistorySpec => []LastRequestWins
<1>1. RequestsInv => LastRequestWins
  BY DEF RequestsInv
<1> QED
  BY <1>1, InitRequestsInv, StepRequestsInv, PTL DEF HistorySpec

-----------------------------------------------------------------------------
(* Whoever is to be told: main() falls back on RFC 3877 notifications when *)
(* none are configured; without a sink there is nothing to lose.           *)
Sinks == snmp_notifications # {} /\ trap_ips # {}

(* What is scheduled to reduce an alarm's severity, or is left over from   *)
(* that, was scheduled after the alarm was last sent.                      *)
SpacedInv(a) ==
  timer[a] # idle_timer /\ Exceeds(severity[a], timer[a].severity) =>
    timer[a].pop_time >= last_sent[a] + ALARM_REDUCED_DELAY

(* ReductionsAreSpaced follows from this for the alarm that is sent next. *)
DeliveryInv ==
  /\ IInv
  /\ delivered \in [Alarms -> BOOLEAN]
  /\ last_sent \in [Alarms -> Nat]
  /\ time_now <= now
  /\ \A a \in Alarms : last_sent[a] <= now /\ SpacedInv(a)

(* Initially nothing was sent and no timer is in use. *)
LEMMA InitDeliveryInv == HistoryInit => DeliveryInv
<1> SUFFICES ASSUME HistoryInit PROVE DeliveryInv
  OBVIOUS
<1>1. IInv
  BY InitIInv DEF HistoryInit
<1>2. \A a \in Alarms : SpacedInv(a)
  BY DEF HistoryInit, Init, SpacedInv
<1>3. delivered \in [Alarms -> BOOLEAN]
  BY DEF HistoryInit
<1>4. /\ last_sent \in [Alarms -> Nat] /\ time_now <= now
      /\ \A a \in Alarms : last_sent[a] <= now
  BY DEF HistoryInit, Init
<1> QED
  BY <1>1, <1>2, <1>3, <1>4 DEF DeliveryInv

(* change_schedule gives a reduced severity a pop time that is a full      *)
(* delay away, or leaves it the one it has.                                *)
LEMMA RescheduleSpaced ==
  ASSUME DeliveryInv, NEW a \in Alarms, NEW s \in Severity, NEW delay \in Nat,
         Exceeds(severity[a], s) => delay = ALARM_REDUCED_DELAY,
         s # UNDEFINED_SEVERITY,
         Exceeds(severity[a], change_schedule(timer[a], s, delay).severity)
  PROVE  change_schedule(timer[a], s, delay).pop_time
           >= last_sent[a] + ALARM_REDUCED_DELAY
<1>1. /\ timer[a] \in Timer /\ now \in Nat /\ ALARM_REDUCED_DELAY \in Nat
      /\ last_sent[a] \in Nat /\ last_sent[a] <= now /\ SpacedInv(a)
  BY DelayAssumption DEF DeliveryInv, IInv, TypeOK
<1>2. CASE s # timer[a].severity
  BY <1>1, <1>2 DEF change_schedule
<1>3. CASE s = timer[a].severity
  BY <1>1, <1>3 DEF change_schedule, SpacedInv, idle_timer
<1> QED
  BY <1>2, <1>3

(* The handlers keep the spacing, and so do the thread and the clock. *)
LEMMA SpacedKept ==
  ASSUME DeliveryInv, UNCHANGED last_sent, NEW b \in Alarms,
         \/ \E a \in Alarms, s \in Severity : Issue(a, s)
         \/ Sync
         \/ \E i \in Inform : InformTimedOut(i)
         \/ \E i \in Inform : InformReceived(i)
         \/ Internal
         \/ UNCHANGED vars
  PROVE  SpacedInv(b)'
<1>1. /\ timer \in [Alarms -> Timer] /\ severity \in [Alarms -> Severity]
      /\ SpacedInv(b)
      /\ ALARM_REDUCED_DELAY \in Nat /\ ALARM_RETRY_DELAY \in Nat
  BY DelayAssumption DEF DeliveryInv, IInv, TypeOK
<1>2. ASSUME severity' = severity,
             \/ timer'[b] = timer[b]
             \/ timer'[b] = idle_timer
             \/ \E s \in Severity, delay \in Nat :
                  /\ s # UNDEFINED_SEVERITY
                  /\ Exceeds(severity[b], s) => delay = ALARM_REDUCED_DELAY
                  /\ timer'[b] = change_schedule(timer[b], s, delay)
      PROVE  SpacedInv(b)'
  <2>1. CASE timer'[b] = timer[b] \/ timer'[b] = idle_timer
    BY <1>1, <1>2, <2>1 DEF SpacedInv, Exceeds, idle_timer
  <2>2. ASSUME NEW s \in Severity, NEW delay \in Nat,
               s # UNDEFINED_SEVERITY,
               Exceeds(severity[b], s) => delay = ALARM_REDUCED_DELAY,
               timer'[b] = change_schedule(timer[b], s, delay)
        PROVE  SpacedInv(b)'
    <3>1. Exceeds(severity[b], timer'[b].severity) =>
            timer'[b].pop_time >= last_sent[b] + ALARM_REDUCED_DELAY
      BY <2>2, RescheduleSpaced
    <3> QED
      BY <1>2, <3>1 DEF SpacedInv, Exceeds
  <2> QED
    BY <1>2, <2>1, <2>2
<1>3. ASSUME NEW a \in Alarms, NEW s \in Severity, Issue(a, s)
      PROVE  SpacedInv(b)'
  <2>1. severity' = severity /\ is_valid(a, s)
    BY <1>3 DEF Issue, issue_alarm
  <2>2. s # UNDEFINED_SEVERITY
    BY <2>1, ConstantsType
  <2>3. CASE s = severity[a] /\ UNCHANGED timer
    BY <1>2, <2>1, <2>3
  <2>4. CASE /\ Exceeds(s, severity[a])
             /\ change_schedule_for_alarm(a, s, ALARM_INCREASED_DELAY)
    <3>1. ~Exceeds(severity[a], s) /\ ALARM_INCREASED_DELAY \in Nat
      BY <1>1, <2>4, ConstantsType DEF Exceeds, ALARM_INCREASED_DELAY
    <3>2. timer'[b] = IF b = a THEN change_schedule(timer[b], s, ALARM_INCREASED_DELAY)
                               ELSE timer[b]
      BY <1>1, <2>4 DEF change_schedule_for_alarm
    <3> QED
      BY <1>2, <2>1, <2>2, <3>1, <3>2
  <2>5. CASE change_schedule_for_alarm(a, s, ALARM_REDUCED_DELAY)
    <3>1. timer'[b] = IF b = a THEN change_schedule(timer[b], s, ALARM_REDUCED_DELAY)
                               ELSE timer[b]
      BY <1>1, <2>5 DEF change_schedule_for_alarm
    <3> QED
      BY <1>1, <1>2, <2>1, <2>2, <3>1
  <2> QED
    BY <1>3, <2>3, <2>4, <2>5 DEF Issue, issue_alarm
<1>4. ASSUME Sync PROVE SpacedInv(b)'
  <2>1. /\ severity' = severity
        /\ timer'[b] = IF severity[b] # UNDEFINED_SEVERITY
                         THEN change_schedule(timer[b], severity[b], 0)
                         ELSE timer[b]
    BY <1>4 DEF Sync, sync_alarms, known_alarms, ALARM_RESYNC_DELAY
  <2>2. severity[b] \in Severity /\ ~Exceeds(severity[b], severity[b])
    BY <1>1, ConstantsType DEF Exceeds
  <2> QED
    BY <1>2, <2>1, <2>2
<1>5. ASSUME NEW i \in Inform, InformTimedOut(i) PROVE SpacedInv(b)'
  <2>1. severity' = severity
    BY <1>5 DEF InformTimedOut, handle_failed_alarm
  <2>2. /\ i.severity \in Severity /\ i.severity # UNDEFINED_SEVERITY
        /\ i.index \in Alarms
    BY ConstantsType DEF Inform
  <2>3. CASE should_resend_alarm(i.index, i.severity)
    <3>1. ~Exceeds(severity[i.index], i.severity)
      BY <2>2, <2>3, ConstantsType DEF Exceeds, should_resend_alarm
    <3>2. timer'[b] = IF b = i.index
                        THEN change_schedule(timer[b], i.severity, ALARM_RETRY_DELAY)
                        ELSE timer[b]
      BY <1>1, <1>5, <2>3 DEF InformTimedOut, handle_failed_alarm,
                              change_schedule_for_alarm
    <3> QED
      BY <1>1, <1>2, <2>1, <2>2, <3>1, <3>2
  <2>4. CASE ~should_resend_alarm(i.index, i.severity)
    BY <1>2, <1>5, <2>1, <2>4 DEF InformTimedOut, handle_failed_alarm
  <2> QED
    BY <2>3, <2>4
<1>6. ASSUME \/ \E i \in Inform : InformReceived(i)
             \/ Internal
             \/ UNCHANGED vars
      PROVE  SpacedInv(b)'
  <2>1. severity' = severity /\ timer'[b] \in {timer[b], idle_timer}
    BY <1>6 DEF InformReceived, vars, alarmVars, Internal, issue_unknown_alarm,
                HeapWake, HeapWait, WaitTimeout, SpuriousWakeup, Terminate,
                JoinAndDestroy, Destroyed, Tick
  <2> QED
    BY <1>2, <2>1
<1> QED
  BY <1>3, <1>4, <1>5, <1>6

(* The clock only goes forward, and the heap thread reads it. *)
LEMMA ClockStep ==
  ASSUME IInv, time_now <= now, [Next]_vars
  PROVE  now' \in Nat /\ now <= now' /\ time_now' <= now'
<1>1. now \in Nat /\ time_now \in Nat
  BY DelayAssumption DEF IInv, TypeOK
<1>2. CASE Internal
  <2>1. CASE Tick
    BY <1>1, <2>1 DEF Tick, threadVars
  <2>2. CASE HeapWake
    BY <1>1, <2>2 DEF HeapWake
  <2>3. ~Tick /\ ~HeapWake => UNCHANGED <<time_now, now>>
    BY <1>2 DEF Internal, vars, threadVars, issue_unknown_alarm, HeapWait, WaitTimeout,
                SpuriousWakeup, Terminate, JoinAndDestroy, Destroyed
  <2> QED
    BY <1>1, <2>1, <2>2, <2>3
<1>3. CASE UNCHANGED <<time_now, now>>
  BY <1>1, <1>3
<1>4. ~Internal => UNCHANGED <<time_now, now>>
  BY DEF Next, vars, threadVars, Issue, issue_alarm, Sync, sync_alarms,
         SendDueAlarm, InformTimedOut, handle_failed_alarm, InformReceived
<1> QED
  BY <1>2, <1>3, <1>4

(* Every step keeps the invariant. *)
LEMMA StepDeliveryInv ==
  DeliveryInv /\ [HistoryNext]_historyVars => DeliveryInv'
<1> SUFFICES ASSUME DeliveryInv, [HistoryNext]_historyVars
             PROVE  DeliveryInv'
  OBVIOUS
<1>1. [Next]_vars
  BY HistoryNextIsNext
<1>2. IInv'
  BY <1>1, StepIInv DEF DeliveryInv
<1>3. now \in Nat /\ now' \in Nat /\ now <= now' /\ time_now' <= now'
  BY <1>1, ClockStep, DelayAssumption DEF DeliveryInv, IInv, TypeOK
<1>4. ASSUME NEW a \in Alarms, SendDueAlarm(a),
             delivered' = [delivered EXCEPT ![a] = FALSE],
             last_sent' = [last_sent EXCEPT ![a] = now]
      PROVE  DeliveryInv'
  <2>1. /\ timer' = [timer EXCEPT ![a] = idle_timer]
        /\ \A b \in Alarms : b # a => severity'[b] = severity[b]
        /\ UNCHANGED now
    BY <1>4 DEF SendDueAlarm, update_alarm_state, DeliveryInv, IInv, TypeOK
  <2>2. timer \in [Alarms -> Timer]
    BY DEF DeliveryInv, IInv, TypeOK
  <2>3. ASSUME NEW b \in Alarms PROVE SpacedInv(b)'
    <3>1. CASE b = a
      BY <2>1, <2>2, <3>1 DEF SpacedInv, idle_timer
    <3>2. CASE b # a
      BY <1>4, <2>1, <2>2, <3>2 DEF SpacedInv, Exceeds, idle_timer, DeliveryInv
    <3> QED
      BY <3>1, <3>2
  <2>4. /\ last_sent' \in [Alarms -> Nat]
        /\ \A b \in Alarms : last_sent'[b] <= now'
    BY <1>3, <1>4, <2>1 DEF DeliveryInv
  <2>5. delivered' \in [Alarms -> BOOLEAN]
    BY <1>4 DEF DeliveryInv
  <2> QED
    BY <1>2, <1>3, <2>3, <2>4, <2>5 DEF DeliveryInv
<1>5. ASSUME UNCHANGED last_sent, delivered' \in [Alarms -> BOOLEAN],
             \A b \in Alarms : SpacedInv(b)'
      PROVE  DeliveryInv'
  <2>1. \A b \in Alarms : last_sent'[b] <= now'
    BY <1>3, <1>5 DEF DeliveryInv
  <2> QED
    BY <1>2, <1>3, <1>5, <2>1 DEF DeliveryInv
<1>6. ASSUME NEW i \in Inform, InformReceived(i), UNCHANGED last_sent,
             delivered' = [delivered EXCEPT
                             ![i.index] = @ \/ i.severity = severity[i.index]]
      PROVE  DeliveryInv'
  <2>1. delivered' \in [Alarms -> BOOLEAN]
    <3>1. (delivered[i.index] \/ i.severity = severity[i.index]) \in BOOLEAN
      OBVIOUS
    <3> QED
      BY <1>6, <3>1, Zenon DEF DeliveryInv
  <2>2. \A b \in Alarms : SpacedInv(b)'
    BY <1>6, SpacedKept
  <2> QED
    BY <1>5, <1>6, <2>1, <2>2
<1>7. ASSUME \/ \E a \in Alarms, s \in Severity : Issue(a, s)
             \/ Sync
             \/ \E i \in Inform : InformTimedOut(i)
             \/ Internal
             \/ UNCHANGED vars,
             UNCHANGED <<delivered, last_sent>>
      PROVE  DeliveryInv'
  <2>1. \A b \in Alarms : SpacedInv(b)'
    BY <1>7, SpacedKept
  <2> QED
    BY <1>5, <1>7, <2>1 DEF DeliveryInv
<1> QED
  BY <1>4, <1>6, <1>7, InformStep

(* The invariant holds throughout. *)
LEMMA DeliveryInvariance == HistorySpec => []DeliveryInv
BY InitDeliveryInv, StepDeliveryInv, PTL DEF HistorySpec

(* Only heap_sender changes what the NMS is told. *)
LEMMA ReductionStep ==
  ASSUME DeliveryInv, [HistoryNext]_historyVars, NEW a \in Alarms,
         Exceeds(severity[a], severity'[a])
  PROVE  now >= last_sent[a] + ALARM_REDUCED_DELAY
<1>1. /\ severity \in [Alarms -> Severity] /\ timer \in [Alarms -> Timer]
      /\ now \in Nat /\ time_now \in Nat /\ time_now <= now
      /\ last_sent[a] \in Nat /\ ALARM_REDUCED_DELAY \in Nat
  BY DelayAssumption DEF DeliveryInv, IInv, TypeOK
<1>2. severity'[a] # severity[a]
  BY <1>1, ConstantsType DEF Exceeds
<1>3. SendDueAlarm(a)
  <2>1. ~(UNCHANGED severity)
    BY <1>2
  <2>2. PICK b \in Alarms : SendDueAlarm(b)
    BY <2>1, HistoryNextIsNext
       DEF Next, vars, alarmVars, Issue, issue_alarm, Sync, sync_alarms,
           InformTimedOut, handle_failed_alarm, InformReceived, Internal,
           issue_unknown_alarm, HeapWake, HeapWait, WaitTimeout,
           SpuriousWakeup, Terminate, JoinAndDestroy, Destroyed, Tick
  <2>3. b = a
    BY <1>1, <1>2, <2>2 DEF SendDueAlarm, update_alarm_state
  <2> QED
    BY <2>2, <2>3
<1>4. /\ severity'[a] = timer[a].severity /\ a \in heap
      /\ timer[a].pop_time <= time_now
  BY <1>1, <1>2, <1>3 DEF SendDueAlarm, update_alarm_state, NextTimers
<1>5. timer[a] # idle_timer /\ timer[a].pop_time \in Nat
  <2>1. timer[a] \in Timer /\ is_valid(a, timer[a].severity)
    BY <1>1, <1>4 DEF DeliveryInv, IInv, TimerInv
  <2>2. timer[a].severity # UNDEFINED_SEVERITY /\ timer[a].pop_time \in Nat
    BY <2>1, ConstantsType DEF Timer
  <2>3. idle_timer.severity = UNDEFINED_SEVERITY
    BY DEF idle_timer
  <2> QED
    BY <2>2, <2>3, Zenon
<1> QED
  BY <1>1, <1>4, <1>5 DEF DeliveryInv, SpacedInv

(* However the requests flicker, the NMS never sees a severity reduced     *)
(* sooner than ALARM_REDUCED_DELAY after the alarm was last sent: a timer  *)
(* left over from a cancelled reduction dates from after that.             *)
THEOREM ReductionsThm == HistorySpec => ReductionsAreSpaced
<1>1. DeliveryInv /\ [HistoryNext]_historyVars =>
        [\A a \in Alarms :
           Exceeds(severity[a], severity'[a]) =>
             now >= last_sent[a] + ALARM_REDUCED_DELAY]_historyVars
  BY ReductionStep
<1> QED
  BY <1>1, DeliveryInvariance, PTL DEF HistorySpec, ReductionsAreSpaced

-----------------------------------------------------------------------------
(* OnlyCancellingLosesRetries for one alarm, while the scheduler's thread  *)
(* runs.                                                                   *)
RetryInv(a) ==
  severity[a] # UNDEFINED_SEVERITY /\ thread # "joined" =>
    Covered(a) \/ timer[a].severity # UNDEFINED_SEVERITY

(* A timer in the heap is in use. *)
LEMMA InHeapIsUsed ==
  ASSUME IInv, NEW a \in heap
  PROVE  timer[a].severity # UNDEFINED_SEVERITY
<1>1. a \in Alarms /\ timer[a].severity \in Severity
  BY DEF IInv, TypeOK, Timer
<1>2. is_valid(a, timer[a].severity)
  BY <1>1 DEF IInv, TimerInv
<1> QED
  BY <1>1, <1>2, ConstantsType

(* heap_sender leaves an inform to every sink behind. *)
LEMMA SendCovers ==
  ASSUME Sinks, DeliveryInv, NEW a \in Alarms, SendDueAlarm(a)
  PROVE  Covered(a)'
<1> DEFINE s == timer[a].severity
<1>1. s \in Severity /\ is_valid(a, s) /\ severity \in [Alarms -> Severity]
  BY DEF SendDueAlarm, NextTimers, DeliveryInv, IInv, TypeOK, Timer, TimerInv
<1>2. send_trap(a, s) /\ severity' = [severity EXCEPT ![a] = s]
  BY <1>1 DEF SendDueAlarm, update_alarm_state
<1>3. PICK type \in snmp_notifications, sink \in trap_ips : TRUE
  BY DEF Sinks
<1> DEFINE i == [index |-> a, severity |-> s, type |-> type, sink |-> sink]
<1>4. i \in Inform /\ i.index = a /\ i.severity = s
  BY <1>1 DEF Inform
<1> HIDE DEF s, i
<1>5. informs'[i] > 0
  BY <1>2, <1>4 DEF send_trap, DeliveryInv, IInv, TypeOK
<1> QED
  BY <1>1, <1>2, <1>4, <1>5 DEF Covered, Inform, is_valid

(* Other alarms are covered as before. *)
LEMMA SendKeeps ==
  ASSUME DeliveryInv, NEW a \in Alarms, SendDueAlarm(a),
         delivered' = [delivered EXCEPT ![a] = FALSE],
         NEW b \in Alarms, b # a, RetryInv(b)
  PROVE  RetryInv(b)'
<1>1. /\ timer' = [timer EXCEPT ![a] = idle_timer] /\ heap' = heap \ {a}
      /\ UNCHANGED thread
  BY DEF SendDueAlarm, threadVars
<1>2. /\ severity'[b] = severity[b]
      /\ \A i \in Inform : informs[i] > 0 => informs'[i] > 0
  <2>1. severity \in [Alarms -> Severity] /\ informs \in [Inform -> Nat]
    BY DEF DeliveryInv, IInv, TypeOK
  <2>2. severity'[b] = severity[b]
    BY <2>1 DEF SendDueAlarm, update_alarm_state
  <2>3. ASSUME NEW i \in Inform, informs[i] > 0 PROVE informs'[i] > 0
    <3>1. send_trap(a, timer[a].severity) \/ informs' = informs
      BY DEF SendDueAlarm
    <3>2. informs'[i] \in {informs[i], informs[i] + 1}
      BY <2>3, <3>1 DEF send_trap
    <3>3. informs[i] \in Nat
      BY <2>1, <2>3
    <3> QED
      BY <2>3, <3>2, <3>3
  <2> QED
    BY <2>2, <2>3
<1>3. timer'[b] = timer[b] /\ delivered'[b] = delivered[b]
  BY <1>1 DEF DeliveryInv, IInv, TypeOK
<1>4. Covered(b) => Covered(b)'
  BY <1>1, <1>2, <1>3 DEF Covered, Inform, is_valid
<1> QED
  BY <1>1, <1>2, <1>3, <1>4 DEF RetryInv

(* An acknowledged inform of the current severity makes it delivered. *)
LEMMA ReceivedKeeps ==
  ASSUME DeliveryInv, NEW i \in Inform, InformReceived(i),
         delivered' = [delivered EXCEPT
                         ![i.index] = @ \/ i.severity = severity[i.index]],
         NEW b \in Alarms, RetryInv(b)
  PROVE  RetryInv(b)'
<1>1. /\ UNCHANGED <<timer, heap, severity, thread>>
      /\ informs' = [informs EXCEPT ![i] = @ - 1]
  BY DEF InformReceived, Answered, alarmVars, threadVars
<1>2. delivered[b] => delivered'[b]
  BY DEF DeliveryInv
<1>3. i.index = b /\ i.severity = severity[b] => delivered'[b]
  BY DEF DeliveryInv
<1>4. \A j \in Inform : j # i => informs'[j] = informs[j]
  BY <1>1 DEF DeliveryInv, IInv, TypeOK
<1>5. Covered(b) => Covered(b)'
  BY <1>1, <1>2, <1>3, <1>4 DEF Covered, Inform, is_valid
<1> QED
  BY <1>1, <1>5 DEF RetryInv

(* An inform of the current severity that times out is scheduled again,    *)
(* unless the alarm is scheduled already.                                  *)
LEMMA TimedOutKeeps ==
  ASSUME DeliveryInv, NEW i \in Inform, InformTimedOut(i), UNCHANGED delivered,
         NEW b \in Alarms, RetryInv(b)
  PROVE  RetryInv(b)'
<1>1. /\ UNCHANGED severity
      /\ informs' = [informs EXCEPT ![i] = @ - 1]
      /\ i.index \in Alarms /\ i.severity # UNDEFINED_SEVERITY
  BY ConstantsType DEF InformTimedOut, handle_failed_alarm, Answered, Inform
<1>2. \A j \in Inform : j # i => informs'[j] = informs[j]
  BY <1>1 DEF DeliveryInv, IInv, TypeOK
<1>3. CASE should_resend_alarm(i.index, i.severity)
  <2>1. /\ heap' = heap \cup {i.index}
        /\ \A c \in Alarms : c # i.index => timer'[c] = timer[c]
        /\ thread' = "joined" <=> thread = "joined"
    BY <1>3 DEF InformTimedOut, handle_failed_alarm, change_schedule_for_alarm,
                DeliveryInv, IInv, TypeOK, signal
  <2>2. CASE b = i.index
    BY <2>1, <2>2 DEF RetryInv, Covered
  <2>3. CASE b # i.index
    <3>1. Covered(b) => Covered(b)'
      BY <1>1, <1>2, <2>1, <2>3 DEF Covered, Inform, is_valid
    <3> QED
      BY <1>1, <2>1, <2>3, <3>1 DEF RetryInv
  <2> QED
    BY <2>2, <2>3
<1>4. CASE ~should_resend_alarm(i.index, i.severity)
  <2>1. UNCHANGED <<heap, timer, thread>>
    BY <1>4 DEF InformTimedOut, handle_failed_alarm
  <2>2. i.index = b /\ i.severity = severity[b] => b \in heap
    BY <1>4 DEF should_resend_alarm
  <2>3. Covered(b) => Covered(b)'
    BY <1>1, <1>2, <2>1, <2>2 DEF Covered, Inform, is_valid
  <2> QED
    BY <1>1, <2>1, <2>3 DEF RetryInv
<1> QED
  BY <1>3, <1>4

(* A request that takes an alarm out of the heap leaves its timer in use,  *)
(* and one that schedules an alarm puts it into the heap.                  *)
LEMMA IssueKeeps ==
  ASSUME DeliveryInv, NEW a \in Alarms, NEW s \in Severity, Issue(a, s),
         UNCHANGED delivered, NEW b \in Alarms, RetryInv(b)
  PROVE  RetryInv(b)'
<1>1. /\ UNCHANGED <<informs, severity>> /\ is_valid(a, s)
      /\ thread # "joined" /\ timer \in [Alarms -> Timer]
  BY DEF Issue, issue_alarm, LockFree, DeliveryInv, IInv, TypeOK
<1>2. b \in heap => timer[b].severity # UNDEFINED_SEVERITY
  BY InHeapIsUsed DEF DeliveryInv
<1>3. CASE /\ UNCHANGED timer
           /\ heap' \in {heap, heap \ {a}}
  <2>1. Covered(b) => Covered(b)' \/ b \in heap
    BY <1>1, <1>3 DEF Covered, Inform, is_valid
  <2> QED
    BY <1>1, <1>2, <1>3, <2>1 DEF RetryInv
<1>4. ASSUME NEW delay, change_schedule_for_alarm(a, s, delay)
      PROVE  RetryInv(b)'
  <2>1. heap' = heap \cup {a} /\ (b # a => timer'[b] = timer[b])
    BY <1>1, <1>4 DEF change_schedule_for_alarm
  <2>2. Covered(b) => Covered(b)'
    BY <1>1, <2>1 DEF Covered, Inform, is_valid
  <2>3. b = a => Covered(b)'
    BY <2>1 DEF Covered
  <2> QED
    BY <1>1, <2>1, <2>2, <2>3 DEF RetryInv
<1> QED
  BY <1>3, <1>4 DEF Issue, issue_alarm, remove_outdated_alarm_from_heap

(* sync_alarms schedules every alarm the NMS was told of. *)
LEMMA SyncKeeps ==
  ASSUME Sync, NEW b \in Alarms
  PROVE  RetryInv(b)'
BY DEF Sync, sync_alarms, known_alarms, RetryInv, Covered

(* The thread, the clock and the destructor lose nothing. *)
LEMMA InternalKeeps ==
  ASSUME Internal \/ UNCHANGED vars, UNCHANGED delivered, NEW b \in Alarms,
         RetryInv(b)
  PROVE  RetryInv(b)'
<1>1. CASE JoinAndDestroy
  BY <1>1 DEF JoinAndDestroy, RetryInv
<1>2. CASE /\ UNCHANGED <<informs, alarmVars>>
           /\ thread' # "joined" => thread # "joined"
  <2>1. Covered(b) => Covered(b)'
    BY <1>2 DEF Covered, Inform, is_valid, alarmVars
  <2> QED
    BY <1>2, <2>1 DEF RetryInv, alarmVars
<1>3. JoinAndDestroy \/ UNCHANGED <<informs, alarmVars>>
  BY DEF Internal, vars, issue_unknown_alarm, HeapWake, HeapWait, WaitTimeout,
         SpuriousWakeup, Terminate, Destroyed, Tick
<1>4. thread' # "joined" => thread # "joined"
  <2>1. [Next]_vars
    BY DEF Next
  <2> QED
    BY <2>1, JoinedStays
<1> QED
  BY <1>1, <1>2, <1>3, <1>4

(* Every step keeps it. *)
LEMMA StepRetryInv ==
  ASSUME Sinks
  PROVE  DeliveryInv /\ OnlyCancellingLosesRetries /\ [HistoryNext]_historyVars
           => OnlyCancellingLosesRetries'
<1> SUFFICES ASSUME DeliveryInv, OnlyCancellingLosesRetries,
                    [HistoryNext]_historyVars
             PROVE  OnlyCancellingLosesRetries'
  OBVIOUS
<1>1. ASSUME NEW b \in Alarms PROVE RetryInv(b)'
  <2>1. RetryInv(b)
    BY DEF OnlyCancellingLosesRetries, RetryInv
  <2>2. ASSUME NEW a \in Alarms, SendDueAlarm(a),
               delivered' = [delivered EXCEPT ![a] = FALSE]
        PROVE  RetryInv(b)'
    <3>1. CASE b = a
      BY <2>2, <3>1, SendCovers DEF RetryInv
    <3>2. CASE b # a
      BY <2>1, <2>2, <3>2, SendKeeps
    <3> QED
      BY <3>1, <3>2
  <2> QED
    BY <2>1, <2>2, InformStep, ReceivedKeeps, TimedOutKeeps, IssueKeeps,
       SyncKeeps, InternalKeeps
<1> QED
  BY <1>1 DEF OnlyCancellingLosesRetries, RetryInv

(* With at least one sink configured, a severity that the NMS did not      *)
(* acknowledge is on its way to it or scheduled, or its timer is left over *)
(* from a change that a request cancelled.                                 *)
THEOREM RetriesThm ==
  ASSUME Sinks
  PROVE  HistorySpec => []OnlyCancellingLosesRetries
<1>1. HistoryInit => OnlyCancellingLosesRetries
  BY DEF HistoryInit, Init, OnlyCancellingLosesRetries
<1>2. DeliveryInv /\ OnlyCancellingLosesRetries /\ [HistoryNext]_historyVars
        => OnlyCancellingLosesRetries'
  BY StepRetryInv
<1> QED
  BY <1>1, <1>2, DeliveryInvariance, PTL DEF HistorySpec
=============================================================================
