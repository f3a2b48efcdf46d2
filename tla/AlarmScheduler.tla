--------------------------- MODULE AlarmScheduler ---------------------------
(***************************************************************************)
(* AlarmScheduler, its heap thread, SingleAlarmManager and AlarmTimer,     *)
(* composed with the trap sender and the alarm active table.               *)
(*                                                                         *)
(* Every handler takes _lock for the whole of its body, so a handler is    *)
(* one step that needs the lock free.  Only the heap thread holds the lock *)
(* across steps: from waking up to going back to sleep it makes one step   *)
(* per alarm it sends, and the clock runs on meanwhile.                    *)
(***************************************************************************)
EXTENDS AlarmTrapSender, ActiveAlarms

CONSTANTS
  ALARM_REDUCED_DELAY,
  ALARM_RETRY_DELAY,
  UINT64_MAX,   \* the pop time of a timer that is not scheduled
  MaxNow,       \* bound: the clock stops here
  MaxInforms    \* bound: no new requests while this many copies are unanswered

ALARM_RESYNC_DELAY    == 0
ALARM_INCREASED_DELAY == 0

ASSUME DelayAssumption ==
  /\ ALARM_REDUCED_DELAY \in Nat
  /\ ALARM_RETRY_DELAY \in Nat
  /\ MaxNow \in Nat
  /\ UINT64_MAX \in Nat
  /\ MaxNow + ALARM_REDUCED_DELAY + ALARM_RETRY_DELAY < UINT64_MAX

VARIABLES
  severity,     \* SingleAlarmManager::_severity, what was last sent
  timer,        \* AlarmTimer: its severity and pop time, in the heap or not
  heap,         \* the alarms whose timer is in _alarm_heap
  _terminated,
  thread,       \* where the heap thread is
  time_now,     \* the heap thread's time_now_in_ms
  deadline,     \* what the heap thread waits for; UINT64_MAX: a signal only
  now           \* the wall clock

alarmVars  == <<severity, timer, heap, active_rows>>
threadVars == <<thread, time_now, deadline>>
vars == <<informs, alarmVars, _terminated, threadVars, now>>

(* "sending" is the only place in which the heap thread holds _lock;       *)
(* "runnable" is waiting for the lock, at the start or after a wake-up.    *)
ThreadStates == {"runnable", "sending", "waiting", "done", "joined"}

Timer == [severity : Severity, pop_time : Nat]

idle_timer == [severity |-> UNDEFINED_SEVERITY, pop_time |-> UINT64_MAX]

Init ==
  /\ TrapSenderInit
  /\ severity = [a \in Alarms |-> UNDEFINED_SEVERITY]
  /\ timer = [a \in Alarms |-> idle_timer]
  /\ heap = {}
  /\ ActiveAlarmsInit
  /\ _terminated = FALSE
  /\ thread = "runnable"
  /\ time_now = 0
  /\ deadline = UINT64_MAX
  /\ now = 0

(* The scheduler exists and nobody else is inside a critical section. *)
LockFree == thread \notin {"sending", "joined"}

(* Slip: the signal is forgotten. *)
signal_Forgotten == UNCHANGED thread

(* _cond->signal(): lost unless the heap thread is waiting. *)
signal == thread' = IF thread = "waiting" THEN "runnable" ELSE thread

(* Slip: the pop time is not updated with the severity. *)
change_schedule_NoPopTime(t, new_severity, delay) ==
  [t EXCEPT !.severity = new_severity]

(* Slip: the pop time is set for a timer that has none only. *)
change_schedule_FirstPopTime(t, new_severity, delay) ==
  [severity |-> new_severity,
   pop_time |-> IF t.pop_time = UINT64_MAX THEN now + delay ELSE t.pop_time]

(* Slip: the pop time is pushed out by every repetition. *)
change_schedule_Always(t, new_severity, delay) ==
  [severity |-> new_severity, pop_time |-> now + delay]

(* SingleAlarmManager::change_schedule *)
change_schedule(t, new_severity, delay) ==
  IF new_severity # t.severity
    THEN [severity |-> new_severity, pop_time |-> now + delay]
    ELSE t

change_schedule_for_alarm(a, new_severity, delay) ==
  /\ heap' = heap \cup {a}
  /\ timer' = [timer EXCEPT ![a] = change_schedule(@, new_severity, delay)]

(* Slip: the alarm is removed whether or not it is outdated. *)
remove_outdated_alarm_from_heap_Always(a) == heap' = heap \ {a} /\ signal

(* The timer leaves the heap as it is: it keeps its severity and pop time. *)
remove_outdated_alarm_from_heap(a) ==
  IF severity[a] # timer[a].severity
    THEN heap' = heap \ {a} /\ signal
    ELSE UNCHANGED <<heap, thread>>

(* A request for an alarm and severity, from the request listener. *)
issue_alarm(a, s) ==
  /\ LockFree
  /\ is_valid(a, s)
  /\ \/ /\ s = severity[a]
        /\ remove_outdated_alarm_from_heap(a)
        /\ UNCHANGED timer
     \/ /\ Exceeds(s, severity[a])
        /\ change_schedule_for_alarm(a, s, ALARM_INCREASED_DELAY)
        /\ signal
     \/ /\ s # severity[a]
        /\ ~Exceeds(s, severity[a])
        /\ change_schedule_for_alarm(a, s, ALARM_REDUCED_DELAY)
        /\ signal
  /\ UNCHANGED <<informs, severity, active_rows, _terminated, time_now,
                 deadline, now>>

(* A request the definitions do not know is logged and dropped. *)
issue_unknown_alarm(a, s) ==
  /\ ~is_valid(a, s)
  /\ UNCHANGED vars

(* Slip: alarms that were never sent are synced too. *)
known_alarms_All == Alarms

(* The alarms the NMS was told of at least once. *)
known_alarms == {a \in Alarms : severity[a] # UNDEFINED_SEVERITY}

sync_alarms ==
  /\ LockFree
  /\ heap' = heap \cup known_alarms
  /\ timer' = [a \in Alarms |->
                 IF a \in known_alarms
                   THEN change_schedule(timer[a], severity[a],
                                        ALARM_RESYNC_DELAY)
                   ELSE timer[a]]
  /\ signal
  /\ UNCHANGED <<informs, severity, active_rows, _terminated, time_now,
                 deadline, now>>

(* Slip: a change waiting in the heap is not looked for. *)
should_resend_alarm_NoHeap(a, s) == severity[a] = s

(* Slip: only what is scheduled already is resent. *)
should_resend_alarm_InHeap(a, s) == severity[a] = s /\ a \in heap

should_resend_alarm(a, s) == severity[a] = s /\ a \notin heap

(* NETSNMP_CALLBACK_OP_TIMED_OUT, on the Net-SNMP thread, which holds the  *)
(* lock already.                                                           *)
handle_failed_alarm(i) ==
  /\ LockFree
  /\ Answered(i)
  /\ IF should_resend_alarm(i.index, i.severity)
       THEN /\ change_schedule_for_alarm(i.index, i.severity,
                                         ALARM_RETRY_DELAY)
            /\ signal
       ELSE UNCHANGED <<heap, timer, thread>>
  /\ UNCHANGED <<severity, active_rows, _terminated, time_now, deadline, now>>

(* NETSNMP_CALLBACK_OP_RECEIVED_MESSAGE; a failed send counts as one too.  *)
InformReceived(i) ==
  /\ LockFree
  /\ Answered(i)
  /\ UNCHANGED <<alarmVars, _terminated, threadVars, now>>

-----------------------------------------------------------------------------
(* The heap thread: heap_sender().                                         *)

(* Slip: any timer of the heap, not one with the least pop time. *)
NextTimers_Any == heap

(* The timers get_next_timer() may return. *)
NextTimers ==
  {a \in heap : \A b \in heap : timer[a].pop_time <= timer[b].pop_time}

(* Takes the lock and tests _terminated: at the start and after a wait.    *)
HeapWake ==
  /\ thread = "runnable"
  /\ IF _terminated
       THEN thread' = "done" /\ UNCHANGED time_now
       ELSE thread' = "sending" /\ time_now' = now
  /\ UNCHANGED <<informs, alarmVars, _terminated, deadline, now>>

update_alarm_state(a, s) ==
  /\ severity' = [severity EXCEPT ![a] = s]
  /\ alarmActiveTable_trap_handler(a, s)

(* One turn of the inner loop: sends the alarm whose timer is due.         *)
SendDueAlarm(a) ==
  /\ thread = "sending"
  /\ a \in NextTimers
  /\ timer[a].pop_time <= time_now
  /\ IF is_valid(a, timer[a].severity)
       THEN /\ send_trap(a, timer[a].severity)
            /\ update_alarm_state(a, timer[a].severity)
       ELSE UNCHANGED <<informs, severity, active_rows>>
  /\ timer' = [timer EXCEPT ![a] = idle_timer]
  /\ heap' = heap \ {a}
  /\ UNCHANGED <<_terminated, threadVars, now>>

(* Nothing is due: waits for the next timer, or for a signal.              *)
HeapWait ==
  /\ thread = "sending"
  /\ \A a \in heap : timer[a].pop_time > time_now
  /\ \/ heap = {} /\ deadline' = UINT64_MAX
     \/ \E a \in NextTimers : deadline' = timer[a].pop_time
  /\ thread' = "waiting"
  /\ UNCHANGED <<informs, alarmVars, _terminated, time_now, now>>

(* The timed wait ends. *)
WaitTimeout ==
  /\ thread = "waiting"
  /\ deadline # UINT64_MAX
  /\ deadline <= now
  /\ thread' = "runnable"
  /\ UNCHANGED <<informs, alarmVars, _terminated, time_now, deadline, now>>

(* A POSIX condition variable may wake up its waiter for no reason. *)
SpuriousWakeup ==
  /\ thread = "waiting"
  /\ thread' = "runnable"
  /\ UNCHANGED <<informs, alarmVars, _terminated, time_now, deadline, now>>

-----------------------------------------------------------------------------
(* ~AlarmScheduler, on the main thread. *)

(* Slip: the flag is set without waking up the heap thread. *)
Terminate_Silent ==
  /\ LockFree
  /\ ~_terminated
  /\ _terminated' = TRUE
  /\ UNCHANGED <<informs, alarmVars, threadVars, now>>

Terminate ==
  /\ LockFree
  /\ ~_terminated
  /\ _terminated' = TRUE
  /\ signal
  /\ UNCHANGED <<informs, alarmVars, time_now, deadline, now>>

(* pthread_join returns; the heap is cleared and the managers are deleted, *)
(* with their timers.                                                      *)
JoinAndDestroy ==
  /\ thread = "done"
  /\ thread' = "joined"
  /\ heap' = {}
  /\ timer' = [a \in Alarms |-> idle_timer]
  /\ UNCHANGED <<informs, severity, active_rows, _terminated, time_now,
                 deadline, now>>

Destroyed == thread = "joined" /\ UNCHANGED vars

Tick ==
  /\ now < MaxNow
  /\ now' = now + 1
  /\ UNCHANGED <<informs, alarmVars, _terminated, threadVars>>

-----------------------------------------------------------------------------
(* Bounds on the environment: what is scheduled still comes due before the *)
(* clock stops, and requests leave room for the informs they cause.        *)
BeforeEnd(delay) == now + delay <= MaxNow
RoomForInforms == \A i \in Inform : informs[i] < MaxInforms

Issue(a, s) ==
  /\ BeforeEnd(ALARM_REDUCED_DELAY)
  /\ RoomForInforms
  /\ issue_alarm(a, s)

Sync == RoomForInforms /\ sync_alarms

InformTimedOut(i) == BeforeEnd(ALARM_RETRY_DELAY) /\ handle_failed_alarm(i)

HeapThread ==
  \/ HeapWake
  \/ \E a \in Alarms : SendDueAlarm(a)
  \/ HeapWait
  \/ WaitTimeout

(* The steps that neither take a request nor send or settle an inform. *)
Internal ==
  \/ \E a \in Alarms, s \in Severity : issue_unknown_alarm(a, s)
  \/ HeapWake
  \/ HeapWait
  \/ WaitTimeout
  \/ SpuriousWakeup
  \/ Terminate
  \/ JoinAndDestroy
  \/ Destroyed
  \/ Tick

Next ==
  \/ \E a \in Alarms, s \in Severity : Issue(a, s)
  \/ Sync
  \/ \E a \in Alarms : SendDueAlarm(a)
  \/ \E i \in Inform : InformTimedOut(i)
  \/ \E i \in Inform : InformReceived(i)
  \/ Internal

Spec == Init /\ [][Next]_vars

(* The threads run, the clock advances; requests, answers, spurious        *)
(* wake-ups and the shutdown may or may not come.                          *)
Fairness == WF_vars(HeapThread) /\ WF_vars(JoinAndDestroy) /\ WF_vars(Tick)

FairSpec == Spec /\ Fairness

-----------------------------------------------------------------------------
(* What the callers see of the scheduler. *)
Pending(a) == IF a \in heap THEN timer[a].severity ELSE UNDEFINED_SEVERITY

Notifier ==
  INSTANCE AlarmNotifier WITH
    current <- severity,
    pending <- [a \in Alarms |-> Pending(a)],
    stopped <- thread = "joined"

(* AlarmScheduler implements AlarmNotifier: with the clock, the heap and   *)
(* the timers hidden, a request decides what is sent next, only what is    *)
(* pending is ever sent, and retries and resyncs repeat what was sent.     *)
ImplementsNotifier == Notifier!NotifierSpec

-----------------------------------------------------------------------------
(* Every variable keeps to its type: no inform is answered more often than *)
(* it was sent, and the heap holds known alarms only.                      *)
TypeOK ==
  /\ informs \in [Inform -> Nat]
  /\ severity \in [Alarms -> Severity]
  /\ timer \in [Alarms -> Timer]
  /\ heap \in SUBSET Alarms
  /\ active_rows \in [Alarms -> Severity]
  /\ _terminated \in BOOLEAN
  /\ thread \in ThreadStates
  /\ time_now \in Nat
  /\ deadline \in Nat
  /\ now \in 0 .. MaxNow

(* Whatever the heap thread pops has a definition, so that no scheduled    *)
(* change is silently dropped by the is_valid() test of heap_sender.       *)
ScheduledIsSendable == \A a \in heap : is_valid(a, timer[a].severity)

(* No scheduled alarm is further away than the longest delay: a timer that *)
(* is put back into the heap never keeps the "never" it started with.      *)
ScheduledIsNear ==
  \A a \in heap :
    \/ timer[a].pop_time <= now + ALARM_REDUCED_DELAY
    \/ timer[a].pop_time <= now + ALARM_RETRY_DELAY

(* remove_outdated_alarm_from_heap leaves a timer its old severity and pop *)
(* time.  These leftovers are never those of the current severity, or a    *)
(* retry or resync would take over the old pop time.                       *)
LeftoverIsNotCurrent ==
  \A a \in Alarms \ heap :
    timer[a].severity # UNDEFINED_SEVERITY => timer[a].severity # severity[a]

(* A scheduled increase of severity is due at once, whatever was scheduled *)
(* or left over for the alarm before.                                      *)
IncreaseIsDue ==
  \A a \in heap :
    Exceeds(timer[a].severity, severity[a]) => timer[a].pop_time <= now

(* The heap thread never sleeps past a timer or past the shutdown: every   *)
(* handler that brings the next pop time forward signals it.               *)
NoMissedWakeup ==
  thread = "waiting" =>
    /\ ~_terminated
    /\ \A a \in heap : deadline <= timer[a].pop_time

(* An inform that timed out is retried after the full retry delay, also    *)
(* when the alarm's timer was used before.                                 *)
RetryWaits ==
  [][\A a \in heap' \ heap :
       informs' # informs => timer'[a].pop_time = now + ALARM_RETRY_DELAY]_vars

(* Repeating a request, a resync or a second timeout of the same inform    *)
(* never puts off an alarm that is already scheduled.                      *)
RepeatNeverPostpones ==
  [][\A a \in heap \cap heap' :
       timer'[a].severity = timer[a].severity =>
         timer'[a].pop_time <= timer[a].pop_time]_vars

(* "If we're reducing the severity of an alarm we add a delay of 30secs    *)
(* (to protect against flicker)": a reduced severity that enters the heap  *)
(* is a full delay away.                                                   *)
ReducedIsDelayed ==
  [][\A a \in heap' \ heap :
       Exceeds(severity[a], timer'[a].severity) =>
         timer'[a].pop_time >= now + ALARM_REDUCED_DELAY]_vars

(* "Increased severity alarms or resyncing alarms are sent immediately":   *)
(* sync_alarms leaves every alarm the NMS was told of scheduled at its     *)
(* current severity, and due.                                              *)
ResyncIsPrompt ==
  [][Sync =>
       \A a \in known_alarms :
          /\ a \in heap' /\ timer'[a].severity = severity[a]
          /\ timer'[a].pop_time <= now]_vars

(* Only an alarm that waits for a retry, or for an earlier resync, is not  *)
(* due after sync_alarms, and it keeps its place: neither a change that    *)
(* was waiting nor one that was cancelled lends a resync its pop time, and *)
(* no alarm the NMS was told of is left out.                               *)
OnlyRetriesDelayResyncs ==
  [][Sync =>
       \A a \in known_alarms :
          /\ a \in heap' /\ timer'[a].severity = severity[a]
          /\ timer'[a].pop_time <= now \/ (a \in heap /\ timer'[a] = timer[a])]_vars

(* Every scheduled change is sent, replaced by another one or cancelled.   *)
ScheduledIsHandled ==
  \A a \in Alarms : \A s \in levels[a] :
    (a \in heap /\ timer[a].severity = s) ~>
      (a \notin heap \/ timer[a].severity # s)

(* The destructor's pthread_join returns: the heap thread sees _terminated *)
(* however it was waiting.                                                 *)
ShutdownCompletes == _terminated ~> thread = "joined"
=============================================================================
