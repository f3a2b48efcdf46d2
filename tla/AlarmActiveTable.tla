-------------------------- MODULE AlarmActiveTable --------------------------
(***************************************************************************)
(* The alarm active table: the Net-SNMP container that answers requests,   *)
(* and the map from an alarm index to its row in it.  The container is     *)
(* keyed by a row's index, which is built from the time at which and the   *)
(* counter with which the row was created.  Every operation runs inside    *)
(* heap_sender, under the SNMP lock.                                       *)
(***************************************************************************)
EXTENDS AlarmTableDefs

CONSTANTS
  UINT_MAX,   \* the counter starts over after this value
  MaxTime     \* bound: the last second

ASSUME CounterAssumption == UINT_MAX \in Nat \ {0} /\ MaxTime \in Nat

VARIABLES
  severity,               \* SingleAlarmManager::_severity
  alarm_indexes_to_rows,  \* the row of each alarm, or NoRow
  container,              \* the rows the table shows
  alarm_counter,
  datetime,               \* the wall clock, in seconds
  created,                \* how many counter values this second has used
  failed                  \* an allocation has failed; bound: once

rowVars   == <<alarm_indexes_to_rows, container, alarm_counter>>
tableVars == <<severity, rowVars, datetime, created, failed>>

Row == [index : Alarms, severity : Severity \ {UNDEFINED_SEVERITY, CLEARED},
        time : 0 .. MaxTime, counter : Nat \ {0}]
NoRow == [severity |-> UNDEFINED_SEVERITY]

TableInit ==
  /\ severity = [a \in Alarms |-> UNDEFINED_SEVERITY]
  /\ alarm_indexes_to_rows = [a \in Alarms |-> NoRow]
  /\ container = {}
  /\ alarm_counter = 0
  /\ datetime = 0
  /\ created = 0
  /\ failed = FALSE

SameKey(r, q) == r.time = q.time /\ r.counter = q.counter

(* CONTAINER_INSERT refuses a row whose index is taken; CONTAINER_REMOVE   *)
(* takes out the row that has the index of the one it is given.            *)
Insert(C, r) == IF \E q \in C : SameKey(q, r) THEN C ELSE C \cup {r}
Remove(C, r) == {q \in C : ~SameKey(q, r)}

NewRow(a, s) == [index |-> a, severity |-> s,
                 time |-> datetime, counter |-> alarm_counter + 1]

(* Slip: the counter does not start over. *)
NextCounter_Unbounded(c) == c + 1

NextCounter(c) == IF c + 1 = UINT_MAX THEN 0 ELSE c + 1

(* Creates a row for alarm a, which has none in the container C that is    *)
(* left.  The row or its index may not be allocated; the latter returns    *)
(* with the counter advanced, before it is tested for its limit.           *)
alarmActiveTable_create_row(a, s, C) ==
  \/ /\ container' = Insert(C, NewRow(a, s))
     /\ alarm_indexes_to_rows' =
          [alarm_indexes_to_rows EXCEPT ![a] = NewRow(a, s)]
     /\ alarm_counter' = NextCounter(alarm_counter)
     /\ created' = created + 1
     /\ UNCHANGED failed
  \/ /\ ~failed
     /\ failed' = TRUE
     /\ container' = C
     /\ alarm_indexes_to_rows' = [alarm_indexes_to_rows EXCEPT ![a] = NoRow]
     /\ \/ UNCHANGED <<alarm_counter, created>>
        \/ alarm_counter' = alarm_counter + 1 /\ created' = created + 1

(* Slip: the map keeps its pointer to the freed row. *)
alarmActiveTable_delete_row_Dangling(a) ==
  /\ container' = Remove(container, alarm_indexes_to_rows[a])
  /\ UNCHANGED <<alarm_indexes_to_rows, alarm_counter, created, failed>>

alarmActiveTable_delete_row(a) ==
  /\ container' = Remove(container, alarm_indexes_to_rows[a])
  /\ alarm_indexes_to_rows' = [alarm_indexes_to_rows EXCEPT ![a] = NoRow]
  /\ UNCHANGED <<alarm_counter, created, failed>>

(* Slip: an existing row is not deleted before the new one is created. *)
ReplaceRow_NoDelete(a, s) == alarmActiveTable_create_row(a, s, container)

(* Deletes the row of alarm a and creates another. *)
ReplaceRow(a, s) ==
  alarmActiveTable_create_row(a, s,
                              Remove(container, alarm_indexes_to_rows[a]))

alarmActiveTable_trap_handler(a, s) ==
  LET existing_row == alarm_indexes_to_rows[a] IN
  \/ /\ existing_row = NoRow
     /\ s # CLEARED
     /\ alarmActiveTable_create_row(a, s, container)
  \/ /\ existing_row # NoRow
     /\ s \notin {CLEARED, existing_row.severity}
     /\ ReplaceRow(a, s)
  \/ /\ existing_row # NoRow
     /\ s = existing_row.severity
     /\ UNCHANGED <<rowVars, created, failed>>
  \/ /\ existing_row # NoRow
     /\ s = CLEARED
     /\ alarmActiveTable_delete_row(a)
  \/ /\ existing_row = NoRow
     /\ s = CLEARED
     /\ UNCHANGED <<rowVars, created, failed>>

(* SingleAlarmManager::update_alarm_state.  No second uses more counter    *)
(* values than there are.                                                  *)
update_alarm_state(a, s) ==
  /\ created < UINT_MAX \/ s = CLEARED
  /\ severity' = [severity EXCEPT ![a] = s]
  /\ alarmActiveTable_trap_handler(a, s)
  /\ UNCHANGED datetime

Second ==
  /\ datetime < MaxTime
  /\ datetime' = datetime + 1
  /\ created' = 0
  /\ UNCHANGED <<severity, rowVars, failed>>

TableNext ==
  \/ \E a \in Alarms : \E s \in levels[a] : update_alarm_state(a, s)
  \/ Second

TableSpec == TableInit /\ [][TableNext]_tableVars

-----------------------------------------------------------------------------
(* Every variable keeps to its type.  The counter stays below UINT_MAX, so *)
(* that the 32-bit sub-identifier built from the next value never          *)
(* overflows, as long as no index failed to be allocated.                  *)
TableTypeOK ==
  /\ severity \in [Alarms -> Severity]
  /\ alarm_indexes_to_rows \in [Alarms -> Row \cup {NoRow}]
  /\ container \in SUBSET Row
  /\ alarm_counter \in Nat
  /\ failed \/ alarm_counter < UINT_MAX
  /\ datetime \in 0 .. MaxTime
  /\ created \in 0 .. UINT_MAX
  /\ failed \in BOOLEAN

(* The container holds exactly the rows the map points to, so that "each  *)
(* alarm has at most one entry in Alarm Active Table": no row is lost to a *)
(* key that is taken, none stays behind after it is freed, also when the   *)
(* counter starts over or an allocation fails halfway.                     *)
ContainerMatchesMap ==
  container = {alarm_indexes_to_rows[a] : a \in Alarms} \ {NoRow}

(* The severity the rows of alarm a show. *)
Shown(a) ==
  LET rows == {r \in container : r.index = a}
  IN  IF rows = {} THEN UNDEFINED_SEVERITY ELSE (CHOOSE r \in rows : TRUE).severity

Abstract ==
  INSTANCE ActiveAlarms WITH active_rows <- [a \in Alarms |-> Shown(a)]

(* The table implements what the scheduler expects of it: whenever the     *)
(* severity of an alarm is updated the container shows it, or nothing once *)
(* the alarm is cleared, and the rows of the other alarms stay.  Only a    *)
(* failed allocation costs the alarm its row.                              *)
ImplementsActiveAlarms ==
  /\ Abstract!ActiveAlarmsInit
  /\ [][\E a \in Alarms : \E s \in levels[a] :
          /\ severity' = [severity EXCEPT ![a] = s]
          /\ \/ Abstract!alarmActiveTable_trap_handler(a, s)
             \/ failed # failed' /\ Abstract!OutOfMemory(a)
       ]_<<severity, container>>
=============================================================================
