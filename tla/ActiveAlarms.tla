---------------------------- MODULE ActiveAlarms ----------------------------
(***************************************************************************)
(* What the alarm active table promises the scheduler: per alarm at most   *)
(* one row, that of the severity last handed to it, and none once the      *)
(* alarm is cleared.  Only a lack of memory may cost an alarm its row.     *)
(* AlarmActiveTable is the table itself.                                   *)
(***************************************************************************)
EXTENDS AlarmTableDefs

VARIABLE
  active_rows   \* the severity of the alarm's row; UNDEFINED_SEVERITY: no row

ActiveAlarmsInit == active_rows = [a \in Alarms |-> UNDEFINED_SEVERITY]

alarmActiveTable_trap_handler(a, s) ==
  active_rows' =
    [active_rows EXCEPT ![a] = IF s = CLEARED THEN UNDEFINED_SEVERITY ELSE s]

OutOfMemory(a) == active_rows' = [active_rows EXCEPT ![a] = UNDEFINED_SEVERITY]
=============================================================================
