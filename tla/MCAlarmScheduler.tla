-------------------------- MODULE MCAlarmScheduler --------------------------
(* Small instances of AlarmScheduler for TLC. *)
EXTENDS AlarmScheduler, Sequences

(* Two alarms that share the heap. *)
TwoAlarms == {1000, 1001}
TwoAlarmsLevels == [a \in TwoAlarms |-> {CLEARED, CRITICAL}]

(* One alarm with more than one raised level. *)
OneAlarm == {2000}
OneAlarmLevels == [a \in OneAlarm |-> {CLEARED, MINOR, MAJOR}]

(* The order the unit tests of the scheduler expect of operator>. *)
BySeverity == [s \in Severity |-> <<0, 1, 2, 6, 5, 4, 3>>[s + 1]]

RFC3877Only == {"RFC3877"}
BothTypes == {"RFC3877", "ENTERPRISE"}
=============================================================================
