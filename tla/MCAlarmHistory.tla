-------------------------- MODULE MCAlarmHistory ----------------------------
(* One alarm with two raised levels, so that requests raise, reduce, clear *)
(* and cancel: the answers and timeouts of its informs against changes of  *)
(* the alarm.                                                              *)
EXTENDS AlarmHistory, Sequences

OneAlarm == {2000}
OneAlarmLevels == [a \in OneAlarm |-> {CLEARED, MINOR, MAJOR}]

(* The order the unit tests of the scheduler expect of operator>. *)
BySeverity == [s \in Severity |-> <<0, 1, 2, 6, 5, 4, 3>>[s + 1]]

RFC3877Only == {"RFC3877"}
=============================================================================
