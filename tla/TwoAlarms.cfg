SPECIFICATION FairSpec
CONSTANTS
  Alarms <- TwoAlarms
  levels <- TwoAlarmsLevels
  Rank <- BySeverity
  snmp_notifications <- RFC3877Only
  trap_ips = {nms}
  ALARM_REDUCED_DELAY = 2
  ALARM_RETRY_DELAY = 1
  UINT64_MAX = 99
  MaxNow = 3
  MaxInforms = 2
INVARIANTS
  NoMissedWakeup
PROPERTIES
  ScheduledIsHandled
  ShutdownCompletes
