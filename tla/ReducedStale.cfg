SPECIFICATION Spec
CONSTANTS
  Alarms <- OneAlarm
  levels <- OneAlarmLevels
  Rank <- BySeverity
  snmp_notifications <- BothTypes
  trap_ips = {nms}
  ALARM_REDUCED_DELAY = 2
  ALARM_RETRY_DELAY = 2
  UINT64_MAX = 99
  MaxNow = 6
  MaxInforms = 2
PROPERTIES
  ReducedIsDelayed
