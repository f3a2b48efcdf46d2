SPECIFICATION Spec
CONSTANTS
  Alarms <- OneAlarm
  levels <- OneAlarmLevels
  Rank <- BySeverity
  snmp_notifications <- RFC3877Only
  trap_ips = {nms}
  ALARM_REDUCED_DELAY = 2
  ALARM_RETRY_DELAY = 2
  UINT64_MAX = 99
  MaxNow = 5
  MaxInforms = 2
PROPERTIES
  ResyncIsPrompt
