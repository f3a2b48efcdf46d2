SPECIFICATION TableSpec
CONSTANTS
  Alarms <- ThreeAlarms
  levels <- ThreeAlarmsLevels
  Rank <- BySeverity
  UINT_MAX = 3
  MaxTime = 2
INVARIANTS
  TableTypeOK
  ContainerMatchesMap
PROPERTIES
  ImplementsActiveAlarms
