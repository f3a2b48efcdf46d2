SPECIFICATION StatsSpec
CONSTANTS
  WORD = 32
  Counts = 8
  Threads = {1, 2}
  Requesters = {1, 2}
  Instances <- AllInstances
  Shapes <- MCShapes
  Extensions <- Longer
  TIMEOUT_THRESHOLD = 1
  MaxMessages = 2
INVARIANTS
  StatsTypeOK
  TreeIsLatest
  AstaireRowsMatch
  CountsMatchPairs
  ValuesAreCounts
  OneListener
  WalkSkipsNothing
  OwnStatsAreSafe
PROPERTIES
  AnswersGoForward
  DeadListenerIsNoticed
  MessageIsHandled
