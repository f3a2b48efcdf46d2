SPECIFICATION StatsSpec
CONSTANTS
  WORD = 32
  Counts = 8
  Threads = {1, 2}
  Requesters = {1, 2}
  Instances <- MementoInstances
  Shapes <- MCShapes
  Extensions <- Longer
  TIMEOUT_THRESHOLD = 1
  MaxMessages = 2
INVARIANTS
  RegisteredIsSubscribed
