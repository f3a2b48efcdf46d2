SPECIFICATION AgentSpec
CONSTANTS
  Clients = {sprout, homestead}
  MaxRequests = 3
  MaxPosts = 2
INVARIANTS
  ListenerTypeOK
  OnlyErrorsEndListener
  StoppedIsClean
PROPERTIES
  StartReturns
  StopReturns
  RequestIsAnswered
  TerminationEndsAgent
