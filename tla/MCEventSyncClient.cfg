SPECIFICATION FairSpec
CONSTANTS
  ServiceCount = 2
  Callers = {c1}
  Listener = listener
  None = none
  Delegate = "client"
  IsServer = FALSE
  InitialBlockNumber = 0
  ReorgDepth = 0
  SaveDepth = 1
  WordSize = 1000
  InitialHead = 0
  MaxReorg = 0
  RpcLag = 1
  MaxBlock = 2
  MaxForks = 0
  MaxFailures = 1
INVARIANT ListenerNeverSkips
PROPERTY ListenerCatchesUp
