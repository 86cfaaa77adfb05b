SPECIFICATION FairSpec
CONSTANTS
  ServiceCount = 2
  Callers = {c1}
  Listener = listener
  None = none
  Delegate = "polling"
  IsServer = TRUE
  InitialBlockNumber = 0
  ReorgDepth = 2
  SaveDepth = 1
  WordSize = 1000
  InitialHead = 2
  MaxReorg = 1
  RpcLag = 0
  MaxBlock = 4
  MaxForks = 1
  MaxFailures = 2
INVARIANTS NoEventLost StoreCovers NoOrphans
PROPERTIES StoreGrows ListenerCatchesUp
