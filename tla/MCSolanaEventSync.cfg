SPECIFICATION LiveSpec
CONSTANTS
  Depth = 2
  Limit = 1
  InitLimit = 2
  MaxSlot = 4
  MaxTxs = 4
  MaxForks = 1
  MaxSkips = 1
INVARIANTS ScannedComplete ListenedExact
PROPERTY SolanaListenerCatchesUp
