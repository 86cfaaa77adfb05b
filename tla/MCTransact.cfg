SPECIFICATION AnySpec
CONSTANTS
  Calls = {c1, c2}
  Tokens = {"A", "B"}
  Volatile = {"B"}
  Native = {"B"}
  ResetFirst = {"A"}
  Clients <- AllClients
  BPS = 10
  PrivateSendRate = 5
  SlippageRate = 1
SYMMETRY Symmetry
CHECK_DEADLOCK FALSE
INVARIANTS
  ExecutedAsRequested
  Conservation
  RejectedOnlyByConflict
  FitsCircuit
  RefusedOnlyIfUnpayable
  AtMostOncePerView
  LocalRootCovers
  PricedAsExecuted
  SwapCredit
