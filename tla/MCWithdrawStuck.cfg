SPECIFICATION LiveSpec
CONSTANTS
  Calls = {c1}
  Requests <- AllRequests
  FlatFees = {1}
  Overrides = {}
  BPS = 10
  PrivateSendRate = 5
  PaySendRate = 3
  Window = 2
  MaxTries = 1
  MaxOthers = 1
  Loops = {w1}
  StuckFees = {2}
  MaxFaults = 1
CHECK_DEADLOCK FALSE
INVARIANTS StatusNeverAhead CoinsAccounted RefusedOnlyIfRecovered
PROPERTIES PaymentsSpec FundsLeavePool LoopEnds
