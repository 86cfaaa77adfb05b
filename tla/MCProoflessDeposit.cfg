SPECIFICATION Spec
CONSTANTS
  Calls = {c1, c2}
  Chains <- AllChains
  Tokens = {"nat", "A", "B"}
  Native = "nat"
  ResetFirst = {"A"}
  Requests <- AllRequests
  Funds <- Few
  Allowances <- SomeAllowance
  Word = 8
  FeeLimit = 2
  Padding = 1
  PaddingBase = 1
  Costs = {2, 3}
  FreeEnergy = 1
  MaxSends = 3
SYMMETRY Symmetry
INVARIANTS DepositedOnce RevertedOnlyIfShared NoStandingAllowance
CHECK_DEADLOCK FALSE
