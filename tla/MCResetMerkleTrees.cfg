SPECIFICATION LiveSpec
CONSTANTS
  Chains = {k1, k2}
  Connected = {k1, k2}
  Foreign = foreign
  Calls = {c1, c2}
  Lists = {{}, {k1, foreign}}
  None = none
  Lag = 0
  MaxHeight = 1
  Gaps = {k1}
INVARIANT FreshAfterReset
PROPERTY CallsReturn
CHECK_DEADLOCK FALSE
