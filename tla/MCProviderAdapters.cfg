SPECIFICATION AdapterSpec
CONSTANTS
  Networks = {k1, k2}
  Adapters = {a1, a2}
  Users = {u1, u2, u3}
  Sends = {c1, c2}
  Null = Null
  MaxOthers = 1
SYMMETRY Symmetry
INVARIANTS NonceTroubleOnlyByRace SignersFollowSlot
CHECK_DEADLOCK FALSE
