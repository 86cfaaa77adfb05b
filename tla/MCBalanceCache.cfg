SPECIFICATION Spec
CONSTANTS
  alice = alice
  bob = bob
  Users = {alice, bob}
  Threads = {t1, t2}
  None = none
  MaxOutputs = 2
  Owner <- OwnersOfTwo
  Remote = TRUE
  ViewLag = 0
  EnclaveLag = 1
CONSTRAINT Bounds
SYMMETRY Symmetry
INVARIANTS CacheSound BalanceExact
