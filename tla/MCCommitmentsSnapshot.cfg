SPECIFICATION CommitmentsSpec
CONSTANTS
  Levels = 4
  Default = default
  c1 = c1
  c2 = c2
  c3 = c3
  c4 = c4
  c5 = c5
  o1 = o1
  o2 = o2
  o3 = o3
  o4 = o4
  Commitments = {c1, c2, c3, c4, c5}
  OutputOf <- SharedOutputs
  MaxLeaves = 5
  MaxReorgs = 2
SYMMETRY Interchangeable
INVARIANTS TreeCorrect OutputsExact
