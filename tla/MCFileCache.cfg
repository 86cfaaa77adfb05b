SPECIFICATION FileSpec
CONSTANTS
  Processes = {p1, p2}
  Keys = {k1, k2}
  Values = {v1, v2}
  Absent = Absent
  Empty = Empty
  Torn = Torn
SYMMETRY Symmetry
INVARIANTS FileIntact UpdatesKept GetsLatest
