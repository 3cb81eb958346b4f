SPECIFICATION Spec
CONSTANTS
  Keys = {k1}
  Strs = {s0, s1}
  EmptyStr = s0
  Addrs = {a1, a2}
  Null = Null
  Freed = Freed
  Absent = Absent
  Names = {1, 2}
  Scores = {1, 2}
  NoScore = NoScore
  TtlArgs = {0, 3}
  Offsets <- MCOffsets
  Limits = {0, 2, 4}
  Bad = Bad
  Second = 2
  Int64Max = 5
  k_large_container_size = 1
  k_max_works = 1
  MaxNow = 2
PROPERTY ImplementsExpiringStore
SYMMETRY AddrSymmetry
