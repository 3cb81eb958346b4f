SPECIFICATION Spec
CONSTANTS
  Keys = {k1, k2}
  Strs = {s0}
  EmptyStr = s0
  Addrs = {a1, a2, a3}
  Null = Null
  Freed = Freed
  Absent = Absent
  Names = {1}
  Scores = {1}
  NoScore = NoScore
  TtlArgs = {0, 1}
  Offsets = {}
  Limits = {}
  Bad = Bad
  Second = 2
  Int64Max = 5
  k_large_container_size = 0
  k_max_works = 1
  MaxNow = 2
PROPERTY NoOverdueKeyListed
SYMMETRY AddrSymmetry
