SPECIFICATION Spec
CONSTANTS
  Clients = {c1, c2, c3}
  None = None
  MaxFd = 2
  Kinds = {"timed"}
  Keys = {k1}
  MaxReqs = 1
  SndBuf = 1
  idle_timeout_ms = 1
  TtlMs = {1}
  k_max_works = 1
  Int32Max = 7
  MaxNow = 1
INVARIANT TablesAgree
INVARIANT IdleListSorted
INVARIANT WakesInTime
PROPERTY SweepExact
SYMMETRY Symmetry
