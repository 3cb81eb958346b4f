SPECIFICATION Spec
CONSTANTS
  Clients = {c1}
  None = None
  MaxFd = 1
  Kinds = {"timed"}
  Keys = {k1}
  MaxReqs = 1
  SndBuf = 2
  idle_timeout_ms = 1
  TtlMs = {2}
  k_max_works = 1
  Int32Max = 1
  MaxNow = 3
INVARIANT WakesInTime
