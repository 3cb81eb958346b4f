SPECIFICATION FairSpec
CONSTANTS
  Clients = {c1}
  None = None
  MaxFd = 1
  Kinds = {"timed", "huge"}
  Keys = {k1, k2}
  MaxReqs = 3
  SndBuf = 3
  idle_timeout_ms = 1
  TtlMs = {1}
  k_max_works = 1
  Int32Max = 7
  MaxNow = 1
INVARIANTS
  TypeOK
  StreamsExact
  NoStrandedRequest
PROPERTIES
  BackPressure
  OrderlyClose
  RequestsAnswered
  SilentConnsClosed
  DueKeysReaped
