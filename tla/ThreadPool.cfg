SPECIFICATION FairSpec
CONSTANTS
  Workers = {w1, w2, w3}
  Producers = {p1, p2}
  Owner = Owner
  Tasks = {t1, t2, t3}
  None = None
INVARIANT ExactlyOnce
INVARIANT NoForgottenTask
INVARIANT NobodySleepsThroughStop
INVARIANT DrainedBeforeGone
INVARIANT TasksRunUnlocked
PROPERTY DestructorReturns
PROPERTY ImplementsFairTaskPool
CHECK_DEADLOCK FALSE
