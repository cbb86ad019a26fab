SPECIFICATION Spec
CONSTANTS
  Threads = {t1, t2}
  VelocityWindow = 2
  MaxTime = 3
  MaxAttempts = 4
  Callers = {"unlocked"}
INVARIANT EveryAttemptCounts
CHECK_DEADLOCK FALSE
