SPECIFICATION FairSpec
CONSTANTS
  Threads = {t1, t2}
  VelocityWindow = 2
  MaxTime = 3
  MaxAttempts = 4
  Callers = {"locked", "unlocked"}
INVARIANT CountIsExact
PROPERTY CallsReturn
CHECK_DEADLOCK FALSE
