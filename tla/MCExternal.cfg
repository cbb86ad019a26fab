SPECIFICATION Spec
CONSTANTS
  Threads = {t1, t2}
  Attempts = {a1}
  Adapters = {"x402_live", "paysh"}
  RequestLifetime = 1
  AuthorizationLifetime = 2
  MaxTime = 3
  MaxRestarts = 1
SYMMETRY ThreadSymmetry
INVARIANTS
  TypeOK
  RestartExposure
  ExposureEnds
  FailureIsFinal
CHECK_DEADLOCK FALSE
