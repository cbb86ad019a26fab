SPECIFICATION Spec
CONSTANTS
  Threads = {t1, t2}
  Requests <- RacingRequests
  Mandates <- MCMandates
  InitialBalances <- MCInitialBalances
  AuthorizationLifetime = 1
  MaxTime = 2
  MayRaise <- AllSteps
  CallerLock = FALSE
  NoAuthorization = NoAuthorization
SYMMETRY ThreadSymmetry
INVARIANTS
  TypeOK
  PaidOncePerPair
  OneVerdictPerPair
  RefusedNeverPaid
  PaidWithPapers
  BaselineOnlyFromPaid
PROPERTY ChainOfRights
