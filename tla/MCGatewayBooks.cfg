SPECIFICATION FairSpec
CONSTANTS
  Threads = {t1, t2}
  Requests <- LedgerRequests
  Mandates <- MCMandates
  InitialBalances <- MCInitialBalances
  AuthorizationLifetime = 1
  MaxTime = 1
  MayRaise <- NoSteps
  CallerLock = TRUE
  NoAuthorization = NoAuthorization
INVARIANT BooksBalance
PROPERTY ConsumedIsAnswered
