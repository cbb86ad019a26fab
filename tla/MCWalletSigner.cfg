SPECIFICATION Spec
CONSTANTS
  t1 = t1
  t2 = t2
  w1 = w1
  w2 = w2
  s1 = s1
  s2 = s2
  Threads <- MCThreads
  Wallets <- MCWallets
  Stores <- MCStores
  Requests <- MCRequests
  Devnet <- MCDevnet
  Authorizations <- MCAuthorizations
  RequestOf <- MCRequestOf
  ExpiresAt <- MCExpiresAt
  RequestExpires <- MCRequestExpires
  MaxTime = 1
SYMMETRY Interchangeable
INVARIANTS
  TypeOK
  SignedAsIssued
  SignedOnce
  ReceiptsAreSignatures
PROPERTY PermissionIsSingleUse
