SPECIFICATION Spec
CONSTANTS
  Threads = {t1, t2}
  Subscriptions = {s1, s2}
  Outcomes = {paid, refused}
  MaxEvents = 3
  MaxPublished = 5
  NoDigest = NoDigest
SYMMETRY Interchangeable
INVARIANTS
  RetainedChain
  TamperEvident
  DeliveredOnce
  NothingMissed
