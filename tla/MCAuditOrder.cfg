SPECIFICATION Spec
CONSTANTS
  Threads = {t1, t2}
  Subscriptions = {s1}
  Outcomes = {paid}
  MaxEvents = 2
  MaxPublished = 2
  NoDigest = NoDigest
INVARIANT InOrder
