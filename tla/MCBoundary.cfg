SPECIFICATION MCSpec
CONSTANTS
  Precision = 2
  MaxDigits = 6
  MaxTimeout = 2
  MaxDecimals = 2
  Limit = 110
  Allowed = {"shop"}
  PayerAccount = "p1"
  Holding = 1000
  ReportedAmounts = {100, 104}
  Answers <- MCAnswers
  Challenges <- MCChallenges
  OwnerOf <- MCOwnerOf
  Earlier <- MCEarlier
  KeyOrder <- MCKeyOrder
  SensitiveKeys <- MCSensitiveKeys
  MaxDepth = 2
  MaxItems = 3
  MaxLength = 3
  MaxSize = 14
  Samples <- MCSamples
  Values <- MCValues
  IndexText <- MCIndexText
INVARIANTS
  SignedAsEvaluated
  SettledAsDecided
  HonestIsReported
  RefusedTouchesNothing
  NothingSensitive
  Bounded
  LossIsReported
CHECK_DEADLOCK FALSE
