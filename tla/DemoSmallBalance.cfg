SPECIFICATION FairSpec
CONSTANTS
  VelocityThreshold = 5
  VelocityWindow = 10
  AmountWarmup = 3
  AmountBlockMultiplier = 8
  DrainAmountMultiplier = 2
  InitialBalances = {20}
  MaxEvents = 6
PROPERTY EveryOperationReturns
