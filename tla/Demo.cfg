SPECIFICATION FairSpec
CONSTANTS
  VelocityThreshold = 5
  VelocityWindow = 10
  AmountWarmup = 3
  AmountBlockMultiplier = 8
  DrainAmountMultiplier = 2
  InitialBalances = {30, 40, 1000}
  MaxEvents = 6
INVARIANTS
  SettledIsLearned
  ScreenTellsScenario
  VelocityCapsSettlement
PROPERTY OperationsReturn
