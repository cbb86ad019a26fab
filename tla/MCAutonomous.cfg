SPECIFICATION FairSpec
CONSTANTS
  r1 = r1
  mallory = mallory
  agentA = agentA
  agentB = agentB
  keyA = keyA
  keyB = keyB
  first = first
  second = second
  Runners = {r1}
  Clients = {mallory}
  Owner <- MCOwner
  KeyOf <- MCKeyOf
  Scenarios <- MCScenarios
  Times = {1, 2}
  MaxRuns = 2
  MaxPosts = 1
INVARIANTS TypeOK OnlySignedIntents LogAccountsForMoney ReportTellsMoney
PROPERTY RunsEnd
CHECK_DEADLOCK FALSE
