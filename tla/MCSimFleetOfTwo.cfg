SPECIFICATION FairSpec
CONSTANTS
  Players = {p1, p2}
  Ticks = {worker, admin}
  Syncs = {s1}
  Nobody = Nobody
  NetFlows = {1}
  Installments = {1}
  StartingCash = 1
  CashFloor <- MCFloor
  NegativeDays = 1
  DayLength = 2
  MaxTime = 2
  MaxResets = 0
  MaxFaults = 1
PROPERTY CatchesUp
