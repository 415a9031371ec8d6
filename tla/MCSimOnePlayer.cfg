SPECIFICATION Spec
CONSTANTS
  Players = {p1}
  Ticks = {worker}
  Syncs = {s1}
  Nobody = Nobody
  NetFlows <- MCNetFlows
  Installments = {1}
  StartingCash = 1
  CashFloor <- MCFloor
  NegativeDays = 1
  DayLength = 2
  MaxTime = 3
  MaxResets = 1
  MaxFaults = 2
INVARIANTS TypeOK BilledOnce DayServedAtMostOnce InsolventIsBankrupt
PROPERTY KeepsPromise
