SPECIFICATION Spec
CONSTANTS
  Aircraft = {a1, a2}
  Airports = {x, y}
  Nothing = Nothing
  Closed = Closed
  Unflown = Unflown
  Every <- MCEvery
  TickHours = 6
  FleetCap = 2
  Reserve = 7
  StartingCash = 50
  Million = 2
  LossDays = 2
  RepairCost = 1
  LeaseCost = 6
  Price = 75
  Cashes <- MCCashes
  Balances = {2}
  MaxLoans = 1
  MaxFaults = 1
INVARIANTS TypeOK OneRouteEach RecoveryLoanOnce
PROPERTY NoChurn
SYMMETRY MCSymmetry
