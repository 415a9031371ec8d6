SPECIFICATION Spec
CONSTANTS
  b1 = b1
  b2 = b2
  s1 = s1
  Borrowers = {b1, b2}
  Servicers = {s1}
  Nobody = Nobody
  MaxLoans = 1
  MaxActive = 1
  Principal = 3
  Financed = 4
  Installment = 2
  DownPayment = 2
  Amounts = {1, 9}
  Saving = 1
  MaxRate = 1
  LateFee = 1
  DefaultAfter = 2
  RepossessAfter = 2
  Flows <- MCFlows
  StartingCash = 2
  CashFloor <- MCFloor
  MinCash <- MCMinCash
  MaxCash = 4
  MaxFaults = 1
INVARIANTS TypeOK NoLostUpdate
PROPERTY OnlyFlyingOverdraws
