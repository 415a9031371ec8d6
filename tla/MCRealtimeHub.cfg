SPECIFICATION FairSpec
CONSTANTS
  Clients = {c1, c2}
  Names = {fleet, loans}
  Allowed = {fleet, loans}
  Buffer = 1
INVARIANT TypeOK
PROPERTIES ClosedForGood Released
