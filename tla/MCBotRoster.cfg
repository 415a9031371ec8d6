SPECIFICATION FairSpec
CONSTANTS
  Bots = {b1, b2, b3, b4, b5, b6, b7}
  MaxBots = 2
  TablesPresent = TRUE
  MaxFaults = 3
  MaxFailures = 2
INVARIANTS TypeOK RosterCapped
PROPERTY RosterSettles
