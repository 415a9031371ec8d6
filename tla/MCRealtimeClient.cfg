SPECIFICATION ClientFairSpec
CONSTANTS
  Stores = {bank, simulation}
  Channels = {loans, transactions}
  MaxDelay = 3
  MaxCalls = 3
  MaxFaults = 2
INVARIANTS ClientTypeOK OneConnection ServerKnows
PROPERTY Reconnects
CHECK_DEADLOCK FALSE
