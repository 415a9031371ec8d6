SPECIFICATION FairSpec
CONSTANTS
  Base = 3
  Intervals = {1, 3, 5}
  MaxBackoff = 4
  ShortInterval = 4
  ShortTimeout = 5
  MaxErrors = 4
  MaxAhead = 1
INVARIANTS TypeOK PoolOutlivesTicks
PROPERTIES HealthyPace KeepsTicking Stops
