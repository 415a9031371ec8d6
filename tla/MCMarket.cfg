SPECIFICATION MarketFairSpec
CONSTANTS
  regional = regional
  balanced = balanced
  Rivals = {regional, balanced}
  PriceMult <- MCPriceMult
  SchedRatio <- MCSchedRatio
  Adjustment <- MCAdjustment
  Leased = {regional}
  Capacity <- MCCapacity
  MinProfit = 600
  Threshold = 8
  Outsiders = {0, 1, 150}
  Events <- MCEvents
  MaxShocks = 2
  Distance = 1000
  Speed = 800
  Turnaround = 10
  MaxWeekly = 168
  PoolScale = 290
  OriginDemand = 80
  DestDemand = 70
  FuelPerFlight = 1500
  CrewPerHour = 200
  MaintPerHour = 350
  LeasePerMonth = 100000
INVARIANTS MarketTypeOK NoRaceToBottom
PROPERTIES OneCutEnough 
