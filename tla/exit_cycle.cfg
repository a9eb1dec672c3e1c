SPECIFICATION MCSpec
CONSTANTS
  Spreads = {s1, s2}
  Credits = {0, 8, 15, 17}
  Debits = {11}
  TakeProfit = 30
  StopLoss = 20
  Concession = 1
  Timeout = 2
  MaxLots = 2
  MaxFaults = 1
  Structures <- Shared
  Prices = {1, 2}
  LimitDebit = 2
  Limit = 3
  MaxOrders = 4
  MaxVague = 1
INVARIANTS TypeOK PriceTellsTrigger LimitWithinSeen ManagedIsHeld HeldIsManaged
PROPERTIES UnattendedLossExits StaleStopResolves ExitsWhatIsHeld
CHECK_DEADLOCK FALSE
