\* The launcher's limits: one stop fill, one open spread, one unit per vertical.
CONSTANTS
  u1 = u1  u2 = u2  u3 = u3  u4 = u4
  callSpread = callSpread  innerCall = innerCall  putSpread = putSpread
  Units <- TwoUnits
  Structures <- TwoStructures
  DirectionOf <- Direction
  Expiration <- OneExpiration
  LongStrike <- Longs
  ShortStrike <- Shorts
  Undated <- SomeUndated
  EntryTimeout = 1
  ExitTimeout = 2
  DirCooldown = 1
  MaxStops = 1
  MaxOpen = 1
  MaxSame = 1
  Interval = 1
  Cooldown = 2
  EntryModes <- AnyMode
  AllowUnknown = TRUE
  SlowCalls <- AllCalls
  MaxFaults = 1
  MaxRestarts = 1
SPECIFICATION Spec
INVARIANTS TypeOK StopBudget OneStopInv
PROPERTIES ImplementsLedger
