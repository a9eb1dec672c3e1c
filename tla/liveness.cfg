\* Units of one vertical, fair scheduling: exits fill in part, entry orders
\* resolve and the exit check keeps coming back.
CONSTANTS
  u1 = u1  u2 = u2  u3 = u3  u4 = u4
  callSpread = callSpread  innerCall = innerCall  putSpread = putSpread
  Units <- TwoUnits
  Structures <- OneStructure
  DirectionOf <- Direction
  Expiration <- OneExpiration
  LongStrike <- Longs
  ShortStrike <- Shorts
  Undated <- OneUndated
  EntryTimeout = 2
  ExitTimeout = 2
  DirCooldown = 1
  MaxStops = 2
  MaxOpen = 2
  MaxSame = 2
  Interval = 1
  Cooldown = 0
  EntryModes <- AnyMode
  AllowUnknown = TRUE
  SlowCalls = {}
  MaxFaults = 0
  MaxRestarts = 1
SPECIFICATION FairSpec
INVARIANTS ExitCovered
PROPERTIES NoDoubleClose WorkingEntryResolves RiskCheckRecurs
