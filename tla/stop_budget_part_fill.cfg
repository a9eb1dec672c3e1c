\* Two units in one vertical, in one session: a stop-loss exit that has filled
\* in part hides a unit from the stop count and from the positions.
CONSTANTS
  u1 = u1  u2 = u2  u3 = u3  u4 = u4
  callSpread = callSpread  innerCall = innerCall  putSpread = putSpread
  Units <- FourUnits
  Structures <- TwoStructures
  DirectionOf <- Direction
  Expiration <- OneExpiration
  LongStrike <- Longs
  ShortStrike <- Shorts
  Undated = {}
  EntryTimeout = 1
  ExitTimeout = 2
  DirCooldown = 0
  MaxStops = 3
  MaxOpen = 3
  MaxSame = 2
  Interval = 1
  Cooldown = 2
  EntryModes <- EntriesOnly
  AllowUnknown = FALSE
  SlowCalls = {}
  MaxFaults = 0
  MaxRestarts = 0
SPECIFICATION Spec
SYMMETRY UnitSymmetry
INVARIANTS StopBudget
