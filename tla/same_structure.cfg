\* One session, two calls one inside the other: their units are paired anew.
CONSTANTS
  u1 = u1  u2 = u2  u3 = u3  u4 = u4
  callSpread = callSpread  innerCall = innerCall  putSpread = putSpread
  Units <- ThreeUnits
  Structures <- NestedCalls
  DirectionOf <- Direction
  Expiration <- OneExpiration
  LongStrike <- Longs
  ShortStrike <- Shorts
  Undated = {}
  EntryTimeout = 2
  ExitTimeout = 2
  DirCooldown = 1
  MaxStops = 3
  MaxOpen = 3
  MaxSame = 1
  Interval = 1
  Cooldown = 0
  EntryModes <- EntriesOnly
  AllowUnknown = FALSE
  SlowCalls = {}
  MaxFaults = 0
  MaxRestarts = 0
SPECIFICATION Spec
SYMMETRY UnitSymmetry
INVARIANTS SameStructureBound
