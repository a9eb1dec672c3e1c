\* Two stop fills allowed, three units, one session: entries spaced by the
\* interval, which is at least the entry-order timeout.
CONSTANTS
  u1 = u1  u2 = u2  u3 = u3  u4 = u4
  callSpread = callSpread  innerCall = innerCall  putSpread = putSpread
  Units <- ThreeUnits
  Structures <- TwoStructures
  DirectionOf <- Direction
  Expiration <- OneExpiration
  LongStrike <- Longs
  ShortStrike <- Shorts
  Undated = {}
  EntryTimeout = 2
  ExitTimeout = 2
  DirCooldown = 1
  MaxStops = 2
  MaxOpen = 2
  MaxSame = 1
  Interval = 2
  Cooldown = 3
  EntryModes <- EntriesOnly
  AllowUnknown = FALSE
  SlowCalls <- CycleCalls
  MaxFaults = 1
  MaxRestarts = 0
SPECIFICATION Spec
SYMMETRY UnitSymmetry
INVARIANTS StopBudget SingleWorkingEntry UntangledBound
PROPERTIES EntrySpacing
