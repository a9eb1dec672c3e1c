\* The cut-off falls while the entry cycle is running.
CONSTANTS
  u1 = u1  u2 = u2  u3 = u3  u4 = u4
  callSpread = callSpread  innerCall = innerCall  putSpread = putSpread
  Units <- ThreeUnits
  Structures <- TwoStructures
  DirectionOf <- Direction
  Expiration <- OneExpiration
  LongStrike <- Longs
  ShortStrike <- Shorts
  Undated = {}
  EntryTimeout = 2
  ExitTimeout = 2
  DirCooldown = 1
  MaxStops = 2
  MaxOpen = 2
  MaxSame = 1
  Interval = 2
  Cooldown = 3
  EntryModes <- EntriesOnly
  AllowUnknown = FALSE
  SlowCalls <- CycleCalls
  MaxFaults = 1
  MaxRestarts = 0
SPECIFICATION Spec

PROPERTIES NoEntryInCutoff
