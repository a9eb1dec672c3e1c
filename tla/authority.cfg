SPECIFICATION MCSpec
CONSTANTS
  k1 = k1  k2 = k2  k3 = k3
  art1 = art1  art2 = art2  rev1 = rev1  rev2 = rev2
  dev = dev  protected = protected
  Keys = {k1, k2, k3}
  Window <- Windows
  Kinds = {"provenance", "licensing"}
  Artifacts = {art1, art2}
  Reviewers = {rev1, rev2}
  Dates = {dev, protected}
  Holdout = {protected}
  Lifetime = 2
  Missing = Missing
  Callers = {"operator", "auditor"}
  Policies <- PolicyChoices
  NoPolicy = NoPolicy
  NoState = NoState
  Anchor <- Root
  Deadline = 3
  Expiries = {2, 3}
  Submissions <- Submitted
  MaxSequence = 4
  MaxTime = 2
  OptionContracts <- Chain
  RawQuotes <- Bids
  Powers = {100, 300}
  Multiplier = 100
  MaxLoss = 200
  Life = 2
  MaxCycles = 2
  MaxClock = 4
  MaxAge = 2
  Payloads <- Bodies
  MaxReal = 5
  MaxBack = 2
  Closes = {1, 2, 3}
  PriorClose = 1
  Premarket = 1
  Minutes = 5
  Lookback = 4
  Short = 2
  Long = 3
  Widths = {100, 1300}
  NetDebits <- DebitsAround
  ContractSize = 100
  Cost = 10
  Minimum = 1500
INVARIANTS TypesOK RetiredStaysOut OneVersionOnePolicy AdmissionOfCheckpoint AdmittedIsVouched
PROPERTIES ImplementsLedger CheckpointNarrows
INVARIANTS OrdersAuthorized CountedWereAsked
INVARIANTS HorizonHasPassed HorizonIsMinutes
INVARIANTS ServedWithinAge
PROPERTIES ImplementsAuthority
CHECK_DEADLOCK FALSE
