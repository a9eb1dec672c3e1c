SPECIFICATION MCSpec
CONSTANTS
  Runs = {r1, r2}
  First = r1
  ByHand = {h1}
  MaxRestarts = 1
  Nobody = Nobody
  MaxFailures = 1
  MaxLosses = 1
CHECK_DEADLOCK FALSE
INVARIANTS OneAttempt CompletedRanToClose RepeatsBounded LedgerIsTrue AlertsInTime
PROPERTIES BlockedAlerted
