SPECIFICATION Spec
CONSTANTS
  Spreads = {s1}
  Credits = {0, 7, 13, 15}
  Debits = {10}
  TakeProfit = 30
  StopLoss = 20
  Concession = 1
  Timeout = 2
  MaxLots = 2
  MaxFaults = 0
PROPERTIES StopLossReached
