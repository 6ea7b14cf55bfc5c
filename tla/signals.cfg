SPECIFICATION Spec
CONSTANTS
  t1 = t1
  Tickers = {t1, t2}
  Contracts = {low, high}
  TickerOf <- MCTickerOf
  MaxPositions = 2
  Ranks = {1, 2}
  WindowMinutes = 2
  CooldownMinutes = 1
  Nothing = Nothing
  Observers = {worker, other}
  Poller = worker
  k1 = k1
  k2 = k2
  Plays = {k1, k2}
  NoPlay = NoPlay
  Cap = 3
  Window = 2
  Short = 1
  MaxAge = 1
  MaxGap = 1
  Lateness = 1
  Faults = 1
INVARIANTS
  
  WindowRanks
  NoHindsight
  NoGapBeforeExit
PROPERTIES
  DecisionStays
CHECK_DEADLOCK FALSE
