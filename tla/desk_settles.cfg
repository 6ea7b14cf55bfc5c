SPECIFICATION FairSpec
CONSTANTS
  Loop = loop
  Api = api
  Procs = {loop, api}
  Contracts = {c1}
  Tickers = {t1}
  c1 = c1
  c2 = c2
  t1 = t1
  t2 = t2
  TickerOf <- MCTickerOf
  Slots = {o1}
  Rows = {r1, r2}
  MaxQty = 2
  MaxPositions = 1
  Nobody = Nobody
  NoRow = NoRow
INVARIANTS
  JournalIsBacked
PROPERTIES
  GhostsSettle
CHECK_DEADLOCK FALSE
