SPECIFICATION Spec
CONSTANTS
  Loop = loop
  Api = api
  Procs = {loop, api}
  Contracts = {c1, c2}
  Tickers = {t1, t2}
  c1 = c1
  c2 = c2
  t1 = t1
  t2 = t2
  TickerOf <- MCTickerOf
  Slots = {o1, o2}
  Rows = {r1, r2}
  MaxQty = 1
  MaxPositions = 1
  Nobody = Nobody
  NoRow = NoRow
SYMMETRY Symmetry
INVARIANTS
  JournalIsBacked
  CapacityKept
CHECK_DEADLOCK FALSE
