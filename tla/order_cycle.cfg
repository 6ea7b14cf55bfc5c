SPECIFICATION Spec
CONSTANTS
  Procs = {loop}
  Attempts = {a1, a2}
  MaxQty = 2
  Nobody = Nobody
  Held = a1
SYMMETRY Symmetry
INVARIANTS
  NeverOverfilled
  ClosedIsComplete
  NoOrphanOrder
  OneLiveOrder
  BookedIsExecuted
  JournalMatchesEntry
PROPERTIES
  SettledForGood
  ImplementsLedger
