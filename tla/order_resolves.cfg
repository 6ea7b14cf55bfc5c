SPECIFICATION FairSpec
CONSTANTS
  Procs = {loop}
  Attempts = {a1}
  MaxQty = 2
  Nobody = Nobody
  Held = a1
PROPERTIES
  AttemptsResolve
