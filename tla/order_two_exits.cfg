SPECIFICATION HeldSpec
CONSTANTS
  Procs = {loop, api}
  Attempts = {a1, a2, a3}
  MaxQty = 1
  Nobody = Nobody
  Held = a1
SYMMETRY HeldSymmetry
INVARIANTS
  NeverShort
