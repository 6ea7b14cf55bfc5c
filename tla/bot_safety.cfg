SPECIFICATION Spec
CONSTANTS
  Workers = {w1, w2}
  Requests = {r1, r2}
  Nobody = Nobody
  Rekeying = TRUE
SYMMETRY Symmetry
INVARIANTS
  LoopIsKnown
