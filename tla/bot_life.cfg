SPECIFICATION ExitSpec
CONSTANTS
  Workers = {w1, w2}
  Requests = {r1}
  Nobody = Nobody
  Rekeying = FALSE

  
PROPERTIES
  HaltEndsLoops
  StopIsHeard
  ExitIsRetried
