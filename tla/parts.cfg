SPECIFICATION Spec
CONSTANTS
  Workers = {w1, w2}
  Accounts = {paper, live}
  NoWorker = NoWorker
  NoAccount = NoAccount
  Callers = {p1, p2}
  Threshold = 3
  Cooldown = 2
  Retries = 2
  Sizes = {1, 2, 5}
  MaxRestarts = 2
  Requests = {q1, q2}
  Guard = guard
  Pairs = {a, b}
  Losers = {a}
  ReadsFail = FALSE
  Absent = Absent
  Nobody = Nobody
  Observers = {poller}
  Poller = poller
  Plays = {play}
  NoPlay = NoPlay
  Cap = 2
  Window = 2
  Short = 1
  MaxAge = 1
  MaxGap = 1
  Lateness = 1
  Faults = 1
INVARIANTS
  TypeOK
  OneWorker
  
  OneFailurePerCooldown
  HalfAtMost
  DecisionsAddUp
PROPERTIES
  ResearchResumes
  ProbedAgain
  FullExitEnds
  LosersPaused
  EvidenceSettles
CHECK_DEADLOCK FALSE
