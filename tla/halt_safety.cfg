SPECIFICATION Spec
CONSTANTS
  Loop = loop
  Requests = {api}
  Nobody = Nobody
  Durable = TRUE
  Soft = 1
  Hard = 2
  MaxLoss = 2
  MaxHeld = 2
  DayLength = 2
  Freeze = 2
  MaxTime = 3
INVARIANTS
  HaltedIsFlat
PROPERTIES
  ResumeIsSound
  ImplementsHalt
