SPECIFICATION FairSpec
CONSTANTS
  Loop = loop
  Requests = {api}
  Nobody = Nobody
  Durable = FALSE
  Soft = 1
  Hard = 1
  MaxLoss = 1
  MaxHeld = 1
  DayLength = 1
  Freeze = 1
  MaxTime = 2
PROPERTIES
  
  BreachIsKept
