CONSTANTS
  Tasks = {t1, t2, t3}
  Horizon = 3
  Poll = 2
  Lag = 1
  None = None
SPECIFICATION LiveSpec
INVARIANTS
  OnTime
  KeptUnlessTied
PROPERTIES
  ImplementsTimers
  DestructorReturns
