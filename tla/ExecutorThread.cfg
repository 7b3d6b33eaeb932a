CONSTANTS
  Executors = {e1}
  Lists = {l1, l2, l3}
  MaxQueue = 2
  None = None
SPECIFICATION RecurringSpec
INVARIANTS
  TypeOK
  DetachedIsQuiet
  BoundedOvertaking
PROPERTIES
  QueuedTasksRun
