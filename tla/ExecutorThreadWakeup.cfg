CONSTANTS
  Executors = {e1}
  Lists = {l1}
  MaxQueue = 1
  None = None
SPECIFICATION LiveSpec
PROPERTIES
  AddedTasksRun
