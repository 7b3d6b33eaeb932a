CONSTANTS
  Inputs = {i1, i2, i3}
  Zero = Zero
SPECIFICATION CombinerLiveSpec
INVARIANTS
  ClearRacesNobody
  ResultReadable
  CallbackFindsCombiner
PROPERTIES
  ImplementsAll
  DeliveredAndFreed
