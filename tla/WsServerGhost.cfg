CONSTANTS
  p1 = p1
  Hdls = {h1, h2}
  Players = {p1}
  PlayerOf <- MCPlayerOf
  MaxRequests = 1
  None = None
SPECIFICATION Spec
INVARIANTS
  ConnectedMeansOpen
