SPECIFICATION LiveSpec
CONSTANTS
  Answer = answer
  Games = {g1, g2}
INVARIANTS
  TypeOK
  Connectedness
  SceneMeansAccepted
PROPERTIES
  CrashExplained
  LossExplained
  ResolvesUnless
