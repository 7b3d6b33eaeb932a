SPECIFICATION Spec
CONSTANTS
  FullEvery = 2
  DiffEvery = 1
  CacheSize = 1
  Parsers = 2
  MaxConns = 2
  MaxSessions = 2
  MaxSent = 4
  MaxWire = 2
INVARIANTS
  TwoSessionsExplained
PROPERTIES
  RefusalExplained
  BaseIsLastAck
  ShowsServerStates
CHECK_DEADLOCK FALSE
