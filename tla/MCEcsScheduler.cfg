CONSTANTS
  N = 3
  X = X
  Types <- MCTypes
  Decls <- MCDecls
  MainOnly = {2}
  Pool = {p1, p2}
  Main = Main
  Nobody = Nobody
SPECIFICATION LiveSpec
INVARIANTS
  IInv
  ConflictingNodesExclude
  RunsInPlace
  ReturnsWhenDone
  HangMeansWaiting
PROPERTIES
  ExecuteEnds
