SPECIFICATION Spec
CONSTANTS
  Entities = {e1}
  Values = {1, 2}
  None = None
  Context = Context
INVARIANTS
  NoGhosts
PROPERTIES
  OmissionsExplained
  ReconcileFollows
