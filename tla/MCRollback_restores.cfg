\* A missing target shifts the pairs of the ones behind it.
CONSTANTS
  a = a
  b = b
  out = out
  old = old
  new = new
  None = None
  Torn = Torn
  Names = {a, b}
  Outside = {}
  Contents = {old, new}
  TargetLists <- MissingFirst
SPECIFICATION Spec
INVARIANTS
  RollbackRestoresPriorState
