\* Every plan over two workspace files and one outside, with faults and lost snapshots.
CONSTANTS
  a = a
  b = b
  out = out
  old = old
  new = new
  None = None
  Torn = Torn
  Names = {a, b, out}
  Outside = {out}
  Contents = {old, new}
  TargetLists <- MCTargetLists
SPECIFICATION Spec
INVARIANTS
  TypeOK
  AlignedRollbackRestores
  WholePlanRestores
PROPERTIES
  RollbackIsConfined
