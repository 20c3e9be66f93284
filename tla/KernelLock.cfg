CONSTANTS
  Cores = {c1, c2}
  Spare = spare
  Funcs = {"Stall", "Invalidate"}
  MaxOps = 2
SPECIFICATION Spec
SYMMETRY CoreSymmetry
INVARIANTS MutualExclusion RemoteCallExclusive RemoteCallComplete NoNestedStall LockInv
