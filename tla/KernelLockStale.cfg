CONSTANTS
  Cores = {c1, c2}
  Spare = spare
  Funcs = {"Stall", "Invalidate"}
  MaxOps = 2
SPECIFICATION Spec
INVARIANT CallIsCurrent
