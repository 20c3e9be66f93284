CONSTANTS
  Cores = {c1, c2}
  Spare = spare
  Funcs = {"Stall"}
  MaxOps = 2
SPECIFICATION FairSpec
PROPERTIES EntriesFinish StalledCoreReschedules
