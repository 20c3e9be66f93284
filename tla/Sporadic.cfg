SPECIFICATION Spec
CONSTANTS
  MIN_BUDGET = 2
  MAX_RELEASE_TIME = 15
  Budgets = {2, 4}
  Periods = {4, 6}
  MaxRefills = {2}
  Flags = {TRUE, FALSE}
  Latencies = {0, 15}
  Steps = {0, 1, 14}
INVARIANTS RefillSanity HeadUsable NoOverflow ConstantBandwidth ReleasedWithinPeriod
CHECK_DEADLOCK FALSE
