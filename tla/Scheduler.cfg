SPECIFICATION Spec
CONSTANTS
  t1 = t1
  t2 = t2
  t3 = t3
  idle = idle
  initThread = t1
  Threads <- MCThreads
  numDomains = 2
  CONFIG_NUM_PRIORITIES = 3
  wordBits = 2
  domScheduleLength = 3
  DSCHED_MAX_DURATION = 2
  MIN_BUDGET = 1
  Steps <- MCSteps
  InitPriorities <- MCInitPriorities
  MaxOps = 3
INVARIANTS
  ReadyQueuesAgree
  HighestRuns
  DomainScheduleSound
