CONSTANTS
  t1 = t1  t2 = t2  t3 = t3  s1 = s1  s2 = s2  n1 = n1  e1 = e1
  idle = idle  idleSC = idleSC  Null = Null
  EPs = {e1}
  SCs = {s1, s2}
  Prios = {1, 2}
  Badges = {1, 2}
  EPCaps <- MC_caps
  initSC <- MC_initSC
  initPrio <- MC_prio
  initNtfnSC <- MC_noNtfnSC
  faultEP <- MC_faultEP
  timeoutEP <- MC_timeoutEP
  Threads = {t1, t2, t3}
  Ntfns = {}
  Replies = {r1, r2}
  MaxDelay = 1
  initBound <- MC_unbound
  Ops = {"Send", "NBSend", "Call", "Recv", "NBRecv", "Reply", "ReplyRecv", "NBSendRecv",
         "Fault", "Resume", "Suspend", "SCBind", "SCUnbind", "Delete", "CancelBadgedSends", "SetPriority",
         "WriteRegisters"}
SPECIFICATION Spec
SYMMETRY ReplySymmetry
INVARIANTS NoAssertionFails WaitQueues CallStacks ContextOwnership FaultsHold
PROPERTIES ContextReturns
