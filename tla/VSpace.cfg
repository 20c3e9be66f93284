CONSTANTS
  v1 = v1  v2 = v2  p1 = p1  p2 = p2  f1 = f1  f2 = f2  c1 = c1  c2 = c2
  q1 = q1  q2 = q2  t1 = t1  t2 = t2  idle = idle  Null = Null
  VRoots = {v1, v2}
  PTs = {p1, p2}
  Frames = {f1, f2}
  frameLevel <- MC_frameLevel
  FrameCaps = {c1, c2}
  Pools = {q1}
  UPT_LEVELS = 3
  Index = {0, 1}
  VAddrs <- MC_VAddrs
  asidLowSize = 3
  nASIDPools = 1
  nHWASIDs = 1
  MaxPTCaps = 2
  MaxOps = 6
  Threads = {t1, t2}
  itTables <- MC_itTables  itFrame = f1  itFrameCap = c1  itPool = q1  itThread = t1
SPECIFICATION Spec
INVARIANTS TLBCoherent MappingsHaveCaps HardwareASIDsAgree
