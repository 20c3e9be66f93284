CONSTANTS
  Slots <- MC_slots
  IRQs = {1}
  irqNode <- MC_irqNode
  Badges = {1}
  TCBBits = 2
  tcbCNodeEntries = 4
  ObjectTypes = {"endpoint", "notification", "cnode", "thread", "untyped"}
  CONFIG_RESET_CHUNK_BITS = 1
  CONFIG_RETYPE_FAN_OUT_LIMIT = 1
  initCNode = 16
  rootSlot = 21
  initCaps <- MC_initCaps
  seL4_MinUntypedBits = 1
  MaxObjectBits = 1
  MaxOffset = 3
  MaxOps = 3
SPECIFICATION Spec
CHECK_DEADLOCK FALSE
INVARIANTS NoAssertionFails ListIsDerivationTree FinalMeansLast MemoryHasOneUse FreeMemoryIsClear NoStrandedCapability InterruptsFollowHandlers
