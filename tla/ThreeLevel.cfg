SPECIFICATION Spec
CONSTANTS
  PC <- MCPC
  Addr <- MCAddr
  StartsOf <- MCStartsOf
  BrType <- MCIndirectBrType
  TargetsOf <- MCIndirectTargetsOf
  NoEntry = NoEntry
  L1Set <- OneSet
  L2Set <- OneSet
  L3Set <- OneSet
  PBSet <- OneSet
  L1Ways = 1
  L2Ways = 1
  L3Ways = 2
  PBWays = 1
  enableL3 = TRUE
  nonexclusive = TRUE
  minInstSize = 1
  l2Latency = 1
  l3Latency = 2
  trainBitsOnLookup = FALSE
  trainBitsOnCommit = TRUE
  prefetchOnPrefetchHit = TRUE
  cleanBitsOnL1Promotion = FALSE
  noPrefetchLatency = FALSE
  prefetchDepth = 2
  maxChainTrackerEntries = 1
  depthOnlyCall = FALSE
  limitRet = TRUE
  newPBits = TRUE
  onlyCall = FALSE
  onlyCallAndBackward = FALSE
  callFallthrough = TRUE
  forwardLoopExit = TRUE
  backwardLoopExit = TRUE
  allConditional = TRUE
  prefetchFwExitOnL1Hit = TRUE
  indirectAltBit = TRUE
  requiresBTBHit = TRUE
  updateBTBAtSquash = FALSE
  UIntRange = 65536
  MaxChains = 1
INVARIANTS
  CoveredCycleDefined
  EveryPrefetchAccounted
