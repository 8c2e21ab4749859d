SPECIFICATION Spec
CONSTANTS
  PC <- MCPC
  Addr <- MCAddr
  StartsOf <- MCStartsOf
  BrType <- MCReturnBrType
  TargetsOf <- MCReturnTargetsOf
  NoEntry = NoEntry
  L1Set <- OneSet
  L2Set <- OneSet
  L3Set <- OneSet
  PBSet <- OneSet
  L1Ways = 1
  L2Ways = 3
  L3Ways = 3
  PBWays = 1
  enableL3 = FALSE
  nonexclusive = TRUE
  minInstSize = 1
  l2Latency = 1
  l3Latency = 2
  trainBitsOnLookup = FALSE
  trainBitsOnCommit = TRUE
  prefetchOnPrefetchHit = TRUE
  cleanBitsOnL1Promotion = FALSE
  noPrefetchLatency = FALSE
  prefetchDepth = 2
  maxChainTrackerEntries = 1
  depthOnlyCall = FALSE
  limitRet = TRUE
  newPBits = TRUE
  onlyCall = FALSE
  onlyCallAndBackward = FALSE
  callFallthrough = TRUE
  forwardLoopExit = FALSE
  backwardLoopExit = TRUE
  allConditional = TRUE
  prefetchFwExitOnL1Hit = FALSE
  indirectAltBit = FALSE
  requiresBTBHit = TRUE
  updateBTBAtSquash = TRUE
  UIntRange = 65536
  MaxChains = 2
INVARIANTS
  TypeOK
  ChainBudget
  ExhaustedIsFinal
  IssuedOnTime
  CoveredCycleDefined
  EveryPrefetchAccounted
  SampleIsExact
