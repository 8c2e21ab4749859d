SPECIFICATION Spec
CONSTANTS
    MaxAddr = 2
    Code <- MCCode
    Target <- MCTarget
    fetchTargetWidth = 1
    blockBTB = TRUE
    numFTQEntries = 2
    maxLatency = 1
    decodeToFetchDelay = 2
    trapLatency = 2
    MaxSeq = 2
INVARIANTS CorrectsItsBranch
