SPECIFICATION Spec
CONSTANTS
    numEntries = 3
    RetAddr = {r1, r2}
    NoAddr = NoAddr
    MaxHist = 4
INVARIANTS TypeOK TosFollowsCommit HoldsOpenCalls
