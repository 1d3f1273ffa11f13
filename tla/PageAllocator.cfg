CONSTANTS
    t1 = t1
    t2 = t2
    NumFrames = 6
    WordBits = 3
    UIntMax = 15
    MaxCount = 3
    PageSize = 2
    Threads <- OneThread
SPECIFICATION FairSpec
INVARIANTS InBounds RamOnly Conserved
PROPERTIES PoolSpec FirstRunAnswered
