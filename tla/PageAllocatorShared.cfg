CONSTANTS
    t1 = t1
    t2 = t2
    NumFrames = 4
    WordBits = 2
    UIntMax = 15
    MaxCount = 2
    PageSize = 2
    Threads <- TwoThreads
SPECIFICATION Spec
INVARIANTS HeldBusy
