CONSTANTS
    MaxThreads = 2
    MaxCalls = 2
SPECIFICATION Spec
INVARIANTS StopsAtLimit
