CONSTANTS
    MaxThreads = 1
    MaxCalls = 2
SPECIFICATION Spec
INVARIANTS DistinctStructs ReadyToRun StopsAtLimit
