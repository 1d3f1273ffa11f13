CONSTANTS
    idle = idle
    a = a
    b = b
    NULL = NULL
    Idle <- idle
    Tasks <- ThreeTasks
    Lines <- TimerAndKeyboard
    MaxNesting = 2
SPECIFICATION FairSpec
INVARIANTS TypeOK QueueWellFormed CriticalSections ContextCoherent
PROPERTIES EveryTaskRuns RoundRobin
