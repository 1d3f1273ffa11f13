CONSTANTS
    idle = idle
    a = a
    b = b
    NULL = NULL
    Idle <- idle
    Tasks <- TwoTasks
    Lines <- AllKinds
    MaxNesting = 0
SPECIFICATION FairSpec
INVARIANTS EOIBalance TimerEndsOwnService StackBounded
PROPERTIES UnhandledOnce EveryTickTaken
