CONSTANTS
    KBD_BUFFER_SIZE = 4
    Keys <- AllKeys
    Mapped <- AllButOne
    Printable <- Characters
    MaxTyped = 2
SPECIFICATION FairSpec
INVARIANTS InOrder InSync
PROPERTIES QueueSpec Reported
