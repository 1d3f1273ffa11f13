CONSTANTS
    PageSize = 2
    NumFrames = 8
    NodeCnt = 2
    DriveRoom = 1
    KernelStart = 4
    KernelEnd = 8
    Maps <- AlignedMaps
    DriveLengths = {0, 1, 2}
SPECIFICATION Spec
CHECK_DEADLOCK FALSE
INVARIANTS OnlyRam KernelKept AllRamFree TablesFit
