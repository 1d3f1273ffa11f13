CONSTANTS
    CommandBytes <- LeftByFirmware
    Keys <- EnterReleased
    MaxKeys = 1
    MaxResends = 2
SPECIFICATION FairSpec
INVARIANTS InStep ReturnsToCaller Initialised
PROPERTIES Terminates
CHECK_DEADLOCK FALSE
