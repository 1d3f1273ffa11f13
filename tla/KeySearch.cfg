CONSTANTS
    MapCodes <- SmallCodes
    MaxLength = 5
SPECIFICATION FairSearchSpec
CHECK_DEADLOCK FALSE
INVARIANTS Correct NoOverread
PROPERTIES Ends
