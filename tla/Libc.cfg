CONSTANTS
    Bytes <- TwoLetters
    Size = 6
    MaxCount = 4
    Bits = 8
    Widths <- SomeWidths
SPECIFICATION Spec
INVARIANTS Compares Copies ReadBack
CHECK_DEADLOCK FALSE
