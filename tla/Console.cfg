CONSTANTS
    idle = idle
    a = a
    Writers <- TwoWriters
    Printer <- idle
    Printable <- Letters
    Width = 2
    Height = 2
    Tab = 2
    U8 = 5
    MaxRacing = 1
SPECIFICATION FairSpec
INVARIANTS WritesOnScreen
PROPERTIES TerminalSpec Recovers
