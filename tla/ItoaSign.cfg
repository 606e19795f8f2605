SPECIFICATION Spec
CONSTANTS
    IntWord = 256
    LongWord = 65536
    Bases = {10, 16}
    Units = {0, 9}
    MaxLength = 1
    MaxShort = 1
    Room = 4
    MaxUnits = 12
INVARIANT WritesTheSign
\* The call returns or faults.
CHECK_DEADLOCK FALSE
