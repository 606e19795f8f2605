SPECIFICATION OutputSpec
CONSTANTS
    Strings <- MCStrings
    Numbers <- MCNumbers
    Cursors <- MCCursors
    Attributes = {15}
    Long = FALSE
    Columns = 8
    Rows = 5
    TabSize = 4
PROPERTY LowIntensityIsNotBright
\* output() returns.
CHECK_DEADLOCK FALSE
