SPECIFICATION ConsoleSpec
CONSTANTS
    Length = 3
    Spare = 2
    Char = {a, sp}
    Space = sp
    Special = {esc}
    Nul = nul
    Strings <- MCStrings
    Numbers <- MCNumbers
    Cursors <- MCCursors
    Attributes = {15, 30}
    Long = TRUE
    Columns = 8
    Rows = 5
    TabSize = 4
    Size = 3
    Letters = {97, 98, 256}
    Byte = {97, 98, 0}
    MaxArgs = 6
INVARIANTS EditorInv ProgramStaysInBuffer OutputIsTheText CommandInv
PROPERTIES ImplementsLineEditor SequencesTakeEffect Ends ImplementsLossyQueue DrainEnds
\* output() and the command return.
CHECK_DEADLOCK FALSE
