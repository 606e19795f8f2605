SPECIFICATION FairSpec
CONSTANTS
    Handles = {h1, h2, h3, h4}
    Blocks = {b1, b2, b3}
    Null = null
    MaxLines = 2
    MaxArgs = 2
INVARIANT TerminalInv
PROPERTIES LeaksAreForever PromptReturns
\* The terminal ends with exit, and a command may hang, fault or reset.
CHECK_DEADLOCK FALSE
