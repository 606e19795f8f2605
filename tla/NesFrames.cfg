SPECIFICATION FairSpec
CONSTANTS
    Roms <- MCRoms
    Starts <- MCStarts
    VBlank = 12
    Sample = {}
    First = {0, 2, 16, 32, 76, 108, 96}
    Low = {0, 255}
    High = {128}
    Second = {96, 255}
    Resets = {31, 64, 128}
    Registers = {129}
    Fills = {255}
PROPERTY Finishes
\* Three frames, and the emulator returns.
CHECK_DEADLOCK FALSE
