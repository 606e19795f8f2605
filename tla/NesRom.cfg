SPECIFICATION Spec
CONSTANTS
    Prg = {0, 1, 2}
    Chr = {0, 1}
    Flags0 = {0, 4, 8, 12, 16}
    Flags1 = {0, 2, 8, 10, 26}
    Flags2 = {0, 1, 16}
    FileSize = {0, 40976, 10000000}
    VBlank = 12
    Costs = {2, 5, 8}
    Word = 32
    StartCycles = {0, 11, 12, 30}
INVARIANTS AllIsFreed RunsWhatItLoaded FrameOverrun
PROPERTY Returns
\* run_nes_rom() returns.
CHECK_DEADLOCK FALSE
