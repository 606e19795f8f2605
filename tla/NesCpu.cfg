SPECIFICATION Spec
CONSTANTS
    Roms <- MCRoms
    Starts <- MCStarts
    VBlank = 12
    Sample = {0, 32771, 49151, 65535}
    First <- Every
    Low = {2, 255}
    High = {0, 33}
    Second = {104}
    Resets = {128}
    Registers = {0, 129}
    Fills = {0, 254}
INVARIANT MachineIsSound
PROPERTIES StepCosts WritesStayInTheirPage OverflowIsNeverArithmetic
\* Three frames, and the emulator returns.
CHECK_DEADLOCK FALSE
