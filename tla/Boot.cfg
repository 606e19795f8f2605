SPECIFICATION Spec
CONSTANTS
    GopModes = 3
    TextModes = 2
    Sizes = {3, 9}
    Word = 8
INVARIANTS BestModesAreSet SetupIsHonest
PROPERTY SetupEnds
\* The program ends, and a fault stops it.
CHECK_DEADLOCK FALSE
