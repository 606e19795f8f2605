SPECIFICATION GraphicsSpec
CONSTANTS
    Code = {3, 5, 8}
    MaxEntries = 4
    None = none
    Widths = {0, 1, 3}
    Heights = {1, 2}
    TileSizes = {0, 1, 2, 3, 4, 5}
    Bytes = {0, 77, 178, 255}
    BlockWord = 64
    Sizes = {0, 2, 4}
    Coordinates = {0, 1, 31}
    FixedPoint = 15
    ImageWord = 32
    Dimensions = {0, 1, 2, 3, 4, 5, 15}
    FileSizes = {0, 4, 7, 8, 10, 12, 16, 24, 32, 40, 44, 68, 72, 76}
    FileWord = 16
    LongWord = 128
    DisplaySizes = {4, 5, 6}
    GlyphSizes = {0, 2, 3}
    MaxWrites = 17
INVARIANTS FontIsInOrder ImagesAreDrawn ImageFilesAreShown ConsoleKeepsItsText
PROPERTIES AnswersRight CharacterIsDrawn CallsEnd
\* The call returns, hangs or faults.
CHECK_DEADLOCK FALSE
