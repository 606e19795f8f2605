SPECIFICATION ServicesSpec
CONSTANTS
    Units = {"newline", "space", "nul", "x"}
    MaxSize = 5
    Behind = 1
    MaxArgs = 3
    IntWord = 256
    NumberWord = 65536
    Bases = {0, 1, 2, 10, 16, 36, 37}
    StringUnits = {0, 1, 9, 38}
    MaxLength = 5
    MaxShort = 2
    Room = 3
    MaxUnits = 9
    Movements = {0, 3, 10, 15}
    Resolutions = {0, 2, 3}
    Start = 5
    PointerWord = 16
    ResolutionWord = 256
    MaxReads = 2
    Names = {"EFI_SUCCESS", "EFI_NOT_FOUND", "EFI_WARN_STALE_DATA"}
    Others = {"0x8", "0x8000000000000040"}
    Errors = {"EFI_NOT_FOUND", "0x8000000000000040"}
    MaxKeys = 2
    HeadWord = 4
    BufferSize = 3
    PointerBytes = 2
    MaxWrites = 3
INVARIANTS ScriptsRunTheirLines StringsAreExact CursorNeverGoesBack ScreenIsHonest BuffersAreOwned
PROPERTIES ReaderStaysBehind CallsEnd
\* The call returns or faults.
CHECK_DEADLOCK FALSE
