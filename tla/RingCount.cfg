SPECIFICATION CommandSpec
CONSTANTS
    Size = 3
    Letters = {97, 98, 256}
    Byte = {97, 98, 0}
    MaxArgs = 5
INVARIANT DataCountsUnread
\* The command returns.
CHECK_DEADLOCK FALSE
