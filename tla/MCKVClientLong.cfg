\* A GET of a value longer than sendCommand's 4095-byte recv() prints the
\* value cut short, and the rest of the line is read as the next reply.
CONSTANTS
    v1 = v1
    v2 = v2
    none = none
    Values <- MCValues
    LongValues <- MCLong
    NoValue <- none
    MaxCmds <- MCMaxCmds
SPECIFICATION Spec
INVARIANT ShowsOwnReply
\* main() returns and the client process stops there.
CHECK_DEADLOCK FALSE
