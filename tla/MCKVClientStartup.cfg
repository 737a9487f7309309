\* The startup ping() reads the unread +WELCOME as its reply: a client
\* connected to a live server prints "Server not responding" and exits 1.
CONSTANTS
    v1 = v1
    v2 = v2
    none = none
    Values <- MCValues
    LongValues <- MCNoLong
    NoValue <- none
    MaxCmds <- MCMaxCmds
SPECIFICATION Spec
INVARIANT ConnectedClientStarts
\* main() returns and the client process stops there.
CHECK_DEADLOCK FALSE
