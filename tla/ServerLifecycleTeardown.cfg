\* ~KVServer destroys store_ before server_, whose I/O threads still serve:
\* one PUT on either of two I/O threads reaches the destroyed store.
CONSTANTS
    NumIO = 2
    Keys = {k1, k2}
    NoFile = NoFile
    Freed = Freed
SPECIFICATION Spec
\* main() returns and the process exits.
CHECK_DEADLOCK FALSE
INVARIANT NoUseAfterDestroy
