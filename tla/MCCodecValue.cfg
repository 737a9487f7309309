CONSTANTS
    Buffers <- MCBuffersOneCR
    Upper <- MCUpper
SPECIFICATION Spec
CHECK_DEADLOCK FALSE
INVARIANT PutValueAsSpec
