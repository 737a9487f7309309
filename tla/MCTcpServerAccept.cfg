CONSTANTS
    Conns = {c1, c2}
    NumLoops <- MCOneLoop
    MaxReq <- MCNoReq
    SndCap <- MCSndCap
    ReadCap <- MCReadCapAll
SPECIFICATION Spec
PROPERTY AllConnectsAccepted
