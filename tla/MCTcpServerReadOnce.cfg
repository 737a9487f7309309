CONSTANTS
    Conns = {c1}
    NumLoops <- MCOneLoop
    MaxReq <- MCMaxReq
    SndCap <- MCSndCap
    ReadCap <- MCReadCapAll
SPECIFICATION Spec
PROPERTY PeerCloseReleased
