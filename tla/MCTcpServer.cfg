CONSTANTS
    Conns = {c1, c2}
    NumLoops <- MCTwoLoops
    MaxReq <- MCMaxReq
    SndCap <- MCSndCap
    ReadCap <- MCReadCapAll
SPECIFICATION Spec
INVARIANT TypeOK
INVARIANT NoDanglingChannel
INVARIANT ResponsesInOrder
INVARIANT FinAfterResponses
