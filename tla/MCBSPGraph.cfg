CONSTANTS
    VertexID = {v1, v2}
    RemoteID = {r}
    Worker = {w1, w2}
    MaxSuperstep = 2
    MaxSends = 1
    MaxEdges = 1
    NoVertex = NoVertex
SPECIFICATION FairSpec
INVARIANTS
    PendingAccounting
    Barrier
    SingleOwner
PROPERTIES
    ImplementsSuperstep
    StepReturns
    CloseReturns
