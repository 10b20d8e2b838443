CONSTANTS
    VertexID = {v1, v2}
    RemoteID = {}
    Worker = {w1, w2}
    MaxSuperstep = 1
    MaxSends = 1
    MaxEdges = 0
    NoVertex = NoVertex
    Budgets <- BudgetSet
    MaxReuses = 0
SPECIFICATION FairSpecExecutor
PROPERTIES
    StopsOnExpiry
