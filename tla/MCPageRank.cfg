SPECIFICATION FairSpec
CONSTANTS
    Vertex = {1, 2, 3, 4}
    Graphs <- GraphSet
    Workers = 4
    Scale = 16777216
    DampingNum = 1
    DampingDen = 2
    MinSAD = 524288
INVARIANTS
    StepAsDefined
PROPERTIES
    Converges
