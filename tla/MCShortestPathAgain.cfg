SPECIFICATION Spec
CONSTANTS
    ID = {1, 2, 3, 4}
    Graphs <- GraphSet
    Costs <- CostSet
    MaxInt = 15
    None = None
    MaxAdds = 0
    MaxCalculations = 2
CHECK_DEADLOCK FALSE
INVARIANTS
    DistancesOfSource
