SPECIFICATION Spec
CONSTANTS
    ID = {1, 2, 3, 4}
    Graphs <- GraphSet
    Costs <- CostSet
    MaxInt = 15
    None = None
    MaxAdds = 1
    MaxCalculations = 2
CHECK_DEADLOCK FALSE
INVARIANTS
    DistancesAreCosts
    PathIsShortest
PROPERTIES
    CalculationEnds
