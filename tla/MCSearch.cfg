CHECK_DEADLOCK FALSE
SPECIFICATION Spec
CONSTANTS
    NumDocs = 3
    Content = {"words", "phrase"}
    Texts <- TextSet
    MaxScore = 1
    Stores <- StoreSet
    Offsets = {0, 1, 3}
    BatchSize = 2
    ResultsPageSize = 2
    MaxSummaryLength = 4
    MaxWrites = 1
    Window = 1
    Nil = Nil
INVARIANTS
    StoresAgree
    IteratorSound
    
    SummaryFits
PROPERTIES
    RequestAnswered
