CHECK_DEADLOCK FALSE
SPECIFICATION SpecRemote
CONSTANTS
    URL = {u1, u2}
    LinkID = {l1, l2}
    EdgeID = {e1, e2}
    MaxTime = 1
    Nil = Nil
    Window = 1
    MaxWrites = 1
    Ranges <- RangeSet
INVARIANTS
    IndexesAgree
    ReadsSelection
PROPERTIES
    ImplementsTables
    HandlerReturns
