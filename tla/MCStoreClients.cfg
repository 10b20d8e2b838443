CONSTANTS
    URL = {a, b}
    LinkID = {l1, l2}
    EdgeID = {e1, e2, e3, e4}
    MaxTime = 2
    Updater = {u1, u2}
    Ahead = 0
    MaxUpdates = 2
    NoURL = NoURL
    Leads <- LeadSet
    MaxTasks = 2
SPECIFICATION SpecClients
SYMMETRY Symmetry
INVARIANTS
    EdgeLinksKnown
    DestinationsExplained
    EdgesExplained
PROPERTIES
    ExactWhenAlone
    OwnEdgesSurvive
