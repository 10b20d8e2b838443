SPECIFICATION Spec
CONSTANTS
    None = None
    Empty = Empty
    Malformed = Malformed
    Private = {"lan"}
    Excluded = {"x.png"}
    Crawl = {"c1", "c2"}
    Page = {"p1", "p2", "p3", "p4"}
    Inputs <- InputSet
    URLOf <- URLs
    ContentOf <- Contents
    Fetcher = {w1}
    Object = {o1, o2, o3}
SYMMETRY Symmetry
CHECK_DEADLOCK FALSE
INVARIANTS
    Unmixed
    OneUser
    CountIsPages
