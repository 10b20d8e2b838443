SPECIFICATION FairSpecCluster
CONSTANTS
    URL = {u1, u2}
    LinkID = {1, 2}
    EdgeID <- NoEdges
    MaxTime = 3
    MaxID = 3
    ShortBelow = 1
    NumInstances = 2
    ReIndexThreshold = 1
    MaxTrouble = 1
PROPERTIES
    CrawledOnceADue
    EveryLinkCrawled
    GroupReturns
