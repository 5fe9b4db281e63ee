\* Three instances, up to two regions, pages of up to two; aws names up to two
\* instances and gets them one by one from its simulator.
SPECIFICATION MCSpec
CONSTANTS
    n1 = n1  n2 = n2  n3 = n3
    Nodes = {n1, n2, n3}
    MaxRegions = 2
    Nil = Nil
    PageSizes = {Nil, 0, 1, 2}
    ByIdLimit = 2
    DefaultPageSize = 2
    DefaultMaxResults = 1
INVARIANTS
    EachReportOnce
    NoPageBehindLast
    CrashNeedsPartialData
PROPERTIES
    PagingEnds
CHECK_DEADLOCK FALSE
