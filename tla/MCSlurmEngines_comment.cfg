\* What the comment of getBlockSize says of a request with a bad base size.
SPECIFICATION EnginesSpec
CONSTANTS
    n1 = n1  n2 = n2  n3 = n3
    p1 = p1  p2 = p2  p3 = p3
    r1 = r1  r2 = r2
    Nodes = {n1, n2, n3}
    Pods = {p1, p2, p3}
    NodeOrder <- MCNodeOrder
    PodNode <- MCPodNode
    Region <- MCRegion
    Bootstrap = Bootstrap
    NoInstance = NoInstance
    BadNumber = BadNumber
    None = None
    Damaged = Damaged
    Scenarios <- SizeScenarios
    DomainSizes = {1, 2, 3}
    MaxBlocks = 5
    RequestedSizes = {0, 1, 2, 3, 4, 6, 8}
    MaxRequested = 2
    MaxChanges = 2
    MaxExecs = 1
INVARIANTS
    BadBaseOverridden
CHECK_DEADLOCK FALSE
