\* Three nodes, three pods, two changes and two executions; and for the block
\* sizes up to five blocks, so that sizes on up to three levels are legal.
SPECIFICATION EnginesSpec
CONSTANTS
    n1 = n1  n2 = n2  n3 = n3
    p1 = p1  p2 = p2  p3 = p3
    r1 = r1  r2 = r2
    Nodes = {n1, n2, n3}
    Pods = {p1, p2, p3}
    NodeOrder <- MCNodeOrder
    PodNode <- MCPodNode
    Region <- MCRegion
    Bootstrap = Bootstrap
    NoInstance = NoInstance
    BadNumber = BadNumber
    None = None
    Damaged = Damaged
    Scenarios <- MCScenarios
    DomainSizes = {1, 2, 3}
    MaxBlocks = 5
    RequestedSizes = {0, 1, 2, 3, 4, 6, 8}
    MaxRequested = 2
    MaxChanges = 2
    MaxExecs = 1
INVARIANTS
    HostsMatchCluster
    SuccessInPlace
    OthersKept
    SizesLegal
CHECK_DEADLOCK FALSE
