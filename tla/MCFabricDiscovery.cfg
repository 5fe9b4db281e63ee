\* Four switches, two requested hosts and another one.
SPECIFICATION FairFabricSpec
CONSTANTS
    h1 = h1  h2 = h2  h3 = h3
    b1 = b1  b2 = b2
    s1 = s1  s2 = s2  s3 = s3  s4 = s4
    Hosts = {h1, h2, h3}
    Requested = {h1, h2}
    Switches = {s1, s2, s3, s4}
    Blocks = {b1, b2}
    Ids <- MCIds
    MaxTier = 5
    NoID = NoID
    Providers = {"infiniband-bm", "infiniband-k8s", "cw", "netq", "test"}
    Premises <- MCPremises
    Fabrics <- MCFabrics
INVARIANTS
    MergeKeepsChildren
    NoTwins
    NodesKept
    OrderlyListIsSafe
    DomainsShareClique
PROPERTIES
    DiscoveryEnds
CHECK_DEADLOCK FALSE
