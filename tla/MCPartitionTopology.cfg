\* Four nodes and maybe one without an instance ID, up to three accelerator
\* domains, all parameters, six sets of topologies for partitions.
SPECIFICATION MCPartitionSpec
CONSTANTS
    i1 = i1  i2 = i2  i3 = i3  i4 = i4
    sb = sb  ss = ss  st = st
    a1 = a1  a2 = a2  a3 = a3
    ghost = ghost
    Instances = {i1, i2, i3, i4}
    Requested = {i1, i2, i3, i4}
    Switches = {sb, ss, st}
    Accelerators = {a1, a2, a3}
    None = None
    NoTopology = NoTopology
    NoInstance = NoInstance
    TreeRoot = TreeRoot
    Up <- MCUp
    Tier <- MCTier
    AnyReports = FALSE
    Plugins = {"tree", "block", "other"}
    SizeRequests <- MCSizeRequests
    PoolSizes = {0, 2}
    Orders <- MCOrders
    Sections <- MCSections
    Discovered <- MCDiscovered
INVARIANTS
    ConnectionsWrittenOnce
    OneLinePerDomain
    BlocksFilled
    NeighboursAdjacent
    PartitionTreeExact
    PartitionBlocksExact

    
CHECK_DEADLOCK FALSE
