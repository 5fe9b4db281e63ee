\* Two requested instances, one more, eleven reports, two executions.
SPECIFICATION LabelsSpec
CONSTANTS
    i1 = i1  i2 = i2  i3 = i3
    sb = sb  sc = sc  ss = ss  sd = sd
    a1 = a1  a2 = a2
    hashed = hashed
    Instances = {i1, i2, i3}
    Requested = {i1, i2}
    Switches = {sb, sc, ss, sd}
    Accelerators = {a1, a2}
    None = None
    NoTopology = NoTopology
    NoInstance = NoInstance
    TreeRoot = TreeRoot
    Up <- MCUp
    Tier <- MCTier
    AnyReports = TRUE
    InputReports <- MCReports
    Alphabet <- MCAlphabet
    LongIDs = {ss}
    Hash <- MCHash
    MaxRounds = 2
INVARIANTS
    EveryNodePlaced
    NoNodeTwice
    TreeIfFaithful
    LabelsCurrent
    LabelsNest
    CrashNeedsConflict
CHECK_DEADLOCK FALSE
