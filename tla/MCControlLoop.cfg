\* Two annotated nodes in any state, one of which changes while the requests for
\* the initial lists are under way; two attempts on both sides.
SPECIFICATION FairLoopSpec
CONSTANTS
    Nodes = {n1, n2}
    Pods = {}
    Cliques = {1, 2}
    Labels <- MCLabels
    Rest = {x}
    NoAnnotation = NoAnnotation
    Absent = Absent
    maxRetries = 2
    serverRetries = 2
    LateAnnotations = FALSE
    MaxChanges = 1
INVARIANTS
    RestMeansConverged
PROPERTIES
    ComesToRest
CHECK_DEADLOCK FALSE
