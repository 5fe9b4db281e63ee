\* The data broker annotates one of two nodes after it has registered.
SPECIFICATION LoopSpec
CONSTANTS
    Nodes = {n1, n2}
    Pods = {}
    Cliques = {1}
    Labels <- MCLabels
    Rest = {NoAnnotation, x}
    NoAnnotation = NoAnnotation
    Absent = Absent
    maxRetries = 2
    serverRetries = 2
    LateAnnotations = TRUE
    MaxChanges = 1
INVARIANTS
    OnlyLabelChangesMatter
CHECK_DEADLOCK FALSE
