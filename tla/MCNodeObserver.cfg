SPECIFICATION FairObserverSpec
CONSTANTS
    Nodes = {n1}
    Pods = {p1}
    Labels = {a, b}
    Rest = {x, y}
    Absent = Absent
    maxRetries = 3
    MaxChanges = 3
INVARIANTS
    NoLostTrigger
PROPERTIES
    EventuallyPosted
CHECK_DEADLOCK FALSE
