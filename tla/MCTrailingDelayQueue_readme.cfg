\* The README's reading of 202 and 404.
SPECIFICATION MCSpec
CONSTANTS
    Items = {i1}
    Statuses = {200}
    NoItem = NoItem
    NoCompletion = NoCompletion
    Delay = 1
    MaxSince = 2
    MaxUid = 2
    RequestHistorySize = 1
INVARIANTS
    AcceptedWhileInProgress
