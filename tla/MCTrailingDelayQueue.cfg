\* Four request IDs and a store of two: two results are evicted.
SPECIFICATION MCSpec
CONSTANTS
    Items = {i1, i2}
    Statuses = {200, 502}
    NoItem = NoItem
    NoCompletion = NoCompletion
    Delay = 2
    MaxSince = 3
    MaxUid = 4
    RequestHistorySize = 2
INVARIANTS
    ResultOfLastSubmission
    NoRequestLost
    ThreeEarlyTicksAtMost
PROPERTIES
    ImplementsAsyncRequests
    EventuallyCompleted
