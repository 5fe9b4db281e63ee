SPECIFICATION FairServerSpec
CONSTANTS
    Items <- MCItems
    Payloads <- MCPayloads
    Providers <- MCProviders
    Engines <- MCEngines
    CfgProvider = "aws"
    CfgEngine = "k8s"
    ErrorCodes = {400, 502}
    Statuses = {200, 400, 502}
    maxRetries = 5
    Targets = {t1, t2}
    MaxWorld = 1
    NoItem = NoItem
    NoCompletion = NoCompletion
    Delay = 1
    MaxSince = 2
    MaxUid = 2
    RequestHistorySize = 1
INVARIANTS
    OkMeansWritten
    ErrorsAreRetried
    NeverUnsupported
PROPERTIES
    EventuallyAnswered
