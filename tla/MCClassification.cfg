CONSTANTS
    u1 = u1
    u2 = u2
    u3 = u3
    kA = kA
    kB = kB
    kK = kK
    Uploads = {u1, u2, u3}
    Merchants = {kA, kB, kK}
    Categories = {"Food", "Salary", "Other"}
    file <- MCFile
    Replies <- MCReplies
    NoMatch = NoMatch
    Missing = Missing
    Unknown = Unknown
    None = None
    MinSamples = 2
    MinConfidence = 80
    BatchSize = 2
    RequestCap = 0
    DayCap = 1
    MaxCalls = 2
    MaxAtOnce = 2
    MaxOther = 1
    MaxDay = 1
SYMMETRY Symm
SPECIFICATION Spec
CHECK_DEADLOCK FALSE
INVARIANTS
    OwnAnswer
    OneAnswerUnlessOverlapped
    SpendBounded
PROPERTY SettledUnlessOverlapped
