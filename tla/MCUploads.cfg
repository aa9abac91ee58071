SPECIFICATION Spec
CONSTANTS
    Files = {"small", "large", "empty", "photo"}
    Big = {"large"}
    Categories = {"Food", "Other"}
    MaxRuns = 2
    MaxPolls = 1
    MaxReceive = 2
    MaxUpdates = 2
    Receipts = {"receipt", "note"}
    Readable = {"receipt"}
    MaxReads = 2
    MaxCreates = 2
    MaxCalls = 4
    DaysPerMonth = 31
    Norm <- MCNorm
    Keyword <- MCKeyword
    Kind <- MCKind
    Content <- MCContent
INVARIANTS
    TypeOK
    OneRunPerPage
    EverythingIsTold
    ResultsAgree
    ReceiptSavedOnce
    PreviewedOnce
CHECK_DEADLOCK FALSE
