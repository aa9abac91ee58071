SPECIFICATION Spec
CONSTANTS
    Descriptions = {"b"}
    Magnitudes = {1}
    Dates = {1, 5}
    Today = 1
    Categories = {"Other", "Salary"}
    MaxCalls = 2
    DaysPerMonth = 31
    Ledgers <- MCLedgers
    Norm <- MCNorm
    Keyword <- MCKeyword
INVARIANTS
    TypeOK
    OneCallAtATime
    DoubledOnlyWhenConfirmed
    SavesWhatIsShown
    TheViewsAreTold
CHECK_DEADLOCK FALSE
