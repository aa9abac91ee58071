SPECIFICATION CacheSpec
CONSTANTS
    Keys = {"full", "list", "budgets"}
    Pages = {"/", "/transactions", "/insights", "/settings"}
    PageSize = 2
    MaxPages = 3
    Categories = {"Food", "Other"}
    Capped = "Food"
    Limits = {5}
    MaxMoves = 3
    Picked = 2
    DaysPerMonth = 31
    Norm <- MCNorm
    Keyword <- MCKeyword
    Reads <- MCReads
    Month <- MCMonth
    Watched <- MCWatched
    Ledger <- MCLedger
    NewRows <- MCNewRows
INVARIANTS
    QuietViewIsLedger
    FiguresAgree
CHECK_DEADLOCK FALSE
