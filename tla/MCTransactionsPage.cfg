SPECIFICATION Spec
CONSTANTS
    Categories = {"Food", "Other"}
    Picked = 2
    PAGE = 1
    MaxMoves = 5
    DaysPerMonth = 31
    Ledger <- MCLedger
    Through <- MCThrough
    Norm <- MCNorm
    Keyword <- MCNorm
INVARIANTS
    DeletesWhatWasConfirmed
    AuditIsOfItsRow
    LastPickWins
CHECK_DEADLOCK FALSE
