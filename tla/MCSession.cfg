SPECIFICATION Spec
CONSTANTS
    Accounts = {"ann", "ben"}
    RequireAuth = TRUE
    MaxSends = 3
    MaxMoves = 9
INVARIANTS
    IdentityIsOne
    ChatIsOfIdentity
    OneAnswerAtATime
    AsksItsAccount
CHECK_DEADLOCK FALSE
