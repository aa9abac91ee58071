CONSTANTS
    k1 = k1
    k2 = k2
    r1 = r1
    r2 = r2
    r3 = r3
    r4 = r4
    Requests = {r1, r2, r3, r4}
    Keys = {k1, k2}
    BodyOf <- MCBodies
    Noise = {}
    Tol = 1
    None = None
    WarnDays = 3
    TtlDays = 1
    MaxDay = 1
SYMMETRY Symm
SPECIFICATION Spec
CHECK_DEADLOCK FALSE
INVARIANTS
    Replayed
    ReplaysAgree
    ConfirmedIsSaved
    DoubledOnlyWhenConfirmed
