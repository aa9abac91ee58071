CONSTANTS
    t1 = t1
    t2 = t2
    t3 = t3
    s1 = s1
    s2 = s2
    Turns = {t1, t2, t3}
    Sessions = {s1, s2}
    NoRow = NoRow
    Keep = 2
    Recent = 2
    Batch = 2
    MaxAtOnce = 2
    MaxRequests = 1
SYMMETRY Symm
SPECIFICATION Spec
CHECK_DEADLOCK FALSE
INVARIANTS
    DurableUnlessOverlapped
    ForgottenUnlessOverlapped
    HiddenIsOneMessage
