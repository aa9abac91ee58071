CONSTANTS
    c1 = c1
    c2 = c2
    f1 = f1
    f2 = f2
    Calls = {c1, c2}
    Files = {f1, f2}
    RowsOf <- MCRows
    Noise <- MCNoise
    Tol = 1
    None = None
SYMMETRY Symm
SPECIFICATION Spec
INVARIANTS
    RecordPrecedesRows
    SequentialCallsNeverDouble
    RecordedOnceUnlessForced
    DoneLosesNoRow
CHECK_DEADLOCK FALSE
