CONSTANTS
    j1 = j1
    j2 = j2
    f1 = f1
    f2 = f2
    w1 = w1
    w2 = w2
    Workers = {w1, w2}
    Jobs = {j1, j2}
    Calls <- MCCalls
    Files = {f1, f2}
    Content <- SameContent
    RowsOf <- MCRows
    Noise = {}
    Tol = 1
    None = None
    MaxReceive = 2
    Batch = 2
    MaxOverruns = 1
SYMMETRY Symm
SPECIFICATION AsyncSpec
INVARIANT CompletedMeansImported
CHECK_DEADLOCK FALSE
