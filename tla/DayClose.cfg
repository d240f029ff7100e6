SPECIFICATION Spec
CONSTANTS
    s1 = s1
    s2 = s2
    r1 = r1
    r2 = r2
    exact = exact
    change = change
    cashless = cashless
    probe = probe
    Sales = {s1, s2}
    Kinds = {exact, probe}
    Probes = {probe}
    Total <- MCTotal
    Cash <- MCCash
    Other <- MCOther
    Float = 1
    Counts = {1}
    MaxShifts = 1
    Requests = {r1, r2}
    AwaitYields = TRUE
SYMMETRY Symmetry
INVARIANT ClosedHoldsTill
INVARIANT BalancedOnce
CHECK_DEADLOCK FALSE
