SPECIFICATION Spec
CONSTANTS
    Gates = {g1}
    Logouts = {l1, l2}
    Second = 2
    Skew = 0
    Life = 3
    Leeway = 1
    Retain = 8
    MaxLogouts = 2
    MaxNow = 5
SYMMETRY Symmetry
INVARIANT LatestLogoutIsKept
