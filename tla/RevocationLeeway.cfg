SPECIFICATION Spec
CONSTANTS
    Gates = {g1}
    Logouts = {l1}
    Second = 2
    Skew = 0
    Life = 3
    Leeway = 2
    Retain = 3
    MaxLogouts = 1
    MaxNow = 9
SYMMETRY Symmetry
INVARIANT LogoutRevokes
