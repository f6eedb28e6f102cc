SPECIFICATION Spec
CONSTANTS
    Gates = {g1, g2}
    Logouts = {l1, l2}
    Second = 2
    Skew = 1
    Life = 1
    Leeway = 2
    Retain = 3
    MaxLogouts = 2
    MaxNow = 6
SYMMETRY Symmetry
INVARIANTS TypeOK LogoutRevokes 
