SPECIFICATION Spec
CONSTANTS
    Calls = {c1, c2}
    Sids = {s1}
    Free = Free
    Passwords <- PasswordSample
    AccessTTL = 1
    RefreshTTL = 2
    Leeway = 1
    MaxRotations = 3
    MaxFaults = 1
    MaxNow = 5
SYMMETRY Symmetry
INVARIANTS TypeOK LogoutIsImmediate SessionsEndOnTime StoredTokenIsReachable
PROPERTIES RefreshTokenIsSpentOnce RegisteredPasswordLogsIn
