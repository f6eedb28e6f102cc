SPECIFICATION Spec
CONSTANTS
    Requests = {r1, r2}
    Free = Free
    Submissions = {"check", "register"}
    MaxAttempts = 2
    HourlySendLimit = 2
    TTL = 2
    ResendInterval = 1
    Hour = 2
    KeepExpired = 4
    MaxStall = 2
    Engines = {"postgresql"}
    LastSubmit = 4
    MaxGuessable = 2
    MaxWrong = 2
    MaxIssues = 2
    MaxFaults = 0
    Horizon <- EachToTheEnd
    MaxNow = 4
SYMMETRY Symmetry
INVARIANT TakenNameIsInvalidInput
CHECK_DEADLOCK FALSE
