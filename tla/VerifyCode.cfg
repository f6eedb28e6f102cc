SPECIFICATION Spec
CONSTANTS
    Requests = {r1, r2}
    Free = Free
    Submissions = {"check", "register"}
    MaxAttempts = 2
    HourlySendLimit = 2
    TTL = 1
    ResendInterval = 1
    Hour = 5
    KeepExpired = 6
    MaxStall = 1
    Engines = {"mysql", "postgresql", "sqlite"}
    LastSubmit = 2
    MaxGuessable = 2
    MaxWrong = 1
    MaxIssues = 4
    MaxFaults = 1
    Horizon <- MySQLGoesOn
    MaxNow = 9
SYMMETRY Symmetry
INVARIANTS TypeOK GuessesAreBounded SupersededIsSuperseded IssuesAreSpaced HourlyLimit
PROPERTY AcceptedCodeIsLive
CHECK_DEADLOCK FALSE
