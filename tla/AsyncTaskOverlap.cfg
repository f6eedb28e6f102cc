SPECIFICATION Spec
CONSTANTS
    MaxTasks = 1
    Workers = {w1, w2}
    Users = {u1}
    NoUser = NoUser
    ProgressReports = {50}
    MaxFaults = 0
    MaxCrashes = 0
INVARIANT NoConcurrentExecution
