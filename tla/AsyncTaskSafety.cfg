SPECIFICATION Spec
CONSTANTS
    MaxTasks = 2
    Workers = {w1, w2}
    Users = {u1}
    NoUser = NoUser
    ProgressReports = {50}
    MaxFaults = 1
    MaxCrashes = 1
SYMMETRY Symmetry
INVARIANTS TypeOK RowIsConsistent ClaimIsExclusive InFlightIsOwned RunningIsHeld
PROPERTIES DoneIsFinal ImplementsLifecycle
