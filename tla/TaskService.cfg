SPECIFICATION FairSpec
CONSTANTS
    MaxTasks = 1
    Users = {}
    NoUser = NoUser
    MaxFaults = 1
    MaxCrashes = 1
    Goroutines = {g1, g2, g3}
    MaxWorkers = 1
    Stoppers = {main}
INVARIANTS StopLeavesNoRunningTask StorageOutlivesWork OneScan
PROPERTIES EveryTaskIsServed
