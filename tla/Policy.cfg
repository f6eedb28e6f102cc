SPECIFICATION ScheduledSpec
CONSTANTS
    Goroutines = {g1, g2, g3, g4}
    MaxWorkers = 2
    Stoppers = {s1, s2}
INVARIANTS TypeOK WorkersWithinLimit
PROPERTIES WaitGroupIsNotReused StopReturnsEventually LoopKeepsRunning
