SPECIFICATION FairSpec
CONSTANTS
    OperatorFiles <- Files
    MaxFaults = 1
    MaxStarts = 2
    MaxRequests = 2
CHECK_DEADLOCK FALSE
INVARIANTS TypeOK EveryExitClosesStorage StorageOutlivesItsUsers PrimaryIsDecided GateOpensOnlyByHand
PROPERTIES ShutdownEnds
