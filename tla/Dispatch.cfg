SPECIFICATION Spec
CONSTANTS
    Settings <- SmallSettings
    Requests <- SmallRequests
    Genuine <- GenuineTokens
    Leeway = 2
CHECK_DEADLOCK FALSE
INVARIANTS GateHolds ProtocolsAgree
