SPECIFICATION Spec
CONSTANTS
    Requests <- AllRequests
    WireMax = 1
    NowMax = 1
INVARIANTS
    TypeOK
    NullUartNeverUsed
PROPERTIES
    ImplementsReceiverLogs
