SPECIFICATION FairReaderSpec
CONSTANTS
    Requests <- ReaderRequests
    LogsOn <- ReaderLogs
    WireMax = 2
    NowMax = 2
    CmdMax = 1
INVARIANTS
    OneOvertaken
PROPERTIES
    FreshAfterCommand
    ReceiverIsHeard
