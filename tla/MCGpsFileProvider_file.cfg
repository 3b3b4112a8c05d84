SPECIFICATION FairSpec
CONSTANTS
    Callers <- Threads
    Records = 7
    NowMax = 4
    CallMax = 5
    run = run
    uart = uart
INVARIANTS
    TypeOK
    EndOnlyWhenUsedUp
PROPERTIES
    AlwaysNewer
    CallsReturn
CHECK_DEADLOCK FALSE
