SPECIFICATION FairSpec
CONSTANTS
    CntMod = 2
    Commands = {"NOOP", "ENABLE"}
    CallMax = 2
    DownMax = 1
INVARIANTS
    TypeOK
    PassedOnce
    ConfirmedSwitchHolds
    SwitchedAtMostOnce
PROPERTIES
    CallsEnd
CHECK_DEADLOCK FALSE
