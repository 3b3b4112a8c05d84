SPECIFICATION Spec
CONSTANTS
    CntMod = 1
    ErrMax = 2
    NoMsg = NoMsg
    Messages <- AllMessages
INVARIANTS
    TypeOK
    MutexDiscipline
    OneVerdict
    WritesAreCommanded
    PortMatchesEnabled
    ExitStatusWithMutex
    CursorIsOwn
    StaleReadAtMostOnce
    ErrorsAreDebounced
