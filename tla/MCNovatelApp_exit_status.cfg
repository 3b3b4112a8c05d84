SPECIFICATION Spec
CONSTANTS
    CntMod = 1
    ErrMax = 0
    NoMsg = NoMsg
    Messages <- AllMessages
INVARIANTS
    ExitStatusTruthful
