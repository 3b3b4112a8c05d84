SPECIFICATION FairSpec
CONSTANTS
    CntMod = 1
    ErrMax = 1
    NoMsg = NoMsg
    Messages <- LivenessMessages
PROPERTIES
    HandlingTerminates
    ErrorStopsBothTasks
    SilentDeviceIsReported
