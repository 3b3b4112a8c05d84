SPECIFICATION Spec
CONSTANTS
    CntMod = 1
    ErrMax = 0
    NoMsg = NoMsg
    Messages <- PortMessages
INVARIANTS
    TransmittedPacketWhole
