SPECIFICATION Spec
CONSTANTS
    CntMod = 2
    ErrMax = 0
    NoMsg = NoMsg
    Messages <- CounterMessages
INVARIANTS
    NoLostUpdate
    TransmittedPacketWhole
PROPERTIES
    ImplementsHkTelemetry
    ImplementsCommandView
