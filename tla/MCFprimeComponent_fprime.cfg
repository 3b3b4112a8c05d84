SPECIFICATION FairSpec
CONSTANTS
    QueueMax = 3
    ReadMax = 2
    CommandMax = 3
INVARIANTS
    TypeOK
    TelemetryWhole
PROPERTIES
    AnsweredInOrder
    CommandsAnswered
