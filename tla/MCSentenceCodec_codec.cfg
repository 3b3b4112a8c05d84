SPECIFICATION Spec
CONSTANTS
    PerMinute = 4
    FloatPrecision = 8192
    Points <- SomePoints
INVARIANTS
    PositionSurvives
    SolutionSurvives
