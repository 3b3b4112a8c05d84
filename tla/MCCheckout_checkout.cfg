SPECIFICATION Spec
CONSTANTS
    Words <- SomeWords
    Numbers <- SomeNumbers
INVARIANTS
    EndRepeatsNoNumbers
CHECK_DEADLOCK FALSE
