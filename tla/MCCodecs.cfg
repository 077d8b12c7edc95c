CONSTANT Scenarios <- MCScenarios
SPECIFICATION Spec
CHECK_DEADLOCK FALSE
INVARIANTS
    ULawFaithful
    ALawCoded
    Requantized
    DeemphInRange
