CONSTANT Scenarios <- MCQuietThenLoud
SPECIFICATION Spec
CHECK_DEADLOCK FALSE
INVARIANT ALawFaithful
