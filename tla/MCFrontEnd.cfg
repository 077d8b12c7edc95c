SPECIFICATION Spec
CONSTANTS
    QuarterWave <- MCQuarterWave
    Signals <- MCSignals
INVARIANTS InWidth DelayLines ToneDecoded
CHECK_DEADLOCK FALSE
