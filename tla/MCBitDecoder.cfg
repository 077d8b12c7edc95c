CONSTANT
    Scenarios <- MCScenarios
SPECIFICATION DecoderSpec
CHECK_DEADLOCK FALSE
INVARIANTS
    Decoded
    NextMessageDecoded
PROPERTIES
    EachBitOnce
    BytesInStep
    FreshSync
