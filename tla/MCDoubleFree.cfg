CONSTANTS
    SEQ_MOD <- MCSEQ_MOD
    TS_MOD <- MCTS_MOD
    Headers <- MCHeaders
    ReadSizes <- MCReadSizes
    Descriptors <- MCDescriptors
    MaxCalls <- MCMaxCalls
    MaxPackets <- MCMaxPackets
    MaxStrays <- MCMaxStrays
SPECIFICATION Spec
INVARIANT FreeIfAllocated
