CONSTANTS
    bufferSIZE <- MCbufferSIZE
    MaxBytes <- MCMaxBytes
    MaxSpurious <- MCMaxSpurious
SPECIFICATION PosixFairSpec
INVARIANTS
    TypeOK
    QueueUntilOverrun
    InWholeLaps
PROPERTIES
    ChannelSpec
    Delivered
CHECK_DEADLOCK FALSE
