CONSTANTS
    SAMPLE_BFRSIZ <- MCSAMPLE_BFRSIZ
    ReadSizes <- MCReadSizes
    MaxSlots <- MCMaxSlots
    MaxStray <- MCMaxStray
SPECIFICATION FairSpec
CHECK_DEADLOCK FALSE
INVARIANTS
    QueueUntilOverrun
    DataToProcess
PROPERTIES
    ChannelSpec
    Processed
