SPECIFICATION FairSpec
CONSTANTS
    MaxFd <- MCMaxFd
    MaxOthers <- MCMaxOthers
    PipeSize <- MCPipeSize
INVARIANTS OnlyAtStop CaptureSleeps
PROPERTIES EndOfSamples StopEndsChild
CHECK_DEADLOCK FALSE
