SPECIFICATION Spec
CONSTANTS
    FILE_READ_SIZE <- MCFILE_READ_SIZE
    USB_READ_SIZE <- MCUSB_READ_SIZE
    BUFSIZ <- MCBUFSIZ
    PIPE_SIZE <- MCPIPE_SIZE
    PIPE_READ_SIZE <- MCPIPE_READ_SIZE
    Starts <- MCStarts
    Input <- MCInput
    MaxOverruns <- MCMaxOverruns
INVARIANTS BuffersFit DeviceFound Aligned
PROPERTY Drained
CHECK_DEADLOCK FALSE
