CONSTANT MaxBacklog <- MCMaxBacklog
SPECIFICATION FairSpec
CHECK_DEADLOCK FALSE
PROPERTY StopReturns
