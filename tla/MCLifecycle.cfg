CONSTANT MaxBacklog <- MCMaxBacklog
SPECIFICATION FairSpec
CHECK_DEADLOCK FALSE
INVARIANTS
    TypeOK
    NoUseAfterFree
    HandlerNeverOnHolder
    NoLostStop
PROPERTIES
    TickServed
    RunReturns
