\* Three programs, with and without a feeder thread and a shared event.
SPECIFICATION FeederSpec
CONSTANT MaxPrograms = 3
INVARIANTS
    CloseAfterLast
PROPERTIES
    SyncIsComplete
    BlockingCallsReturn
CHECK_DEADLOCK FALSE
