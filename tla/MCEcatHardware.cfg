SPECIFICATION Spec
CONSTANTS
    Decimation = 1
    MaxSignals = 2
    LaterTo = {"control"}
CHECK_DEADLOCK FALSE
INVARIANTS
    TypeOK
    DestroyedWithoutThreads
PROPERTIES
    StaysDown
    ShutdownCompletes
    BusReconnects
