\* The scan of every heap of three objects; some may be marked before it starts.
\* A scan that crashes the process stops the system: no deadlock check.
SPECIFICATION FairSpec
CONSTANTS
    g = g
    x = x
    y = y
    Null = Null
    NotTha = NotTha
    Foreign = Foreign
    Obj <- MCObj
    Static <- MCStatic
    NSlots = 2
    Gtypes <- ObjData
    Xtypes <- VoidObj
    Ytypes <- VoidData
    Dtype <- MCDtype
    Stores <- MCStores
    MarkAlone = TRUE
CHECK_DEADLOCK FALSE
INVARIANTS
    TypeOK
    BottomUp
    Complete
    CrashHasCause
PROPERTIES
    ImplementsHeapSync
    ScanEnds
