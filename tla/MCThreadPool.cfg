\* A pool of two slots, three threads of which one waits, and a fourth
\* that makes no calls.  Threads that wait for
\* a mutex that is never unlocked stop the system: no deadlock check.
SPECIFICATION Spec
CONSTANTS
    a = a
    b = b
    c = c
    d = d
    Thread = {a, b, c, d}
    Caller = {a, b, c}
    Waiter = {a}
    SelfId <- MCSelfId
    PoolSize = 2
    None = None
CHECK_DEADLOCK FALSE
INVARIANTS
    TypeOK
    ScanFindsBlocked
    StuckHasCause
    FlagHasCause
