\* Two global objects, and a heap object of a structure that the application
\* registers.  "dead" is the end of the process: no deadlock
\* check.
SPECIFICATION Spec
CONSTANTS
    g = g
    h = h
    Order <- MCOrder
    Heap = {x}
    AppType = {x}
    Null = Null
CHECK_DEADLOCK FALSE
INVARIANTS
    TypeOK
    RegisteredIsFound
