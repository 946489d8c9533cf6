\* A queue of three slots and two different pointers.
SPECIFICATION QSpec
CONSTANTS
    Size = 3
    Elem = {a, b}
    Null = Null
INVARIANTS
    QTypeOK
    RingInv
PROPERTY ImplementsBoundedQueue
