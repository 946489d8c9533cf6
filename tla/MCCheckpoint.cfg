\* Checkpoints saved and loaded, also by a process that was started anew.
\* The application may stop: no deadlock check.
SPECIFICATION Spec
CONSTANTS
    Static = {g}
    Heap = {x, y}
    Val = {zero, one}
    Zero = zero
    Null = Null
    Dangling = Dangling
    NotTha = NotTha
    Faults = {"restart"}
    MaxObj = 3
    MaxWrite = 2
    MaxChan = 2
CHECK_DEADLOCK FALSE
SYMMETRY Symmetry
INVARIANTS
    TypeOK
    LoadRestores
    Mirror
    Survive
