\* calloc returns an address that is the obj_id of a loaded object.
SPECIFICATION Spec
CONSTANTS
    Static = {g}
    Heap = {x, y}
    Val = {zero}
    Zero = zero
    Null = Null
    Dangling = Dangling
    NotTha = NotTha
    Faults = {"same id"}
    MaxObj = 3
    MaxWrite = 2
    MaxChan = 2
CHECK_DEADLOCK FALSE
SYMMETRY Symmetry
INVARIANT Mirror
