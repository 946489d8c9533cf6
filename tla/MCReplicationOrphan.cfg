\* Orphan pointers of an incremental sync that outlive it.
SPECIFICATION Spec
CONSTANTS
    Static = {g}
    Heap = {x}
    Val = {zero}
    Zero = zero
    Null = Null
    Dangling = Dangling
    NotTha = NotTha
    Ops = {"free", "sync", "clean", "bulk"}
    Net = {}
    Faulty = {}
    MaxChan = 4
    MaxRec = 4
CHECK_DEADLOCK FALSE
INVARIANT CommitMirrors
