\* Bulk sync after the standby was cleaned and after creations and deletions were
\* lost, doubled and reordered.
\* The application may stop: no deadlock check.
SPECIFICATION Spec
CONSTANTS
    Static = {g}
    Heap = {x}
    Val = {zero, one}
    Zero = zero
    Null = Null
    Dangling = Dangling
    NotTha = NotTha
    Ops = {"free", "clean", "bulk"}
    Net = {"lose", "duplicate", "reorder"}
    Faulty = {"CREATE", "DELETE"}
    MaxChan = 4
    MaxRec = 3
CHECK_DEADLOCK FALSE
INVARIANTS
    CommitMirrors
    StandbySurvives
