\* Incremental sync over a reliable socket: the standby follows the active and
\* eventually mirrors it.  Addresses are reused, pointers to freed memory kept.
\* The application may stop: no deadlock check.
SPECIFICATION FairSpec
CONSTANTS
    Static = {}
    Heap = {x, y}
    Val = {zero, one}
    Zero = zero
    Null = Null
    Dangling = Dangling
    NotTha = NotTha
    Ops = {"free", "sync"}
    Net = {}
    Faulty = {}
    MaxChan = 2
    MaxRec = 4
CHECK_DEADLOCK FALSE
INVARIANTS
    TypeOK
    SameDirectory
    HashedMirror
PROPERTY Converges
