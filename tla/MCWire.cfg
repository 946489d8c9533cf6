\* "dead" is the end of a standby that read a damaged message: no deadlock check.
SPECIFICATION Spec
CONSTANTS
    Fields <- MCFields
    Inner <- MCInner
    MaxUnits = 3
    Number = {0, 1}
    Id = {o}
    Foreign = Foreign
    Mark = Mark
    Rest = Rest
    Garbage = Garbage
    NameWords = 2
    InitWords = 10
    RecvWords = 20
    MaxWork = 4
CHECK_DEADLOCK FALSE
INVARIANTS
    TypeOK
    Faithful
    BulkRefreshes
