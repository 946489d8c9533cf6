\* The list of two global and two heap objects, with lookups and cleans.
SPECIFICATION FairSpec
CONSTANTS
    StaticRec = {g, h}
    DynRec = {x, y}
    Rec <- MCRec
    Dynamic <- MCDynamic
    Null = Null
INVARIANTS
    TypeOK
    Linked
    NoStaleCursor
    CleanLeaves
PROPERTIES
    ImplementsDirectory
    CleanEnds
