\* "dead" is the end of the process: no deadlock check.
SPECIFICATION FairSpec
CONSTANTS
    MaxNodes = 5
    Data = {1, 2, 3}
    StackSize = 4
    Zero = Zero
CHECK_DEADLOCK FALSE
INVARIANTS
    TreeTypeOK
    SafeWithinLimit
    SearchTree
PROPERTIES
    AgreesWithRecursion
    RemovesHalfNodes
    TraversalEnds
