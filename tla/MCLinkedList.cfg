CONSTANTS
    Nodes = {n1, n2, n3, n4}
    ListHead = ListHead
    Null = Null
SPECIFICATION Spec
INVARIANTS TypeOK IsList TraversalIsSafe VisitsEachOnce
