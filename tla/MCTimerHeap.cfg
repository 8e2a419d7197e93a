\* Seven nodes: three full levels, so that a node can move up or down by two
\* levels after a removal and the last node can lie in the other half of the
\* tree.
CONSTANTS
    Node <- MCNode
    NULL = NULL
    Before <- MCBefore
SPECIFICATION Spec
INVARIANTS HeapShape HeapOrder
PROPERTY ImplementsQueue
