SPECIFICATION Spec
CONSTANTS
    Node = {n1, n2, n3}
    NULL = NULL
    Value = {v1, v2}
    QUEUE_EMPTY = QUEUE_EMPTY
SYMMETRY Symmetry
INVARIANTS
    TypeOK
    ListIsPath
    NothingLeaks
PROPERTIES
    IsFifo
