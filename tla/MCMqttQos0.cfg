SPECIFICATION Spec
CONSTANTS
    Thread = {t1, t2}
    Msg = {m1, m2}
    NoMsg = NoMsg
    QoSs = {0, 1}
    MaxInflight = 1
    MAX_MSG_ID = 2
SYMMETRY Symmetry
INVARIANTS
    Qos0DoesNotWait
