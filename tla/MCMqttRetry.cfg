SPECIFICATION Spec
CONSTANTS
    Thread = {t1, t2}
    Msg = {m1}
    NoMsg = NoMsg
    QoSs = {1}
    MaxInflight = 1
    MAX_MSG_ID = 2
SYMMETRY Symmetry
INVARIANTS
    FailedSendIsKept
