SPECIFICATION FairSpec
CONSTANTS
    Thread = {t1, t2}
    Msg = {m1, m2}
    NoMsg = NoMsg
    QoSs = {2}
    MaxInflight = 1
    MAX_MSG_ID = 2
PROPERTIES
    CallsReturn
    StoredIsConfirmed
    ThreadEnds
