SPECIFICATION FairSpec
CONSTANTS
    Msg = {m1, m2}
    NoMsg = NoMsg
    QoSs = {0, 1, 2}
    MaxId = 2
    MaxPublish = 1
INVARIANTS
    TypeOK
    OnceAtMost
    AckedIsKept
    AckUnderWay
    NoBacklog
PROPERTIES
    SentIsDelivered
