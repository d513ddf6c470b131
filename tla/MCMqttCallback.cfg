SPECIFICATION Spec
CONSTANTS
    Msg = {m1, m2}
    NoMsg = NoMsg
    QoSs = {0, 1}
    MaxId = 1
    MaxPublish = 0
SYMMETRY Symmetry
INVARIANTS
    CallbackOwnsMessage
