SPECIFICATION Spec
CONSTANTS
    Thread = {t1}
    Msg = {m1, m2, m3, m4}
    NoMsg = NoMsg
    QoSs = {1, 2}
    MaxInflight = 2
    MAX_MSG_ID = 3
SYMMETRY Symmetry
INVARIANTS
    UniqueIds
    IdAlwaysFound
    SearchAgrees
PROPERTIES
    NoSilentDrop
