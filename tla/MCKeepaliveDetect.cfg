SPECIFICATION FairSpec
CONSTANTS
    LenBase = 2
    MaxLenBytes = 4
    HeaderRoom = 5
    SendRoom = 3
    KeepAliveInterval = 1
    RetryLoopInterval = 1
    PINGREQ = 192
    PINGRESP = 208
    OutPackets <- MCOutPackets
    InPackets <- MCInPackets
PROPERTIES
    DeadPeerDetected
