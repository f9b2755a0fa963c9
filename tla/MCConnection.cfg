CONSTANTS
    MaxFrames = 3
    MaxRead = 3
    Disabled = {"open_handshake_timeout", "close_handshake_timeout"}
SPECIFICATION ServerSpec
INVARIANTS
    TypeOK
    AlwaysAccepting
    OneOfEach
    NoLostWakeup
    RepliesInOrder
    NothingAfterClose
    EndsOnce
PROPERTIES
    NoHandshakeForEver
CHECK_DEADLOCK FALSE
