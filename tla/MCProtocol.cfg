SPECIFICATION Spec
CONSTANTS
    BASE = 3
    SIZE_WIDTH = 2
    TYPE_WIDTH = 1
    MAX_MESSAGE_SIZE_BYTES = 6
    HostMessages <- MCMessages
    MaxMessages = 3
    FifoDepth = 2
INVARIANTS
    ProtocolTypeOK
    PayloadFits
    CleanMessageArrives
PROPERTIES
    IsChannel
    AlwaysResynchronises
