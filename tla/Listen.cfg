SPECIFICATION Spec
CONSTANTS
    Vlans = {0, 5}
    Timeouts = {0, 1, 3}
    Tos = 16
    Frames <- SmallTags
    Mac = mac
    Ip <- MyIp
    BodySize = 18
INVARIANTS
    TypeOK
    RepliesAccepted
PROPERTIES
    RequestsRecognised
    RepliesToRequest
    ListenEnds
CHECK_DEADLOCK FALSE
