SPECIFICATION Spec
CONSTANTS
    Vlans = {100}
    Timeouts = {3}
    Tos = 16
    Frames <- LargeTags
    Mac = mac
    Ip <- MyIp
    BodySize = 18
PROPERTIES
    RequestsRecognised
CHECK_DEADLOCK FALSE
