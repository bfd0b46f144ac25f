SPECIFICATION ClientSpec
CONSTANTS
    Clients = {1}
    MaxLosses = 1
PROPERTY DisconnectEnds
CHECK_DEADLOCK FALSE
