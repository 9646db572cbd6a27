SPECIFICATION Spec
CONSTANTS
    Workflows = {}
    Turns = {"turn"}
    Clients = {}
    MediaModes = {"image"}
    MaxQueue = 1
    MaxFaults = 0
PROPERTIES TurnsDrained
CHECK_DEADLOCK FALSE
