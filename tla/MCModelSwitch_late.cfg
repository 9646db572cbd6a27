SPECIFICATION Spec
CONSTANTS
    Workflows = {}
    Turns = {}
    Clients = {}
    MediaModes = {"image"}
    MaxQueue = 1
    MaxFaults = 1
PROPERTIES NoJobKilledAtAll
CHECK_DEADLOCK FALSE
