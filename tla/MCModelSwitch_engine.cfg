SPECIFICATION Spec
CONSTANTS
    Workflows = {}
    Turns = {}
    Clients = {"client"}
    MediaModes = {"image"}
    MaxQueue = 1
    MaxFaults = 0
PROPERTIES EngineIdle
CHECK_DEADLOCK FALSE
