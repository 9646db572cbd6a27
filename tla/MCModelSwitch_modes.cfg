SPECIFICATION Spec
CONSTANTS
    Workflows = {}
    Turns = {}
    Clients = {}
    MediaModes = {"image", "video"}
    MaxQueue = 1
    MaxFaults = 4
INVARIANTS OneModePerProcess
CHECK_DEADLOCK FALSE
