SPECIFICATION FairSpec
CONSTANTS
    Workflows = {}
    Turns = {}
    Clients = {"client"}
    MediaModes = {"image"}
    MaxQueue = 1
    MaxFaults = 1
PROPERTIES SwitchEnds TextBecomesAvailable
CHECK_DEADLOCK FALSE
