SPECIFICATION Spec
CONSTANTS
    Workflows = {"workflow"}
    Turns = {"turn"}
    Clients = {"client"}
    MediaModes = {image, video}
    image = image
    video = video
    MaxQueue = 1
    MaxFaults = 1
INVARIANTS OneModePerProcess
PROPERTIES ExclusiveStart NoJobKilled IdleStopIsIdle DrainedBeforeStop
SYMMETRY Symmetry
CHECK_DEADLOCK FALSE
