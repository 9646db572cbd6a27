SPECIFICATION Spec
CONSTANTS
    Objects = {o1, o2}
    MaxRevision = 2
    MaxDay = 1
    DailyLimit = 1
    Texts = {t0}
    ServiceText = t0
    Modes = {"active"}
    Actors = {"service"}
    MaxCrashes = 0
    MaxErrors = 0
    Null = Null
INVARIANT SendsWithinDailyLimit
CHECK_DEADLOCK FALSE
