SPECIFICATION Spec
CONSTANTS
    Objects = {o1}
    MaxRevision = 2
    MaxDay = 1
    DailyLimit = 1
    Texts = {t0, t1}
    ServiceText = t0
    Modes = {"active", "shadow"}
    Actors = {"service", "cli"}
    MaxCrashes = 1
    MaxErrors = 0
    Null = Null
INVARIANT BodyFollowsSource
CHECK_DEADLOCK FALSE
