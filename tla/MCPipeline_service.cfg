SPECIFICATION FairSpec
CONSTANTS
    Objects = {o1}
    MaxRevision = 2
    MaxDay = 2
    DailyLimit = 1
    Texts = {t0}
    ServiceText = t0
    Modes = {"active"}
    Actors = {"service"}
    MaxCrashes = 1
    MaxErrors = 1
    Null = Null
INVARIANT BodyFollowsSource
PROPERTY ClaimsResolve
CHECK_DEADLOCK FALSE
