SPECIFICATION FairSyncSpec
CONSTANTS
    Objects = {1, 2, 3}
    Refs = {1, 2, 3}
    Contents = {a, b}
    MaxRevision = 3
    MemoryIds = {}
    RequestIds = {}
    Null = Null
    DaythreadObjects = {2, 3}
    Rolling = FALSE
    MaxDay = 1
    BatchSize = 1
    MaxChanges = 3
    MaxFaults = 1
INVARIANTS HeadIsAdmissible ReportedIsServed
PROPERTIES NoStaleRecreation GoneIsWithdrawn
CHECK_DEADLOCK FALSE
