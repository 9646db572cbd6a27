SPECIFICATION SyncSpec
CONSTANTS
    Objects = {1}
    Refs = {1}
    Contents = {a, b}
    MaxRevision = 2
    MemoryIds = {}
    RequestIds = {}
    Null = Null
    DaythreadObjects = {}
    Rolling = TRUE
    MaxDay = 1
    BatchSize = 1
    MaxChanges = 2
    MaxFaults = 0
INVARIANT HeadIsAdmissible
CHECK_DEADLOCK FALSE
