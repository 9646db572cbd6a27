SPECIFICATION FairRoutineSpec
CONSTANTS
    Objects = {o1}
    MaxRevision = 2
    MaxDay = 2
    MaxCrashes = 1
    MaxErrors = 1
    NoticeBatch = 1
INVARIANTS AtMostOneBriefing LedgersAgree CopiesAreCurrent
PROPERTIES PostingIsWarranted DeletedCopiesVanish
