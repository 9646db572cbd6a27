SPECIFICATION Spec
CONSTANTS
    Objects = {o1}
    Refs = {r1, r2}
    Contents = {c1, c2}
    MaxRevision = 3
    MemoryIds = {m1, m2}
    RequestIds = {q1, q2}
    Null = Null
SYMMETRY Symmetry
INVARIANTS DeletedContentStaysGone CurrentIsNewestAccepted PendingIsCurrent DeletedSourceIsForgotten
PROPERTIES NoRegression ImplementsJournal
CHECK_DEADLOCK FALSE
