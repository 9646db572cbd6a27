SPECIFICATION Spec
CONSTANTS
    Objects = {o1}
    MaxRevision = 2
    Requests = {q1, q2}
    MaxCrashes = 1
    MaxErrors = 1
    Null = Null
SYMMETRY Symmetry
INVARIANTS NeverResent EndedIsStopped CitedTextIsCurrent
PROPERTY ClosedStaysClosed
CHECK_DEADLOCK FALSE
