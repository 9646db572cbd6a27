SPECIFICATION Spec
CONSTANTS
    Candidates = {c1, c2}
    Workers = {"timer"}
    Quota = 2
    MaxCommits = 3
    Transactions = {t0, t1, t2}
    Installers = {"operator"}
    MaxFaults = 2
CONSTRAINT FaultBound
SYMMETRY Symmetry
INVARIANTS InstalledIsVetted AtMostOneBehind DownIsAccounted SettledAgrees
CHECK_DEADLOCK FALSE
