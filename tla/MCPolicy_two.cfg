SPECIFICATION Spec
CONSTANTS
    Candidates = {c1}
    Workers = {"timer"}
    Quota = 1
    MaxCommits = 2
    Transactions = {t0, t1}
    Installers = {"operator", "sweep"}
    MaxFaults = 0
INVARIANTS SettledAgrees
CHECK_DEADLOCK FALSE
