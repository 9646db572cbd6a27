SPECIFICATION Spec
CONSTANTS
    Candidates = {c1}
    Workers = {"timer"}
    Quota = 2
    MaxCommits = 3
    Transactions = {t0, t1}
    Installers = {"operator"}
    MaxFaults = 0
INVARIANT SettledIsLoaded
CHECK_DEADLOCK FALSE
