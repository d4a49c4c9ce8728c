CONSTANTS
    NoOne = NoOne
    Procs = {p1, p2, p3}
    first = p1
    Clients = {c1, c2, c3}
    ExecFails = {TRUE, FALSE}
SPECIFICATION FairSpec
CHECK_DEADLOCK FALSE
INVARIANTS TypeOK NoLostChild
PROPERTIES Reaped Served
