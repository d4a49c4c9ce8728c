CONSTANTS
    c1 = c1
    c2 = c2
    c3 = c3
    Clients = {c1, c2, c3}
    amount <- demo
    times = 2
    MaxSignals = 2
    MaxCrashes = 1
SPECIFICATION FairSpec
INVARIANTS TypeOK Conserved CrowdBounded
PROPERTY AllBooked
