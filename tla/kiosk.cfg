CONSTANTS
    IDs <- Visitors
    Orders <- Wishes
    Inventory <- Stock
    Rows = 2
    Days = {2, 7}
    MaxLogins = 4
    MaxBuys = 6
    MaxRestarts = 1
SPECIFICATION Spec
CHECK_DEADLOCK FALSE
INVARIANTS TypeOK OneVisit SegShowsVisitor Synced
