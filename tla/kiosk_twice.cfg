CONSTANTS
    IDs <- Visitors
    Orders <- OneWish
    Inventory <- Stock
    Rows = 2
    Days = {2}
    MaxLogins = 2
    MaxBuys = 2
    MaxRestarts = 1
SPECIFICATION Spec
CHECK_DEADLOCK FALSE
INVARIANT BoughtOnce
