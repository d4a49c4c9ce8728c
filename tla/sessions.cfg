CONSTANTS
    Conn = {c1, c2}
    IDs <- BothIDs
    Orders <- OneOrder
    Plain = {}
    Inventory <- OneShop
    Capacity = 6
    StartDays = {6, 7}
    work_num = 3
    Free = Free
SPECIFICATION Spec
SYMMETRY Perms
INVARIANTS TypeOK OncePerWeek NoOversell
PROPERTY CheckerAccepts
