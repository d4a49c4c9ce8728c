CONSTANTS
    Conn = {c1, c2}
    IDs <- GoodBad
    Orders <- OddOrders
    Plain = {"show", "logout", "statics"}
    Inventory <- OneShop
    Capacity = 6
    StartDays = {6}
    work_num = 2
    Free = Free
SPECIFICATION Spec
SYMMETRY Perms
INVARIANT BuyListPaid
PROPERTY CheckerAccepts
