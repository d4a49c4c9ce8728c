CONSTANTS
    Conn = {c1}
    IDs <- EvenID
    Orders <- TenthCity
    Plain = {"logout"}
    Inventory <- NineShops
    Capacity = 6
    StartDays = {6}
    work_num = 2
    Free = Free
SPECIFICATION FairSpec
PROPERTY CheckerAccepts
