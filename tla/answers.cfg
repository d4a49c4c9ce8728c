CONSTANTS
    Conn = {c1, c2}
    IDs <- EvenID
    Orders <- OneOrder
    Plain = {"logout", "exit"}
    Inventory <- OneShop
    Capacity = 6
    StartDays = {6}
    work_num = 2
    Free = Free
SPECIFICATION FairSpec
PROPERTIES Answered WorkerEnds
