CONSTANTS
    type_num = 3
    Stocks <- Inventories
    Conn = {c1, c2}
    Main = Main
    Free = Free
    Orders = {0, 2}
    work_num = 1
    MaxSignals = 2
SPECIFICATION FairSpec
CHECK_DEADLOCK FALSE
INVARIANTS TypeOK NoneOversold Ranked CheckerAgrees FirstTable SavedLog
PROPERTY Ends
