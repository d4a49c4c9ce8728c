CONSTANTS
    Keys = {"0", "3", "8", "A", "B", "C", "D"}
    MaxKeys = 6
SPECIFICATION Spec
CHECK_DEADLOCK FALSE
INVARIANTS TypeOK AnswerRight DisplayShows LedsShow
