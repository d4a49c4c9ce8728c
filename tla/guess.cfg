CONSTANTS
    Uppers = {2, 3, 4, 5, 8, 9, 12}
    Answers = {1, 2, 3, 4, 5, 6, 7, 8, 9, 10, 11, 12}
    Schedules = {TRUE, FALSE}
SPECIFICATION FairSpec
INVARIANTS TypeOK Bracket GuessInRange
PROPERTY Found
