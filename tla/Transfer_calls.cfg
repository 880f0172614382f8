SPECIFICATION FairSpec
CONSTANTS
    c1 = c1
    c2 = c2
    Call = {c1, c2}
    Retries = 3
INVARIANTS TypeOK AtMostOnce OkMeansDone NothingOutlives
PROPERTIES AlwaysAnswered
CHECK_DEADLOCK FALSE
