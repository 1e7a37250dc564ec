\* One request more than the queue holds, two workers that may both die.
CONSTANTS
    RequestCount = 5
    Workers = {w1, w2}
    MaxErrorPercent = 20
    Sentinel = Sentinel
    MaxFaults = 2
SPECIFICATION FairSpec
INVARIANTS TypeOK AnsweredOrLost ReportIsComplete PassedIsEarned
PROPERTIES RunEnds
CHECK_DEADLOCK FALSE
