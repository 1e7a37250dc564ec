\* The release gates and the readers of production, each on its own.
\* A gate stops when it has its verdict.
CONSTANTS
    Periods = 3
    Counts = {0, 10}
    Errors = {0, 1}
    Configs <- MCConfigs
    MaxAttempts = 2
    NoCost = NoCost
    Suites <- MCSuites
    Replies <- MCReplies
    ResourceChanges <- MCResourceChanges
    NoReport = NoReport
SPECIFICATION MCSpec
INVARIANTS GatesTypeOK VerdictsAreEarned
PROPERTIES EvidenceIsSound
CHECK_DEADLOCK FALSE
