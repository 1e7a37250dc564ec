\* Progress under the fairness of the worker loop, ECS and SQS; j2 never gets queued.
CONSTANTS
    Jobs = {j1, j2}
    BlankPrompts = {j2}
    Expiring = {j1}
    Malformed = {x1}
    Workers = {w1, w2}
    MaxReceiveCount = 2
    MaxCopies = 1
    MaxRedrives = 0
    MaxFaults = 1
    None = None
SPECIFICATION FairSpec
PROPERTIES MessageSettles AcceptedJobSettles
