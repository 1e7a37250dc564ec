\* One job whose task may reach SQS twice, be redriven and outlive its TTL.
CONSTANTS
    Jobs = {j1}
    BlankPrompts = {}
    Expiring = {j1}
    Malformed = {}
    Workers = {w1, w2}
    MaxReceiveCount = 2
    MaxCopies = 2
    MaxRedrives = 1
    MaxFaults = 2
    None = None
SPECIFICATION Spec
INVARIANTS TypeOK AckOnlyAfterSuccess AcceptedWorkIsKept FailedExactlyWhenExhausted InferenceImpliesClaimed
PROPERTIES LifecycleSpec
