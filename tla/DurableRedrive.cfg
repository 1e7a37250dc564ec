\* A dead letter is redriven; no crash, no lost answer.
CONSTANTS
    Jobs = {j1}
    BlankPrompts = {}
    Expiring = {}
    Malformed = {}
    Workers = {w1}
    MaxReceiveCount = 2
    MaxCopies = 1
    MaxRedrives = 1
    MaxFaults = 0
    None = None
SPECIFICATION FairSpec
PROPERTIES RedrivenJobIsRetried
