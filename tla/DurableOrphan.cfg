\* A prompt of white space, no fault at all.
CONSTANTS
    Jobs = {j1, j2}
    BlankPrompts = {j1}
    Expiring = {}
    Malformed = {}
    Workers = {w1}
    MaxReceiveCount = 2
    MaxCopies = 1
    MaxRedrives = 0
    MaxFaults = 0
    None = None
SPECIFICATION Spec
INVARIANTS RaisedIsNotLeftPending
