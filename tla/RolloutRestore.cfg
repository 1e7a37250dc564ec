\* No fault: the circuit breaker alone can undo the rollback of a failed release.
CONSTANTS
    Releases = {r1}
    Bootstrap = Bootstrap
    MaxFaults = 0
SPECIFICATION Spec
INVARIANTS FailureRestoresBoth
CHECK_DEADLOCK FALSE
