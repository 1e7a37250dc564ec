\* One API process and one worker container.  A tick is ten seconds.
CONSTANTS
    Requests = {r1, r2, r3}
    None = None
    Environments <- MCEnvironments
    HeartbeatInterval = 3
    MaxAge = 9
    ProbeInterval = 3
    Retries = 3
    StartPeriod = 3
    StopTimeout = 3
    MaxBoot = 2
    MaxReceive = 8
    MaxBusy = 20
    MaxBackoff = 1
    ClockJump = 4
SPECIFICATION MCSpec
SYMMETRY Symmetry
INVARIANTS ProcessesTypeOK JobsAreFound NoKeyNoCost  StopsWithinOneMessage
PROPERTIES OnlySlowIsReplaced
CHECK_DEADLOCK FALSE
