\* More submits than permits and more jobs than stored records, two threads, a
\* waiting and an immediate shutdown; submits and threads are fair.
CONSTANTS
    Jobs = {j1, j2, j3}
    Workers = {w1, w2}
    Closers = {c1, c2}
    WaitingClosers = {c1}
    MaxPending = 2
    MaxStored = 2
    None = None
SPECIFICATION FairSpec
INVARIANTS TypeOK PermitsAreConserved RejectedLeavesNothing ActiveIsStored WorkersSurvive ErrorsMatchRecords DrainedBeforeStop
PROPERTIES LifecycleSpec AcceptedJobFinishes ShutdownReturns
CHECK_DEADLOCK FALSE
