\* Both kinds of script, two runs after each other, one fault anywhere.
CONSTANTS
    Releases = {r1, r2}
    Bootstrap = Bootstrap
    MaxFaults = 1
SPECIFICATION FairSpec
INVARIANTS TypeOK ServesOneRelease
PROPERTIES ReleasedIsServed WorkerFirst ScriptEnds
CHECK_DEADLOCK FALSE
