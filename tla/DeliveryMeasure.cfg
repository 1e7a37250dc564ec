\* A promoted commit that staging still runs.
CONSTANTS
    Commits = {c1}
    MaxBuilds = 1
    MaxBootstraps = 0
    MaxExpirations = 0
    None = None
SPECIFICATION Spec
PROPERTIES OnlyStaleIsRefused
CHECK_DEADLOCK FALSE
