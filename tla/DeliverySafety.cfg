\* Two commits or one built twice, with one bootstrap and two expired images.
CONSTANTS
    Commits = {c1, c2}
    MaxBuilds = 2
    MaxBootstraps = 1
    MaxExpirations = 2
    None = None
SPECIFICATION Spec
SYMMETRY CommitSymmetry
INVARIANTS TypeOK ServedIsOneBuild ServedIsSigned
CHECK_DEADLOCK FALSE
