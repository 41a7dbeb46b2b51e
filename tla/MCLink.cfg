SPECIFICATION MCSpec
CONSTANTS
    Daemons = {d1, d2}
    Conns = {c1, c2, c3}
    MaxBuild = 2
    Budget <- MCBudget
    Title = Title
    None = None
    TwoFiles = 2  TwoAlways = {1, 2}  TwoReleases = 2
SYMMETRY MCSymmetry
INVARIANTS LinkIsKept LinkedToItsBuild OneRelease
CHECK_DEADLOCK FALSE
