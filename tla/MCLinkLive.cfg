SPECIFICATION LiveSpec
CONSTANTS
    Daemons = {d1, d2}
    Conns = {c1, c2}
    MaxBuild = 2
    Budget <- MCReplaced
    Title = Title
    None = None
    TwoFiles = 2  TwoAlways = {1, 2}  TwoReleases = 3
CHECK_DEADLOCK FALSE
PROPERTIES LinkLives
