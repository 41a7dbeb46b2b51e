SPECIFICATION MCSpec
CONSTANTS
    u1 = u1  u2 = u2  p1 = p1  r1 = r1  r2 = r2  name = name
    None = None
    Uploads = {u1, u2}
    Parts = {p1}
    Requests = {r1, r2}
    Fds = {1, 2, 3}
    Target <- OneName
    Replace = {u2}
    Limit = 1
    Tries = 2
    LostConnections = TRUE
    Accounts = {"a", "b"}
    Pages = {"p"}
    MaxEdits = 2
    MaxStarts = 2
    MaxFails = 1
    MaxCores = 1
    EarlyCrash = 1
    LateCrash = 1
INVARIANTS WritersCount SettingsAreKept FilesAreWhole
PROPERTIES NeverOver RequestsEnd
CHECK_DEADLOCK FALSE
