SPECIFICATION Spec
CONSTANTS
    u1 = u1  u2 = u2  p1 = p1  p2 = p2  r1 = r1  r2 = r2  r3 = r3  a = a  b = b
    None = None
    Uploads <- MCUploads
    Parts <- TwoParts
    Requests <- Three
    Fds <- MCFds
    Target <- OneName
    Replace = {}
    Limit = 2
    Tries = 1
    LostConnections = TRUE
INVARIANTS WriterHasItsFile OnlyWholeFiles SessionsEnd
PROPERTY NeverOverwritten
SYMMETRY Symmetry
CHECK_DEADLOCK FALSE
