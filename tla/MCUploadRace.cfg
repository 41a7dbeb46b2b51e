SPECIFICATION Spec
CONSTANTS
    u1 = u1  u2 = u2  p1 = p1  p2 = p2  r1 = r1  r2 = r2  r3 = r3  a = a  b = b
    None = None
    Uploads <- MCUploads
    Parts <- OnePart
    Requests <- Three
    Fds <- MCFds
    Target <- TwoNames
    Replace = {}
    Limit = 2
    Tries = 2
    LostConnections = TRUE
INVARIANT OwnBytes
CHECK_DEADLOCK FALSE
