SPECIFICATION MCSpec
CONSTANTS
    Grain = 2
    Capacity = 4
    MaxWrite = 3
    MaxFrames = 7
    MicGrain = 2  MicCapacity = 4  MicAsks = {1, 3}  MicMaxSamples = 8  MicMaxStarts = 2  MicMaxMutes = 2
    PadUsers = {"a", "b", "c"}  PadStarter = "a"  PadLastPort = 1  PadMaxLevel = 1  PadWidth = 2  PadLimit = 3
    PadBounds <- MCBounds  PadParts = {"users", "touch", "rumble"}
    ShareLength = 4  ShareBlock = 2  ShareAsks = {1, 2}  ShareMaxRead = 2  ShareMaxDrops = 3
    ShareMaxFaults = 1  ShareMaxCalls = 5
INVARIANTS TypeOK FramesConserved OneOutputAtATime ReadsKeepOrder InputIsKept
PROPERTIES RingIsAQueue DevicesReturn
CHECK_DEADLOCK FALSE
