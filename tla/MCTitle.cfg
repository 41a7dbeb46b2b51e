SPECIFICATION MCSpec
CONSTANTS
    Builds <- MCBuilds
    Armed <- MCArmed
    MaxAsks = 2
    MaxArm = 2
    Plans <- MCPlans
    ScreenPictures = 4  ScreenFrames = 5  ScreenRefused = 2
    TestModes = 2  TestFrames = 2  TestArms = 2  TestDeaths = 1
    CorePaths = {"p", "q"}  CoreThreads = {"t1", "t2"}  CoreLoads = 2  CoreCapacity = 1  CoreRetries = 1
    CoreRefused = 2
    ImageLimit = 6  ImageSegments <- MCSegments  ImageArrays <- MCArrays  ImageTables = {0, 5}
    ImageSymbols <- MCSymbols  ImageRelocs = 2
    MemoryThreads = {"t1", "t2"}  MemorySpans = {1}  MemoryIds = {1}  MemorySlots = 2
    MemorySizes = {1, 2, 4, 5}  MemoryCalls = 4
INVARIANTS GamesRunOnce TestsAreArmed MemoryIsTheirs
PROPERTIES AnsweredOnce ScreenIsWhole NothingHangs
CHECK_DEADLOCK FALSE
