------------------------------- MODULE MCTitle -------------------------------
(* Model checking of the title's start, of the way its programs hand over to    *)
(* one another, and of what it shows and holds: the display's two buffers, the  *)
(* test of the display's modes, the pictures generated between frames, the      *)
(* cores it maps, their threads and its memory; each on its own, part says      *)
(* which.                                                                      *)
EXTENDS Title

CONSTANTS
    ScreenPictures, ScreenFrames, ScreenRefused,                                        \* of Display
    TestModes, TestFrames, TestArms, TestDeaths,                                        \* of DisplayModes
    CorePaths, CoreThreads, CoreLoads, CoreCapacity, CoreRetries, CoreRefused,          \* of Cores
    ImageLimit, ImageSegments, ImageArrays, ImageTables, ImageSymbols, ImageRelocs,     \* of CoreImage
    MemoryThreads, MemorySpans, MemoryIds, MemorySlots, MemorySizes, MemoryCalls        \* of Memory

Plan == [fault |-> 0, home |-> 2, kill |-> 0, ask |-> 0, tile |-> 0, arm |-> 0, remember |-> 0, update |-> 0]
MCPlans == {[Plan EXCEPT !.fault = 1, !.kill = 1, !.ask = 2, !.update = 1],
            [Plan EXCEPT !.fault = 1, !.ask = 1, !.tile = 1, !.remember = 1],
            [Plan EXCEPT !.fault = 1, !.kill = 1, !.arm = 1],
            [Plan EXCEPT !.kill = 1, !.arm = 1, !.ask = 1]}

\* The segments, arrays and symbols of core files, those a loader must refuse among them.
Segment(at, words, inFile, flags) == [at |-> at, words |-> words, file |-> inFile, flags |-> flags]
MCSegments == {
    Segment(0, 2, 2, {"R", "X"}), Segment(2, 3, 2, {"R", "W"}), Segment(2, 2, 2, {"R"}), Segment(1, 2, 2, {"R", "X"}),
    Segment(0, 3, 3, {"R", "W"}), Segment(0, 2, 1, {"R", "W", "X"}), Segment(4, 3, 1, {"R"})}
MCArrays == {[at |-> a, words |-> n] : a \in {2}, n \in {1, 2}} \cup {[at |-> 0, words |-> 0], [at |-> 5, words |-> 1]}
Symbol(at, weak, provided) == [at |-> at, weak |-> weak, provided |-> provided]
MCSymbols == {Symbol(0, FALSE, FALSE), Symbol(6, TRUE, FALSE), Symbol(6, FALSE, TRUE)}

\* The rates of a game and of the screen: 60 a second shown at 144, each picture once; a game a
\* little under half the rate of a screen that shows each twice; a game faster than the screen.
Rate(frame, step, dup) == [frame |-> frame, step |-> step, dup |-> dup]
MCRates == {Rate(12, 5, 1), Rate(61, 30, 2), Rate(5, 12, 1)}

\* Games a core keeps its rate of, with and without generation; that generation slows, or costs less
\* than a tenth; and one slower than its core declares.
Game(off, on) == [off |-> off, on |-> on]
MCGames == {Game(60, 60), Game(60, 40), Game(50, 46), Game(30, 30)}

\* A build with both programs, and one without each; the relaunch test restarts eboot.bin, with
\* a mode of its own, or another program.
Build(hasPicker, hasEsde) == [picker |-> hasPicker, esde |-> hasEsde]
MCBuilds == {Build(TRUE, TRUE), Build(TRUE, FALSE), Build(FALSE, TRUE)}
Arming(i, a) == [image |-> i, args |-> a]
MCArmed == {Itself, Arming("eboot", Mode("picker")), Arming("esde", Mode("es-de"))}

TitleOff == Init /\ choice = "ask" /\ picker /\ esde /\ budget.arm = 1 /\ budget.ask = 1

VARIABLES
    part,  \* the component this behavior is of
    dispOpening, dispIsOpen, dispFrames, dispBack, dispPending, dispScanned, dispWaits, dispEarly,
    dispMenu, dispHave, dispSeen, dispOffered, dispDrawn, dispAsked, dispRefused,
    testArmed, testResults, testPc, testOrder, testStep, testChain, testSurface,
    testObjects, testPassed, testShown, testArms, testStarts, testDeaths,
    coresFactory, coresModules, coresMapped, coresLoads, coresPc, coresClosing, coresLive,
    coresWaited, coresSeen, coresThread, coresImage, coresCounts, coresCallers,
    coresRequest, coresMaker, coresTries, coresRefused, coresAnswer,
    imageSegments, imageInit, imageFini, imagePc, imageAt, imageHeld, imageImage,
    imageFixed, imageCode, imageRan,
    memoryOs, memoryMappings, memorySlabs, memorySlots, memoryDirect, memoryNative,
    memoryBlocks, memoryCall, memoryCalls,
    fgRate, fgMade, fgFrames, fgHeld, fgHasHeld, fgHistory, fgTiles, fgLatest, fgLevel,
    fgOver, fgUnder, fgWait, fgSinceUp, fgTimes, fgPhase, fgCalls, fgGap, fgOpen, fgCall,
    fgPeriod, fgPresent, fgNewest, fgSince, fgCut, fgSearch, fgShown, fgSeen, fgLine,
    fgStops, fgFails,
    flFloor, flPhase, flOffWindows, flVerifyWindows, flSlowWindows, flLastSlow, flRateOff,
    flRateKept, flLeft, flGame, flPlan, flMixed, flSteady, flVerdict, flOffFor, flChanges,
    recPlace, recStage, recMade, recBuffers, recCount, recIndex, recSkipped, recWindow,
    recSinceEnd, recPending, recCopied, recRequest, recActive, recCapacity, recMeta, recPic,
    recEnvDone, recFiles, recSpent

Disp == INSTANCE Display WITH
    MaxPictures <- ScreenPictures, MaxFrames <- ScreenFrames, MaxRefused <- ScreenRefused,
    opening <- dispOpening,
    isOpen <- dispIsOpen, frames <- dispFrames, back <- dispBack, pending <- dispPending,
    scanned <- dispScanned, waits <- dispWaits, early <- dispEarly, menu <- dispMenu, have <- dispHave,
    seen <- dispSeen, offered <- dispOffered, drawn <- dispDrawn, asked <- dispAsked,
    refused <- dispRefused
Test == INSTANCE DisplayModes WITH
    MaxModes <- TestModes, Frames <- TestFrames, MaxArms <- TestArms, MaxDeaths <- TestDeaths,
    armed <- testArmed,
    results <- testResults, pc <- testPc, order <- testOrder, step <- testStep,
    chain <- testChain, surface <- testSurface, objects <- testObjects,
    passed <- testPassed, shown <- testShown, arms <- testArms, starts <- testStarts,
    deaths <- testDeaths
Cores == INSTANCE Cores WITH
    Paths <- CorePaths, Threads <- CoreThreads, MaxLoads <- CoreLoads, Capacity <- CoreCapacity,
    Retries <- CoreRetries, MaxRefused <- CoreRefused, Main <- "main", factory <- coresFactory,
    modules <- coresModules, mapped <- coresMapped, loads <- coresLoads, pc <- coresPc,
    closing <- coresClosing, live <- coresLive, waited <- coresWaited, seen <- coresSeen,
    thread <- coresThread, image <- coresImage, counts <- coresCounts,
    callers <- coresCallers, request <- coresRequest, maker <- coresMaker,
    tries <- coresTries, refused <- coresRefused, answer <- coresAnswer
Image == INSTANCE CoreImage WITH
    Limit <- ImageLimit, Segments <- ImageSegments, Arrays <- ImageArrays, Tables <- ImageTables,
    Symbols <- ImageSymbols, MaxRelocs <- ImageRelocs, segments <- imageSegments, init <- imageInit,
    fini <- imageFini, pc <- imagePc, at <- imageAt, held <- imageHeld, image <- imageImage,
    fixed <- imageFixed, code <- imageCode, ran <- imageRan
Memory == INSTANCE Memory WITH
    Threads <- MemoryThreads, Spans <- MemorySpans, Ids <- MemoryIds, Slots <- MemorySlots,
    Sizes <- MemorySizes, MaxCalls <- MemoryCalls, Callocs <- FALSE, os <- memoryOs, mappings <- memoryMappings,
    slabs <- memorySlabs, slots <- memorySlots, direct <- memoryDirect,
    native <- memoryNative, blocks <- memoryBlocks, call <- memoryCall, calls <- memoryCalls
Fg == INSTANCE FrameGen WITH
    Rates <- MCRates, Cadence <- 0, Covers <- {0, 2}, Sizes <- {"low", "high"},
    LowRes <- {"low"}, Method <- 0, LongestGap <- 2, Overs <- 1, FirstWait <- 1,
    LongestWait <- 2, Soon <- 1, Costs <- {"none", "dear", "cheap"}, MaxFrames <- 3,
    MaxSkips <- 0, MaxCalls <- 3, MaxStops <- 1, MaxFails <- 1, rate <- fgRate,
    made <- fgMade, frames <- fgFrames, held <- fgHeld, hasHeld <- fgHasHeld,
    history <- fgHistory, tiles <- fgTiles, latest <- fgLatest, level <- fgLevel,
    over <- fgOver, under <- fgUnder, wait <- fgWait, sinceUp <- fgSinceUp,
    times <- fgTimes, phase <- fgPhase, calls <- fgCalls, gap <- fgGap, open <- fgOpen,
    call <- fgCall, period <- fgPeriod, present <- fgPresent, newest <- fgNewest,
    since <- fgSince, cut <- fgCut, search <- fgSearch, shown <- fgShown, seen <- fgSeen,
    line <- fgLine, stops <- fgStops, fails <- fgFails
Fl == INSTANCE Floor WITH
    Games <- MCGames, Declared <- 60, MenuRates <- {60}, Lengths <- {2, 3}, OffFor <- 10,
    MaxChanges <- 2, floor <- flFloor, phase <- flPhase, offWindows <- flOffWindows,
    verifyWindows <- flVerifyWindows, slowWindows <- flSlowWindows, lastSlow <- flLastSlow,
    rateOff <- flRateOff, rateKept <- flRateKept, left <- flLeft, game <- flGame,
    plan <- flPlan, mixed <- flMixed, steady <- flSteady, verdict <- flVerdict,
    offFor <- flOffFor, changes <- flChanges
Rec == INSTANCE FrameRecords WITH
    Limit <- 2, Skip <- 1, Stride <- 1, CurOnly <- FALSE, EnvAt <- 2, EnvCount <- 2,
    Requests <- {1, 3}, MaxPictures <- 2, MaxPresents <- 5, MaxRequests <- 1, MaxFails <- 1,
    MaxCloses <- 1, place <- recPlace, stage <- recStage, made <- recMade,
    buffers <- recBuffers, count <- recCount, index <- recIndex, skipped <- recSkipped,
    window <- recWindow, sinceEnd <- recSinceEnd, pending <- recPending,
    copied <- recCopied, request <- recRequest, active <- recActive,
    capacity <- recCapacity, meta <- recMeta, pic <- recPic, envDone <- recEnvDone,
    files <- recFiles, spent <- recSpent
DispVars ==
    <<dispOpening, dispIsOpen, dispFrames, dispBack, dispPending, dispScanned, dispWaits, dispEarly,
      dispMenu, dispHave, dispSeen, dispOffered, dispDrawn, dispAsked, dispRefused>>
TestVars ==
    <<testArmed, testResults, testPc, testOrder, testStep, testChain, testSurface,
      testObjects, testPassed, testShown, testArms, testStarts, testDeaths>>
CoresVars ==
    <<coresFactory, coresModules, coresMapped, coresLoads, coresPc, coresClosing, coresLive,
      coresWaited, coresSeen, coresThread, coresImage, coresCounts, coresCallers,
      coresRequest, coresMaker, coresTries, coresRefused, coresAnswer>>
ImageVars ==
    <<imageSegments, imageInit, imageFini, imagePc, imageAt, imageHeld, imageImage,
      imageFixed, imageCode, imageRan>>
MemoryVars ==
    <<memoryOs, memoryMappings, memorySlabs, memorySlots, memoryDirect, memoryNative,
      memoryBlocks, memoryCall, memoryCalls>>
FgVars ==
    <<fgRate, fgMade, fgFrames, fgHeld, fgHasHeld, fgHistory, fgTiles, fgLatest, fgLevel,
      fgOver, fgUnder, fgWait, fgSinceUp, fgTimes, fgPhase, fgCalls, fgGap, fgOpen, fgCall,
      fgPeriod, fgPresent, fgNewest, fgSince, fgCut, fgSearch, fgShown, fgSeen, fgLine,
      fgStops, fgFails>>
FlVars ==
    <<flFloor, flPhase, flOffWindows, flVerifyWindows, flSlowWindows, flLastSlow, flRateOff,
      flRateKept, flLeft, flGame, flPlan, flMixed, flSteady, flVerdict, flOffFor, flChanges>>
RecVars ==
    <<recPlace, recStage, recMade, recBuffers, recCount, recIndex, recSkipped, recWindow,
      recSinceEnd, recPending, recCopied, recRequest, recActive, recCapacity, recMeta,
      recPic, recEnvDone, recFiles, recSpent>>

\* The variables of a component this behavior is not of.
Off == "off"
DispOff ==
    /\ dispOpening = Off /\ dispIsOpen = Off /\ dispFrames = Off /\ dispBack = Off
    /\ dispPending = Off /\ dispScanned = Off /\ dispWaits = Off /\ dispEarly = Off /\ dispMenu = Off
    /\ dispHave = Off /\ dispSeen = Off /\ dispOffered = Off /\ dispDrawn = Off
    /\ dispAsked = Off /\ dispRefused = Off
TestOff ==
    /\ testArmed = Off /\ testResults = Off /\ testPc = Off /\ testOrder = Off
    /\ testStep = Off /\ testChain = Off /\ testSurface = Off /\ testObjects = Off
    /\ testPassed = Off /\ testShown = Off /\ testArms = Off /\ testStarts = Off
    /\ testDeaths = Off
CoresOff ==
    /\ coresFactory = Off /\ coresModules = Off /\ coresMapped = Off /\ coresLoads = Off
    /\ coresPc = Off /\ coresClosing = Off /\ coresLive = Off /\ coresWaited = Off
    /\ coresSeen = Off /\ coresThread = Off /\ coresImage = Off /\ coresCounts = Off
    /\ coresCallers = Off /\ coresRequest = Off /\ coresMaker = Off /\ coresTries = Off
    /\ coresRefused = Off /\ coresAnswer = Off
ImageOff ==
    /\ imageSegments = Off /\ imageInit = Off /\ imageFini = Off /\ imagePc = Off
    /\ imageAt = Off /\ imageHeld = Off /\ imageImage = Off /\ imageFixed = Off
    /\ imageCode = Off /\ imageRan = Off
MemoryOff ==
    /\ memoryOs = Off /\ memoryMappings = Off /\ memorySlabs = Off /\ memorySlots = Off
    /\ memoryDirect = Off /\ memoryNative = Off /\ memoryBlocks = Off /\ memoryCall = Off
    /\ memoryCalls = Off
FgOff ==
    /\ fgRate = Off /\ fgMade = Off /\ fgFrames = Off /\ fgHeld = Off /\ fgHasHeld = Off
    /\ fgHistory = Off /\ fgTiles = Off /\ fgLatest = Off /\ fgLevel = Off /\ fgOver = Off
    /\ fgUnder = Off /\ fgWait = Off /\ fgSinceUp = Off /\ fgTimes = Off /\ fgPhase = Off
    /\ fgCalls = Off /\ fgGap = Off /\ fgOpen = Off /\ fgCall = Off /\ fgPeriod = Off
    /\ fgPresent = Off /\ fgNewest = Off /\ fgSince = Off /\ fgCut = Off /\ fgSearch = Off
    /\ fgShown = Off /\ fgSeen = Off /\ fgLine = Off /\ fgStops = Off /\ fgFails = Off
FlOff ==
    /\ flFloor = Off /\ flPhase = Off /\ flOffWindows = Off /\ flVerifyWindows = Off
    /\ flSlowWindows = Off /\ flLastSlow = Off /\ flRateOff = Off /\ flRateKept = Off
    /\ flLeft = Off /\ flGame = Off /\ flPlan = Off /\ flMixed = Off /\ flSteady = Off
    /\ flVerdict = Off /\ flOffFor = Off /\ flChanges = Off
RecOff ==
    /\ recPlace = Off /\ recStage = Off /\ recMade = Off /\ recBuffers = Off
    /\ recCount = Off /\ recIndex = Off /\ recSkipped = Off /\ recWindow = Off
    /\ recSinceEnd = Off /\ recPending = Off /\ recCopied = Off /\ recRequest = Off
    /\ recActive = Off /\ recCapacity = Off /\ recMeta = Off /\ recPic = Off
    /\ recEnvDone = Off /\ recFiles = Off /\ recSpent = Off

MCInit ==
    \/ part = "title" /\ Init /\ DispOff /\ TestOff /\ CoresOff /\ ImageOff /\ MemoryOff /\ FgOff /\ FlOff /\ RecOff
    \/ part = "display" /\ TitleOff /\ Disp!Init /\ TestOff /\ CoresOff /\ ImageOff /\ MemoryOff /\ FgOff /\ FlOff /\ RecOff
    \/ part = "modes" /\ TitleOff /\ DispOff /\ Test!Init /\ CoresOff /\ ImageOff /\ MemoryOff /\ FgOff /\ FlOff /\ RecOff
    \/ part = "cores" /\ TitleOff /\ DispOff /\ TestOff /\ Cores!Init /\ ImageOff /\ MemoryOff /\ FgOff /\ FlOff /\ RecOff
    \/ part = "image" /\ TitleOff /\ DispOff /\ TestOff /\ CoresOff /\ Image!Init /\ MemoryOff /\ FgOff /\ FlOff /\ RecOff
    \/ part = "memory" /\ TitleOff /\ DispOff /\ TestOff /\ CoresOff /\ ImageOff /\ Memory!Init /\ FgOff /\ FlOff /\ RecOff
    \/ part = "framegen" /\ TitleOff /\ DispOff /\ TestOff /\ CoresOff /\ ImageOff /\ MemoryOff /\ Fg!Init /\ FlOff /\ RecOff
    \/ part = "floor" /\ TitleOff /\ DispOff /\ TestOff /\ CoresOff /\ ImageOff /\ MemoryOff /\ FgOff /\ Fl!Init /\ RecOff
    \/ part = "records" /\ TitleOff /\ DispOff /\ TestOff /\ CoresOff /\ ImageOff /\ MemoryOff /\ FgOff /\ FlOff /\ Rec!Init

MCNext ==
    /\ UNCHANGED part
    /\ \/ /\ part = "title" /\ Next /\ UNCHANGED DispVars /\ UNCHANGED TestVars /\ UNCHANGED CoresVars /\ UNCHANGED ImageVars /\ UNCHANGED MemoryVars /\ UNCHANGED FgVars /\ UNCHANGED FlVars /\ UNCHANGED RecVars
       \/ /\ part = "display" /\ UNCHANGED vars /\ Disp!Next /\ UNCHANGED TestVars /\ UNCHANGED CoresVars /\ UNCHANGED ImageVars /\ UNCHANGED MemoryVars /\ UNCHANGED FgVars /\ UNCHANGED FlVars /\ UNCHANGED RecVars
       \/ /\ part = "modes" /\ UNCHANGED vars /\ UNCHANGED DispVars /\ Test!Next /\ UNCHANGED CoresVars /\ UNCHANGED ImageVars /\ UNCHANGED MemoryVars /\ UNCHANGED FgVars /\ UNCHANGED FlVars /\ UNCHANGED RecVars
       \/ /\ part = "cores" /\ UNCHANGED vars /\ UNCHANGED DispVars /\ UNCHANGED TestVars /\ Cores!Next /\ UNCHANGED ImageVars /\ UNCHANGED MemoryVars /\ UNCHANGED FgVars /\ UNCHANGED FlVars /\ UNCHANGED RecVars
       \/ /\ part = "image" /\ UNCHANGED vars /\ UNCHANGED DispVars /\ UNCHANGED TestVars /\ UNCHANGED CoresVars /\ Image!Next /\ UNCHANGED MemoryVars /\ UNCHANGED FgVars /\ UNCHANGED FlVars /\ UNCHANGED RecVars
       \/ /\ part = "memory" /\ UNCHANGED vars /\ UNCHANGED DispVars /\ UNCHANGED TestVars /\ UNCHANGED CoresVars /\ UNCHANGED ImageVars /\ Memory!Next /\ UNCHANGED FgVars /\ UNCHANGED FlVars /\ UNCHANGED RecVars
       \/ /\ part = "framegen" /\ UNCHANGED vars /\ UNCHANGED DispVars /\ UNCHANGED TestVars /\ UNCHANGED CoresVars /\ UNCHANGED ImageVars /\ UNCHANGED MemoryVars /\ Fg!Next /\ UNCHANGED FlVars /\ UNCHANGED RecVars
       \/ /\ part = "floor" /\ UNCHANGED vars /\ UNCHANGED DispVars /\ UNCHANGED TestVars /\ UNCHANGED CoresVars /\ UNCHANGED ImageVars /\ UNCHANGED MemoryVars /\ UNCHANGED FgVars /\ Fl!Next /\ UNCHANGED RecVars
       \/ /\ part = "records" /\ UNCHANGED vars /\ UNCHANGED DispVars /\ UNCHANGED TestVars /\ UNCHANGED CoresVars /\ UNCHANGED ImageVars /\ UNCHANGED MemoryVars /\ UNCHANGED FgVars /\ UNCHANGED FlVars /\ Rec!Next

MCVars == <<part, vars, DispVars, TestVars, CoresVars, ImageVars, MemoryVars, FgVars, FlVars, RecVars>>
MCFairness ==
    /\ WF_vars(part = "title" /\ Eboot)
    /\ WF_vars(part = "title" /\ Console)
    /\ WF_vars(part = "title" /\ EsDeStarts)
    /\ WF_vars(part = "title" /\ PickerStarts)
    /\ WF_CoresVars(part = "cores" /\ Cores!Closing)
    /\ WF_CoresVars(part = "cores" /\ Cores!Serving)
    /\ WF_CoresVars(part = "cores" /\ Cores!Ending)
MCSpec == MCInit /\ [][MCNext]_MCVars /\ MCFairness


-----------------------------------------------------------------------------
ASSUME DispAssumption == Disp!DisplayAssumption
ASSUME TestAssumption == Test!DisplayModesAssumption
ASSUME CoresAssumption == Cores!CoresAssumption
ASSUME ImageAssumption == Image!CoreImageAssumption
ASSUME MemoryAssumption == Memory!MemoryAssumption
ASSUME Fg!FrameGenAssumption /\ Fl!FloorAssumption /\ Rec!FrameRecordsAssumption

\* The test of the display's modes runs only at a start it was armed for, and says PASS only
\* of modes that were all presented, with nothing of it left (run_test).
ModesAreTested == part = "modes" => Test!TypeOK /\ Test!StartsAreArmed /\ Test!PassIsEarned

\* The two tests of a start end: the relaunch test restarts no more often than it was armed
\* for and recorded, and the display's modes are tested as above.
TestsAreArmed == TestEnds /\ ModesAreTested

\* No buffer is drawn into while the display shows it or is about to, but after a wait for the
\* vblank that failed; and the flip it takes shows what the frame had to offer (Display::present,
\* ps5_frame); a generated picture is made of the two frames it is to lie between, and a group's
\* pictures are all shown, in their order and at the target rate, the floor judges a game by what
\* it measured (ps5_framegen_menu.c), and what is recorded is what was shown (vulkan_framegen.cpp).
ScreenIsWhole ==
    /\ [][part = "display" => Disp!NotTorn /\ Disp!NewestShown]_DispVars
    /\ [][part = "framegen" => Fg!PicturesAreTheirs]_FgVars
    /\ [][part = "floor" => Fl!FloorIsFair]_FlVars
    /\ [][part = "records" => Rec!RecordsAreTrue]_RecVars

\* What the title runs and holds is there: a core's thread runs code that stays mapped, save in
\* the destructors of the two cases that KeysStayMapped and DestructorsStayMapped name, and the
\* threads' count and answers are exact (core_threads_ps5.cpp); an image's code is its file's, only
\* its code is called and a load leaves nothing (core_loader_ps5.cpp); a block goes back to where
\* it came from and keeps what it held (memory_ps5.cpp).
CodeIsMapped == Cores!TypeOK /\ Cores!CodeStaysMapped /\ Cores!LiveIsExact /\ Cores!OwnAnswer
ImageIsWhole == Image!TypeOK /\ Image!CodeIsFixed /\ Image!OnlyCodeRuns /\ Image!NothingHeld
BlocksAreKept ==
    Memory!TypeOK /\ Memory!ListsAreMapped /\ Memory!BlocksAreTheirs /\ Memory!ContentsKept /\ Memory!NothingLeaks
MemoryIsTheirs ==
    /\ part = "cores" => CodeIsMapped
    /\ part = "image" => ImageIsWhole
    /\ part = "memory" => BlocksAreKept

\* The title does not hang: a launch ends in a program, whatever is refused or forgotten on the
\* way (NeverBlack), and a core's close and its threads' creation return.
NothingHangs ==
    /\ NeverBlack
    /\ (part = "cores" /\ coresPc \in {"wait", "settle", "finalizers"}) ~> (part # "cores" \/ coresPc = "idle")
    /\ \A c \in Cores!Callers : []<>(part = "cores" => c \notin coresCallers)
==============================================================================
