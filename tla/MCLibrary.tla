------------------------------ MODULE MCLibrary ------------------------------
(* Model checking of the library and of what fills it: the folders and          *)
(* playlists, the store of a game's files, LaunchBox's database, the scraper's  *)
(* helper on a PC, ScreenScraper and the tiles; each on its own, part says     *)
(* which.                                                                       *)
EXTENDS Library

CONSTANTS w1, w2, t1, t2, k1, k2, NoOne

(* The library: a disc system, DOS and ScummVM; a disc's index, the track named *)
(* like it and another one, a game's program and its setup, or its data; two    *)
(* playlists and the history.                                                   *)
MCSystems  == {"psx", "dos", "scummvm"}
MCDatabase == [s \in MCSystems |-> CASE s = "psx" -> "Sony - PlayStation" [] s = "dos" -> "DOS" [] OTHER -> "ScummVM"]
MCRuns     == [c \in {"swanstation", "scummvm"} |-> IF c = "scummvm" THEN {"dos", "scummvm"} ELSE {"psx"}]
MCStyle    == [s \in MCSystems |-> IF s = "psx" THEN "files" ELSE s]
MCStands   == [n \in {"psx", "Sony - PlayStation", "PS1", "dos", "DOS", "scummvm", "ScummVM"} |->
                CASE n \in {"dos", "DOS"} -> "dos" [] n \in {"scummvm", "ScummVM"} -> "scummvm" [] OTHER -> "psx"]
MCFiles    == {"cue", "bin", "side", "other", "exe", "setup", "data", "more"}
MCName     == [cue |-> <<"a.cue">>, bin |-> <<"a.bin">>, side |-> <<"a2.bin">>, other |-> <<"a.bin">>,
               exe |-> <<"race", "RACE.EXE">>, setup |-> <<"race", "SETUP.EXE">>,
               data |-> <<"isle", "isle.000">>, more |-> <<"isle", "isle.001">>]
MCKind     == [cue |-> "index", bin |-> "track", side |-> "track", other |-> "track", exe |-> "program", setup |-> "program", data |-> "data", more |-> "data"]
MCStem     == [cue |-> "a", bin |-> "a", side |-> "a2", other |-> "a", exe |-> "race", setup |-> "setup",
               data |-> "isle", more |-> "isle"]
MCLists    == <<"a.lpl", "b.lpl">>
MCTitle    == [cue |-> "a", bin |-> "a", side |-> "a", other |-> "b", exe |-> "race", setup |-> "race",
               data |-> "isle", more |-> "isle"]

\* Before the start: the old folders, some with a new one beside them; what the playlists list.
Place(a, b, o, c, d) == [cue |-> a, bin |-> b, side |-> "none", other |-> o, exe |-> c, setup |-> c, data |-> d, more |-> d]
PSX == "Sony - PlayStation"
Empty == [l \in {"a.lpl", "b.lpl", "history"} |-> {}]
Plan(t, d, listed, scans, crashes, fails) ==
    [top |-> t, dirs |-> ({t[f] : f \in MCFiles} \ {"none"}) \cup d,
     lists |-> [Empty EXCEPT !["a.lpl"] = {<<PSX, n>> : n \in listed}],
     settings |-> {<<"scummvm", "DOS">>, <<"scummvm", "ScummVM">>, <<"swanstation", "Sony - PlayStation">>},
     scans |-> scans, starts |-> 1, crashes |-> crashes, fails |-> fails]
MCPlans ==
    { Plan(Place(PSX, "none", "psx", "DOS", "none"), {}, {"a.cue"}, 2, 0, 0),
      Plan([Place(PSX, PSX, "none", "none", "scummvm") EXCEPT !.side = PSX], {"psx"}, {}, 2, 0, 0),
      Plan(Place(PSX, PSX, "none", "dos", "ScummVM"), {"scummvm"}, {"a.cue", "a.bin"}, 1, 1, 1),
      Plan(Place(PSX, PSX, "psx", "DOS", "none"), {"dos"}, {"a.cue"}, 1, 1, 2) }

\* The game store: what three requests ask, of one backup or two of one name.
Asked(op) == [op |-> op, copy |-> "a", type |-> "png", replace |-> FALSE]
Scrape(replace) == [Asked("scrape") EXCEPT !.replace = replace]
Media(t) == [Asked("media") EXCEPT !.type = t]
StorePlan(there, listed, x, y, z) ==
    [there |-> there, listable |-> listed, asks |-> [r1 |-> x, r2 |-> y, r3 |-> z]]
StorePlans ==
    {StorePlan({"a"}, TRUE, Scrape(TRUE), Media(t), e) :
        t \in {"png", "jpg"}, e \in {Asked("edit"), Scrape(TRUE), Asked("delete")}}
    \cup {StorePlan({"a", "b"}, TRUE, Asked("delete"), [Asked("delete") EXCEPT !.copy = "b"], x) :
        x \in {Scrape(FALSE), Asked("edit")}}
    \cup {StorePlan({}, l, Asked("add"), Asked("add"), [Asked(op) EXCEPT !.copy = c]) :
        l \in BOOLEAN, op \in {"replace", "delete", "add"}, c \in {"a", "b"}}
    \cup {StorePlan({"a"}, TRUE, Asked("replace"), Asked("delete"), Asked("add")),
          StorePlan({"a"}, TRUE, Media("png"), Media("jpg"), Scrape(TRUE))}

\* The scraper's helper: late, cut and missing media; stopped and started; halted (cancelled, or no
\* database), and resumed.
Quiet == [calm |-> TRUE, halt |-> 0, resume |-> 0, late |-> 0, helper |-> 1, stop |-> 0, none |-> 0, fail |-> 0]
HelperPlans == {
    [Quiet EXCEPT !.late = 1, !.none = 1, !.fail = 1],
    [Quiet EXCEPT !.helper = 2, !.stop = 1, !.late = 1],
    [Quiet EXCEPT !.halt = 1, !.resume = 1, !.late = 1]}

\* ScreenScraper: accounts changed; cancelled; a service that closes; the server killed.
Asks == [knows |-> <<"file", "title">>, serves |-> {<<1, k1>>, <<2, k1>>}, stored |-> {}, user |-> "nobody",
         sign |-> 0, cancel |-> 0, crash |-> 0, fault |-> 0]
AskPlans == {
    [Asks EXCEPT !.user = "a", !.sign = 2],
    [Asks EXCEPT !.cancel = 1, !.fault = 1, !.serves = {<<1, k1>>}],
    [Asks EXCEPT !.user = "a", !.knows = <<"similar", "unknown">>, !.fault = 2, !.cancel = 1],
    [Asks EXCEPT !.crash = 1, !.fault = 2, !.user = "b", !.stored = {<<2, k1>>}]}

\* The tiles: there at first, made, changed or deleted; ShadowMountPlus silent, the daemon
\* killed, a write that fails.
TilePlan(there, made, changed) == [there |-> there, makes |-> made, looks |-> changed, silences |-> 0, kills |-> 0, faults |-> 0]
TilePlans ==
    { [TilePlan({"a"}, 0, 1) EXCEPT !.silences = 1],
      [TilePlan({"a"}, 0, 0) EXCEPT !.silences = 1, !.kills = 1, !.faults = 1],
      [TilePlan({"a"}, 0, 1) EXCEPT !.kills = 1, !.faults = 1],
      [TilePlan({}, 2, 0) EXCEPT !.faults = 1],
      [TilePlan({}, 1, 0) EXCEPT !.silences = 1],
      TilePlan({"a", "b"}, 0, 0) }

\* The library's state while the behavior is another component's.
LibraryOff == Init /\ top = (CHOOSE p \in Plans : p.crashes = 0).top

VARIABLES
    part,  \* the component this behavior is of
    dbSite, dbMarker, dbZip, dbFresh, dbIndex, dbMemory, dbTodo, dbPc, dbAt, dbRunning,
    dbCrashes,
    storeRom, storeEntry, storeLabel, storeMedia, storeMeta, storeReq, storeListable,
    storeMine, storeEarly, pcJob, pcTasks, pcCancelling, pcWorker, pcHelper, pcFresh, pcThread, pcLib, pcTries,
    tilesFolder, tilesLook, tilesMarks, tilesListed, tilesHome, tilesGoing, tilesOwed,
    tilesAnswers, tilesTitle, tilesDaemon, tilesLeaving, tilesTilesDone, tilesJob,
    tilesBudget, tilesUnmarked, tilesUnheard, tilesExcused, tilesMet,
    scrAccount, scrSigned, scrLimit, scrLimitOf, scrBusy, scrRunning, scrCancelling, scrTask, scrItem,
    scrMet, scrMedia, scrScenario

Db == INSTANCE LaunchBox WITH
    Platforms <- {"p1", "p2"}, Askers <- {"a1", "a2"}, Searches <- {"a2"},
    MaxEdition <- 2, MaxCrashes <- 1,
    CanFail <- FALSE, site <- dbSite, marker <- dbMarker, zip <- dbZip, fresh <- dbFresh,
    index <- dbIndex, memory <- dbMemory, todo <- dbTodo, pc <- dbPc, at <- dbAt,
    running <- dbRunning, crashes <- dbCrashes
Store == INSTANCE GameStore WITH
    Copies <- {"a", "b"}, Discs <- [a |-> {}, b |-> {"a"}], Types <- {"png", "jpg"}, Requests <- {"r1", "r2", "r3"},
    Plans <- StorePlans, None <- "nobody", rom <- storeRom, entry <- storeEntry,
    label <- storeLabel, media <- storeMedia, meta <- storeMeta, req <- storeReq,
    listable <- storeListable, mine <- storeMine, early <- storeEarly
Pc == INSTANCE ScraperPc WITH
    Games <- {1, 2}, Kinds <- {k1, k2}, Workers <- {w1}, Busy <- 2, Threads <- {t1, t2},
    Stored <- {<<2, k1>>, <<2, k2>>}, Scenarios <- HelperPlans, None <- NoOne, job <- pcJob,
    tasks <- pcTasks, cancelling <- pcCancelling, worker <- pcWorker, helper <- pcHelper,
    fresh <- pcFresh, thread <- pcThread, lib <- pcLib, tries <- pcTries
Tiles == INSTANCE Forwarders WITH
    Ids <- {"a", "b"}, Plans <- TilePlans, folder <- tilesFolder, look <- tilesLook,
    marks <- tilesMarks, listed <- tilesListed, home <- tilesHome, going <- tilesGoing,
    owed <- tilesOwed, answers <- tilesAnswers, title <- tilesTitle, daemon <- tilesDaemon,
    leaving <- tilesLeaving, tilesDone <- tilesTilesDone, job <- tilesJob,
    budget <- tilesBudget, unmarked <- tilesUnmarked, unheard <- tilesUnheard,
    excused <- tilesExcused, met <- tilesMet
Scr == INSTANCE Screenscraper WITH
    Workers <- {w1, w2}, Games <- {1, 2}, Kinds <- {k1}, Accounts <- {"a", "b"},
    Threads <- [a |-> 2, b |-> 1], Attempts <- 2, Scenarios <- AskPlans, Nobody <- "nobody",
    account <- scrAccount, signed <- scrSigned, limit <- scrLimit, limitOf <- scrLimitOf, busy <- scrBusy,
    running <- scrRunning, cancelling <- scrCancelling, task <- scrTask, item <- scrItem,
    met <- scrMet, media <- scrMedia, scenario <- scrScenario
DbVars ==
    <<dbSite, dbMarker, dbZip, dbFresh, dbIndex, dbMemory, dbTodo, dbPc, dbAt, dbRunning,
      dbCrashes>>
StoreVars ==
    <<storeRom, storeEntry, storeLabel, storeMedia, storeMeta, storeReq, storeListable,
      storeMine, storeEarly>>
PcVars ==
    <<pcJob, pcTasks, pcCancelling, pcWorker, pcHelper, pcFresh, pcThread, pcLib, pcTries>>
TilesVars ==
    <<tilesFolder, tilesLook, tilesMarks, tilesListed, tilesHome, tilesGoing, tilesOwed,
      tilesAnswers, tilesTitle, tilesDaemon, tilesLeaving, tilesTilesDone, tilesJob,
      tilesBudget, tilesUnmarked, tilesUnheard, tilesExcused, tilesMet>>
ScrVars ==
    <<scrAccount, scrSigned, scrLimit, scrLimitOf, scrBusy, scrRunning, scrCancelling, scrTask, scrItem,
      scrMet, scrMedia, scrScenario>>

\* The variables of a component this behavior is not of.
Off == "off"
DbOff ==
    /\ dbSite = Off /\ dbMarker = Off /\ dbZip = Off /\ dbFresh = Off /\ dbIndex = Off
    /\ dbMemory = Off /\ dbTodo = Off /\ dbPc = Off /\ dbAt = Off /\ dbRunning = Off
    /\ dbCrashes = Off
StoreOff ==
    /\ storeRom = Off /\ storeEntry = Off /\ storeLabel = Off /\ storeMedia = Off
    /\ storeMeta = Off /\ storeReq = Off /\ storeListable = Off /\ storeMine = Off
    /\ storeEarly = Off
PcOff ==
    /\ pcJob = Off /\ pcTasks = Off /\ pcCancelling = Off /\ pcWorker = Off
    /\ pcHelper = Off /\ pcFresh = Off /\ pcThread = Off /\ pcLib = Off /\ pcTries = Off
TilesOff ==
    /\ tilesFolder = Off /\ tilesLook = Off /\ tilesMarks = Off /\ tilesListed = Off
    /\ tilesHome = Off /\ tilesGoing = Off /\ tilesOwed = Off /\ tilesAnswers = Off
    /\ tilesTitle = Off /\ tilesDaemon = Off /\ tilesLeaving = Off /\ tilesTilesDone = Off
    /\ tilesJob = Off /\ tilesBudget = Off /\ tilesUnmarked = Off /\ tilesUnheard = Off
    /\ tilesExcused = Off /\ tilesMet = Off
ScrOff ==
    /\ scrAccount = Off /\ scrSigned = Off /\ scrLimit = Off /\ scrLimitOf = Off /\ scrBusy = Off
    /\ scrRunning = Off /\ scrCancelling = Off /\ scrTask = Off /\ scrItem = Off
    /\ scrMet = Off /\ scrMedia = Off /\ scrScenario = Off

MCInit ==
    \/ part = "library" /\ Init /\ DbOff /\ StoreOff /\ PcOff /\ TilesOff /\ ScrOff
    \/ part = "database" /\ LibraryOff /\ Db!Init /\ StoreOff /\ PcOff /\ TilesOff /\ ScrOff
    \/ part = "store" /\ LibraryOff /\ DbOff /\ Store!Init /\ PcOff /\ TilesOff /\ ScrOff
    \/ part = "helper" /\ LibraryOff /\ DbOff /\ StoreOff /\ Pc!Init /\ TilesOff /\ ScrOff
    \/ part = "tiles" /\ LibraryOff /\ DbOff /\ StoreOff /\ PcOff /\ Tiles!Init /\ ScrOff
    \/ part = "screenscraper" /\ LibraryOff /\ DbOff /\ StoreOff /\ PcOff /\ TilesOff /\ Scr!Init

MCNext ==
    /\ UNCHANGED part
    /\ \/ /\ part = "library" /\ Next /\ UNCHANGED DbVars /\ UNCHANGED StoreVars /\ UNCHANGED PcVars /\ UNCHANGED TilesVars /\ UNCHANGED ScrVars
       \/ /\ part = "database" /\ UNCHANGED vars /\ Db!Next /\ UNCHANGED StoreVars /\ UNCHANGED PcVars /\ UNCHANGED TilesVars /\ UNCHANGED ScrVars
       \/ /\ part = "store" /\ UNCHANGED vars /\ UNCHANGED DbVars /\ Store!Next /\ UNCHANGED PcVars /\ UNCHANGED TilesVars /\ UNCHANGED ScrVars
       \/ /\ part = "helper" /\ UNCHANGED vars /\ UNCHANGED DbVars /\ UNCHANGED StoreVars /\ Pc!Next /\ UNCHANGED TilesVars /\ UNCHANGED ScrVars
       \/ /\ part = "tiles" /\ UNCHANGED vars /\ UNCHANGED DbVars /\ UNCHANGED StoreVars /\ UNCHANGED PcVars /\ Tiles!Next /\ UNCHANGED ScrVars
       \/ /\ part = "screenscraper" /\ UNCHANGED vars /\ UNCHANGED DbVars /\ UNCHANGED StoreVars /\ UNCHANGED PcVars /\ UNCHANGED TilesVars /\ Scr!Next

MCVars == <<part, vars, DbVars, StoreVars, PcVars, TilesVars, ScrVars>>
MCFairness ==
    /\ \A w \in {w1} : WF_PcVars(part = "helper" /\ Pc!WorkerStep(w))
    /\ \A t \in {t1, t2} : WF_PcVars(part = "helper" /\ Pc!ThreadStep(t))
    /\ WF_PcVars(part = "helper" /\ Pc!HelperStep)
    /\ WF_PcVars(part = "helper" /\ Pc!LeaseEnds)
    /\ WF_TilesVars(part = "tiles" /\ Tiles!Answers)
    /\ \A w \in {w1, w2} : WF_ScrVars(part = "screenscraper" /\ Scr!Works(w))
    /\ WF_ScrVars(part = "screenscraper" /\ Scr!Working)
    /\ WF_ScrVars(part = "screenscraper" /\ Scr!Resume)
MCSpec == MCInit /\ [][MCNext]_MCVars /\ MCFairness


-----------------------------------------------------------------------------
ASSUME Db!LaunchBoxAssumption /\ Store!GameStoreAssumption /\ Pc!ScraperPcAssumption /\ Tiles!ForwardersAssumption
       /\ Scr!ScreenscraperAssumption

\* Whatever requests and scrapes run at once, a name the user gave stays theirs, and so does a
\* media they uploaded, but of a scrape that looked before it was marked; and no backup is
\* replaced or removed but by who asked for that (wanted, uploaded, save_meta and the routes
\* of a game's files).
NothingLost ==
    [][part = "store" => Store!EditsKept /\ Store!MediaIsTheirs' /\ Store!BackupsKept]_StoreVars

\* What the sources give is whole and counted once: what index.done vouches for is every
\* platform's file of one edition, whatever cut a build short (launchbox_prepare); a media a
\* helper delivers late, twice or cut is counted once and a helper that ends left nothing to
\* do (pc_tasks, pc_media, sweep_leases); and a game is told what ScreenScraper said of it,
\* its media are whole, and no account comes back after a sign-out (process_screenscraper,
\* note_quota).
DatabaseIsWhole == Db!TypeOK /\ Db!MarkedIsBuilt /\ Db!MemoryIsWhole
HelperCounts == Pc!TypeOK /\ Pc!CountsAddUp /\ Pc!DoneIsSettled /\ Pc!HelperEndsLast
AnswersAreKept ==
    Scr!TypeOK /\ Scr!SlotsCounted /\ Scr!GameIsTold /\ Scr!OnlyWholeMedia /\ Scr!SignedOutStays
SourcesAreWhole ==
    /\ part = "database" => DatabaseIsWhole
    /\ part = "helper" => HelperCounts
    /\ part = "screenscraper" => AnswersAreKept

\* No game is asked about over what the account that is signed in allows, as long as the limit is
\* of that account (ScreenscraperSlot).
LimitKept == [][part = "screenscraper" => Scr!SlotsKept]_ScrVars

\* A tile whose name or icon changed is marked until the home screen has it, one that is
\* deleted is in no list it would be installed from, and a daemon is not gone with a tile
\* still marked; LookIsMarked, GoneIsGone and DoneAtTheEnd each name the answer, write, kill
\* or request that excuses it (ps5_forwarders.cpp, daemon/webui_daemon.cpp).
TilesAreMarked ==
    part = "tiles" => Tiles!TypeOK /\ Tiles!LookIsMarked /\ Tiles!GoneIsGone /\ Tiles!DoneAtTheEnd

\* Games are shown as they are: in the library once, unless a start was cut short or a call
\* failed (ps5_library_load_content), and on the home screen with the look and in the lists
\* their tiles have.
GamesAreShown == ShownOnce /\ TilesAreMarked

\* With a helper kept running the scraper's job ends; with the title started and closed
\* again and again, every marked tile is installed or removed; and a job of
\* ScreenScraper's that is resumed as often as it stops settles every game.
LibraryEnds ==
    /\ []<>(part = "helper" => ~Pc!Running \/ pcHelper = "off")
    /\ ([]<>(part = "tiles" /\ tilesDaemon = "serving") /\ []<>(part = "tiles" /\ tilesDaemon = "off" /\ ~tilesLeaving))
          => []<>(part # "tiles" \/ Tiles!Removals \cup Tiles!Refreshes = {})
    /\ <>[](part # "screenscraper" \/ Scr!AllSettled)
==============================================================================
