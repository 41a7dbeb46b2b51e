-------------------------------- MODULE Title --------------------------------
(* The title as a chain of programs.  The home screen starts eboot.bin; each    *)
(* program then has the shell replace it by the next (LoadExec): the picker,    *)
(* EmulationStation, or eboot.bin again, which runs RetroArch.  What one tells  *)
(* the next is in the arguments and in files: a game a frontend asks for        *)
(* (game-request.txt), how it went (game-result.txt), the frontend remembered   *)
(* (frontend.cfg) and the relaunch test's record.  A tile of the home screen    *)
(* starts a game through a payload of the console's ELF loader.                 *)
EXTENDS Integers

CONSTANTS
    Builds,      \* what the builds may have: the picker, EmulationStation
    Armed,       \* the programs, with arguments, the relaunch test may be armed for
    MaxAsks,     \* bound: the games a frontend asks for
    MaxArm,      \* bound: the restarts the relaunch test is armed for
    Plans        \* bound: how often each other event may happen, in each plan

None == "none"
Images == {None, "eboot", "picker", "esde", "tile"}
Arguments == [mode : {"", "game", "quit", "retroarch", "es-de", "picker", "other"},
              rom : BOOLEAN, exit : BOOLEAN]
NoArgs == [mode |-> "", rom |-> FALSE, exit |-> FALSE]
Mode(m) == [NoArgs EXCEPT !.mode = m]

Itself == [image |-> "eboot", args |-> NoArgs]
Programs == [image : Images, args : Arguments]
Events == {"fault", "home", "kill", "ask", "tile", "arm", "remember", "update"}

\* A plan asks for no more games than are numbered. The relaunch test is armed for the title's
\* programs, with a tile's arguments or a mode; game mode is a frontend's alone.
ASSUME TitleAssumption ==
    /\ MaxAsks \in Nat /\ MaxArm \in Nat
    /\ Builds \subseteq [picker : BOOLEAN, esde : BOOLEAN]
    /\ Plans \subseteq [Events -> Nat] /\ \A plan \in Plans : plan["ask"] <= MaxAsks
    /\ \A program \in Armed :
          /\ program \in Programs /\ program.image \in {"eboot", "picker", "esde"}
          /\ program.args.mode # "game"

VARIABLES
    image,     \* the program that runs: None, "eboot", "picker", "esde" or "tile"
    pc,        \* where it is
    args,      \* its arguments
    shell,     \* the LoadExec the shell has accepted: {} or {the next program}
    then,      \* where the program goes on when the shell has not replaced it
    game,      \* the game this RetroArch runs: 0, a request's number, or Forwarded
    request, result,  \* the numbers in the two files, 0 when there is none
    choice,    \* the frontend remembered
    picker, esde,         \* picker.bin and es-de.bin are there
    testRun, pickerTest,  \* test-run.txt and picker-test.txt are there
    arm, armed, lines,    \* the relaunch test: restarts to make (0: not armed, or Unreadable),
                          \* as what, and recorded
    payload,   \* the tile's payload is in the loader
    asked,     \* the games frontends have asked for, numbered
    ran, told, answered, cut,  \* the requests that ran (a bag), those a frontend was told
               \* failed, those it was answered, those whose answer is lost
    restarts,  \* the restarts the test has made
    budget     \* what may still happen

vars == <<image, pc, args, shell, then, game, request, result, choice, picker, esde, testRun,
          pickerTest, arm, armed, lines, payload, asked, ran, told, answered, cut, restarts, budget>>
process == <<image, pc, args, shell, then, game>>
build == <<picker, esde>>
tests == <<testRun, pickerTest, arm, armed, lines>>
files == <<request, result, choice, build, tests>>
history == <<asked, ran, told, answered, cut, restarts>>

Forwarded == -1
Unreadable == -1
May(event) == budget[event] > 0
Spend(event) == budget' = [budget EXCEPT ![event] = @ - 1]
Asks == 1..MaxAsks

Init ==
    /\ image = None /\ pc = "" /\ args = NoArgs /\ shell = {} /\ then = ""
    /\ game = 0 /\ request = 0 /\ result = 0
    /\ choice \in {"ask", "es-de"} /\ testRun = FALSE /\ pickerTest = FALSE
    /\ \E b \in Builds : picker = b.picker /\ esde = b.esde
    /\ arm = 0 /\ armed = Itself /\ lines = 0 /\ payload = FALSE
    /\ asked = 0 /\ ran = [n \in Asks |-> 0] /\ told = {} /\ answered = {} /\ cut = {}
    /\ restarts = 0 /\ budget \in Plans

\* A program starts with these arguments.
Starts(i, a) ==
    /\ image' = i /\ args' = a /\ shell' = {} /\ then' = "" /\ game' = 0
    /\ pc' = CASE i = "eboot" -> "relaunch" [] i = None -> "" [] OTHER -> "starts"

\* The request's answer is lost with the program.
Lost == IF asked > 0 /\ asked \notin answered \cup told /\ result # asked
          THEN cut' = cut \cup {asked} ELSE UNCHANGED cut

\* LoadExec of a program that is there: accepted, this one waits to be replaced; accepted
\* and not replaced; or refused. What follows is refused, or after the wait late.
There(i) == (i = "picker" => picker) /\ (i = "esde" => esde)
LoadExec(i, a, refused, late) ==
    \/ /\ IF There(i) THEN May("fault") /\ Spend("fault") ELSE UNCHANGED budget
       /\ pc' = refused /\ UNCHANGED <<shell, then>>
    \/ /\ There(i) /\ shell' = {[image |-> i, args |-> a]} /\ pc' = "waits" /\ then' = late
       /\ UNCHANGED budget
    \/ /\ There(i) /\ May("fault") /\ Spend("fault")
       /\ shell' = {} /\ pc' = "waits" /\ then' = late

\* restart_as: either way the program goes on at next.
Going(i, a, next) == LoadExec(i, a, next, next) /\ UNCHANGED <<image, args, game>>

\* LoadExec("exit"), after which main returns if it is refused, or sleeps for ever.
Closing == LoadExec(None, NoArgs, "returns", "hangs") /\ UNCHANGED <<image, args, game>>

\* A release brings the build its own programs.
Installed == \E b \in Builds : picker' = b.picker /\ esde' = b.esde

-----------------------------------------------------------------------------
(* The home screen, the user, and the shell.                                 *)

Home == /\ image = None /\ May("home") /\ Spend("home") /\ Starts("eboot", NoArgs)
        /\ UNCHANGED <<files, history, payload>>

\* The user closes the title, or it crashes, or the console loses power.
Kill == /\ image # None /\ May("kill") /\ Spend("kill") /\ Starts(None, NoArgs)
        /\ Lost
        /\ UNCHANGED <<files, asked, ran, told, answered, restarts, payload>>

\* The shell replaces the program, also one that has stopped waiting for it. The relaunch
\* test's restart takes what its program was started for with it.
Replace == /\ \E next \in shell : Starts(next.image, next.args)
           /\ IF pc = "waits" /\ then # "frontend" THEN UNCHANGED cut ELSE Lost
           /\ UNCHANGED <<files, asked, ran, told, answered, restarts, payload, budget>>

\* What a failed ps5_game_launch leaves of its request.
AfterFailedLaunchKept == request  \* mutant
AfterFailedLaunch == 0

\* A minute's wait ends, except in the picker, a tile and a frontend that quits.
GivesUpNot == image = "esde" /\ then # "hangs"  \* mutant
GivesUp == image \in {"eboot", "esde"} /\ then # "hangs"

\* A minute has passed and the program is still there. The shell may yet replace it.
GiveUp ==
    /\ pc = "waits" /\ GivesUp
    /\ \/ shell = {} /\ UNCHANGED budget
       \/ shell # {} /\ May("fault") /\ Spend("fault")
    /\ pc' = then /\ then' = ""
    /\ IF image = "esde"
         THEN /\ request' = AfterFailedLaunch /\ told' = told \cup {asked}
              /\ UNCHANGED arm
         ELSE /\ arm' = IF then = "frontend" THEN 0 ELSE arm
              /\ UNCHANGED <<request, told>>
    /\ UNCHANGED <<image, args, shell, game, result, choice, build, testRun, pickerTest, armed, lines,
                   asked, ran, answered, cut, restarts, payload>>

\* The WebUI's "Start with" setting.
Remember == /\ May("remember") /\ Spend("remember")
            /\ choice' \in {"ask", "retroarch", "es-de"} \ {choice}
            /\ UNCHANGED <<process, request, result, build, tests, history, payload>>

\* The WebUI's daemon installs a release once no program is linked; a tile never is.
DaemonInstalls == /\ image \in {None, "tile"} /\ May("update") /\ Spend("update") /\ Installed
                  /\ UNCHANGED <<process, request, result, choice, tests, history, payload>>

\* The test tools leave test-run.txt, and arm the picker's test or the relaunch test, which a
\* file that cannot be read does not.
ArmTest == /\ image = None /\ May("arm") /\ Spend("arm") /\ testRun' \in {testRun, TRUE}
           /\ \/ pickerTest' \in {pickerTest, TRUE} /\ UNCHANGED <<arm, armed, lines, restarts>>
              \/ arm' \in 1..MaxArm /\ armed' \in Armed /\ lines' = 0 /\ restarts' = 0 /\ UNCHANGED pickerTest
              \/ arm' = Unreadable /\ UNCHANGED <<pickerTest, armed, lines, restarts>>
           /\ UNCHANGED <<process, request, result, choice, build, asked, ran, told,
                          answered, cut, payload>>

-----------------------------------------------------------------------------
(* A tile, and the payload it sends to the ELF loader.                       *)

TileStarts == /\ image = None /\ May("tile") /\ Spend("tile") /\ Starts("tile", NoArgs)
              /\ UNCHANGED <<files, history, payload>>

\* It sends the payload, if the loader takes it, and closes.
TileSends == /\ image = "tile" /\ pc = "starts" /\ payload' \in {TRUE, payload}
             /\ Closing /\ UNCHANGED <<files, history>>

\* The payload starts the title with the tile's arguments, if it can read them, once the tile
\* is gone, or after fifteen seconds, in the tile's place; the console may refuse it.
PayloadLaunches ==
    /\ payload /\ payload' = FALSE
    /\ \/ \E rom \in BOOLEAN, exit \in BOOLEAN :
            image \in {None, "tile"} /\ Starts("eboot", [NoArgs EXCEPT !.rom = rom, !.exit = rom /\ exit])
       \/ UNCHANGED process
    /\ UNCHANGED <<files, history, budget>>

-----------------------------------------------------------------------------
(* eboot.bin, before RetroArch: main(), the relaunch test, the frontend.     *)

At(i, p) == image = i /\ pc = p

\* The restarts recorded decide: a record that cannot be kept ends the test.
Recorded(kept) == IF kept THEN {lines + 1} ELSE {lines, lines + 1}
RestartsBlindly(kept) == lines < arm  \* mutant
Restarts(kept) == lines < arm /\ kept

RelaunchTest ==
    /\ At("eboot", "relaunch")
    /\ \/ arm \in {0, Unreadable} /\ arm' = 0 /\ pc' = "frontend"
          /\ UNCHANGED <<image, args, shell, then, game, lines, restarts, budget>>
       \/ \E kept \in BOOLEAN :
            /\ arm > 0 /\ lines' \in Recorded(kept)
            /\ \/ /\ Restarts(kept) /\ Going(armed.image, armed.args, "frontend")
                  /\ restarts' = IF shell' # {} THEN restarts + 1 ELSE restarts
                  /\ arm' = IF pc' = "frontend" THEN 0 ELSE arm
               \/ /\ ~Restarts(kept) /\ pc' = "frontend" /\ arm' = 0
                  /\ UNCHANGED <<image, args, shell, then, game, restarts, budget>>
    /\ UNCHANGED <<request, result, choice, build, testRun, pickerTest, armed, asked, ran, told,
                   answered, cut, payload>>

\* decide(): what a launch with these arguments starts; held is L1. Without a mode, from the
\* home screen, a test comes before the frontend remembered, and that before the picker.
FromHome(held) ==
    IF pickerTest /\ picker THEN "picker"
    ELSE IF testRun \/ (~held /\ choice = "retroarch") THEN "retroarch"
    ELSE IF ~held /\ choice = "es-de" /\ esde THEN "esde"
    ELSE IF picker THEN "picker" ELSE "retroarch"
Decide(held) ==
    CASE args.mode = "game" -> "game"
      [] args.mode = "es-de" -> IF esde THEN "esde" ELSE "retroarch"
      [] args.mode = "picker" -> IF picker THEN "picker" ELSE "retroarch"
      [] args.mode = "quit" -> IF choice = "ask" /\ picker THEN "picker" ELSE "close"
      [] args.mode = "" -> FromHome(held)
      [] OTHER -> "retroarch"

\* L1 is read only when a frontend is remembered and there is a picker to open.
MayBeHeld == IF args.mode = "" /\ ~testRun /\ ~pickerTest /\ choice # "ask" /\ picker
               THEN BOOLEAN ELSE {FALSE}

\* What a tile's game meets: what --rom names and its extension, --core, the playlists' core,
\* and what each core's .info lists ("/" is a folder); core 1 is genesis_plus_gx, core 3 is not
\* one of the title's, 0 is none.
Forwards == [rom : {"file", "folder", "missing", "climbs"}, ext : {"", "own", "shared"},
             core : 0..3, associated : 0..3, info : [1..3 -> SUBSET {"own", "shared", "/"}]]
Genesis == 1

\* cores_listing(): the cores whose .info lists the content's extension, or folders.
Listing(f) == {c \in 1..3 : (IF f.rom = "folder" THEN "/" ELSE f.ext) \in f.info[c]}

\* check(): the content is there, and the core, if one is named, is the title's and opens
\* a folder if the content is one.
Runs(f, core) == /\ f.rom # "missing" /\ core \in 0..2
                 /\ f.rom = "folder" => core \in {0} \cup Listing(f)

\* take_forward(): the tile's core, else the playlists', else the one core that lists the
\* content, or genesis_plus_gx for an extension that several Sega cores share; 0 refuses. A
\* path that climbs out of the content folder is no content.
ForwardCore(f) ==
    LET runnable == {c \in Listing(f) : Runs(f, c)}
    IN  IF f.rom = "climbs" \/ ~Runs(f, f.core) THEN 0
        ELSE IF f.core # 0 THEN f.core
        ELSE IF f.associated # 0 /\ Runs(f, f.associated) THEN f.associated
        ELSE IF \E c \in runnable : runnable = {c} THEN CHOOSE c \in runnable : TRUE
        ELSE IF f.ext = "shared" /\ Genesis \in runnable THEN Genesis ELSE 0
ForwardCores == {ForwardCore(f) : f \in Forwards}

\* run(): a tile's game, if it can run; else what decide() says.
Dispatch ==
    /\ At("eboot", "frontend")
    /\ \E core \in IF args.rom /\ args.mode = "" THEN ForwardCores ELSE {0}, held \in MayBeHeld :
         LET next == IF core # 0 THEN "forward" ELSE Decide(held) IN
         CASE next = "forward" -> /\ game' = Forwarded /\ pc' = "retroarch"
                                  /\ UNCHANGED <<image, args, shell, then, budget>>
           [] next = "game" -> pc' = "take" /\ UNCHANGED <<image, args, shell, then, game, budget>>
           [] next = "retroarch" -> pc' = "retroarch" /\ UNCHANGED <<image, args, shell, then, game, budget>>
           [] next = "close" -> Going(None, NoArgs, "retroarch")
           [] OTHER -> Going(next, NoArgs, "retroarch")
    /\ UNCHANGED <<files, history, payload>>

\* A request runs once: it is removed before it is checked.
AfterTake == 0

TakeGame ==
    /\ At("eboot", "take")
    /\ game' = request /\ request' = AfterTake
    /\ pc' = IF request = 0 THEN "retroarch" ELSE "check"
    /\ UNCHANGED <<image, args, shell, then, result, choice, build, tests,
                   history, payload, budget>>

\* What a refused request leaves in game-result.txt.
RefusalSilent(n) == 0  \* mutant
Refusal(n) == n

\* take_game(): the playlists' core before the frontend's, if it is one of the title's; 0
\* when the content or the core is not there.
GameCore(f) == IF f.rom # "file" \/ f.core = 3 THEN 0
               ELSE IF f.associated \in 1..2 THEN f.associated ELSE f.core
GameCores == {GameCore(f) : f \in Forwards}

\* RetroArch starts on the game, or its frontend gets the reason; with no frontend to go back
\* to, or no file for the result, RetroArch runs without the game.
CheckGame ==
    /\ At("eboot", "check")
    /\ \E core \in GameCores :
         LET runs == core # 0 /\ esde IN
         \/ /\ runs /\ pc' = "retroarch" /\ ran' = [ran EXCEPT ![game] = @ + 1]
            /\ UNCHANGED <<game, result, cut, budget>>
         \/ /\ ~runs /\ esde /\ game' = 0 /\ result' = Refusal(game) /\ pc' = "refused"
            /\ UNCHANGED <<ran, cut, budget>>
         \/ /\ ~runs /\ IF esde THEN May("fault") /\ Spend("fault") ELSE UNCHANGED budget
            /\ game' = 0 /\ pc' = "retroarch" /\ cut' = cut \cup {game} /\ UNCHANGED <<ran, result>>
    /\ UNCHANGED <<image, args, shell, then, request, choice, build, tests, asked, told, answered,
                   restarts, payload>>

Refuse == /\ At("eboot", "refused") /\ Going("esde", NoArgs, "retroarch")
          /\ UNCHANGED <<files, history, payload>>

-----------------------------------------------------------------------------
(* RetroArch, and what follows it.                                           *)

\* Test files belong to one launch.
RetroArch == /\ At("eboot", "retroarch") /\ testRun' = FALSE /\ pc' = "plays"
             /\ UNCHANGED <<image, args, shell, then, game, request, result, choice, build, pickerTest,
                            arm, armed, lines, history, payload, budget>>

\* What quitting leads to, in catchReturnFromMain: an update, which this process has installed
\* or the daemon will, closes the title, a game goes back to its frontend, RetroArch the picker
\* started to the picker.
Quit ==
    /\ At("eboot", "plays")
    /\ \/ /\ May("update") /\ Spend("update") /\ pc' = "exits" /\ game' = 0 /\ Lost
          /\ Installed \/ UNCHANGED build
          /\ UNCHANGED <<image, args, shell, then, result>>
       \/ /\ game = Forwarded
          /\ IF args.exit THEN pc' = "exits" /\ UNCHANGED <<image, args, shell, then, game, budget>>
               ELSE Going("eboot", NoArgs, "exits")
          /\ UNCHANGED <<result, cut, build>>
       \/ /\ game \in Asks /\ pc' = "back"
          /\ \/ result' = game /\ UNCHANGED <<cut, budget>>
             \/ May("fault") /\ Spend("fault") /\ cut' = cut \cup {game} /\ UNCHANGED result
          /\ UNCHANGED <<image, args, shell, then, game, build>>
       \/ /\ game = 0
          /\ IF args.mode = "retroarch" /\ picker
               THEN Going("eboot", Mode("quit"), "exits")
               ELSE pc' = "exits" /\ UNCHANGED <<image, args, shell, then, game, budget>>
          /\ UNCHANGED <<result, cut, build>>
    /\ UNCHANGED <<request, choice, tests, asked, ran, told, answered, restarts, payload>>

BackToFrontend == /\ At("eboot", "back") /\ Going("esde", NoArgs, "exits")
                  /\ UNCHANGED <<files, history, payload>>

\* The shell is asked to close the title; refused, main returns, which ends it too.
Exits == At("eboot", "exits") /\ Closing /\ UNCHANGED <<files, history, payload>>
Returns == /\ image \in {"eboot", "tile"} /\ pc = "returns" /\ Starts(None, NoArgs)
           /\ UNCHANGED <<files, history, payload, budget>>

-----------------------------------------------------------------------------
(* The frontends.                                                            *)

\* The picker, whose test is armed for one start: CIRCLE closes the title (main returns),
\* CROSS starts a frontend and records Remember, if it can.
PickerStarts == /\ At("picker", "starts") /\ pc' = "chooses" /\ pickerTest' = FALSE
                /\ UNCHANGED <<image, args, shell, then, game, request, result, choice, build, testRun,
                               arm, armed, lines, history, payload, budget>>

PickerCloses == /\ At("picker", "chooses") /\ Starts(None, NoArgs)
                /\ UNCHANGED <<files, history, payload, budget>>

PickerChooses ==
    /\ At("picker", "chooses")
    /\ \E next \in {"retroarch", "es-de"}, remember \in BOOLEAN :
          /\ choice' \in {choice, IF remember THEN next ELSE "ask"}
          /\ IF next = "retroarch" THEN Going("eboot", Mode("retroarch"), "hangs")
               ELSE Going("esde", NoArgs, "hangs")
    /\ UNCHANGED <<request, result, build, tests, history, payload>>

\* EmulationStation takes the result that waits for it, once.
AfterTakenKept == result  \* mutant
AfterTaken == 0

EsDeStarts ==
    /\ At("esde", "starts") /\ pc' = "browses"
    /\ result' = AfterTaken
    /\ answered' = IF result = 0 THEN answered ELSE answered \cup {result}
    /\ UNCHANGED <<image, args, shell, then, game, request, choice, build, tests, asked, ran,
                   told, cut, restarts, payload, budget>>

\* ps5_game_launch: the request is written (a temporary file renamed), or cannot be.
EsDeAsks ==
    /\ At("esde", "browses") /\ May("ask")
    /\ asked' = asked + 1
    /\ budget' = [budget EXCEPT !.ask = @ - 1]
    /\ \/ request' = asked' /\ pc' = "launches" /\ UNCHANGED told
       \/ told' = told \cup {asked'} /\ UNCHANGED <<request, pc>>
    /\ UNCHANGED <<image, args, shell, then, game, result, choice, build, tests, ran, answered,
                   cut, restarts, payload>>

\* A LoadExec the console refuses is told at once.
EsDeLaunches ==
    /\ At("esde", "launches") /\ Going("eboot", Mode("game"), "browses")
    /\ IF pc' = "browses" THEN request' = AfterFailedLaunch /\ told' = told \cup {asked}
         ELSE UNCHANGED <<request, told>>
    /\ UNCHANGED <<result, choice, build, tests, asked, ran, answered, cut, restarts, payload>>

\* It quits with the mode it was started with, else quit.
EsDeQuits == /\ At("esde", "browses")
             /\ Going("eboot", Mode(IF args.mode = "" THEN "quit" ELSE args.mode), "hangs")
             /\ UNCHANGED <<files, history, payload>>

-----------------------------------------------------------------------------
Eboot == RelaunchTest \/ Dispatch \/ TakeGame \/ CheckGame \/ Refuse \/ RetroArch \/ BackToFrontend
         \/ Exits \/ Returns
Console == Replace \/ GiveUp \/ PayloadLaunches
Next == \/ Home \/ Kill \/ Remember \/ DaemonInstalls \/ ArmTest \/ TileStarts \/ TileSends
        \/ PickerStarts \/ PickerCloses \/ PickerChooses
        \/ EsDeStarts \/ EsDeAsks \/ EsDeLaunches \/ EsDeQuits
        \/ Quit \/ Eboot \/ Console

\* The programs run, and the shell does what it has accepted.
Fairness == WF_vars(Eboot) /\ WF_vars(Console) /\ WF_vars(EsDeStarts) /\ WF_vars(PickerStarts)
Spec == Init /\ [][Next]_vars /\ Fairness

-----------------------------------------------------------------------------
TypeOK ==
    /\ image \in Images /\ args \in Arguments
    /\ game \in Asks \cup {0, Forwarded} /\ {request, result, asked} \subseteq Asks \cup {0}
    /\ choice \in {"ask", "retroarch", "es-de"} /\ {picker, esde, testRun, pickerTest, payload} \subseteq BOOLEAN
    /\ arm \in 0..MaxArm \cup {Unreadable} /\ told \cup answered \cup cut \subseteq Asks

\* A game RetroArch runs for a frontend is the last one asked for, runs once whatever was
\* killed, refused or late, and is never one the frontend was told did not start
\* ("a request runs once"; ps5_game_launch "returns only when that did not happen").
RunsWhatWasAsked ==
    /\ \A n \in Asks : ran[n] <= 1
    /\ At("eboot", "plays") /\ game \in Asks => game = asked /\ game \notin told

\* When EmulationStation is back in the user's hands, each game it asked for has come
\* back to it - played, refused or not started - unless the title was killed, an update
\* closed it, the relaunch test restarted it or the result could not be written.
EveryAskAnswered ==
    At("esde", "browses") => \A n \in 1..asked : n \in answered \cup told \cup cut

\* A game a frontend asked for runs once, the last one asked, and when the frontend is back
\* in the user's hands each has come back to it (ps5_game_launch, frontend_mode_ps5.cpp).
GamesRunOnce == TypeOK /\ RunsWhatWasAsked /\ EveryAskAnswered

\* No game comes back twice: once for its result, and never after it was told failed.
AnsweredOnce == [][EsDeStarts /\ result # 0 => result \notin answered \cup told]_vars

\* The relaunch test ends: it never restarts the title more often than it was armed for,
\* nor without the record that counts the restart.
TestEnds == restarts <= lines /\ (arm > 0 => restarts <= arm)

\* eboot.bin never stays on the shell's splash: a LoadExec refused or forgotten ends in
\* RetroArch, in another program, or in a closed title ("a launch never ends on a black
\* screen").
NeverBlack == At("eboot", "frontend") ~> pc \in {"plays", "starts", "chooses", "browses", ""}

\* Not so: a result waits for EmulationStation's next start, whichever session that is in.
\* src/src/ps5_game.h:99 gives it "when RetroArch has just run a game for this frontend".
ResultIsFresh == image = None => result = 0

\* Not so: the picker and EmulationStation wait for the shell for ever, also when it has
\* refused (src/frontends/picker/picker.cpp:446, src/frontends/es-de/ps5/main_ps5.cpp:180).
HandoverEnds ==
    image \in {"picker", "esde"} /\ pc \in {"waits", "hangs"} ~> pc \notin {"waits", "hangs"}
=============================================================================
