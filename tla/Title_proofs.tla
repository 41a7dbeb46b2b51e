---------------------------- MODULE Title_proofs ----------------------------
(* Proofs about the title and its components as MCTitle composes them.  The     *)
(* chain of programs: a game a frontend asks for runs once, and only the last   *)
(* one asked; each comes back to the frontend, once; the relaunch test ends.    *)
(* The display: no picture is torn, none but the newest is shown.  The test of  *)
(* the display's modes, the cores and their threads, the image of a core, and   *)
(* the title's memory: the inductive invariant of each, and what follows.       *)
EXTENDS MCTitle, SequenceTheorems, FiniteSetTheorems, TLAPS

-----------------------------------------------------------------------------
(* The inductive invariant.                                                  *)

\* What each variable may hold; a plan asks for no more games than are numbered.
Types ==
    /\ TypeOK
    /\ shell \subseteq Programs /\ armed \in Armed \cup {Itself}
    /\ lines \in Nat /\ restarts \in Nat /\ ran \in [Asks -> Nat]
    /\ budget \in [Events -> Nat] /\ asked + budget["ask"] <= MaxAsks

\* Where each program can be. Only eboot.bin runs a game, and in game mode only it is started,
\* by a frontend.
EbootPlaces == {"relaunch", "frontend", "take", "check", "refused", "retroarch", "plays", "back",
                "exits", "returns", "waits", "hangs"}
ShellAsks == \E next \in shell : next.args.mode = "game"
Places ==
    /\ args.mode = "game" => image = "eboot"
    /\ game # 0 => image = "eboot"
    /\ \A next \in shell : next.args.mode = "game" => next.image = "eboot" /\ image = "esde"
    /\ image = "eboot" =>
         /\ pc \in EbootPlaces
         /\ pc = "waits" => then \in {"frontend", "retroarch", "exits", "hangs"}
         /\ pc \in {"relaunch", "frontend"} \/ (pc = "waits" /\ then = "frontend") => game = 0
         /\ pc = "take" => args.mode = "game" /\ game = 0
         /\ pc = "check" => game \in Asks
    /\ image = "esde" =>
         /\ pc \in {"starts", "browses", "launches", "waits", "hangs"}
         /\ pc = "waits" => then \in {"browses", "hangs"}

\* A request on its way: EmulationStation asks for it, or RetroArch has yet to take it.
Asking == image = "esde" /\ (pc = "launches" \/ (pc = "waits" /\ then = "browses"))
Arriving == /\ image = "eboot" /\ args.mode = "game"
            /\ pc \in {"relaunch", "frontend", "take"} \/ (pc = "waits" /\ then = "frontend")
OnItsWay ==
    \/ Asking
    \/ Arriving /\ request = asked
    \/ image = "eboot" /\ game \in Asks /\ game = asked /\ pc \in {"check", "retroarch", "plays"}

\* A request waits, runs and is answered in that order, and only the last one asked for. One
\* left by a title that was killed stays, but no program in game mode finds it.
Requests ==
    /\ request <= asked /\ result <= asked
    /\ \A n \in Asks : ran[n] <= 1 /\ (n > asked => ran[n] = 0 /\ n \notin answered \cup told)
    /\ request # 0 => ran[request] = 0 /\ request # result /\ request \notin answered
    /\ Arriving /\ request # 0 => request = asked /\ request \notin told
    /\ result # 0 => result = asked /\ result \notin answered \cup told
    /\ game \in Asks =>
         game = asked /\ request = 0 /\ game \notin answered \cup told /\ (pc = "check" => ran[game] = 0)

\* EmulationStation has taken the result before its user can ask; while it asks, its request is
\* the one in the file; once it no longer does, the file is gone before the shell may yet come.
Frontends ==
    image = "esde" =>
      /\ pc # "starts" => result = 0
      /\ Asking => request = asked /\ asked > 0 /\ asked \notin told
      /\ ShellAsks /\ ~Asking => request = 0
      /\ Asking /\ pc = "waits" => \A next \in shell : next.image = "eboot" /\ next.args.mode = "game"

\* Each game asked for has come back, but the last: its result waits or it is on its way.
Done == answered \cup told \cup cut
Answers ==
    /\ \A n \in Asks : n < asked => n \in Done
    /\ asked > 0 => asked \in Done \/ result = asked \/ OnItsWay

TitleInv == Types /\ Places /\ Requests /\ Frontends /\ Answers /\ TestEnds

-----------------------------------------------------------------------------
(* What one step's parts do.                                                 *)

\* The numbers that the games, the requests and the results have.
LEMMA Numbers == ASSUME Types
                 PROVE  /\ asked \in Nat /\ request \in Nat /\ result \in Nat /\ asked <= MaxAsks
                        /\ \A n \in Asks : n \in Nat /\ n > 0
                        /\ request # 0 => request \in Asks
                        /\ result # 0 => result \in Asks
                        /\ asked # 0 => asked \in Asks
                        /\ game = 0 \/ game = -1 \/ game \in Asks
                        /\ 0 \notin Asks /\ -1 \notin Asks
  BY TitleAssumption DEF Types, TypeOK, Asks, Forwarded

\* Each event that happens leaves one fewer of its kind, and the others as they were.
LEMMA Spent == ASSUME Types, NEW e \in Events, May(e), Spend(e)
               PROVE  /\ budget' \in [Events -> Nat]
                      /\ \A other \in Events : other # e => budget'[other] = budget[other]
                      /\ budget'[e] = budget[e] - 1 /\ budget[e] > 0
  BY DEF Types, May, Spend

\* What a LoadExec leaves: the title's arguments for the next program and this one waiting, or
\* what was there and this one where a refusal leads.
Handed(i, a, refused, late) ==
    /\ budget' \in [Events -> Nat] /\ budget'["ask"] = budget["ask"]
    /\ \/ pc' = refused /\ shell' = shell /\ then' = then
       \/ pc' = "waits" /\ then' = late /\ (shell' = {} \/ shell' = {[image |-> i, args |-> a]})

\* A LoadExec, whatever the console does with it, ends in one of those ways.
LEMMA LoadExecHands ==
  ASSUME Types, NEW i, NEW a, NEW refused, NEW late, LoadExec(i, a, refused, late)
  PROVE  Handed(i, a, refused, late)
<1>1. "fault" \in Events /\ "ask" \in Events /\ "ask" # "fault"
  BY DEF Events
<1>2. /\ budget' \in [Events -> Nat] /\ budget'["ask"] = budget["ask"]
  <2>1. CASE UNCHANGED budget
    BY <2>1 DEF Types
  <2>2. CASE May("fault") /\ Spend("fault")
    BY <2>2, <1>1, Spent
  <2>3. QED BY <2>1, <2>2 DEF LoadExec
<1>3. QED BY <1>2 DEF Handed, LoadExec

\* The arguments programs hand over.
LEMMA ArgumentsAre ==
    /\ NoArgs \in Arguments /\ NoArgs.mode = "" /\ ~NoArgs.rom /\ ~NoArgs.exit
    /\ \A m \in {"", "game", "quit", "retroarch", "es-de", "picker", "other"} :
         Mode(m) \in Arguments /\ Mode(m).mode = m
    /\ \A rom, exit \in BOOLEAN :
         LET a == [NoArgs EXCEPT !.rom = rom, !.exit = exit] IN a \in Arguments /\ a.mode = ""
  BY DEF NoArgs, Arguments, Mode

\* A release is one of the builds.
LEMMA InstalledIs == Installed => picker' \in BOOLEAN /\ esde' \in BOOLEAN
<1> SUFFICES ASSUME NEW b \in Builds, picker' = b.picker, esde' = b.esde
             PROVE  picker' \in BOOLEAN /\ esde' \in BOOLEAN
  BY DEF Installed
<1>1. QED BY TitleAssumption

\* The relaunch test is armed for one of the title's programs, in another mode than game.
LEMMA ArmedIs == ASSUME Types
                 PROVE  /\ armed \in Programs /\ armed.image \in {"eboot", "picker", "esde"}
                        /\ armed.args \in Arguments /\ armed.args.mode # "game"
<1>1. CASE armed \in Armed
  BY <1>1, TitleAssumption DEF Programs
<1>2. CASE armed = Itself
  BY <1>2, ArgumentsAre DEF Itself, Programs, Images
<1>3. QED BY <1>1, <1>2 DEF Types

\* What holds when a program starts with these arguments: the files are as they were, a game
\* that is asked for comes with its request, and one that was asked for is accounted for.
MayStart(i, a) ==
    /\ i \in Images /\ a \in Arguments /\ Starts(i, a)
    /\ UNCHANGED <<files, asked, ran, told, answered, restarts>> /\ payload' \in BOOLEAN
    /\ cut \subseteq cut' /\ cut' \subseteq Asks
    /\ budget' \in [Events -> Nat] /\ budget'["ask"] = budget["ask"]
    /\ a.mode = "game" => i = "eboot" /\ (request # 0 => request = asked /\ request \notin told)
    /\ asked > 0 => \/ asked \in answered \cup told \cup cut' \/ result = asked
                    \/ i = "eboot" /\ a.mode = "game" /\ request = asked

\* The invariant holds of a program that starts so.
LEMMA StartKeeps == ASSUME TitleInv, NEW i, NEW a, MayStart(i, a)
                    PROVE  TitleInv'
<1> USE DEF files, build, tests
<1>0. Types /\ Places /\ Requests /\ Frontends /\ Answers /\ TestEnds
  BY DEF TitleInv
<1>n. /\ image' = i /\ args' = a /\ shell' = {} /\ then' = "" /\ game' = 0
      /\ i = "eboot" => pc' = "relaunch"
      /\ i = "esde" => pc' = "starts"
  BY DEF MayStart, Starts, None, Images
<1>1. Types'
  BY <1>0, <1>n DEF MayStart, Types, TypeOK, Asks
<1>2. Places'
  BY <1>n DEF MayStart, Places, EbootPlaces, ShellAsks
<1>3. Requests'
  BY <1>0, <1>n, Numbers DEF MayStart, Requests, Arriving
<1>4. Frontends'
  BY <1>n DEF Frontends, Asking, ShellAsks
<1>5. Answers'
  BY <1>0, <1>n, Numbers DEF MayStart, Answers, Done, OnItsWay, Arriving, Requests, Asking
<1>6. TestEnds'
  BY <1>0 DEF MayStart, TestEnds
<1>7. QED BY <1>1, <1>2, <1>3, <1>4, <1>5, <1>6 DEF TitleInv

-----------------------------------------------------------------------------
(* The steps that start a program, or none.                                  *)

\* A program started without game mode, when nothing that was asked for is on its way: the home
\* screen's, a tile and its payload's, and the title's close.
LEMMA OtherStarts ==
  ASSUME TitleInv, NEW i \in Images, NEW a \in Arguments, Starts(i, a), a.mode # "game", ~OnItsWay,
         UNCHANGED <<files, history>>, payload' \in BOOLEAN,
         budget' \in [Events -> Nat], budget'["ask"] = budget["ask"]
  PROVE  TitleInv'
<1>1. MayStart(i, a)
  BY DEF MayStart, history, TitleInv, Types, TypeOK, Answers, Done
<1>2. QED BY <1>1, StartKeeps

\* Nothing is on its way where no program runs, in a tile, in the picker or in a program that
\* returns.
LEMMA Idle == ASSUME image \in {None, "tile", "picker"} \/ pc = "returns"
              PROVE  ~OnItsWay
  BY DEF OnItsWay, Asking, Arriving, None

\* The home screen starts eboot.bin with no arguments.
LEMMA HomeKeeps == TitleInv /\ Home => TitleInv'
<1> SUFFICES ASSUME TitleInv, Home PROVE TitleInv'
  OBVIOUS
<1>1. budget' \in [Events -> Nat] /\ budget'["ask"] = budget["ask"]
  BY Spent DEF Home, TitleInv, Events
<1>2. "eboot" \in Images /\ NoArgs \in Arguments /\ NoArgs.mode # "game"
  BY ArgumentsAre DEF Images
<1>3. QED BY <1>1, <1>2, OtherStarts, Idle DEF Home, TitleInv, Types, TypeOK

\* A tile starts.
LEMMA TileStartsKeeps == TitleInv /\ TileStarts => TitleInv'
<1> SUFFICES ASSUME TitleInv, TileStarts PROVE TitleInv'
  OBVIOUS
<1>1. budget' \in [Events -> Nat] /\ budget'["ask"] = budget["ask"]
  BY Spent DEF TileStarts, TitleInv, Events
<1>2. "tile" \in Images /\ NoArgs \in Arguments /\ NoArgs.mode # "game"
  BY ArgumentsAre DEF Images
<1>3. QED BY <1>1, <1>2, OtherStarts, Idle DEF TileStarts, TitleInv, Types, TypeOK

\* main returns, or the user leaves the picker: no program is left.
LEMMA ClosesKeep == TitleInv /\ (Returns \/ PickerCloses) => TitleInv'
<1> SUFFICES ASSUME TitleInv, Returns \/ PickerCloses PROVE TitleInv'
  OBVIOUS
<1>1. None \in Images /\ NoArgs \in Arguments /\ NoArgs.mode # "game"
  BY ArgumentsAre DEF Images
<1>2. ~OnItsWay
  BY Idle DEF Returns, PickerCloses, At
<1>3. QED BY <1>1, <1>2, OtherStarts DEF Returns, PickerCloses, TitleInv, Types, TypeOK

\* The payload starts the title with the tile's arguments, or starts nothing.
LEMMA PayloadKeeps == TitleInv /\ PayloadLaunches => TitleInv'
<1> SUFFICES ASSUME TitleInv, PayloadLaunches PROVE TitleInv'
  OBVIOUS
<1>1. CASE \E rom \in BOOLEAN, exit \in BOOLEAN :
             image \in {None, "tile"} /\ Starts("eboot", [NoArgs EXCEPT !.rom = rom, !.exit = rom /\ exit])
  <2>1. PICK a \in Arguments : image \in {None, "tile"} /\ Starts("eboot", a) /\ a.mode = ""
    BY <1>1, ArgumentsAre
  <2>2. "eboot" \in Images
    BY DEF Images
  <2>3. QED BY <2>1, <2>2, OtherStarts, Idle DEF PayloadLaunches, TitleInv, Types, TypeOK
<1>2. CASE UNCHANGED process
  <2>1. UNCHANGED <<process, files, history, budget>> /\ payload' \in BOOLEAN
    BY <1>2 DEF PayloadLaunches
  <2>2. Types' /\ TestEnds'
    BY <2>1 DEF TitleInv, Types, TypeOK, TestEnds, process, files, build, tests, history
  <2>3. Places' /\ Requests' /\ Frontends' /\ Answers'
    BY <2>1 DEF TitleInv, Places, Requests, Frontends, Answers, ShellAsks, OnItsWay, Asking, Arriving,
                Done, process, files, history
  <2>4. QED BY <2>2, <2>3 DEF TitleInv
<1>3. QED BY <1>1, <1>2 DEF PayloadLaunches

\* What Lost adds: the last request, when its answer is in no one's hands.
LEMMA LostKeeps == ASSUME Types, Lost
                   PROVE  /\ cut \subseteq cut' /\ cut' \subseteq Asks
                          /\ asked > 0 => asked \in answered \cup told \cup cut' \/ result = asked
<1>1. cut \subseteq Asks /\ (asked > 0 => asked \in Asks)
  BY Numbers DEF Types, TypeOK
<1>2. QED BY <1>1, Numbers DEF Lost

\* The title is closed, crashes or loses power: what was asked for and has not come back is lost.
LEMMA KillKeeps == TitleInv /\ Kill => TitleInv'
<1> SUFFICES ASSUME TitleInv, Kill PROVE TitleInv'
  OBVIOUS
<1>1. budget' \in [Events -> Nat] /\ budget'["ask"] = budget["ask"]
  BY Spent DEF Kill, TitleInv, Events
<1>2. None \in Images /\ NoArgs \in Arguments /\ NoArgs.mode # "game"
  BY ArgumentsAre DEF Images
<1>3. MayStart(None, NoArgs)
  BY <1>1, <1>2, LostKeeps DEF Kill, MayStart, TitleInv, Types, TypeOK
<1>4. QED BY <1>3, StartKeeps

\* The shell replaces the program: a game asked for comes with its request, or is lost with the
\* program that had it.
LEMMA ReplaceKeeps == TitleInv /\ Replace => TitleInv'
<1> SUFFICES ASSUME TitleInv, Replace PROVE TitleInv'
  OBVIOUS
<1>0. Types /\ Places /\ Requests /\ Frontends /\ Answers
  BY DEF TitleInv
<1>1. PICK next \in shell : Starts(next.image, next.args)
  BY DEF Replace
<1>2. next.image \in Images /\ next.args \in Arguments
  BY <1>0 DEF Types, Programs
<1>3. cut \subseteq cut' /\ cut' \subseteq Asks
  BY <1>0, LostKeeps DEF Replace, Types, TypeOK
<1>4. ASSUME next.args.mode = "game"
      PROVE  /\ next.image = "eboot" /\ (request # 0 => request = asked /\ request \notin told)
  BY <1>0, <1>4 DEF Places, Frontends, Asking, ShellAsks
<1>5. asked > 0 => \/ asked \in answered \cup told \cup cut' \/ result = asked
                   \/ next.image = "eboot" /\ next.args.mode = "game" /\ request = asked
  <2>1. CASE pc = "waits" /\ then # "frontend"
    BY <1>0, <2>1 DEF Answers, Done, OnItsWay, Arriving, Frontends, Asking, Replace
  <2>2. CASE ~(pc = "waits" /\ then # "frontend")
    BY <1>0, <2>2, LostKeeps DEF Replace
  <2>3. QED BY <2>1, <2>2
<1>6. MayStart(next.image, next.args)
  <2>1. UNCHANGED <<files, asked, ran, told, answered, restarts, budget>> /\ payload' \in BOOLEAN
    BY <1>0 DEF Replace, Types, TypeOK
  <2>2. QED BY <1>0, <1>1, <1>2, <1>3, <1>4, <1>5, <2>1 DEF MayStart, Types
<1>7. QED BY <1>6, StartKeeps

-----------------------------------------------------------------------------
(* The steps that ask the shell for another program.                         *)

\* A program that asks for another, none in game mode, while nothing asked for is on its way.
LEMMA HandsOver ==
  ASSUME TitleInv, NEW i, NEW a, NEW refused, NEW late, Handed(i, a, refused, late),
         [image |-> i, args |-> a] \in Programs, a.mode # "game", ~OnItsWay,
         UNCHANGED <<image, args, game, request, result, build, tests, history>>,
         choice' \in {"ask", "retroarch", "es-de"}, payload' \in BOOLEAN,
         image # None,
         image = "eboot" => /\ refused \in {"retroarch", "exits", "returns"}
                            /\ late \in {"retroarch", "exits", "hangs"},
         image = "esde" => pc = "browses" /\ refused = "hangs" /\ late = "hangs"
  PROVE  TitleInv'
<1> USE DEF build, tests, history, Handed
<1>0. Types /\ Places /\ Requests /\ Frontends /\ Answers /\ TestEnds
  BY DEF TitleInv
<1>1. Types'
  BY <1>0 DEF Types, TypeOK
<1>a. \A next \in shell' : next.args.mode = "game" => next \in shell
  OBVIOUS
<1>2. Places'
  BY <1>0, <1>a DEF Places, EbootPlaces
<1>3. Requests'
  BY <1>0, Numbers DEF Requests, Arriving, Places
<1>4. Frontends'
  BY <1>0, <1>a DEF Frontends, Asking, ShellAsks
<1>5. Answers'
  BY <1>0 DEF Answers, Done
<1>6. TestEnds'
  BY <1>0 DEF TestEnds
<1>7. QED BY <1>1, <1>2, <1>3, <1>4, <1>5, <1>6 DEF TitleInv

\* The programs that are asked for outside game mode, by name.
LEMMA OtherPrograms ==
    /\ \A i \in Images : [image |-> i, args |-> NoArgs] \in Programs
    /\ \A m \in {"quit", "retroarch", "es-de", "picker", "other"} :
         [image |-> "eboot", args |-> Mode(m)] \in Programs /\ Mode(m).mode # "game"
    /\ NoArgs.mode # "game"
    /\ None \in Images /\ "eboot" \in Images /\ "esde" \in Images /\ "picker" \in Images
  BY ArgumentsAre DEF Programs, Images

\* A tile sends the payload and closes.
LEMMA TileSendsKeeps == TitleInv /\ TileSends => TitleInv'
<1> SUFFICES ASSUME TitleInv, TileSends PROVE TitleInv'
  OBVIOUS
<1>1. Handed(None, NoArgs, "returns", "hangs")
  BY LoadExecHands DEF TileSends, Closing, TitleInv
<1>2. image = "tile" /\ ~OnItsWay
  BY Idle DEF TileSends
<1>3. QED BY <1>1, <1>2, OtherPrograms, HandsOver DEF TileSends, Closing, files, TitleInv, Types, TypeOK, None

\* Refused, RetroArch starts its frontend again; it does after a game, and it closes the title.
LEMMA LeavesKeep == TitleInv /\ (Refuse \/ BackToFrontend \/ Exits) => TitleInv'
<1> SUFFICES ASSUME TitleInv, Refuse \/ BackToFrontend \/ Exits PROVE TitleInv'
  OBVIOUS
<1>0. image = "eboot" /\ pc \in {"refused", "back", "exits"} /\ ~OnItsWay
  BY DEF Refuse, BackToFrontend, Exits, At, OnItsWay, Asking, Arriving
<1>1. \/ Handed("esde", NoArgs, "retroarch", "retroarch")
      \/ Handed("esde", NoArgs, "exits", "exits")
      \/ Handed(None, NoArgs, "returns", "hangs")
  BY LoadExecHands DEF Refuse, BackToFrontend, Exits, Going, Closing, TitleInv
<1>2. UNCHANGED <<image, args, game, files, history, payload>>
  BY DEF Refuse, BackToFrontend, Exits, Going, Closing
<1>3. QED BY <1>0, <1>1, <1>2, OtherPrograms, HandsOver DEF files, TitleInv, Types, TypeOK, None

\* The picker starts RetroArch or EmulationStation, and records it or not.
LEMMA PickerChoosesKeeps == TitleInv /\ PickerChooses => TitleInv'
<1> SUFFICES ASSUME TitleInv, PickerChooses PROVE TitleInv'
  OBVIOUS
<1>0. image = "picker" /\ ~OnItsWay
  BY Idle DEF PickerChooses, At
<1>1. \/ Handed("eboot", Mode("retroarch"), "hangs", "hangs")
      \/ Handed("esde", NoArgs, "hangs", "hangs")
  BY LoadExecHands DEF PickerChooses, Going, TitleInv
<1>2. UNCHANGED <<image, args, game, request, result, build, tests, history, payload>>
  BY DEF PickerChooses, Going
<1>3. choice' \in {"ask", "retroarch", "es-de"}
  BY DEF PickerChooses, TitleInv, Types, TypeOK
<1>4. QED BY <1>0, <1>1, <1>2, <1>3, OtherPrograms, HandsOver DEF TitleInv, Types, TypeOK, None

\* EmulationStation quits with the mode it was started with, or quit.
LEMMA EsDeQuitsKeeps == TitleInv /\ EsDeQuits => TitleInv'
<1> SUFFICES ASSUME TitleInv, EsDeQuits PROVE TitleInv'
  OBVIOUS
<1>0. image = "esde" /\ pc = "browses" /\ ~OnItsWay
  BY DEF EsDeQuits, At, OnItsWay, Asking, Arriving
<1> DEFINE a == Mode(IF args.mode = "" THEN "quit" ELSE args.mode)
<1>1. [image |-> "eboot", args |-> a] \in Programs /\ a.mode # "game"
  BY <1>0, OtherPrograms DEF TitleInv, Types, TypeOK, Places, Arguments
<1>2. Handed("eboot", a, "hangs", "hangs")
  BY LoadExecHands DEF EsDeQuits, Going, TitleInv
<1>3. UNCHANGED <<image, args, game, files, history, payload>>
  BY DEF EsDeQuits, Going
<1> HIDE DEF a
<1>4. QED BY <1>0, <1>1, <1>2, <1>3, HandsOver DEF files, TitleInv, Types, TypeOK, None

\* Only game mode starts the game that was asked for.
LEMMA Decides ==
  ASSUME NEW held
  PROVE  /\ Decide(held) \in {"game", "esde", "picker", "retroarch", "close"}
         /\ (Decide(held) = "game") <=> (args.mode = "game")
<1>1. CASE args.mode = "game"
  BY <1>1 DEF Decide
<1>2. CASE args.mode \in {"es-de", "picker", "quit"}
  BY <1>2 DEF Decide
<1>3. CASE args.mode \notin {"game", "es-de", "picker", "quit"}
  BY <1>3 DEF Decide, FromHome
<1>4. QED BY <1>1, <1>2, <1>3

\* eboot.bin, before RetroArch, goes on without asking the shell: nothing but where it is and
\* the game a tile names changes.
LEMMA DispatchKeeps == TitleInv /\ Dispatch => TitleInv'
<1> SUFFICES ASSUME TitleInv, Dispatch PROVE TitleInv'
  OBVIOUS
<1>0. Types /\ Places /\ Requests /\ Frontends /\ Answers /\ TestEnds
  BY DEF TitleInv
<1>1. image = "eboot" /\ pc = "frontend" /\ game = 0 /\ UNCHANGED <<files, history, payload>>
  BY <1>0 DEF Dispatch, At, Places
<1>2. PICK core \in IF args.rom /\ args.mode = "" THEN ForwardCores ELSE {0}, held \in MayBeHeld :
        LET next == IF core # 0 THEN "forward" ELSE Decide(held) IN
         CASE next = "forward" -> /\ game' = Forwarded /\ pc' = "retroarch"
                                  /\ UNCHANGED <<image, args, shell, then, budget>>
           [] next = "game" -> pc' = "take" /\ UNCHANGED <<image, args, shell, then, game, budget>>
           [] next = "retroarch" -> pc' = "retroarch" /\ UNCHANGED <<image, args, shell, then, game, budget>>
           [] next = "close" -> Going(None, NoArgs, "retroarch")
           [] OTHER -> Going(next, NoArgs, "retroarch")
  BY DEF Dispatch
<1>3. /\ core # 0 => args.mode = ""
      /\ Decide(held) \in {"game", "esde", "picker", "retroarch", "close"}
      /\ (Decide(held) = "game") <=> (args.mode = "game")
  BY <1>2, Decides
<1>4. CASE core # 0 \/ Decide(held) = "retroarch"
  <2>1. /\ UNCHANGED <<image, args, shell, then, budget>> /\ pc' = "retroarch"
        /\ game' = Forwarded \/ game' = game
    BY <1>2, <1>3, <1>4
  <2>2. args.mode # "game" /\ ~OnItsWay
    BY <1>1, <1>3, <1>4 DEF OnItsWay, Asking, Arriving
  <2>3. Types' /\ TestEnds'
    BY <1>0, <1>1, <2>1 DEF Types, TypeOK, TestEnds, files, build, tests, history
  <2>4. Places'
    BY <1>0, <1>1, <2>1 DEF Places, EbootPlaces
  <2>5. Requests'
    BY <1>0, <1>1, <2>1, Numbers DEF Requests, Arriving, Forwarded, files, history
  <2>6. Frontends' /\ Answers'
    BY <1>0, <1>1, <2>1, <2>2 DEF Frontends, Answers, Done, files, history
  <2>7. QED BY <2>3, <2>4, <2>5, <2>6 DEF TitleInv
<1>5. CASE core = 0 /\ Decide(held) = "game"
  <2>1. pc' = "take" /\ UNCHANGED <<image, args, shell, then, game, budget>>
    BY <1>2, <1>5
  <2>2. Types' /\ TestEnds'
    BY <1>0, <1>1, <2>1 DEF Types, TypeOK, TestEnds, files, build, tests, history
  <2>3. Places'
    BY <1>0, <1>1, <1>3, <1>5, <2>1 DEF Places, EbootPlaces
  <2>4. Requests'
    BY <1>0, <1>1, <2>1 DEF Requests, Arriving, files, history
  <2>5. Frontends' /\ Answers'
    BY <1>0, <1>1, <2>1 DEF Frontends, Answers, Done, OnItsWay, Arriving, Asking, files, history
  <2>6. QED BY <2>2, <2>3, <2>4, <2>5 DEF TitleInv
<1>6. CASE core = 0 /\ Decide(held) \in {"close", "esde", "picker"}
  <2>1. \/ Going(None, NoArgs, "retroarch") \/ Going("esde", NoArgs, "retroarch")
        \/ Going("picker", NoArgs, "retroarch")
    BY <1>2, <1>6
  <2>2. \/ Handed(None, NoArgs, "retroarch", "retroarch") \/ Handed("esde", NoArgs, "retroarch", "retroarch")
        \/ Handed("picker", NoArgs, "retroarch", "retroarch")
    BY <1>0, <2>1, LoadExecHands DEF Going
  <2>3. ~OnItsWay
    BY <1>1, <1>3, <1>6 DEF OnItsWay, Asking, Arriving
  <2>4. UNCHANGED <<image, args, game>>
    BY <2>1 DEF Going
  <2>5. QED BY <1>0, <1>1, <2>2, <2>3, <2>4, OtherPrograms, HandsOver DEF files, Types, TypeOK, None
<1>7. QED BY <1>3, <1>4, <1>5, <1>6

-----------------------------------------------------------------------------
(* The relaunch test, a wait that ends, and what the user and the tools set.  *)

\* The relaunch test records each restart before it makes one, and restarts no more often than it
\* is armed for; what its program was started for goes with it.
LEMMA RelaunchTestKeeps == TitleInv /\ RelaunchTest => TitleInv'
<1> SUFFICES ASSUME TitleInv, RelaunchTest PROVE TitleInv'
  OBVIOUS
<1> DEFINE GoesOn ==
      /\ UNCHANGED <<image, args, game>> /\ lines' \in {lines, lines + 1}
      /\ Handed(armed.image, armed.args, "frontend", "frontend")
      /\ arm' \in {0, arm}
      /\ restarts' = restarts \/ (restarts' = restarts + 1 /\ lines < arm /\ lines' = lines + 1)
<1>0. Types /\ Places /\ Requests /\ Frontends /\ Answers /\ TestEnds
  BY DEF TitleInv
<1>1. /\ image = "eboot" /\ pc = "relaunch" /\ game = 0
      /\ UNCHANGED <<request, result, choice, build, testRun, pickerTest, armed, asked, ran, told,
                     answered, cut, payload>>
  BY <1>0 DEF RelaunchTest, At, Places
<1>2. GoesOn
  <2>1. CASE arm' = 0 /\ pc' = "frontend" /\ UNCHANGED <<image, args, shell, then, game, lines, restarts, budget>>
    BY <1>0, <2>1 DEF Handed, Types, Events
  <2>2. ASSUME NEW kept \in BOOLEAN, lines' \in Recorded(kept), Restarts(kept), Going(armed.image, armed.args, "frontend"),
               restarts' = IF shell' # {} THEN restarts + 1 ELSE restarts,
               arm' = IF pc' = "frontend" THEN 0 ELSE arm
        PROVE  GoesOn
    <3>1. Handed(armed.image, armed.args, "frontend", "frontend")
      BY <1>0, <2>2, LoadExecHands DEF Going
    <3>2. QED BY <2>2, <3>1 DEF Going, Recorded, Restarts
  <2>3. ASSUME NEW kept \in BOOLEAN, lines' \in Recorded(kept), pc' = "frontend", arm' = 0,
               UNCHANGED <<image, args, shell, then, game, restarts, budget>>
        PROVE  GoesOn
    BY <1>0, <2>3 DEF Handed, Types, Events, Recorded
  <2>4. QED BY <2>1, <2>2, <2>3 DEF RelaunchTest
<1> USE DEF build, Handed
<1>3. Types'
  BY <1>0, <1>1, <1>2, ArmedIs, TitleAssumption DEF Types, TypeOK, Programs
<1>a. \A next \in shell' : next.args.mode = "game" => next \in shell
  BY <1>0, <1>2, ArmedIs
<1>4. Places'
  BY <1>0, <1>1, <1>2, <1>a DEF Places, EbootPlaces
<1>5. Requests'
  BY <1>0, <1>1, <1>2, Numbers DEF Requests, Arriving
<1>6. Frontends'
  BY <1>1, <1>2 DEF Frontends
<1>7. Answers'
  BY <1>0, <1>1, <1>2, Numbers DEF Answers, Done, OnItsWay, Arriving, Asking
<1>8. TestEnds'
  BY <1>0, <1>2 DEF TestEnds, Types, TypeOK
<1>9. QED BY <1>3, <1>4, <1>5, <1>6, <1>7, <1>8 DEF TitleInv

\* A minute's wait ends: EmulationStation takes its request back and tells its user.
LEMMA GiveUpKeeps == TitleInv /\ GiveUp => TitleInv'
<1> SUFFICES ASSUME TitleInv, GiveUp PROVE TitleInv'
  OBVIOUS
<1>0. Types /\ Places /\ Requests /\ Frontends /\ Answers /\ TestEnds
  BY DEF TitleInv
<1>1. /\ pc = "waits" /\ then # "hangs" /\ pc' = then /\ then' = "" /\ image \in {"eboot", "esde"}
      /\ UNCHANGED <<image, args, shell, game, result, choice, build, testRun, pickerTest, armed, lines,
                     asked, ran, answered, cut, restarts, payload>>
      /\ arm' \in {0, arm}
      /\ image = "esde" => request' = 0 /\ told' = told \cup {asked}
      /\ image = "eboot" => UNCHANGED <<request, told>>
  BY DEF GiveUp, GivesUp, AfterFailedLaunch
<1>2. budget' \in [Events -> Nat] /\ budget'["ask"] = budget["ask"]
  <2>1. CASE UNCHANGED budget
    BY <1>0, <2>1 DEF Types
  <2>2. CASE May("fault") /\ Spend("fault")
    BY <1>0, <2>2, Spent DEF Events
  <2>3. QED BY <2>1, <2>2 DEF GiveUp
<1>a. arm' \in 0..MaxArm \cup {Unreadable} /\ (arm' > 0 => arm' = arm)
  <2>1. arm \in 0..MaxArm \cup {Unreadable} /\ MaxArm \in Nat
    BY <1>0, TitleAssumption DEF Types, TypeOK
  <2>2. arm' = 0 \/ arm' = arm
    BY <1>1
  <2>3. QED BY <2>1, <2>2
<1> USE DEF build
<1>b. TestEnds'
  BY <1>0, <1>1, <1>a DEF TestEnds
<1>3. CASE image = "eboot"
  <2>1. Types'
    BY <1>0, <1>1, <1>2, <1>3, <1>a DEF Types, TypeOK
  <2>2. Places'
    BY <1>0, <1>1, <1>3 DEF Places, EbootPlaces
  <2>3. Requests'
    BY <1>0, <1>1, <1>3, Numbers DEF Requests, Arriving, Places
  <2>4. Frontends' /\ Answers'
    BY <1>0, <1>1, <1>3 DEF Frontends, Answers, Done, OnItsWay, Arriving, Asking, Places
  <2>5. QED BY <1>b, <2>1, <2>2, <2>3, <2>4 DEF TitleInv
<1>4. CASE image = "esde"
  <2>a. then = "browses" /\ Asking /\ game = 0
    BY <1>0, <1>1, <1>4 DEF Places, Asking
  <2>b. result = 0 /\ asked > 0
    BY <1>0, <1>1, <1>4, <2>a DEF Frontends
  <2>d. asked \in Asks /\ 0 \notin Asks
    BY <1>0, <2>b, Numbers
  <2>0. then = "browses" /\ Asking /\ asked \in Asks /\ game = 0 /\ result = 0 /\ ~Arriving'
    BY <1>1, <1>4, <2>a, <2>b, <2>d DEF Arriving
  <2>c. told' \subseteq Asks /\ request' \in Asks \cup {0}
    BY <1>0, <1>1, <1>4, <2>0 DEF Types, TypeOK
  <2>1. Types'
    BY <1>0, <1>1, <1>2, <1>4, <1>a, <2>c DEF Types, TypeOK
  <2>2. Places'
    BY <1>0, <1>1, <1>4, <2>0 DEF Places
  <2>3. Requests'
    <3>0. asked \in Nat /\ (\A n \in Asks : n \in Nat) /\ request' = 0
      BY <1>0, <1>1, <1>4, Numbers
    <3>1. request' <= asked /\ result <= asked
      BY <3>0, <2>0
    <3>2. ASSUME NEW n \in Asks, n > asked PROVE n \notin answered' \cup told'
      <4>1. n \notin answered \cup told /\ n # asked
        BY <1>0, <3>0, <3>2 DEF Requests
      <4>2. QED BY <1>1, <1>4, <4>1
    <3>3. QED BY <1>0, <1>1, <1>4, <2>0, <2>d, <3>1, <3>2 DEF Requests
  <2>4. Frontends'
    BY <1>0, <1>1, <1>4, <2>0 DEF Frontends, Asking, ShellAsks
  <2>5. Answers'
    BY <1>0, <1>1, <1>4, <2>0 DEF Answers, Done
  <2>6. QED BY <1>b, <2>1, <2>2, <2>3, <2>4, <2>5 DEF TitleInv
<1>5. QED BY <1>1, <1>3, <1>4

\* Steps that leave the programs, the requests and their answers alone.
LEMMA OthersKeep ==
  ASSUME TitleInv, UNCHANGED <<process, request, result, asked, ran, told, answered, cut>>,
         Types', TestEnds'
  PROVE  TitleInv'
<1>1. Places' /\ Requests' /\ Frontends' /\ Answers'
  BY DEF TitleInv, Places, Requests, Frontends, Answers, ShellAsks, OnItsWay, Asking, Arriving, Done, process
<1>2. QED BY <1>1 DEF TitleInv

\* The setting in the WebUI.
LEMMA RememberKeeps == TitleInv /\ Remember => TitleInv'
<1> SUFFICES ASSUME TitleInv, Remember PROVE TitleInv'
  OBVIOUS
<1>1. budget' \in [Events -> Nat] /\ budget'["ask"] = budget["ask"]
  BY Spent DEF Remember, TitleInv, Events
<1>2. Types' /\ TestEnds'
  BY <1>1 DEF Remember, TitleInv, Types, TypeOK, TestEnds, process, build, tests, history
<1>3. QED BY <1>2, OthersKeep DEF Remember, history

\* The daemon's install changes the build alone.
LEMMA DaemonInstallsKeeps == TitleInv /\ DaemonInstalls => TitleInv'
<1> SUFFICES ASSUME TitleInv, DaemonInstalls PROVE TitleInv'
  OBVIOUS
<1>1. budget' \in [Events -> Nat] /\ budget'["ask"] = budget["ask"]
  BY Spent DEF DaemonInstalls, TitleInv, Events
<1>2. picker' \in BOOLEAN /\ esde' \in BOOLEAN
  BY InstalledIs DEF DaemonInstalls
<1>3. Types' /\ TestEnds'
  BY <1>1, <1>2 DEF DaemonInstalls, TitleInv, Types, TypeOK, TestEnds, process, tests, history
<1>4. QED BY <1>3, OthersKeep DEF DaemonInstalls, history

\* A test is armed, the relaunch test with no restart recorded.
LEMMA ArmTestKeeps == TitleInv /\ ArmTest => TitleInv'
<1> SUFFICES ASSUME TitleInv, ArmTest PROVE TitleInv'
  OBVIOUS
<1>1. budget' \in [Events -> Nat] /\ budget'["ask"] = budget["ask"]
  BY Spent DEF ArmTest, TitleInv, Events
<1>2. Types' /\ TestEnds'
  <2>1. testRun' \in BOOLEAN /\ pickerTest' \in BOOLEAN
    BY DEF ArmTest, TitleInv, Types, TypeOK
  <2>2. /\ arm' \in 0..MaxArm \cup {Unreadable} /\ armed' \in Armed \cup {Itself} /\ lines' \in Nat /\ restarts' \in Nat
        /\ TestEnds'
    <3>1. CASE UNCHANGED <<arm, armed, lines, restarts>>
      BY <3>1 DEF TitleInv, Types, TypeOK, TestEnds
    <3>2. CASE arm' \in 1..MaxArm /\ armed' \in Armed /\ lines' = 0 /\ restarts' = 0
      BY <3>2, TitleAssumption DEF TestEnds
    <3>3. CASE arm' = Unreadable /\ UNCHANGED <<armed, lines, restarts>>
      BY <3>3 DEF TitleInv, Types, TypeOK, TestEnds, Unreadable
    <3>4. QED BY <3>1, <3>2, <3>3 DEF ArmTest
  <2>3. QED BY <1>1, <2>1, <2>2 DEF ArmTest, TitleInv, Types, TypeOK, process, build
<1>3. QED BY <1>2, OthersKeep DEF ArmTest

-----------------------------------------------------------------------------
(* A game, from its request to its answer.                                   *)

\* The request is taken, and removed, before it is checked.
LEMMA TakeGameKeeps == TitleInv /\ TakeGame => TitleInv'
<1> SUFFICES ASSUME TitleInv, TakeGame PROVE TitleInv'
  OBVIOUS
<1> USE DEF build, tests, history
<1>0. Types /\ Places /\ Requests /\ Frontends /\ Answers /\ TestEnds
  BY DEF TitleInv
<1>1. /\ image = "eboot" /\ pc = "take" /\ game = 0 /\ args.mode = "game" /\ Arriving
      /\ game' = request /\ request' = 0 /\ pc' = (IF request = 0 THEN "retroarch" ELSE "check")
      /\ UNCHANGED <<image, args, shell, then, result, choice, build, tests, history, payload, budget>>
  BY <1>0 DEF TakeGame, At, Places, AfterTake, Arriving
<1>2. request # 0 => /\ request = asked /\ request \in Asks /\ ran[request] = 0
                     /\ request \notin answered \cup told
  BY <1>0, <1>1, Numbers DEF Requests
<1>3. Types' /\ TestEnds'
  BY <1>0, <1>1, <1>2 DEF Types, TypeOK, TestEnds
<1>4. Places'
  BY <1>0, <1>1, <1>2 DEF Places, EbootPlaces
<1>5. Requests'
  BY <1>0, <1>1, <1>2, Numbers DEF Requests, Arriving
<1>6. Frontends'
  BY <1>1 DEF Frontends
<1>7. Answers'
  BY <1>0, <1>1, <1>2 DEF Answers, Done, OnItsWay, Arriving, Asking
<1>8. QED BY <1>3, <1>4, <1>5, <1>6, <1>7 DEF TitleInv

\* The game runs, or its frontend gets the reason, or neither can be had and the answer is lost.
LEMMA CheckGameKeeps == TitleInv /\ CheckGame => TitleInv'
<1> SUFFICES ASSUME TitleInv, CheckGame PROVE TitleInv'
  OBVIOUS
<1> USE DEF build, tests
<1>0. Types /\ Places /\ Requests /\ Frontends /\ Answers /\ TestEnds
  BY DEF TitleInv
<1>1. /\ image = "eboot" /\ pc = "check" /\ game \in Asks
      /\ UNCHANGED <<image, args, shell, then, request, choice, build, tests, asked, told, answered,
                     restarts, payload>>
  BY <1>0 DEF CheckGame, At, Places
<1>2. game = asked /\ request = 0 /\ game \notin answered \cup told /\ ran[game] = 0
  BY <1>0, <1>1 DEF Requests
<1>3. CASE /\ pc' = "retroarch" /\ ran' = [ran EXCEPT ![game] = @ + 1]
           /\ UNCHANGED <<game, result, cut, budget>>
  <2>1. /\ ran' \in [Asks -> Nat] /\ ran'[game] = 1
        /\ \A n \in Asks : n # game => ran'[n] = ran[n]
    BY <1>0, <1>1, <1>2, <1>3 DEF Types
  <2>2. Types' /\ TestEnds'
    BY <1>0, <1>1, <1>3, <2>1 DEF Types, TypeOK, TestEnds
  <2>3. Places'
    BY <1>0, <1>1, <1>3 DEF Places, EbootPlaces
  <2>4. Requests'
    BY <1>0, <1>1, <1>2, <1>3, <2>1, Numbers DEF Requests, Arriving
  <2>5. Frontends' /\ Answers'
    BY <1>0, <1>1, <1>2, <1>3 DEF Frontends, Answers, Done, OnItsWay
  <2>6. QED BY <2>2, <2>3, <2>4, <2>5 DEF TitleInv
<1>4. CASE game' = 0 /\ result' = game /\ pc' = "refused" /\ UNCHANGED <<ran, cut, budget>>
  <2>1. Types' /\ TestEnds'
    BY <1>0, <1>1, <1>4 DEF Types, TypeOK, TestEnds
  <2>2. Places'
    BY <1>0, <1>1, <1>4 DEF Places, EbootPlaces
  <2>3. Requests'
    BY <1>0, <1>1, <1>2, <1>4, Numbers DEF Requests, Arriving
  <2>4. Frontends' /\ Answers'
    BY <1>0, <1>1, <1>2, <1>4 DEF Frontends, Answers, Done
  <2>5. QED BY <2>1, <2>2, <2>3, <2>4 DEF TitleInv
<1>5. CASE /\ (May("fault") /\ Spend("fault")) \/ UNCHANGED budget
           /\ game' = 0 /\ pc' = "retroarch" /\ cut' = cut \cup {game} /\ UNCHANGED <<ran, result>>
  <2>1. budget' \in [Events -> Nat] /\ budget'["ask"] = budget["ask"]
    <3>1. CASE UNCHANGED budget
      BY <1>0, <3>1 DEF Types
    <3>2. CASE May("fault") /\ Spend("fault")
      BY <1>0, <3>2, Spent DEF Events
    <3>3. QED BY <1>5, <3>1, <3>2
  <2>2. Types' /\ TestEnds'
    BY <1>0, <1>1, <1>5, <2>1 DEF Types, TypeOK, TestEnds
  <2>3. Places'
    BY <1>0, <1>1, <1>5 DEF Places, EbootPlaces
  <2>4. Requests'
    BY <1>0, <1>1, <1>2, <1>5, Numbers DEF Requests, Arriving
  <2>5. Frontends' /\ Answers'
    BY <1>0, <1>1, <1>2, <1>5 DEF Frontends, Answers, Done
  <2>6. QED BY <2>2, <2>3, <2>4, <2>5 DEF TitleInv
<1>6. QED BY <1>3, <1>4, <1>5 DEF CheckGame, Refusal

\* RetroArch runs, and the picker and EmulationStation start: a test file is gone, a result is
\* taken.
LEMMA RunsKeep == TitleInv /\ (RetroArch \/ PickerStarts) => TitleInv'
<1> SUFFICES ASSUME TitleInv, RetroArch \/ PickerStarts PROVE TitleInv'
  OBVIOUS
<1>0. Types /\ Places /\ Requests /\ Frontends /\ Answers /\ TestEnds
  BY DEF TitleInv
<1>1. /\ UNCHANGED <<image, args, shell, then, game, request, result, choice, build, arm, armed, lines,
                     history, payload, budget>>
      /\ testRun' \in BOOLEAN /\ pickerTest' \in BOOLEAN
      /\ \/ image = "eboot" /\ pc = "retroarch" /\ pc' = "plays"
         \/ image = "picker" /\ pc' = "chooses"
  BY <1>0 DEF RetroArch, PickerStarts, At, Types, TypeOK
<1> USE DEF build, history
<1>2. Types' /\ TestEnds'
  BY <1>0, <1>1 DEF Types, TypeOK, TestEnds
<1>3. Places'
  BY <1>0, <1>1 DEF Places, EbootPlaces
<1>4. Requests'
  BY <1>0, <1>1, Numbers DEF Requests, Arriving, Places
<1>5. Frontends' /\ Answers'
  BY <1>0, <1>1 DEF Frontends, Answers, Done, OnItsWay, Arriving, Asking
<1>6. QED BY <1>2, <1>3, <1>4, <1>5 DEF TitleInv

\* EmulationStation starts and takes the result that waits for it.
LEMMA EsDeStartsKeeps == TitleInv /\ EsDeStarts => TitleInv'
<1> SUFFICES ASSUME TitleInv, EsDeStarts PROVE TitleInv'
  OBVIOUS
<1>0. Types /\ Places /\ Requests /\ Frontends /\ Answers /\ TestEnds
  BY DEF TitleInv
<1>1. /\ image = "esde" /\ pc = "starts" /\ pc' = "browses" /\ result' = 0 /\ game = 0
      /\ answered' = (IF result = 0 THEN answered ELSE answered \cup {result})
      /\ UNCHANGED <<image, args, shell, then, game, request, choice, build, tests, asked, ran,
                     told, cut, restarts, payload, budget>>
  BY <1>0 DEF EsDeStarts, At, AfterTaken, Places
<1> USE DEF build, tests
<1>2. ~OnItsWay /\ ~Arriving' /\ ~Asking'
  BY <1>0, <1>1, Numbers DEF OnItsWay, Asking, Arriving
<1>3. answered' \subseteq Asks /\ answered \subseteq answered'
  BY <1>0, <1>1, Numbers DEF Types, TypeOK
<1>4. Types' /\ TestEnds'
  BY <1>0, <1>1, <1>3 DEF Types, TypeOK, TestEnds
<1>5. Places'
  BY <1>0, <1>1 DEF Places
<1>6. Requests'
  BY <1>0, <1>1, <1>2, Numbers DEF Requests
<1>7. Frontends'
  BY <1>0, <1>1, <1>2 DEF Frontends, ShellAsks, Asking
<1>8. Answers'
  BY <1>0, <1>1, <1>2, <1>3, Numbers DEF Answers, Done
<1>9. QED BY <1>4, <1>5, <1>6, <1>7, <1>8 DEF TitleInv

\* A game ends with its result, or the title closes for an update.
LEMMA QuitKeeps == TitleInv /\ Quit => TitleInv'
<1> SUFFICES ASSUME TitleInv, Quit PROVE TitleInv'
  OBVIOUS
<1> USE DEF tests
<1>0. Types /\ Places /\ Requests /\ Frontends /\ Answers /\ TestEnds
  BY DEF TitleInv
<1>1. /\ image = "eboot" /\ pc = "plays"
      /\ UNCHANGED <<request, choice, tests, asked, ran, told, answered, restarts, payload>>
      /\ picker' \in BOOLEAN /\ esde' \in BOOLEAN
  <2>1. Installed \/ UNCHANGED build
    BY DEF Quit
  <2>2. QED BY <1>0, <2>1, InstalledIs DEF Quit, At, build, Types, TypeOK
<1>2. CASE /\ May("update") /\ Spend("update") /\ pc' = "exits" /\ game' = 0 /\ Lost
           /\ UNCHANGED <<image, args, shell, then, result>>
  <2>1. budget' \in [Events -> Nat] /\ budget'["ask"] = budget["ask"]
    BY <1>0, <1>2, Spent DEF Events
  <2>2. Types' /\ TestEnds'
    BY <1>0, <1>1, <1>2, <2>1, LostKeeps DEF Types, TypeOK, TestEnds
  <2>3. Places'
    BY <1>0, <1>1, <1>2 DEF Places, EbootPlaces
  <2>4. Requests'
    BY <1>0, <1>1, <1>2, Numbers DEF Requests, Arriving
  <2>5. Frontends' /\ Answers'
    BY <1>0, <1>1, <1>2, LostKeeps DEF Frontends, Answers, Done
  <2>6. QED BY <2>2, <2>3, <2>4, <2>5 DEF TitleInv
<1>3. CASE /\ game \in Asks /\ pc' = "back"
           /\ \/ result' = game /\ UNCHANGED <<cut, budget>>
              \/ May("fault") /\ Spend("fault") /\ cut' = cut \cup {game} /\ UNCHANGED result
           /\ UNCHANGED <<image, args, shell, then, game>>
  <2>1. budget' \in [Events -> Nat] /\ budget'["ask"] = budget["ask"]
    <3>1. CASE UNCHANGED budget
      BY <1>0, <3>1 DEF Types
    <3>2. CASE May("fault") /\ Spend("fault")
      BY <1>0, <3>2, Spent DEF Events
    <3>3. QED BY <1>3, <3>1, <3>2
  <2>2. /\ game = asked /\ request = 0 /\ game \notin answered \cup told
        /\ result' \in {game, result} /\ cut \subseteq cut' /\ cut' \subseteq Asks
        /\ result' = asked \/ asked \in cut'
    BY <1>0, <1>3 DEF Requests, Types, TypeOK
  <2>3. Types' /\ TestEnds'
    BY <1>0, <1>1, <1>3, <2>1, <2>2 DEF Types, TypeOK, TestEnds
  <2>4. Places'
    BY <1>0, <1>1, <1>3 DEF Places, EbootPlaces
  <2>5. Requests'
    BY <1>0, <1>1, <1>3, <2>2, Numbers DEF Requests, Arriving
  <2>6. Frontends' /\ Answers'
    BY <1>0, <1>1, <1>3, <2>2 DEF Frontends, Answers, Done
  <2>7. QED BY <2>3, <2>4, <2>5, <2>6 DEF TitleInv
<1>4. CASE /\ game \in {0, Forwarded} /\ UNCHANGED <<result, cut, build>>
           /\ \/ pc' = "exits" /\ UNCHANGED <<image, args, shell, then, game, budget>>
              \/ Going("eboot", NoArgs, "exits")
              \/ Going("eboot", Mode("quit"), "exits")
  <2>0. ~OnItsWay
    BY <1>0, <1>1, <1>4, Numbers DEF OnItsWay, Asking, Arriving, Forwarded
  <2>1. CASE pc' = "exits" /\ UNCHANGED <<image, args, shell, then, game, budget>>
    <3>1. Types' /\ TestEnds'
      BY <1>0, <1>1, <1>4, <2>1 DEF Types, TypeOK, TestEnds
    <3>2. Places'
      BY <1>0, <1>1, <2>1 DEF Places, EbootPlaces
    <3>3. Requests'
      BY <1>0, <1>1, <1>4, <2>1, Numbers DEF Requests, Arriving, Forwarded
    <3>4. Frontends' /\ Answers'
      BY <1>0, <1>1, <1>4, <2>0, <2>1 DEF Frontends, Answers, Done
    <3>5. QED BY <3>1, <3>2, <3>3, <3>4 DEF TitleInv
  <2>2. CASE Going("eboot", NoArgs, "exits") \/ Going("eboot", Mode("quit"), "exits")
    <3>1. Handed("eboot", NoArgs, "exits", "exits") \/ Handed("eboot", Mode("quit"), "exits", "exits")
      BY <1>0, <2>2, LoadExecHands DEF Going
    <3>2. UNCHANGED <<image, args, game>>
      BY <2>2 DEF Going
    <3>3. UNCHANGED <<image, args, game, request, result, build, tests, history, choice, payload>>
      BY <1>1, <1>4, <3>2 DEF history
    <3>4. choice \in {"ask", "retroarch", "es-de"} /\ payload \in BOOLEAN
      BY <1>0 DEF Types, TypeOK
    <3>5. QED BY <1>1, <2>0, <3>1, <3>3, <3>4, OtherPrograms, HandsOver DEF None
  <2>3. QED BY <1>4, <2>1, <2>2
<1>5. QED BY <1>2, <1>3, <1>4 DEF Quit

\* EmulationStation asks for a game: its request is in the file, or it is told at once.
LEMMA EsDeAsksKeeps == TitleInv /\ EsDeAsks => TitleInv'
<1> SUFFICES ASSUME TitleInv, EsDeAsks PROVE TitleInv'
  OBVIOUS
<1> USE DEF build, tests
<1>0. Types /\ Places /\ Requests /\ Frontends /\ Answers /\ TestEnds
  BY DEF TitleInv
<1>1. /\ image = "esde" /\ pc = "browses" /\ result = 0 /\ game = 0 /\ asked' = asked + 1
      /\ UNCHANGED <<image, args, shell, then, game, result, choice, build, tests, ran, answered,
                     cut, restarts, payload>>
      /\ ~OnItsWay /\ ~Arriving' /\ (ShellAsks => request = 0)
  BY <1>0, Numbers DEF EsDeAsks, At, Places, Frontends, OnItsWay, Arriving, Asking
<1>2. /\ budget' \in [Events -> Nat] /\ asked' + budget'["ask"] <= MaxAsks
      /\ asked' \in Asks /\ asked' > asked /\ asked \in Nat
  <2>1. budget["ask"] \in Nat /\ budget["ask"] > 0 /\ asked + budget["ask"] <= MaxAsks /\ MaxAsks \in Nat /\ asked \in Nat
    BY <1>0, Numbers, TitleAssumption DEF EsDeAsks, May, Types, Events
  <2>2. budget' \in [Events -> Nat] /\ budget'["ask"] = budget["ask"] - 1
    BY <1>0, <2>1 DEF EsDeAsks, Types, Events
  <2>3. QED BY <1>1, <2>1, <2>2 DEF Asks
<1>3. asked' \notin answered \cup told /\ ran[asked'] = 0
  BY <1>0, <1>2 DEF Requests
<1>4. asked = 0 \/ asked \in Done
  BY <1>0, <1>1, Numbers DEF Answers
<1>5. CASE request' = asked' /\ pc' = "launches" /\ UNCHANGED told
  <2>1. Types' /\ TestEnds'
    BY <1>0, <1>1, <1>2, <1>5 DEF Types, TypeOK, TestEnds
  <2>2. Places'
    BY <1>0, <1>1, <1>5 DEF Places
  <2>3. Requests'
    BY <1>0, <1>1, <1>2, <1>3, <1>5, Numbers DEF Requests
  <2>4. Frontends'
    BY <1>0, <1>1, <1>2, <1>3, <1>5 DEF Frontends, Asking
  <2>5. Answers'
    <3>1. \A n \in Asks : n < asked' => n < asked \/ (n = asked /\ asked # 0)
      BY <1>0, <1>1, <1>2, Numbers
    <3>2. OnItsWay'
      BY <1>1, <1>5 DEF OnItsWay, Asking
    <3>3. QED BY <1>0, <1>1, <1>4, <1>5, <3>1, <3>2 DEF Answers, Done
  <2>6. QED BY <2>1, <2>2, <2>3, <2>4, <2>5 DEF TitleInv
<1>6. CASE told' = told \cup {asked'} /\ UNCHANGED <<request, pc>>
  <2>1. Types' /\ TestEnds'
    BY <1>0, <1>1, <1>2, <1>6 DEF Types, TypeOK, TestEnds
  <2>2. Places'
    BY <1>0, <1>1, <1>6 DEF Places
  <2>3. Requests'
    <3>1. \A n \in Asks : n > asked' => n > asked /\ n # asked'
      BY <1>2, <1>0, Numbers
    <3>2. request <= asked' /\ result <= asked'
      BY <1>0, <1>2, Numbers DEF Requests
    <3>3. QED BY <1>0, <1>1, <1>2, <1>6, <3>1, <3>2, Numbers DEF Requests
  <2>4. Frontends'
    BY <1>0, <1>1, <1>6 DEF Frontends, Asking, ShellAsks
  <2>5. Answers'
    <3>1. \A n \in Asks : n < asked' => n < asked \/ (n = asked /\ asked # 0)
      BY <1>0, <1>1, <1>2, Numbers
    <3>2. QED BY <1>0, <1>1, <1>4, <1>6, <3>1 DEF Answers, Done
  <2>6. QED BY <2>1, <2>2, <2>3, <2>4, <2>5 DEF TitleInv
<1>7. QED BY <1>5, <1>6 DEF EsDeAsks

\* It asks the shell; refused, it takes the request back and tells its user.
LEMMA EsDeLaunchesKeeps == TitleInv /\ EsDeLaunches => TitleInv'
<1> SUFFICES ASSUME TitleInv, EsDeLaunches PROVE TitleInv'
  OBVIOUS
<1> USE DEF build, tests
<1>0. Types /\ Places /\ Requests /\ Frontends /\ Answers /\ TestEnds
  BY DEF TitleInv
<1>1. /\ image = "esde" /\ pc = "launches" /\ result = 0 /\ game = 0 /\ Asking
      /\ request = asked /\ asked > 0 /\ asked \notin told /\ asked \in Asks /\ 0 \notin Asks
      /\ UNCHANGED <<image, args, game, result, choice, build, tests, asked, ran, answered, cut,
                     restarts, payload>>
  BY <1>0, Numbers DEF EsDeLaunches, Going, At, Places, Frontends, Asking
<1>2. Handed("eboot", Mode("game"), "browses", "browses")
  BY <1>0, LoadExecHands DEF EsDeLaunches, Going
<1>3. [image |-> "eboot", args |-> Mode("game")] \in Programs /\ Mode("game").mode = "game"
  BY ArgumentsAre DEF Programs, Images
<1>4. budget' \in [Events -> Nat] /\ budget'["ask"] = budget["ask"]
  BY <1>2 DEF Handed
<1>5. CASE pc' = "browses" /\ shell' = shell /\ then' = then
  <2>1. request' = 0 /\ told' = told \cup {asked} /\ ~Asking' /\ ~Arriving'
    BY <1>1, <1>5 DEF EsDeLaunches, AfterFailedLaunch, Asking, Arriving
  <2>2. told' \subseteq Asks
    BY <1>0, <1>1, <2>1 DEF Types, TypeOK
  <2>3. Types' /\ TestEnds'
    BY <1>0, <1>1, <1>4, <1>5, <2>1, <2>2 DEF Types, TypeOK, TestEnds
  <2>4. Places'
    BY <1>0, <1>1, <1>5 DEF Places
  <2>5. Requests'
    <3>1. \A n \in Asks : n > asked => n # asked
      BY <1>0, Numbers
    <3>2. asked \in Nat
      BY <1>0, Numbers
    <3>3. QED BY <1>0, <1>1, <2>1, <3>1, <3>2 DEF Requests
  <2>6. Frontends'
    BY <1>1, <2>1 DEF Frontends
  <2>7. Answers'
    BY <1>0, <1>1, <2>1 DEF Answers, Done
  <2>8. QED BY <2>3, <2>4, <2>5, <2>6, <2>7 DEF TitleInv
<1>6. CASE /\ pc' = "waits" /\ then' = "browses"
           /\ shell' = {} \/ shell' = {[image |-> "eboot", args |-> Mode("game")]}
  <2>1. UNCHANGED <<request, told>> /\ Asking'
    BY <1>1, <1>6 DEF EsDeLaunches, Asking
  <2>2. \A next \in shell' : next.image = "eboot" /\ next.args.mode = "game"
    BY <1>3, <1>6
  <2>3. Types' /\ TestEnds'
    BY <1>0, <1>1, <1>3, <1>4, <1>6, <2>1 DEF Types, TypeOK, TestEnds
  <2>4. Places'
    BY <1>0, <1>1, <1>6, <2>2 DEF Places
  <2>5. Requests'
    BY <1>0, <1>1, <1>6, <2>1 DEF Requests, Arriving
  <2>6. Frontends'
    BY <1>0, <1>1, <1>6, <2>1, <2>2 DEF Frontends
  <2>7. Answers'
    BY <1>0, <1>1, <2>1 DEF Answers, Done, OnItsWay
  <2>8. QED BY <2>3, <2>4, <2>5, <2>6, <2>7 DEF TitleInv
<1>7. QED BY <1>2, <1>5, <1>6 DEF Handed

-----------------------------------------------------------------------------
(* The theorems.                                                             *)

\* At the start nothing runs, nothing was asked for and no file is there.
LEMMA TitleInit == Init => TitleInv
<1> SUFFICES ASSUME Init PROVE TitleInv
  OBVIOUS
<1>0. /\ image = None /\ shell = {} /\ game = 0 /\ request = 0 /\ result = 0 /\ asked = 0
      /\ told = {} /\ answered = {} /\ cut = {} /\ arm = 0 /\ armed = Itself /\ lines = 0 /\ restarts = 0
      /\ choice \in {"ask", "es-de"}
  BY Zenon DEF Init
<1>1. Types
  <2>1. PICK b \in Builds : picker = b.picker /\ esde = b.esde
    BY DEF Init
  <2>2. picker \in BOOLEAN /\ esde \in BOOLEAN
    BY <2>1, TitleAssumption
  <2>3. budget \in [Events -> Nat] /\ budget["ask"] <= MaxAsks /\ budget["ask"] \in Nat /\ MaxAsks \in Nat /\ MaxArm \in Nat
    BY TitleAssumption DEF Init, Events
  <2>4. TypeOK
    <3>1. image \in Images /\ args \in Arguments
      BY ArgumentsAre DEF Init, Images
    <3>2. game = 0 /\ request = 0 /\ result = 0 /\ asked = 0 /\ told \cup answered \cup cut = {}
      BY DEF Init
    <3>3. choice \in {"ask", "retroarch", "es-de"} /\ arm \in 0..MaxArm
      BY <1>0, <2>3
    <3>4. testRun \in BOOLEAN /\ pickerTest \in BOOLEAN /\ payload \in BOOLEAN
      BY DEF Init
    <3>5. QED BY <2>2, <3>1, <3>2, <3>3, <3>4 DEF TypeOK
  <2>5. ran \in [Asks -> Nat] /\ lines \in Nat /\ restarts \in Nat
    BY DEF Init
  <2>6. QED BY <1>0, <2>3, <2>4, <2>5 DEF Types
<1>2. Places
  BY ArgumentsAre DEF Init, Places, None
<1>3. Requests
  <2>1. \A n \in Asks : n \in Nat /\ n > 0 /\ n # 0
    BY TitleAssumption DEF Asks
  <2>2. \A n \in Asks : ran[n] = 0
    BY DEF Init
  <2>3. request = 0 /\ result = 0 /\ asked = 0 /\ game = 0 /\ answered = {} /\ told = {}
    BY DEF Init
  <2>4. QED BY <2>1, <2>2, <2>3 DEF Requests
<1>4. Frontends /\ TestEnds
  BY <1>0 DEF Frontends, TestEnds, None
<1>5. Answers
  <2>1. \A n \in Asks : n \in Nat /\ n > 0
    BY TitleAssumption DEF Asks
  <2>2. QED BY <1>0, <2>1 DEF Answers
<1>6. QED BY <1>1, <1>2, <1>3, <1>4, <1>5 DEF TitleInv

\* No step of the title, the home screen, the shell or the user breaks the invariant.
LEMMA TitleNext == TitleInv /\ [Next]_vars => TitleInv'
<1> SUFFICES ASSUME TitleInv, [Next]_vars PROVE TitleInv'
  OBVIOUS
<1>1. CASE Home \/ Kill \/ Remember \/ DaemonInstalls \/ ArmTest \/ TileStarts \/ TileSends
  BY <1>1, HomeKeeps, KillKeeps, RememberKeeps, DaemonInstallsKeeps, ArmTestKeeps, TileStartsKeeps, TileSendsKeeps
<1>2. CASE PickerStarts \/ PickerCloses \/ PickerChooses
  BY <1>2, RunsKeep, ClosesKeep, PickerChoosesKeeps
<1>3. CASE EsDeStarts \/ EsDeAsks \/ EsDeLaunches \/ EsDeQuits
  BY <1>3, EsDeStartsKeeps, EsDeAsksKeeps, EsDeLaunchesKeeps, EsDeQuitsKeeps
<1>4. CASE Quit \/ Eboot
  BY <1>4, QuitKeeps, RelaunchTestKeeps, DispatchKeeps, TakeGameKeeps, CheckGameKeeps, LeavesKeep,
     RunsKeep, ClosesKeep DEF Eboot
<1>5. CASE Console
  BY <1>5, ReplaceKeeps, GiveUpKeeps, PayloadKeeps DEF Console
<1>6. CASE UNCHANGED vars
  <2>1. Types' /\ TestEnds'
    BY <1>6 DEF TitleInv, Types, TypeOK, TestEnds, vars
  <2>2. UNCHANGED <<process, request, result, asked, ran, told, answered, cut>>
    BY <1>6 DEF vars, process
  <2>3. QED BY <2>1, <2>2, OthersKeep
<1>7. QED BY <1>1, <1>2, <1>3, <1>4, <1>5, <1>6 DEF Next

\* The invariant holds of every state of the title.
THEOREM TitleSafe == Spec => []TitleInv
<1>1. QED BY TitleInit, TitleNext, PTL DEF Spec

\* A game a frontend asked for runs once, the last one asked, whatever is refused, late, killed or
\* restarted on the way, and when the frontend is back in its user's hands each has come back to
\* it, unless its answer is one of those lost (ps5_game_launch, frontend_mode_ps5.cpp).
THEOREM GamesAreRunOnce == Spec => []GamesRunOnce
<1>1. TitleInv => GamesRunOnce
  <2> SUFFICES ASSUME TitleInv PROVE GamesRunOnce
    OBVIOUS
  <2>0. Types /\ Places /\ Requests /\ Frontends /\ Answers
    BY DEF TitleInv
  <2>1. RunsWhatWasAsked
    BY <2>0 DEF RunsWhatWasAsked, Requests
  <2>2. EveryAskAnswered
    <3> SUFFICES ASSUME At("esde", "browses"), NEW n \in 1..asked PROVE n \in Done
      BY DEF EveryAskAnswered, Done
    <3>1. n \in Asks /\ n <= asked /\ asked > 0
      <4>1. asked \in Nat /\ asked <= MaxAsks /\ MaxAsks \in Nat
        BY <2>0, Numbers, TitleAssumption
      <4>2. QED BY <4>1 DEF Asks
    <3>2. result = 0 /\ ~OnItsWay
      BY <2>0 DEF At, Frontends, OnItsWay, Asking, Arriving
    <3>3. QED BY <2>0, <3>1, <3>2, Numbers DEF Answers
  <2>3. QED BY <2>0, <2>1, <2>2 DEF GamesRunOnce, Types
<1>2. QED BY <1>1, TitleSafe, PTL

\* No game comes back to its frontend twice: once for its result, and never when it was told that
\* it did not start (ps5_game_take_result).
THEOREM AnswersComeOnce == Spec => AnsweredOnce
<1>1. TitleInv /\ [Next]_vars => [EsDeStarts /\ result # 0 => result \notin answered \cup told]_vars
  BY DEF TitleInv, Requests
<1>2. QED BY <1>1, TitleSafe, PTL DEF Spec, AnsweredOnce

\* The relaunch test restarts the title no more often than it recorded and was armed for, even
\* when a restart's record cannot be written (run_test, relaunch_ps5.cpp).
THEOREM TestsEnd == Spec => []TestEnds
<1>1. TitleInv => TestEnds
  BY DEF TitleInv
<1>2. QED BY <1>1, TitleSafe, PTL

-----------------------------------------------------------------------------
(* The display's two buffers, for any number of pictures, frames and refused   *)
(* calls.                                                                      *)

\* A submitted flip is of the buffer the driver draws into, which it leaves alone until the wait
\* for the vblank ends; that buffer is never the one on the screen, but where that wait failed.
Flips ==
    /\ DOMAIN dispFrames = 0 .. 1 /\ dispBack \in {0, 1} /\ dispScanned \in {0, 1, Disp!Neither}
    /\ dispWaits \in {"idle", "drawn", "vblank"} /\ dispEarly \in BOOLEAN
    /\ dispPending = IF dispWaits = "vblank" THEN dispBack ELSE IF dispEarly THEN 1 - dispBack ELSE Disp!Neither
    /\ dispEarly => dispWaits # "vblank" /\ dispIsOpen
    /\ ~dispEarly => dispBack # dispScanned
    /\ ~dispIsOpen => dispWaits = "idle" /\ dispScanned = Disp!Neither

\* Between the drawing of a frame and its flip, the buffer holds what the frame had to offer.
Offers == (dispWaits # "idle" /\ dispSeen /\ dispOffered # Disp!Nothing) => dispFrames[dispBack] = dispOffered

DispInv == Flips /\ Offers

LEMMA DispInit == Disp!Init => DispInv
  <1> SUFFICES ASSUME Disp!Init PROVE DispInv
    OBVIOUS
  <1>1. dispBack = 0 /\ dispScanned = 2 /\ dispPending = 2 /\ dispWaits = "idle" /\ dispEarly = FALSE /\ dispIsOpen = FALSE
    BY DEF Disp!Init, Disp!Neither
  <1>2. DOMAIN dispFrames = 0 .. 1
    BY DEF Disp!Init
  <1>3. ~dispEarly /\ ~dispIsOpen /\ dispEarly \in BOOLEAN
    BY <1>1
  <1>4. dispPending = IF dispWaits = "vblank" THEN dispBack ELSE IF dispEarly THEN 1 - dispBack ELSE Disp!Neither
    BY <1>1, <1>3 DEF Disp!Neither
  <1>5. Flips
    BY <1>1, <1>2, <1>3, <1>4 DEF Flips, Disp!Neither
  <1> QED
    BY <1>1, <1>5 DEF DispInv, Offers

\* The buffer that goes on the screen is the one the flip was of, and the driver's is the other.
LEMMA VblankKeeps ==
  ASSUME DispInv, Disp!Vblank PROVE DispInv' /\ (dispWaits = "vblank" => dispScanned' = dispBack)
  <1>1. /\ dispScanned' = dispPending /\ dispPending' = Disp!Neither /\ dispEarly' = FALSE
        /\ dispFrames' = dispFrames /\ dispIsOpen' = dispIsOpen /\ dispIsOpen /\ dispBack \in {0, 1}
    BY DEF DispInv, Flips, Disp!Vblank, Disp!Neither, Disp!driver, Disp!bounds, Disp!memory
  <1>2. CASE dispWaits = "vblank"
    <2>1. dispScanned' = dispBack /\ dispWaits' = "idle" /\ dispBack' = 1 - dispBack
      BY <1>1, <1>2 DEF Disp!Vblank, DispInv, Flips
    <2>2. dispBack' \in {0, 1} /\ dispBack' # dispScanned' /\ dispScanned' \in {0, 1, Disp!Neither}
      BY <1>1, <2>1
    <2>3. Flips'
      BY <1>1, <2>1, <2>2 DEF DispInv, Flips
    <2>4. Offers'
      BY <2>1 DEF Offers
    <2> QED
      BY <2>1, <2>3, <2>4 DEF DispInv
  <1>3. CASE dispWaits # "vblank"
    <2>1. dispEarly /\ dispPending = 1 - dispBack
      BY <1>3 DEF Disp!Vblank, DispInv, Flips
    <2>2. dispWaits' = dispWaits /\ dispBack' = dispBack
      BY <1>3 DEF Disp!Vblank
    <2>3. dispBack' \in {0, 1} /\ dispBack' # dispScanned' /\ dispScanned' \in {0, 1, Disp!Neither}
      BY <1>1, <2>1, <2>2
    <2>4. Flips'
      BY <1>1, <1>3, <2>2, <2>3 DEF DispInv, Flips
    <2>5. dispSeen' = dispSeen /\ dispOffered' = dispOffered
      BY DEF Disp!Vblank, Disp!driver
    <2>6. Offers'
      BY <1>1, <2>2, <2>5 DEF DispInv, Offers
    <2> QED
      BY <1>3, <2>4, <2>6 DEF DispInv
  <1> QED
    BY <1>2, <1>3

\* A wait that failed leaves the flip with the display, and the driver with the other buffer.
LEMMA WaitFailsKeeps == ASSUME DispInv, Disp!WaitFails PROVE DispInv'
  <1>1. /\ dispWaits = "vblank" /\ dispWaits' = "idle" /\ dispBack' = 1 - dispBack /\ dispEarly' = TRUE
        /\ UNCHANGED <<dispFrames, dispPending, dispScanned, dispIsOpen>>
    BY DEF Disp!WaitFails, Disp!memory
  <1>2. dispBack \in {0, 1} /\ dispPending = dispBack /\ dispIsOpen
    BY <1>1 DEF DispInv, Flips
  <1>3. dispBack' \in {0, 1} /\ dispPending' = 1 - dispBack'
    BY <1>1, <1>2
  <1>4. Flips'
    BY <1>1, <1>2, <1>3 DEF DispInv, Flips
  <1>5. Offers'
    BY <1>1 DEF Offers
  <1> QED
    BY <1>4, <1>5 DEF DispInv

\* What a frame draws is what it offers, once the menu has been seen.
LEMMA DrawKeeps == ASSUME DispInv, NEW n \in 0 .. ScreenPictures, Disp!Draw(n) PROVE DispInv'
  <1> DEFINE core == IF n = 0 THEN Disp!Nothing ELSE Disp!Picture("core", n)
  <1>1. /\ dispSeen' = (dispSeen \/ dispHave) /\ dispOffered' = Disp!Source(core)
        /\ dispFrames' = [dispFrames EXCEPT ![dispBack] = Disp!Paints(core, dispSeen')]
        /\ dispWaits = "idle" /\ dispWaits' = "drawn" /\ dispEarly' = dispEarly
        /\ dispBack' = dispBack /\ dispPending' = dispPending /\ dispScanned' = dispScanned
        /\ dispIsOpen /\ dispIsOpen'
    BY DEF Disp!Draw, Disp!memory
  <1>2. DOMAIN dispFrames' = 0 .. 1 /\ dispFrames'[dispBack] = Disp!Paints(core, dispSeen')
    BY <1>1 DEF DispInv, Flips
  <1>3. Flips'
    BY <1>1, <1>2 DEF DispInv, Flips
  <1>4. (dispSeen' /\ dispOffered' # Disp!Nothing) => Disp!Paints(core, dispSeen') = dispOffered'
    BY <1>1 DEF Disp!Paints, Disp!Painted
  <1>5. Offers'
    BY <1>1, <1>2, <1>4 DEF Offers
  <1> QED
    BY <1>3, <1>5 DEF DispInv

\* The invariant holds after each step.
LEMMA DispStep == ASSUME DispInv, Disp!Next PROVE DispInv'
  <1>1. ASSUME NEW r \in {"handle", "physical", "mapping"}, Disp!Take(r) PROVE DispInv'
    BY <1>1 DEF Disp!Take, DispInv, Flips, Offers, Disp!flips, Disp!driver
  <1>2. CASE Disp!OpenFails
    BY <1>2 DEF Disp!OpenFails, DispInv, Flips, Offers, Disp!flips, Disp!driver
  <1>3. CASE Disp!Register
    <2>1. dispBack' = 0 /\ dispIsOpen' = TRUE /\ ~dispIsOpen /\ UNCHANGED <<dispFrames, dispPending, dispScanned, dispWaits, dispEarly>>
      BY <1>3 DEF Disp!Register
    <2>2. dispWaits = "idle" /\ dispScanned = 2 /\ ~dispEarly
      BY <2>1 DEF DispInv, Flips, Disp!Neither
    <2> QED
      BY <2>1, <2>2 DEF DispInv, Flips, Offers, Disp!Neither
  <1>4. CASE Disp!Submit
    <2>1. /\ dispWaits = "drawn" /\ dispPending = Disp!Neither /\ dispPending' = dispBack /\ dispWaits' = "vblank"
          /\ dispBack' = dispBack /\ UNCHANGED <<dispIsOpen, dispFrames, dispScanned, dispEarly, dispSeen, dispOffered>>
      BY <1>4 DEF Disp!Submit, Disp!Waits, Disp!memory, Disp!driver
    <2>2. ~dispEarly
      BY <2>1 DEF DispInv, Flips, Disp!Neither
    <2>3. Flips'
      BY <2>1, <2>2 DEF DispInv, Flips
    <2>4. Offers'
      BY <2>1 DEF DispInv, Offers
    <2> QED
      BY <2>3, <2>4 DEF DispInv
  <1>5. CASE Disp!SubmitFails
    BY <1>5 DEF Disp!SubmitFails, DispInv, Flips, Offers, Disp!memory, Disp!driver
  <1>6. CASE Disp!Vblank \/ Disp!WaitFails
    BY <1>6, VblankKeeps, WaitFailsKeeps
  <1>7. ASSUME NEW n \in 0 .. ScreenPictures, Disp!SetTextureFrame(n) PROVE DispInv'
    BY <1>7 DEF Disp!SetTextureFrame, DispInv, Flips, Offers, Disp!memory, Disp!flips
  <1>8. ASSUME NEW n \in 0 .. ScreenPictures, Disp!Draw(n) PROVE DispInv'
    BY <1>8, DrawKeeps
  <1>9. ASSUME NEW enable \in BOOLEAN, Disp!SetTextureEnable(enable) PROVE DispInv'
    BY <1>9 DEF Disp!SetTextureEnable, DispInv, Flips, Offers, Disp!memory, Disp!flips
  <1> QED
    BY <1>1, <1>2, <1>3, <1>4, <1>5, <1>6, <1>7, <1>8, <1>9 DEF Disp!Next

LEMMA DispSafe == MCSpec => [](part = "display" => DispInv)
  <1>1. MCInit => (part = "display" => DispInv)
    BY DispInit DEF MCInit
  <1>2. (part = "display" => DispInv) /\ [MCNext]_MCVars => (part = "display" => DispInv)'
    <2>1. CASE UNCHANGED MCVars
      BY <2>1 DEF MCVars, DispVars, DispInv, Flips, Offers
    <2>2. ASSUME MCNext, DispInv, part = "display" PROVE DispInv'
      BY <2>2, DispStep DEF MCNext
    <2>3. MCNext => part' = part
      BY DEF MCNext
    <2> QED
      BY <2>1, <2>2, <2>3
  <1> QED
    BY <1>1, <1>2, PTL DEF MCSpec

\* The driver never draws into a buffer the display is about to show, nor into the one it shows
\* unless a wait for the vblank failed and the display has not taken that flip since; and a flip
\* the display takes puts on the screen the picture the frame had to offer (Display::present,
\* ps5_frame: the menu's newest, else the core's).
ScreenIsTheirs == part = "display" => Disp!NotTorn /\ Disp!NewestShown
THEOREM NeverTorn == MCSpec => [][ScreenIsTheirs]_DispVars
  <1>1. ASSUME part = "display" => DispInv, [MCNext]_MCVars PROVE [ScreenIsTheirs]_DispVars
    <2> SUFFICES ASSUME part = "display", dispFrames' # dispFrames \/ dispScanned' # dispScanned
                 PROVE  Disp!NotTorn /\ Disp!NewestShown
      BY DEF ScreenIsTheirs, Disp!NotTorn, Disp!NewestShown
    <2>1. Disp!Next /\ DispInv
      BY <1>1 DEF MCNext, MCVars, DispVars
    <2>2. ASSUME NEW n \in 0 .. ScreenPictures, Disp!Draw(n) PROVE Disp!NotTorn
      BY <2>1, <2>2 DEF DispInv, Flips, Disp!Draw, Disp!NotTorn, Disp!Neither
    <2>3. ASSUME dispFrames' # dispFrames PROVE \E n \in 0 .. ScreenPictures : Disp!Draw(n)
      BY <2>1, <2>3 DEF Disp!Next, Disp!Take, Disp!OpenFails, Disp!Register, Disp!Submit, Disp!SubmitFails,
         Disp!Vblank, Disp!WaitFails, Disp!SetTextureFrame, Disp!SetTextureEnable, Disp!flips, Disp!driver
    <2>4. ASSUME Disp!Vblank, dispWaits = "vblank" PROVE Disp!NewestShown
      <3>1. /\ dispScanned' = dispBack /\ dispFrames' = dispFrames
            /\ dispBack \in {0, 1}
        BY <2>1, <2>4, VblankKeeps DEF Disp!Vblank, DispInv, Flips
      <3>2. Disp!Screen' = dispFrames[dispBack]
        BY <3>1 DEF Disp!Screen, Disp!Neither
      <3> QED
        BY <2>1, <2>4, <3>1, <3>2 DEF Disp!NewestShown, DispInv, Offers
    <2>5. ASSUME dispScanned' # dispScanned PROVE Disp!Vblank
      BY <2>1, <2>5 DEF Disp!Next, Disp!Take, Disp!OpenFails, Disp!Register, Disp!Submit, Disp!SubmitFails,
         Disp!WaitFails, Disp!Draw, Disp!SetTextureFrame, Disp!SetTextureEnable, Disp!flips
    <2> QED
      BY <2>2, <2>3, <2>4, <2>5 DEF Disp!NotTorn, Disp!NewestShown
  <1> QED
    BY <1>1, DispSafe, PTL DEF MCSpec

-----------------------------------------------------------------------------
(* The test of the display's modes, for any number of modes, frames, armings   *)
(* and deaths.                                                                 *)

Base == Test!Of({"instance", "device", "pool"}, 0)
Old == {<<"chain", testChain>>, <<"surface", testSurface>>}
TestPlaces ==
    testArmed \in BOOLEAN /\ testPassed \in BOOLEAN /\ testPc \in {"off", "setup", "mode", "down", "last"}
TestCounts ==
    /\ testStep \in 0 .. 7 + TestFrames
    /\ testChain \in 0 .. TestModes + 1 /\ testSurface \in 0 .. TestModes + 1
    /\ testStarts \in Nat /\ testArms \in Nat

\* A start spends the arming it was for.
ArmsLast == testStarts + (IF testArmed THEN 1 ELSE 0) <= testArms

\* While the modes are presented all that were are, and what lives is what tear_down knows of,
\* but for what the mode under way made.
Begun == testPc = "setup" => testResults = <<>> /\ testShown = <<>> /\ testStep = 0 /\ ~testPassed
MadeSoFar ==
    testPc = "mode" =>
      /\ testPassed /\ testResults \in Seq({"ok"}) /\ testShown \in Seq(Nat)
      /\ testOrder \in Seq(1 .. TestModes) /\ testOrder # <<>>
Shows ==
    testPc = "mode" =>
      /\ Len(testOrder) + Len(testResults) > 1
      /\ Len(testShown) = TestFrames * Len(testResults) + (IF testStep > 7 THEN testStep - 7 ELSE 0)
Lives ==
    testPc = "mode" =>
      testObjects \subseteq Base \cup Old \cup
         (IF testStep = 1 THEN {<<"surface", Test!This>>}
          ELSE IF testStep = 0 THEN {} ELSE Test!Of(Test!Scratch, Test!This))
Earned ==
    testPc \in {"down", "last"} /\ testPassed =>
      /\ testOrder = <<>> /\ testResults \in Seq({"ok"}) /\ Len(testResults) > 1
      /\ Len(testShown) = TestFrames * Len(testResults)
      /\ testObjects \subseteq (IF testPc = "last" THEN {} ELSE Base \cup Old)

TestInv == TestPlaces /\ TestCounts /\ ArmsLast /\ Begun /\ MadeSoFar /\ Shows /\ Lives /\ Earned

LEMMA TestBounds == TestModes \in Nat /\ TestFrames \in Nat
  BY TestAssumption DEF Test!DisplayModesAssumption

LEMMA FunctionIsSeq == ASSUME NEW S, NEW n \in Nat, NEW f \in [1 .. n -> S] PROVE f \in Seq(S) /\ Len(f) = n
  <1>1. f \in Seq(S)
    BY SeqDef
  <1>2. DOMAIN f = 1 .. Len(f) /\ Len(f) \in Nat /\ DOMAIN f = 1 .. n
    BY <1>1, LenProperties
  <1> QED
    BY <1>1, <1>2

Kinds == {"surface", "chain", "buffer", "memory", "acquired", "copied", "done", "frame"}

LEMMA MakesAre ==
  /\ Len(Test!Makes) = 7 /\ Len(Test!Parts) = 7 + TestFrames
  /\ Test!Makes[1] = "surface" /\ Test!Makes[2] = "chain"
  /\ \A i \in 3 .. 7 : Test!Makes[i] \in Test!Scratch /\ Test!Makes[i] # "chain"
  <1>1. Len(Test!Makes) = 7 /\ Test!Makes[1] = "surface" /\ Test!Makes[2] = "chain"
    BY DEF Test!Makes
  <1>2. Test!Makes \in Seq(Kinds)
    <2>1. ASSUME NEW S, NEW a \in S, NEW b \in S, NEW c \in S, NEW d \in S, NEW e \in S, NEW f \in S,
                 NEW g \in S
          PROVE  <<a, b, c, d, e, f, g>> \in Seq(S)
      OBVIOUS
    <2>2. /\ "surface" \in Kinds /\ "chain" \in Kinds /\ "buffer" \in Kinds /\ "memory" \in Kinds
          /\ "acquired" \in Kinds /\ "copied" \in Kinds /\ "done" \in Kinds
      BY DEF Kinds
    <2> QED
      BY <2>1, <2>2 DEF Test!Makes
  <1>3. \A i \in 3 .. 7 : Test!Makes[i] \in Test!Scratch /\ Test!Makes[i] # "chain"
    <2> SUFFICES ASSUME NEW i \in 3 .. 7 PROVE Test!Makes[i] \in Test!Scratch /\ Test!Makes[i] # "chain"
      OBVIOUS
    <2>1. i \in {3, 4, 5, 6, 7}
      OBVIOUS
    <2> QED
      BY <2>1 DEF Test!Makes, Test!Scratch
  <1>4. Len(Test!Parts) = 7 + TestFrames
    <2> DEFINE more == [f \in 1 .. TestFrames |-> "frame"]
    <2>1. more \in Seq(Kinds) /\ Len(more) = TestFrames
      <3>1. more \in [1 .. TestFrames -> Kinds]
        BY DEF Kinds
      <3> HIDE DEF more
      <3> QED
        BY <3>1, TestBounds, FunctionIsSeq
    <2> HIDE DEF more
    <2>2. Test!Parts = Test!Makes \o more
      BY DEF Test!Parts, more
    <2> QED
      <3>1. Len(Test!Makes \o more) = Len(Test!Makes) + Len(more)
        BY <1>2, <2>1, ConcatProperties
      <3> QED
        BY <1>1, <2>1, <2>2, <3>1
  <1> QED
    BY <1>1, <1>3, <1>4

USE DEF Test!files, Test!test, Test!counts

LEMMA TestInitHolds == ASSUME Test!Init PROVE TestInv
  <1>1. TestPlaces
    BY DEF Test!Init, TestPlaces
  <1>3. TestCounts
    BY TestBounds DEF Test!Init, TestCounts
  <1>4. ArmsLast
    BY DEF Test!Init, ArmsLast
  <1>2. Begun /\ MadeSoFar /\ Shows /\ Lives /\ Earned
    BY DEF Test!Init, Begun, MadeSoFar, Shows, Lives, Earned
  <1> QED
    BY <1>1, <1>2, <1>3, <1>4 DEF TestInv

LEMMA QuietKeeps ==
  ASSUME Test!Quiet, testArmed' \in BOOLEAN, testStarts' \in Nat, testArms' \in Nat, ArmsLast'
  PROVE  TestInv'
  <1>1. TestPlaces' /\ TestCounts'
    <2>1. TestPlaces'
      BY DEF Test!Quiet, TestPlaces
    <2>2. TestCounts'
      BY TestBounds DEF Test!Quiet, TestCounts
    <2> QED
      BY <2>1, <2>2
  <1>2. (Begun /\ MadeSoFar /\ Shows /\ Lives /\ Earned)'
    BY DEF Test!Quiet, Begun, MadeSoFar, Shows, Lives, Earned
  <1> QED
    BY <1>1, <1>2 DEF TestInv

LEMMA SetUpKeeps == ASSUME TestInv, NEW n \in 0 .. TestModes, Test!SetUp(n) PROVE TestInv'
  <1>1. /\ testPc = "setup" /\ testObjects' = Base /\ testPassed' = (n > 0)
        /\ testPc' = (IF n = 0 THEN "down" ELSE "mode")
        /\ UNCHANGED <<testArmed, testResults, testStep, testChain, testSurface, testShown, testArms, testStarts>>
    BY DEF Test!SetUp, Base
  <1>2. TestPlaces' /\ TestCounts' /\ ArmsLast' /\ Begun'
    <2>1. TestPlaces' /\ Begun'
      BY <1>1 DEF TestInv, TestPlaces, Begun
    <2>2. TestCounts'
      BY <1>1 DEF TestInv, TestCounts
    <2>3. ArmsLast'
      BY <1>1 DEF TestInv, ArmsLast
    <2> QED
      BY <2>1, <2>2, <2>3
  <1>3. testResults = <<>> /\ testShown = <<>> /\ testStep = 0
    BY <1>1 DEF TestInv, Begun
  <1>4. CASE n = 0
    <2>1. testPc' = "down"
      BY <1>1, <1>4
    <2>2. ~testPassed'
      <3>1. ~(n > 0)
        BY <1>4
      <3> QED
        BY <1>1, <3>1
    <2> QED
      BY <1>2, <2>1, <2>2 DEF TestInv, MadeSoFar, Shows, Lives, Earned
  <1>5. CASE n # 0
    <2>1. testOrder' = [i \in 1 .. n + 1 |-> IF i > n THEN 1 ELSE i]
      BY <1>5 DEF Test!SetUp
    <2>2. n \in Nat /\ n > 0 /\ n <= TestModes
      BY <1>5, TestBounds
    <2>3. testOrder' \in Seq(1 .. TestModes) /\ Len(testOrder') = n + 1
      BY <2>1, <2>2, TestBounds
    <2>4. MadeSoFar'
      <3>1. testPassed' /\ testResults' \in Seq({"ok"}) /\ testShown' \in Seq(Nat)
        BY <1>1, <1>3, <2>2, EmptySeq
      <3>2. testOrder' # <<>>
        BY <2>2, <2>3, EmptySeq
      <3> QED
        BY <2>3, <3>1, <3>2 DEF MadeSoFar
    <2>6. Shows'
      <3>1. Len(testOrder') + Len(testResults') > 1 /\ Len(testResults') = 0 /\ Len(testShown') = 0
        BY <1>1, <1>3, <2>2, <2>3, EmptySeq
      <3>2. testStep' = 0 /\ TestFrames * 0 = 0
        BY <1>1, <1>3, TestBounds
      <3> QED
        BY <3>1, <3>2 DEF Shows
    <2>5. Lives' /\ Earned'
      BY <1>1, <1>3, <1>5 DEF Lives, Earned
    <2> QED
      BY <1>2, <2>4, <2>5, <2>6 DEF TestInv
  <1> QED
    BY <1>4, <1>5

LEMMA MakeKeeps == ASSUME TestInv, Test!Make PROVE TestInv'
  <1> DEFINE kind == Test!Makes[testStep + 1]
  <1>1. /\ testPc = "mode" /\ testStep < 7 /\ testStep' = testStep + 1
        /\ testObjects' = (IF kind = "chain" THEN testObjects \ Old ELSE testObjects) \cup {<<kind, Test!This>>}
        /\ IF kind = "chain" THEN testChain' = Test!This /\ testSurface' = Test!This
           ELSE UNCHANGED <<testChain, testSurface>>
        /\ UNCHANGED <<testArmed, testResults, testPc, testOrder, testPassed, testShown, testArms, testStarts>>
    BY MakesAre DEF Test!Make, Old, Test!OldGoes
  <1>2. testStep \in Nat /\ testStep + 1 \in 1 .. 7
    BY <1>1, TestBounds DEF TestInv, TestPlaces, TestCounts
  <1>3. Test!This \in 0 .. TestModes + 1
    <2>1. testOrder \in Seq(1 .. TestModes) /\ testOrder # <<>>
      BY <1>1 DEF TestInv, MadeSoFar
    <2>2. Head(testOrder) \in 1 .. TestModes
      BY <2>1, HeadTailProperties
    <2> QED
      BY <2>2, TestBounds DEF Test!This
  <1>4. Test!This' = Test!This
    BY <1>1 DEF Test!This, Test!Again
  <1>5. TestPlaces' /\ TestCounts' /\ ArmsLast' /\ Begun'
    <2>1. TestPlaces' /\ Begun'
      BY <1>1, <1>2, <1>3, TestBounds DEF TestInv, TestPlaces, Begun
    <2>2. TestCounts'
      BY <1>1, <1>2, <1>3, TestBounds DEF TestInv, TestCounts
    <2>3. ArmsLast'
      BY <1>1, <1>2, <1>3, TestBounds DEF TestInv, ArmsLast
    <2> QED
      BY <2>1, <2>2, <2>3
  <1>6. MadeSoFar' /\ Shows' /\ Earned'
    <2>1. ~(testStep > 7) /\ ~(testStep' > 7)
      BY <1>1, <1>2
    <2> QED
      BY <1>1, <2>1 DEF TestInv, MadeSoFar, Shows, Earned
  <1>7. Lives'
    <2>1. CASE testStep = 0
      BY <1>1, <1>4, <2>1, MakesAre DEF TestInv, Lives, Old
    <2>2. CASE testStep = 1
      <3>1. kind = "chain" /\ testStep' = 2
        BY <1>1, <2>2, MakesAre
      <3>2. testObjects \subseteq Base \cup Old \cup {<<"surface", Test!This>>}
        BY <1>1, <2>2 DEF TestInv, Lives
      <3>3. Old' = {<<"chain", Test!This>>, <<"surface", Test!This>>}
        BY <1>1, <3>1 DEF Old
      <3>4. testObjects' \subseteq Base \cup Old'
        BY <1>1, <3>1, <3>2, <3>3
      <3> QED
        BY <3>1, <3>4 DEF Lives
    <2>3. CASE testStep > 1
      <3>1. kind \in Test!Scratch /\ kind # "chain" /\ testStep' # 1 /\ testStep' # 0
        BY <1>1, <1>2, <2>3, MakesAre
      <3>2. testObjects \subseteq Base \cup Old \cup Test!Of(Test!Scratch, Test!This) /\ Old' = Old
        BY <1>1, <2>3, <3>1 DEF TestInv, Lives, Old
      <3>3. <<kind, Test!This>> \in Test!Of(Test!Scratch, Test!This)
        BY <3>1 DEF Test!Of
      <3> QED
        BY <1>1, <1>4, <3>1, <3>2, <3>3 DEF Lives
    <2> QED
      BY <1>2, <2>1, <2>2, <2>3
  <1> QED
    BY <1>5, <1>6, <1>7 DEF TestInv

LEMMA PresentKeeps == ASSUME TestInv, Test!Present PROVE TestInv'
  <1>1. /\ testPc = "mode" /\ testStep \in 7 .. 6 + TestFrames /\ testStep' = testStep + 1
        /\ testShown' = Append(testShown, Test!This)
        /\ UNCHANGED <<testArmed, testResults, testPc, testOrder, testPassed, testChain, testSurface,
                       testObjects, testArms, testStarts>>
    BY MakesAre, TestBounds DEF Test!Present
  <1>2. Test!This' = Test!This
    BY <1>1 DEF Test!This, Test!Again
  <1>3. TestPlaces' /\ TestCounts' /\ ArmsLast' /\ Begun'
    <2>1. TestPlaces' /\ Begun'
      BY <1>1, TestBounds DEF TestInv, TestPlaces, Begun
    <2>2. TestCounts'
      BY <1>1, TestBounds DEF TestInv, TestCounts
    <2>3. ArmsLast'
      BY <1>1, TestBounds DEF TestInv, ArmsLast
    <2> QED
      BY <2>1, <2>2, <2>3
  <1>4. Test!This \in Nat
    <2>1. testOrder \in Seq(1 .. TestModes) /\ testOrder # <<>>
      BY <1>1 DEF TestInv, MadeSoFar
    <2>2. Head(testOrder) \in 1 .. TestModes
      BY <2>1, HeadTailProperties
    <2> QED
      BY <2>2, TestBounds DEF Test!This
  <1>5. MadeSoFar' /\ Shows'
    <2>1. testShown' \in Seq(Nat) /\ Len(testShown') = Len(testShown) + 1
      BY <1>1, <1>4, AppendProperties DEF TestInv, MadeSoFar
    <2>2. /\ (IF testStep > 7 THEN testStep - 7 ELSE 0) = testStep - 7
          /\ (IF testStep' > 7 THEN testStep' - 7 ELSE 0) = testStep - 6
      BY <1>1, TestBounds
    <2> DEFINE all == TestFrames * Len(testResults)
    <2>3. all \in Nat /\ Len(testShown) = all + (testStep - 7)
      <3>1. Len(testResults) \in Nat
        BY <1>1, LenProperties DEF TestInv, MadeSoFar
      <3>2. Len(testShown) = all + (IF testStep > 7 THEN testStep - 7 ELSE 0)
        BY <1>1 DEF TestInv, Shows
      <3> QED
        BY <2>2, <3>1, <3>2, TestBounds
    <2> HIDE DEF all
    <2>4. Len(testShown') = all + (testStep - 6)
      BY <1>1, <2>1, <2>3, TestBounds
    <2>5. MadeSoFar'
      BY <1>1, <2>1 DEF TestInv, MadeSoFar
    <2>6. Len(testOrder') + Len(testResults') > 1
      BY <1>1 DEF TestInv, Shows
    <2>7. Len(testShown') = TestFrames * Len(testResults') + (IF testStep' > 7 THEN testStep' - 7 ELSE 0)
      BY <1>1, <2>2, <2>4 DEF all
    <2> QED
      BY <2>5, <2>6, <2>7 DEF Shows
  <1>6. Lives' /\ Earned'
    <2>1. testStep # 1 /\ testStep # 0 /\ testStep' # 1 /\ testStep' # 0
      BY <1>1, TestBounds
    <2> QED
      BY <1>1, <1>2, <2>1 DEF TestInv, Lives, Earned, Old
  <1> QED
    BY <1>3, <1>5, <1>6 DEF TestInv

LEMMA ModeEndsKeeps == ASSUME TestInv, Test!ModeEnds PROVE TestInv'
  <1>1. /\ testPc = "mode" /\ testStep = 7 + TestFrames /\ testStep' = 0
        /\ testObjects' = testObjects \ Test!Of(Test!Scratch, Test!This)
        /\ testResults' = Append(testResults, "ok") /\ testOrder' = Tail(testOrder)
        /\ testPc' = (IF Len(testOrder) = 1 THEN "down" ELSE "mode")
        /\ UNCHANGED <<testArmed, testPassed, testChain, testSurface, testShown, testArms, testStarts>>
    BY MakesAre DEF Test!ModeEnds
  <1>2. /\ testPassed /\ testResults \in Seq({"ok"}) /\ testShown \in Seq(Nat)
        /\ testOrder \in Seq(1 .. TestModes) /\ testOrder # <<>>
        /\ Len(testOrder) + Len(testResults) > 1
        /\ Len(testShown) = TestFrames * Len(testResults) + (IF testStep > 7 THEN testStep - 7 ELSE 0)
    BY <1>1 DEF TestInv, MadeSoFar, Shows
  <1>3. TestPlaces' /\ TestCounts' /\ ArmsLast' /\ Begun'
    <2>1. TestPlaces' /\ Begun'
      BY <1>1, TestBounds DEF TestInv, TestPlaces, Begun
    <2>2. TestCounts'
      BY <1>1, TestBounds DEF TestInv, TestCounts
    <2>3. ArmsLast'
      BY <1>1, TestBounds DEF TestInv, ArmsLast
    <2> QED
      BY <2>1, <2>2, <2>3
  <1>4. /\ testResults' \in Seq({"ok"}) /\ Len(testResults') = Len(testResults) + 1
        /\ testOrder' \in Seq(1 .. TestModes) /\ Len(testOrder') = Len(testOrder) - 1 /\ Len(testOrder) > 0
        /\ Len(testOrder) # 1 => testOrder' # <<>>
        /\ Len(testOrder) = 1 => testOrder' = <<>>
    <2>1. testResults' \in Seq({"ok"}) /\ Len(testResults') = Len(testResults) + 1
      BY <1>1, <1>2, AppendProperties
    <2>2. /\ testOrder' \in Seq(1 .. TestModes) /\ Len(testOrder') = Len(testOrder) - 1
      BY <1>1, <1>2, HeadTailProperties
    <2>3. Len(testOrder) \in Nat \ {0}
      BY <1>2, EmptySeq
    <2>4. Len(testOrder) # 1 => testOrder' # <<>>
      BY <2>2, <2>3, EmptySeq
    <2>5. Len(testOrder) = 1 => testOrder' = <<>>
      BY <2>2, <2>3, EmptySeq
    <2> QED
      BY <2>1, <2>2, <2>3, <2>4, <2>5
  <1>5. Len(testShown') = TestFrames * Len(testResults')
    <2> DEFINE n == Len(testResults)
    <2>1. n \in Nat /\ Len(testResults') = n + 1
      BY <1>2, <1>4
    <2>2. Len(testShown') = TestFrames * n + TestFrames
      <3>1. (IF testStep > 7 THEN testStep - 7 ELSE 0) = TestFrames
        BY <1>1, TestBounds
      <3> QED
        BY <1>1, <1>2, <3>1
    <2> HIDE DEF n
    <2>3. TestFrames * (n + 1) = TestFrames * n + TestFrames
      BY <2>1, TestBounds
    <2> QED
      BY <2>1, <2>2, <2>3
  <1>6. Len(testOrder') + Len(testResults') > 1
    BY <1>2, <1>4
  <1>7. MadeSoFar' /\ Shows'
    <2>1. testPc' = "mode" => testOrder' # <<>>
      BY <1>1, <1>4
    <2>2. MadeSoFar'
      BY <1>1, <1>2, <1>4, <2>1 DEF MadeSoFar
    <2>3. Len(testShown') = TestFrames * Len(testResults') + (IF testStep' > 7 THEN testStep' - 7 ELSE 0)
      <3> DEFINE all == TestFrames * Len(testResults')
      <3>1. all \in Nat
        BY <1>4, TestBounds, LenProperties
      <3>2. Len(testShown') = all /\ testStep' = 0
        BY <1>1, <1>5
      <3> HIDE DEF all
      <3>3. Len(testShown') = all + (IF testStep' > 7 THEN testStep' - 7 ELSE 0)
        BY <3>1, <3>2
      <3> QED
        BY <3>3 DEF all
    <2> QED
      BY <1>6, <2>2, <2>3 DEF Shows
  <1>8. testObjects' \subseteq Base \cup Old'
    <2>1. testStep # 1 /\ testStep # 0
      BY <1>1, TestBounds
    <2>2. testObjects \subseteq Base \cup Old \cup Test!Of(Test!Scratch, Test!This) /\ Old' = Old
      BY <1>1, <2>1 DEF TestInv, Lives, Old
    <2> QED
      BY <1>1, <2>2
  <1>9. Lives'
    BY <1>1, <1>8 DEF Lives
  <1>10. Earned'
    <2>1. testPc' = "down" => Len(testOrder) = 1 /\ testOrder' = <<>> /\ Len(testResults') > 1
      BY <1>1, <1>2, <1>4
    <2> QED
      BY <1>1, <1>4, <1>5, <1>8, <2>1 DEF Earned
  <1> QED
    BY <1>3, <1>7, <1>9, <1>10 DEF TestInv

LEMMA TestStep == ASSUME TestInv, Test!Next PROVE TestInv'
  <1>1. CASE Test!Arm
    BY <1>1 DEF Test!Arm, TestInv, TestPlaces, TestCounts, ArmsLast, Begun, MadeSoFar, Shows, Lives, Earned
  <1>2. CASE Test!Start
    <2>1. TestPlaces'
      BY <1>2 DEF Test!Start, Test!Disarms, TestInv, TestPlaces
    <2>3. TestCounts' /\ ArmsLast'
      BY <1>2, TestBounds DEF Test!Start, Test!Disarms, TestInv, TestCounts, ArmsLast
    <2>2. (Begun /\ MadeSoFar /\ Shows /\ Lives /\ Earned)'
      BY <1>2 DEF Test!Start, Begun, MadeSoFar, Shows, Lives, Earned
    <2> QED
      BY <2>1, <2>2, <2>3 DEF TestInv
  <1>3. ASSUME NEW kinds, Test!SetUpFails(kinds) PROVE TestInv'
    BY <1>3 DEF Test!SetUpFails, TestInv, TestPlaces, TestCounts, ArmsLast, Begun, MadeSoFar, Shows, Lives, Earned
  <1>4. CASE Test!ModeFails
    BY <1>4 DEF Test!ModeFails, Test!PassedAfterFailure, TestInv, TestPlaces, TestCounts, ArmsLast, Begun, MadeSoFar, Shows, Lives, Earned
  <1>5. CASE Test!TearDown
    <2>1. testPassed => testObjects' = {}
      BY <1>5 DEF Test!TearDown, TestInv, Earned, Base, Old
    <2> QED
      BY <1>5, <2>1 DEF Test!TearDown, TestInv, TestPlaces, TestCounts, ArmsLast, Begun, MadeSoFar, Shows, Lives, Earned
  <1>6. CASE Test!Result
    BY <1>6, QuietKeeps DEF Test!Result, TestInv, TestPlaces, TestCounts, ArmsLast
  <1>7. CASE Test!Die
    BY <1>7, QuietKeeps DEF Test!Die, TestInv, TestPlaces, TestCounts, ArmsLast
  <1> QED
    BY <1>1, <1>2, <1>3, <1>4, <1>5, <1>6, <1>7, MakeKeeps, PresentKeeps, ModeEndsKeeps, SetUpKeeps DEF Test!Next

LEMMA TestSays == ASSUME TestInv PROVE Test!TypeOK /\ Test!StartsAreArmed /\ Test!PassIsEarned
  <1>1. Test!TypeOK
    BY MakesAre DEF TestInv, TestPlaces, TestCounts, Test!TypeOK
  <1>2. Test!StartsAreArmed
    BY DEF TestInv, TestPlaces, TestCounts, ArmsLast, Test!StartsAreArmed
  <1>3. ASSUME testResults \in Seq({"ok"}) PROVE {"error", "setup"} \cap Test!Range(testResults) = {}
    <2>1. \A i \in DOMAIN testResults : testResults[i] = "ok"
      BY <1>3
    <2> QED
      BY <2>1 DEF Test!Range
  <1>4. Test!PassIsEarned
    <2>1. testPc \in {"down", "last"} /\ testPassed =>
            /\ testOrder = <<>> /\ Len(testShown) = TestFrames * Len(testResults) /\ Len(testResults) > 1
            /\ {"error", "setup"} \cap Test!Range(testResults) = {}
      BY <1>3 DEF TestInv, Earned
    <2>2. testPc = "last" /\ testPassed => testObjects = {}
      BY DEF TestInv, Earned
    <2> QED
      BY <2>1, <2>2 DEF Test!PassIsEarned
  <1> QED
    BY <1>1, <1>2, <1>4

LEMMA ModesSafe == MCSpec => [](part = "modes" => TestInv)
  <1>1. MCInit => (part = "modes" => TestInv)
    BY TestInitHolds DEF MCInit
  <1>2. (part = "modes" => TestInv) /\ [MCNext]_MCVars => (part = "modes" => TestInv)'
    <2>1. ASSUME UNCHANGED MCVars, TestInv PROVE TestInv'
      <3>1. UNCHANGED TestVars
        BY <2>1 DEF MCVars
      <3>2. UNCHANGED <<testArmed, testResults, testPc, testOrder, testStep, testChain, testSurface,
                        testObjects, testPassed, testShown, testArms, testStarts>>
        BY <3>1 DEF TestVars
      <3>3. Test!This' = Test!This
        BY <3>2 DEF Test!This, Test!Again
      <3> QED
        BY <2>1, <3>2, <3>3 DEF TestInv, TestPlaces, TestCounts, ArmsLast, Begun, MadeSoFar, Shows, Lives, Earned, Old
    <2>2. ASSUME MCNext, TestInv, part = "modes" PROVE TestInv'
      BY <2>2, TestStep DEF MCNext
    <2>3. MCNext => part' = part
      BY DEF MCNext
    <2>4. UNCHANGED MCVars => part' = part
      BY DEF MCVars
    <2> QED
      BY <2>1, <2>2, <2>3, <2>4
  <1> QED
    BY <1>1, <1>2, PTL DEF MCSpec

-----------------------------------------------------------------------------
(* The cores' code and their threads, for any number of each.                  *)

CoreStates == {"none", "asked", "born", "run", "destructors", "keys", "made", "gone"}
CoreCallers == {"main"} \cup CoreThreads
CoreRequests == [by : CoreCallers, thread : CoreCallers, pending : BOOLEAN, done : BOOLEAN,
                 result : CoreCallers \cup {"none", "EAGAIN"}]
CorePlaces ==
    /\ coresPc \in {"idle", "initializers", "wait", "settle", "finalizers"}
    /\ coresThread \in [CoreThreads -> CoreStates] /\ coresCounts \in [CoreThreads -> BOOLEAN]
    /\ coresMaker \in {"none", "factory", "caller"}
CoreNumbers ==
    /\ coresModules \in [CorePaths -> [image : 0 .. CoreLoads, references : Nat]]
    /\ coresLoads \in 0 .. CoreLoads /\ coresMapped \subseteq 1 .. coresLoads
    /\ coresImage \in [CoreThreads -> 0 .. CoreLoads] /\ coresTries \in 0 .. CoreRetries

\* One call of pthread_create at a time is on its way: asked for, being made, or made; its caller
\* runs a core's code and waits, and the thread asked for is of code that is mapped.
Asked == /\ coresThread[coresRequest.thread] = "asked" /\ coresImage[coresRequest.thread] \in coresMapped
         /\ ~coresRequest.done /\ (coresRequest.pending <=> coresMaker = "none")
Answered == /\ coresThread[coresRequest.thread] \notin {"none", "asked"}
            /\ coresRequest.result = coresRequest.thread \/ coresRequest.result = "EAGAIN"
            /\ coresRequest.done /\ ~coresRequest.pending /\ coresMaker = "none"
Waiting ==
    /\ coresCallers = {coresRequest.by} /\ coresRequest.by \in CoreThreads \cup {"main"}
    /\ coresRequest.thread \in CoreThreads
    /\ IF coresRequest.by = "main" THEN coresPc \in {"idle", "initializers"} ELSE coresThread[coresRequest.by] = "run"
Calls ==
    \/ coresCallers = {} /\ ~coresRequest.pending /\ coresMaker = "none"
    \/ Waiting /\ (Asked \/ Answered)
OneAsked ==
    \A t \in CoreThreads : coresThread[t] = "asked" => coresCallers # {} /\ ~coresRequest.done /\ t = coresRequest.thread

\* An open core's image is mapped, and no other core's; so is the one being loaded or closed.
CoreImages ==
    /\ \A p \in CorePaths : coresModules[p].image # 0 => coresModules[p].image \in coresMapped
    /\ \A p, q \in CorePaths : p # q /\ coresModules[p].image # 0 => coresModules[p].image # coresModules[q].image
    /\ coresPc # "idle" => coresClosing \in coresMapped /\ \A p \in CorePaths : coresModules[p].image # coresClosing

\* Where the memory is to go, no thread is left to run it and none is on its way.
Settles ==
    coresPc = "settle" \/ (coresPc = "finalizers" /\ coresSeen = 0) => coresLive = 0 /\ coresCallers = {}

Working == {t \in CoreThreads : Cores!Unfinished(t)}
CodeThere ==
    \A t \in CoreThreads :
        (coresThread[t] \in {"born", "run"} \/ (coresThread[t] = "destructors" /\ coresCounts[t]))
            => coresImage[t] \in coresMapped
LiveCounts == coresLive = Cardinality(Working)

CoresInv ==
    /\ coresRequest \in CoreRequests
    /\ CorePlaces /\ CoreNumbers /\ Calls /\ OneAsked /\ CoreImages /\ Settles /\ CodeThere /\ LiveCounts

\* The threads there may be are finite in number.
LEMMA SameSets == \A S : (Cores!IsFiniteSet(S) <=> IsFiniteSet(S)) /\ Cores!Cardinality(S) = Cardinality(S)
  <1>1. \A S : Cores!IsFiniteSet(S) <=> IsFiniteSet(S)
    BY DEF Cores!IsFiniteSet, IsFiniteSet
  <1>2. \A S : Cores!Cardinality(S) = Cardinality(S)
    BY DEF Cores!Cardinality, Cardinality
  <1> QED
    BY <1>1, <1>2

LEMMA CoresAre ==
  /\ CoreLoads \in Nat /\ CoreRetries \in Nat /\ IsFiniteSet(CoreThreads) /\ "main" \notin CoreThreads
  <1>1. /\ {CoreLoads, CoreCapacity, CoreRetries, CoreRefused} \subseteq Nat
        /\ IsFiniteSet(CoreThreads) /\ "main" \notin CoreThreads
    BY CoresAssumption, SameSets DEF Cores!CoresAssumption
  <1> QED
    BY <1>1

LEMMA WorkingIs == ASSUME NEW U \in SUBSET CoreThreads
  PROVE /\ Cardinality(U) \in Nat /\ Cardinality(U) <= Cardinality(CoreThreads)
        /\ Cardinality(U) = 0 <=> U = {}
        /\ \A t : t \notin U => Cardinality(U \cup {t}) = Cardinality(U) + 1
        /\ \A t \in U : Cardinality(U \ {t}) = Cardinality(U) - 1
  <1>1. IsFiniteSet(U) /\ Cardinality(U) <= Cardinality(CoreThreads)
    BY CoresAre, FS_Subset
  <1> QED
    BY <1>1, FS_EmptySet, FS_AddElement, FS_RemoveElement, FS_CardinalityType

\* Which threads count as running a core's code.
LEMMA WhoWorks ==
  /\ \A t : t \in Working <=>
        /\ t \in CoreThreads
        /\ \/ coresThread[t] \in {"born", "run"} \/ (coresThread[t] = "destructors" /\ coresCounts[t])
           \/ coresThread[t] = "asked" /\ coresMaker # "none" /\ coresRequest.thread = t
  /\ Working \in SUBSET CoreThreads
  BY DEF Working, Cores!Unfinished

\* Where nothing works, nobody is in a call: a caller that is not the main thread runs.
LEMMA NobodyCalls ==
  ASSUME CoresInv, coresLive = 0, coresPc \notin {"idle", "initializers"} \/ "main" \notin coresCallers
  PROVE coresCallers = {} /\ Working = {}
  <1>1. Working = {}
    BY WorkingIs, WhoWorks DEF CoresInv, LiveCounts
  <1>2. ASSUME Waiting PROVE FALSE
    <2>1. coresRequest.by # "main"
      BY <1>2 DEF Waiting
    <2> QED
      BY <1>1, <1>2, <2>1, WhoWorks DEF Waiting
  <1> QED
    BY <1>1, <1>2 DEF CoresInv, Calls

LEMMA Mapped == CoreNumbers => coresMapped \subseteq 0 .. CoreLoads /\ coresLoads + 1 \notin coresMapped
  BY CoresAre DEF CoreNumbers

LEMMA ThreadSet ==
  ASSUME NEW f \in [CoreThreads -> CoreStates], NEW t \in CoreThreads, NEW x \in CoreStates, NEW g, g = [f EXCEPT ![t] = x]
  PROVE g \in [CoreThreads -> CoreStates] /\ g[t] = x /\ \A u \in CoreThreads : u # t => g[u] = f[u]
  OBVIOUS

\* Nothing else than the threads and calls named below changes.
Loader == <<coresModules, coresMapped, coresLoads, coresPc, coresClosing, coresSeen>>

LEMMA NoCall == ASSUME Calls, coresCallers = {} PROVE coresMaker = "none" /\ ~coresRequest.pending
  <1>1. coresRequest.by \in {coresRequest.by}
    OBVIOUS
  <1> QED
    BY <1>1 DEF Calls, Waiting

LEMMA AskKeeps ==
  ASSUME CoresInv, NEW c \in CoreCallers, NEW t \in CoreThreads, Cores!Ask(c, t) PROVE CoresInv'
  <1>1. /\ Cores!RunsCode(c) /\ coresCallers = {} /\ coresThread[t] = "none" /\ coresCallers' = {c}
        /\ coresThread' = [coresThread EXCEPT ![t] = "asked"]
        /\ \E i \in Cores!CodeOf(c) : coresImage' = [coresImage EXCEPT ![t] = i]
        /\ coresRequest' = [coresRequest EXCEPT !.by = c, !.thread = t, !.pending = TRUE, !.done = FALSE]
        /\ UNCHANGED <<coresLive, coresCounts, coresMaker, coresTries>> /\ UNCHANGED Loader
    BY DEF Cores!Ask, Cores!Clean, Cores!loader, Loader
  <1>2. /\ coresRequest' \in CoreRequests /\ coresRequest'.by = c /\ coresRequest'.thread = t
        /\ coresRequest'.pending = TRUE /\ coresRequest'.done = FALSE
    <2>1. coresRequest \in CoreRequests /\ t \in CoreCallers
      BY DEF CoresInv, CoreCallers
    <2>2. coresRequest' = [coresRequest EXCEPT !.by = c, !.thread = t, !.pending = TRUE, !.done = FALSE]
      BY <1>1
    <2> QED
      BY <2>1, <2>2 DEF CoreRequests
  <1>3. /\ coresThread' \in [CoreThreads -> CoreStates] /\ coresThread'[t] = "asked"
        /\ \A u \in CoreThreads : u # t => coresThread'[u] = coresThread[u]
    BY <1>1, ThreadSet DEF CoresInv, CorePlaces, CoreStates
  <1>4. coresMaker = "none" /\ ~coresRequest.pending
    BY <1>1, NoCall DEF CoresInv
  <1>5. \A i \in Cores!CodeOf(c) : i \in coresMapped
    <2>1. ASSUME c # "main" PROVE coresThread[c] = "run" /\ Cores!CodeOf(c) = {coresImage[c]}
      BY <1>1, <2>1 DEF Cores!CodeOf, Cores!RunsCode
    <2>2. CASE c # "main"
      BY <2>1, <2>2 DEF CoresInv, CodeThere, CoreCallers
    <2>3. CASE c = "main" /\ coresPc = "initializers"
      BY <2>3 DEF Cores!CodeOf, CoresInv, CoreImages
    <2>4. CASE c = "main" /\ coresPc = "idle"
      <3>1. Cores!CodeOf(c) = {coresModules[p].image : p \in CorePaths} \ {0}
        BY <2>4 DEF Cores!CodeOf
      <3> QED
        BY <3>1 DEF CoresInv, CoreImages
    <2>5. CASE c = "main" /\ coresPc \notin {"initializers", "idle"}
      BY <2>5 DEF Cores!CodeOf
    <2> QED
      BY <2>2, <2>3, <2>4, <2>5
  <1>6. PICK i \in coresMapped : coresImage' = [coresImage EXCEPT ![t] = i]
    BY <1>1, <1>5
  <1>7. i \in 0 .. CoreLoads
    BY Mapped DEF CoresInv
  <1>8. coresImage'[t] = i /\ \A u \in CoreThreads : u # t => coresImage'[u] = coresImage[u]
    BY <1>6, <1>7 DEF CoresInv, CoreNumbers
  <1>9. CorePlaces' /\ CoreNumbers'
    BY <1>1, <1>3, <1>6, <1>7 DEF CoresInv, CorePlaces, CoreNumbers, Loader
  <1>10. IF c = "main" THEN coresPc \in {"idle", "initializers"} ELSE coresThread[c] = "run"
    BY <1>1 DEF Cores!RunsCode, Cores!CodeOf
  <1>11. Calls'
    <2>1. Waiting'
      BY <1>1, <1>2, <1>3, <1>10 DEF Waiting, Loader, CoreCallers
    <2>2. Asked'
      BY <1>1, <1>2, <1>3, <1>4, <1>8 DEF Asked, Loader
    <2> QED
      BY <2>1, <2>2 DEF Calls
  <1>12. OneAsked'
    BY <1>1, <1>2, <1>3 DEF CoresInv, OneAsked
  <1>13. CoreImages' /\ CodeThere'
    BY <1>1, <1>3, <1>8 DEF CoresInv, CoreImages, CodeThere, Loader
  <1>14. Working' = Working
    BY <1>1, <1>3, <1>4 DEF Working, Cores!Unfinished
  <1>15. LiveCounts'
    BY <1>1, <1>14 DEF CoresInv, LiveCounts
  <1>16. Settles'
    <2>1. ASSUME coresLive = 0, coresPc \notin {"idle", "initializers"} PROVE FALSE
      <3>1. c \in Working
        BY <1>10, <2>1, WhoWorks DEF CoreCallers
      <3> QED
        BY <2>1, <3>1, NobodyCalls
    <2> QED
      BY <1>1, <2>1 DEF CoresInv, Settles, Loader
  <1> QED
    BY <1>2, <1>9, <1>11, <1>12, <1>13, <1>15, <1>16 DEF CoresInv

\* What is pending, or being made, was asked for by a caller that waits.
LEMMA ThreadOnItsWay ==
  ASSUME Calls, coresRequest.pending \/ coresMaker # "none" PROVE Waiting /\ Asked /\ coresRequest.thread \in CoreThreads
  BY DEF Calls, Answered, Waiting

LEMMA CoreMakeKeeps == ASSUME CoresInv, Cores!Make PROVE CoresInv'
  <1>1. /\ coresRequest.pending /\ coresMaker = "none" /\ coresMaker' \in {"factory", "caller"}
        /\ coresRequest' = [coresRequest EXCEPT !.pending = FALSE] /\ coresLive' = coresLive + 1 /\ coresTries' = 0
        /\ UNCHANGED <<coresThread, coresImage, coresCounts, coresCallers>> /\ UNCHANGED Loader
    BY DEF Cores!Make, Cores!Counted, Cores!loader, Cores!runs, Loader
  <1>2. /\ coresRequest' \in CoreRequests /\ coresRequest'.by = coresRequest.by
        /\ coresRequest'.thread = coresRequest.thread /\ coresRequest'.pending = FALSE
        /\ coresRequest'.done = coresRequest.done
    <2>1. coresRequest \in CoreRequests
      BY DEF CoresInv
    <2>2. coresRequest' = [coresRequest EXCEPT !.pending = FALSE]
      BY <1>1
    <2> QED
      BY <2>1, <2>2 DEF CoreRequests
  <1>3. Waiting /\ Asked /\ coresRequest.thread \in CoreThreads
    BY <1>1, ThreadOnItsWay DEF CoresInv
  <1>4. CorePlaces' /\ CoreNumbers'
    <2>1. 0 \in 0 .. CoreRetries
      BY CoresAre
    <2> QED
      BY <1>1, <2>1 DEF CoresInv, CorePlaces, CoreNumbers, Loader
  <1>5. Calls'
    <2>1. Waiting'
      BY <1>1, <1>2, <1>3 DEF Waiting, Loader
    <2>2. Asked'
      BY <1>1, <1>2, <1>3 DEF Asked, Loader
    <2> QED
      BY <2>1, <2>2 DEF Calls
  <1>6. OneAsked' /\ CoreImages' /\ CodeThere'
    BY <1>1, <1>2 DEF CoresInv, OneAsked, CoreImages, CodeThere, Loader
  <1>7. coresRequest.thread \notin Working /\ Working' = Working \cup {coresRequest.thread}
    <2>1. coresRequest.thread \notin Working
      BY <1>1, <1>3, WhoWorks DEF Asked
    <2> QED
      BY <1>1, <1>2, <1>3, <2>1 DEF Working, Cores!Unfinished, Asked
  <1>8. LiveCounts'
    BY <1>1, <1>7, WhoWorks, WorkingIs DEF CoresInv, LiveCounts
  <1>9. Settles'
    <2>1. coresCallers # {}
      BY <1>3 DEF Waiting
    <2> QED
      BY <1>1, <2>1 DEF CoresInv, Settles, Loader
  <1> QED
    BY <1>2, <1>4, <1>5, <1>6, <1>8, <1>9 DEF CoresInv

\* The thread asked for is made, or given up: it is no longer asked for, and its caller goes on.
LEMMA AnswerKeeps ==
  ASSUME CoresInv, coresMaker # "none", NEW x \in {"born", "gone"}, NEW a \in {coresRequest.thread, "EAGAIN"},
         coresThread' = [coresThread EXCEPT ![coresRequest.thread] = x], coresMaker' = "none",
         coresRequest' = [coresRequest EXCEPT !.done = TRUE, !.result = a], coresTries' \in 0 .. CoreRetries,
         IF x = "born" THEN coresLive' = coresLive ELSE coresLive' = coresLive - 1,
         UNCHANGED <<coresImage, coresCounts, coresCallers>>, UNCHANGED Loader
  PROVE CoresInv'
  <1>1. Waiting /\ Asked /\ coresRequest.thread \in CoreThreads
    BY ThreadOnItsWay DEF CoresInv
  <1>2. /\ coresRequest' \in CoreRequests /\ coresRequest'.by = coresRequest.by
        /\ coresRequest'.thread = coresRequest.thread /\ coresRequest'.pending = coresRequest.pending
        /\ coresRequest'.done = TRUE /\ coresRequest'.result = a
    <2>1. coresRequest \in CoreRequests /\ a \in CoreCallers \cup {"none", "EAGAIN"}
      BY <1>1 DEF CoresInv, CoreCallers
    <2> QED
      BY <2>1 DEF CoreRequests
  <1>3. /\ coresThread' \in [CoreThreads -> CoreStates] /\ coresThread'[coresRequest.thread] = x
        /\ \A u \in CoreThreads : u # coresRequest.thread => coresThread'[u] = coresThread[u]
    BY <1>1, ThreadSet DEF CoresInv, CorePlaces, CoreStates
  <1>4. CorePlaces' /\ CoreNumbers'
    BY <1>3 DEF CoresInv, CorePlaces, CoreNumbers, Loader
  <1>5. Calls'
    <2>1. Waiting'
      BY <1>1, <1>2, <1>3 DEF Waiting, Asked, Loader
    <2>2. Answered'
      BY <1>1, <1>2, <1>3 DEF Asked, Answered, Loader
    <2> QED
      BY <2>1, <2>2 DEF Calls
  <1>6. OneAsked'
    BY <1>2, <1>3 DEF CoresInv, OneAsked
  <1>7. CoreImages' /\ CodeThere'
    BY <1>1, <1>3 DEF CoresInv, CoreImages, CodeThere, Asked, Loader
  <1>8. coresRequest.thread \in Working
    BY <1>1, WhoWorks DEF Asked
  <1>9. \A t \in CoreThreads : t # coresRequest.thread => coresThread[t] # "asked"
    BY DEF CoresInv, OneAsked
  <1>10. LiveCounts'
    <2>1. CASE x = "born"
      <3>1. Working' = Working
        BY <1>2, <1>3, <1>8, <1>9, <2>1 DEF Working, Cores!Unfinished
      <3> QED
        BY <2>1, <3>1 DEF CoresInv, LiveCounts
    <2>2. CASE x = "gone"
      <3>1. Working' = Working \ {coresRequest.thread}
        BY <1>2, <1>3, <1>8, <1>9, <2>2 DEF Working, Cores!Unfinished
      <3>2. coresLive' = coresLive - 1
        BY <2>2
      <3> QED
        BY <1>8, <3>1, <3>2, WhoWorks, WorkingIs DEF CoresInv, LiveCounts
    <2> QED
      BY <2>1, <2>2
  <1>11. Settles'
    <2>1. coresCallers # {}
      BY <1>1 DEF Waiting
    <2> QED
      BY <2>1 DEF CoresInv, Settles, Loader
  <1> QED
    BY <1>2, <1>4, <1>5, <1>6, <1>7, <1>10, <1>11 DEF CoresInv

LEMMA CreatedKeeps == ASSUME CoresInv, Cores!Created PROVE CoresInv'
  <1>1. /\ coresThread' = [coresThread EXCEPT ![coresRequest.thread] = "born"] /\ coresMaker' = "none"
        /\ coresRequest' = [coresRequest EXCEPT !.done = TRUE, !.result = coresRequest.thread]
        /\ coresMaker # "none" /\ coresLive' = coresLive
        /\ UNCHANGED <<coresImage, coresCounts, coresCallers, coresTries>> /\ UNCHANGED Loader
    BY DEF Cores!Created, Cores!Answers, Cores!loader, Loader
  <1>2. coresTries' \in 0 .. CoreRetries
    BY <1>1 DEF CoresInv, CoreNumbers
  <1> QED
    BY <1>1, <1>2, AnswerKeeps

LEMMA RefusedKeeps == ASSUME CoresInv, Cores!Refused PROVE CoresInv'
  <1>1. CASE coresTries < CoreRetries
    <2>1. /\ coresTries' = coresTries + 1 /\ UNCHANGED Loader
          /\ UNCHANGED <<coresMaker, coresRequest, coresLive, coresThread, coresImage, coresCounts, coresCallers>>
      BY <1>1 DEF Cores!Refused, Cores!loader, Cores!runs, Loader
    <2>2. coresTries' \in 0 .. CoreRetries
      BY <1>1, <2>1, CoresAre DEF CoresInv, CoreNumbers
    <2>3. Working' = Working
      BY <2>1 DEF Working, Cores!Unfinished
    <2> QED
      BY <2>1, <2>2, <2>3 DEF CoresInv, CorePlaces, CoreNumbers, Calls, Waiting, Asked, Answered, OneAsked,
         CoreImages, Settles, CodeThere, LiveCounts, Loader
  <1>2. CASE ~(coresTries < CoreRetries)
    <2>1. /\ coresThread' = [coresThread EXCEPT ![coresRequest.thread] = "gone"] /\ coresMaker' = "none"
          /\ coresRequest' = [coresRequest EXCEPT !.done = TRUE, !.result = "EAGAIN"]
          /\ coresMaker # "none" /\ coresLive' = coresLive - 1 /\ coresTries' = 0
          /\ UNCHANGED <<coresImage, coresCounts, coresCallers>> /\ UNCHANGED Loader
      BY <1>2 DEF Cores!Refused, Cores!loader, Loader
    <2>2. coresTries' \in 0 .. CoreRetries
      BY <2>1, CoresAre
    <2> QED
      BY <2>1, <2>2, AnswerKeeps
  <1> QED
    BY <1>1, <1>2

LEMMA ReturnKeeps == ASSUME CoresInv, NEW c \in CoreCallers, Cores!Return(c) PROVE CoresInv'
  <1>1. /\ coresCallers = {c} /\ coresRequest.done /\ coresCallers' = {} /\ UNCHANGED Loader
        /\ UNCHANGED <<coresLive, coresThread, coresImage, coresCounts, coresRequest, coresMaker, coresTries>>
    BY DEF Cores!Return, Cores!loader, Cores!runs, Loader
  <1>2. Answered
    BY <1>1 DEF CoresInv, Calls, Asked
  <1>3. Calls'
    BY <1>1, <1>2 DEF Calls, Answered
  <1>4. OneAsked'
    BY <1>1 DEF CoresInv, OneAsked
  <1>5. Working' = Working
    BY <1>1 DEF Working, Cores!Unfinished
  <1> QED
    BY <1>1, <1>3, <1>4, <1>5 DEF CoresInv, CorePlaces, CoreNumbers, CoreImages, Settles, CodeThere, LiveCounts, Loader

\* A thread that began goes on, never back: it is not the one asked for, nor one that waits.
LEMMA ThreadKeeps ==
  ASSUME CoresInv, NEW t \in CoreThreads, NEW x \in CoreStates, coresThread[t] \notin {"none", "asked"}, x \notin {"none", "asked"},
         coresThread[t] = "run" => t \notin coresCallers, coresThread' = [coresThread EXCEPT ![t] = x],
         coresCounts' \in [CoreThreads -> BOOLEAN], \A u \in CoreThreads : u # t => coresCounts'[u] = coresCounts[u],
         x \in {"born", "run"} \/ (x = "destructors" /\ coresCounts'[t]) => t \in Working,
         coresLive' = IF t \in Working /\ ~(x \in {"born", "run"} \/ (x = "destructors" /\ coresCounts'[t]))
                      THEN coresLive - 1 ELSE coresLive,
         UNCHANGED <<coresImage, coresCallers, coresRequest, coresMaker, coresTries>>, UNCHANGED Loader
  PROVE CoresInv'
  <1> DEFINE Still == x \in {"born", "run"} \/ (x = "destructors" /\ coresCounts'[t])
  <1>1. /\ coresThread' \in [CoreThreads -> CoreStates] /\ coresThread'[t] = x
        /\ \A u \in CoreThreads : u # t => coresThread'[u] = coresThread[u]
    BY ThreadSet DEF CoresInv, CorePlaces
  <1>2. coresRequest' \in CoreRequests /\ CorePlaces' /\ CoreNumbers'
    BY <1>1 DEF CoresInv, CorePlaces, CoreNumbers, Loader
  <1>3. Calls'
    <2>1. CASE coresCallers = {}
      BY <2>1, NoCall DEF CoresInv, Calls
    <2>2. CASE coresCallers # {}
      <3>1. Waiting /\ (Asked \/ Answered)
        BY <2>2 DEF CoresInv, Calls
      <3>2. coresRequest.by # "main" => coresRequest.by # t
        BY <3>1 DEF Waiting
      <3>3. Waiting'
        BY <1>1, <3>1, <3>2 DEF Waiting, Loader
      <3>4. Asked => Asked'
        BY <1>1, <3>1 DEF Waiting, Asked, Loader
      <3>5. Answered => Answered'
        BY <1>1, <3>1 DEF Waiting, Answered, Loader
      <3> QED
        BY <3>1, <3>3, <3>4, <3>5 DEF Calls
    <2> QED
      BY <2>1, <2>2
  <1>4. OneAsked'
    BY <1>1 DEF CoresInv, OneAsked
  <1>5. CodeThere'
    <2>1. t \in Working => coresImage[t] \in coresMapped
      BY WhoWorks DEF CoresInv, CodeThere
    <2> QED
      BY <1>1, <2>1 DEF CoresInv, CodeThere, Loader
  <1>6. CoreImages'
    BY DEF CoresInv, CoreImages, Loader
  <1>7. LiveCounts'
    <2>1. CASE Still
      <3>1. Working' = Working
        BY <1>1, <2>1, WhoWorks DEF Working, Cores!Unfinished
      <3> QED
        BY <2>1, <3>1 DEF CoresInv, LiveCounts
    <2>2. CASE ~Still
      <3>1. Working' = Working \ {t}
        BY <1>1, <2>2 DEF Working, Cores!Unfinished
      <3>2. CASE t \in Working
        BY <2>2, <3>1, <3>2, WhoWorks, WorkingIs DEF CoresInv, LiveCounts
      <3>3. CASE t \notin Working
        <4>1. Working' = Working
          BY <3>1, <3>3
        <4> QED
          BY <3>3, <4>1 DEF CoresInv, LiveCounts
      <3> QED
        BY <3>2, <3>3
    <2> QED
      BY <2>1, <2>2
  <1>8. Settles'
    <2>1. ASSUME coresLive = 0, coresCallers = {} PROVE coresLive' = 0
      <3>1. Working = {}
        BY <2>1, NobodyCalls
      <3> QED
        BY <2>1, <3>1
    <2> QED
      BY <2>1 DEF CoresInv, Settles, Loader
  <1> QED
    BY <1>2, <1>3, <1>4, <1>5, <1>6, <1>7, <1>8 DEF CoresInv

LEMMA ThreadsKeep ==
  ASSUME CoresInv, NEW t \in CoreThreads, Cores!Begin(t) \/ Cores!Finish(t) \/ Cores!Destructed(t) \/ Cores!Gone(t)
  PROVE CoresInv'
  <1>1. UNCHANGED <<coresImage, coresCallers, coresRequest, coresMaker, coresTries>> /\ UNCHANGED Loader
    BY DEF Cores!Begin, Cores!Finish, Cores!Destructed, Cores!Gone, Cores!loader, Cores!making, Loader
  <1>2. coresCounts \in [CoreThreads -> BOOLEAN] /\ {"run", "destructors", "keys", "gone"} \subseteq CoreStates
    BY DEF CoresInv, CorePlaces, CoreStates
  <1>3. CASE Cores!Begin(t)
    <2>1. PICK ok \in BOOLEAN : coresCounts' = [coresCounts EXCEPT ![t] = ok]
      BY <1>3 DEF Cores!Begin
    <2>2. /\ coresThread[t] = "born" /\ coresThread' = [coresThread EXCEPT ![t] = "run"] /\ coresLive' = coresLive
          /\ t \in Working
      BY <1>3, WhoWorks DEF Cores!Begin
    <2>3. coresCounts' \in [CoreThreads -> BOOLEAN] /\ \A u \in CoreThreads : u # t => coresCounts'[u] = coresCounts[u]
      BY <1>2, <2>1
    <2> QED
      BY <1>1, <1>2, <2>2, <2>3, ThreadKeeps
  <1>4. CASE Cores!Finish(t)
    <2>1. /\ coresThread[t] = "run" /\ coresThread' = [coresThread EXCEPT ![t] = "destructors"]
          /\ t \notin coresCallers /\ coresCounts' = coresCounts /\ t \in Working
          /\ coresLive' = IF coresCounts[t] THEN coresLive ELSE coresLive - 1
      BY <1>4, WhoWorks DEF Cores!Finish, Cores!Busy
    <2> QED
      BY <1>1, <1>2, <2>1, ThreadKeeps
  <1>5. CASE Cores!Destructed(t)
    <2>1. /\ coresThread[t] = "destructors" /\ coresThread' = [coresThread EXCEPT ![t] = "keys"]
          /\ coresCounts' = coresCounts /\ (t \in Working <=> coresCounts[t])
          /\ coresLive' = IF coresCounts[t] THEN coresLive - 1 ELSE coresLive
      BY <1>5, WhoWorks DEF Cores!Destructed, Cores!Last
    <2> QED
      BY <1>1, <1>2, <2>1, ThreadKeeps
  <1>6. CASE Cores!Gone(t)
    <2>1. /\ coresThread[t] = "keys" /\ coresThread' = [coresThread EXCEPT ![t] = "gone"]
          /\ coresCounts' = coresCounts /\ t \notin Working /\ coresLive' = coresLive
      BY <1>6, WhoWorks DEF Cores!Gone
    <2> QED
      BY <1>1, <1>2, <2>1, ThreadKeeps
  <1> QED
    BY <1>3, <1>4, <1>5, <1>6

-----------------------------------------------------------------------------
(* The opening and closing of a core.                                          *)

\* What the main thread does to the list and the mappings leaves threads and calls alone.
Others == <<coresThread, coresImage, coresCounts, coresCallers, coresRequest, coresMaker, coresTries, coresLive>>
LoaderMoves ==
    /\ coresModules' \in [CorePaths -> [image : 0 .. CoreLoads, references : Nat]]
    /\ coresLoads' \in 0 .. CoreLoads /\ coresMapped' \subseteq 1 .. coresLoads'
    /\ coresMapped \subseteq coresMapped' \/ (Working = {} /\ coresCallers = {})
    /\ coresPc' \in {"idle", "initializers", "wait", "settle", "finalizers"}
    /\ coresPc' \in {"idle", "initializers"} \/ "main" \notin coresCallers
LEMMA LoaderKeeps ==
  ASSUME CoresInv, UNCHANGED Others, LoaderMoves, CoreImages', Settles'
  PROVE CoresInv'
  <1>1. coresRequest' \in CoreRequests /\ CorePlaces'
    BY DEF LoaderMoves, CoresInv, CorePlaces, Others
  <1>2. CoreNumbers'
    BY DEF LoaderMoves, CoresInv, CoreNumbers, Others
  <1>3. Calls'
    <2>1. CASE coresCallers = {}
      BY <2>1, NoCall DEF CoresInv, Calls, Others
    <2>2. CASE coresCallers # {}
      <3>1. Waiting /\ (Asked \/ Answered) /\ coresMapped \subseteq coresMapped'
        BY <2>2 DEF CoresInv, Calls, LoaderMoves
      <3>2. Waiting'
        BY <3>1 DEF LoaderMoves, Waiting, Others
      <3>3. (Asked => Asked') /\ (Answered => Answered')
        BY <3>1 DEF Asked, Answered, Others
      <3> QED
        BY <3>1, <3>2, <3>3 DEF Calls
    <2> QED
      BY <2>1, <2>2
  <1>4. OneAsked'
    BY DEF CoresInv, OneAsked, Others
  <1>5. CodeThere'
    BY WhoWorks DEF CoresInv, CodeThere, Others, LoaderMoves
  <1>6. Working' = Working
    BY DEF Working, Cores!Unfinished, Others
  <1>7. LiveCounts'
    BY <1>6 DEF CoresInv, LiveCounts, Others
  <1> QED
    BY <1>1, <1>2, <1>3, <1>4, <1>5, <1>7 DEF CoresInv

LEMMA CountsKeep == ASSUME CoresInv, NEW p \in CorePaths, Cores!Reopen(p) \/ Cores!Unreferenced(p) PROVE CoresInv'
  <1>1. UNCHANGED Others /\ UNCHANGED <<coresMapped, coresLoads, coresPc, coresClosing, coresSeen>>
    BY DEF Cores!Reopen, Cores!Unreferenced, Others, Cores!runs, Cores!making
  <1> DEFINE Kept == /\ coresModules' \in [CorePaths -> [image : 0 .. CoreLoads, references : Nat]]
                     /\ \A q \in CorePaths : coresModules'[q].image = coresModules[q].image
  <1>2. Kept
    <2>1. coresModules \in [CorePaths -> [image : 0 .. CoreLoads, references : Nat]]
      BY DEF CoresInv, CoreNumbers
    <2>2. ASSUME NEW n \in Nat, coresModules' = [coresModules EXCEPT ![p].references = n] PROVE Kept
      BY <2>1, <2>2
    <2>3. CASE Cores!Reopen(p)
      <3>1. coresModules' = [coresModules EXCEPT ![p].references = coresModules[p].references + 1]
        BY <2>3 DEF Cores!Reopen
      <3>2. coresModules[p].references + 1 \in Nat
        BY <2>1
      <3> QED
        BY <2>2, <3>1, <3>2
    <2>4. CASE Cores!Unreferenced(p)
      <3>1. /\ coresModules' = [coresModules EXCEPT ![p].references = coresModules[p].references - 1]
            /\ coresModules[p].references > 1
        BY <2>4 DEF Cores!Unreferenced
      <3>2. coresModules[p].references - 1 \in Nat
        BY <2>1, <3>1
      <3> QED
        BY <2>2, <3>1, <3>2
    <2> QED
      BY <2>3, <2>4
  <1>3. CoreImages' /\ Settles'
    BY <1>1, <1>2 DEF CoresInv, CoreImages, Settles, Others
  <1>4. coresPc \in {"idle", "initializers"}
    BY DEF Cores!Reopen, Cores!Unreferenced
  <1>9. LoaderMoves
    BY <1>1, <1>2, <1>3, <1>4 DEF LoaderMoves, CoresInv, CoreNumbers
  <1> QED
    BY <1>1, <1>2, <1>3, <1>4, <1>9, LoaderKeeps

LEMMA OpenKeeps == ASSUME CoresInv, NEW p \in CorePaths, Cores!Open(p) PROVE CoresInv'
  <1>1. /\ UNCHANGED Others /\ UNCHANGED <<coresModules, coresSeen>> /\ coresPc = "idle" /\ coresPc' = "initializers"
        /\ coresLoads < CoreLoads /\ coresLoads' = coresLoads + 1 /\ coresClosing' = coresLoads + 1
        /\ coresMapped' = coresMapped \cup {coresLoads + 1}
    BY DEF Cores!Open, Others, Cores!runs, Cores!making
  <1>2. coresLoads' \in 0 .. CoreLoads /\ coresMapped' \subseteq 1 .. coresLoads' /\ coresLoads + 1 \notin coresMapped
    BY <1>1, CoresAre DEF CoresInv, CoreNumbers
  <1>3. \A q \in CorePaths : coresModules[q].image # coresLoads + 1
    BY <1>2, CoresAre DEF CoresInv, CoreNumbers, CoreImages
  <1>4. CoreImages' /\ Settles'
    BY <1>1, <1>3 DEF CoresInv, CoreImages, Settles
  <1>9. LoaderMoves
    BY <1>1, <1>2, <1>4 DEF LoaderMoves, CoresInv, CoreNumbers
  <1> QED
    BY <1>1, <1>2, <1>4, <1>9, LoaderKeeps

LEMMA OpenedKeeps == ASSUME CoresInv, NEW p \in CorePaths, Cores!Opened(p) PROVE CoresInv'
  <1>1. /\ UNCHANGED Others /\ UNCHANGED <<coresMapped, coresLoads, coresSeen>> /\ coresPc = "initializers"
        /\ coresPc' = "idle" /\ coresModules' = [coresModules EXCEPT ![p] = [image |-> coresClosing, references |-> 1]]
    BY DEF Cores!Opened, Others, Cores!runs, Cores!making
  <1>2. coresClosing \in coresMapped /\ coresClosing \in 0 .. CoreLoads
    BY <1>1, Mapped DEF CoresInv, CoreImages
  <1>3. coresModules' \in [CorePaths -> [image : 0 .. CoreLoads, references : Nat]]
    BY <1>1, <1>2 DEF CoresInv, CoreNumbers
  <1>4. coresModules'[p].image = coresClosing /\ \A q \in CorePaths : q # p => coresModules'[q] = coresModules[q]
    BY <1>1 DEF CoresInv, CoreNumbers
  <1>5. CoreImages' /\ Settles'
    BY <1>1, <1>2, <1>4 DEF CoresInv, CoreImages, Settles
  <1>9. LoaderMoves
    BY <1>1, <1>3, <1>5 DEF LoaderMoves, CoresInv, CoreNumbers
  <1> QED
    BY <1>1, <1>3, <1>5, <1>9, LoaderKeeps

LEMMA CloseKeeps == ASSUME CoresInv, NEW p \in CorePaths, Cores!Close(p) PROVE CoresInv'
  <1>1. /\ UNCHANGED Others /\ UNCHANGED <<coresMapped, coresLoads>> /\ coresPc = "idle" /\ "main" \notin coresCallers
        /\ coresModules[p].image # 0 /\ coresModules' = [coresModules EXCEPT ![p] = [image |-> 0, references |-> 0]]
        /\ coresClosing' = coresModules[p].image /\ coresSeen' = coresLive
        /\ coresPc' = IF coresLive = 0 THEN "finalizers" ELSE "wait"
    BY DEF Cores!Close, Cores!Looks, Cores!Busy, Cores!Known, Others, Cores!runs, Cores!making
  <1>2. coresModules' \in [CorePaths -> [image : 0 .. CoreLoads, references : Nat]]
    BY <1>1, CoresAre DEF CoresInv, CoreNumbers
  <1>3. coresModules'[p].image = 0 /\ \A q \in CorePaths : q # p => coresModules'[q] = coresModules[q]
    BY <1>1 DEF CoresInv, CoreNumbers
  <1>4. coresClosing' \in coresMapped /\ coresClosing' # 0
    BY <1>1 DEF CoresInv, CoreImages
  <1>5. CoreImages'
    BY <1>1, <1>3, <1>4 DEF CoresInv, CoreImages
  <1>6. Settles'
    BY <1>1, NobodyCalls DEF Settles, Others
  <1>9. LoaderMoves
    BY <1>1, <1>2, <1>5, <1>6 DEF LoaderMoves, CoresInv, CoreNumbers
  <1> QED
    BY <1>1, <1>2, <1>5, <1>6, <1>9, LoaderKeeps

LEMMA ClosingKeeps == ASSUME CoresInv, Cores!WaitsNoLonger \/ Cores!TimesOut \/ Cores!Settle PROVE CoresInv'
  <1>1. /\ UNCHANGED Others /\ UNCHANGED <<coresModules, coresMapped, coresLoads, coresClosing>>
        /\ coresPc \in {"wait", "settle"} /\ coresPc' \in {"settle", "finalizers"}
    BY DEF Cores!WaitsNoLonger, Cores!Waits, Cores!TimesOut, Cores!Settle, Others, Cores!runs, Cores!making
  <1>2. CoreImages'
    BY <1>1 DEF CoresInv, CoreImages
  <1>3. Settles'
    <2>1. CASE Cores!WaitsNoLonger
      BY <1>1, <2>1, NobodyCalls DEF Cores!WaitsNoLonger, Cores!Waits, Settles, Others
    <2>2. CASE Cores!TimesOut
      BY <1>1, <2>2 DEF Cores!TimesOut, Settles, Others
    <2>3. CASE Cores!Settle
      BY <1>1, <2>3 DEF Cores!Settle, CoresInv, Settles, Others
    <2> QED
      BY <2>1, <2>2, <2>3
  <1>4. "main" \notin coresCallers
    BY <1>1 DEF CoresInv, Calls, Waiting
  <1>9. LoaderMoves
    BY <1>1, <1>2, <1>3, <1>4 DEF LoaderMoves, CoresInv, CoreNumbers
  <1> QED
    BY <1>1, <1>2, <1>3, <1>4, <1>9, LoaderKeeps

LEMMA FinalizeKeeps == ASSUME CoresInv, Cores!Finalize PROVE CoresInv'
  <1>1. /\ UNCHANGED Others /\ UNCHANGED <<coresModules, coresLoads>>
        /\ coresPc = "finalizers" /\ coresPc' = "idle"
        /\ coresMapped' = IF coresSeen = 0 THEN coresMapped \ {coresClosing} ELSE coresMapped
    BY DEF Cores!Finalize, Cores!Unmaps, Others, Cores!runs, Cores!making
  <1>2. coresSeen = 0 => Working = {} /\ coresCallers = {}
    BY <1>1, NobodyCalls DEF CoresInv, Settles
  <1>3. CoreImages' /\ Settles'
    BY <1>1 DEF CoresInv, CoreImages, Settles
  <1>9. LoaderMoves
    BY <1>1, <1>2, <1>3 DEF LoaderMoves, CoresInv, CoreNumbers
  <1> QED
    BY <1>1, <1>2, <1>3, <1>9, LoaderKeeps

LEMMA CoresInitHolds == ASSUME Cores!Init PROVE CoresInv
  <1>1. /\ coresModules = [p \in CorePaths |-> [image |-> 0, references |-> 0]] /\ coresMapped = {} /\ coresLoads = 0
        /\ coresPc = "idle" /\ coresLive = 0 /\ coresThread = [t \in CoreThreads |-> "none"]
        /\ coresImage = [t \in CoreThreads |-> 0] /\ coresCounts = [t \in CoreThreads |-> TRUE]
        /\ coresCallers = {} /\ coresMaker = "none" /\ coresTries = 0
        /\ coresRequest = [by |-> "main", thread |-> "main", pending |-> FALSE, done |-> FALSE, result |-> "none"]
    BY DEF Cores!Init, Cores!Quiet
  <1>2. coresRequest \in CoreRequests /\ ~coresRequest.pending
    BY <1>1 DEF CoreRequests, CoreCallers
  <1>3. CorePlaces
    BY <1>1 DEF CorePlaces, CoreStates
  <1>4. CoreNumbers
    BY <1>1, CoresAre DEF CoreNumbers
  <1>5. Calls /\ OneAsked /\ CoreImages /\ Settles /\ CodeThere
    BY <1>1, <1>2 DEF Calls, OneAsked, CoreImages, Settles, CodeThere
  <1>6. LiveCounts
    <2>1. Working = {}
      BY <1>1, WhoWorks
    <2> QED
      BY <1>1, <2>1, FS_EmptySet DEF LiveCounts
  <1> QED
    BY <1>2, <1>3, <1>4, <1>5, <1>6 DEF CoresInv

\* No step of the cores, their threads or the main thread breaks the invariant.
LEMMA CoresStep == ASSUME CoresInv, Cores!Next PROVE CoresInv'
  <1>1. CASE \E c \in Cores!Callers : Cores!Return(c) \/ \E t \in CoreThreads : Cores!Ask(c, t)
    BY <1>1, AskKeeps, ReturnKeeps DEF Cores!Callers, CoreCallers
  <1>2. CASE Cores!Make \/ Cores!Created \/ Cores!Refused
    BY <1>2, CoreMakeKeeps, CreatedKeeps, RefusedKeeps
  <1>3. CASE \E t \in CoreThreads : Cores!Begin(t) \/ Cores!Finish(t) \/ Cores!Destructed(t) \/ Cores!Gone(t)
    BY <1>3, ThreadsKeep
  <1>4. CASE \E p \in CorePaths : \/ Cores!Reopen(p) \/ Cores!Open(p) \/ Cores!Opened(p)
                                 \/ Cores!Unreferenced(p) \/ Cores!Close(p)
    BY <1>4, CountsKeep, OpenKeeps, OpenedKeeps, CloseKeeps
  <1>5. CASE Cores!WaitsNoLonger \/ Cores!TimesOut \/ Cores!Settle \/ Cores!Finalize
    BY <1>5, ClosingKeeps, FinalizeKeeps
  <1> QED
    BY <1>1, <1>2, <1>3, <1>4, <1>5 DEF Cores!Next

LEMMA CoresSay == ASSUME CoresInv PROVE CodeIsMapped
  <1>1. LiveCounts /\ Working \in SUBSET CoreThreads
    BY WhoWorks DEF CoresInv
  <1>2. Cores!LiveIsExact
    BY <1>1, SameSets DEF LiveCounts, Working, Cores!LiveIsExact
  <1>3. Cores!CodeStaysMapped
    BY DEF CoresInv, CodeThere, Cores!CodeStaysMapped
  <1>4. Cores!OwnAnswer
    BY DEF CoresInv, Calls, Waiting, Answered, Asked, Cores!OwnAnswer
  <1>5. coresCallers \subseteq CoreCallers /\ Cores!Cardinality(coresCallers) <= 1
    <2>1. CASE coresCallers = {}
      BY <2>1, FS_EmptySet, SameSets
    <2>2. CASE coresCallers = {coresRequest.by} /\ coresRequest.by \in CoreCallers
      <3>1. Cardinality({coresRequest.by}) = 1
        BY FS_Singleton
      <3> QED
        BY <2>2, <3>1, SameSets
    <2> QED
      BY <2>1, <2>2 DEF CoresInv, Calls, Waiting, CoreCallers
  <1>6. coresLive \in 0 .. Cores!Cardinality(CoreThreads)
    <2>1. Cardinality(CoreThreads) \in Nat
      BY CoresAre, FS_CardinalityType
    <2> QED
      BY <1>1, <2>1, WorkingIs, SameSets DEF LiveCounts
  <1>7. Cores!TypeOK
    BY <1>5, <1>6 DEF CoresInv, CorePlaces, CoreNumbers, CoreStates, CoreCallers, Cores!TypeOK, Cores!InCode, Cores!Callers
  <1> QED
    BY <1>2, <1>3, <1>4, <1>7 DEF CodeIsMapped

LEMMA CoresSafe == MCSpec => [](part = "cores" => CoresInv)
  <1>1. MCInit => (part = "cores" => CoresInv)
    BY CoresInitHolds DEF MCInit
  <1>2. (part = "cores" => CoresInv) /\ [MCNext]_MCVars => (part = "cores" => CoresInv)'
    <2>1. ASSUME UNCHANGED CoresVars, CoresInv PROVE CoresInv'
      BY <2>1 DEF CoresVars, CoresInv, CorePlaces, CoreNumbers, Calls, Waiting, Asked, Answered, OneAsked, CoreImages,
         Settles, CodeThere, LiveCounts, Working, Cores!Unfinished
    <2>2. UNCHANGED MCVars => UNCHANGED CoresVars /\ part' = part
      BY DEF MCVars
    <2>3. ASSUME MCNext, CoresInv, part = "cores" PROVE CoresInv'
      BY <2>3, CoresStep DEF MCNext
    <2>4. MCNext => part' = part
      BY DEF MCNext
    <2> QED
      BY <2>1, <2>2, <2>3, <2>4
  <1> QED
    BY <1>1, <1>2, PTL DEF MCSpec


-----------------------------------------------------------------------------
(* The image of one core, for any file, size and number of relocations.        *)

ImageStages == {"open", "headers", "reserve", "imports", "relocate", "callbacks", "protect", "frames", "initialize",
                "loaded", "finalize"}
Checked == ImageStages \ {"open", "headers"}
Ready == {"frames", "initialize", "loaded", "finalize"}

FileIs ==
    /\ DOMAIN imageSegments = 1 .. Len(imageSegments) /\ Len(imageSegments) \in Nat
    /\ \A i \in 1 .. Len(imageSegments) : imageSegments[i] \in ImageSegments
    /\ imageInit \in ImageArrays /\ imageFini \in ImageArrays
LoadIs ==
    /\ imagePc \in ImageStages \cup {"failed", "released"} /\ imageHeld \subseteq {"file", "image", "frames"}
    /\ imagePc = "released" => imageHeld = {}
ImageIs ==
    /\ DOMAIN imageImage = 0 .. ImageLimit - 1 /\ imageFixed \subseteq 0 .. ImageLimit - 1
    /\ imageCode \subseteq 0 .. ImageLimit \div 2
AtIs == imageAt \in Nat /\ (imagePc \in ImageStages \ {"finalize"} => imageAt > 0)
FiniAt == imagePc = "finalize" => imageAt <= imageFini.words

\* What was checked of the segments holds for as long as the image is there; relocations are of
\* writable words, and the other words are the file's or zero.
Fit == imagePc \in Checked => Image!SegmentsFit
Relocs ==
    /\ \A a \in imageFixed : Image!Mapped(a, 1, {"W"})
    /\ \A a \in 0 .. ImageLimit - 1 : a \notin imageFixed => imageImage[a][1] \in {"file", "zero"}

\* The pages made executable are those of the segments the protection has come to.
CodeOfSome(n) == UNION {Image!PagesOf(imageSegments[i]) : i \in {j \in 1 .. n : "X" \in imageSegments[j].flags}}
Protects ==
    /\ imagePc \in ImageStages \ ({"protect"} \cup Ready) => imageCode = {}
    /\ imagePc = "protect" => imageAt <= Len(imageSegments) + 1 /\ imageCode = CodeOfSome(imageAt - 1)
    /\ imagePc \in Ready => imageCode = CodeOfSome(Len(imageSegments))

\* The callbacks are the ones that were checked, and those that ran were of the code.
Checks == imagePc \in {"protect"} \cup Ready => Image!CallbacksFit
Called == \E S : imageRan \in Seq(S) /\ \A w \in S : Image!InCode(w)

ImageInv ==
    FileIs /\ LoadIs /\ ImageIs /\ AtIs /\ FiniAt /\ Fit /\ Relocs /\ Protects /\ Checks /\ Called

LEMMA ImageBounds ==
  /\ ImageLimit \in Nat
  /\ \A s \in ImageSegments : s.at \in Nat /\ s.file \in Nat /\ s.words \in Nat /\ s.flags \subseteq {"R", "W", "X"}
  /\ \A a \in ImageArrays : a.at \in Nat /\ a.words \in Nat
  <1>1. {ImageLimit, ImageRelocs} \subseteq Nat
    BY ImageAssumption DEF Image!CoreImageAssumption
  <1> QED
    BY <1>1, ImageAssumption DEF Image!CoreImageAssumption

LEMMA PairsAre ==
  ASSUME NEW S, NEW s \in Image!Pairs(S)
  PROVE DOMAIN s = 1 .. Len(s) /\ Len(s) \in Nat /\ \A i \in 1 .. Len(s) : s[i] \in S
  <1>1. s = <<>> \/ (\E a \in S : s = <<a>>) \/ (\E a, b \in S : s = <<a, b>>)
    BY DEF Image!Pairs
  <1>2. CASE s = <<>>
    BY <1>2
  <1>3. CASE \E a \in S : s = <<a>>
    BY <1>3
  <1>4. CASE \E a, b \in S : s = <<a, b>>
    BY <1>4
  <1> QED
    BY <1>1, <1>2, <1>3, <1>4

LEMMA ImageInitHolds == ASSUME Image!Init PROVE ImageInv
  <1>1. FileIs
    BY PairsAre DEF Image!Init, FileIs
  <1>2. /\ imagePc = "open" /\ imageAt = 1 /\ imageHeld = {} /\ imageImage = [a \in 0 .. ImageLimit - 1 |-> <<"zero", 0>>]
        /\ imageFixed = {} /\ imageCode = {} /\ imageRan = <<>>
    BY DEF Image!Init, Image!Words, Image!Zero
  <1>3. LoadIs /\ ImageIs
    BY <1>2 DEF LoadIs, ImageIs, ImageStages
  <1>4. AtIs
    BY <1>2 DEF AtIs
  <1>5. FiniAt /\ Fit /\ Checks /\ Protects
    BY <1>2 DEF FiniAt, Fit, Checks, Protects, Checked, Ready, ImageStages
  <1>6. Relocs
    BY <1>2 DEF Relocs
  <1>7. Called
    <2>1. imageRan \in Seq({}) /\ \A w \in {} : Image!InCode(w)
      BY <1>2, EmptySeq
    <2> QED
      BY <2>1 DEF Called
  <1> QED
    BY <1>1, <1>3, <1>4, <1>5, <1>6, <1>7 DEF ImageInv

\* The file does not change: what is mapped, and what is code, stays so.
LEMMA SameFile ==
  ASSUME UNCHANGED <<imageSegments, imageInit, imageFini>>
  PROVE /\ FileIs' = FileIs /\ Image!SegmentsFit' = Image!SegmentsFit
        /\ \A a, n, f : Image!Mapped(a, n, f)' = Image!Mapped(a, n, f)
        /\ \A w : Image!InCode(w)' = Image!InCode(w)
        /\ \A n : CodeOfSome(n)' = CodeOfSome(n)
  BY DEF FileIs, Image!SegmentsFit, Image!SegmentFits, Image!Mapped, Image!InCode, CodeOfSome

\* A part of the load that leaves the image alone.
File == <<imageSegments, imageInit, imageFini>>
Rest == <<imageImage, imageFixed, imageCode, imageRan>>
LEMMA RestKeeps ==
  ASSUME ImageInv, UNCHANGED File, UNCHANGED Rest, LoadIs', AtIs', FiniAt', Fit', Protects', Checks'
  PROVE ImageInv'
  <1>1. /\ FileIs' /\ \A a, n, f : Image!Mapped(a, n, f)' = Image!Mapped(a, n, f)
        /\ \A w : Image!InCode(w)' = Image!InCode(w)
    BY SameFile DEF ImageInv, File
  <1>2. ImageIs' /\ Relocs' /\ Called'
    BY <1>1 DEF ImageInv, ImageIs, Relocs, Called, Rest
  <1> QED
    BY <1>1, <1>2 DEF ImageInv

\* A load that fails keeps what it made until it is given back.
LEMMA FailKeeps ==
  ASSUME ImageInv, UNCHANGED File, UNCHANGED Rest, imagePc' = "failed", imageAt' = imageAt,
         imageHeld' \subseteq {"file", "image", "frames"}
  PROVE ImageInv'
  <1>1. LoadIs' /\ AtIs' /\ FiniAt' /\ Fit' /\ Protects' /\ Checks'
    BY DEF ImageInv, LoadIs, AtIs, FiniAt, Fit, Protects, Checks, ImageStages, Checked, Ready
  <1> QED
    BY <1>1, RestKeeps

LEMMA OpenImageKeeps == ASSUME ImageInv, Image!Open PROVE ImageInv'
  <1>1. imagePc = "open" /\ UNCHANGED File /\ UNCHANGED Rest
    BY DEF Image!Open, Image!file, File, Rest
  <1>2. CASE Image!Fail /\ imageHeld' \in SUBSET {"file"}
    BY <1>1, <1>2, FailKeeps DEF Image!Fail
  <1>3. CASE Image!Go("headers") /\ imageHeld' = {"file"}
    <2>1. imagePc' = "headers" /\ imageAt' = 1 /\ imageHeld' = {"file"} /\ imageCode' = {}
      BY <1>1, <1>3 DEF Image!Go, ImageInv, Protects, ImageStages, Ready, Rest
    <2>2. LoadIs' /\ AtIs' /\ FiniAt' /\ Fit' /\ Protects' /\ Checks'
      BY <2>1 DEF LoadIs, AtIs, FiniAt, Fit, Protects, Checks, ImageStages, Checked, Ready
    <2> QED
      BY <1>1, <2>2, RestKeeps
  <1> QED
    BY <1>2, <1>3 DEF Image!Open

LEMMA HeadersKeep == ASSUME ImageInv, Image!Headers PROVE ImageInv'
  <1>1. imagePc = "headers" /\ UNCHANGED File /\ UNCHANGED Rest /\ imageHeld' = imageHeld
    BY DEF Image!Headers, Image!file, File, Rest
  <1>2. imageHeld \subseteq {"file", "image", "frames"}
    BY DEF ImageInv, LoadIs
  <1>3. CASE Image!Fail
    BY <1>1, <1>2, <1>3, FailKeeps DEF Image!Fail
  <1>4. CASE Image!SegmentsFit /\ Image!Go("reserve")
    <2>1. imagePc' = "reserve" /\ imageAt' = 1 /\ imageCode' = {}
      BY <1>1, <1>4 DEF Image!Go, ImageInv, Protects, ImageStages, Ready, Rest
    <2>2. Image!SegmentsFit'
      BY <1>1, <1>4, SameFile DEF File
    <2>3. LoadIs' /\ AtIs' /\ FiniAt' /\ Fit' /\ Protects' /\ Checks'
      BY <1>1, <1>2, <2>1, <2>2 DEF LoadIs, AtIs, FiniAt, Fit, Protects, Checks, ImageStages, Checked, Ready
    <2> QED
      BY <1>1, <2>3, RestKeeps
  <1> QED
    BY <1>3, <1>4 DEF Image!Headers

LEMMA ReserveKeeps == ASSUME ImageInv, Image!Reserve PROVE ImageInv'
  <1>1. imagePc = "reserve" /\ UNCHANGED File /\ UNCHANGED <<imageFixed, imageCode, imageRan>>
    BY DEF Image!Reserve, Image!file, File
  <1>2. imageHeld \subseteq {"file", "image", "frames"}
    BY DEF ImageInv, LoadIs
  <1>3. CASE Image!Fail /\ UNCHANGED <<imageHeld, imageImage>>
    <2>1. UNCHANGED Rest
      BY <1>1, <1>3 DEF Rest
    <2> QED
      BY <1>1, <1>2, <1>3, <2>1, FailKeeps DEF Image!Fail
  <1>4. CASE /\ Image!Go("imports") /\ imageHeld' = imageHeld \cup {"image"}
             /\ imageImage' = [a \in Image!Words |-> Image!Filled(a)]
    <2>1. imagePc' = "imports" /\ imageAt' = 1 /\ imageCode' = {} /\ imageHeld' \subseteq {"file", "image", "frames"}
      BY <1>1, <1>2, <1>4 DEF Image!Go, ImageInv, Protects, ImageStages, Ready
    <2>2. FileIs' /\ Image!SegmentsFit'
      BY <1>1, SameFile DEF File, ImageInv, Fit, Checked, ImageStages
    <2>3. LoadIs' /\ AtIs' /\ FiniAt' /\ Fit' /\ Protects' /\ Checks'
      BY <1>1, <1>2, <2>1, <2>2 DEF LoadIs, AtIs, FiniAt, Fit, Protects, Checks, ImageStages, Checked, Ready
    <2>4. /\ DOMAIN imageImage' = 0 .. ImageLimit - 1
          /\ \A a \in 0 .. ImageLimit - 1 : imageImage'[a][1] \in {"file", "zero"}
      <3>1. \A a : Image!Filled(a) = <<"zero", 0>> \/ Image!Filled(a) = <<"file", a>>
        BY DEF Image!Filled, Image!Zero
      <3> QED
        BY <1>4, <3>1 DEF Image!Words
    <2>5. ImageIs' /\ Relocs' /\ Called'
      BY <1>1, <2>4, SameFile DEF ImageInv, ImageIs, Relocs, Called, File
    <2> QED
      BY <2>2, <2>3, <2>5 DEF ImageInv
  <1> QED
    BY <1>3, <1>4 DEF Image!Reserve

LEMMA ImportsKeep == ASSUME ImageInv, Image!Imports \/ Image!Relocated PROVE ImageInv'
  <1>1. UNCHANGED File /\ UNCHANGED Rest /\ imageHeld' = imageHeld
    BY DEF Image!Imports, Image!Relocated, Image!file, File, Rest
  <1>2. imageHeld \subseteq {"file", "image", "frames"}
    BY DEF ImageInv, LoadIs
  <1>3. imagePc \in {"imports", "relocate"} /\ (Image!Fail \/ Image!Go("relocate") \/ Image!Go("callbacks"))
    BY DEF Image!Imports, Image!Relocated
  <1>4. CASE Image!Fail
    BY <1>1, <1>2, <1>4, FailKeeps DEF Image!Fail
  <1>5. CASE Image!Go("relocate") \/ Image!Go("callbacks")
    <2>1. imagePc' \in {"relocate", "callbacks"} /\ imageAt' = 1 /\ imageCode' = {}
      BY <1>1, <1>3, <1>5 DEF Image!Go, ImageInv, Protects, ImageStages, Ready, Rest
    <2>2. Image!SegmentsFit'
      BY <1>1, <1>3, SameFile DEF File, ImageInv, Fit, Checked, ImageStages
    <2>3. LoadIs' /\ AtIs' /\ FiniAt' /\ Fit' /\ Protects' /\ Checks'
      BY <1>1, <1>2, <2>1, <2>2 DEF LoadIs, AtIs, FiniAt, Fit, Protects, Checks, ImageStages, Checked, Ready
    <2> QED
      BY <1>1, <2>3, RestKeeps
  <1> QED
    BY <1>3, <1>4, <1>5

LEMMA RelocateKeeps == ASSUME ImageInv, Image!Relocate PROVE ImageInv'
  <1>1. imagePc = "relocate" /\ UNCHANGED File /\ UNCHANGED <<imageHeld, imageCode, imageRan>>
    BY DEF Image!Relocate, Image!file, File
  <1>2. CASE Image!Fail /\ UNCHANGED <<imageImage, imageFixed>>
    <2>1. UNCHANGED Rest /\ imageHeld' \subseteq {"file", "image", "frames"}
      BY <1>1, <1>2 DEF Rest, ImageInv, LoadIs
    <2> QED
      BY <1>1, <1>2, <2>1, FailKeeps DEF Image!Fail
  <1>3. ASSUME NEW a \in 0 .. ImageLimit - 1, NEW w, Image!RelocFits(a), Image!Write(a, w), imagePc' = imagePc,
               imageAt' = imageAt + 1
        PROVE ImageInv'
    <2>1. imageImage' = [imageImage EXCEPT ![a] = w] /\ imageFixed' = imageFixed \cup {a} /\ Image!Mapped(a, 1, {"W"})
      BY <1>3 DEF Image!RelocFits, Image!Write
    <2>2. FileIs' /\ Image!SegmentsFit' /\ \A b, n, f : Image!Mapped(b, n, f)' = Image!Mapped(b, n, f)
      BY <1>1, SameFile DEF File, ImageInv, Fit, Checked, ImageStages
    <2>3. LoadIs' /\ AtIs' /\ FiniAt' /\ Fit' /\ Protects' /\ Checks'
      BY <1>1, <1>3, <2>2 DEF ImageInv, LoadIs, AtIs, FiniAt, Fit, Protects, Checks, ImageStages, Checked, Ready
    <2>4. ImageIs' /\ Relocs'
      BY <1>1, <2>1, <2>2 DEF ImageInv, ImageIs, Relocs
    <2>5. Called'
      BY <1>1, SameFile DEF ImageInv, Called, File
    <2> QED
      BY <2>2, <2>3, <2>4, <2>5 DEF ImageInv
  <1> QED
    BY <1>2, <1>3 DEF Image!Relocate, Image!Relative, Image!Symbolic, Image!Words

LEMMA ValidateKeeps == ASSUME ImageInv, Image!Validate PROVE ImageInv'
  <1>1. imagePc = "callbacks" /\ UNCHANGED File /\ UNCHANGED Rest /\ imageHeld' = imageHeld
    BY DEF Image!Validate, Image!file, File, Rest
  <1>2. imageHeld \subseteq {"file", "image", "frames"}
    BY DEF ImageInv, LoadIs
  <1>3. CASE ~Image!CallbacksFit
    BY <1>1, <1>2, <1>3, FailKeeps DEF Image!Validate, Image!Fail
  <1>4. CASE Image!CallbacksFit
    <2>1. imagePc' = "protect" /\ imageAt' = 1 /\ imageCode' = {}
      BY <1>1, <1>4 DEF Image!Validate, Image!Go, ImageInv, Protects, ImageStages, Ready, Rest
    <2>2. Image!SegmentsFit' /\ FileIs'
      BY <1>1, SameFile DEF File, ImageInv, Fit, Checked, ImageStages
    <2>3. Image!CallbacksFit'
      BY <1>1, <1>4 DEF Image!CallbacksFit, Image!Callbacks, Image!InCode, Image!Mapped, File, Rest
    <2>4. Protects'
      <3>1. CodeOfSome(0)' = {} /\ imageAt' - 1 = 0 /\ Len(imageSegments)' \in Nat
        BY <2>1, <2>2 DEF CodeOfSome, FileIs
      <3> QED
        BY <2>1, <3>1 DEF Protects, Ready, ImageStages
    <2>5. LoadIs' /\ AtIs' /\ FiniAt' /\ Fit' /\ Checks'
      BY <1>1, <1>2, <2>1, <2>2, <2>3 DEF LoadIs, AtIs, FiniAt, Fit, Checks, ImageStages, Checked, Ready
    <2> QED
      BY <1>1, <2>4, <2>5, RestKeeps
  <1> QED
    BY <1>3, <1>4

\* The pages of the next segment join those made executable, when it is code.
LEMMA CodeGrows ==
  ASSUME NEW n \in Nat
  PROVE CodeOfSome(n + 1) = IF "X" \in imageSegments[n + 1].flags
                            THEN CodeOfSome(n) \cup Image!PagesOf(imageSegments[n + 1]) ELSE CodeOfSome(n)
  <1>1. 1 .. n + 1 = (1 .. n) \cup {n + 1}
    OBVIOUS
  <1> DEFINE Exec(m) == {j \in 1 .. m : "X" \in imageSegments[j].flags}
  <1>2. Exec(n + 1) = IF "X" \in imageSegments[n + 1].flags THEN Exec(n) \cup {n + 1} ELSE Exec(n)
    BY <1>1
  <1> QED
    BY <1>2 DEF CodeOfSome

\* A segment that fits has its pages within the image.
LEMMA PagesIn ==
  ASSUME FileIs, Image!SegmentsFit, NEW i \in 1 .. Len(imageSegments)
  PROVE Image!PagesOf(imageSegments[i]) \subseteq 0 .. ImageLimit \div 2
  <1> DEFINE s == imageSegments[i]
  <1>1. s.at \in Nat /\ s.words \in Nat /\ s.at <= ImageLimit /\ s.words <= ImageLimit - s.at /\ ImageLimit \in Nat
    BY ImageBounds DEF FileIs, Image!SegmentsFit, Image!SegmentFits, Image!RangeIn
  <1>2. Image!End(s) = ((s.at + s.words + 2 - 1) \div 2) * 2
    BY DEF Image!End, Image!Page
  <1> HIDE DEF s
  <1>3. ASSUME NEW a \in s.at .. Image!End(s) - 1 PROVE a \div 2 \in 0 .. ImageLimit \div 2
    BY <1>1, <1>2
  <1>4. Image!PagesOf(s) = {a \div 2 : a \in s.at .. Image!End(s) - 1}
    BY DEF Image!PagesOf, Image!Page
  <1>5. Image!PagesOf(s) \subseteq 0 .. ImageLimit \div 2
    BY <1>3, <1>4
  <1> QED
    BY <1>5 DEF s

LEMMA ProtectKeeps == ASSUME ImageInv, Image!Protect PROVE ImageInv'
  <1>1. /\ imagePc = "protect" /\ UNCHANGED File /\ UNCHANGED <<imageHeld, imageImage, imageFixed, imageRan>>
        /\ imageAt <= Len(imageSegments)
    BY DEF Image!Protect, Image!file, File
  <1>2. CASE Image!Fail /\ UNCHANGED imageCode
    <2>1. UNCHANGED Rest /\ imageHeld' \subseteq {"file", "image", "frames"}
      BY <1>1, <1>2 DEF Rest, ImageInv, LoadIs
    <2> QED
      BY <1>1, <1>2, <2>1, FailKeeps DEF Image!Fail
  <1>3. CASE /\ imageAt' = imageAt + 1 /\ UNCHANGED imagePc
             /\ imageCode' = IF "X" \in imageSegments[imageAt].flags
                             THEN imageCode \cup Image!PagesOf(imageSegments[imageAt]) ELSE imageCode
    <2>1. imageAt \in 1 .. Len(imageSegments) /\ imageAt - 1 \in Nat /\ Len(imageSegments) \in Nat
      BY <1>1 DEF ImageInv, AtIs, FileIs, ImageStages
    <2>2. imageCode = CodeOfSome(imageAt - 1)
      BY <1>1 DEF ImageInv, Protects
    <2>3. (imageAt - 1) + 1 = imageAt /\ imageAt' - 1 = imageAt
      BY <1>3, <2>1
    <2>4. imageCode' = CodeOfSome(imageAt)
      BY <1>3, <2>1, <2>2, <2>3, CodeGrows
    <2>5. /\ FileIs' /\ Image!SegmentsFit /\ Image!SegmentsFit' /\ Image!CallbacksFit'
          /\ \A n : CodeOfSome(n)' = CodeOfSome(n)
      <3>1. Image!SegmentsFit /\ Image!CallbacksFit
        BY <1>1 DEF ImageInv, Fit, Checks, Checked, ImageStages, Ready
      <3>2. Image!CallbacksFit'
        BY <1>1, <3>1 DEF Image!CallbacksFit, Image!Callbacks, Image!InCode, Image!Mapped, File
      <3> QED
        BY <1>1, <3>1, <3>2, SameFile DEF File, ImageInv
    <2>6. Protects'
      <3>1. CodeOfSome(imageAt - 1)' = CodeOfSome(imageAt)
        <4>1. imageSegments' = imageSegments
          BY <1>1 DEF File
        <4> QED
          BY <2>3, <4>1 DEF CodeOfSome
      <3>2. imageAt' <= Len(imageSegments)' + 1
        BY <1>1, <1>3, <2>1 DEF File
      <3> QED
        BY <1>1, <1>3, <2>4, <3>1, <3>2 DEF Protects, Ready, ImageStages
    <2>7. LoadIs' /\ AtIs' /\ FiniAt' /\ Fit' /\ Checks'
      BY <1>1, <1>3, <2>1, <2>5 DEF ImageInv, LoadIs, AtIs, FiniAt, Fit, Checks, ImageStages, Checked, Ready
    <2>8. ImageIs'
      <3>1. Image!PagesOf(imageSegments[imageAt]) \subseteq 0 .. ImageLimit \div 2
        BY <2>1, <2>5, PagesIn DEF ImageInv
      <3> QED
        BY <1>1, <1>3, <3>1 DEF ImageInv, ImageIs
    <2>9. Relocs' /\ Called'
      BY <1>1, SameFile DEF ImageInv, Relocs, Called, File
    <2> QED
      BY <2>5, <2>6, <2>7, <2>8, <2>9 DEF ImageInv
  <1> QED
    BY <1>1, <1>2, <1>3 DEF Image!Protect

\* What follows the protection leaves the image and its code as they are.
LEMMA ReadyKeeps ==
  ASSUME ImageInv, imagePc \in {"protect"} \cup Ready, imagePc = "protect" => imageAt = Len(imageSegments) + 1,
         imagePc' \in Ready, UNCHANGED File, UNCHANGED <<imageImage, imageFixed, imageCode>>,
         imageHeld' \subseteq {"file", "image", "frames"}, imageAt' \in Nat,
         IF imagePc' = "finalize" THEN imageAt' <= imageFini.words ELSE imageAt' > 0, Called'
  PROVE ImageInv'
  <1>1. /\ FileIs' /\ Image!SegmentsFit' /\ Image!CallbacksFit'
        /\ \A n : CodeOfSome(n)' = CodeOfSome(n)
    <2>1. Image!SegmentsFit /\ Image!CallbacksFit
      BY DEF ImageInv, Fit, Checks, Checked, ImageStages, Ready
    <2>2. Image!CallbacksFit'
      BY <2>1 DEF Image!CallbacksFit, Image!Callbacks, Image!InCode, Image!Mapped, File
    <2> QED
      BY <2>1, <2>2, SameFile DEF File, ImageInv
  <1>2. imageCode = CodeOfSome(Len(imageSegments))
    <2>1. CASE imagePc = "protect"
      <3>1. imageAt - 1 = Len(imageSegments)
        BY <2>1 DEF ImageInv, FileIs
      <3> QED
        BY <2>1, <3>1 DEF ImageInv, Protects
    <2>2. CASE imagePc \in Ready
      BY <2>2 DEF ImageInv, Protects
    <2> QED
      BY <2>1, <2>2
  <1>3. imageCode' = CodeOfSome(Len(imageSegments))'
    BY <1>2 DEF CodeOfSome, File
  <1>4. Protects'
    BY <1>3 DEF Protects, Ready, ImageStages
  <1>5. LoadIs' /\ AtIs' /\ FiniAt' /\ Fit' /\ Checks'
    BY <1>1 DEF LoadIs, AtIs, FiniAt, Fit, Checks, ImageStages, Checked, Ready, File
  <1>6. ImageIs' /\ Relocs'
    BY SameFile DEF ImageInv, ImageIs, Relocs, File
  <1> QED
    BY <1>1, <1>4, <1>5, <1>6 DEF ImageInv

LEMMA FramesKeep == ASSUME ImageInv, Image!Frames \/ Image!Protected PROVE ImageInv'
  <1>1. UNCHANGED File /\ UNCHANGED Rest /\ imagePc \in {"protect", "frames"}
    BY DEF Image!Frames, Image!Protected, Image!file, File, Rest
  <1>2. imageHeld' \subseteq {"file", "image", "frames"}
    BY DEF Image!Frames, Image!Protected, ImageInv, LoadIs
  <1>3. imageAt \in Nat /\ imageAt > 0 /\ Len(imageSegments) \in Nat
    BY <1>1 DEF ImageInv, AtIs, FileIs, ImageStages
  <1>4. Called'
    BY <1>1, SameFile DEF ImageInv, Called, File, Rest
  <1>5. CASE Image!Fail
    BY <1>1, <1>2, <1>5, FailKeeps DEF Image!Fail
  <1>6. CASE /\ imagePc' \in {"frames", "initialize"} /\ imageAt' \in Nat /\ imageAt' > 0
             /\ imagePc = "protect" => imageAt = Len(imageSegments) + 1
    <2>1. UNCHANGED <<imageImage, imageFixed, imageCode>>
      BY <1>1 DEF Rest
    <2> QED
      BY <1>1, <1>2, <1>4, <1>6, <2>1, ReadyKeeps DEF Ready
  <1>7. CASE Image!Protected
    <2>1. imageAt = Len(imageSegments) + 1
      BY <1>3, <1>7 DEF Image!Protected, ImageInv, Protects
    <2> QED
      BY <1>6, <1>7, <2>1 DEF Image!Protected, Image!Go
  <1>8. CASE Image!Frames
    <2>1. imagePc = "frames" /\ (Image!Fail \/ UNCHANGED <<imagePc, imageAt>> \/ Image!Go("initialize"))
      BY <1>8 DEF Image!Frames
    <2> QED
      BY <1>3, <1>5, <1>6, <2>1 DEF Image!Go
  <1> QED
    BY <1>7, <1>8

\* A callback that runs is one of those that were checked.
LEMMA CallbackIs ==
  ASSUME ImageInv, imagePc \in Ready, NEW a \in {imageInit, imageFini}, NEW i \in 1 .. a.words
  PROVE Image!InCode(Image!Callbacks(a)[i])
  <1>1. Image!CallbacksFit
    BY DEF ImageInv, Checks
  <1> QED
    BY <1>1 DEF Image!CallbacksFit

LEMMA CallKeeps ==
  ASSUME Called, NEW w, Image!InCode(w), imageRan' = Append(imageRan, w), UNCHANGED File
  PROVE Called'
  <1>1. \A v : Image!InCode(v)' = Image!InCode(v)
    BY SameFile DEF File
  <1>2. PICK S : imageRan \in Seq(S) /\ \A v \in S : Image!InCode(v)
    BY DEF Called
  <1>3. imageRan' \in Seq(S \cup {w})
    <2>1. imageRan \in Seq(S \cup {w})
      BY <1>2
    <2> QED
      BY <2>1, AppendProperties
  <1>4. \A v \in S \cup {w} : Image!InCode(v)'
    BY <1>1, <1>2
  <1> QED
    BY <1>3, <1>4 DEF Called

LEMMA RunsCodeKeeps == ASSUME ImageInv, Image!Initialize \/ Image!Close \/ Image!Finalize PROVE ImageInv'
  <1>1. /\ UNCHANGED File /\ UNCHANGED <<imageHeld, imageImage, imageFixed, imageCode>>
        /\ imagePc \in {"initialize", "loaded", "finalize"}
    BY DEF Image!Initialize, Image!Close, Image!Finalize, Image!file, File
  <1>2. imageHeld' \subseteq {"file", "image", "frames"} /\ imageAt \in Nat
    BY <1>1 DEF ImageInv, LoadIs, AtIs
  <1>3. imageInit.words \in Nat /\ imageFini.words \in Nat
    BY ImageBounds DEF ImageInv, FileIs
  <1>4. CASE Image!Initialize
    <2>1. imagePc = "initialize" /\ imageAt > 0
      BY <1>4 DEF Image!Initialize, ImageInv, AtIs, ImageStages
    <2>2. CASE imageAt <= imageInit.words
      <3>1. imagePc' = "initialize" /\ imageAt' = imageAt + 1 /\ imageRan' = Append(imageRan, Image!Callbacks(imageInit)[imageAt])
        BY <1>4, <2>1, <2>2 DEF Image!Initialize
      <3>2. Called'
        BY <1>1, <1>2, <1>3, <2>1, <2>2, <3>1, CallbackIs, CallKeeps DEF ImageInv, Ready
      <3> QED
        BY <1>1, <1>2, <2>1, <3>1, <3>2, ReadyKeeps DEF Ready
    <2>3. CASE ~(imageAt <= imageInit.words)
      <3>1. imagePc' = "loaded" /\ imageAt' = 1 /\ imageRan' = imageRan
        BY <1>4, <2>3 DEF Image!Initialize, Image!Go
      <3>2. Called'
        BY <1>1, <3>1, SameFile DEF ImageInv, Called, File
      <3> QED
        BY <1>1, <1>2, <2>1, <3>1, <3>2, ReadyKeeps DEF Ready
    <2> QED
      BY <2>2, <2>3
  <1>5. CASE Image!Close
    <2>1. imagePc = "loaded" /\ imagePc' = "finalize" /\ imageAt' = imageFini.words /\ imageRan' = imageRan
      BY <1>5 DEF Image!Close
    <2>2. Called'
      BY <1>1, <2>1, SameFile DEF ImageInv, Called, File
    <2> QED
      BY <1>1, <1>2, <1>3, <2>1, <2>2, ReadyKeeps DEF Ready
  <1>6. CASE Image!Finalize
    <2>1. /\ imagePc = "finalize" /\ imagePc' = "finalize" /\ imageAt > 0 /\ imageAt' = imageAt - 1
          /\ imageRan' = Append(imageRan, Image!Callbacks(imageFini)[imageAt])
      BY <1>6 DEF Image!Finalize
    <2>2. imageAt <= imageFini.words
      BY <2>1 DEF ImageInv, FiniAt
    <2>3. Called'
      BY <1>1, <1>2, <1>3, <2>1, <2>2, CallbackIs, CallKeeps DEF ImageInv, Ready
    <2> QED
      BY <1>1, <1>2, <1>3, <2>1, <2>2, <2>3, ReadyKeeps DEF Ready
  <1> QED
    BY <1>4, <1>5, <1>6

LEMMA ReleaseKeeps == ASSUME ImageInv, Image!Release PROVE ImageInv'
  <1>1. /\ imagePc' = "released" /\ imageAt' = 1 /\ imageHeld' = {} /\ imageCode' = {} /\ UNCHANGED File
        /\ imageImage' = [a \in 0 .. ImageLimit - 1 |-> <<"zero", 0>>] /\ UNCHANGED <<imageFixed, imageRan>>
    BY DEF Image!Release, Image!Go, Image!GivesBack, Image!Words, Image!Zero, Image!file, File
  <1>2. LoadIs' /\ AtIs' /\ FiniAt' /\ Fit' /\ Protects' /\ Checks'
    BY <1>1 DEF LoadIs, AtIs, FiniAt, Fit, Protects, Checks, ImageStages, Checked, Ready
  <1>3. FileIs' /\ ImageIs' /\ Relocs' /\ Called'
    BY <1>1, SameFile DEF ImageInv, ImageIs, Relocs, Called, File
  <1> QED
    BY <1>2, <1>3 DEF ImageInv

LEMMA ImageStep == ASSUME ImageInv, Image!Next PROVE ImageInv'
  BY OpenImageKeeps, HeadersKeep, ReserveKeeps, ImportsKeep, RelocateKeeps, ValidateKeeps, ProtectKeeps, FramesKeep,
     RunsCodeKeeps, ReleaseKeeps DEF Image!Next

LEMMA HalfLess ==
  ASSUME NEW a \in Nat, NEW b \in Nat, NEW n \in Nat, a < n * 2, n * 2 <= b PROVE a \div 2 < b \div 2 /\ a \div 2 # b \div 2
  OBVIOUS

\* Two segments that do not overlap share no page: each begins and ends at a page's edge.
LEMMA PagesApart ==
  ASSUME FileIs, Image!SegmentsFit, NEW i \in 1 .. Len(imageSegments), NEW j \in 1 .. Len(imageSegments), j < i,
         NEW p \in Image!PagesOf(imageSegments[i])
  PROVE p \notin Image!PagesOf(imageSegments[j])
  <1> DEFINE s == imageSegments[i]
             q == imageSegments[j]
             n == (s.at + s.words + 2 - 1) \div 2
             m == (q.at + q.words + 2 - 1) \div 2
  <1>1. /\ s.at \in Nat /\ s.words \in Nat /\ s.at % 2 = 0
        /\ q.at \in Nat /\ q.words \in Nat /\ q.at % 2 = 0
    <2>1. s \in ImageSegments /\ q \in ImageSegments /\ Image!SegmentFits(s) /\ Image!SegmentFits(q)
      BY DEF FileIs, Image!SegmentsFit
    <2> QED
      BY <2>1, ImageBounds DEF Image!SegmentFits, Image!Page
  <1>2. Image!End(s) = n * 2 /\ Image!End(q) = m * 2
    BY DEF Image!End, Image!Page
  <1>3. ~Image!Overlap(s, q)
    BY DEF FileIs, Image!SegmentsFit
  <1>4. /\ Image!PagesOf(s) = {a \div 2 : a \in s.at .. n * 2 - 1}
        /\ Image!PagesOf(q) = {a \div 2 : a \in q.at .. m * 2 - 1}
    BY <1>2 DEF Image!PagesOf, Image!Page
  <1>5. n \in Nat /\ m \in Nat
    <2>1. ASSUME NEW a \in Nat, NEW b \in Nat PROVE (a + b + 2 - 1) \div 2 \in Nat
      OBVIOUS
    <2> HIDE DEF s, q
    <2> QED
      BY <1>1, <2>1
  <1>7. ASSUME NEW a \in s.at .. n * 2 - 1, NEW b \in q.at .. m * 2 - 1 PROVE a \div 2 # b \div 2
    <2> HIDE DEF s, q, n, m
    <2>1. n * 2 <= q.at \/ m * 2 <= s.at
      BY <1>1, <1>2, <1>3, <1>5 DEF Image!Overlap
    <2>2. a \in Nat /\ b \in Nat /\ a < n * 2 /\ b < m * 2 /\ s.at <= a /\ q.at <= b
      BY <1>1, <1>5
    <2>3. CASE n * 2 <= q.at
      <3>1. n * 2 <= b
        BY <1>1, <1>5, <2>2, <2>3
      <3> QED
        BY <1>5, <2>2, <3>1, HalfLess
    <2>4. CASE m * 2 <= s.at
      <3>1. m * 2 <= a
        BY <1>1, <1>5, <2>2, <2>4
      <3> QED
        BY <1>5, <2>2, <3>1, HalfLess
    <2> QED
      BY <2>1, <2>3, <2>4
  <1> HIDE DEF s, q, n, m
  <1>6. p \in Image!PagesOf(s) => p \notin Image!PagesOf(q)
    BY <1>4, <1>7
  <1> QED
    BY <1>6 DEF s, q

LEMMA ImageSays == ASSUME ImageInv PROVE ImageIsWhole
  <1>1. FileIs /\ LoadIs /\ ImageIs /\ AtIs
    BY DEF ImageInv
  <1>2. {Image!Stages[i] : i \in DOMAIN Image!Stages} = ImageStages
    BY DEF Image!Stages, ImageStages
  <1>3. Image!TypeOK
    BY <1>1, <1>2 DEF Image!TypeOK, LoadIs, ImageIs, AtIs, Image!Words, Image!Page
  <1>4. Image!OnlyCodeRuns /\ Image!NothingHeld
    BY <1>1 DEF ImageInv, Called, LoadIs, Image!OnlyCodeRuns, Image!NothingHeld
  <1>5. ASSUME imagePc \in Ready
        PROVE /\ imageCode = Image!Flagged("X") /\ imageCode \cap Image!Flagged("W") = {}
              /\ \A a \in Image!Words : a \div Image!Page \in imageCode => a \notin imageFixed /\ imageImage[a][1] \in {"file", "zero"}
    <2>1. imageCode = Image!Flagged("X")
      BY <1>1, <1>5 DEF ImageInv, Protects, CodeOfSome, Image!Flagged, FileIs
    <2>2. Image!SegmentsFit
      BY <1>5 DEF ImageInv, Fit, Checked, Ready, ImageStages
    <2>3. ASSUME NEW p \in imageCode, NEW j \in 1 .. Len(imageSegments), "W" \in imageSegments[j].flags,
                 p \in Image!PagesOf(imageSegments[j])
          PROVE FALSE
      <3>1. PICK i \in 1 .. Len(imageSegments) : "X" \in imageSegments[i].flags /\ p \in Image!PagesOf(imageSegments[i])
        BY <1>1, <2>1 DEF Image!Flagged, FileIs
      <3>2. i # j
        BY <2>2, <2>3, <3>1, <1>1 DEF Image!SegmentsFit, Image!SegmentFits, FileIs
      <3>3. i < j \/ j < i
        BY <3>2, <1>1 DEF FileIs
      <3> QED
        BY <1>1, <2>2, <2>3, <3>1, <3>3, PagesApart
    <2>4. imageCode \cap Image!Flagged("W") = {}
      BY <1>1, <2>3 DEF Image!Flagged, FileIs
    <2>5. ASSUME NEW a \in imageFixed PROVE a \div 2 \notin imageCode
      <3>1. Image!Mapped(a, 1, {"W"}) /\ a \in Nat
        BY <1>1, ImageBounds DEF ImageInv, Relocs, ImageIs
      <3>2. PICK j \in 1 .. Len(imageSegments) : LET s == imageSegments[j] IN
               "W" \in s.flags /\ a >= s.at /\ a - s.at <= s.words /\ 1 <= s.words - (a - s.at)
        BY <1>1, <3>1 DEF Image!Mapped, Image!RangeIn, FileIs
      <3> DEFINE s == imageSegments[j]
      <3>3. s.at \in Nat /\ s.words \in Nat
        BY <1>1, ImageBounds DEF FileIs
      <3>4. Image!End(s) = ((s.at + s.words + 2 - 1) \div 2) * 2
        BY DEF Image!End, Image!Page
      <3>5. a \in s.at .. Image!End(s) - 1
        <4> HIDE DEF s
        <4>1. a >= s.at /\ a - s.at <= s.words /\ 1 <= s.words - (a - s.at)
          BY <3>2 DEF s
        <4> QED
          BY <3>1, <3>3, <3>4, <4>1
      <3>6. a \div 2 \in Image!PagesOf(s)
        BY <3>5 DEF Image!PagesOf, Image!Page
      <3> QED
        BY <2>3, <3>2, <3>6
    <2>6. \A a \in Image!Words : a \div Image!Page \in imageCode => a \notin imageFixed /\ imageImage[a][1] \in {"file", "zero"}
      BY <2>5 DEF ImageInv, Relocs, Image!Words, Image!Page
    <2> QED
      BY <2>1, <2>4, <2>6
  <1>6. Image!CodeIsFixed
    BY <1>5 DEF Image!CodeIsFixed, Ready
  <1> QED
    BY <1>3, <1>4, <1>6 DEF ImageIsWhole

LEMMA ImageSafe == MCSpec => [](part = "image" => ImageInv)
  <1>1. MCInit => (part = "image" => ImageInv)
    BY ImageInitHolds DEF MCInit
  <1>2. (part = "image" => ImageInv) /\ [MCNext]_MCVars => (part = "image" => ImageInv)'
    <2>1. ASSUME UNCHANGED ImageVars, ImageInv PROVE ImageInv'
      <3>1. UNCHANGED <<imageSegments, imageInit, imageFini, imagePc, imageAt, imageHeld, imageImage, imageFixed, imageCode, imageRan>>
        BY <2>1 DEF ImageVars
      <3>2. FileIs' /\ LoadIs' /\ ImageIs' /\ AtIs' /\ FiniAt'
        BY <2>1, <3>1 DEF ImageInv, FileIs, LoadIs, ImageIs, AtIs, FiniAt
      <3>4. Fit' /\ Relocs' /\ Called'
        BY <2>1, <3>1, SameFile DEF ImageInv, Fit, Relocs, Called
      <3>3. Protects'
        <4>1. CodeOfSome(imageAt - 1)' = CodeOfSome(imageAt - 1)
          BY <3>1 DEF CodeOfSome
        <4>2. CodeOfSome(Len(imageSegments))' = CodeOfSome(Len(imageSegments))
          BY <3>1 DEF CodeOfSome
        <4> QED
          BY <2>1, <3>1, <4>1, <4>2 DEF ImageInv, Protects
      <3>5. Checks'
        BY <2>1, <3>1 DEF ImageInv, Checks, Image!CallbacksFit, Image!Callbacks, Image!InCode, Image!Mapped
      <3> QED
        BY <3>2, <3>3, <3>4, <3>5 DEF ImageInv
    <2>2. UNCHANGED MCVars => UNCHANGED ImageVars /\ part' = part
      BY DEF MCVars
    <2>3. ASSUME MCNext, ImageInv, part = "image" PROVE ImageInv'
      BY <2>3, ImageStep DEF MCNext
    <2>4. MCNext => part' = part
      BY DEF MCNext
    <2> QED
      BY <2>1, <2>2, <2>3, <2>4
  <1> QED
    BY <1>1, <1>2, PTL DEF MCSpec


-----------------------------------------------------------------------------
(* The title's memory, for any number of threads, spans, blocks and calls.     *)

BlockIs == [size : Nat, due : Nat, kept : Nat, zero : BOOLEAN]
CallIs == [at : {"idle", "allocate", "link", "resize", "copy", "release", "unmap"}, route : {"title", "core", "menu"},
           size : Nat, old : Memory!Pointers \cup {Memory!None}, was : BlockIs, has : Nat,
           new : Memory!Pointers \cup {Memory!None}, wipe : BOOLEAN, unmap : Memory!Pointers \cup {Memory!None}]

\* The blocks a call has in hand, which the program does not hold, and the span it has out of every list.
InHand(c) ==
    CASE c.at = "allocate"             -> {c.old} \ {Memory!None}
      [] c.at = "link"                 -> {c.old, c.new} \ {Memory!None}
      [] c.at \in {"resize", "release"} -> {c.old}
      [] c.at = "copy"                 -> {c.old, c.new}
      [] OTHER                         -> {}
SpansOf(c) == CASE c.at = "link" -> {c.new[2]} [] c.at = "unmap" -> {c.unmap[2]} [] OTHER -> {}

ListTypes ==
    /\ memoryOs \in [MemorySpans -> {"free", "mapping", "small", "big"}] /\ memorySlabs \subseteq MemorySpans
    /\ memoryMappings \in [MemorySpans -> Nat] /\ memorySlots \in [MemorySpans -> [1 .. MemorySlots -> Nat]]
HeapTypes == memoryDirect \in [MemoryIds -> Nat] /\ memoryNative \in [MemoryIds -> Nat]
CallTypes == memoryCall \in [MemoryThreads -> CallIs] /\ memoryCalls \in 0 .. MemoryCalls

\* A block of the program's: its contents are all there, and no larger than it is.
Whole(b) == b.kept = b.due /\ b.due <= b.size
BlockTypes == memoryBlocks \in [Memory!Pointers -> BlockIs] /\ \A p \in Memory!Pointers : Whole(memoryBlocks[p])

\* An entry of a list is of memory that is mapped, a slab with a slot taken; what is mapped is in one
\* list, or on its way into it or out of it, in one call's hands.
Lists ==
    /\ \A k \in memorySlabs : /\ memoryOs[k] \in {"small", "big"} /\ memoryMappings[k] = 0
                              /\ \E i \in 1 .. MemorySlots : memorySlots[k][i] # 0
    /\ \A k \in MemorySpans : memoryMappings[k] # 0 => memoryOs[k] = "mapping"
    /\ \A k \in MemorySpans \ memorySlabs : \A i \in 1 .. MemorySlots : memorySlots[k][i] = 0
Unlisted(k) == memoryOs[k] # "free" /\ memoryMappings[k] = 0 /\ k \notin memorySlabs
SpansTheirs ==
    /\ \A t \in MemoryThreads : \A k \in SpansOf(memoryCall[t]) : k \in MemorySpans /\ Unlisted(k)
    /\ \A t, u \in MemoryThreads : t # u => SpansOf(memoryCall[t]) \cap SpansOf(memoryCall[u]) = {}
SpansKnown == \A k \in MemorySpans : Unlisted(k) => \E t \in MemoryThreads : k \in SpansOf(memoryCall[t])

\* What an allocator has given out is held by the program or by one call.
FitsAs(p, size) == Memory!InMenu(p) => Memory!Stride(size) = memoryOs[p[2]]
Out(p, size) == Memory!Home(p) = size /\ FitsAs(p, size)
Held ==
    /\ \A p \in Memory!Pointers : memoryBlocks[p].size # 0 => Out(p, memoryBlocks[p].size)
    /\ \A t \in MemoryThreads : \A p \in InHand(memoryCall[t]) : p \in Memory!Pointers /\ memoryBlocks[p].size = 0
    /\ \A t, u \in MemoryThreads : t # u => InHand(memoryCall[t]) \cap InHand(memoryCall[u]) = {}
Known ==
    \A p \in Memory!Pointers : Memory!Home(p) # 0 =>
        memoryBlocks[p].size # 0 \/ \E t \in MemoryThreads : p \in InHand(memoryCall[t])

\* Where each call is.
Was(c) == c.was.size > 0 /\ Whole(c.was) /\ Out(c.old, c.was.size)
CallOK(c) ==
    /\ c.at \in {"allocate", "link", "resize", "copy"} => c.size > 0
    /\ c.at \in {"allocate", "link"} /\ c.old # Memory!None => Was(c) /\ c.has = c.was.size
    /\ c.at = "link" => c.new # c.old /\ \E k \in MemorySpans : c.new = <<"span", k, 0>> /\ memoryOs[k] = "mapping"
    /\ c.at = "resize" => c.old # Memory!None /\ Was(c)
    /\ c.at = "copy" => /\ c.old # Memory!None /\ c.new # Memory!None /\ c.new # c.old
                        /\ Was(c) /\ c.has = c.was.size /\ Out(c.new, c.size)
    /\ c.at = "release" => c.old # Memory!None /\ Memory!Home(c.old) # 0
    /\ c.at = "unmap" => c.unmap # Memory!None /\ c.unmap[1] = "span"
CallsOK == \A t \in MemoryThreads : CallOK(memoryCall[t])

MemInv ==
    /\ ListTypes /\ HeapTypes /\ CallTypes /\ BlockTypes
    /\ Lists /\ SpansTheirs /\ SpansKnown /\ Held /\ Known /\ CallsOK

LEMMA MemoryBounds ==
  /\ MemorySlots \in Nat /\ MemorySlots > 0 /\ MemoryCalls \in Nat
  /\ \A s \in MemorySizes : s \in Nat /\ s > 0
  BY MemoryAssumption DEF Memory!MemoryAssumption

\* A pointer says which allocator it is of, and where in it.
LEMMA PointerIs ==
  ASSUME NEW p \in Memory!Pointers
  PROVE /\ p # Memory!None
        /\ \/ p[1] = "direct" /\ p[2] \in MemoryIds /\ p[3] = 0 /\ p = <<"direct", p[2], 0>>
           \/ p[1] = "native" /\ p[2] \in MemoryIds /\ p[3] = 0 /\ p = <<"native", p[2], 0>>
           \/ p[1] = "span" /\ p[2] \in MemorySpans /\ p[3] \in 0 .. MemorySlots /\ p = <<"span", p[2], p[3]>>
  <1>1. CASE \E i \in MemoryIds : p = <<"direct", i, 0>>
    BY <1>1 DEF Memory!None
  <1>2. CASE \E i \in MemoryIds : p = <<"native", i, 0>>
    BY <1>2 DEF Memory!None
  <1>3. CASE \E k \in MemorySpans, i \in 0 .. MemorySlots : p = <<"span", k, i>>
    BY <1>3 DEF Memory!None
  <1> QED
    BY <1>1, <1>2, <1>3 DEF Memory!Pointers

LEMMA PointersAre ==
  /\ \A i \in MemoryIds : <<"direct", i, 0>> \in Memory!Pointers /\ <<"native", i, 0>> \in Memory!Pointers
  /\ \A k \in MemorySpans : \A i \in 0 .. MemorySlots : <<"span", k, i>> \in Memory!Pointers
  BY DEF Memory!Pointers

\* A pointer that is left where it is: given out as it was, if it was.
SameHome(p) ==
    /\ Memory!Home(p)' = Memory!Home(p)
    /\ Memory!Home(p) # 0 => \A size \in Nat : FitsAs(p, size)' = FitsAs(p, size)
LEMMA SameOut ==
  ASSUME NEW p, NEW size \in Nat, size # 0, SameHome(p), Out(p, size) PROVE Out(p, size)'
  BY DEF SameHome, Out

LEMMA OtherCall ==
  ASSUME NEW d \in CallIs, CallOK(d), \A p \in InHand(d) : SameHome(p), \A k \in SpansOf(d) : memoryOs'[k] = memoryOs[k]
  PROVE CallOK(d)'
  <1>1. d.size \in Nat /\ d.was.size \in Nat
    BY DEF CallIs, BlockIs
  <1>2. ASSUME Was(d), d.old \in InHand(d) PROVE Was(d)'
    BY <1>1, <1>2, SameOut DEF Was
  <1>3. CASE d.at \in {"allocate", "idle"}
    BY <1>2, <1>3 DEF CallOK, InHand
  <1>4. CASE d.at = "link"
    <2>1. memoryOs'[d.new[2]] = memoryOs[d.new[2]]
      BY <1>4 DEF SpansOf
    <2>2. d.old # Memory!None => Was(d)'
      BY <1>2, <1>4 DEF CallOK, InHand
    <2>3. PICK k \in MemorySpans : d.new = <<"span", k, 0>> /\ memoryOs[k] = "mapping"
      BY <1>4 DEF CallOK
    <2>4. memoryOs'[k] = "mapping"
      BY <2>1, <2>3
    <2> QED
      BY <1>4, <2>2, <2>3, <2>4 DEF CallOK
  <1>5. CASE d.at = "resize"
    BY <1>2, <1>5 DEF CallOK, InHand
  <1>6. CASE d.at = "copy"
    <2>1. Out(d.new, d.size)'
      BY <1>1, <1>6, SameOut DEF CallOK, InHand
    <2> QED
      BY <1>2, <1>6, <2>1 DEF CallOK, InHand
  <1>7. CASE d.at = "release"
    <2>1. Memory!Home(d.old)' = Memory!Home(d.old)
      BY <1>7 DEF InHand, SameHome
    <2> QED
      BY <1>7, <2>1 DEF CallOK
  <1>8. CASE d.at = "unmap"
    BY <1>8 DEF CallOK
  <1> QED
    BY <1>3, <1>4, <1>5, <1>6, <1>7, <1>8 DEF CallIs

Touched(Q) == Q \subseteq Memory!Pointers

\* A step of one call changes only blocks in its own hands, now or before, and its own span.
LEMMA CallStep ==
  ASSUME MemInv, NEW t \in MemoryThreads, NEW c \in CallIs, memoryCall' = [memoryCall EXCEPT ![t] = c],
         memoryCalls' \in 0 .. MemoryCalls, ListTypes', HeapTypes', BlockTypes', Lists', CallOK(c)',
         NEW Q, Touched(Q), InHand(memoryCall[t]) \subseteq Q, InHand(c) \subseteq Q,
         \A p \in Q : \A u \in MemoryThreads : u # t => p \notin InHand(memoryCall[u]),
         \A p \in Memory!Pointers \ Q : memoryBlocks'[p] = memoryBlocks[p] /\ SameHome(p),
         \A p \in Q : memoryBlocks'[p].size # 0 => Out(p, memoryBlocks[p].size)' /\ p \notin InHand(c),
         \A p \in Q : Memory!Home(p)' # 0 => memoryBlocks'[p].size # 0 \/ p \in InHand(c),
         \A u \in MemoryThreads : u # t => \A k \in SpansOf(memoryCall[u]) :
            Unlisted(k)' /\ k \notin SpansOf(c) /\ memoryOs'[k] = memoryOs[k],
         \A k \in SpansOf(c) : k \in MemorySpans /\ Unlisted(k)',
         \A k \in MemorySpans : Unlisted(k)' => k \in SpansOf(c) \/ (Unlisted(k) /\ k \notin SpansOf(memoryCall[t]))
  PROVE MemInv'
  <1>1. memoryCall \in [MemoryThreads -> CallIs]
    BY DEF MemInv, CallTypes
  <1>2. /\ memoryCall'[t] = c /\ \A u \in MemoryThreads : u # t => memoryCall'[u] = memoryCall[u]
        /\ memoryCall' \in [MemoryThreads -> CallIs]
    BY <1>1
  <1>3. CallTypes'
    BY <1>2 DEF CallTypes
  <1>4. SpansTheirs'
    <2>1. ASSUME NEW u \in MemoryThreads, NEW k \in SpansOf(memoryCall'[u]) PROVE k \in MemorySpans /\ Unlisted(k)'
      BY <1>2, <2>1 DEF MemInv, SpansTheirs
    <2>2. ASSUME NEW u \in MemoryThreads, NEW v \in MemoryThreads, u # v, NEW k \in SpansOf(memoryCall'[u]), k \in SpansOf(memoryCall'[v])
          PROVE FALSE
      <3>1. CASE u # t /\ v # t
        BY <1>2, <2>2, <3>1 DEF MemInv, SpansTheirs
      <3>2. CASE u = t \/ v = t
        BY <1>2, <2>2, <3>2
      <3> QED
        BY <3>1, <3>2
    <2> QED
      BY <2>1, <2>2 DEF SpansTheirs, SpansOf
  <1>5. SpansKnown'
    <2>1. ASSUME NEW k \in MemorySpans, Unlisted(k)' PROVE \E u \in MemoryThreads : k \in SpansOf(memoryCall'[u])
      <3>1. CASE k \in SpansOf(c)
        BY <1>2, <3>1
      <3>2. CASE Unlisted(k) /\ k \notin SpansOf(memoryCall[t])
        BY <1>2, <3>2 DEF MemInv, SpansKnown
      <3> QED
        BY <2>1, <3>1, <3>2
    <2> QED
      BY <2>1 DEF SpansKnown, SpansOf
  <1>6. ASSUME NEW u \in MemoryThreads, u # t, NEW p \in InHand(memoryCall[u])
        PROVE p \in Memory!Pointers \ Q /\ memoryBlocks'[p].size = 0 /\ SameHome(p)
    BY <1>6 DEF MemInv, Held
  <1>7. Held'
    <2>1. ASSUME NEW p \in Memory!Pointers, memoryBlocks'[p].size # 0 PROVE Out(p, memoryBlocks[p].size)'
      <3>1. CASE p \in Q
        BY <2>1, <3>1
      <3>2. CASE p \notin Q
        <4>1. memoryBlocks'[p] = memoryBlocks[p] /\ SameHome(p) /\ memoryBlocks[p].size \in Nat
          BY <3>2 DEF MemInv, BlockTypes, BlockIs
        <4>2. Out(p, memoryBlocks[p].size)
          BY <2>1, <4>1 DEF MemInv, Held
        <4> DEFINE size == memoryBlocks[p].size
        <4>3. Out(p, memoryBlocks[p].size)' <=> (Memory!Home(p)' = memoryBlocks'[p].size /\ FitsAs(p, memoryBlocks[p].size)')
          BY DEF Out
        <4>4. FitsAs(p, memoryBlocks[p].size)' = FitsAs(p, memoryBlocks[p].size)
          <5>1. \A s \in Nat : FitsAs(p, s)' = FitsAs(p, s)
            BY <2>1, <4>1, <4>2 DEF SameHome, Out
          <5>2. ASSUME NEW s \in Nat, s = memoryBlocks[p].size PROVE FitsAs(p, memoryBlocks[p].size)' = FitsAs(p, memoryBlocks[p].size)
            BY <4>1, <5>1, <5>2 DEF FitsAs
          <5> QED
            BY <4>1, <5>2
        <4> QED
          BY <2>1, <4>1, <4>2, <4>3, <4>4 DEF Out, SameHome
      <3> QED
        BY <3>1, <3>2
    <2>2. ASSUME NEW u \in MemoryThreads, NEW p \in InHand(memoryCall'[u]) PROVE p \in Memory!Pointers /\ memoryBlocks'[p].size = 0
      <3>1. CASE u = t
        BY <1>2, <2>2, <3>1 DEF Touched
      <3>2. CASE u # t
        BY <1>2, <1>6, <2>2, <3>2
      <3> QED
        BY <3>1, <3>2
    <2>3. ASSUME NEW u \in MemoryThreads, NEW v \in MemoryThreads, u # v, NEW p \in InHand(memoryCall'[u]), p \in InHand(memoryCall'[v])
          PROVE FALSE
      <3>1. CASE u # t /\ v # t
        BY <1>2, <2>3, <3>1 DEF MemInv, Held
      <3>2. CASE u = t \/ v = t
        BY <1>2, <2>3, <3>2
      <3> QED
        BY <3>1, <3>2
    <2> QED
      BY <2>1, <2>2, <2>3 DEF Held, InHand
  <1>8. Known'
    <2>1. ASSUME NEW p \in Memory!Pointers, Memory!Home(p)' # 0
          PROVE memoryBlocks'[p].size # 0 \/ \E u \in MemoryThreads : p \in InHand(memoryCall'[u])
      <3>1. CASE p \in Q
        BY <1>2, <2>1, <3>1
      <3>2. CASE p \notin Q
        <4>1. memoryBlocks'[p] = memoryBlocks[p] /\ Memory!Home(p) # 0
          BY <2>1, <3>2 DEF SameHome
        <4>2. memoryBlocks[p].size # 0 \/ \E u \in MemoryThreads : p \in InHand(memoryCall[u])
          BY <4>1 DEF MemInv, Known
        <4> QED
          BY <1>2, <3>2, <4>1, <4>2
      <3> QED
        BY <3>1, <3>2
    <2> QED
      BY <2>1 DEF Known, InHand
  <1>9. CallsOK'
    <2>1. ASSUME NEW u \in MemoryThreads, u # t PROVE CallOK(memoryCall[u])'
      <3>1. PICK d \in CallIs : d = memoryCall[u] /\ d = memoryCall'[u]
        BY <1>1, <1>2, <2>1
      <3>2. CallOK(d)
        BY <3>1 DEF MemInv, CallsOK
      <3>3. \A p \in InHand(d) : SameHome(p)
        BY <1>6, <2>1, <3>1
      <3>4. \A k \in SpansOf(d) : memoryOs'[k] = memoryOs[k]
        BY <2>1, <3>1
      <3>5. CallOK(d)'
        BY <3>2, <3>3, <3>4, OtherCall
      <3> QED
        BY <3>1, <3>5 DEF CallOK, Was, Out, FitsAs, Whole
    <2>2. CallOK(memoryCall[t])'
      BY <1>2 DEF CallOK, Was, Out, FitsAs, Whole
    <2> QED
      BY <2>1, <2>2 DEF CallsOK
  <1> QED
    BY <1>3, <1>4, <1>5, <1>7, <1>8, <1>9 DEF MemInv

\* Where the lists are as they were, a pointer into them is too; one of a heap is where its heap says.
LEMMA HomeIs ==
  ASSUME NEW p \in Memory!Pointers
  PROVE /\ p[1] = "direct" => Memory!Home(p) = memoryDirect[p[2]] /\ \A s : FitsAs(p, s)
        /\ p[1] = "native" => Memory!Home(p) = memoryNative[p[2]] /\ \A s : FitsAs(p, s)
        /\ p[1] = "span" => Memory!Home(p) = IF p[2] \in memorySlabs /\ p[3] # 0 THEN memorySlots[p[2]][p[3]]
                                             ELSE IF memoryMappings[p[2]] # 0 /\ p[3] = 0 THEN memoryMappings[p[2]] ELSE 0
  BY DEF Memory!Home, Memory!OldSize, Memory!InMenu, Memory!InList, FitsAs

LEMMA ListsStay ==
  ASSUME UNCHANGED <<memoryOs, memoryMappings, memorySlabs, memorySlots>>
  PROVE /\ \A p \in Memory!Pointers : p[1] = "span" => SameHome(p)
        /\ \A p \in Memory!Pointers : Memory!Home(p)' = Memory!Home(p) => SameHome(p)
        /\ \A k : Unlisted(k)' = Unlisted(k)
  <1>1. \A p : Memory!InMenu(p)' = Memory!InMenu(p) /\ Memory!OldSize(p)' = Memory!OldSize(p)
    BY DEF Memory!InMenu, Memory!OldSize, Memory!InList
  <1>2. \A p, s : FitsAs(p, s)' = FitsAs(p, s)
    BY DEF FitsAs, Memory!InMenu
  <1>3. ASSUME NEW p \in Memory!Pointers, p[1] = "span" PROVE Memory!Home(p)' = Memory!Home(p)
    BY <1>1, <1>3 DEF Memory!Home
  <1> QED
    BY <1>2, <1>3 DEF SameHome, Unlisted

\* What a call has in hand was given out, but for memory on its way into the list.
LEMMA HandIs ==
  ASSUME MemInv, NEW u \in MemoryThreads, NEW p \in InHand(memoryCall[u])
  PROVE /\ p \in Memory!Pointers /\ memoryBlocks[p].size = 0
        /\ Memory!Home(p) # 0 \/ (memoryCall[u].at = "link" /\ p[1] = "span" /\ p[2] \in SpansOf(memoryCall[u]) /\ p[3] = 0)
  <1>1. PICK d \in CallIs : d = memoryCall[u] /\ CallOK(d)
    BY DEF MemInv, CallsOK, CallTypes
  <1>2. p \in Memory!Pointers /\ memoryBlocks[p].size = 0 /\ p # Memory!None
    BY PointerIs DEF MemInv, Held
  <1>3. ASSUME Was(d) PROVE Memory!Home(d.old) # 0
    BY <1>3 DEF Was, Out
  <1>4. CASE d.at = "link" /\ p = d.new
    <2>1. PICK k \in MemorySpans : d.new = <<"span", k, 0>>
      BY <1>1, <1>4 DEF CallOK
    <2> QED
      BY <1>1, <1>2, <1>4, <2>1 DEF SpansOf
  <1>5. CASE d.at = "copy" /\ p = d.new
    BY <1>1, <1>2, <1>5 DEF CallOK, Out
  <1>6. CASE p = d.old
    BY <1>1, <1>2, <1>3, <1>6 DEF InHand, CallOK
  <1> QED
    BY <1>1, <1>4, <1>5, <1>6 DEF InHand

\* A call in one place, with the blocks it had before, leaves what was given out alone.
LEMMA QuietStep ==
  ASSUME MemInv, NEW t \in MemoryThreads, NEW c \in CallIs, memoryCall' = [memoryCall EXCEPT ![t] = c],
         memoryCalls' \in 0 .. MemoryCalls, UNCHANGED <<memoryOs, memoryMappings, memorySlabs, memorySlots>>,
         HeapTypes', BlockTypes', CallOK(c)', SpansOf(memoryCall[t]) = {}, SpansOf(c) = {},
         NEW Q, Touched(Q), InHand(memoryCall[t]) \subseteq Q, InHand(c) \subseteq Q,
         \A p \in Q : \A u \in MemoryThreads : u # t => p \notin InHand(memoryCall[u]),
         \A p \in Memory!Pointers \ Q : memoryBlocks'[p] = memoryBlocks[p] /\ Memory!Home(p)' = Memory!Home(p),
         \A p \in Q : memoryBlocks'[p].size # 0 => Out(p, memoryBlocks[p].size)' /\ p \notin InHand(c),
         \A p \in Q : Memory!Home(p)' # 0 => memoryBlocks'[p].size # 0 \/ p \in InHand(c)
  PROVE MemInv'
  <1>1. ListTypes' /\ Lists'
    BY DEF MemInv, ListTypes, Lists
  <1>2. \A p \in Memory!Pointers \ Q : SameHome(p)
    BY ListsStay
  <1>3. \A k : Unlisted(k)' = Unlisted(k)
    BY ListsStay
  <1>4. \A u \in MemoryThreads : u # t => \A k \in SpansOf(memoryCall[u]) :
            Unlisted(k)' /\ k \notin SpansOf(c) /\ memoryOs'[k] = memoryOs[k]
    BY <1>3 DEF MemInv, SpansTheirs
  <1>5. \A p \in Memory!Pointers \ Q : memoryBlocks'[p] = memoryBlocks[p] /\ SameHome(p)
    BY <1>2
  <1>6. \A k \in SpansOf(c) : k \in MemorySpans /\ Unlisted(k)'
    OBVIOUS
  <1>7. \A k \in MemorySpans : Unlisted(k)' => k \in SpansOf(c) \/ (Unlisted(k) /\ k \notin SpansOf(memoryCall[t]))
    BY <1>3
  <1> QED
    BY <1>1, <1>4, <1>5, <1>6, <1>7, CallStep

\* The fields of a call that begins.
LEMMA BeginsIs ==
  ASSUME CallTypes, NEW t \in MemoryThreads, NEW c \in CallIs, Memory!Begins(t, c)
  PROVE /\ memoryCall[t].at = "idle" /\ memoryCall' = [memoryCall EXCEPT ![t] = c] /\ memoryCalls' \in 0 .. MemoryCalls
        /\ InHand(memoryCall[t]) = {} /\ SpansOf(memoryCall[t]) = {}
  BY MemoryBounds DEF Memory!Begins, Memory!Step, CallTypes, InHand, SpansOf

LEMMA MallocKeeps ==
  ASSUME MemInv, NEW t \in MemoryThreads, NEW size \in MemorySizes, NEW route \in {"title", "core", "menu"},
         Memory!Malloc(t, size, route)
  PROVE MemInv'
  <1> DEFINE c == [Memory!Idle EXCEPT !.at = "allocate", !.route = route, !.size = size]
  <1>1. /\ c \in CallIs /\ c.at = "allocate" /\ c.size = size /\ c.old = Memory!None
    BY MemoryBounds DEF Memory!Idle, CallIs, BlockIs, Memory!NoBlock, Memory!None
  <1>2. /\ Memory!Begins(t, c) /\ UNCHANGED <<memoryOs, memoryMappings, memorySlabs, memorySlots>>
        /\ UNCHANGED <<memoryDirect, memoryNative, memoryBlocks>>
    BY DEF Memory!Malloc, Memory!lists, Memory!heaps
  <1> HIDE DEF c
  <1>3. InHand(c) = {} /\ SpansOf(c) = {} /\ CallOK(c)'
    BY <1>1, MemoryBounds DEF InHand, SpansOf, CallOK
  <1>4. HeapTypes' /\ BlockTypes' /\ \A p \in Memory!Pointers : Memory!Home(p)' = Memory!Home(p)
    BY <1>2 DEF MemInv, HeapTypes, BlockTypes, Memory!Home, Memory!OldSize, Memory!InMenu, Memory!InList
  <1>5. CallTypes
    BY DEF MemInv
  <1>6. Touched({})
    BY DEF Touched
  <1> QED
    BY <1>1, <1>2, <1>3, <1>4, <1>5, <1>6, BeginsIs, QuietStep


LEMMA CallOf ==
  ASSUME MemInv, NEW t \in MemoryThreads
  PROVE /\ \E d \in CallIs : d = memoryCall[t] /\ CallOK(d)
        /\ \A p \in InHand(memoryCall[t]) :
              /\ p \in Memory!Pointers /\ memoryBlocks[p].size = 0
              /\ \A u \in MemoryThreads : u # t => p \notin InHand(memoryCall[u])
  <1>1. \E d \in CallIs : d = memoryCall[t] /\ CallOK(d)
    BY DEF MemInv, CallsOK, CallTypes
  <1>2. \A p \in InHand(memoryCall[t]) : p \in Memory!Pointers /\ memoryBlocks[p].size = 0
    BY DEF MemInv, Held
  <1>3. \A p \in InHand(memoryCall[t]) : \A u \in MemoryThreads : u # t => p \notin InHand(memoryCall[u])
    BY DEF MemInv, Held
  <1> QED
    BY <1>1, <1>2, <1>3

LEMMA LiveIs ==
  ASSUME MemInv, NEW p \in Memory!Pointers, Memory!Live(p)
  PROVE /\ \A u \in MemoryThreads : p \notin InHand(memoryCall[u])
        /\ Out(p, memoryBlocks[p].size) /\ memoryBlocks[p] \in BlockIs /\ Whole(memoryBlocks[p]) /\ memoryBlocks[p].size > 0
  <1>1. memoryBlocks[p].size # 0 /\ memoryBlocks[p] \in BlockIs /\ Whole(memoryBlocks[p])
    BY DEF Memory!Live, MemInv, BlockTypes
  <1>2. Out(p, memoryBlocks[p].size)
    BY <1>1 DEF MemInv, Held
  <1>3. \A u \in MemoryThreads : p \notin InHand(memoryCall[u])
    BY <1>1, CallOf
  <1> QED
    BY <1>1, <1>2, <1>3 DEF BlockIs

LEMMA Untaken ==
  ASSUME MemInv, NEW p \in Memory!Pointers, Memory!Home(p) = 0, p[1] = "span" => ~Unlisted(p[2])
  PROVE memoryBlocks[p].size = 0 /\ \A u \in MemoryThreads : p \notin InHand(memoryCall[u])
  <1>1. memoryBlocks[p].size = 0
    BY DEF MemInv, Held, Out
  <1>2. ASSUME NEW u \in MemoryThreads, p \in InHand(memoryCall[u]) PROVE FALSE
    <2>1. p[1] = "span" /\ p[2] \in SpansOf(memoryCall[u])
      BY <1>2, HandIs
    <2> QED
      BY <2>1 DEF MemInv, SpansTheirs
  <1> QED
    BY <1>1, <1>2

LEMMA Idles ==
  /\ Memory!Idle \in CallIs /\ Memory!Idle.at = "idle" /\ CallOK(Memory!Idle) /\ CallOK(Memory!Idle)'
  /\ InHand(Memory!Idle) = {} /\ SpansOf(Memory!Idle) = {}
  BY DEF Memory!Idle, CallIs, BlockIs, Memory!NoBlock, Memory!None, CallOK, InHand, SpansOf

LEMMA NoBlockIs == Memory!NoBlock \in BlockIs /\ Whole(Memory!NoBlock) /\ Memory!NoBlock.size = 0
  BY DEF Memory!NoBlock, BlockIs, Whole

\* Nothing but the blocks the program holds: every pointer is where it was.
LEMMA HomesStay ==
  ASSUME UNCHANGED <<memoryOs, memoryMappings, memorySlabs, memorySlots>>, UNCHANGED <<memoryDirect, memoryNative>>
  PROVE /\ \A p : Memory!Home(p)' = Memory!Home(p)
        /\ \A p, s : Out(p, s)' = Out(p, s)
        /\ HeapTypes => HeapTypes'
  BY DEF Memory!Home, Memory!OldSize, Memory!InMenu, Memory!InList, Out, FitsAs, HeapTypes

LEMMA FreeKeeps ==
  ASSUME MemInv, NEW t \in MemoryThreads, NEW p \in Memory!Pointers, Memory!Free(t, p)
  PROVE MemInv'
  <1> DEFINE c == [Memory!Idle EXCEPT !.at = "release", !.old = p]
             Q == {p}
  <1>1. c \in CallIs /\ c.at = "release" /\ c.old = p /\ c.old # Memory!None
    BY PointerIs DEF Memory!Idle, CallIs, BlockIs, Memory!NoBlock, Memory!None
  <1>2. /\ Memory!Begins(t, c) /\ UNCHANGED <<memoryOs, memoryMappings, memorySlabs, memorySlots>>
        /\ UNCHANGED <<memoryDirect, memoryNative>>
        /\ Memory!Live(p) /\ memoryBlocks' = [memoryBlocks EXCEPT ![p] = Memory!NoBlock]
    BY DEF Memory!Free, Memory!lists, Memory!heaps
  <1> HIDE DEF c
  <1>3. InHand(c) = {p} /\ SpansOf(c) = {}
    BY <1>1 DEF InHand, SpansOf
  <1>4. HeapTypes' /\ \A q \in Memory!Pointers : Memory!Home(q)' = Memory!Home(q)
    BY <1>2, HomesStay DEF MemInv
  <1>5. BlockTypes' /\ memoryBlocks'[p].size = 0 /\ \A q \in Memory!Pointers : q # p => memoryBlocks'[q] = memoryBlocks[q]
    BY <1>2, NoBlockIs DEF MemInv, BlockTypes
  <1>6. CallOK(c)'
    BY <1>1, <1>2, <1>4, LiveIs DEF CallOK, Out
  <1>7. CallTypes
    BY DEF MemInv
  <1>8. Touched(Q) /\ \A q \in Q : \A u \in MemoryThreads : u # t => q \notin InHand(memoryCall[u])
    BY <1>2, LiveIs DEF Touched
  <1> QED
    BY <1>1, <1>2, <1>3, <1>4, <1>5, <1>6, <1>7, <1>8, BeginsIs, QuietStep

LEMMA ReallocKeeps ==
  ASSUME MemInv, NEW t \in MemoryThreads, NEW p \in Memory!Pointers, NEW size \in MemorySizes, Memory!Realloc(t, p, size)
  PROVE MemInv'
  <1> DEFINE c == [Memory!Idle EXCEPT !.at = "resize", !.size = size, !.old = p, !.was = memoryBlocks[p]]
             Q == {p}
  <1>1. /\ UNCHANGED <<memoryOs, memoryMappings, memorySlabs, memorySlots>>
        /\ UNCHANGED <<memoryDirect, memoryNative>>
        /\ Memory!Live(p) /\ memoryBlocks' = [memoryBlocks EXCEPT ![p] = Memory!NoBlock]
        /\ Memory!Begins(t, c)
    BY DEF Memory!Realloc, Memory!lists, Memory!heaps
  <1>2. PICK b \in BlockIs : b = memoryBlocks[p] /\ b.size > 0 /\ Whole(b) /\ Out(p, b.size)
    BY <1>1, LiveIs
  <1>3. c \in CallIs /\ c.at = "resize" /\ c.old = p /\ c.old # Memory!None /\ c.size = size /\ c.was = b
    BY <1>2, MemoryBounds, PointerIs DEF Memory!Idle, CallIs, BlockIs, Memory!NoBlock, Memory!None
  <1>4. PICK e \in CallIs : e = c
    BY <1>3
  <1> HIDE DEF c
  <1>5. InHand(e) = {p} /\ SpansOf(e) = {}
    BY <1>3, <1>4 DEF InHand, SpansOf
  <1>6. HeapTypes' /\ \A q \in Memory!Pointers : Memory!Home(q)' = Memory!Home(q)
    BY <1>1, HomesStay DEF MemInv
  <1>7. BlockTypes' /\ memoryBlocks'[p].size = 0 /\ \A q \in Memory!Pointers : q # p => memoryBlocks'[q] = memoryBlocks[q]
    BY <1>1, NoBlockIs DEF MemInv, BlockTypes
  <1>8. CallOK(e)'
    <2>1. Out(p, b.size)'
      BY <1>1, <1>2, HomesStay
    <2>2. e.at = "resize" /\ e.old = p /\ e.old # Memory!None /\ e.size > 0 /\ e.was = b
      BY <1>3, <1>4, MemoryBounds
    <2> QED
      BY <1>2, <2>1, <2>2 DEF CallOK, Was
  <1>9. CallTypes
    BY DEF MemInv
  <1>10. Touched(Q) /\ \A q \in Q : \A u \in MemoryThreads : u # t => q \notin InHand(memoryCall[u])
    BY <1>1, LiveIs DEF Touched
  <1>11. Memory!Begins(t, e)
    BY <1>1, <1>4
  <1> QED
    BY <1>1, <1>5, <1>6, <1>7, <1>8, <1>9, <1>10, <1>11, BeginsIs, QuietStep

\* The end of a call that asked for nothing, or got nothing.
LEMMA GetsNothingKeeps ==
  ASSUME MemInv, NEW t \in MemoryThreads, memoryCall[t].at \in {"allocate", "resize"}, Memory!GetsNothing(t),
         UNCHANGED <<memoryOs, memoryMappings, memorySlabs, memorySlots>>, UNCHANGED <<memoryDirect, memoryNative>>,
         UNCHANGED memoryCalls
  PROVE MemInv'
  <1>1. PICK d \in CallIs : d = memoryCall[t] /\ CallOK(d)
    BY CallOf
  <1> DEFINE Q == {d.old} \ {Memory!None}
  <1>2. memoryCall' = [memoryCall EXCEPT ![t] = Memory!Idle]
    BY DEF Memory!GetsNothing, Memory!Step
  <1>3. HeapTypes' /\ \A q \in Memory!Pointers : Memory!Home(q)' = Memory!Home(q)
    BY HomesStay DEF MemInv
  <1>4. InHand(memoryCall[t]) = Q /\ SpansOf(memoryCall[t]) = {}
    BY <1>1 DEF InHand, SpansOf, CallOK
  <1>5. Touched(Q)
    BY DEF CallIs, Touched
  <1>6. CASE d.old = Memory!None
    <2>1. memoryBlocks' = memoryBlocks
      BY <1>1, <1>6 DEF Memory!GetsNothing
    <2>2. BlockTypes'
      BY <2>1 DEF MemInv, BlockTypes
    <2>3. Q = {}
      BY <1>6
    <2> HIDE DEF Q
    <2>4. memoryCalls' \in 0 .. MemoryCalls
      BY DEF MemInv, CallTypes
    <2> QED
      BY <1>2, <1>3, <1>4, <1>5, <2>1, <2>2, <2>3, <2>4, Idles, QuietStep
  <1>7. CASE d.old # Memory!None
    <2>1. memoryBlocks' = [memoryBlocks EXCEPT ![d.old] = d.was]
      BY <1>1, <1>7 DEF Memory!GetsNothing
    <2>2. Was(d) /\ d.was \in BlockIs /\ d.old \in Memory!Pointers
      BY <1>1, <1>7 DEF CallOK, CallIs
    <2>3. /\ BlockTypes' /\ memoryBlocks'[d.old] = d.was
          /\ \A q \in Memory!Pointers : q # d.old => memoryBlocks'[q] = memoryBlocks[q]
      BY <2>1, <2>2 DEF MemInv, BlockTypes, Was
    <2>4. Out(d.old, d.was.size)' /\ d.was.size # 0
      BY <2>2, HomesStay DEF Was, BlockIs
    <2>5. Out(d.old, memoryBlocks[d.old].size)'
      BY <2>3, <2>4 DEF Out, FitsAs
    <2>6. memoryCalls' \in 0 .. MemoryCalls
      BY DEF MemInv, CallTypes
    <2>7. \A p \in Q : \A u \in MemoryThreads : u # t => p \notin InHand(memoryCall[u])
      BY <1>4, CallOf
    <2>8. \A p \in Q : memoryBlocks'[p].size # 0 => Out(p, memoryBlocks[p].size)' /\ p \notin InHand(Memory!Idle)
      BY <2>5, Idles
    <2>9. \A p \in Q : Memory!Home(p)' # 0 => memoryBlocks'[p].size # 0 \/ p \in InHand(Memory!Idle)
      BY <2>3, <2>4
    <2>10. \A p \in Memory!Pointers \ Q : memoryBlocks'[p] = memoryBlocks[p] /\ Memory!Home(p)' = Memory!Home(p)
      BY <1>3, <2>3, <1>7
    <2>11. InHand(memoryCall[t]) \subseteq Q /\ InHand(Memory!Idle) \subseteq Q
      BY <1>4, Idles
    <2> HIDE DEF Q
    <2> QED
      BY <1>2, <1>3, <1>4, <1>5, <2>3, <2>6, <2>7, <2>8, <2>9, <2>10, <2>11, Idles, QuietStep
  <1> QED
    BY <1>6, <1>7


\* The bounds hold what they held.
LEMMA SameCalls == ASSUME MemInv, UNCHANGED memoryCalls PROVE memoryCalls' \in 0 .. MemoryCalls
  BY DEF MemInv, CallTypes

LEMMA LibraryKeeps ==
  ASSUME MemInv, NEW t \in MemoryThreads, NEW i \in MemoryIds, NEW size \in MemorySizes, Memory!Library(t, i, size)
  PROVE MemInv'
  <1>1. PICK d \in CallIs : d = memoryCall[t] /\ CallOK(d)
    BY CallOf
  <1>2. PICK p \in Memory!Pointers : p = <<"native", i, 0>>
    BY PointersAre
  <1> DEFINE Q == {p}
  <1>3. /\ UNCHANGED <<memoryOs, memoryMappings, memorySlabs, memorySlots>> /\ memoryDirect' = memoryDirect
        /\ memoryNative[i] = 0 /\ memoryNative' = [memoryNative EXCEPT ![i] = size]
        /\ memoryBlocks' = [memoryBlocks EXCEPT ![p] = Memory!Fresh(size, TRUE)]
        /\ memoryCall' = memoryCall /\ d.at = "idle" /\ memoryCalls' \in 0 .. MemoryCalls
    BY <1>1, <1>2, MemoryBounds DEF Memory!Library, Memory!lists, MemInv, CallTypes
  <1>4. memoryCall' = [memoryCall EXCEPT ![t] = d]
    BY <1>1, <1>3 DEF MemInv, CallTypes
  <1>5. InHand(d) = {} /\ SpansOf(d) = {} /\ CallOK(d)'
    BY <1>3 DEF InHand, SpansOf, CallOK
  <1>6. HeapTypes'
    BY <1>3, MemoryBounds DEF MemInv, HeapTypes
  <1>7. Memory!Home(p) = 0 /\ Memory!Home(p)' = size /\ Out(p, size)'
    BY <1>2, <1>3, HomeIs DEF MemInv, HeapTypes, Memory!Home, Out, FitsAs, Memory!InMenu
  <1>8. /\ BlockTypes' /\ memoryBlocks'[p].size = size
        /\ \A q \in Memory!Pointers : q # p => memoryBlocks'[q] = memoryBlocks[q]
    BY <1>3, MemoryBounds DEF MemInv, BlockTypes, Memory!Fresh, BlockIs, Whole
  <1>9. ASSUME NEW q \in Memory!Pointers, q # p PROVE Memory!Home(q)' = Memory!Home(q)
    <2>1. CASE q[1] = "native"
      BY <1>2, <1>3, <1>9, <2>1, PointerIs DEF Memory!Home, MemInv, HeapTypes
    <2>2. CASE q[1] = "direct"
      BY <1>3, <2>2 DEF Memory!Home
    <2>3. CASE q[1] = "span"
      BY <1>3, <2>3, ListsStay DEF SameHome
    <2> QED
      BY <2>1, <2>2, <2>3, PointerIs
  <1>10. \A q \in Q : \A u \in MemoryThreads : u # t => q \notin InHand(memoryCall[u])
    BY <1>2, <1>7, Untaken
  <1>11. \A q \in Q : memoryBlocks'[q].size # 0 => Out(q, memoryBlocks[q].size)' /\ q \notin InHand(d)
    BY <1>5, <1>7, <1>8 DEF Out, FitsAs
  <1>12. \A q \in Q : Memory!Home(q)' # 0 => memoryBlocks'[q].size # 0 \/ q \in InHand(d)
    BY <1>8, MemoryBounds
  <1>13. \A q \in Memory!Pointers \ Q : memoryBlocks'[q] = memoryBlocks[q] /\ Memory!Home(q)' = Memory!Home(q)
    BY <1>8, <1>9
  <1>14. InHand(memoryCall[t]) \subseteq Q /\ InHand(d) \subseteq Q /\ SpansOf(memoryCall[t]) = {}
    BY <1>1, <1>5
  <1> HIDE DEF Q
  <1>15. Touched(Q)
    BY DEF Q, Touched
  <1>16. UNCHANGED <<memoryOs, memoryMappings, memorySlabs, memorySlots>> /\ memoryCalls' \in 0 .. MemoryCalls /\ BlockTypes'
    BY <1>3, <1>8
  <1>17. CallOK(d)' /\ SpansOf(d) = {}
    BY <1>5
  <1> QED
    BY <1>4, <1>6, <1>10, <1>11, <1>12, <1>13, <1>14, <1>15, <1>16, <1>17, QuietStep

\* A block that is resized keeps as much as both its sizes have.
LEMMA KeptIs ==
  ASSUME NEW c \in CallIs, Whole(c.was), NEW n \in Nat, n = c.size \/ (n <= c.size /\ n >= Memory!Smaller(c.was.size, c.size))
  PROVE Memory!Kept(c, n) \in BlockIs /\ Whole(Memory!Kept(c, n)) /\ Memory!Kept(c, n).size = c.size
  <1>1. c.size \in Nat /\ c.was.size \in Nat /\ c.was.due \in Nat /\ c.was.kept \in Nat
    BY DEF CallIs, BlockIs
  <1>2. Memory!Smaller(c.was.due, c.size) = Memory!Smaller(c.was.kept, n)
    BY <1>1 DEF Memory!Smaller, Whole
  <1>3. Memory!Smaller(c.was.due, c.size) \in Nat /\ Memory!Smaller(c.was.due, c.size) <= c.size
    BY <1>1 DEF Memory!Smaller
  <1> QED
    BY <1>1, <1>2, <1>3 DEF Memory!Kept, BlockIs, Whole

LEMMA CopyKeeps ==
  ASSUME MemInv, NEW t \in MemoryThreads, Memory!Copy(t)
  PROVE MemInv'
  <1>1. PICK d \in CallIs : d = memoryCall[t] /\ CallOK(d)
    BY CallOf
  <1>2. PICK c \in CallIs : c = [d EXCEPT !.at = "release"]
    BY DEF CallIs
  <1> DEFINE b == Memory!Kept(d, Memory!Smaller(d.has, d.size))
             Q == {d.old, d.new}
  <1>3. /\ d.at = "copy" /\ memoryCall' = [memoryCall EXCEPT ![t] = c]
        /\ memoryBlocks' = [memoryBlocks EXCEPT ![d.new] = b]
        /\ UNCHANGED <<memoryOs, memoryMappings, memorySlabs, memorySlots>> /\ UNCHANGED <<memoryDirect, memoryNative>>
        /\ UNCHANGED memoryCalls
    BY <1>1, <1>2 DEF Memory!Copy, Memory!Step, Memory!lists, Memory!heaps
  <1>4. /\ d.old \in Memory!Pointers /\ d.new \in Memory!Pointers /\ d.new # d.old
        /\ Was(d) /\ d.has = d.was.size /\ Out(d.new, d.size) /\ d.size > 0
    BY <1>1, <1>3 DEF CallOK, CallIs
  <1>5. b \in BlockIs /\ Whole(b) /\ b.size = d.size
    <2>1. d.has \in Nat /\ d.size \in Nat /\ d.was.size \in Nat
      BY DEF CallIs, BlockIs
    <2>2. PICK n \in Nat : n = Memory!Smaller(d.has, d.size) /\ n <= d.size /\ n >= Memory!Smaller(d.was.size, d.size)
      BY <1>4, <2>1 DEF Memory!Smaller
    <2> QED
      BY <1>4, <2>2, KeptIs DEF Was
  <1> HIDE DEF b
  <1>6. HeapTypes' /\ \A q \in Memory!Pointers : Memory!Home(q)' = Memory!Home(q)
    BY <1>3, HomesStay DEF MemInv
  <1>7. BlockTypes' /\ memoryBlocks'[d.new] = b /\ \A q \in Memory!Pointers : q # d.new => memoryBlocks'[q] = memoryBlocks[q]
    <2>1. memoryBlocks \in [Memory!Pointers -> BlockIs] /\ \A q \in Memory!Pointers : Whole(memoryBlocks[q])
      BY DEF MemInv, BlockTypes
    <2>2. memoryBlocks' \in [Memory!Pointers -> BlockIs]
      BY <1>3, <1>5, <2>1
    <2>3. memoryBlocks'[d.new] = b /\ \A q \in Memory!Pointers : q # d.new => memoryBlocks'[q] = memoryBlocks[q]
      BY <1>3, <1>4, <2>1
    <2>4. \A q \in Memory!Pointers : Whole(memoryBlocks'[q])
      BY <1>5, <2>1, <2>3
    <2> QED
      BY <2>2, <2>3, <2>4 DEF BlockTypes
  <1>8. c.at = "release" /\ c.old = d.old
    BY <1>2 DEF CallIs
  <1>9. InHand(memoryCall[t]) = Q /\ InHand(c) = {d.old} /\ SpansOf(memoryCall[t]) = {} /\ SpansOf(c) = {}
    BY <1>1, <1>3, <1>8 DEF InHand, SpansOf
  <1>10. CallOK(c)'
    BY <1>3, <1>4, <1>6, <1>8, PointerIs DEF CallOK, Was, Out, BlockIs, CallIs
  <1>11. \A q \in Q : \A u \in MemoryThreads : u # t => q \notin InHand(memoryCall[u])
    BY <1>9, CallOf
  <1>12. memoryBlocks'[d.old].size = 0
    BY <1>4, <1>7, <1>9, CallOf
  <1>13. Out(d.new, memoryBlocks[d.new].size)'
    BY <1>3, <1>4, <1>5, <1>7, HomesStay DEF Out, FitsAs
  <1>14. \A q \in Q : memoryBlocks'[q].size # 0 => Out(q, memoryBlocks[q].size)' /\ q \notin InHand(c)
    BY <1>4, <1>9, <1>12, <1>13
  <1>15. \A q \in Q : Memory!Home(q)' # 0 => memoryBlocks'[q].size # 0 \/ q \in InHand(c)
    BY <1>4, <1>5, <1>7, <1>9
  <1>16. \A q \in Memory!Pointers \ Q : memoryBlocks'[q] = memoryBlocks[q] /\ Memory!Home(q)' = Memory!Home(q)
    BY <1>6, <1>7
  <1>17. Touched(Q) /\ InHand(memoryCall[t]) \subseteq Q /\ InHand(c) \subseteq Q
    BY <1>4, <1>9 DEF Touched
  <1> HIDE DEF Q
  <1>18. UNCHANGED <<memoryOs, memoryMappings, memorySlabs, memorySlots>> /\ memoryCalls' \in 0 .. MemoryCalls /\ BlockTypes'
    BY <1>3, <1>7, SameCalls
  <1>19. SpansOf(memoryCall[t]) = {} /\ SpansOf(c) = {} /\ memoryCall' = [memoryCall EXCEPT ![t] = c]
    BY <1>3, <1>9
  <1> QED
    BY <1>6, <1>10, <1>11, <1>14, <1>15, <1>16, <1>17, <1>18, <1>19, QuietStep

LEMMA ResizeKeeps ==
  ASSUME MemInv, NEW t \in MemoryThreads, Memory!Resize(t)
  PROVE MemInv'
  <1>1. PICK d \in CallIs : d = memoryCall[t] /\ CallOK(d)
    BY CallOf
  <1>2. /\ d.at = "resize" /\ (Memory!InMenu(d.old) \/ Memory!InList(d.old))
        /\ UNCHANGED <<memoryOs, memoryMappings, memorySlabs, memorySlots>> /\ UNCHANGED <<memoryDirect, memoryNative>>
        /\ UNCHANGED memoryCalls /\ memoryBlocks' = memoryBlocks
    BY <1>1 DEF Memory!Resize, Memory!lists, Memory!heaps
  <1>3. /\ d.old \in Memory!Pointers /\ d.old # Memory!None /\ d.size > 0 /\ Was(d)
    BY <1>1, <1>2 DEF CallOK, CallIs
  <1>4. Memory!OldSize(d.old) = d.was.size
    BY <1>2, <1>3 DEF Was, Out, Memory!Home, Memory!InMenu, Memory!InList
  <1>5. PICK c \in CallIs : /\ memoryCall' = [memoryCall EXCEPT ![t] = c]
                           /\ c.at = "allocate" /\ c.old = d.old /\ c.was = d.was /\ c.has = d.was.size /\ c.size = d.size
    <2> DEFINE r == IF Memory!ToMenu(d.old, d.size) THEN "menu" ELSE "title"
               c == [d EXCEPT !.at = "allocate", !.has = d.was.size, !.route = r]
    <2>1. memoryCall' = [memoryCall EXCEPT ![t] = c]
      BY <1>1, <1>2, <1>4 DEF Memory!Resize, Memory!Step
    <2>2. r \in {"title", "core", "menu"}
      OBVIOUS
    <2>3. d.was.size \in Nat
      BY DEF CallIs, BlockIs
    <2> HIDE DEF r
    <2>4. c \in CallIs /\ c.at = "allocate" /\ c.old = d.old /\ c.was = d.was /\ c.has = d.was.size /\ c.size = d.size
      BY <2>2, <2>3 DEF CallIs
    <2> QED
      BY <2>1, <2>4
  <1> DEFINE Q == {d.old}
  <1>6. HeapTypes' /\ \A q \in Memory!Pointers : Memory!Home(q)' = Memory!Home(q)
    BY <1>2, HomesStay DEF MemInv
  <1>7. BlockTypes'
    BY <1>2 DEF MemInv, BlockTypes
  <1>8. InHand(memoryCall[t]) = Q /\ InHand(c) = Q /\ SpansOf(memoryCall[t]) = {} /\ SpansOf(c) = {}
    BY <1>1, <1>2, <1>3, <1>5 DEF InHand, SpansOf
  <1>9. CallOK(c)'
    <2>1. Out(d.old, d.was.size)'
      BY <1>2, <1>3, HomesStay DEF Was
    <2> QED
      BY <1>3, <1>5, <2>1 DEF CallOK, Was
  <1>10. \A q \in Q : \A u \in MemoryThreads : u # t => q \notin InHand(memoryCall[u])
    BY <1>8, CallOf
  <1>11. \A q \in Q : memoryBlocks'[q].size = 0
    BY <1>2, <1>8, CallOf
  <1>12. Touched(Q)
    BY <1>3 DEF Touched
  <1> HIDE DEF Q
  <1>13. UNCHANGED <<memoryOs, memoryMappings, memorySlabs, memorySlots>> /\ memoryCalls' \in 0 .. MemoryCalls
    BY <1>2, SameCalls
  <1>14. /\ SpansOf(memoryCall[t]) = {} /\ SpansOf(c) = {} /\ memoryCall' = [memoryCall EXCEPT ![t] = c]
         /\ InHand(memoryCall[t]) \subseteq Q /\ InHand(c) \subseteq Q
    BY <1>5, <1>8
  <1>15. \A q \in Memory!Pointers \ Q : memoryBlocks'[q] = memoryBlocks[q] /\ Memory!Home(q)' = Memory!Home(q)
    BY <1>2, <1>6
  <1>16. /\ \A q \in Q : memoryBlocks'[q].size # 0 => Out(q, memoryBlocks[q].size)' /\ q \notin InHand(c)
         /\ \A q \in Q : Memory!Home(q)' # 0 => memoryBlocks'[q].size # 0 \/ q \in InHand(c)
    BY <1>8, <1>11
  <1> QED
    BY <1>6, <1>7, <1>9, <1>10, <1>12, <1>13, <1>14, <1>15, <1>16, QuietStep


\* A block resized where its heap has it, or moved to a place of direct memory's.
LEMMA HeapMoves ==
  ASSUME MemInv, NEW t \in MemoryThreads, NEW d \in CallIs, d = memoryCall[t], d.at = "resize",
         NEW r \in Memory!Pointers, r[1] # "span", r = d.old \/ Memory!Home(r) = 0,
         UNCHANGED <<memoryOs, memoryMappings, memorySlabs, memorySlots>>, UNCHANGED memoryCalls, HeapTypes',
         memoryCall' = [memoryCall EXCEPT ![t] = Memory!Idle],
         memoryBlocks' = [memoryBlocks EXCEPT ![r] = Memory!Kept(d, d.size)],
         Memory!Home(r)' = d.size, r # d.old => Memory!Home(d.old)' = 0,
         \A q \in Memory!Pointers : q # r /\ q # d.old => Memory!Home(q)' = Memory!Home(q)
  PROVE MemInv'
  <1> DEFINE b == Memory!Kept(d, d.size)
             Q == {d.old, r}
  <1>1. /\ d.old \in Memory!Pointers /\ Was(d) /\ d.size > 0
    BY CallOf DEF CallOK, CallIs
  <1>2. b \in BlockIs /\ Whole(b) /\ b.size = d.size
    <2>1. d.size \in Nat /\ Whole(d.was)
      BY <1>1 DEF Was, CallIs
    <2> QED
      BY <2>1, KeptIs
  <1> HIDE DEF b
  <1>3. /\ memoryBlocks \in [Memory!Pointers -> BlockIs] /\ \A q \in Memory!Pointers : Whole(memoryBlocks[q])
    BY DEF MemInv, BlockTypes
  <1>4. memoryBlocks'[r] = b /\ \A q \in Memory!Pointers : q # r => memoryBlocks'[q] = memoryBlocks[q]
    BY <1>3 DEF b
  <1>5. BlockTypes'
    <2>1. memoryBlocks' \in [Memory!Pointers -> BlockIs]
      BY <1>2, <1>3 DEF b
    <2> QED
      BY <1>2, <1>3, <1>4, <2>1 DEF BlockTypes
  <1>6. InHand(memoryCall[t]) = {d.old} /\ SpansOf(memoryCall[t]) = {}
    BY DEF InHand, SpansOf
  <1>7. memoryBlocks[d.old].size = 0
    BY <1>6, CallOf
  <1>8. \A q \in Q : \A u \in MemoryThreads : u # t => q \notin InHand(memoryCall[u])
    BY <1>6, CallOf, Untaken
  <1>9. Out(r, memoryBlocks[r].size)'
    BY <1>2, <1>4 DEF Out, FitsAs, Memory!InMenu
  <1>10. \A q \in Q : memoryBlocks'[q].size # 0 => Out(q, memoryBlocks[q].size)' /\ q \notin InHand(Memory!Idle)
    BY <1>1, <1>4, <1>7, <1>9, Idles
  <1>11. \A q \in Q : Memory!Home(q)' # 0 => memoryBlocks'[q].size # 0 \/ q \in InHand(Memory!Idle)
    BY <1>1, <1>2, <1>4
  <1>12. \A q \in Memory!Pointers \ Q : memoryBlocks'[q] = memoryBlocks[q] /\ Memory!Home(q)' = Memory!Home(q)
    BY <1>4
  <1>13. Touched(Q) /\ InHand(memoryCall[t]) \subseteq Q /\ InHand(Memory!Idle) \subseteq Q
    BY <1>1, <1>6, Idles DEF Touched
  <1> HIDE DEF Q
  <1> QED
    BY <1>5, <1>6, <1>8, <1>10, <1>11, <1>12, <1>13, SameCalls, Idles, QuietStep

LEMMA ResizeDirectKeeps ==
  ASSUME MemInv, NEW t \in MemoryThreads, NEW i \in MemoryIds, Memory!ResizeDirect(t, i)
  PROVE MemInv'
  <1>1. PICK d \in CallIs : d = memoryCall[t] /\ CallOK(d)
    BY CallOf
  <1>2. PICK r \in Memory!Pointers : r = <<"direct", i, 0>>
    BY PointersAre
  <1>3. /\ d.at = "resize" /\ d.old[1] = "direct" /\ (i = d.old[2] \/ memoryDirect[i] = 0)
        /\ memoryDirect' = [[memoryDirect EXCEPT ![d.old[2]] = 0] EXCEPT ![i] = d.size]
        /\ memoryBlocks' = [memoryBlocks EXCEPT ![r] = Memory!Kept(d, d.size)]
        /\ memoryCall' = [memoryCall EXCEPT ![t] = Memory!Idle]
        /\ UNCHANGED <<memoryOs, memoryMappings, memorySlabs, memorySlots>> /\ UNCHANGED memoryCalls /\ memoryNative' = memoryNative
    BY <1>1, <1>2 DEF Memory!ResizeDirect, Memory!Step, Memory!lists, Memory!Grown
  <1>4. d.old \in Memory!Pointers /\ d.old = <<"direct", d.old[2], 0>> /\ d.old[2] \in MemoryIds /\ d.size \in Nat
    BY <1>1, <1>3, PointerIs DEF CallOK, CallIs
  <1>5. memoryDirect \in [MemoryIds -> Nat] /\ memoryNative \in [MemoryIds -> Nat]
    BY DEF MemInv, HeapTypes
  <1>6. HeapTypes'
    BY <1>3, <1>4, <1>5 DEF HeapTypes
  <1>7. /\ memoryDirect'[i] = d.size
        /\ d.old[2] # i => memoryDirect'[d.old[2]] = 0
        /\ \A j \in MemoryIds : j # i /\ j # d.old[2] => memoryDirect'[j] = memoryDirect[j]
    BY <1>3, <1>4, <1>5
  <1>8. r[1] = "direct" /\ Memory!Home(r)' = d.size /\ (r = d.old \/ Memory!Home(r) = 0) /\ (r # d.old => Memory!Home(d.old)' = 0)
    <2>1. r[1] = "direct" /\ r[2] = i /\ d.old[1] = "direct"
      BY <1>2, <1>4
    <2>2. i = d.old[2] => r = d.old
      BY <1>2, <1>4
    <2>3. r # d.old => i # d.old[2]
      BY <1>2, <1>4
    <2>4. Memory!Home(r) = memoryDirect[i] /\ Memory!Home(r)' = memoryDirect'[i] /\ Memory!Home(d.old)' = memoryDirect'[d.old[2]]
      BY <2>1 DEF Memory!Home
    <2>5. Memory!Home(r)' = d.size /\ (r # d.old => Memory!Home(d.old)' = 0)
      BY <1>7, <2>3, <2>4
    <2>6. r = d.old \/ Memory!Home(r) = 0
      BY <1>3, <2>2, <2>4
    <2> QED
      BY <2>1, <2>5, <2>6
  <1>9. ASSUME NEW q \in Memory!Pointers, q # r, q # d.old PROVE Memory!Home(q)' = Memory!Home(q)
    <2>1. CASE q[1] = "direct"
      BY <1>2, <1>4, <1>7, <1>9, <2>1, PointerIs DEF Memory!Home
    <2>2. CASE q[1] = "native"
      BY <1>3, <2>2 DEF Memory!Home
    <2>3. CASE q[1] = "span"
      BY <1>3, <2>3, ListsStay DEF SameHome
    <2> QED
      BY <2>1, <2>2, <2>3, PointerIs
  <1>10. r[1] # "span"
    BY <1>8
  <1> QED
    BY <1>1, <1>3, <1>6, <1>8, <1>9, <1>10, HeapMoves

LEMMA ResizeNativeKeeps ==
  ASSUME MemInv, NEW t \in MemoryThreads, Memory!ResizeNative(t)
  PROVE MemInv'
  <1>1. PICK d \in CallIs : d = memoryCall[t] /\ CallOK(d)
    BY CallOf
  <1>2. /\ d.at = "resize" /\ d.old[1] = "native" /\ d.old # Memory!None
        /\ memoryNative' = [memoryNative EXCEPT ![d.old[2]] = d.size]
        /\ memoryBlocks' = [memoryBlocks EXCEPT ![d.old] = Memory!Kept(d, d.size)]
        /\ memoryCall' = [memoryCall EXCEPT ![t] = Memory!Idle]
        /\ UNCHANGED <<memoryOs, memoryMappings, memorySlabs, memorySlots>> /\ UNCHANGED memoryCalls /\ memoryDirect' = memoryDirect
    BY <1>1 DEF Memory!ResizeNative, Memory!Step, Memory!lists, Memory!Grown, CallOK
  <1>3. PICK r \in Memory!Pointers : r = d.old
    BY <1>2 DEF CallIs
  <1>4. r = <<"native", r[2], 0>> /\ r[1] = "native" /\ r[2] \in MemoryIds /\ d.size \in Nat
    BY <1>2, <1>3, PointerIs DEF CallIs
  <1>5. memoryDirect \in [MemoryIds -> Nat] /\ memoryNative \in [MemoryIds -> Nat]
    BY DEF MemInv, HeapTypes
  <1>6. HeapTypes' /\ memoryNative'[r[2]] = d.size /\ \A j \in MemoryIds : j # r[2] => memoryNative'[j] = memoryNative[j]
    BY <1>2, <1>3, <1>4, <1>5 DEF HeapTypes
  <1>7. Memory!Home(r)' = d.size
    BY <1>4, <1>6 DEF Memory!Home
  <1>8. ASSUME NEW q \in Memory!Pointers, q # r PROVE Memory!Home(q)' = Memory!Home(q)
    <2>1. CASE q[1] = "native"
      BY <1>4, <1>6, <1>8, <2>1, PointerIs DEF Memory!Home
    <2>2. CASE q[1] = "direct"
      BY <1>2, <2>2 DEF Memory!Home
    <2>3. CASE q[1] = "span"
      BY <1>2, <2>3, ListsStay DEF SameHome
    <2> QED
      BY <2>1, <2>2, <2>3, PointerIs
  <1>9. r[1] # "span"
    BY <1>4
  <1> QED
    BY <1>1, <1>2, <1>3, <1>6, <1>7, <1>8, <1>9, HeapMoves

LEMMA MoveNativeKeeps ==
  ASSUME MemInv, NEW t \in MemoryThreads, NEW i \in MemoryIds, Memory!MoveNative(t, i)
  PROVE MemInv'
  <1>1. PICK d \in CallIs : d = memoryCall[t] /\ CallOK(d)
    BY CallOf
  <1>2. PICK r \in Memory!Pointers : r = <<"direct", i, 0>>
    BY PointersAre
  <1>3. /\ d.at = "resize" /\ d.old[1] = "native" /\ memoryDirect[i] = 0
        /\ memoryDirect' = [memoryDirect EXCEPT ![i] = d.size] /\ memoryNative' = [memoryNative EXCEPT ![d.old[2]] = 0]
        /\ memoryBlocks' = [memoryBlocks EXCEPT ![r] = Memory!Kept(d, d.size)]
        /\ memoryCall' = [memoryCall EXCEPT ![t] = Memory!Idle]
        /\ UNCHANGED <<memoryOs, memoryMappings, memorySlabs, memorySlots>> /\ UNCHANGED memoryCalls
    BY <1>1, <1>2 DEF Memory!MoveNative, Memory!GivesUpNative, Memory!Step, Memory!lists, Memory!Grown
  <1>4. d.old \in Memory!Pointers /\ d.old = <<"native", d.old[2], 0>> /\ d.old[2] \in MemoryIds /\ d.size \in Nat
    BY <1>1, <1>3, PointerIs DEF CallOK, CallIs
  <1>5. memoryDirect \in [MemoryIds -> Nat] /\ memoryNative \in [MemoryIds -> Nat]
    BY DEF MemInv, HeapTypes
  <1>6. HeapTypes'
    BY <1>3, <1>4, <1>5 DEF HeapTypes
  <1>7. /\ memoryDirect'[i] = d.size /\ \A j \in MemoryIds : j # i => memoryDirect'[j] = memoryDirect[j]
        /\ memoryNative'[d.old[2]] = 0 /\ \A j \in MemoryIds : j # d.old[2] => memoryNative'[j] = memoryNative[j]
    BY <1>3, <1>4, <1>5
  <1>8. r[1] = "direct" /\ Memory!Home(r)' = d.size /\ Memory!Home(r) = 0 /\ Memory!Home(d.old)' = 0
    BY <1>2, <1>3, <1>4, <1>7 DEF Memory!Home
  <1>9. ASSUME NEW q \in Memory!Pointers, q # r, q # d.old PROVE Memory!Home(q)' = Memory!Home(q)
    <2>1. CASE q[1] = "direct"
      BY <1>2, <1>7, <1>9, <2>1, PointerIs DEF Memory!Home
    <2>2. CASE q[1] = "native"
      BY <1>4, <1>7, <1>9, <2>2, PointerIs DEF Memory!Home
    <2>3. CASE q[1] = "span"
      BY <1>3, <2>3, ListsStay DEF SameHome
    <2> QED
      BY <2>1, <2>2, <2>3, PointerIs
  <1>10. r[1] # "span"
    BY <1>8
  <1> QED
    BY <1>1, <1>3, <1>6, <1>8, <1>9, <1>10, HeapMoves


\* A call that gets its block holds it, or has it to copy into; what else was given out stays.
LEMMA GetsKeeps ==
  ASSUME MemInv, NEW t \in MemoryThreads, NEW d \in CallIs, d = memoryCall[t], d.at \in {"allocate", "link"},
         NEW q \in Memory!Pointers, NEW zero, (d.wipe => zero) \in BOOLEAN, Memory!Gets(t, q, zero), UNCHANGED memoryCalls,
         q # d.old, d.at = "link" => q = d.new,
         memoryBlocks[q].size = 0, \A u \in MemoryThreads : u # t => q \notin InHand(memoryCall[u]),
         ListTypes', HeapTypes', Lists', Out(q, d.size)',
         \A p \in Memory!Pointers : p # q => SameHome(p),
         \A u \in MemoryThreads : u # t => \A k \in SpansOf(memoryCall[u]) : Unlisted(k)' /\ memoryOs'[k] = memoryOs[k],
         \A k \in MemorySpans : Unlisted(k)' => Unlisted(k) /\ k \notin SpansOf(memoryCall[t])
  PROVE MemInv'
  <1>1. CallOK(d) /\ d.size \in Nat /\ d.size > 0 /\ d.was.size \in Nat
    BY CallOf DEF CallOK, CallIs, BlockIs
  <1>2. memoryBlocks \in [Memory!Pointers -> BlockIs] /\ \A p \in Memory!Pointers : Whole(memoryBlocks[p])
    BY DEF MemInv, BlockTypes
  <1> DEFINE Q == {q, d.old} \ {Memory!None}
  <1>3. InHand(memoryCall[t]) \subseteq Q /\ Touched(Q)
    BY PointerIs DEF InHand, Touched, CallIs
  <1>4. \A p \in Q : \A u \in MemoryThreads : u # t => p \notin InHand(memoryCall[u])
    <2>1. d.old # Memory!None => d.old \in InHand(memoryCall[t])
      BY DEF InHand
    <2> QED
      BY <2>1, CallOf
  <1>5. CASE d.old = Memory!None
    <2> DEFINE b == Memory!Fresh(d.size, d.wipe => zero)
    <2>1. memoryCall' = [memoryCall EXCEPT ![t] = Memory!Idle] /\ memoryBlocks' = [memoryBlocks EXCEPT ![q] = b]
      BY <1>5 DEF Memory!Gets, Memory!Step
    <2>2. b \in BlockIs /\ Whole(b) /\ b.size = d.size
      <3>1. PICK z \in BOOLEAN : z = (d.wipe => zero)
        OBVIOUS
      <3>2. b = Memory!Fresh(d.size, z)
        BY <3>1
      <3> QED
        BY <1>1, <3>2 DEF Memory!Fresh, BlockIs, Whole
    <2> HIDE DEF b
    <2>3. memoryBlocks'[q] = b /\ \A p \in Memory!Pointers : p # q => memoryBlocks'[p] = memoryBlocks[p]
      BY <1>2, <2>1
    <2>4. BlockTypes'
      <3>1. memoryBlocks' \in [Memory!Pointers -> BlockIs]
        BY <1>2, <2>1, <2>2
      <3> QED
        BY <1>2, <2>2, <2>3, <3>1 DEF BlockTypes
    <2>5. Out(q, memoryBlocks[q].size)'
      BY <2>2, <2>3 DEF Out, FitsAs
    <2>6. Q = {q}
      BY <1>5, PointerIs
    <2>7. \A p \in Q : memoryBlocks'[p].size # 0 => Out(p, memoryBlocks[p].size)' /\ p \notin InHand(Memory!Idle)
      BY <2>5, <2>6, Idles
    <2>8. \A p \in Q : Memory!Home(p)' # 0 => memoryBlocks'[p].size # 0 \/ p \in InHand(Memory!Idle)
      BY <1>1, <2>2, <2>3, <2>6
    <2>9. \A p \in Memory!Pointers \ Q : memoryBlocks'[p] = memoryBlocks[p] /\ SameHome(p)
      BY <2>3, <2>6
    <2>10. InHand(Memory!Idle) \subseteq Q
      BY Idles
    <2>11. /\ \A u \in MemoryThreads : u # t => \A k \in SpansOf(memoryCall[u]) :
                Unlisted(k)' /\ k \notin SpansOf(Memory!Idle) /\ memoryOs'[k] = memoryOs[k]
           /\ \A k \in SpansOf(Memory!Idle) : k \in MemorySpans /\ Unlisted(k)'
           /\ \A k \in MemorySpans : Unlisted(k)' => k \in SpansOf(Memory!Idle) \/ (Unlisted(k) /\ k \notin SpansOf(memoryCall[t]))
      BY Idles
    <2> HIDE DEF Q
    <2>12. memoryCall' = [memoryCall EXCEPT ![t] = Memory!Idle]
      BY <2>1
    <2> QED
      BY <1>3, <1>4, <2>4, <2>7, <2>8, <2>9, <2>10, <2>11, <2>12, Idles, SameCalls, CallStep
  <1>6. CASE d.old # Memory!None
    <2>1. memoryBlocks' = memoryBlocks /\ Was(d) /\ d.has = d.was.size /\ d.old \in InHand(memoryCall[t]) /\ d.old \in Memory!Pointers
      BY <1>1, <1>6 DEF Memory!Gets, CallOK, InHand, CallIs
    <2>2. PICK c \in CallIs : memoryCall' = [memoryCall EXCEPT ![t] = c] /\ c = [d EXCEPT !.at = "copy", !.new = q]
      <3>1. [d EXCEPT !.at = "copy", !.new = q] \in CallIs
        BY DEF CallIs
      <3> QED
        BY <1>6, <3>1 DEF Memory!Gets, Memory!Step
    <2>3. /\ c.at = "copy" /\ c.old = d.old /\ c.new = q /\ c.size = d.size /\ c.was = d.was /\ c.has = d.has
      BY <2>2 DEF CallIs
    <2>4. InHand(c) = Q /\ SpansOf(c) = {}
      BY <1>6, <2>3, PointerIs DEF InHand, SpansOf
    <2>5. Was(d)'
      BY <1>1, <2>1, SameOut DEF Was
    <2>6. CallOK(c)'
      BY <1>1, <1>6, <2>1, <2>3, <2>5, PointerIs DEF CallOK, Was, Out, FitsAs
    <2>7. \A p \in Q : memoryBlocks'[p].size = 0
      BY <2>1, CallOf
    <2>8. BlockTypes'
      BY <2>1 DEF MemInv, BlockTypes
    <2>9. \A p \in Q : memoryBlocks'[p].size # 0 => Out(p, memoryBlocks[p].size)' /\ p \notin InHand(c)
      BY <2>7
    <2>10. \A p \in Q : Memory!Home(p)' # 0 => memoryBlocks'[p].size # 0 \/ p \in InHand(c)
      BY <2>4
    <2>11. \A p \in Memory!Pointers \ Q : memoryBlocks'[p] = memoryBlocks[p] /\ SameHome(p)
      BY <2>1, PointerIs
    <2>12. InHand(c) \subseteq Q /\ memoryCall' = [memoryCall EXCEPT ![t] = c]
      BY <2>2, <2>4
    <2>13. /\ \A u \in MemoryThreads : u # t => \A k \in SpansOf(memoryCall[u]) :
                Unlisted(k)' /\ k \notin SpansOf(c) /\ memoryOs'[k] = memoryOs[k]
           /\ \A k \in SpansOf(c) : k \in MemorySpans /\ Unlisted(k)'
           /\ \A k \in MemorySpans : Unlisted(k)' => k \in SpansOf(c) \/ (Unlisted(k) /\ k \notin SpansOf(memoryCall[t]))
      BY <2>4
    <2> HIDE DEF Q
    <2> QED
      BY <1>3, <1>4, <2>6, <2>8, <2>9, <2>10, <2>11, <2>12, <2>13, SameCalls, CallStep
  <1> QED
    BY <1>5, <1>6

\* A block of a heap's.
LEMMA HeapGets ==
  ASSUME MemInv, NEW t \in MemoryThreads, NEW d \in CallIs, d = memoryCall[t], d.at = "allocate",
         NEW q \in Memory!Pointers, q[1] # "span", NEW zero, (d.wipe => zero) \in BOOLEAN, Memory!Gets(t, q, zero),
         UNCHANGED memoryCalls, UNCHANGED <<memoryOs, memoryMappings, memorySlabs, memorySlots>>,
         HeapTypes', Memory!Home(q) = 0, Memory!Home(q)' = d.size,
         \A p \in Memory!Pointers : p # q => Memory!Home(p)' = Memory!Home(p)
  PROVE MemInv'
  <1>1. ListTypes' /\ Lists'
    BY DEF MemInv, ListTypes, Lists
  <1>2. \A p \in Memory!Pointers : p # q => SameHome(p)
    BY ListsStay
  <1>3. Out(q, d.size)'
    BY DEF Out, FitsAs, Memory!InMenu
  <1>4. memoryBlocks[q].size = 0 /\ \A u \in MemoryThreads : q \notin InHand(memoryCall[u])
    BY Untaken
  <1>5. q # d.old
    <2>1. d.old # Memory!None => d.old \in InHand(memoryCall[t])
      BY DEF InHand
    <2> QED
      BY <1>4, <2>1, PointerIs
  <1>6. \A k : Unlisted(k)' = Unlisted(k)
    BY ListsStay
  <1>7. \A u \in MemoryThreads : u # t => \A k \in SpansOf(memoryCall[u]) : Unlisted(k)' /\ memoryOs'[k] = memoryOs[k]
    BY <1>6 DEF MemInv, SpansTheirs
  <1>8. \A k \in MemorySpans : Unlisted(k)' => Unlisted(k) /\ k \notin SpansOf(memoryCall[t])
    BY <1>6 DEF SpansOf
  <1>9. \A u \in MemoryThreads : u # t => q \notin InHand(memoryCall[u])
    BY <1>4
  <1>10. d.at # "link"
    OBVIOUS
  <1> QED
    BY <1>1, <1>2, <1>3, <1>4, <1>5, <1>7, <1>8, <1>9, <1>10, GetsKeeps

LEMMA DirectKeeps ==
  ASSUME MemInv, NEW t \in MemoryThreads, NEW i \in MemoryIds, Memory!Direct(t, i)
  PROVE MemInv'
  <1>1. PICK d \in CallIs : d = memoryCall[t] /\ CallOK(d)
    BY CallOf
  <1>2. PICK q \in Memory!Pointers : q = <<"direct", i, 0>>
    BY PointersAre
  <1>3. PICK zero : (d.wipe => zero) \in BOOLEAN /\ Memory!Gets(t, q, zero)
    BY <1>1, <1>2 DEF Memory!Direct
  <1>4. /\ d.at = "allocate" /\ memoryDirect[i] = 0 /\ memoryDirect' = [memoryDirect EXCEPT ![i] = d.size]
        /\ UNCHANGED <<memoryOs, memoryMappings, memorySlabs, memorySlots>> /\ UNCHANGED memoryCalls /\ memoryNative' = memoryNative
    BY <1>1 DEF Memory!Direct, Memory!FromHeap, Memory!Allocates, Memory!lists
  <1>5. /\ HeapTypes' /\ memoryDirect'[i] = d.size /\ \A j \in MemoryIds : j # i => memoryDirect'[j] = memoryDirect[j]
    BY <1>4 DEF MemInv, HeapTypes, CallIs
  <1>6. Memory!Home(q) = 0 /\ Memory!Home(q)' = d.size /\ q[1] # "span"
    BY <1>2, <1>4, <1>5 DEF Memory!Home
  <1>7. ASSUME NEW p \in Memory!Pointers, p # q PROVE Memory!Home(p)' = Memory!Home(p)
    <2>1. CASE p[1] = "direct"
      BY <1>2, <1>5, <1>7, <2>1, PointerIs DEF Memory!Home
    <2>2. CASE p[1] = "native"
      BY <1>4, <2>2 DEF Memory!Home
    <2>3. CASE p[1] = "span"
      BY <1>4, <2>3, ListsStay DEF SameHome
    <2> QED
      BY <2>1, <2>2, <2>3, PointerIs
  <1> QED
    BY <1>1, <1>3, <1>4, <1>5, <1>6, <1>7, HeapGets

LEMMA NativeKeeps ==
  ASSUME MemInv, NEW t \in MemoryThreads, NEW i \in MemoryIds, Memory!Native(t, i)
  PROVE MemInv'
  <1>1. PICK d \in CallIs : d = memoryCall[t] /\ CallOK(d)
    BY CallOf
  <1>2. PICK q \in Memory!Pointers : q = <<"native", i, 0>>
    BY PointersAre
  <1>3. Memory!Gets(t, q, d.wipe) /\ (d.wipe => d.wipe) \in BOOLEAN
    BY <1>1, <1>2 DEF Memory!Native
  <1>4. /\ d.at = "allocate" /\ memoryNative[i] = 0 /\ memoryNative' = [memoryNative EXCEPT ![i] = d.size]
        /\ UNCHANGED <<memoryOs, memoryMappings, memorySlabs, memorySlots>> /\ UNCHANGED memoryCalls /\ memoryDirect' = memoryDirect
    BY <1>1 DEF Memory!Native, Memory!FromHeap, Memory!Allocates, Memory!lists
  <1>5. /\ HeapTypes' /\ memoryNative'[i] = d.size /\ \A j \in MemoryIds : j # i => memoryNative'[j] = memoryNative[j]
    BY <1>4 DEF MemInv, HeapTypes, CallIs
  <1>6. Memory!Home(q) = 0 /\ Memory!Home(q)' = d.size /\ q[1] # "span"
    BY <1>2, <1>4, <1>5 DEF Memory!Home
  <1>7. ASSUME NEW p \in Memory!Pointers, p # q PROVE Memory!Home(p)' = Memory!Home(p)
    <2>1. CASE p[1] = "native"
      BY <1>2, <1>5, <1>7, <2>1, PointerIs DEF Memory!Home
    <2>2. CASE p[1] = "direct"
      BY <1>4, <2>2 DEF Memory!Home
    <2>3. CASE p[1] = "span"
      BY <1>4, <2>3, ListsStay DEF SameHome
    <2> QED
      BY <2>1, <2>2, <2>3, PointerIs
  <1> QED
    BY <1>1, <1>3, <1>4, <1>5, <1>6, <1>7, HeapGets


\* What the lists say of a span.
LEMMA SpanIs ==
  ASSUME MemInv, NEW k \in MemorySpans
  PROVE /\ memoryOs[k] = "free" => memoryMappings[k] = 0 /\ k \notin memorySlabs
        /\ memoryOs[k] = "mapping" => k \notin memorySlabs
        /\ k \in memorySlabs => memoryMappings[k] = 0 /\ memoryOs[k] \in {"small", "big"}
        /\ k \notin memorySlabs => \A i \in 1 .. MemorySlots : memorySlots[k][i] = 0
        /\ memoryMappings[k] # 0 => memoryOs[k] = "mapping" /\ k \notin memorySlabs
        /\ memoryMappings[k] \in Nat /\ \A i \in 1 .. MemorySlots : memorySlots[k][i] \in Nat
  BY DEF MemInv, Lists, ListTypes

LEMMA MapKeeps ==
  ASSUME MemInv, NEW t \in MemoryThreads, NEW k \in MemorySpans, Memory!Map(t, k)
  PROVE MemInv'
  <1>1. PICK d \in CallIs : d = memoryCall[t] /\ CallOK(d)
    BY CallOf
  <1>2. PICK q \in Memory!Pointers : q = <<"span", k, 0>>
    <2>1. 0 \in 0 .. MemorySlots
      BY MemoryBounds
    <2> QED
      BY <2>1, PointersAre
  <1>3. q[1] = "span" /\ q[2] = k /\ q[3] = 0 /\ q # Memory!None
    BY <1>2, PointerIs
  <1>4. PICK c \in CallIs : memoryCall' = [memoryCall EXCEPT ![t] = c] /\ c = [d EXCEPT !.at = "link", !.new = q]
    <2>1. [d EXCEPT !.at = "link", !.new = q] \in CallIs
      BY DEF CallIs
    <2> QED
      BY <1>1, <1>2, <2>1 DEF Memory!Map, Memory!Step
  <1>5. /\ d.at = "allocate" /\ memoryOs[k] = "free" /\ memoryOs' = [memoryOs EXCEPT ![k] = "mapping"]
        /\ UNCHANGED <<memoryMappings, memorySlabs, memorySlots>> /\ UNCHANGED <<memoryDirect, memoryNative>>
        /\ UNCHANGED memoryCalls /\ memoryBlocks' = memoryBlocks
    BY <1>1 DEF Memory!Map, Memory!FromHeap, Memory!Allocates, Memory!lists, Memory!heaps
  <1>6. c.at = "link" /\ c.new = q /\ c.old = d.old /\ c.size = d.size /\ c.was = d.was /\ c.has = d.has
    BY <1>4 DEF CallIs
  <1>7. memoryMappings[k] = 0 /\ k \notin memorySlabs
    BY <1>5, SpanIs
  <1>8. memoryOs \in [MemorySpans -> {"free", "mapping", "small", "big"}]
    BY DEF MemInv, ListTypes
  <1>9. memoryOs'[k] = "mapping" /\ \A j \in MemorySpans : j # k => memoryOs'[j] = memoryOs[j]
    BY <1>5, <1>8
  <1>10. ListTypes'
    BY <1>5, <1>8 DEF MemInv, ListTypes
  <1>11. Lists'
    BY <1>5, <1>7, <1>9 DEF MemInv, Lists, ListTypes
  <1>12. HeapTypes' /\ BlockTypes' /\ memoryCalls' \in 0 .. MemoryCalls
    BY <1>5, SameCalls DEF MemInv, HeapTypes, BlockTypes
  <1>13. \A p : Memory!Home(p)' = Memory!Home(p)
    BY <1>5 DEF Memory!Home, Memory!OldSize, Memory!InMenu, Memory!InList
  <1>14. ASSUME NEW p \in Memory!Pointers PROVE SameHome(p)
    <2>1. CASE Memory!InMenu(p)
      <3>1. p[2] \in MemorySpans /\ p[2] # k
        BY <1>7, <2>1 DEF Memory!InMenu, MemInv, ListTypes
      <3>2. \A s \in Nat : FitsAs(p, s)' = FitsAs(p, s)
        BY <1>5, <1>9, <3>1 DEF FitsAs, Memory!InMenu
      <3> QED
        BY <1>13, <3>2 DEF SameHome
    <2>2. CASE ~Memory!InMenu(p)
      <3>1. \A s \in Nat : FitsAs(p, s)' = FitsAs(p, s)
        BY <1>5, <2>2 DEF FitsAs, Memory!InMenu
      <3> QED
        BY <1>13, <3>1 DEF SameHome
    <2> QED
      BY <2>1, <2>2
  <1>15. Memory!Home(q) = 0 /\ ~Unlisted(k)
    BY <1>3, <1>5, <1>7 DEF Memory!Home, Memory!OldSize, Memory!InMenu, Memory!InList, Unlisted
  <1>16. memoryBlocks[q].size = 0 /\ \A u \in MemoryThreads : q \notin InHand(memoryCall[u])
    BY <1>3, <1>15, Untaken
  <1> DEFINE Q == {q, d.old} \ {Memory!None}
  <1>17. InHand(memoryCall[t]) = {d.old} \ {Memory!None} /\ InHand(c) = Q /\ SpansOf(memoryCall[t]) = {} /\ SpansOf(c) = {k}
    BY <1>1, <1>3, <1>5, <1>6 DEF InHand, SpansOf
  <1>18. Touched(Q) /\ InHand(memoryCall[t]) \subseteq Q /\ InHand(c) \subseteq Q
    BY <1>17 DEF Touched, CallIs
  <1>19. \A p \in Q : \A u \in MemoryThreads : u # t => p \notin InHand(memoryCall[u])
    BY <1>16, <1>17, CallOf
  <1>20. \A p \in Q : memoryBlocks'[p].size = 0
    BY <1>5, <1>16, <1>17, CallOf
  <1>21. q # d.old
    BY <1>3, <1>16, <1>17
  <1>22. CallOK(c)'
    <2>1. d.old # Memory!None => Was(d)' /\ d.has = d.was.size
      BY <1>1, <1>5, <1>14, SameOut DEF CallOK, Was, CallIs, BlockIs
    <2>2. d.size > 0
      BY <1>1, <1>5 DEF CallOK
    <2>3. d.old # Memory!None => Was(c)'
      BY <1>6, <2>1 DEF Was, Out, FitsAs
    <2>4. \E j \in MemorySpans : c.new = <<"span", j, 0>> /\ memoryOs'[j] = "mapping"
      BY <1>2, <1>6, <1>9
    <2> QED
      BY <1>6, <1>21, <2>1, <2>2, <2>3, <2>4 DEF CallOK
  <1>23. \A u \in MemoryThreads : u # t => \A j \in SpansOf(memoryCall[u]) :
            Unlisted(j)' /\ j \notin SpansOf(c) /\ memoryOs'[j] = memoryOs[j]
    BY <1>5, <1>9, <1>15, <1>17 DEF MemInv, SpansTheirs, Unlisted
  <1>24. \A j \in SpansOf(c) : j \in MemorySpans /\ Unlisted(j)'
    BY <1>5, <1>7, <1>9, <1>17 DEF Unlisted
  <1>25. \A j \in MemorySpans : Unlisted(j)' => j \in SpansOf(c) \/ (Unlisted(j) /\ j \notin SpansOf(memoryCall[t]))
    BY <1>5, <1>9, <1>17 DEF Unlisted
  <1>26. /\ \A p \in Q : memoryBlocks'[p].size # 0 => Out(p, memoryBlocks[p].size)' /\ p \notin InHand(c)
         /\ \A p \in Q : Memory!Home(p)' # 0 => memoryBlocks'[p].size # 0 \/ p \in InHand(c)
         /\ \A p \in Memory!Pointers \ Q : memoryBlocks'[p] = memoryBlocks[p] /\ SameHome(p)
    BY <1>5, <1>14, <1>17, <1>20
  <1>27. memoryCall' = [memoryCall EXCEPT ![t] = c]
    BY <1>4
  <1> HIDE DEF Q
  <1> QED
    BY <1>10, <1>11, <1>12, <1>18, <1>19, <1>22, <1>23, <1>24, <1>25, <1>26, <1>27, CallStep

LEMMA LinkKeeps ==
  ASSUME MemInv, NEW t \in MemoryThreads, Memory!Link(t)
  PROVE MemInv'
  <1>1. PICK d \in CallIs : d = memoryCall[t] /\ CallOK(d)
    BY CallOf
  <1>2. d.at = "link"
    BY <1>1 DEF Memory!Link
  <1>3. PICK k \in MemorySpans : d.new = <<"span", k, 0>> /\ memoryOs[k] = "mapping"
    BY <1>1, <1>2 DEF CallOK
  <1>4. PICK q \in Memory!Pointers : q = d.new /\ q = <<"span", k, 0>> /\ q[1] = "span" /\ q[2] = k /\ q[3] = 0
    <2>1. 0 \in 0 .. MemorySlots
      BY MemoryBounds
    <2> QED
      BY <1>3, <2>1, PointersAre
  <1>5. /\ memoryMappings' = [memoryMappings EXCEPT ![k] = d.size] /\ Memory!Gets(t, q, TRUE)
        /\ UNCHANGED <<memoryOs, memorySlabs, memorySlots>> /\ UNCHANGED <<memoryDirect, memoryNative>> /\ UNCHANGED memoryCalls
    BY <1>1, <1>4 DEF Memory!Link, Memory!heaps
  <1>6. q # d.old /\ d.size \in Nat /\ d.size > 0
    BY <1>1, <1>2, <1>4 DEF CallOK, CallIs
  <1>7. SpansOf(memoryCall[t]) = {k} /\ q \in InHand(memoryCall[t]) /\ q # Memory!None
    BY <1>1, <1>2, <1>4, PointerIs DEF SpansOf, InHand
  <1>8. Unlisted(k)
    BY <1>7 DEF MemInv, SpansTheirs
  <1>9. memoryMappings'[k] = d.size /\ \A j \in MemorySpans : j # k => memoryMappings'[j] = memoryMappings[j]
    BY <1>5 DEF MemInv, ListTypes
  <1>10. ListTypes' /\ HeapTypes'
    BY <1>5, <1>6 DEF MemInv, ListTypes, HeapTypes
  <1>11. Lists'
    BY <1>3, <1>5, <1>8, <1>9 DEF MemInv, Lists, ListTypes, Unlisted
  <1>12. Out(q, d.size)'
    BY <1>4, <1>5, <1>6, <1>8, <1>9 DEF Out, FitsAs, Memory!Home, Memory!OldSize, Memory!InMenu, Memory!InList, Unlisted
  <1>13. ASSUME NEW p \in Memory!Pointers, p # q PROVE SameHome(p)
    <2>1. Memory!InMenu(p)' = Memory!InMenu(p) /\ \A s : FitsAs(p, s)' = FitsAs(p, s)
      BY <1>5 DEF Memory!InMenu, FitsAs
    <2>2. CASE p[1] # "span"
      BY <1>5, <2>1, <2>2 DEF Memory!Home, SameHome, Memory!OldSize, Memory!InMenu, Memory!InList
    <2>3. CASE p[1] = "span" /\ (p[2] # k \/ p[3] # 0)
      <3>1. p[2] \in MemorySpans
        BY <2>3, PointerIs
      <3>2. Memory!OldSize(p)' = Memory!OldSize(p)
        BY <1>5, <1>9, <2>3, <3>1 DEF Memory!OldSize, Memory!InMenu, Memory!InList
      <3> QED
        BY <2>1, <2>3, <3>2 DEF Memory!Home, SameHome
    <2>4. CASE p[1] = "span" /\ p[2] = k /\ p[3] = 0
      BY <1>4, <1>13, <2>4, PointerIs
    <2> QED
      BY <2>2, <2>3, <2>4
  <1>14. memoryBlocks[q].size = 0 /\ \A u \in MemoryThreads : u # t => q \notin InHand(memoryCall[u])
    BY <1>7, CallOf
  <1>15. ASSUME NEW u \in MemoryThreads, u # t, NEW j \in SpansOf(memoryCall[u]) PROVE Unlisted(j)' /\ memoryOs'[j] = memoryOs[j]
    <2>1. j # k /\ j \in MemorySpans /\ Unlisted(j)
      BY <1>7, <1>15 DEF MemInv, SpansTheirs
    <2> QED
      BY <1>5, <1>9, <2>1 DEF Unlisted
  <1>16. \A j \in MemorySpans : Unlisted(j)' => Unlisted(j) /\ j \notin SpansOf(memoryCall[t])
    BY <1>5, <1>6, <1>7, <1>9 DEF Unlisted
  <1>17. (d.wipe => TRUE) \in BOOLEAN /\ d.at \in {"allocate", "link"} /\ (d.at = "link" => q = d.new) /\ UNCHANGED memoryCalls /\ Memory!Gets(t, q, TRUE)
    BY <1>2, <1>4, <1>5
  <1> QED
    BY <1>1, <1>6, <1>10, <1>11, <1>12, <1>13, <1>14, <1>15, <1>16, <1>17, GetsKeeps


LEMMA SlotsSet ==
  ASSUME MemInv, NEW k \in MemorySpans, NEW i \in 1 .. MemorySlots, NEW v \in Nat, memorySlots' = [memorySlots EXCEPT ![k][i] = v]
  PROVE /\ memorySlots' \in [MemorySpans -> [1 .. MemorySlots -> Nat]] /\ memorySlots'[k][i] = v
        /\ \A j \in 1 .. MemorySlots : j # i => memorySlots'[k][j] = memorySlots[k][j]
        /\ \A m \in MemorySpans : m # k => memorySlots'[m] = memorySlots[m]
  <1>1. memorySlots \in [MemorySpans -> [1 .. MemorySlots -> Nat]]
    BY DEF MemInv, ListTypes
  <1>2. memorySlots[k] \in [1 .. MemorySlots -> Nat]
    BY <1>1
  <1> QED
    BY <1>1, <1>2

\* A slot's pointer says its slab and its place in it.
LEMMA SlotIs ==
  ASSUME MemInv, NEW p \in Memory!Pointers, p[1] = "span", p[2] \in memorySlabs, p[3] # 0
  PROVE /\ p[2] \in MemorySpans /\ p[3] \in 1 .. MemorySlots
        /\ Memory!Home(p) = memorySlots[p[2]][p[3]]
  <1>1. p[2] \in MemorySpans /\ p[3] \in 0 .. MemorySlots
    BY PointerIs
  <1>2. p[3] \in 1 .. MemorySlots
    BY <1>1, MemoryBounds
  <1> QED
    BY <1>1, <1>2, HomeIs

\* A slot of one slab is taken or given up, the slab new or emptied by it or as it was: every
\* pointer but the slot's own is where it was.
LEMMA SlotAlone ==
  ASSUME MemInv, NEW k \in MemorySpans, NEW i \in 1 .. MemorySlots, NEW q \in Memory!Pointers, q = <<"span", k, i>>,
         \A j \in 1 .. MemorySlots : j # i => memorySlots'[k][j] = memorySlots[k][j],
         \A m \in MemorySpans : m # k => memorySlots'[m] = memorySlots[m], UNCHANGED memoryMappings, UNCHANGED <<memoryDirect, memoryNative>>,
         \A m \in MemorySpans : m # k => memoryOs'[m] = memoryOs[m] /\ (m \in memorySlabs' <=> m \in memorySlabs),
         memoryMappings[k] = 0,
         \/ memoryOs'[k] = memoryOs[k] /\ k \in memorySlabs /\ k \in memorySlabs'
         \/ \A j \in 1 .. MemorySlots : j # i => memorySlots[k][j] = 0
  PROVE \A p \in Memory!Pointers : p # q => SameHome(p)
  <1> SUFFICES ASSUME NEW p \in Memory!Pointers, p # q PROVE SameHome(p)
    OBVIOUS
  <1>1. /\ \A j \in 1 .. MemorySlots : j # i => memorySlots'[k][j] = memorySlots[k][j]
        /\ \A m \in MemorySpans : m # k => memorySlots'[m] = memorySlots[m]
    OBVIOUS
  <1>2. CASE p[1] # "span"
    BY <1>2, PointerIs DEF SameHome, Memory!Home, FitsAs, Memory!InMenu
  <1>3. CASE p[1] = "span" /\ p[2] # k
    <2>1. p[2] \in MemorySpans
      BY <1>3, PointerIs
    <2>2. /\ p[2] \in memorySlabs' <=> p[2] \in memorySlabs
          /\ memoryOs'[p[2]] = memoryOs[p[2]] /\ memorySlots'[p[2]] = memorySlots[p[2]]
      BY <1>1, <1>3, <2>1
    <2>3. Memory!InMenu(p)' <=> Memory!InMenu(p)
      BY <2>2 DEF Memory!InMenu
    <2>4. Memory!Home(p)' = Memory!Home(p)
      BY <1>3, <2>2, <2>3 DEF Memory!Home, Memory!OldSize, Memory!InList
    <2>5. \A s \in Nat : FitsAs(p, s)' = FitsAs(p, s)
      BY <2>2, <2>3 DEF FitsAs
    <2> QED
      BY <2>4, <2>5 DEF SameHome
  <1>4. CASE p[1] = "span" /\ p[2] = k /\ p[3] = 0
    BY <1>4 DEF SameHome, Memory!Home, Memory!OldSize, Memory!InMenu, Memory!InList
  <1>5. CASE p[1] = "span" /\ p[2] = k /\ p[3] # 0
    <2>1. p[3] \in 1 .. MemorySlots
      BY <1>5, PointerIs, MemoryBounds
    <2>2. p[3] # i
      BY <1>5, PointerIs
    <2>3. memorySlots'[k][p[3]] = memorySlots[k][p[3]]
      BY <1>1, <2>1, <2>2
    <2>4. CASE memoryOs'[k] = memoryOs[k] /\ k \in memorySlabs /\ k \in memorySlabs'
      <3>1. Memory!Home(p)' = Memory!Home(p)
        BY <1>5, <2>3, <2>4 DEF Memory!Home, Memory!OldSize, Memory!InMenu
      <3>2. \A s \in Nat : FitsAs(p, s)' = FitsAs(p, s)
        BY <1>5, <2>4 DEF FitsAs, Memory!InMenu
      <3> QED
        BY <3>1, <3>2 DEF SameHome
    <2>5. CASE \A j \in 1 .. MemorySlots : j # i => memorySlots[k][j] = 0
      <3>1. memorySlots[k][p[3]] = 0
        BY <2>1, <2>2, <2>5
      <3>2. Memory!Home(p) = 0 /\ Memory!Home(p)' = 0
        BY <1>5, <2>3, <3>1 DEF Memory!Home, Memory!OldSize, Memory!InMenu, Memory!InList
      <3> QED
        BY <3>2 DEF SameHome
    <2> QED
      BY <2>4, <2>5
  <1> QED
    BY <1>2, <1>3, <1>4, <1>5

LEMMA UnmapKeeps ==
  ASSUME MemInv, NEW t \in MemoryThreads, Memory!Unmap(t)
  PROVE MemInv'
  <1>1. PICK d \in CallIs : d = memoryCall[t] /\ CallOK(d)
    BY CallOf
  <1>2. PICK k : k = d.unmap[2]
    OBVIOUS
  <1>3. /\ d.at = "unmap" /\ memoryOs' = [memoryOs EXCEPT ![k] = "free"] /\ memoryCall' = [memoryCall EXCEPT ![t] = Memory!Idle]
        /\ UNCHANGED <<memoryMappings, memorySlabs, memorySlots>> /\ UNCHANGED <<memoryDirect, memoryNative>>
        /\ UNCHANGED memoryCalls /\ memoryBlocks' = memoryBlocks
    BY <1>1, <1>2 DEF Memory!Unmap, Memory!Step, Memory!lists, Memory!heaps
  <1>4. SpansOf(memoryCall[t]) = {k} /\ InHand(memoryCall[t]) = {}
    BY <1>1, <1>2, <1>3 DEF SpansOf, InHand
  <1>5. k \in MemorySpans /\ Unlisted(k)
    BY <1>4 DEF MemInv, SpansTheirs
  <1>6. memoryOs \in [MemorySpans -> {"free", "mapping", "small", "big"}]
    BY DEF MemInv, ListTypes
  <1>7. memoryOs'[k] = "free" /\ \A j \in MemorySpans : j # k => memoryOs'[j] = memoryOs[j]
    BY <1>3, <1>5, <1>6
  <1>8. ListTypes'
    BY <1>3, <1>6 DEF MemInv, ListTypes
  <1>9. Lists'
    BY <1>3, <1>5, <1>7 DEF MemInv, Lists, ListTypes, Unlisted
  <1>10. HeapTypes' /\ BlockTypes' /\ memoryCalls' \in 0 .. MemoryCalls
    BY <1>3, SameCalls DEF MemInv, HeapTypes, BlockTypes
  <1>11. \A p : Memory!Home(p)' = Memory!Home(p)
    BY <1>3 DEF Memory!Home, Memory!OldSize, Memory!InMenu, Memory!InList
  <1>12. ASSUME NEW p \in Memory!Pointers PROVE SameHome(p)
    <2>1. CASE Memory!InMenu(p)
      <3>1. p[2] \in MemorySpans /\ p[2] # k
        BY <1>5, <2>1 DEF Memory!InMenu, MemInv, ListTypes, Unlisted
      <3>2. \A s \in Nat : FitsAs(p, s)' = FitsAs(p, s)
        BY <1>3, <1>7, <3>1 DEF FitsAs, Memory!InMenu
      <3> QED
        BY <1>11, <3>2 DEF SameHome
    <2>2. CASE ~Memory!InMenu(p)
      <3>1. \A s \in Nat : FitsAs(p, s)' = FitsAs(p, s)
        BY <1>3, <2>2 DEF FitsAs, Memory!InMenu
      <3> QED
        BY <1>11, <3>1 DEF SameHome
    <2> QED
      BY <2>1, <2>2
  <1>13. \A u \in MemoryThreads : u # t => \A j \in SpansOf(memoryCall[u]) :
            Unlisted(j)' /\ j \notin SpansOf(Memory!Idle) /\ memoryOs'[j] = memoryOs[j]
    <2>1. ASSUME NEW u \in MemoryThreads, u # t, NEW j \in SpansOf(memoryCall[u]) PROVE j \in MemorySpans /\ j # k /\ Unlisted(j)
      BY <1>4, <2>1 DEF MemInv, SpansTheirs
    <2> QED
      BY <1>3, <1>7, <2>1, Idles DEF Unlisted
  <1>14. /\ \A j \in SpansOf(Memory!Idle) : j \in MemorySpans /\ Unlisted(j)'
         /\ \A j \in MemorySpans : Unlisted(j)' => j \in SpansOf(Memory!Idle) \/ (Unlisted(j) /\ j \notin SpansOf(memoryCall[t]))
    BY <1>3, <1>4, <1>7, Idles DEF Unlisted
  <1> DEFINE Q == {}
  <1>15. Touched(Q) /\ InHand(memoryCall[t]) \subseteq Q /\ InHand(Memory!Idle) \subseteq Q
    BY <1>4, Idles DEF Touched
  <1>16. /\ \A p \in Q : memoryBlocks'[p].size # 0 => Out(p, memoryBlocks[p].size)' /\ p \notin InHand(Memory!Idle)
         /\ \A p \in Q : Memory!Home(p)' # 0 => memoryBlocks'[p].size # 0 \/ p \in InHand(Memory!Idle)
         /\ \A p \in Memory!Pointers \ Q : memoryBlocks'[p] = memoryBlocks[p] /\ SameHome(p)
         /\ \A p \in Q : \A u \in MemoryThreads : u # t => p \notin InHand(memoryCall[u])
    BY <1>3, <1>12
  <1>17. memoryCall' = [memoryCall EXCEPT ![t] = Memory!Idle]
    BY <1>3
  <1> HIDE DEF Q
  <1> QED
    BY <1>8, <1>9, <1>10, <1>13, <1>14, <1>15, <1>16, <1>17, Idles, CallStep

LEMMA SlotKeeps ==
  ASSUME MemInv, NEW t \in MemoryThreads, NEW k \in MemorySpans, Memory!Slot(t, k)
  PROVE MemInv'
  <1>1. PICK d \in CallIs : d = memoryCall[t] /\ CallOK(d)
    BY CallOf
  <1>2. /\ d.at = "allocate" /\ UNCHANGED memoryMappings /\ UNCHANGED <<memoryDirect, memoryNative>> /\ UNCHANGED memoryCalls
        /\ Memory!Takes(t, k)
    BY <1>1 DEF Memory!Slot, Memory!Allocates, Memory!heaps
  <1>3. \/ k \in memorySlabs /\ memoryOs[k] = Memory!Stride(d.size) /\ UNCHANGED <<memoryOs, memorySlabs>>
        \/ /\ memoryOs[k] = "free" /\ memoryOs' = [memoryOs EXCEPT ![k] = Memory!Stride(d.size)]
           /\ memorySlabs' = memorySlabs \cup {k}
    BY <1>1 DEF Memory!Slot, Memory!Roomy
  <1>4. PICK i \in 1 .. MemorySlots : /\ memorySlots[k][i] = 0 /\ memorySlots' = [memorySlots EXCEPT ![k][i] = d.size]
                                     /\ Memory!Gets(t, <<"span", k, i>>, FALSE)
    BY <1>1, <1>2 DEF Memory!Takes, Memory!FirstFree
  <1>5. PICK q \in Memory!Pointers : q = <<"span", k, i>> /\ q[1] = "span" /\ q[2] = k /\ q[3] = i
    <2>1. i \in 0 .. MemorySlots
      BY MemoryBounds
    <2> QED
      BY <2>1, PointersAre
  <1>6. d.size \in Nat /\ d.size > 0 /\ i # 0
    BY <1>1, <1>2 DEF CallOK, CallIs
  <1>7. memoryMappings[k] = 0 /\ ~Unlisted(k)
    BY <1>3, SpanIs DEF Unlisted
  <1>8. memoryOs \in [MemorySpans -> {"free", "mapping", "small", "big"}]
    BY DEF MemInv, ListTypes
  <1>9. Memory!Stride(d.size) \in {"small", "big"}
    BY DEF Memory!Stride
  <1>10. /\ memoryOs'[k] = Memory!Stride(d.size) /\ k \in memorySlabs'
         /\ memoryOs' \in [MemorySpans -> {"free", "mapping", "small", "big"}] /\ memorySlabs' \subseteq MemorySpans
         /\ \A m \in MemorySpans : m # k => memoryOs'[m] = memoryOs[m] /\ (m \in memorySlabs' <=> m \in memorySlabs)
    <2>1. CASE k \in memorySlabs /\ memoryOs[k] = Memory!Stride(d.size) /\ UNCHANGED <<memoryOs, memorySlabs>>
      BY <1>8, <2>1 DEF MemInv, ListTypes
    <2>2. CASE /\ memoryOs[k] = "free" /\ memoryOs' = [memoryOs EXCEPT ![k] = Memory!Stride(d.size)]
               /\ memorySlabs' = memorySlabs \cup {k}
      BY <1>8, <1>9, <2>2 DEF MemInv, ListTypes
    <2> QED
      BY <1>3, <2>1, <2>2
  <1>11. /\ memorySlots' \in [MemorySpans -> [1 .. MemorySlots -> Nat]] /\ memorySlots'[k][i] = d.size
         /\ \A j \in 1 .. MemorySlots : j # i => memorySlots'[k][j] = memorySlots[k][j]
         /\ \A m \in MemorySpans : m # k => memorySlots'[m] = memorySlots[m]
    BY <1>4, <1>6, SlotsSet
  <1>12. ListTypes' /\ HeapTypes'
    BY <1>2, <1>10, <1>11 DEF MemInv, ListTypes, HeapTypes
  <1>13. Lists'
    <2>1. ASSUME NEW m \in memorySlabs'
          PROVE memoryOs'[m] \in {"small", "big"} /\ memoryMappings'[m] = 0 /\ \E j \in 1 .. MemorySlots : memorySlots'[m][j] # 0
      <3>1. CASE m = k
        BY <1>2, <1>6, <1>7, <1>9, <1>10, <1>11, <3>1
      <3>2. CASE m # k
        BY <1>2, <1>10, <1>11, <3>2 DEF MemInv, Lists
      <3> QED
        BY <3>1, <3>2
    <2>2. ASSUME NEW m \in MemorySpans, memoryMappings'[m] # 0 PROVE memoryOs'[m] = "mapping"
      BY <1>2, <1>7, <1>10, <2>2 DEF MemInv, Lists
    <2>3. ASSUME NEW m \in MemorySpans \ memorySlabs', NEW j \in 1 .. MemorySlots PROVE memorySlots'[m][j] = 0
      BY <1>10, <1>11, <2>3 DEF MemInv, Lists
    <2> QED
      BY <2>1, <2>2, <2>3 DEF Lists
  <1>14. Out(q, d.size)'
    BY <1>5, <1>6, <1>10, <1>11 DEF Out, FitsAs, Memory!Home, Memory!OldSize, Memory!InMenu
  <1>15. Memory!Home(q) = 0
    BY <1>4, <1>5, <1>6, <1>7 DEF Memory!Home, Memory!OldSize, Memory!InMenu, Memory!InList
  <1>16. memoryBlocks[q].size = 0 /\ \A u \in MemoryThreads : q \notin InHand(memoryCall[u])
    BY <1>5, <1>7, <1>15, Untaken
  <1>17. q # d.old
    <2>1. d.old # Memory!None => d.old \in InHand(memoryCall[t])
      BY <1>1, <1>2 DEF InHand
    <2> QED
      BY <1>16, <2>1, PointerIs
  <1>18. \A p \in Memory!Pointers : p # q => SameHome(p)
    <2>1. \/ memoryOs'[k] = memoryOs[k] /\ k \in memorySlabs /\ k \in memorySlabs'
          \/ \A j \in 1 .. MemorySlots : j # i => memorySlots[k][j] = 0
      BY <1>3, SpanIs
    <2> QED
      BY <1>2, <1>5, <1>7, <1>10, <1>11, <2>1, SlotAlone
  <1>19. \A u \in MemoryThreads : u # t => \A j \in SpansOf(memoryCall[u]) : Unlisted(j)' /\ memoryOs'[j] = memoryOs[j]
    <2>1. ASSUME NEW u \in MemoryThreads, NEW j \in SpansOf(memoryCall[u]) PROVE j \in MemorySpans /\ Unlisted(j) /\ j # k
      BY <1>7 DEF MemInv, SpansTheirs
    <2> QED
      BY <1>2, <1>10, <2>1 DEF Unlisted
  <1>20. \A j \in MemorySpans : Unlisted(j)' => Unlisted(j) /\ j \notin SpansOf(memoryCall[t])
    BY <1>1, <1>2, <1>10 DEF Unlisted, SpansOf
  <1>21. /\ (d.wipe => FALSE) \in BOOLEAN /\ d.at \in {"allocate", "link"} /\ (d.at = "link" => q = d.new) /\ UNCHANGED memoryCalls
         /\ Memory!Gets(t, q, FALSE) /\ \A u \in MemoryThreads : u # t => q \notin InHand(memoryCall[u])
    BY <1>2, <1>4, <1>5, <1>16
  <1> QED
    BY <1>1, <1>12, <1>13, <1>14, <1>16, <1>17, <1>18, <1>19, <1>20, <1>21, GetsKeeps


\* A call that gives up a block of a heap's.
LEMMA HeapGivesUp ==
  ASSUME MemInv, NEW t \in MemoryThreads, NEW d \in CallIs, d = memoryCall[t], d.at = "release", d.old[1] # "span",
         memoryCall' = [memoryCall EXCEPT ![t] = Memory!Idle], HeapTypes',
         UNCHANGED <<memoryOs, memoryMappings, memorySlabs, memorySlots>>, UNCHANGED memoryCalls, memoryBlocks' = memoryBlocks,
         Memory!Home(d.old)' = 0, \A q \in Memory!Pointers : q # d.old => Memory!Home(q)' = Memory!Home(q)
  PROVE MemInv'
  <1> DEFINE Q == {d.old}
  <1>1. d.old \in Memory!Pointers
    BY CallOf DEF CallOK, CallIs
  <1>2. InHand(memoryCall[t]) = Q /\ SpansOf(memoryCall[t]) = {}
    BY DEF InHand, SpansOf
  <1>3. Touched(Q) /\ InHand(memoryCall[t]) \subseteq Q /\ InHand(Memory!Idle) \subseteq Q
    BY <1>1, <1>2, Idles DEF Touched
  <1>4. \A q \in Q : \A u \in MemoryThreads : u # t => q \notin InHand(memoryCall[u])
    BY <1>2, CallOf
  <1>5. memoryBlocks'[d.old].size = 0
    BY <1>2, CallOf
  <1>6. /\ \A q \in Q : memoryBlocks'[q].size # 0 => Out(q, memoryBlocks[q].size)' /\ q \notin InHand(Memory!Idle)
        /\ \A q \in Q : Memory!Home(q)' # 0 => memoryBlocks'[q].size # 0 \/ q \in InHand(Memory!Idle)
        /\ \A q \in Memory!Pointers \ Q : memoryBlocks'[q] = memoryBlocks[q] /\ Memory!Home(q)' = Memory!Home(q)
    BY <1>5
  <1>7. BlockTypes'
    BY DEF MemInv, BlockTypes
  <1> HIDE DEF Q
  <1> QED
    BY <1>2, <1>3, <1>4, <1>6, <1>7, SameCalls, Idles, QuietStep

\* A call that gives up a block of a list's, out of it now, and keeps its span to unmap if that left it too.
LEMMA ListGivesUp ==
  ASSUME MemInv, NEW t \in MemoryThreads, NEW d \in CallIs, d = memoryCall[t], d.at = "release",
         NEW c \in CallIs, memoryCall' = [memoryCall EXCEPT ![t] = c], InHand(c) = {}, CallOK(c)',
         ListTypes', Lists', UNCHANGED <<memoryDirect, memoryNative>>, UNCHANGED memoryOs,
         UNCHANGED memoryCalls, memoryBlocks' = memoryBlocks,
         Memory!Home(d.old)' = 0, \A q \in Memory!Pointers : q # d.old => SameHome(q),
         \A k \in SpansOf(c) : k \in MemorySpans /\ Unlisted(k)' /\ ~Unlisted(k),
         \A k \in MemorySpans : Unlisted(k) => Unlisted(k)',
         \A k \in MemorySpans : Unlisted(k)' => k \in SpansOf(c) \/ Unlisted(k)
  PROVE MemInv'
  <1> DEFINE Q == {d.old}
  <1>1. d.old \in Memory!Pointers
    BY CallOf DEF CallOK, CallIs
  <1>2. InHand(memoryCall[t]) = Q /\ SpansOf(memoryCall[t]) = {}
    BY DEF InHand, SpansOf
  <1>3. Touched(Q) /\ InHand(memoryCall[t]) \subseteq Q /\ InHand(c) \subseteq Q
    BY <1>1, <1>2 DEF Touched
  <1>4. \A q \in Q : \A u \in MemoryThreads : u # t => q \notin InHand(memoryCall[u])
    BY <1>2, CallOf
  <1>5. memoryBlocks'[d.old].size = 0
    BY <1>2, CallOf
  <1>6. /\ \A q \in Q : memoryBlocks'[q].size # 0 => Out(q, memoryBlocks[q].size)' /\ q \notin InHand(c)
        /\ \A q \in Q : Memory!Home(q)' # 0 => memoryBlocks'[q].size # 0 \/ q \in InHand(c)
        /\ \A q \in Memory!Pointers \ Q : memoryBlocks'[q] = memoryBlocks[q] /\ SameHome(q)
    BY <1>5
  <1>7. BlockTypes' /\ HeapTypes'
    BY DEF MemInv, BlockTypes, HeapTypes
  <1>8. \A u \in MemoryThreads : u # t => \A k \in SpansOf(memoryCall[u]) :
            Unlisted(k)' /\ k \notin SpansOf(c) /\ memoryOs'[k] = memoryOs[k]
    BY DEF MemInv, SpansTheirs
  <1>9. /\ \A k \in SpansOf(c) : k \in MemorySpans /\ Unlisted(k)'
        /\ \A k \in MemorySpans : Unlisted(k)' => k \in SpansOf(c) \/ (Unlisted(k) /\ k \notin SpansOf(memoryCall[t]))
    BY <1>2
  <1> HIDE DEF Q
  <1> QED
    BY <1>3, <1>4, <1>6, <1>7, <1>8, <1>9, SameCalls, CallStep

LEMMA ReleaseHeap ==
  ASSUME MemInv, NEW t \in MemoryThreads, Memory!Release(t), memoryCall[t].old[1] # "span"
  PROVE MemInv'
  <1>1. PICK d \in CallIs : d = memoryCall[t] /\ CallOK(d)
    BY CallOf
  <1>2. /\ d.at = "release" /\ UNCHANGED memoryOs /\ UNCHANGED memoryCalls /\ memoryBlocks' = memoryBlocks
    BY <1>1 DEF Memory!Release
  <1>3. PICK r \in Memory!Pointers : r = d.old /\ r[1] # "span"
    BY <1>1, <1>2 DEF CallOK, CallIs
  <1>4. ~Memory!InMenu(r) /\ ~Memory!InList(r)
    BY <1>3 DEF Memory!InMenu, Memory!InList
  <1>5. memoryDirect \in [MemoryIds -> Nat] /\ memoryNative \in [MemoryIds -> Nat]
    BY DEF MemInv, HeapTypes
  <1>6. CASE r[1] = "direct"
    <2>1. /\ memoryDirect' = [memoryDirect EXCEPT ![r[2]] = 0] /\ memoryCall' = [memoryCall EXCEPT ![t] = Memory!Idle]
          /\ UNCHANGED <<memoryMappings, memorySlabs, memorySlots>> /\ memoryNative' = memoryNative
      BY <1>1, <1>3, <1>4, <1>6 DEF Memory!Release, Memory!Step, Memory!lists
    <2>2. r = <<"direct", r[2], 0>> /\ r[2] \in MemoryIds
      BY <1>6, PointerIs
    <2>3. HeapTypes' /\ memoryDirect'[r[2]] = 0 /\ \A j \in MemoryIds : j # r[2] => memoryDirect'[j] = memoryDirect[j]
      BY <1>5, <2>1, <2>2 DEF HeapTypes
    <2>4. Memory!Home(r)' = 0
      BY <1>6, <2>3 DEF Memory!Home
    <2>5. ASSUME NEW p \in Memory!Pointers, p # r PROVE Memory!Home(p)' = Memory!Home(p)
      <3>1. CASE p[1] = "direct"
        BY <2>2, <2>3, <2>5, <3>1, PointerIs DEF Memory!Home
      <3>2. CASE p[1] = "native"
        BY <2>1, <3>2 DEF Memory!Home
      <3>3. CASE p[1] = "span"
        BY <1>2, <2>1, <3>3, ListsStay DEF SameHome
      <3> QED
        BY <3>1, <3>2, <3>3, PointerIs
    <2>6. memoryCall' = [memoryCall EXCEPT ![t] = Memory!Idle] /\ UNCHANGED <<memoryOs, memoryMappings, memorySlabs, memorySlots>>
      BY <1>2, <2>1
    <2> QED
      BY <1>1, <1>2, <1>3, <2>3, <2>4, <2>5, <2>6, HeapGivesUp
  <1>7. CASE r[1] = "native"
    <2>1. /\ memoryNative' = [memoryNative EXCEPT ![r[2]] = 0] /\ memoryCall' = [memoryCall EXCEPT ![t] = Memory!Idle]
          /\ UNCHANGED <<memoryMappings, memorySlabs, memorySlots>> /\ memoryDirect' = memoryDirect
      BY <1>1, <1>3, <1>4, <1>7 DEF Memory!Release, Memory!Step, Memory!lists
    <2>2. r = <<"native", r[2], 0>> /\ r[2] \in MemoryIds
      BY <1>7, PointerIs
    <2>3. HeapTypes' /\ memoryNative'[r[2]] = 0 /\ \A j \in MemoryIds : j # r[2] => memoryNative'[j] = memoryNative[j]
      BY <1>5, <2>1, <2>2 DEF HeapTypes
    <2>4. Memory!Home(r)' = 0
      BY <1>7, <2>3 DEF Memory!Home
    <2>5. ASSUME NEW p \in Memory!Pointers, p # r PROVE Memory!Home(p)' = Memory!Home(p)
      <3>1. CASE p[1] = "native"
        BY <2>2, <2>3, <2>5, <3>1, PointerIs DEF Memory!Home
      <3>2. CASE p[1] = "direct"
        BY <2>1, <3>2 DEF Memory!Home
      <3>3. CASE p[1] = "span"
        BY <1>2, <2>1, <3>3, ListsStay DEF SameHome
      <3> QED
        BY <3>1, <3>2, <3>3, PointerIs
    <2>6. memoryCall' = [memoryCall EXCEPT ![t] = Memory!Idle] /\ UNCHANGED <<memoryOs, memoryMappings, memorySlabs, memorySlots>>
      BY <1>2, <2>1
    <2> QED
      BY <1>1, <1>2, <1>3, <2>3, <2>4, <2>5, <2>6, HeapGivesUp
  <1> QED
    BY <1>3, <1>6, <1>7, PointerIs

\* A call that has a span to unmap.
LEMMA UnmapIs ==
  ASSUME NEW d \in CallIs, NEW r \in Memory!Pointers, r[1] = "span"
  PROVE \E c \in CallIs : /\ c = [d EXCEPT !.at = "unmap", !.unmap = r] /\ InHand(c) = {} /\ SpansOf(c) = {r[2]} /\ CallOK(c)'
  <1> DEFINE c == [d EXCEPT !.at = "unmap", !.unmap = r]
  <1>1. c \in CallIs /\ c.at = "unmap" /\ c.unmap = r
    BY DEF CallIs
  <1> HIDE DEF c
  <1>2. InHand(c) = {} /\ SpansOf(c) = {r[2]} /\ CallOK(c)'
    BY <1>1, PointerIs DEF InHand, SpansOf, CallOK
  <1> QED
    BY <1>1, <1>2 DEF c

LEMMA ReleaseMapping ==
  ASSUME MemInv, NEW t \in MemoryThreads, Memory!Release(t), Memory!InList(memoryCall[t].old)
  PROVE MemInv'
  <1>1. PICK d \in CallIs : d = memoryCall[t] /\ CallOK(d)
    BY CallOf
  <1>2. /\ d.at = "release" /\ UNCHANGED memoryOs /\ UNCHANGED memoryCalls /\ memoryBlocks' = memoryBlocks
    BY <1>1 DEF Memory!Release
  <1>3. PICK r \in Memory!Pointers : r = d.old /\ r[1] = "span" /\ memoryMappings[r[2]] # 0 /\ r[3] = 0
    BY <1>1, <1>2 DEF CallOK, CallIs, Memory!InList
  <1>4. PICK k \in MemorySpans : k = r[2] /\ r = <<"span", k, 0>>
    BY <1>3, PointerIs
  <1>5. PICK c \in CallIs : c = [d EXCEPT !.at = "unmap", !.unmap = r] /\ InHand(c) = {} /\ SpansOf(c) = {k} /\ CallOK(c)'
    BY <1>3, <1>4, UnmapIs
  <1>6. /\ memoryMappings' = [memoryMappings EXCEPT ![k] = 0] /\ memoryCall' = [memoryCall EXCEPT ![t] = c]
        /\ UNCHANGED <<memorySlabs, memorySlots>> /\ UNCHANGED <<memoryDirect, memoryNative>>
    BY <1>1, <1>3, <1>4, <1>5 DEF Memory!Release, Memory!Step, Memory!heaps, Memory!Unlinks, Memory!InMenu, Memory!InList
  <1>7. memoryMappings'[k] = 0 /\ \A j \in MemorySpans : j # k => memoryMappings'[j] = memoryMappings[j]
    BY <1>6 DEF MemInv, ListTypes
  <1>8. memoryOs[k] = "mapping" /\ k \notin memorySlabs
    BY <1>3, <1>4, SpanIs
  <1>9. ListTypes'
    BY <1>2, <1>6 DEF MemInv, ListTypes
  <1>10. Lists'
    BY <1>2, <1>6, <1>7 DEF MemInv, Lists, ListTypes
  <1>11. Memory!Home(r)' = 0
    BY <1>3, <1>4, <1>7 DEF Memory!Home, Memory!OldSize, Memory!InMenu, Memory!InList
  <1>12. ASSUME NEW p \in Memory!Pointers, p # r PROVE SameHome(p)
    <2>1. Memory!InMenu(p)' = Memory!InMenu(p) /\ \A s : FitsAs(p, s)' = FitsAs(p, s)
      BY <1>2, <1>6 DEF Memory!InMenu, FitsAs
    <2>2. CASE p[1] # "span"
      BY <1>6, <2>1, <2>2, PointerIs DEF Memory!Home, SameHome
    <2>3. CASE p[1] = "span" /\ (p[2] # k \/ p[3] # 0)
      <3>1. p[2] \in MemorySpans
        BY <2>3, PointerIs
      <3>2. Memory!OldSize(p)' = Memory!OldSize(p)
        BY <1>6, <1>7, <2>3, <3>1 DEF Memory!OldSize, Memory!InMenu, Memory!InList
      <3> QED
        BY <2>1, <2>3, <3>2 DEF Memory!Home, SameHome
    <2>4. CASE p[1] = "span" /\ p[2] = k /\ p[3] = 0
      BY <1>4, <1>12, <2>4, PointerIs
    <2> QED
      BY <2>2, <2>3, <2>4
  <1>13. \A j \in SpansOf(c) : j \in MemorySpans /\ Unlisted(j)' /\ ~Unlisted(j)
    BY <1>2, <1>3, <1>4, <1>5, <1>6, <1>7, <1>8 DEF Unlisted
  <1>14. \A j \in MemorySpans : Unlisted(j) => Unlisted(j)'
    BY <1>2, <1>3, <1>4, <1>6, <1>7 DEF Unlisted
  <1>15. \A j \in MemorySpans : Unlisted(j)' => j \in SpansOf(c) \/ Unlisted(j)
    BY <1>2, <1>5, <1>6, <1>7 DEF Unlisted
  <1>16. \A p \in Memory!Pointers : p # d.old => SameHome(p)
    BY <1>3, <1>12
  <1>17. Memory!Home(d.old)' = 0
    BY <1>3, <1>11
  <1>18. memoryCall' = [memoryCall EXCEPT ![t] = c] /\ UNCHANGED <<memoryDirect, memoryNative>>
    BY <1>6
  <1> QED
    BY <1>1, <1>2, <1>5, <1>9, <1>10, <1>13, <1>14, <1>15, <1>16, <1>17, <1>18, ListGivesUp

LEMMA ReleaseSlot ==
  ASSUME MemInv, NEW t \in MemoryThreads, Memory!Release(t), Memory!InMenu(memoryCall[t].old)
  PROVE MemInv'
  <1>1. PICK d \in CallIs : d = memoryCall[t] /\ CallOK(d)
    BY CallOf
  <1>2. /\ d.at = "release" /\ UNCHANGED memoryOs /\ UNCHANGED memoryCalls /\ memoryBlocks' = memoryBlocks
    BY <1>1 DEF Memory!Release
  <1>3. PICK r \in Memory!Pointers : r = d.old /\ Memory!InMenu(r) /\ r[1] = "span" /\ r[2] \in memorySlabs /\ r[3] # 0
    BY <1>1, <1>2 DEF CallOK, CallIs, Memory!InMenu
  <1>0. r[1] # "direct" /\ ~Memory!InList(r)
    BY <1>3 DEF Memory!InList
  <1>4. PICK k \in MemorySpans, i \in 1 .. MemorySlots : k = r[2] /\ i = r[3] /\ r = <<"span", k, i>> /\ k \in memorySlabs
    BY <1>3, SlotIs, PointerIs
  <1>5. memorySlots' = [memorySlots EXCEPT ![k][i] = 0] /\ UNCHANGED memoryMappings /\ UNCHANGED <<memoryDirect, memoryNative>>
    BY <1>0, <1>1, <1>3, <1>4 DEF Memory!Release, Memory!heaps
  <1>6. memorySlabs' = IF Memory!Emptied(k, i) THEN memorySlabs \ {k} ELSE memorySlabs
    BY <1>0, <1>1, <1>3, <1>4 DEF Memory!Release, Memory!Unlinks
  <1>7. /\ memorySlots' \in [MemorySpans -> [1 .. MemorySlots -> Nat]] /\ memorySlots'[k][i] = 0
        /\ \A j \in 1 .. MemorySlots : j # i => memorySlots'[k][j] = memorySlots[k][j]
        /\ \A m \in MemorySpans : m # k => memorySlots'[m] = memorySlots[m]
    BY <1>5, SlotsSet
  <1>8. memoryMappings[k] = 0 /\ memoryOs[k] \in {"small", "big"}
    BY <1>4, SpanIs
  <1>9. ListTypes'
    BY <1>2, <1>5, <1>6, <1>7 DEF MemInv, ListTypes
  <1>10. Memory!Home(r)' = 0
    BY <1>3, <1>4, <1>5, <1>7, <1>8 DEF Memory!Home, Memory!OldSize, Memory!InMenu, Memory!InList
  <1>11. \A m \in MemorySpans : m # k => (m \in memorySlabs' <=> m \in memorySlabs)
    BY <1>6
  <1>12. \A p \in Memory!Pointers : p # r => SameHome(p)
    <2>1. \A m \in MemorySpans : m # k => memoryOs'[m] = memoryOs[m] /\ (m \in memorySlabs' <=> m \in memorySlabs)
      BY <1>2, <1>11
    <2>2. \/ memoryOs'[k] = memoryOs[k] /\ k \in memorySlabs /\ k \in memorySlabs'
          \/ \A j \in 1 .. MemorySlots : j # i => memorySlots[k][j] = 0
      BY <1>2, <1>4, <1>6 DEF Memory!Emptied
    <2>3. r = <<"span", k, i>>
      BY <1>4
    <2> QED
      BY <1>5, <1>7, <1>8, <2>1, <2>2, <2>3, SlotAlone
  <1>13. \A m \in MemorySpans : memoryMappings[m] # 0 => memoryOs[m] = "mapping"
    BY SpanIs
  <1>14. \A m \in MemorySpans \ {k} : /\ m \in memorySlabs' => /\ memoryOs'[m] \in {"small", "big"} /\ memoryMappings'[m] = 0
                                                          /\ \E j \in 1 .. MemorySlots : memorySlots'[m][j] # 0
                                      /\ m \notin memorySlabs' => \A j \in 1 .. MemorySlots : memorySlots'[m][j] = 0
    BY <1>2, <1>5, <1>7, <1>11 DEF MemInv, Lists
  <1>15. CASE Memory!Emptied(k, i)
    <2>1. PICK c \in CallIs : c = [d EXCEPT !.at = "unmap", !.unmap = r] /\ InHand(c) = {} /\ SpansOf(c) = {k} /\ CallOK(c)'
      BY <1>3, <1>4, UnmapIs
    <2>2. memoryCall' = [memoryCall EXCEPT ![t] = c]
      BY <1>0, <1>1, <1>3, <1>4, <1>15, <2>1 DEF Memory!Release, Memory!Step
    <2>3. memorySlabs' = memorySlabs \ {k}
      BY <1>6, <1>15
    <2>4. \A j \in 1 .. MemorySlots : memorySlots'[k][j] = 0
      BY <1>7, <1>15 DEF Memory!Emptied
    <2>5. Lists'
      <3>1. \A m \in memorySlabs' : m \in MemorySpans \ {k}
        BY <1>9, <2>3 DEF ListTypes
      <3> QED
        BY <1>2, <1>5, <1>13, <1>14, <2>3, <2>4, <3>1 DEF Lists
    <2>6. \A j \in SpansOf(c) : j \in MemorySpans /\ Unlisted(j)' /\ ~Unlisted(j)
      BY <1>2, <1>4, <1>5, <1>8, <2>1, <2>3 DEF Unlisted
    <2>7. \A j \in MemorySpans : Unlisted(j) => Unlisted(j)'
      BY <1>2, <1>5, <2>3 DEF Unlisted
    <2>8. \A j \in MemorySpans : Unlisted(j)' => j \in SpansOf(c) \/ Unlisted(j)
      BY <1>2, <1>5, <2>1, <2>3 DEF Unlisted
    <2>9. /\ \A p \in Memory!Pointers : p # d.old => SameHome(p)
          /\ Memory!Home(d.old)' = 0 /\ UNCHANGED <<memoryDirect, memoryNative>>
      BY <1>3, <1>5, <1>10, <1>12
    <2>10. InHand(c) = {} /\ CallOK(c)'
      BY <2>1
    <2> QED
      BY <1>1, <1>2, <1>9, <2>2, <2>5, <2>6, <2>7, <2>8, <2>9, <2>10, ListGivesUp
  <1>16. CASE ~Memory!Emptied(k, i)
    <2>1. memoryCall' = [memoryCall EXCEPT ![t] = Memory!Idle]
      BY <1>0, <1>1, <1>3, <1>4, <1>16 DEF Memory!Release, Memory!Step
    <2>2. memorySlabs' = memorySlabs
      BY <1>6, <1>16
    <2>3. \E j \in 1 .. MemorySlots : memorySlots'[k][j] # 0
      BY <1>7, <1>16 DEF Memory!Emptied
    <2>4. Lists'
      <3>1. \A m \in memorySlabs' : m \in MemorySpans
        BY <1>9 DEF ListTypes
      <3>2. \A m \in memorySlabs' : /\ memoryOs'[m] \in {"small", "big"} /\ memoryMappings'[m] = 0
                                    /\ \E j \in 1 .. MemorySlots : memorySlots'[m][j] # 0
        BY <1>2, <1>5, <1>8, <1>14, <2>3, <3>1
      <3>3. \A m \in MemorySpans \ memorySlabs' : \A j \in 1 .. MemorySlots : memorySlots'[m][j] = 0
        BY <1>4, <1>14, <2>2
      <3> QED
        BY <1>2, <1>5, <1>13, <3>2, <3>3 DEF Lists
    <2>5. \A j : Unlisted(j)' = Unlisted(j)
      BY <1>2, <1>5, <2>2 DEF Unlisted
    <2>6. /\ \A p \in Memory!Pointers : p # d.old => SameHome(p)
          /\ Memory!Home(d.old)' = 0 /\ UNCHANGED <<memoryDirect, memoryNative>>
      BY <1>3, <1>5, <1>10, <1>12
    <2>7. /\ \A j \in SpansOf(Memory!Idle) : j \in MemorySpans /\ Unlisted(j)' /\ ~Unlisted(j)
          /\ \A j \in MemorySpans : Unlisted(j) => Unlisted(j)'
          /\ \A j \in MemorySpans : Unlisted(j)' => j \in SpansOf(Memory!Idle) \/ Unlisted(j)
      BY <2>5, Idles
    <2> QED
      BY <1>1, <1>2, <1>9, <2>1, <2>4, <2>6, <2>7, Idles, ListGivesUp
  <1> QED
    BY <1>15, <1>16

LEMMA ReleaseGivesUp ==
  ASSUME MemInv, NEW t \in MemoryThreads, Memory!Release(t)
  PROVE MemInv'
  <1>1. PICK d \in CallIs : d = memoryCall[t] /\ CallOK(d)
    BY CallOf
  <1>2. d.at = "release"
    BY <1>1 DEF Memory!Release
  <1>3. d.old \in Memory!Pointers /\ Memory!Home(d.old) # 0
    BY <1>1, <1>2 DEF CallOK, CallIs
  <1>4. d.old[1] # "span" \/ Memory!InMenu(d.old) \/ Memory!InList(d.old)
    BY <1>3 DEF Memory!Home, Memory!OldSize
  <1> QED
    BY <1>1, <1>4, ReleaseHeap, ReleaseSlot, ReleaseMapping


LEMMA MemoryInitHolds == Memory!Init => MemInv
  <1> SUFFICES ASSUME Memory!Init PROVE MemInv
    OBVIOUS
  <1>1. /\ memoryOs = [k \in MemorySpans |-> "free"] /\ memoryMappings = [k \in MemorySpans |-> 0] /\ memorySlabs = {}
        /\ memorySlots = [k \in MemorySpans |-> [i \in 1 .. MemorySlots |-> 0]]
        /\ memoryDirect = [i \in MemoryIds |-> 0] /\ memoryNative = [i \in MemoryIds |-> 0]
        /\ memoryBlocks = [p \in Memory!Pointers |-> Memory!NoBlock]
        /\ memoryCall = [t \in MemoryThreads |-> Memory!Idle] /\ memoryCalls = 0
    BY DEF Memory!Init
  <1>2. ListTypes /\ HeapTypes
    BY <1>1 DEF ListTypes, HeapTypes
  <1>3. CallTypes
    BY <1>1, Idles, MemoryBounds DEF CallTypes
  <1>4. BlockTypes /\ \A p \in Memory!Pointers : memoryBlocks[p].size = 0
    BY <1>1, NoBlockIs DEF BlockTypes
  <1>5. Lists /\ \A k \in MemorySpans : ~Unlisted(k)
    BY <1>1 DEF Lists, Unlisted
  <1>6. \A t \in MemoryThreads : InHand(memoryCall[t]) = {} /\ SpansOf(memoryCall[t]) = {} /\ CallOK(memoryCall[t])
    <2>1. \A t \in MemoryThreads : memoryCall[t] = Memory!Idle
      BY <1>1
    <2> QED
      BY <2>1, Idles
  <1>7. SpansTheirs /\ SpansKnown /\ CallsOK
    BY <1>5, <1>6 DEF SpansTheirs, SpansKnown, CallsOK
  <1>8. ASSUME NEW p \in Memory!Pointers PROVE Memory!Home(p) = 0
    <2>1. p[1] = "direct" => memoryDirect[p[2]] = 0
      BY <1>1, PointerIs
    <2>2. p[1] = "native" => memoryNative[p[2]] = 0
      BY <1>1, PointerIs
    <2>3. p[1] = "span" => memoryMappings[p[2]] = 0 /\ p[2] \notin memorySlabs
      BY <1>1, PointerIs
    <2> QED
      BY <2>1, <2>2, <2>3, PointerIs, HomeIs
  <1>9. Held /\ Known
    BY <1>4, <1>6, <1>8 DEF Held, Known
  <1> QED
    BY <1>2, <1>3, <1>4, <1>5, <1>7, <1>9 DEF MemInv

LEMMA MemoryStep == ASSUME MemInv, Memory!Next PROVE MemInv'
  <1>1. PICK t \in MemoryThreads :
           \/ \E s \in MemorySizes : Memory!Malloc(t, s, "title") \/ Memory!Malloc(t, s, "core") \/ Memory!Malloc(t, s, "menu")
           \/ \E s \in MemorySizes : Memory!Calloc(t, s, "title") \/ Memory!Calloc(t, s, "core")
           \/ \E p \in Memory!Pointers : Memory!Free(t, p) \/ \E s \in MemorySizes : Memory!Realloc(t, p, s)
           \/ \E i \in MemoryIds : \/ Memory!Direct(t, i) \/ Memory!Native(t, i) \/ Memory!ResizeDirect(t, i)
                                   \/ Memory!MoveNative(t, i) \/ \E s \in MemorySizes : Memory!Library(t, i, s)
           \/ \E k \in MemorySpans : Memory!Map(t, k) \/ Memory!Slot(t, k)
           \/ Memory!Link(t) \/ Memory!Refused(t) \/ Memory!Release(t) \/ Memory!Unmap(t) \/ Memory!Resize(t)
           \/ Memory!ResizeNative(t) \/ Memory!ResizeRefused(t) \/ Memory!Copy(t)
    BY DEF Memory!Next
  <1>2. CASE \E s \in MemorySizes : Memory!Malloc(t, s, "title") \/ Memory!Malloc(t, s, "core") \/ Memory!Malloc(t, s, "menu")
    BY <1>2, MallocKeeps
  <1>3. ~ \E s \in MemorySizes : Memory!Calloc(t, s, "title") \/ Memory!Calloc(t, s, "core")
    BY DEF Memory!Calloc
  <1>4. CASE \E p \in Memory!Pointers : Memory!Free(t, p) \/ \E s \in MemorySizes : Memory!Realloc(t, p, s)
    BY <1>4, FreeKeeps, ReallocKeeps
  <1>5. CASE \E i \in MemoryIds : \/ Memory!Direct(t, i) \/ Memory!Native(t, i) \/ Memory!ResizeDirect(t, i)
                                  \/ Memory!MoveNative(t, i) \/ \E s \in MemorySizes : Memory!Library(t, i, s)
    BY <1>5, DirectKeeps, NativeKeeps, ResizeDirectKeeps, MoveNativeKeeps, LibraryKeeps
  <1>6. CASE \E k \in MemorySpans : Memory!Map(t, k) \/ Memory!Slot(t, k)
    BY <1>6, MapKeeps, SlotKeeps
  <1>7. CASE Memory!Refused(t) \/ Memory!ResizeRefused(t)
    <2>1. memoryCall[t].at \in {"allocate", "resize"} /\ Memory!GetsNothing(t)
      BY <1>7 DEF Memory!Refused, Memory!ResizeRefused, Memory!Allocates
    <2>2. /\ UNCHANGED <<memoryOs, memoryMappings, memorySlabs, memorySlots>> /\ UNCHANGED <<memoryDirect, memoryNative>>
          /\ UNCHANGED memoryCalls
      BY <1>7 DEF Memory!Refused, Memory!ResizeRefused, Memory!lists, Memory!heaps
    <2> QED
      BY <2>1, <2>2, GetsNothingKeeps
  <1> QED
    BY <1>1, <1>2, <1>3, <1>4, <1>5, <1>6, <1>7, LinkKeeps, ReleaseGivesUp, UnmapKeeps, ResizeKeeps, ResizeNativeKeeps, CopyKeeps

\* Every part of what the program relies on follows.
LEMMA MemorySays == ASSUME MemInv PROVE BlocksAreKept
  <1>1. Memory!TypeOK
    BY DEF MemInv, ListTypes, CallTypes, BlockTypes, CallIs, Memory!TypeOK
  <1>2. Memory!ListsAreMapped
    BY DEF MemInv, Lists, Memory!ListsAreMapped
  <1>3. Memory!BlocksAreTheirs
    BY DEF MemInv, Held, Out, FitsAs, Memory!Live, Memory!Fits, Memory!BlocksAreTheirs
  <1>4. Memory!ContentsKept
    BY DEF MemInv, BlockTypes, Whole, Memory!ContentsKept
  <1>5. Memory!NothingLeaks
    <2> SUFFICES ASSUME \A t \in MemoryThreads : memoryCall[t].at = "idle"
                 PROVE /\ \A i \in MemoryIds : /\ memoryDirect[i] # 0 => Memory!Live(<<"direct", i, 0>>)
                                               /\ memoryNative[i] # 0 => Memory!Live(<<"native", i, 0>>)
                       /\ \A k \in MemorySpans : memoryOs[k] # "free" => \E i \in 0 .. MemorySlots : Memory!Live(<<"span", k, i>>)
      BY DEF Memory!NothingLeaks
    <2>1. \A t \in MemoryThreads : InHand(memoryCall[t]) = {} /\ SpansOf(memoryCall[t]) = {}
      BY DEF InHand, SpansOf
    <2>2. \A p \in Memory!Pointers : Memory!Home(p) # 0 => Memory!Live(p)
      BY <2>1 DEF MemInv, Known, Memory!Live
    <2>3. ASSUME NEW i \in MemoryIds
          PROVE /\ memoryDirect[i] # 0 => Memory!Live(<<"direct", i, 0>>)
                /\ memoryNative[i] # 0 => Memory!Live(<<"native", i, 0>>)
      BY <2>2, PointersAre DEF Memory!Home
    <2>4. ASSUME NEW k \in MemorySpans, memoryOs[k] # "free" PROVE \E i \in 0 .. MemorySlots : Memory!Live(<<"span", k, i>>)
      <3>1. memoryMappings[k] # 0 \/ k \in memorySlabs
        BY <2>1, <2>4 DEF MemInv, SpansKnown, Unlisted
      <3>2. CASE k \in memorySlabs
        <4>1. PICK i \in 1 .. MemorySlots : memorySlots[k][i] # 0
          BY <3>2 DEF MemInv, Lists
        <4>2. i \in 0 .. MemorySlots /\ i # 0
          BY MemoryBounds
        <4>3. Memory!Home(<<"span", k, i>>) # 0
          BY <3>2, <4>1, <4>2 DEF Memory!Home, Memory!OldSize, Memory!InMenu
        <4> QED
          BY <2>2, <4>2, <4>3, PointersAre
      <3>3. CASE k \notin memorySlabs
        <4>1. Memory!Home(<<"span", k, 0>>) # 0
          BY <3>1, <3>3 DEF Memory!Home, Memory!OldSize, Memory!InMenu, Memory!InList
        <4>2. 0 \in 0 .. MemorySlots
          BY MemoryBounds
        <4> QED
          BY <2>2, <4>1, <4>2, PointersAre
      <3> QED
        BY <3>2, <3>3
    <2> QED
      BY <2>3, <2>4
  <1> QED
    BY <1>1, <1>2, <1>3, <1>4, <1>5 DEF BlocksAreKept

LEMMA MemorySafe == MCSpec => [](part = "memory" => MemInv)
  <1>1. MCInit => (part = "memory" => MemInv)
    BY MemoryInitHolds DEF MCInit
  <1>2. (part = "memory" => MemInv) /\ [MCNext]_MCVars => (part = "memory" => MemInv)'
    <2>1. ASSUME UNCHANGED MemoryVars, MemInv PROVE MemInv'
      <3>1. \A p, s : Out(p, s)' = Out(p, s)
        BY <2>1 DEF MemoryVars, Out, FitsAs, Memory!Home, Memory!OldSize, Memory!InMenu, Memory!InList
      <3>2. \A p : Memory!Home(p)' = Memory!Home(p)
        BY <2>1 DEF MemoryVars, Memory!Home, Memory!OldSize, Memory!InMenu, Memory!InList
      <3>3. \A k : Unlisted(k)' = Unlisted(k)
        BY <2>1 DEF MemoryVars, Unlisted
      <3>4. \A c : CallOK(c)' = CallOK(c)
        BY <2>1, <3>1, <3>2 DEF MemoryVars, CallOK, Was
      <3>5. ListTypes' /\ HeapTypes' /\ CallTypes' /\ BlockTypes' /\ Lists'
        BY <2>1 DEF MemoryVars, MemInv, ListTypes, HeapTypes, CallTypes, BlockTypes, Lists
      <3>6. SpansTheirs' /\ SpansKnown'
        BY <2>1, <3>3 DEF MemoryVars, MemInv, SpansTheirs, SpansKnown
      <3>7. Held' /\ Known'
        BY <2>1, <3>1, <3>2 DEF MemoryVars, MemInv, Held, Known
      <3>8. CallsOK'
        BY <2>1, <3>4 DEF MemoryVars, MemInv, CallsOK
      <3> QED
        BY <3>5, <3>6, <3>7, <3>8 DEF MemInv
    <2>2. UNCHANGED MCVars => UNCHANGED MemoryVars /\ part' = part
      BY DEF MCVars
    <2>3. ASSUME MCNext, MemInv, part = "memory" PROVE MemInv'
      BY <2>3, MemoryStep DEF MCNext
    <2>4. MCNext => part' = part
      BY DEF MCNext
    <2> QED
      BY <2>1, <2>2, <2>3, <2>4
  <1> QED
    BY <1>1, <1>2, PTL DEF MCSpec

-----------------------------------------------------------------------------
(* The model as it is run: the title, or one of its components, at a time.     *)

\* The title is in its first states when another component runs, and stays there.
LEMMA TitleHolds == MCSpec => []TitleInv
  <1>1. MCInit => TitleInv
    BY TitleInit DEF MCInit, TitleOff
  <1>2. TitleInv /\ [MCNext]_MCVars => TitleInv'
    <2>1. [MCNext]_MCVars => [Next]_vars
      BY DEF MCNext, MCVars
    <2> QED
      BY <2>1, TitleNext
  <1> QED
    BY <1>1, <1>2, PTL DEF MCSpec

\* The two tests of a start end and say what they found: the relaunch test restarts no more often
\* than it was armed for and recorded; the display's modes are tested only at a start armed for
\* it, with a PASS only of modes all presented and nothing of the test left (run_test).
THEOREM TestsKeepToTheirArming == MCSpec => []TestsAreArmed
  <1>1. TitleInv => TestEnds
    BY DEF TitleInv
  <1>2. (part = "modes" => TestInv) => ModesAreTested
    BY TestSays DEF ModesAreTested
  <1> QED
    BY <1>1, <1>2, TitleHolds, ModesSafe, PTL DEF TestsAreArmed

\* What the title runs and holds is there: no core's code is unmapped under a thread that runs it,
\* and the threads' count and answers are exact (core_threads_ps5.cpp); a loaded image's code is its
\* file's and nothing else of it is called (core_loader_ps5.cpp); no block shares memory with
\* another, loses what it held to a resize, or stays taken when it is given back (memory_ps5.cpp).
THEOREM MemoryStaysTheirs == MCSpec => []MemoryIsTheirs
  <1>1. (part = "cores" => CoresInv) => (part = "cores" => CodeIsMapped)
    BY CoresSay
  <1>2. (part = "image" => ImageInv) => (part = "image" => ImageIsWhole)
    BY ImageSays
  <1>3. (part = "memory" => MemInv) => (part = "memory" => BlocksAreKept)
    BY MemorySays
  <1> QED
    BY <1>1, <1>2, <1>3, CoresSafe, ImageSafe, MemorySafe, PTL DEF MemoryIsTheirs
=============================================================================
