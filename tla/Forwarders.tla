----------------------------- MODULE Forwarders -----------------------------
(* src/src/ps5_forwarders.cpp: the tiles the WebUI makes, what the daemon's loop *)
(* (daemon/webui_daemon.cpp) finishes once the title has closed, and             *)
(* ShadowMountPlus, which lists, installs and uninstalls them.  A request and    *)
(* finish_pending hold their process's state_lock from end to end; each call of  *)
(* ShadowMountPlus and each write is a step, and a daemon may be killed between  *)
(* two.  A daemon that leaves tries once more (its stop, with the next daemon    *)
(* perhaps serving already): "serving" and "leaving" are the two processes.      *)
EXTENDS Naturals, FiniteSets

CONSTANTS
    Ids,         \* the tile ids
    Plans        \* the tiles there are at first; and bounds: how many are made, how many
                 \* looks (names and icons) are given, how often ShadowMountPlus stops answering, a daemon is killed,
                 \* and a write fails

ForwardersAssumption ==
    /\ IsFiniteSet(Ids)
    /\ Plans \subseteq [there : SUBSET Ids, makes : Nat, looks : Nat, silences : Nat, kills : Nat, faults : Nat]

VARIABLES
    folder,      \* folder[t]: "none", "part" (no forward.txt: no tile), or "tile"
    look,        \* look[t]: which name and icon the folder holds
    marks,       \* marks[t]: refresh.pending and remove.pending
    listed,      \* ShadowMountPlus's manual list
    home,        \* home[t]: the look the home screen installed, 0 for none
    going,       \* uninstalls ShadowMountPlus has under way
    owed,        \* calls told as failed after 20 s that ShadowMountPlus may yet carry out
    answers,     \* ShadowMountPlus answers
    title,       \* a program of the title runs, and is linked
    daemon,      \* "serving" or "off"
    leaving,     \* the daemon that stopped serving has its last try to make
    tilesDone,   \* tiles_done
    job,         \* job[d]: what holds d's state_lock: what it does, to which tile, how far it is
    budget,      \* what is left of the plan
    unmarked,    \* some change of a look was never marked: no answer, no write, or a kill
    unheard,     \* the tiles an addition to the list of which was told as failed
    excused,     \* since the title closed: a request was served, a daemon killed, or a last
                 \* try had no answer
    met          \* some request was served while a daemon that left made its last try

tiles == <<folder, look, marks>>
smp   == <<listed, home, going, owed>>
loop  == <<daemon, leaving, tilesDone>>
flags == <<unmarked, unheard, excused, met>>
vars  == <<tiles, smp, answers, title, loop, job, budget, flags>>

Daemons == {"serving", "leaving"}
NoJob == [op |-> "none", tile |-> "none", pc |-> "none", known |-> {}, todo |-> {}, fresh |-> {}, done |-> {}, left |-> FALSE]
Spend(what) == budget[what] > 0 /\ budget' = [budget EXCEPT ![what] = @ - 1]
Free(d) == job[d] = NoJob
IsTile(t) == folder[t] = "tile"
Goto(d, pc) == job' = [job EXCEPT ![d].pc = pc]
At(op, pc) == job["serving"].op = op /\ job["serving"].pc = pc
Asked == job["serving"].tile  \* the tile of the request
Go(pc) == Goto("serving", pc)
Replied == job' = [job EXCEPT !["serving"] = NoJob]

TypeOK ==
    /\ folder \in [Ids -> {"none", "part", "tile"}] /\ look \in [Ids -> Nat]
    /\ marks \in [Ids -> SUBSET {"remove", "refresh"}] /\ listed \subseteq Ids /\ going \subseteq Ids
    /\ owed \subseteq {"add", "remove", "uninstall"} \X Ids /\ home \in [Ids -> Nat]
    /\ {answers, title, leaving, tilesDone, unmarked, excused, met} \subseteq BOOLEAN /\ unheard \subseteq Ids

Init ==
    /\ budget \in Plans /\ folder = [t \in Ids |-> IF t \in budget.there THEN "tile" ELSE "none"]
    /\ look = [t \in Ids |-> IF t \in budget.there THEN budget.looks + 1 ELSE 0]
    /\ marks = [t \in Ids |-> {}] /\ listed = budget.there /\ home = look /\ going = {} /\ owed = {} /\ answers = TRUE
    /\ title = TRUE /\ daemon = "serving" /\ leaving = FALSE /\ tilesDone = FALSE
    /\ job = [d \in Daemons |-> NoJob]
    /\ unmarked = FALSE /\ unheard = {} /\ excused = FALSE /\ met = FALSE

-----------------------------------------------------------------------------
(* ShadowMountPlus, the title and the user *)

\* A scan installs what is listed, once no game runs.
Install(t) ==
    /\ ~title /\ t \in listed \ going /\ IsTile(t) /\ home[t] = 0
    /\ home' = [home EXCEPT ![t] = look[t]]
    /\ UNCHANGED <<tiles, listed, going, owed, answers, title, loop, job, budget, flags>>

\* An uninstall it took finishes on its own, and keeps the source.
Uninstalled(t) ==
    /\ t \in going /\ going' = going \ {t} /\ home' = [home EXCEPT ![t] = 0]
    /\ UNCHANGED <<tiles, listed, owed, answers, title, loop, job, budget, flags>>

Falls ==
    /\ answers /\ Spend("silences") /\ answers' = FALSE
    /\ UNCHANGED <<tiles, smp, title, loop, job, flags>>

Answers ==
    /\ ~answers /\ answers' = TRUE
    /\ UNCHANGED <<tiles, smp, title, loop, job, budget, flags>>

\* What ShadowMountPlus does of a call: uninstalls are refused while a game runs.
Does(op, S) ==
    /\ listed' = CASE op = "add" -> listed \cup S [] op = "remove" -> listed \ S [] OTHER -> listed
    /\ going' = (IF op = "uninstall" /\ ~title THEN going \cup S ELSE going)

\* It carries out, late, a call nobody waits for any more.
Belated(c) ==
    /\ answers /\ c \in owed /\ owed' = owed \ {c} /\ Does(c[1], {c[2]})
    /\ UNCHANGED <<tiles, home, answers, title, loop, job, budget, flags>>

\* A program of the title starts, with a daemon to link to.
TitleStarts ==
    /\ ~title /\ title' = TRUE /\ daemon' = "serving" /\ excused' = FALSE
    /\ tilesDone' = (tilesDone /\ daemon = "serving")
    /\ UNCHANGED <<tiles, smp, answers, leaving, job, budget, unmarked, unheard, met>>

\* A turn of the daemon's loop with a program linked: the page can leave more to do.
LoopSees ==
    /\ title /\ tilesDone /\ job["serving"].op # "finish" /\ tilesDone' = FALSE
    /\ UNCHANGED <<tiles, smp, answers, title, daemon, leaving, job, budget, flags>>

\* No program of the title closes within the turn that sees it link.
TitleCloses ==
    /\ title /\ ~tilesDone /\ title' = FALSE /\ excused' = FALSE
    /\ UNCHANGED <<tiles, smp, answers, loop, job, budget, unmarked, unheard, met>>

\* A daemon ends in the middle of what it does; the title starts another.
Kill(d) ==
    /\ IF d = "leaving" THEN leaving ELSE daemon = "serving"
    /\ Spend("kills") /\ job' = [job EXCEPT ![d] = NoJob] /\ excused' = TRUE
    /\ IF d = "leaving" THEN leaving' = FALSE /\ UNCHANGED <<daemon, tilesDone>>
       ELSE /\ daemon' = (IF title THEN "serving" ELSE "off") /\ tilesDone' = FALSE /\ UNCHANGED leaving
    /\ unmarked' = (unmarked \/ job[d].pc = "mark")
    /\ UNCHANGED <<tiles, smp, answers, title, unheard, met>>

-----------------------------------------------------------------------------
(* The requests *)

\* call, for each tile of S: an answer, or none within 20 s, which is told as a failure
\* although ShadowMountPlus may yet do it.
Called == answers

Call(op, S) ==
    IF answers THEN Does(op, S) /\ UNCHANGED owed
    ELSE (\E T \in SUBSET S : owed' = owed \cup ({op} \X T)) /\ UNCHANGED <<listed, going>>

Unheard(S) == unheard' = (IF Called THEN unheard ELSE unheard \cup S)

Request(op, t, pc, known) ==
    /\ Free("serving") /\ daemon = "serving" /\ excused' = (excused \/ ~title) /\ met' = (met \/ leaving)
    /\ job' = [job EXCEPT !["serving"] = [NoJob EXCEPT !.op = op, !.tile = t, !.pc = pc, !.known = known]]
    /\ UNCHANGED unheard

\* known: what ShadowMountPlus says is installed.
Known == {t \in Ids : home[t] # 0}

\* create: an id no folder has and ShadowMountPlus does not know.
Create(t) ==
    /\ Called /\ folder[t] = "none" /\ t \notin Known /\ budget.makes > 0
    /\ Request("create", t, "write", {})
    /\ UNCHANGED <<tiles, smp, answers, title, loop, budget, unmarked>>

RemoveTree(t) == folder' = [folder EXCEPT ![t] = "none"] /\ look' = [look EXCEPT ![t] = 0] /\ marks' = [marks EXCEPT ![t] = {}]

CreateMakes ==
    /\ At("create", "write") /\ folder' = [folder EXCEPT ![Asked] = "part"] /\ Go("text")
    /\ UNCHANGED <<look, marks, smp, answers, title, loop, budget, flags>>

\* forward.txt last: a folder without it is no tile.
CreateWrites ==
    /\ At("create", "text") /\ folder' = [folder EXCEPT ![Asked] = "tile"]
    /\ Spend("makes") /\ look' = [look EXCEPT ![Asked] = budget.looks + 1] /\ Go("add")
    /\ UNCHANGED <<marks, smp, answers, title, loop, flags>>

\* A write that fails.
Fails == Spend("faults")

\* A folder or a file of it could not be made: what there is goes.
CreateFails ==
    /\ At("create", "write") \/ At("create", "text")
    /\ Fails /\ RemoveTree(Asked) /\ Replied
    /\ UNCHANGED <<smp, answers, title, loop, flags>>

CreateAdds ==
    /\ At("create", "add") /\ Call("add", {Asked}) /\ Unheard({Asked}) /\ Replied
    /\ IF Called THEN UNCHANGED tiles ELSE RemoveTree(Asked)
    /\ UNCHANGED <<home, answers, title, loop, budget, unmarked, excused, met>>

\* The folder has its new look before it is marked; a write of it that fails changes nothing.
Looks(t) ==
    /\ IsTile(t) /\ budget.looks > 0 /\ Request("edit", t, "mark", {})
    /\ Spend("looks") /\ look' = [look EXCEPT ![t] = budget.looks]
    /\ UNCHANGED <<folder, marks, smp, answers, title, loop, unmarked>>

\* update with a new name; one that leaves the name alone changes nothing here.
Update(t)  == Looks(t)
SetIcon(t) == Looks(t)

\* mark_refresh: only what ShadowMountPlus says is installed; whether it was written is
\* not looked at.
EditMarks ==
    /\ At("edit", "mark") /\ Replied
    /\ IF Called /\ Asked \in Known
         THEN \/ marks' = [marks EXCEPT ![Asked] = @ \cup {"refresh"}] /\ UNCHANGED <<budget, unmarked>>
              \/ Fails /\ unmarked' = TRUE /\ UNCHANGED marks
         ELSE unmarked' = (unmarked \/ ~Called) /\ UNCHANGED <<marks, budget>>
    /\ UNCHANGED <<folder, look, smp, answers, title, loop, unheard, excused, met>>

\* remove: out of the list, then off the home screen, then off the disk.
LeavesListNot(t) == UNCHANGED <<listed, going, owed>>  \* mutant

LeavesList(t) == Call("remove", {t})

Remove(t) ==
    /\ IsTile(t) /\ Called /\ Request("remove", t, "list", Known)
    /\ UNCHANGED <<tiles, smp, answers, title, loop, budget, unmarked>>

RemoveLists ==
    /\ At("remove", "list") /\ LeavesList(Asked)
    /\ IF Called THEN Go("uninstall") ELSE Replied
    /\ UNCHANGED <<tiles, home, answers, title, loop, budget, flags>>

\* Told as done: refused while a game runs.
Taken == Called /\ ~title

RemoveUninstalls ==
    /\ At("remove", "uninstall")
    /\ IF Asked \in job["serving"].known
         THEN Call("uninstall", {Asked}) /\ Go(IF Taken THEN "tree" ELSE "marker")
         ELSE Go("tree") /\ UNCHANGED <<listed, going, owed>>
    /\ UNCHANGED <<tiles, home, answers, title, loop, budget, flags>>

\* The folder goes, or is marked; a mark that cannot be written is an error, with the tile
\* out of the list already.
RemoveEnds ==
    /\ Replied
    /\ \/ At("remove", "tree") /\ RemoveTree(Asked) /\ UNCHANGED budget
       \/ At("remove", "marker") /\ marks' = [marks EXCEPT ![Asked] = @ \cup {"remove"}] /\ UNCHANGED <<folder, look, budget>>
       \/ At("remove", "marker") /\ Fails /\ UNCHANGED tiles
    /\ UNCHANGED <<smp, answers, title, loop, flags>>

-----------------------------------------------------------------------------
(* finish_pending *)

Marked(m) == {t \in Ids : IsTile(t) /\ m \in marks[t]}
Removals  == Marked("remove")
Refreshes == Marked("refresh") \ Removals

SettlesAlways(d, result) == tilesDone' = (tilesDone \/ d = "serving")  \* mutant

\* The loop keeps what the try says; the daemon that leaves does not try again.
Settles(d, result) == tilesDone' = (IF d = "serving" THEN result ELSE tilesDone)

Ends(d, result) ==
    /\ job' = [job EXCEPT ![d] = NoJob] /\ Settles(d, result)
    /\ leaving' = (leaving /\ d = "serving") /\ UNCHANGED daemon

\* A last try without an answer.
Cuts(d, called) == excused' = (excused \/ (called /\ d = "leaving" /\ ~Called)) /\ UNCHANGED <<unmarked, met>>

\* The daemon's loop tries it once no program is linked, and again until it is done, and
\* once more as it leaves.
Due(d) == IF d = "leaving" THEN leaving ELSE daemon = "serving" /\ ~title /\ ~tilesDone

FinishBegins(d) ==
    /\ Due(d) /\ Free(d) /\ Cuts(d, Removals \cup Refreshes # {})
    /\ IF Removals \cup Refreshes = {} THEN Ends(d, TRUE)
       ELSE IF ~Called THEN Ends(d, FALSE)
       ELSE /\ job' = [job EXCEPT ![d] = [NoJob EXCEPT !.op = "finish", !.pc = "uninstall", !.known = Known,
                                            !.todo = Removals \cup Refreshes, !.fresh = Refreshes]]
            /\ UNCHANGED loop
    /\ UNCHANGED <<tiles, smp, answers, title, budget, unheard>>

TakenAlways(d, t) == TRUE  \* mutant

\* An uninstall is needed only of what was installed.
Gone(d, t) == t \notin job[d].known \/ Taken

\* One removal or one refresh.
FinishUninstalls(d, t) ==
    /\ job[d].op = "finish" /\ job[d].pc = "uninstall" /\ t \in job[d].todo /\ Cuts(d, t \in job[d].known)
    /\ IF t \in job[d].known THEN Call("uninstall", {t}) ELSE UNCHANGED <<listed, going, owed>>
    /\ job' = [job EXCEPT ![d] = [@ EXCEPT !.todo = @ \ {t},
                 !.done = IF Gone(d, t) /\ t \in job[d].fresh THEN @ \cup {t} ELSE @,
                 !.left = @ \/ ~Gone(d, t)]]
    /\ IF Gone(d, t) /\ t \notin job[d].fresh THEN RemoveTree(t) ELSE UNCHANGED tiles
    /\ UNCHANGED <<home, answers, title, loop, budget, unheard>>

\* The uninstalls have finished, or 20 seconds have passed; the refreshed tiles go back
\* into the list, whatever the answer.
FinishAdds(d) ==
    /\ job[d].op = "finish" /\ job[d].pc = "uninstall" /\ job[d].todo = {} /\ Cuts(d, FALSE) /\ Unheard(job[d].done)
    /\ Call("add", job[d].done)
    /\ IF job[d].done = {} THEN Ends(d, ~job[d].left)
       ELSE Goto(d, "scan") /\ UNCHANGED loop
    /\ UNCHANGED <<tiles, home, answers, title, budget>>

SettledNot(d) == marks  \* mutant

Settled(d) == [t \in Ids |-> IF Called /\ t \in job[d].done THEN marks[t] \ {"refresh"} ELSE marks[t]]

\* A scan ShadowMountPlus took installs them again: they wait no more.
FinishScans(d) ==
    /\ job[d].op = "finish" /\ job[d].pc = "scan" /\ Cuts(d, TRUE)
    /\ marks' = Settled(d)
    /\ Ends(d, ~job[d].left /\ Called)
    /\ UNCHANGED <<folder, look, smp, answers, title, budget, unheard>>

\* After kIdleSeconds with nothing linked the daemon stops serving, all done or not (one
\* of them leaves at a time).
Idle ==
    /\ daemon = "serving" /\ Free("serving") /\ ~title /\ ~leaving
    /\ daemon' = "off" /\ leaving' = ~tilesDone
    /\ UNCHANGED <<tiles, smp, answers, title, tilesDone, job, budget, flags>>

-----------------------------------------------------------------------------
JobStep == \/ CreateMakes \/ CreateWrites \/ CreateFails \/ CreateAdds \/ EditMarks \/ RemoveLists
           \/ RemoveUninstalls \/ RemoveEnds
           \/ \E d \in Daemons : FinishAdds(d) \/ FinishScans(d) \/ \E t \in Ids : FinishUninstalls(d, t)

Next ==
    \/ \E t \in Ids : Install(t) \/ Uninstalled(t) \/ Create(t) \/ Update(t) \/ SetIcon(t) \/ Remove(t)
    \/ \E c \in owed : Belated(c)
    \/ Falls \/ Answers \/ TitleStarts \/ LoopSees \/ TitleCloses \/ JobStep \/ Idle
    \/ \E d \in Daemons : Kill(d) \/ FinishBegins(d)

\* ShadowMountPlus answers again in the end; the title, which may be closed and started
\* for ever, brings the rest about.
Fairness == WF_vars(Answers)

Spec == Init /\ [][Next]_vars /\ Fairness

-----------------------------------------------------------------------------
(* The properties *)

Busy(t) == \E d \in Daemons : job[d].tile = t \/ t \in job[d].done \cup job[d].todo

\* A tile on the home screen with an older name or icon than its folder's is marked to be
\* installed again, unless just when the mark was due ShadowMountPlus did not answer, the
\* mark could not be written, or the daemon was killed (update, set_icon, finish_pending);
\* or a daemon that left was still at its last try.
LookIsMarked ==
    \A t \in Ids : (~unmarked /\ ~met /\ IsTile(t) /\ home[t] \notin {0, look[t]} /\ ~Busy(t))
                      => marks[t] # {} \/ t \in going

\* A tile taken off stays off: what has no folder is in no list a scan would install it
\* from (remove: "out of the list first, or a scan installs it again"), unless it was told
\* that adding it to the list had failed.
GoneIsGone == \A t \in Ids : folder[t] = "none" => t \notin listed \/ t \in unheard \/ met

\* What waits for the title to close has been done when the daemon is gone (main's last
\* try), unless that try had no answer or a daemon was killed, a request came with the
\* title closed already, or while the daemon before this one still left.
DoneAtTheEnd == (daemon = "off" /\ ~leaving) => Removals \cup Refreshes = {} \/ excused \/ met

\* What a daemon leaves undone a later one does: with the title started and closed again
\* and again, every marked tile is installed or removed (finish_pending, main).
TilesSettle == ([]<>(daemon = "serving") /\ []<>(daemon = "off" /\ ~leaving)) => []<>(Removals \cup Refreshes = {})

\* README.md:265: "A new name or picture, and a tile you delete, reach the home screen
\* the same way, a few seconds after RetroArch closes": of every request, whenever it
\* was served, and whatever ShadowMountPlus answered then.
EveryTileSettles == (daemon = "off" /\ ~leaving) => Removals \cup Refreshes = {}
EveryLookFollows == \A t \in Ids : (IsTile(t) /\ home[t] \notin {0, look[t]} /\ ~Busy(t)) => marks[t] # {} \/ t \in going

\* README.md:272: "Delete tiles from the page, which also removes their folder" and, by
\* ps5_forwarders.h:16, uninstalls them: nothing without a folder stays installed.
NoOrphan == \A t \in Ids : (folder[t] = "none" /\ ~Busy(t)) => home[t] = 0 \/ t \in going
=============================================================================
