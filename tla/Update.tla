------------------------------- MODULE Update -------------------------------
(***************************************************************************)
(* The WebUI's updater (src/webui_update.cpp): a worker downloads and      *)
(* stages a release, and once the title has closed install() moves the     *)
(* staged files in, under a journal that initialize() undoes at the next   *)
(* start if it was cut short.                                              *)
(*                                                                         *)
(* The folder is what survives a crash; everything else is the memory of   *)
(* the process that runs the updater.  The two other users of the folder   *)
(* (a second process, FTP) are not here.                                   *)
(***************************************************************************)
EXTENDS Integers, FiniteSets

CONSTANTS
    Files,             \* how many files a release manages
    Always,            \* manifest.sha256 and eboot.bin: in every plan
    MaxRelease,        \* bound: the releases downloaded, as versions 2..MaxRelease
    InterruptRecovery  \* may recover() itself be killed, or one of its calls fail

Paths == 1..Files      \* numbered in a plan's order

ASSUME UpdateAssumption ==
    /\ Files \in Nat
    /\ Always \subseteq Paths
    /\ MaxRelease \in Nat \ {0}
    /\ InterruptRecovery \in BOOLEAN

VARIABLES
    dest, stage, backup,  \* version of p in the folder, .update/stage, .update/backup
    plan,                 \* .update/plan: the paths it lists, {} when there is none
    journal, jfile,       \* .update/journal: its paths, and whether it is whole
    result,               \* .update-result
    main,                 \* what the thread in initialize() or install() does next
    todo, ok,             \* that call's paths left, and recover()'s running verdict
    worker,               \* what the download worker does next
    state, quit, cancel,  \* current.state and the two flags
    release               \* the version the worker downloads

disk   == <<dest, stage, backup, plan, journal, jfile, result>>
memory == <<main, todo, ok, worker, state, quit, cancel, release>>
vars   == <<disk, memory>>

Absent   == 0
Versions == 0..MaxRelease
Nothing  == [p \in Paths |-> Absent]

Recovering == {"init", "rollback", "nobackup"}  \* the three callers of recover()
Installing == {"journal", "write", "backup", "move", "place", "saved", "clean"}
             \cup {"rollback", "nobackup"}
Mains      == {"off", "init", "busy", "up", "stopping", "done"} \cup Installing
Working    == {"clean", "fetch", "stage", "plan"}
States     == {"idle", "downloading", "verifying", "ready", "installing",
               "installed", "error"}

TypeOK ==
    /\ dest \in [Paths -> Versions]
    /\ stage \in [Paths -> Versions]
    /\ backup \in [Paths -> Versions]
    /\ plan \in SUBSET Paths
    /\ journal \in SUBSET Paths
    /\ jfile \in {"none", "cut", "whole"}
    /\ result \in {"none", "ok", "error"}
    /\ main \in Mains
    /\ todo \in SUBSET Paths
    /\ ok \in BOOLEAN
    /\ worker \in {"none", "done"} \cup Working
    /\ state \in States
    /\ quit \in BOOLEAN
    /\ cancel \in BOOLEAN
    /\ release \in 1..MaxRelease

Init ==
    /\ dest \in [Paths -> {Absent, 1}] /\ \A p \in Always : dest[p] = 1
    /\ stage = Nothing /\ backup = Nothing
    /\ plan = {} /\ journal = {} /\ jfile = "none" /\ result = "none"
    /\ main = "off" /\ todo = {} /\ ok = TRUE /\ worker = "none"
    /\ state = "idle" /\ quit = FALSE /\ cancel = FALSE /\ release = 1

\* The loops over the plan and the journal go from one path to the next.
AdvanceNever(p) == todo' = todo          \* mutant: the next line is never looked for
Advance(p)      == todo' = todo \ {p}

Least(S)    == CHOOSE p \in S : \A q \in S : p <= q
Greatest(S) == CHOOSE p \in S : \A q \in S : q <= p

-----------------------------------------------------------------------------
(* recover(): the journal's paths, last one first.                         *)

\* Where a call of recover() begins; a journal it cannot read fails it.
Recover(caller) ==
    /\ main' = caller
    /\ todo' = IF jfile = "whole" THEN journal ELSE {}
    /\ ok' = (jfile # "cut")

\* mutant: a file without a backup is taken for a new one, placed or not
RestoreUnstaged(p) ==
    /\ dest' = [dest EXCEPT ![p] = backup[p]]
    /\ backup' = [backup EXCEPT ![p] = Absent]

\* Put p back: its backup if there is one, else remove a file placed over nothing.
RestorePath(p) ==
    CASE backup[p] # Absent -> /\ dest' = [dest EXCEPT ![p] = backup[p]]
                               /\ backup' = [backup EXCEPT ![p] = Absent]
      [] backup[p] = Absent /\ stage[p] = Absent ->
                               /\ dest' = [dest EXCEPT ![p] = Absent]
                               /\ UNCHANGED backup
      [] OTHER -> UNCHANGED <<dest, backup>>

RecoverPath ==
    /\ main \in Recovering /\ todo # {}
    /\ LET p == Greatest(todo) IN
        /\ Advance(p)
        /\ \/ RestorePath(p) /\ UNCHANGED ok
           \/ /\ InterruptRecovery
              /\ ok' = FALSE
              /\ UNCHANGED <<dest, backup>>
    /\ UNCHANGED <<stage, plan, journal, jfile, result, main, worker, state,
                   quit, cancel, release>>

\* The journal goes only when every path was put back; restored is the verdict.
RecoverVerdict(restored) ==
    \/ /\ restored = ok
       /\ jfile' = IF ok THEN "none" ELSE jfile
       /\ journal' = IF ok THEN {} ELSE journal
    \/ /\ InterruptRecovery /\ ok /\ jfile = "whole"
       /\ restored = FALSE
       /\ UNCHANGED <<journal, jfile>>

-----------------------------------------------------------------------------
(* initialize(), at each attempt to start the server.                      *)

Start ==
    /\ main \in {"off", "busy"}
    /\ Recover("init")
    /\ quit' = FALSE /\ cancel' = FALSE
    /\ UNCHANGED <<disk, worker, state, release>>

StartStateRaw(restored) == result                                 \* mutant
StartStateBlind(restored) == IF result = "ok" THEN "installed" ELSE "idle"  \* mutant

\* An update that could not be undone, else the outcome of the last one.
StartState(restored) == IF ~restored \/ result = "error" THEN "error"
                        ELSE IF result = "ok" THEN "installed" ELSE "idle"

\* The port may be taken: the daemon then calls ps5_webui_start() again.
InitDone ==
    /\ main = "init" /\ todo = {}
    /\ \E restored \in BOOLEAN :
        /\ RecoverVerdict(restored)
        /\ state' = StartState(restored)
    /\ main' \in {"up", "busy"}
    /\ UNCHANGED <<dest, stage, backup, plan, result, todo, ok, worker, quit,
                   cancel, release>>

-----------------------------------------------------------------------------
(* The requests, served under the WebUI's state_lock.                      *)

\* The daemon serves pages during install(), too.
Serving == main \notin {"off", "init", "busy", "stopping"}

MayDownloadOverJournal == state \notin {"downloading", "verifying", "installing"}    \* mutant
MayDownloadInstalling  == state \notin {"downloading", "verifying"} /\ jfile = "none" \* mutant

MayDownload ==
    /\ state \notin {"downloading", "verifying", "installing"}
    /\ jfile = "none"

Download ==
    /\ Serving /\ release < MaxRelease
    /\ MayDownload
    /\ worker \notin Working                  \* pthread_join of the last one
    /\ cancel' = FALSE
    /\ \/ /\ state' = "downloading" /\ worker' = "clean"
          /\ release' = release + 1
       \/ /\ state' = "error" /\ worker' = "none"   \* no thread
          /\ UNCHANGED release
    /\ UNCHANGED <<disk, main, todo, ok, quit>>

RequestInstall ==
    /\ Serving
    /\ state = "ready"
    /\ state' = "installing" /\ quit' = TRUE
    /\ UNCHANGED <<disk, main, todo, ok, worker, cancel, release>>

\* stop(), from ps5_webui_stop(): the worker is told, then joined; the title
\* calls install() after it, the daemon only exits.
Stop ==
    /\ main = "up"
    /\ main' = "stopping" /\ cancel' = TRUE
    /\ UNCHANGED <<disk, todo, ok, worker, state, quit, release>>

-----------------------------------------------------------------------------
(* The worker: download()'s thread, and prepare().                         *)

WorkerFails ==
    /\ state' = "error" /\ worker' = "done"

\* remove_tree(.update): complete, or cut short anywhere.
Removed(complete) ==
    /\ \E left \in SUBSET Paths :
        /\ complete => left = {}
        /\ stage' = [p \in Paths |-> IF p \in left THEN stage[p] ELSE Absent]
    /\ \E left \in SUBSET Paths :
        /\ complete => left = {}
        /\ backup' = [p \in Paths |-> IF p \in left THEN backup[p] ELSE Absent]
    /\ plan' \in IF complete THEN {{}} ELSE {plan, {}}

WorkerClean ==
    /\ worker = "clean"
    /\ \/ ~cancel /\ Removed(TRUE) /\ worker' = "fetch" /\ UNCHANGED state
       \/ Removed(FALSE) /\ WorkerFails
    /\ UNCHANGED <<dest, journal, jfile, result, main, todo, ok, quit, cancel, release>>

WorkerFetch ==
    /\ worker = "fetch"
    /\ \/ ~cancel /\ worker' = "stage" /\ state' = "verifying"
       \/ WorkerFails
    /\ UNCHANGED <<disk, main, todo, ok, quit, cancel, release>>

\* Every entry is verified; those that changed, and Always, are staged.
WorkerStage ==
    /\ worker = "stage"
    /\ \E changed \in SUBSET Paths :
        /\ stage' = [p \in Paths |-> IF p \in changed THEN release ELSE Absent]
        /\ \/ ~cancel /\ Always \subseteq changed /\ worker' = "plan" /\ UNCHANGED state
           \/ WorkerFails
    /\ UNCHANGED <<dest, backup, plan, journal, jfile, result, main, todo, ok,
                   quit, cancel, release>>

WorkerPlan ==
    /\ worker = "plan"
    /\ \/ /\ plan' = {p \in Paths : stage[p] # Absent}
          /\ state' = "ready" /\ worker' = "done"
       \/ plan' = {} /\ WorkerFails
    /\ UNCHANGED <<dest, stage, backup, journal, jfile, result, main, todo, ok,
                   quit, cancel, release>>

Worker == WorkerClean \/ WorkerFetch \/ WorkerStage \/ WorkerPlan

-----------------------------------------------------------------------------
(* install(): on the daemon's main thread, or after stop() in the title.   *)

InstallBegin ==
    /\ quit
    /\ main = "up" \/ (main = "stopping" /\ worker \notin Working)
    /\ state = "installing"
    /\ main' = "journal"
    /\ UNCHANGED <<disk, todo, ok, worker, state, quit, cancel, release>>

\* save() truncates the journal, then writes it.
JournalOpen ==
    /\ main = "journal"
    /\ \/ jfile' = "cut" /\ main' = "write" /\ UNCHANGED state
       \/ state' = "error" /\ main' = "done" /\ UNCHANGED jfile
    /\ UNCHANGED <<dest, stage, backup, plan, journal, result, todo, ok, worker,
                   quit, cancel, release>>

\* A full disk leaves the part that was written.
JournalWrite ==
    /\ main = "write"
    /\ \/ /\ jfile' = "whole" /\ journal' = plan
          /\ main' = "backup" /\ UNCHANGED state
       \/ /\ \/ UNCHANGED <<jfile, journal>>
             \/ jfile' = "whole" /\ \E q \in plan : journal' = {p \in plan : p <= q}
          /\ state' = "error" /\ main' = "done"
    /\ UNCHANGED <<dest, stage, backup, plan, result, todo, ok, worker, quit,
                   cancel, release>>

MakeBackup ==
    /\ main = "backup"
    /\ \/ main' = "move" /\ todo' = plan /\ UNCHANGED ok
       \/ Recover("nobackup")
    /\ UNCHANGED <<disk, worker, state, quit, cancel, release>>

\* The installed file, if any, goes to the backup.
MoveOld ==
    /\ main = "move" /\ todo # {}
    /\ LET p == Least(todo) IN
        \/ /\ dest[p] # Absent
           /\ backup' = [backup EXCEPT ![p] = dest[p]]
           /\ dest' = [dest EXCEPT ![p] = Absent]
           /\ main' = "place" /\ UNCHANGED <<todo, ok>>
        \/ /\ dest[p] = Absent
           /\ main' = "place" /\ UNCHANGED <<dest, backup, todo, ok>>
        \/ Recover("rollback") /\ UNCHANGED <<dest, backup>>
    /\ UNCHANGED <<stage, plan, journal, jfile, result, worker, state, quit,
                   cancel, release>>

PlaceNew ==
    /\ main = "place" /\ todo # {}
    /\ LET p == Least(todo) IN
        \/ /\ stage[p] # Absent
           /\ dest' = [dest EXCEPT ![p] = stage[p]]
           /\ stage' = [stage EXCEPT ![p] = Absent]
           /\ Advance(p) /\ main' = "move" /\ UNCHANGED ok
        \/ Recover("rollback") /\ UNCHANGED <<dest, stage>>
    /\ UNCHANGED <<backup, plan, journal, jfile, result, worker, state, quit,
                   cancel, release>>

\* The update is installed once its journal is gone.
Commit ==
    /\ main = "move" /\ todo = {}
    /\ \/ jfile # "none" /\ jfile' = "none" /\ journal' = {} /\ main' = "saved"
       \/ main' = "done" /\ UNCHANGED <<journal, jfile>>
    /\ UNCHANGED <<dest, stage, backup, plan, result, todo, ok, worker, state,
                   quit, cancel, release>>

\* save() of .update-result truncates it first: it may be left empty.
SaveResult ==
    /\ main = "saved"
    /\ result' \in {"ok", "none", result}
    /\ main' = "clean"
    /\ UNCHANGED <<dest, stage, backup, plan, journal, jfile, todo, ok, worker,
                   state, quit, cancel, release>>

Clean ==
    /\ main = "clean"
    /\ \E complete \in BOOLEAN : Removed(complete)
    /\ state' = "installed" /\ main' = "done"
    /\ UNCHANGED <<dest, journal, jfile, result, todo, ok, worker, quit, cancel,
                   release>>

\* A failed install ends with the outcome of its recover(); without a backup
\* directory nothing is reported, only saved.
InstallUndone ==
    /\ main \in {"rollback", "nobackup"} /\ todo = {}
    /\ \E restored \in BOOLEAN : RecoverVerdict(restored)
    /\ state' = IF main = "rollback" THEN "error" ELSE state
    /\ result' \in {"error", "none", result}
    /\ main' = "done"
    /\ UNCHANGED <<dest, stage, backup, plan, todo, ok, worker, quit, cancel, release>>

Install == \/ InstallBegin \/ JournalOpen \/ JournalWrite \/ MakeBackup
           \/ MoveOld \/ PlaceNew \/ Commit \/ SaveResult \/ Clean \/ InstallUndone

-----------------------------------------------------------------------------
\* The process ends: it is killed, it crashes, or it exits.
Crash ==
    /\ main # "off"
    /\ main \in Recovering => InterruptRecovery
    /\ main' = "off" /\ todo' = {} /\ ok' = TRUE /\ worker' = "none"
    /\ state' = "idle" /\ quit' = FALSE /\ cancel' = FALSE
    /\ UNCHANGED <<disk, release>>

Next == \/ Start \/ RecoverPath \/ InitDone
        \/ Download \/ RequestInstall \/ Stop
        \/ Worker \/ Install \/ Crash

\* The process's threads run on; nobody is obliged to ask for an update.
Fairness == /\ WF_vars(Start \/ RecoverPath \/ InitDone)
            /\ WF_vars(Install)
            /\ WF_vars(Worker)

Spec == Init /\ [][Next]_vars /\ Fairness

-----------------------------------------------------------------------------
(* What the folder stands for while a journal exists: what undoing it gives *)

Pending(p) == /\ jfile = "whole" /\ p \in journal
              /\ main \in Recovering => p \in todo

Tree == [p \in Paths |->
            IF ~Pending(p) THEN dest[p]
            ELSE IF backup[p] # Absent THEN backup[p]
            ELSE IF stage[p] # Absent THEN dest[p]
            ELSE Absent]

Atomic == INSTANCE AtomicUpdate WITH tree <- Tree
\* An update is all there or not there at all, whatever call of install()
\* fails and wherever the process is killed in it.
UpdateIsAtomic == Atomic!Spec

\* Whenever no journal is left to undo and nothing is under way, the title's
\* program and manifest are there: it can be started.
TitleStarts == (jfile = "none" /\ main \notin Recovering) =>
                    \A p \in Always : dest[p] # Absent

\* The worker, which clears .update, never runs while install() uses it, nor
\* while a journal still needs its backups (download()'s guards).
WorkerAlone == worker \in Working => main \notin Installing /\ jfile = "none"

\* install() and recover() end, whichever of their calls fail.
InstallEnds == main \in Installing ~> main \in {"done", "off"}
StartEnds   == main = "init" ~> main \in {"up", "busy", "off"}

\* Downloads refused because of a leftover journal are refused with a status
\* that says why: the server comes up with one only in state "error".
JournalIsReported == (main = "up" /\ jfile # "none" /\ ~quit) => state = "error"
=============================================================================
