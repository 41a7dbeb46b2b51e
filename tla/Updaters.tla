------------------------------ MODULE Updaters ------------------------------
(***************************************************************************)
(* The two processes that may run the updater over one folder: the daemon  *)
(* (daemon/webui_daemon.cpp) and RetroArch (src/main.cpp), each calling    *)
(* ps5_webui_start(), whose recovery comes before it takes the port.       *)
(*                                                                         *)
(* Each process is an Update over the same files.  The link is whether     *)
(* RetroArch is connected to the daemon; how it comes to be is in Link.    *)
(***************************************************************************)
EXTENDS Integers, FiniteSets

CONSTANTS
    Files, Always, MaxRelease,  \* as in Update
    Kills                       \* may a process be killed at work

UpdatersAssumption ==
    /\ Files \in Nat /\ Always \subseteq 1..Files /\ MaxRelease \in Nat \ {0}
    /\ Kills \in BOOLEAN

VARIABLES
    dest, stage, backup, plan, journal, jfile, result,             \* the folder
    dmain, dtodo, dok, dworker, dstate, dquit, dcancel, drelease,  \* the daemon's memory
    tmain, ttodo, tok, tworker, tstate, tquit, tcancel, trelease,  \* RetroArch's
    dfound, tfound,  \* whether the recover() of initialize() found a journal
    title,           \* RetroArch: off, running, or linked to the daemon too
    http,            \* who has port 6769
    met              \* whether the two were at one update at once

disk   == <<dest, stage, backup, plan, journal, jfile, result>>
daemon == <<dmain, dtodo, dok, dworker, dstate, dquit, dcancel, drelease, dfound>>
game   == <<tmain, ttodo, tok, tworker, tstate, tquit, tcancel, trelease, tfound>>
vars   == <<disk, daemon, game, title, http, met>>

D == INSTANCE Update WITH InterruptRecovery <- FALSE,
        main <- dmain, todo <- dtodo, ok <- dok, worker <- dworker,
        state <- dstate, quit <- dquit, cancel <- dcancel, release <- drelease
T == INSTANCE Update WITH InterruptRecovery <- FALSE,
        main <- tmain, todo <- ttodo, ok <- tok, worker <- tworker,
        state <- tstate, quit <- tquit, cancel <- tcancel, release <- trelease

Init == /\ D!Init /\ T!Init /\ dfound = FALSE /\ tfound = FALSE
        /\ title = "off" /\ http = "none" /\ met = FALSE

Busy(main)  == main \in D!Installing \cup D!Recovering
Ends(main)  == Kills \/ ~Busy(main)
Quiet(main) == ~Busy(main) /\ main # "stopping"

\* Nothing keeps the two apart: one undoes the install the other is at, or downloads or begins to
\* install while the other is at work, or about to be.
Undoes(other)         == met' = (met \/ (Busy(other) /\ jfile # "none"))
Shares(other, worker) == met' = (met \/ ~Quiet(other) \/ worker \in D!Working)

\* What initialize() and MHD_start_daemon() leave; a journal that is not there
\* any more cannot be unlinked.
TakePort(who, main) ==
    IF http = "none" THEN main = "up" /\ http' = who
                     ELSE main = "busy" /\ UNCHANGED http

DReady ==
    /\ TakePort("daemon", dmain') /\ UNCHANGED <<dfound, met>>
    /\ IF dfound /\ jfile # "none" THEN D!InitDone
       ELSE /\ dmain = "init" /\ dtodo = {}
            /\ dstate' = D!StartState(~dfound)
            /\ UNCHANGED <<disk, dtodo, dok, dworker, dquit, dcancel, drelease>>

TReady ==
    /\ TakePort("title", tmain') /\ UNCHANGED <<tfound, met>>
    /\ IF tfound /\ jfile # "none" THEN T!InitDone
       ELSE /\ tmain = "init" /\ ttodo = {}
            /\ tstate' = T!StartState(~tfound)
            /\ UNCHANGED <<disk, ttodo, tok, tworker, tquit, tcancel, trelease>>

\* A request reaches the process that has the port.
DRequests == /\ http = "daemon" /\ UNCHANGED <<http, dfound>>
             /\ \/ D!Download /\ Shares(tmain, tworker)
                \/ D!RequestInstall /\ UNCHANGED met
TRequests == /\ http = "title" /\ UNCHANGED <<http, tfound>>
             /\ \/ T!Download /\ Shares(dmain, dworker)
                \/ T!RequestInstall /\ UNCHANGED met

\* The daemon tries again every second until it has the port; it installs once
\* no program is linked, its server still running.
Daemon ==
    /\ UNCHANGED <<game, title>>
    /\ \/ D!Start /\ Undoes(tmain) /\ dfound' = (jfile # "none") /\ UNCHANGED http
       \/ DReady
       \/ D!Stop /\ http' = "none" /\ UNCHANGED <<dfound, met>>
       \/ /\ D!Crash /\ Ends(dmain) /\ UNCHANGED <<dfound, met>>
          /\ http' = IF http = "daemon" THEN "none" ELSE http
       \/ /\ D!InstallBegin /\ dmain = "up" /\ title # "linked" /\ Shares(tmain, tworker)
          /\ UNCHANGED <<http, dfound>>
       \/ DRequests
       \/ /\ D!RecoverPath \/ D!Worker
             \/ (dmain \in D!Installing /\ D!Install)
          /\ UNCHANGED <<http, dfound, met>>

\* RetroArch tries once, when its link is not there in time; it installs after
\* its server has stopped.
Server ==
    /\ UNCHANGED <<daemon, title>>
    /\ \/ /\ T!Start /\ tmain = "off" /\ title = "running" /\ Undoes(dmain)
          /\ tfound' = (jfile # "none") /\ UNCHANGED http
       \/ TReady
       \/ T!Stop /\ http' = "none" /\ UNCHANGED <<tfound, met>>
       \/ /\ T!InstallBegin /\ tmain = "stopping" /\ Shares(dmain, dworker)
          /\ UNCHANGED <<http, tfound>>
       \/ TRequests
       \/ /\ T!RecoverPath \/ T!Worker
             \/ (tmain \in T!Installing /\ T!Install)
          /\ UNCHANGED <<http, tfound, met>>

\* The title opens; its link comes and goes; it ends, and its memory with it.
Open   == /\ title = "off" /\ title' = "running"
          /\ UNCHANGED <<disk, daemon, game, http, met>>
Link   == /\ title = "running" /\ dmain \in {"busy", "up"} /\ title' = "linked"
          /\ UNCHANGED <<disk, daemon, game, http, met>>
Unlink == /\ title = "linked" /\ dmain = "off" /\ title' = "running"
          /\ UNCHANGED <<disk, daemon, game, http, met>>
Close  == /\ title # "off" /\ title' = "off"
          /\ Ends(tmain)
          /\ IF tmain = "off" THEN UNCHANGED <<disk, game>>
                              ELSE T!Crash /\ UNCHANGED tfound
          /\ http' = IF http = "title" THEN "none" ELSE http
          /\ UNCHANGED <<daemon, met>>

Next == Daemon \/ Server \/ Open \/ Link \/ Unlink \/ Close

Spec == Init /\ [][Next]_vars

\* The files every release replaces are of one release whenever neither is at work and no
\* journal waits to be undone, unless the two were at one update at once.
OneRelease ==
    (~met /\ ~Busy(dmain) /\ ~Busy(tmain) /\ jfile = "none") =>
        \A p, q \in Always : dest[p] = dest[q]

\* What nothing in the code assures: one release, and a title that starts, even then.
AlwaysOneRelease ==
    (~Busy(dmain) /\ ~Busy(tmain) /\ jfile = "none") =>
        \A p, q \in Always : dest[p] = dest[q] /\ dest[p] # D!Absent
=============================================================================
