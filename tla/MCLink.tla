-------------------------------- MODULE MCLink -------------------------------
(* Model checking of the daemon and the title: the link between them, and the   *)
(* updater in both over one folder, which Updaters models for itself; part says *)
(* which a behavior is of.                                                      *)
EXTENDS Link, TLC

CONSTANTS TwoFiles, TwoAlways, TwoReleases  \* of Updaters

\* Replace is left to the runs of another build.
MCBudget   == [launch |-> 3, late |-> 1, upload |-> 0, fetch |-> 1, replace |-> 0, crash |-> 1]
MCReplaced == [launch |-> 2, late |-> 0, upload |-> 1, fetch |-> 0, replace |-> 1, crash |-> 1]
MCSymmetry == Permutations(Daemons) \cup Permutations(Conns)

VARIABLES
    part,  \* the component this behavior is of
    twoDest, twoStage, twoBackup, twoPlan, twoJournal, twoJfile, twoResult, twoDmain,
    twoDtodo, twoDok, twoDworker, twoDstate, twoDquit, twoDcancel, twoDrelease, twoTmain,
    twoTtodo, twoTok, twoTworker, twoTstate, twoTquit, twoTcancel, twoTrelease, twoDfound,
    twoTfound, twoTitle, twoHttp, twoMet

Two == INSTANCE Updaters WITH
    Files <- TwoFiles, Always <- TwoAlways, MaxRelease <- TwoReleases, Kills <- TRUE,
    dest <- twoDest, stage <- twoStage, backup <- twoBackup, plan <- twoPlan,
    journal <- twoJournal, jfile <- twoJfile, result <- twoResult, dmain <- twoDmain,
    dtodo <- twoDtodo, dok <- twoDok, dworker <- twoDworker, dstate <- twoDstate,
    dquit <- twoDquit, dcancel <- twoDcancel, drelease <- twoDrelease, tmain <- twoTmain,
    ttodo <- twoTtodo, tok <- twoTok, tworker <- twoTworker, tstate <- twoTstate,
    tquit <- twoTquit, tcancel <- twoTcancel, trelease <- twoTrelease, dfound <- twoDfound,
    tfound <- twoTfound, title <- twoTitle, http <- twoHttp, met <- twoMet
TwoVars ==
    <<twoDest, twoStage, twoBackup, twoPlan, twoJournal, twoJfile, twoResult, twoDmain,
      twoDtodo, twoDok, twoDworker, twoDstate, twoDquit, twoDcancel, twoDrelease, twoTmain,
      twoTtodo, twoTok, twoTworker, twoTstate, twoTquit, twoTcancel, twoTrelease, twoDfound,
      twoTfound, twoTitle, twoHttp, twoMet>>

\* The variables of a component this behavior is not of.
Off == "off"
TwoOff ==
    /\ twoDest = Off /\ twoStage = Off /\ twoBackup = Off /\ twoPlan = Off
    /\ twoJournal = Off /\ twoJfile = Off /\ twoResult = Off /\ twoDmain = Off
    /\ twoDtodo = Off /\ twoDok = Off /\ twoDworker = Off /\ twoDstate = Off
    /\ twoDquit = Off /\ twoDcancel = Off /\ twoDrelease = Off /\ twoTmain = Off
    /\ twoTtodo = Off /\ twoTok = Off /\ twoTworker = Off /\ twoTstate = Off
    /\ twoTquit = Off /\ twoTcancel = Off /\ twoTrelease = Off /\ twoDfound = Off
    /\ twoTfound = Off /\ twoTitle = Off /\ twoHttp = Off /\ twoMet = Off

MCInit ==
    \/ part = "link" /\ Init /\ TwoOff
    \/ part = "updaters" /\ Init /\ Two!Init

MCNext ==
    /\ UNCHANGED part
    /\ \/ /\ part = "link" /\ Next /\ UNCHANGED TwoVars
       \/ /\ part = "updaters" /\ UNCHANGED vars /\ Two!Next

MCVars == <<part, vars, TwoVars>>
MCSpec == MCInit /\ [][MCNext]_MCVars


\* The link alone, to check what it must reach.
LinkInit == MCInit /\ part = "link"
LiveSpec == LinkInit /\ [][MCNext]_MCVars /\ Fairness

-----------------------------------------------------------------------------
ASSUME TwoAssumption == Two!UpdatersAssumption

\* However the two processes start, stop and take turns, killed anywhere, the files every release
\* replaces are of one release when neither is at work and no journal waits: unless one undid the
\* install the other was at, or began an update while the other was at work.
OneRelease == part = "updaters" => Two!OneRelease

\* The link comes to what it is for: an update asked for is installed, the link's thread
\* does not retry for ever, and while a program stays linked the WebUI is served.
LinkLives == InstallHappens /\ LinkSettles /\ LinkedIsServed
==============================================================================
