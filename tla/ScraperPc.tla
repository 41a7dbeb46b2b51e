------------------------------ MODULE ScraperPc ------------------------------
(***************************************************************************)
(* The scraper in PC mode: the console's workers identify the games and put *)
(* their downloads on a list (src/src/scraper.cpp), and a helper on a PC    *)
(* leases them, fetches each file from its source and sends it back         *)
(* (src/webui/ps5-media-helper.py, src/src/webui_ps5.cpp).  A helper may be *)
(* stopped and started again, an upload cut, a lease outlived; the page     *)
(* cancels and resumes the job.  Restarts of the server, and the choices the *)
(* user makes for a game of several names, are in Scraper.                   *)
(***************************************************************************)
EXTENDS Naturals, Sequences, FiniteSets, SequencesExt

CONSTANTS
    Games, Kinds, Workers,
    Busy,       \* the threads at work below which the helper asks for more tasks (WORKERS)
    Threads,    \* the threads there may be at once, those of a stopped helper's requests too
    Stored,     \* the media the library already holds
    Scenarios,  \* how often each event of the environment may happen
    None

ScraperPcAssumption == Games \subseteq Nat /\ Busy \in Nat \ {0} /\ None \notin Workers /\ Stored \subseteq Games \X Kinds

VARIABLES
    job,        \* the job: its state and its games
    tasks,      \* its downloads, numbered by their place
    cancelling, \* the flag the workers poll
    worker,     \* each worker: where it is, and with which game
    helper,     \* the helper's program
    fresh,      \* its next request is its first
    thread,     \* its threads, and the console's requests they drive
    lib,        \* the library: whose media each place of a game and a kind holds
    tries       \* what is left of the scenario (calm: the page resumes a job when the
                \* workers have let go of its games)

vars == <<job, tasks, cancelling, worker, helper, fresh, thread, lib, tries>>

Media == Games \X Kinds
Item0 == [st |-> "pending", holder |-> None, started |-> FALSE, found |-> 0, missing |-> 0, open |-> 0]
Free  == [pc |-> "idle", task |-> 0, file |-> None, dest |-> None, gone |-> FALSE]

TypeOK ==
    /\ job.st \in {"running", "cancelled", "paused", "done"}
    /\ \A g \in Games :
        /\ job.items[g].st \in {"pending", "working", "transferring", "done", "partial",
                                "unmatched", "ambiguous", "failed", "skipped"}
        /\ job.items[g].open \in 0 .. Cardinality(Kinds)
        /\ job.items[g].found \in 0 .. Cardinality(Kinds)
        /\ job.items[g].missing \in 0 .. Cardinality(Kinds)
    /\ \A n \in DOMAIN tasks : tasks[n].st \in {"queued", "leased", "late", "done"}
    /\ helper \in {"off", "on", "ended"}
    /\ \A f \in Media : lib[f] \in Media \cup {None}

Init ==
    /\ job = [st |-> "running", items |-> [g \in Games |-> Item0]]
    /\ tasks = <<>> /\ cancelling = FALSE
    /\ worker = [w \in Workers |-> [pc |-> "idle", game |-> None]]
    /\ helper = "off" /\ fresh = TRUE /\ thread = [t \in Threads |-> Free]
    /\ lib = [f \in Media |-> IF f \in Stored THEN f ELSE None]
    /\ tries \in Scenarios

Spend(b)   == tries[b] > 0 /\ tries' = [tries EXCEPT ![b] = @ - 1]
Running    == job.st = "running"
Set(g, it) == job' = [job EXCEPT !.items[g] = it]
Pending    == {g \in Games : job.items[g].st = "pending" /\ job.items[g].holder = None}

(*------------------------------ the workers ------------------------------*)

Take(w) ==
    /\ worker[w].pc = "idle" /\ Running /\ ~cancelling /\ Pending # {}
    /\ LET g == CHOOSE n \in Pending : \A m \in Pending : n <= m
       IN  /\ Set(g, [job.items[g] EXCEPT !.st = "working", !.holder = w])
           /\ worker' = [worker EXCEPT ![w] = [pc |-> "ask", game |-> g]]
    /\ UNCHANGED <<tasks, cancelling, helper, fresh, thread, lib, tries>>
InHand      == \E g \in Games : job.items[g].holder # None   \* mutant: what the helper has is forgotten
InFlight    == \E g \in Games : job.items[g].holder # None \/ job.items[g].st = "transferring"
EndJob(w) ==
    /\ worker[w].pc = "idle" /\ Running /\ ~cancelling /\ Pending = {} /\ ~InFlight
    /\ job' = [job EXCEPT !.st = "done"]
    /\ UNCHANGED <<tasks, cancelling, worker, helper, fresh, thread, lib, tries>>

\* The source is asked which of the missing kinds it has: some, and they are for the helper;
\* none, no such game, or several of its name; a failure, or a cancel seen in time, which keeps
\* what was found.  A source without the game's system does not look.  LaunchBox's database that
\* cannot be had stops the job, and the game is put back after that.
Missing(g) == {k \in Kinds : lib[<<g, k>>] = None}
Finish(w, it) == Set(worker[w].game, it) /\ worker' = [worker EXCEPT ![w].pc = "release"]
Ask(w) ==
    LET g   == worker[w].game
        it0 == job.items[g]
        it  == [it0 EXCEPT !.started = TRUE]
    IN  /\ worker[w].pc = "ask"
        /\ UNCHANGED <<tasks, cancelling, helper, fresh, thread, lib, tries>>
        /\ \/ /\ Missing(g) = {}
              /\ Finish(w, [it0 EXCEPT !.st = IF it0.started THEN "done" ELSE "skipped"])
           \/ /\ Missing(g) # {}
              /\ \E st \in IF cancelling THEN {"pending", "failed"} ELSE {"unmatched", "ambiguous", "failed"} :
                    Finish(w, [it EXCEPT !.st = st])
           \/ Finish(w, [it0 EXCEPT !.st = "unmatched"])
           \/ Missing(g) # {} /\ ~Running /\ Finish(w, [it0 EXCEPT !.st = "pending"])
           \/ \E has \in SUBSET Missing(g) \ {{}} :
                 IF cancelling
                 THEN Finish(w, [it EXCEPT !.st = "pending", !.found = Cardinality(has),
                                           !.missing = Cardinality(Missing(g) \ has)])
                 ELSE /\ Set(g, it)
                      /\ worker' = [worker EXCEPT ![w] = [pc |-> "publish", game |-> g, has |-> has]]
           \/ /\ Missing(g) # {} /\ ~cancelling      \* LaunchBox knows the game and has no media
              /\ Finish(w, [it EXCEPT !.st = "partial", !.found = 0, !.missing = Cardinality(Missing(g))])

NoDatabase(w) ==
    /\ worker[w].pc = "ask" /\ Missing(worker[w].game) # {} /\ Running /\ Spend("halt")
    /\ job' = [job EXCEPT !.st = "paused"]
    /\ worker' = [worker EXCEPT ![w].pc = "paused"]
    /\ UNCHANGED <<tasks, cancelling, helper, fresh, thread, lib>>
PutBack(w) ==
    /\ worker[w].pc = "paused" /\ Finish(w, [job.items[worker[w].game] EXCEPT !.st = "pending"])
    /\ UNCHANGED <<tasks, cancelling, helper, fresh, thread, lib, tries>>

\* Its downloads are handed out (and the job is not looked at again).
Publish(w) ==
    LET g    == worker[w].game
        has  == worker[w].has
        list == [n \in 1 .. Cardinality(has) |-> [file |-> <<g, SetToSeq(has)[n]>>, st |-> "queued"]]
    IN  /\ worker[w].pc = "publish"
        /\ Set(g, [job.items[g] EXCEPT !.st = "transferring", !.found = 0, !.open = Cardinality(has),
                                       !.missing = Cardinality(Missing(g) \ has)])
        /\ tasks' = tasks \o list
        /\ worker' = [worker EXCEPT ![w] = [pc |-> "release", game |-> g]]
        /\ UNCHANGED <<cancelling, helper, fresh, thread, lib, tries>>
Release(w) ==
    /\ worker[w].pc = "release"
    /\ Set(worker[w].game, [job.items[worker[w].game] EXCEPT !.holder = IF @ = w THEN None ELSE @])
    /\ worker' = [worker EXCEPT ![w] = [pc |-> "idle", game |-> None]]
    /\ UNCHANGED <<tasks, cancelling, helper, fresh, thread, lib, tries>>

(*------------------------------- the page --------------------------------*)

Cancel ==
    /\ Running /\ Spend("halt")
    /\ job' = [st |-> "cancelled", items |-> [g \in Games |->
                 [job.items[g] EXCEPT !.st = IF @ \in {"working", "transferring"} THEN "pending" ELSE @]]]
    /\ cancelling' = TRUE /\ tasks' = <<>>
    /\ UNCHANGED <<worker, helper, fresh, thread, lib>>
Resume ==
    /\ Spend("resume") /\ ~Running          \* the page offers it for a job that has stopped
    /\ tries.calm => \A g \in Games : job.items[g].holder = None
    /\ helper' = IF helper = "ended" THEN "off" ELSE helper   \* "ended" is of the job before
    /\ job' = [st |-> "running", items |-> [g \in Games |->
                 [job.items[g] EXCEPT !.st = IF @ \in {"working", "transferring", "failed"}
                                                /\ job.items[g].holder = None THEN "pending" ELSE @]]]
    /\ cancelling' = FALSE /\ tasks' = <<>>
    /\ UNCHANGED <<worker, fresh, thread, lib>>

(*---------------------------- the list of tasks --------------------------*)

\* A lease runs out by its time alone, surely when no thread has its task any more, and
\* is looked at when tasks are handed out.
AtWork(n) == \E t \in Threads : thread[t].pc # "idle" /\ thread[t].task = n
LeaseEnds == \E n \in DOMAIN tasks :
    /\ tasks[n].st = "leased"
    /\ IF AtWork(n) THEN Spend("late") ELSE UNCHANGED tries
    /\ tasks' = [tasks EXCEPT ![n].st = "late"]
    /\ UNCHANGED <<job, cancelling, worker, helper, fresh, thread, lib>>

\* pc_tasks: the tasks it may hand out, the first `max` of them; and whether more may come.
LeasableOnce(n) == tasks[n].st = "queued" \/ (fresh /\ tasks[n].st = "leased")   \* mutant: no lease runs out
Leasable(n) == tasks[n].st \in {"queued", "late"} \/ (fresh /\ tasks[n].st = "leased")
Handed(max) == {n \in DOMAIN tasks : Leasable(n) /\ Cardinality({m \in 1 .. n : Leasable(m)}) <= max}
MoreTasks == \E n \in DOMAIN tasks : tasks[n].st # "done"   \* mutant: games still to be identified forgotten
More == \/ \E g \in Games : job.items[g].st \in {"pending", "working"}
        \/ \E n \in DOMAIN tasks : tasks[n].st # "done"

\* pc_target: the place of the task with this number, as the list now stands.
Target(n) == IF Running /\ n \in DOMAIN tasks /\ tasks[n].st # "done" THEN tasks[n].file ELSE None

\* pc_delivered and pc_downloaded: one of an item's tasks is over.
Ended(it) == [it EXCEPT !.open = @ - 1,
                !.st = IF it.open > 1 THEN @ ELSE IF it.missing = 0 THEN "done"
                       ELSE IF it.found > 0 THEN "partial" ELSE "unmatched"]
TaskOver(n, it) ==
    /\ tasks' = [tasks EXCEPT ![n].st = "done"]
    /\ Set(tasks[n].file[1], Ended(it))
OpenOrNot(n) == n \in DOMAIN tasks   \* mutant: counted again each time
Open(n) == n \in DOMAIN tasks /\ tasks[n].st # "done"
ItemOf(n) == job.items[tasks[n].file[1]]
NotThere(n) ==
    IF Open(n) THEN TaskOver(n, [ItemOf(n) EXCEPT !.missing = @ + 1]) ELSE UNCHANGED <<tasks, job>>
Delivered(n) ==
    IF Open(n) THEN TaskOver(n, [ItemOf(n) EXCEPT !.found = @ + 1]) ELSE UNCHANGED <<tasks, job>>
NotDelivered(n) ==
    IF Open(n) THEN tasks' = [tasks EXCEPT ![n].st = "queued"] /\ UNCHANGED job
    ELSE UNCHANGED <<tasks, job>>

(*------------------------------ the helper -------------------------------*)

Idle      == {t \in Threads : thread[t].pc = "idle"}
Go(t, to) == thread' = [thread EXCEPT ![t] = to]

StartHelper ==
    /\ helper # "on" /\ Spend("helper") /\ helper' = "on" /\ fresh' = TRUE
    /\ UNCHANGED <<job, tasks, cancelling, worker, thread, lib>>
\* Ctrl+C, or a request the console refuses: its threads die; what the console still receives of them is cut, or was whole.
StopHelper ==
    /\ helper = "on" /\ Spend("stop") /\ helper' = "off"
    /\ thread' = [t \in Threads |-> IF thread[t].pc \in {"put", "stored", "failed"}
                                    THEN [thread[t] EXCEPT !.gone = TRUE] ELSE Free]
    /\ UNCHANGED <<job, tasks, cancelling, worker, fresh, lib>>

\* Its main loop: while few of its threads are at work ask for twice as many tasks, and give
\* each to a thread; end when the job is over, or when there is nothing now, nothing more to
\* come and no thread at work.
Mine == {t \in Threads : thread[t].pc # "idle" /\ ~thread[t].gone}
Least(m, n) == IF m < n THEN m ELSE n
AskTasks ==
    LET hand == Handed(Least(2 * Busy, Cardinality(Idle)))
        give == SetToSeq(hand)
        to   == SetToSeq(Idle)
    IN  /\ helper = "on" /\ Cardinality(Mine) < Busy /\ Idle # {}
        /\ fresh' = FALSE
        /\ tasks' = [n \in DOMAIN tasks |-> [tasks[n] EXCEPT !.st = IF n \in hand THEN "leased"
                       ELSE IF fresh /\ @ \in {"leased", "late"} THEN "queued" ELSE @]]
        /\ thread' = [t \in Threads |-> IF \E i \in DOMAIN give : to[i] = t
                        THEN LET n == give[CHOOSE i \in DOMAIN give : to[i] = t]
                             IN  [Free EXCEPT !.pc = "fetch", !.task = n, !.file = tasks[n].file]
                        ELSE thread[t]]
        /\ hand # {} \/ fresh      \* a request that changes nothing is a stuttering step
        /\ Running
        /\ UNCHANGED <<job, cancelling, worker, helper, lib, tries>>
HelperEnds ==
    /\ helper = "on" /\ Cardinality(Mine) < Busy
    /\ \/ ~Running /\ helper' = "off"
       \/ Handed(2 * Busy) = {} /\ ~More /\ Mine = {} /\ helper' = "ended"
    /\ UNCHANGED <<job, tasks, cancelling, worker, fresh, thread, lib, tries>>

\* A thread fetches the file from the source; there may be none, or the source fails.
Fetched(t)  == thread[t].pc = "fetch" /\ Go(t, [thread[t] EXCEPT !.pc = "send"])
               /\ UNCHANGED <<job, tasks, cancelling, worker, helper, fresh, lib, tries>>
NoSuchFile(t) == thread[t].pc = "fetch" /\ Spend("none") /\ NotThere(thread[t].task) /\ Go(t, Free)
               /\ UNCHANGED <<cancelling, worker, helper, fresh, lib>>
FetchFails(t) == thread[t].pc = "fetch" /\ Spend("fail") /\ Go(t, Free)
               /\ UNCHANGED <<job, tasks, cancelling, worker, helper, fresh, lib>>

\* It sends the file: the console says where it goes, or that it is no longer wanted (which
\* it says of a file it cannot create too, once the lease is renewed).
Send(t) ==
    LET n == thread[t].task IN
    /\ thread[t].pc = "send"
    /\ IF Target(n) = None THEN Go(t, Free) /\ UNCHANGED <<tasks, tries>>
       ELSE /\ tasks' = [tasks EXCEPT ![n].st = IF @ = "late" THEN "leased" ELSE @]
            /\ \/ Go(t, [thread[t] EXCEPT !.pc = "put", !.dest = Target(n)]) /\ UNCHANGED tries
               \/ Spend("fail") /\ Go(t, Free)
    /\ UNCHANGED <<job, cancelling, worker, helper, fresh, lib>>
\* The bytes are whole: they are renamed into place, and then the task is told.
Store(t) ==
    /\ thread[t].pc = "put"
    /\ lib' = [lib EXCEPT ![thread[t].dest] = thread[t].file]
    /\ Go(t, [thread[t] EXCEPT !.pc = "stored"])
    /\ UNCHANGED <<job, tasks, cancelling, worker, helper, fresh, tries>>
Deliver(t) == thread[t].pc = "stored" /\ Delivered(thread[t].task) /\ Go(t, Free)
               /\ UNCHANGED <<cancelling, worker, helper, fresh, lib, tries>>
\* They cannot be stored: the task is told, and told again as the request goes (Cut).
StoreFails(t) ==
    /\ thread[t].pc = "put" /\ Spend("fail")
    /\ NotDelivered(thread[t].task) /\ Go(t, [thread[t] EXCEPT !.pc = "failed"])
    /\ UNCHANGED <<cancelling, worker, helper, fresh, lib>>
\* The upload is cut, by the network or with its helper; or it failed.
Cut(t) ==
    /\ thread[t].pc \in {"put", "failed"} /\ NotDelivered(thread[t].task) /\ Go(t, Free)
    /\ IF thread[t].gone \/ thread[t].pc = "failed" THEN UNCHANGED tries ELSE Spend("fail")
    /\ UNCHANGED <<cancelling, worker, helper, fresh, lib>>

ThreadStep(t) == Fetched(t) \/ NoSuchFile(t) \/ FetchFails(t) \/ Send(t)
                 \/ Store(t) \/ StoreFails(t) \/ Deliver(t) \/ Cut(t)
WorkerStep(w) == Take(w) \/ EndJob(w) \/ Ask(w) \/ NoDatabase(w) \/ PutBack(w) \/ Publish(w) \/ Release(w)
HelperStep    == AskTasks \/ HelperEnds
Next ==
    \/ Cancel \/ Resume \/ LeaseEnds \/ StartHelper \/ StopHelper \/ HelperStep
    \/ \E w \in Workers : WorkerStep(w)
    \/ \E t \in Threads : ThreadStep(t)

\* The workers, the helper while it is kept running, and its threads, go on; a lease that
\* nobody renews runs out.
Fairness ==
    /\ \A w \in Workers : WF_vars(WorkerStep(w))
    /\ \A t \in Threads : WF_vars(ThreadStep(t))
    /\ WF_vars(HelperStep) /\ WF_vars(LeaseEnds)
Spec == Init /\ [][Next]_vars /\ Fairness

(*------------------------------ properties -------------------------------*)

\* Whatever is leased twice, delivered twice, cut or found missing, each kind asked of a game
\* that is with the helper is counted once: found, missing or still open, and what is open
\* is on the list; the page's recap adds up.
CountsAddUp == \A g \in Games : LET it == job.items[g] IN
    it.st = "transferring" /\ Running /\ it.holder = None =>
        /\ it.found + it.missing + it.open <= Cardinality(Kinds)
        /\ it.open > 0
        /\ it.open = Cardinality({n \in DOMAIN tasks : tasks[n].file[1] = g /\ tasks[n].st # "done"})

\* A job is over only when every game is: no download is handed out, under way or to come.
DoneIsSettled == job.st = "done" =>
    /\ \A g \in Games : job.items[g].st \notin {"pending", "working", "transferring"}
    /\ \A n \in DOMAIN tasks : tasks[n].st = "done"

\* A helper that ends by itself leaves nothing behind: no game is still to be identified
\* and no download to be handed out ("more" of pc_tasks).
HelperEndsLast == helper = "ended" /\ Running => ~More

\* The helper's threads never write the same temporary file (it is named for the task).
OnePart == \A t, u \in Threads : t # u /\ {t, u} \subseteq Mine => thread[t].task # thread[u].task
=============================================================================
