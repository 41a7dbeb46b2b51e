------------------------------- MODULE Scraper -------------------------------
(***************************************************************************)
(* The scraper's jobs in PS5 mode (src/src/scraper.cpp): a job's games go   *)
(* down its chain of sources in passes, taken by a pool of workers, while   *)
(* the page starts, cancels and resumes jobs and resolves games, sources    *)
(* run out of quota, and the server may die between any two steps.          *)
(*                                                                          *)
(* One action is one section under `lock`, with the work outside the lock   *)
(* that leads to it.  A game's texts are left out: of a source's name for a *)
(* game only whether there is one counts (matched, matches, cands).  The    *)
(* details of a game are one of the Kinds; libretro's tries of one name     *)
(* after another are one.                                                   *)
(***************************************************************************)
EXTENDS Naturals, Sequences, FiniteSets

CONSTANTS
    Jobs,       \* 1..n: the jobs, in the order they are started
    Games,      \* 1..n: the games of the library, in its order
    Workers,    \* the worker threads (worker_count)
    Kinds,      \* the kinds of media and details a job asks for
    Details,    \* the kind that is a game's details
    Sources,    \* the sources
    Offers,     \* Offers[s]: the kinds source s can have (source_offers)
    Covers,     \* Covers[s]: the games of systems that source s has
    Limited,    \* the sources with an account's limits (ScreenScraper)
    Databases,  \* the sources whose database is downloaded before it is read (LaunchBox)
    Slots,      \* how many games an account lets the limited sources ask at once
    Uploaded,   \* the media the user uploaded: pairs of a game and a kind
    Scenarios,  \* what the page may ask for (requests: the options and the games of a job),
                \* and how often each other event may happen
    None

\* What the page asks for when it starts a job.
Asked == [chain : Seq(Sources) \ {<<>>}, games : SUBSET Games \ {{}}, kinds : SUBSET Kinds,
          overwrite : BOOLEAN]

ASSUME ScraperAssumption ==
    /\ IsFiniteSet(Jobs) /\ Jobs = 1..Cardinality(Jobs)
    /\ Games \subseteq Nat
    /\ None \notin Workers \cup Sources /\ Slots \in Nat \ {0}
    /\ Offers \in [Sources -> SUBSET Kinds] /\ Covers \in [Sources -> SUBSET Games]
    /\ Uploaded \subseteq Games \X (Kinds \ {Details})
    /\ Scenarios \subseteq [requests : SUBSET Asked, start : Nat, cancel : Nat, resume : Nat,
                            skip : Nat, choose : Nat, search : Nat, quota : Nat, crash : Nat]

VARIABLES
    jobs,       \* the jobs in memory
    active,     \* the job the workers serve
    cancelling, \* the flag every download and wait polls
    worker,     \* each worker: where it is, and its copy of the game it holds
    stored,     \* the media in the library: pairs of a game and a kind
    disk,       \* each job's file, as last saved
    budget      \* what is left of the scenario

vars == <<jobs, active, cancelling, worker, stored, disk, budget>>

Final   == {"done", "partial", "skipped", "ambiguous", "unmatched", "failed"}
ItemStates == {"pending", "working"} \cup Final
JobStates  == {"none", "running", "cancelled", "done", "paused"}

Item0 == [st |-> "pending", pass |-> 1, holder |-> None, started |-> FALSE, got |-> {},
          matched |-> FALSE, matches |-> {}, cands |-> FALSE, from |-> None, held |-> "none"]
Job0  == [st |-> "none", pass |-> 1, chain |-> <<>>, kinds |-> {}, overwrite |-> FALSE, items |-> <<>>]
Idle  == [pc |-> "idle", job |-> None, game |-> None, old |-> Item0, src |-> 1, todo |-> {},
          hit |-> FALSE, miss |-> FALSE, matched |-> FALSE, cands |-> FALSE]

GamesOf(j) == DOMAIN jobs[j].items

TypeOK ==
    /\ active \in Jobs \cup {None} /\ cancelling \in BOOLEAN
    /\ stored \subseteq Games \X Kinds
    /\ \A j \in Jobs :
        /\ jobs[j].st \in JobStates /\ disk[j].st \in JobStates
        /\ \A g \in GamesOf(j) : LET it == jobs[j].items[g] IN
            /\ it.st \in ItemStates /\ it.holder \in Workers \cup {None} /\ it.got \subseteq Kinds
            /\ it.held \in {"none", "ambiguous", "unmatched", "failed"}
            /\ it.matches \subseteq Sources /\ it.from \in Sources \cup {None}
    /\ \A w \in Workers : worker[w].pc \in
        {"idle", "look", "turn", "slot", "begin", "source", "prepare", "ask", "fetch", "quota", "weigh",
         "move", "release"}

Init ==
    /\ jobs = [j \in Jobs |-> Job0] /\ disk = [j \in Jobs |-> Job0]
    /\ active = None /\ cancelling = FALSE /\ stored = Uploaded
    /\ worker = [w \in Workers |-> Idle]
    /\ budget \in Scenarios

(*--------------------------- the job's file ------------------------------*)

\* A game mid-way is saved as pending; who holds it is not saved.
SavedItemWorking(it) == [it EXCEPT !.holder = None]   \* mutant: its state as it is
Waiting(it)   == [it EXCEPT !.st = IF @ = "working" THEN "pending" ELSE @]
SavedItem(it) == [Waiting(it) EXCEPT !.holder = None]
SavedNoPass(job) == [job EXCEPT !.pass = 1, !.items = [g \in DOMAIN @ |-> SavedItem(@[g])]]   \* mutant
Saved(job)    == [job EXCEPT !.items = [g \in DOMAIN @ |-> SavedItem(@[g])]]

\* A forced save, and one held back when the last is less than 2 s old (which only a
\* crash to come can tell from a saved one).
Save(j)      == disk' = [disk EXCEPT ![j] = Saved(jobs'[j])]
MaybeSave(j) == Save(j) \/ (budget.crash > 0 /\ UNCHANGED disk)

(*------------------------------ what is lacking --------------------------*)

\* A kind a job fetches for a game: one it lacks, or any when replacing; none the user uploaded.
Wanted(job, g, k) == <<g, k>> \notin IF job.overwrite THEN Uploaded ELSE stored

Running(j)  == jobs[j].st = "running"
Stopped(j)  == cancelling \/ ~Running(j)
ItemOf(w)   == jobs[worker[w].job].items[worker[w].game]
JobOf(w)    == jobs[worker[w].job]
ChainOf(w)  == jobs[worker[w].job].chain
Funnel(w)   == Len(ChainOf(w)) > 1
SourceOf(w) == ChainOf(w)[worker[w].src]

LackingStored(w, it) == {k \in JobOf(w).kinds : Wanted(JobOf(w), worker[w].game, k)}   \* mutant
Lacking(w, it) == {k \in JobOf(w).kinds : k \notin it.got /\ Wanted(JobOf(w), worker[w].game, k)}

\* Worker w writes its game, and goes to pc.
PutItem(w, it) == jobs' = [jobs EXCEPT ![worker[w].job].items[worker[w].game] = it]
Goto(w, pc)    == worker' = [worker EXCEPT ![w].pc = pc]
AfterSource(w) == IF Funnel(w) THEN "weigh" ELSE "release"

(*------------------------------ the workers ------------------------------*)

TakeableHeld(j) == {g \in GamesOf(j) : LET it == jobs[j].items[g] IN   \* mutant: held or not
                      it.st = "pending" /\ it.pass <= jobs[j].pass}
Takeable(j) == {g \in GamesOf(j) : LET it == jobs[j].items[g] IN
                  it.st = "pending" /\ it.pass <= jobs[j].pass /\ it.holder = None}
InFlight(j) == \E g \in GamesOf(j) : jobs[j].items[g].holder # None
Later(j)    == {jobs[j].items[g].pass : g \in {h \in GamesOf(j) :
                  jobs[j].items[h].st = "pending" /\ jobs[j].items[h].pass > jobs[j].pass}}
First(S)    == CHOOSE n \in S : \A m \in S : n <= m
AtWork(w)   == worker[w].pc = "idle" /\ active # None /\ Running(active) /\ ~cancelling

\* A worker takes the first game that waits for this pass and that no one holds.
Take(w) ==
    /\ AtWork(w) /\ Takeable(active) # {}
    /\ LET g == First(Takeable(active)) IN
        /\ jobs' = [jobs EXCEPT ![active].items[g] = [@ EXCEPT !.st = "working", !.holder = w]]
        /\ worker' = [worker EXCEPT ![w] = [Idle EXCEPT !.pc = "look", !.job = active, !.game = g]]
    /\ UNCHANGED <<active, cancelling, stored, disk, budget>>

\* Nothing to take and nothing in flight: the next pass, or the job's end.
PassOverInFlight(j) == Takeable(j) = {}   \* mutant: whatever is in flight
PassOver(j) == Takeable(j) = {} /\ ~InFlight(j)
NextPass(w) ==
    /\ AtWork(w) /\ PassOver(active) /\ Later(active) # {}
    /\ jobs' = [jobs EXCEPT ![active].pass = First(Later(active))]
    /\ Save(active)
    /\ UNCHANGED <<active, cancelling, worker, stored, budget>>
EndJob(w) ==
    /\ AtWork(w) /\ PassOver(active) /\ Later(active) = {}
    /\ jobs' = [jobs EXCEPT ![active].st = "done"]
    /\ Save(active)
    /\ UNCHANGED <<active, cancelling, worker, stored, budget>>

\* How a game ends its funnel: its held trouble counts only for what it still lacks.
FunnelState(it, lack) ==
    IF lack = {} THEN "done"
    ELSE IF it.held = "ambiguous" THEN "ambiguous"
    ELSE IF it.got # {} THEN "partial"
    ELSE IF it.held = "failed" THEN "failed"
    ELSE "unmatched"
FunnelFinish(it, lack) ==
    [it EXCEPT !.st = FunnelState(it, lack), !.held = "none", !.matched = it.matches # {},
               !.cands = @ /\ lack # {} /\ it.held = "ambiguous",
               !.from = IF lack = {} THEN None ELSE @]

\* The worker copies its game and reads what it lacks; a single source is asked for all the job
\* wants of it.  A limited source's slot comes first.
PassOf(w) == LET n == Len(ChainOf(w)) IN IF ItemOf(w).pass > n THEN n ELSE ItemOf(w).pass
Door(src) == IF src \in Limited THEN "slot" ELSE "begin"
Copy(w) ==
    LET it    == ItemOf(w)
        first == ChainOf(w)[1]
    IN  /\ worker[w].pc = "look"
        /\ worker' = [worker EXCEPT ![w] =
             IF Funnel(w) THEN [@ EXCEPT !.old = it, !.src = PassOf(w), !.todo = Lacking(w, it), !.pc = "turn"]
             ELSE [@ EXCEPT !.src = 1, !.todo = JobOf(w).kinds \cap Offers[first], !.pc = Door(first)]]
        /\ UNCHANGED <<jobs, active, cancelling, stored, disk, budget>>

\* It turns to this pass's source for what that source offers; what an earlier source left
\* for the user stays aside.
Look(w) ==
    LET it  == ItemOf(w)
        src == SourceOf(w)
        one == worker[w].todo \cap Offers[src]
    IN  /\ worker[w].pc = "turn"
        /\ IF worker[w].todo = {} THEN
               /\ PutItem(w, IF it.started \/ it.got # {} THEN FunnelFinish(it, {})
                             ELSE [it EXCEPT !.st = "skipped"])
               /\ MaybeSave(worker[w].job) /\ Goto(w, "release")
           ELSE IF one = {} THEN Goto(w, "move") /\ UNCHANGED <<jobs, disk>>
           ELSE
               /\ PutItem(w, [it EXCEPT !.matched = src \in it.matches, !.cands = FALSE, !.st = "working"])
               /\ worker' = [worker EXCEPT ![w] = [@ EXCEPT !.todo = one, !.pc = Door(src)]]
               /\ UNCHANGED disk
        /\ UNCHANGED <<active, cancelling, stored, budget>>

\* One source's work on a game ends with state st: `finish` of process_*, which writes back
\* what its own copy says of the game's name and of the names to choose from.
Finish(w, st, matched, cands) ==
    /\ PutItem(w, [ItemOf(w) EXCEPT !.st = st, !.matched = matched, !.cands = cands])
    /\ MaybeSave(worker[w].job)
    /\ Goto(w, AfterSource(w))

\* libretro knows a game by the pictures it has of it; the others by their own records.
PlainSources == Sources \ (Limited \cup Databases)
Plain(w)  == SourceOf(w) \in PlainSources
Needed(w) == {k \in worker[w].todo : Wanted(JobOf(w), worker[w].game, k)}
NothingToFetch(w) == Needed(w) = {} /\ (worker[w].todo # {} \/ ~Plain(w))

\* The game is marked started, once and on disk, and the source is asked.
MarkStarted(w) ==
    /\ PutItem(w, [ItemOf(w) EXCEPT !.started = TRUE])
    /\ IF ItemOf(w).started THEN UNCHANGED disk ELSE Save(worker[w].job)

\* A limited source's slot is held until its answer; a job stopped meanwhile asks nothing.
\* The source's work starts with a copy of what the game is known by.
Busy == {v \in Workers : worker[v].pc \in {"source", "ask", "fetch", "quota"} /\ SourceOf(v) \in Limited}
Enter(w) ==
    /\ \/ worker[w].pc = "begin"
       \/ worker[w].pc = "slot" /\ Cardinality(Busy) < Slots
    /\ IF worker[w].pc = "slot" /\ Stopped(worker[w].job)
       THEN PutItem(w, [ItemOf(w) EXCEPT !.st = "pending"]) /\ Goto(w, AfterSource(w))
       ELSE /\ worker' = [worker EXCEPT ![w] = [@ EXCEPT !.pc = "source", !.matched = ItemOf(w).matched,
                                                        !.cands = ItemOf(w).cands]]
            /\ UNCHANGED jobs
    /\ UNCHANGED <<active, cancelling, stored, disk, budget>>

\* Nothing needed: done if this job fetched it, skipped otherwise.
Begin(w) ==
    LET ended(st) == Finish(w, st, worker[w].matched, worker[w].cands)
        go(pc)    == worker' = [worker EXCEPT ![w] = [@ EXCEPT !.todo = Needed(w), !.pc = pc]]
    IN  /\ worker[w].pc = "source"
        /\ IF worker[w].game \notin Covers[SourceOf(w)] THEN ended("unmatched")
           ELSE IF NothingToFetch(w) THEN ended(IF ItemOf(w).started THEN "done" ELSE "skipped")
           ELSE IF SourceOf(w) \in Databases THEN go("prepare") /\ UNCHANGED <<jobs, disk>>
           ELSE MarkStarted(w) /\ go(IF Plain(w) THEN "fetch" ELSE "ask")
        /\ UNCHANGED <<active, cancelling, stored, budget>>

Spend(b) == budget[b] > 0 /\ budget' = [budget EXCEPT ![b] = @ - 1]

\* The job must wait: it pauses if it runs, and then the game is put back.
Pause(w, some) ==
    LET j == worker[w].job
    IN  /\ IF Running(j) THEN jobs' = [jobs EXCEPT ![j].st = "paused"] /\ Save(j)
           ELSE UNCHANGED <<jobs, disk>>
        /\ worker' = [worker EXCEPT ![w] = [@ EXCEPT !.pc = "quota", !.cands = some]]
PutBack(w) ==
    /\ worker[w].pc = "quota" /\ Finish(w, "pending", worker[w].matched, worker[w].cands)
    /\ UNCHANGED <<active, cancelling, stored, budget>>

\* The database is there, is fetched, or cannot be; a job that stopped does not wait for it.
Prepare(w) ==
    /\ worker[w].pc = "prepare"
    /\ \/ MarkStarted(w) /\ Goto(w, "ask") /\ UNCHANGED budget
       \/ Pause(w, worker[w].cands) /\ IF Stopped(worker[w].job) THEN UNCHANGED budget ELSE Spend("quota")
    /\ UNCHANGED <<active, cancelling, stored>>

\* What is offered to choose from once a search found its title: nothing more.
Searched(w) == IF worker[w].matched THEN {worker[w].cands} ELSE {worker[w].cands, FALSE}

\* A quota, a closed API or a refused account, at the first call or after a search.
Quota(w) ==
    /\ worker[w].pc = "ask" /\ SourceOf(w) \in Limited
    /\ Spend("quota") /\ \E some \in Searched(w) : Pause(w, some)
    /\ UNCHANGED <<active, cancelling, stored>>

\* The source knows the game, by a search's exact title too; it does not, or offers names to
\* choose from; or the call fails, a cancelled one too.
Known(w) ==
    /\ worker[w].pc = "ask"
    /\ \E some \in Searched(w) :
         worker' = [worker EXCEPT ![w] = [@ EXCEPT !.pc = "fetch", !.matched = TRUE, !.cands = some]]
    /\ UNCHANGED <<jobs, active, cancelling, stored, disk, budget>>
NotFound(w, some) ==
    Finish(w, IF some /\ ~worker[w].matched THEN "ambiguous" ELSE "unmatched", worker[w].matched, some)
Unknown(w) ==
    /\ worker[w].pc = "ask"
    /\ \E some \in IF worker[w].matched THEN {worker[w].cands} ELSE BOOLEAN : NotFound(w, some)
    /\ UNCHANGED <<active, cancelling, stored, budget>>
Guessing(w) == Plain(w) /\ ~worker[w].matched    \* libretro, by names it may not have
Fails(w) ==
    /\ \/ /\ worker[w].pc = "ask" /\ SourceOf(w) \in Limited
          /\ \E some \in Searched(w) : Finish(w, "failed", worker[w].matched, some)
       \/ /\ worker[w].pc = "fetch" /\ worker[w].todo \ {Details} # {}
          /\ \E some \in {worker[w].cands, Guessing(w) \/ worker[w].cands} :
                Finish(w, "failed", worker[w].matched, some)
    /\ UNCHANGED <<active, cancelling, stored, budget>>

\* The next kind, the details last: its file is renamed into the library and noted (the one
\* under way when the job is cancelled may still come), or the source has none of it.
AnyKind(w) == CHOOSE k \in worker[w].todo : k = Details => worker[w].todo = {Details}
Download(w) ==
    /\ worker[w].pc = "fetch" /\ worker[w].todo # {} /\ ~(AnyKind(w) = Details /\ cancelling)
    /\ stored' = stored \cup {<<worker[w].game, AnyKind(w)>>}
    /\ PutItem(w, [ItemOf(w) EXCEPT !.got = @ \cup {AnyKind(w)}])
    /\ worker' = [worker EXCEPT ![w].todo = @ \ {AnyKind(w)}, ![w].hit = TRUE]
    /\ UNCHANGED <<active, cancelling, disk, budget>>
NoneOfIt(w) ==
    /\ worker[w].pc = "fetch" /\ worker[w].todo # {}
    /\ worker' = [worker EXCEPT ![w].todo = @ \ {AnyKind(w)}, ![w].miss = @ \/ AnyKind(w) # Details]
    /\ UNCHANGED <<jobs, active, cancelling, stored, disk, budget>>

\* Every kind was tried.  libretro has no picture of the game: it is not found, or keeps the
\* name it was given; and a kind that is not libretro's is missing from a job of its own.
Unavailable(w) == Plain(w) /\ ~Funnel(w) /\ JobOf(w).kinds \ Offers[SourceOf(w)] # {}
Outcomes(w) ==
    IF Unavailable(w) THEN {"partial"}
    ELSE IF Plain(w) /\ ~worker[w].hit THEN {"done", "partial"}
    ELSE IF worker[w].miss THEN {"partial"} ELSE {"done"}
Fetched(w) ==
    LET known   == worker[w].matched \/ worker[w].hit
        offered == worker[w].cands
    IN  /\ worker[w].pc = "fetch"
        /\ \/ /\ cancelling /\ worker[w].todo \subseteq {Details}
              /\ \E some \in IF Guessing(w) THEN BOOLEAN ELSE {offered} : Finish(w, "pending", known, some)
           \/ /\ ~cancelling /\ worker[w].todo = {} /\ known
              /\ \E st \in Outcomes(w), some \in {offered, offered /\ ~Guessing(w)} : Finish(w, st, TRUE, some)
           \/ /\ ~cancelling /\ worker[w].todo = {} /\ ~known
              /\ \E some \in BOOLEAN : NotFound(w, some)
        /\ UNCHANGED <<active, cancelling, stored, budget>>

\* The first trouble on the way down is held for the end; what an earlier source offered
\* to choose from comes back.
WithTrouble(it, old, src) ==
    IF it.st = "ambiguous" /\ old.held # "ambiguous" THEN [it EXCEPT !.held = "ambiguous", !.from = src]
    ELSE LET now == IF it.st \in {"unmatched", "failed"} /\ old.held = "none" THEN it.st ELSE it.held
         IN  [it EXCEPT !.held = now, !.cands = old.cands,
                        !.from = IF now = old.held THEN old.from
                                 ELSE IF now = "unmatched" /\ it.st = "unmatched" THEN src ELSE @]
\* A job stopped while the source was asked keeps the game for the resume.
Weigh(w) ==
    LET it    == ItemOf(w)
        known == IF it.matched /\ ~it.cands /\ it.st # "failed" THEN {SourceOf(w)} ELSE {}
        new   == [WithTrouble(it, worker[w].old, SourceOf(w)) EXCEPT !.matches = @ \cup known]
    IN  /\ worker[w].pc = "weigh"
        /\ IF Stopped(worker[w].job)
           THEN /\ PutItem(w, [it EXCEPT !.st = "pending", !.cands = worker[w].old.cands,
                                         !.from = worker[w].old.from])
                /\ Save(worker[w].job) /\ Goto(w, "release")
           ELSE /\ PutItem(w, new) /\ UNCHANGED disk
                /\ worker' = [worker EXCEPT ![w] = [@ EXCEPT !.old = new, !.pc = "move"]]
        /\ UNCHANGED <<active, cancelling, stored, budget>>

\* Down the funnel while it lacks something, or out of it.
Move(w) ==
    LET lack == Lacking(w, worker[w].old)
        it   == ItemOf(w)
    IN  /\ worker[w].pc = "move"
        /\ PutItem(w, IF lack # {} /\ worker[w].src < Len(ChainOf(w))
                      THEN [it EXCEPT !.pass = worker[w].src + 1, !.st = "pending"]
                      ELSE FunnelFinish(it, lack))
        /\ MaybeSave(worker[w].job) /\ Goto(w, "release")
        /\ UNCHANGED <<active, cancelling, stored, budget>>

ReleaseShown(w) ==    \* mutant: only of a game still shown as working
    /\ worker[w].pc = "release"
    /\ PutItem(w, [ItemOf(w) EXCEPT !.holder = IF ItemOf(w).st = "working" THEN None ELSE @])
    /\ worker' = [worker EXCEPT ![w] = Idle]
    /\ UNCHANGED <<active, cancelling, stored, disk, budget>>
\* The worker lets go of its game.
Release(w) ==
    /\ worker[w].pc = "release"
    /\ PutItem(w, [ItemOf(w) EXCEPT !.holder = IF @ = w THEN None ELSE @])
    /\ worker' = [worker EXCEPT ![w] = Idle]
    /\ UNCHANGED <<active, cancelling, stored, disk, budget>>

WorkerStep(w) ==
    \/ Take(w) \/ NextPass(w) \/ EndJob(w) \/ Copy(w) \/ Look(w) \/ Enter(w) \/ Begin(w) \/ Prepare(w)
    \/ Quota(w) \/ PutBack(w) \/ Known(w) \/ Unknown(w) \/ Fails(w) \/ Download(w) \/ NoneOfIt(w) \/ Fetched(w)
    \/ Weigh(w) \/ Move(w) \/ Release(w)

(*------------------------------ the page ---------------------------------*)

\* start: one job at a time; the newest is the active one.  libretro alone has no details.
KindsOf(r) == IF Len(r.chain) = 1 /\ r.chain[1] \in PlainSources THEN r.kinds \ {Details} ELSE r.kinds
Start(j, r) ==
    /\ Spend("start") /\ jobs[j].st = "none" /\ \A i \in Jobs : i < j => jobs[i].st # "none"
    /\ ~(active # None /\ Running(active)) /\ KindsOf(r) # {}
    /\ jobs' = [jobs EXCEPT ![j] = [Job0 EXCEPT !.st = "running", !.chain = r.chain, !.kinds = KindsOf(r),
                              !.overwrite = r.overwrite, !.items = [g \in r.games |-> Item0]]]
    /\ active' = j /\ cancelling' = FALSE
    /\ Save(j)
    /\ UNCHANGED <<worker, stored>>

\* cancel: what is in hand is put back, and the workers are told.
Cancel(j) ==
    /\ Running(j) /\ Spend("cancel")
    /\ jobs' = [jobs EXCEPT ![j].st = "cancelled",
                  ![j].items = [g \in DOMAIN @ |-> Waiting(@[g])]]
    /\ cancelling' = TRUE
    /\ Save(j)
    /\ UNCHANGED <<active, worker, stored>>

\* resume: a game in a worker's hands is left to it; a failed one starts again at the top.
Again(it, funnel) ==
    IF it.holder = None /\ it.st \in {"working", "failed"}
    THEN IF it.st = "failed" /\ funnel THEN [it EXCEPT !.st = "pending", !.pass = 1, !.held = "none"]
         ELSE [it EXCEPT !.st = "pending"]
    ELSE it
Resumed(job) ==
    LET items   == [g \in DOMAIN job.items |-> Again(job.items[g], Len(job.chain) > 1)]
        waiting == {items[g].pass : g \in {h \in DOMAIN items : items[h].st = "pending"}}
    IN  [job EXCEPT !.items = items, !.st = "running",
                    !.pass = IF Len(job.chain) = 1 THEN @ ELSE IF waiting = {} THEN 1 ELSE First(waiting)]
Resume(j) ==
    /\ jobs[j].st # "none" /\ Spend("resume")
    /\ ~(active # None /\ active # j /\ Running(active))
    /\ jobs' = [jobs EXCEPT ![j] = Resumed(@)]
    /\ active' = j /\ cancelling' = FALSE
    /\ Save(j)
    /\ UNCHANGED <<worker, stored>>

\* resolve: skip a game, choose one of the names offered, or keep what a search found,
\* whatever became of the game since the page was drawn.
Skip(j, g) ==
    /\ jobs[j].st # "none" /\ Spend("skip")
    /\ jobs' = [jobs EXCEPT ![j].items[g].st = "skipped"]
    /\ Save(j)
    /\ UNCHANGED <<active, cancelling, worker, stored>>
Chosen(it, src, n) ==
    [it EXCEPT !.matched = TRUE, !.matches = @ \cup {src}, !.held = "none", !.cands = FALSE,
               !.st = "pending", !.pass = n]
Choose(j, g) ==
    LET it  == jobs[j].items[g]
        src == IF it.from # None THEN it.from ELSE jobs[j].chain[1]
        n   == First({i \in DOMAIN jobs[j].chain : jobs[j].chain[i] = src} \cup {jobs[j].pass})
    IN  /\ jobs[j].st # "none" /\ Spend("choose")
        /\ jobs' = [jobs EXCEPT ![j].items[g] = Chosen(it, src, n), ![j].st = "running"]
        /\ active' = j /\ cancelling' = FALSE
        /\ Save(j)
        /\ UNCHANGED <<worker, stored>>
Search(j, g) == \E some \in BOOLEAN :
    LET it == jobs[j].items[g]
    IN  /\ jobs[j].st # "none" /\ Spend("search")
        /\ jobs' = [jobs EXCEPT ![j].items[g] =
                     [it EXCEPT !.cands = some, !.st = IF some THEN "ambiguous" ELSE "unmatched",
                                !.from = IF it.from # None THEN it.from ELSE jobs[j].chain[1]]]
        /\ UNCHANGED <<active, cancelling, worker, stored, disk>>

LatestRunning ==
    LET running == {j \in Jobs : disk[j].st = "running"}
    IN  IF running = {} THEN None ELSE CHOOSE j \in running : \A i \in running : i <= j
\* The server dies, and the next one reads the job files: the latest running job goes on.
Crash ==
    /\ Spend("crash")
    /\ jobs' = disk /\ active' = LatestRunning /\ cancelling' = FALSE
    /\ worker' = [w \in Workers |-> Idle]
    /\ UNCHANGED <<stored, disk>>

PageStep ==
    \/ \E j \in Jobs : Cancel(j) \/ Resume(j) \/ \E r \in budget.requests : Start(j, r)
    \/ \E j \in Jobs : \E g \in GamesOf(j) : Skip(j, g) \/ Choose(j, g) \/ Search(j, g)

Next == PageStep \/ Crash \/ \E w \in Workers : WorkerStep(w)

\* Every wait of a worker ends: a download stalls out, a call is tried four times.
Fairness == \A w \in Workers : WF_vars(WorkerStep(w))
Spec == Init /\ [][Next]_vars /\ Fairness

(*------------------------------ properties -------------------------------*)

\* A game is in one worker's hands at most, whatever its state shows: the worker whose
\* number it carries is at work on it, and no other is (Item.holder).
HeldByOne ==
    /\ \A w \in Workers : worker[w].pc # "idle" => ItemOf(w).holder = w
    /\ \A j \in Jobs : \A g \in GamesOf(j) : LET w == jobs[j].items[g].holder IN
          w # None => worker[w].job = j /\ worker[w].game = g

\* A job that says it is done has nothing left to do: no game waits, none is in hand, and
\* no worker is still to write into it.
DoneIsSettled == \A j \in Jobs : jobs[j].st = "done" =>
    \A g \in GamesOf(j) : jobs[j].items[g].st \in Final /\ jobs[j].items[g].holder = None

\* No game is left "working" with nobody at it: not by a cancel, a resume, nor a restart
\* of the server (cancel and save_job put it back).
NoneForgotten == \A j \in Jobs : \A g \in GamesOf(j) :
    jobs[j].items[g].st = "working" => jobs[j].items[g].holder # None

\* The file of a job always tells its state and its pass, though saves are held back: a
\* restart never revives a job the user stopped, nor goes back to a source's pass.
FileTellsState == \A j \in Jobs : disk[j].st = jobs[j].st /\ disk[j].pass = jobs[j].pass

\* The funnel never fetches again what this job already found for a game, replacing or
\* not, after a pause, a cancel or a choice of the user.
AskedOnce == \A w \in Workers :
    worker[w].pc \in {"ask", "fetch"} /\ Funnel(w) => worker[w].todo \cap ItemOf(w).got = {}

\* A running job's workers bring it to an end, or to a pause, unless it is stopped.
JobEnds == \A j \in Jobs :
    (active = j /\ Running(j)) ~> ~(active = j /\ Running(j))

\* A game is in one worker's hands or in none, whatever its state shows; none is left working
\* with nobody at it, and none is asked again for what the job already found.
GamesAreHeld == TypeOK /\ HeldByOne /\ NoneForgotten /\ AskedOnce

\* What a job says of itself is so: done when nothing is left, and the same in its file.
JobIsTold == DoneIsSettled /\ FileTellsState

\* "A game no source could tell waits for the user with the first source's choices."
WaitsWithChoices == \A j \in Jobs : \A g \in GamesOf(j) : LET it == jobs[j].items[g] IN
    it.st = "ambiguous" /\ it.holder = None => it.cands
=============================================================================
