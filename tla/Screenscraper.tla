----------------------------- MODULE Screenscraper -----------------------------
(* src/src/scraper.cpp: the source that has an account, a quota and a limit of      *)
(* games asked about at once.  Workers ask ScreenScraper about games and fetch  *)
(* their media, while the user signs in and out, the job is cancelled, paused   *)
(* by the service and resumed, and the server dies.                             *)
EXTENDS Naturals, FiniteSets

CONSTANTS
    Workers, Games, Kinds,
    Accounts,   \* the users' accounts
    Threads,    \* Threads[a]: the games account a may ask about at once (maxthreads)
    Attempts,   \* tries of a call or a download that is refused for the moment
    Scenarios,  \* knows: what the service knows of each game: "file" (it by its file), "title" (it by
                \* its title), "similar" (only others), "unknown"; serves: the media it has; stored:
                \* those of the library; user: who is signed in; and how often each may happen: sign
                \* (in or out), cancel, crash, fault (an answer other than the plain one)
    Nobody

ScreenscraperAssumption ==
    /\ Threads \in [Accounts -> Nat \ {0}] /\ Attempts \in Nat \ {0} /\ Nobody \notin Accounts
    /\ Games \subseteq Nat \ {0}
    /\ \A s \in Scenarios : s.knows \in [Games -> {"file", "title", "similar", "unknown"}]

VARIABLES
    account,   \* the account's file: [user, of]; of is whose quota and limit it has
    signed,    \* the last of the sign-ins and sign-outs that succeeded left one signed in
    limit,     \* screenscraper_threads
    limitOf,   \* whose it is
    busy,      \* screenscraper_busy
    running,   \* the job runs
    cancelling,
    task,      \* worker -> [at, game, call, by, tries, need, misses, matched, verdict]
    item,      \* game -> its place in the job: its state, whether its name at the service is known,
               \* and whether a source was asked about it
    met,       \* game -> how the last answer about it went
    media,     \* the library: game and kind -> "none", "whole", "cut"
    scenario   \* what is left of it

shared == <<account, signed, limit, limitOf, busy, running, cancelling>>
games  == <<item, met, media>>
vars == <<shared, task, games, scenario>>

Idle == [at |-> "idle", game |-> 0, call |-> "file", by |-> Nobody, tries |-> 0, need |-> {},
         misses |-> FALSE, matched |-> FALSE, verdict |-> "pending"]
Item0 == [st |-> "pending", matched |-> FALSE, started |-> FALSE]
Final == {"done", "partial", "skipped", "ambiguous", "unmatched", "failed"}
Steps == {"idle", "slot", "begin", "ask", "answer", "media", "open", "fetch", "pause", "finish", "release",
          "leave"}

TypeOK ==
    /\ account.user \in Accounts \cup {Nobody} /\ account.of \in Accounts \cup {Nobody}
    /\ signed \in BOOLEAN /\ limit \in Nat \ {0} /\ busy \in 0 .. Cardinality(Workers)
    /\ \A w \in Workers : task[w].at \in Steps /\ task[w].tries \in 0 .. Attempts /\ task[w].need \subseteq Kinds
    /\ item \in [Games -> [st : {"pending", "working"} \cup Final, matched : BOOLEAN, started : BOOLEAN]]
    /\ media \in [Games \X Kinds -> {"none", "whole", "cut"}]

\* The limit with an account's file: its maxthreads, else the limit stays.
Allowed(a, now) == IF a # Nobody THEN Threads[a] ELSE now

Init ==
    /\ scenario \in Scenarios
    /\ account = [user |-> scenario.user, of |-> scenario.user] /\ signed = (scenario.user # Nobody)
    /\ limit = Allowed(scenario.user, 1) /\ limitOf = scenario.user /\ busy = 0
    /\ running = TRUE /\ cancelling = FALSE /\ task = [w \in Workers |-> Idle]
    /\ item = [g \in Games |-> Item0] /\ met = [g \in Games |-> "nothing"]
    /\ media = [m \in Games \X Kinds |-> IF m \in scenario.stored THEN "whole" ELSE "none"]

At(w, step) == task[w].at = step
Goto(w, step) == task' = [task EXCEPT ![w].at = step]
Ends(w, verdict) == task' = [task EXCEPT ![w].at = "finish", ![w].verdict = verdict]
Spend(what) == scenario[what] > 0 /\ scenario' = [scenario EXCEPT ![what] = @ - 1]

--------------------------------------------------------------------------------
(* The account: sign_in, sign_out, note_quota. *)

\* The service was asked first; the file may not be saved, the limit is set all the same.
SignIn(a) ==
    /\ Spend("sign") /\ limit' = Allowed(a, limit) /\ limitOf' = a
    /\ \/ account' = [user |-> a, of |-> a] /\ signed' = TRUE
       \/ UNCHANGED <<account, signed>>
    /\ UNCHANGED <<busy, running, cancelling, task, games>>
SignOut ==
    /\ Spend("sign") /\ account' = [user |-> Nobody, of |-> Nobody] /\ signed' = FALSE
    /\ UNCHANGED <<limit, limitOf, busy, running, cancelling, task, games>>

\* An answer to account a carries its quota and limit, which join the file of whoever is signed in;
\* the file may not be saved, the limit is set all the same.
NoteQuotaAsked(a) ==  \* mutant: the file as it was when the service was asked
    IF a # Nobody
    THEN limit' = Allowed(a, limit) /\ limitOf' = a /\ account' = [user |-> a, of |-> a]
    ELSE UNCHANGED <<limit, limitOf, account>>
NoteQuota(a) ==
    IF a # Nobody /\ account.user # Nobody
    THEN /\ limit' = Allowed(a, limit) /\ limitOf' = a
         /\ account' \in {account, [account EXCEPT !.of = a]}
    ELSE UNCHANGED <<limit, limitOf, account>>

--------------------------------------------------------------------------------
(* A worker and its game: the slot, then process_screenscraper. *)

\* The first game that waits and that no worker holds.
Free(g) == item[g].st = "pending" /\ \A v \in Workers : task[v].game # g
Take(w, g) ==
    /\ At(w, "idle") /\ running /\ ~cancelling /\ Free(g) /\ \A h \in Games : h < g => ~Free(h)
    /\ item' = [item EXCEPT ![g].st = "working"]
    /\ task' = [task EXCEPT ![w] = [Idle EXCEPT !.at = "slot", !.game = g]]
    /\ met' = [met EXCEPT ![g] = "nothing"]
    /\ UNCHANGED <<shared, media, scenario>>

Max1(n) == IF n < 1 THEN 1 ELSE n
FreeSlotMore == busy <= Max1(limit)  \* mutant
FreeSlot == busy < Max1(limit)
Slot(w) ==
    /\ At(w, "slot") /\ FreeSlot /\ busy' = busy + 1 /\ Goto(w, "begin")
    /\ UNCHANGED <<account, signed, limit, limitOf, running, cancelling, games, scenario>>

\* Stopped while it waited for its turn: nothing is asked.  A game whose name at the service is known
\* is asked for by it.
Stopped == cancelling \/ ~running
Needed(g) == {k \in Kinds : media[<<g, k>>] = "none"}
Begin(w) ==
    LET g == task[w].game IN
    /\ At(w, "begin")
    /\ \/ Stopped /\ item' = [item EXCEPT ![g].st = "pending"] /\ Goto(w, "release")
       \/ /\ ~Stopped /\ Needed(g) = {} /\ UNCHANGED item
          /\ Ends(w, IF item[g].started THEN "done" ELSE "skipped")
       \/ /\ ~Stopped /\ Needed(g) # {} /\ item' = [item EXCEPT ![g].started = TRUE]
          /\ task' = [task EXCEPT ![w].at = "ask", ![w].need = Needed(g), ![w].matched = item[g].matched,
                                  ![w].call = IF item[g].matched THEN "title" ELSE "file"]
    /\ UNCHANGED <<shared, met, media, scenario>>

AfterFailureUnmatched(w) == Ends(w, IF task[w].call = "search" THEN "unmatched" ELSE "failed")  \* mutant
AfterFailure(w) == Ends(w, "failed")
\* The address holds the account there is when it is written; a cancelled job's is not asked for.
Ask(w) ==
    /\ At(w, "ask")
    /\ IF cancelling THEN AfterFailure(w)
       ELSE task' = [task EXCEPT ![w].at = "answer", ![w].by = account.user]
    /\ UNCHANGED <<shared, games, scenario>>

\* What the service says of the game, to each call.
Has(w) ==
    LET known == scenario.knows[task[w].game] IN
    CASE task[w].call = "file"   -> known = "file"
      [] task[w].call = "search" -> known \in {"title", "similar"}
      [] OTHER                   -> TRUE

Meets(w, what) == met' = [met EXCEPT ![task[w].game] = what]

\* 1: the game's media, or the titles found, one of which may be this game's.
Answered(w) ==
    /\ At(w, "answer") /\ Has(w) /\ NoteQuota(task[w].by) /\ Meets(w, "found")
    /\ IF task[w].call # "search" THEN task' = [task EXCEPT ![w].at = "media", ![w].matched = TRUE]
       ELSE IF scenario.knows[task[w].game] = "title"
       THEN task' = [task EXCEPT ![w].at = "ask", ![w].call = "title", ![w].tries = 0]
       ELSE Ends(w, "ambiguous")
    /\ UNCHANGED <<signed, busy, running, cancelling, item, media, scenario>>

\* 0: a game that is not known by its file is searched for.
NotFound(w) ==
    /\ At(w, "answer") /\ ~Has(w) /\ Meets(w, "missing")
    /\ IF task[w].call = "file"
       THEN task' = [task EXCEPT ![w].at = "ask", ![w].call = "search", ![w].tries = 0]
       ELSE Ends(w, "unmatched")
    /\ UNCHANGED <<shared, item, media, scenario>>

\* -1: this game failed.  A call that is refused for the moment is tried again, unless the job was
\* cancelled meanwhile, which cuts the call too.
CutOrFault == IF cancelling THEN UNCHANGED scenario ELSE Spend("fault")
Fails(w) ==
    /\ At(w, "answer") /\ Spend("fault") /\ Meets(w, "failure") /\ AfterFailure(w)
    /\ UNCHANGED <<shared, item, media>>
TriesAgain(w) ==
    /\ At(w, "answer") /\ CutOrFault /\ Meets(w, "failure")
    /\ IF task[w].tries + 1 < Attempts /\ ~cancelling
       THEN task' = [task EXCEPT ![w].tries = @ + 1]
       ELSE AfterFailure(w)
    /\ UNCHANGED <<shared, item, media>>

\* -2: a quota, a closed API: the job pauses and the game waits for it.
WaitsNot == "failed"  \* mutant
Waits == "pending"
Closed(w) ==
    /\ At(w, "answer") /\ Spend("fault") /\ Meets(w, "closed")
    /\ task' = [task EXCEPT ![w].at = "pause", ![w].verdict = Waits]
    /\ UNCHANGED <<shared, item, media>>
PauseJob(w) ==
    /\ At(w, "pause") /\ running' = FALSE /\ Goto(w, "finish")
    /\ UNCHANGED <<account, signed, limit, limitOf, busy, cancelling, games, scenario>>

--------------------------------------------------------------------------------
(* Its media, one kind after the other (download). *)

NextKind(w) == CHOOSE k \in task[w].need : TRUE
Media(w) ==
    LET g == task[w].game k == NextKind(w) IN
    /\ At(w, "media")
    /\ IF task[w].need = {}
       THEN Ends(w, IF cancelling THEN "pending" ELSE IF task[w].misses THEN "partial" ELSE "done")
       ELSE IF <<g, k>> \in scenario.serves
       THEN task' = [task EXCEPT ![w].at = "open", ![w].tries = 0]
       ELSE task' = [task EXCEPT ![w].need = @ \ {k}, ![w].misses = TRUE]
    /\ UNCHANGED <<shared, games, scenario>>

\* A new partial file, of its own name; when there can be none, after the last try, or once cancelled,
\* the game fails.
Open(w) ==
    /\ At(w, "open")
    /\ IF task[w].tries < Attempts /\ ~cancelling THEN Goto(w, "fetch") ELSE AfterFailure(w)
    /\ UNCHANGED <<shared, games, scenario>>
OpenFails(w) ==
    /\ At(w, "open") /\ Spend("fault") /\ Meets(w, "failure") /\ AfterFailure(w)
    /\ UNCHANGED <<shared, item, media>>

\* What came: all of it, a part (a cut line, a full disk, a file too large, a cancelled transfer), or
\* only a status.
CompleteCut(came) == came \in {"whole", "cut"}  \* mutant
Complete(came) == came = "whole"
Next1(w) == [task[w] EXCEPT !.at = "media", !.need = @ \ {NextKind(w)}]
Fetched(w, came) ==
    LET g == task[w].game k == NextKind(w) IN
    /\ At(w, "fetch")
    /\ CASE came = "whole" -> UNCHANGED scenario [] came = "cut" -> CutOrFault [] OTHER -> Spend("fault")
    /\ media' = IF Complete(came) THEN [media EXCEPT ![<<g, k>>] = came] ELSE media
    /\ IF Complete(came) THEN task' = [task EXCEPT ![w] = Next1(w)] /\ UNCHANGED met
       ELSE IF came = "missing" THEN task' = [task EXCEPT ![w] = [Next1(w) EXCEPT !.misses = TRUE]] /\ UNCHANGED met
       ELSE /\ Meets(w, "failure")
            /\ task' = [task EXCEPT ![w] = IF came = "refused"
                    THEN [@ EXCEPT !.at = "finish", !.verdict = "failed"]
                    ELSE [@ EXCEPT !.at = "open", !.tries = @ + 1]]
    /\ UNCHANGED <<shared, item>>

\* finish, then the slot is free, then the worker lets go of the game.
Finish(w) ==
    /\ At(w, "finish") /\ Goto(w, "release")
    /\ item' = [item EXCEPT ![task[w].game].st = task[w].verdict,
                            ![task[w].game].matched = @ \/ task[w].matched]
    /\ UNCHANGED <<shared, met, media, scenario>>
FreedNot == busy  \* mutant
Freed == busy - 1
Release(w) ==
    /\ At(w, "release") /\ busy' = Freed /\ Goto(w, "leave")
    /\ UNCHANGED <<account, signed, limit, limitOf, running, cancelling, games, scenario>>
Leave(w) ==
    /\ At(w, "leave") /\ task' = [task EXCEPT ![w] = Idle]
    /\ UNCHANGED <<shared, games, scenario>>

--------------------------------------------------------------------------------
(* The job, and the server. *)

Cancel ==
    /\ running /\ Spend("cancel") /\ running' = FALSE /\ cancelling' = TRUE
    /\ item' = [g \in Games |-> IF item[g].st = "working" THEN [item[g] EXCEPT !.st = "pending"] ELSE item[g]]
    /\ UNCHANGED <<account, signed, limit, limitOf, busy, task, met, media>>

\* What no worker holds starts again, the failed games too.
Resume ==
    /\ ~running /\ running' = TRUE /\ cancelling' = FALSE
    /\ item' = [g \in Games |-> IF item[g].st \in {"working", "failed"} /\ \A w \in Workers : task[w].game # g
                                THEN [item[g] EXCEPT !.st = "pending"] ELSE item[g]]
    /\ UNCHANGED <<account, signed, limit, limitOf, busy, task, met, media, scenario>>

\* The server starts again: the job's file holds some games as they are and the others as they were
\* before they were taken up (a worker's own is to be asked about again), and the limit is read from
\* the account's file.
Crash ==
    /\ Spend("crash") /\ busy' = 0 /\ cancelling' = FALSE /\ task' = [w \in Workers |-> Idle]
    /\ limit' = Allowed(account.of, 1) /\ limitOf' = account.of
    /\ \E kept \in SUBSET Games :
        item' = [g \in Games |-> IF g \notin kept THEN [Item0 EXCEPT !.started = item[g].started]
                                ELSE IF item[g].st = "working" THEN [item[g] EXCEPT !.st = "pending"]
                                ELSE item[g]]
    /\ UNCHANGED <<account, signed, running, met, media>>

Works(w) ==
    \/ Slot(w) \/ Begin(w) \/ Ask(w) \/ Answered(w) \/ NotFound(w) \/ PauseJob(w)
    \/ Media(w) \/ Open(w) \/ Fetched(w, "whole") \/ Finish(w) \/ Release(w) \/ Leave(w)
Hinders(w) ==
    \/ Fails(w) \/ TriesAgain(w) \/ Closed(w) \/ OpenFails(w)
    \/ \E came \in {"cut", "missing", "refused", "nothing"} : Fetched(w, came)
Next ==
    \/ \E w \in Workers : Works(w) \/ Hinders(w) \/ \E g \in Games : Take(w, g)
    \/ \E a \in Accounts : SignIn(a)
    \/ SignOut \/ Cancel \/ Resume \/ Crash
\* The workers go on, and the user resumes a job that stopped.
Working == \E w \in Workers : Works(w) \/ \E g \in Games : Take(w, g)
Fairness == (\A w \in Workers : WF_vars(Works(w))) /\ WF_vars(Working) /\ WF_vars(Resume)
Spec == Init /\ [][Next]_vars /\ Fairness

--------------------------------------------------------------------------------
\* busy counts the games that hold a slot, whatever is cancelled or started again meanwhile.
Holding == {w \in Workers : task[w].at \notin {"idle", "slot", "leave"}}
SlotsCounted == busy = Cardinality(Holding)

\* While an account is signed in no game is given a slot over what that account may have asked about
\* at once, though it was signed in with more under way; but where the last numbers to come are
\* another account's (a late answer's, or of a sign-in that was not saved).  It is of a step.
SlotsKept ==
    LET user == account.user IN
    user # Nobody /\ limitOf = user /\ Cardinality(Holding') > Cardinality(Holding)
        => Cardinality(Holding') <= Threads[user]

\* A game's state is what the service said of it: a game is not called unmatched, nor ambiguous, on a
\* call that failed, nor failed on one that must wait; a game that is done has all its media.
GameIsTold ==
    \A g \in Games :
        /\ item[g].st = "unmatched" => met[g] = "missing"
        /\ item[g].st = "ambiguous" => scenario.knows[g] = "similar"
        /\ item[g].st = "failed" => met[g] # "closed"
        /\ item[g].st \in {"done", "skipped"} => \A k \in Kinds : media[<<g, k>>] # "none"

\* The library holds whole files only, whatever is cut, refused, cancelled or killed (download).
OnlyWholeMedia == \A m \in Games \X Kinds : media[m] # "cut"

\* An answer that comes after a sign-out brings no account back (note_quota).
SignedOutStays == (account.user # Nobody) = signed

\* Every game is settled once the job is resumed as often as it stops.
AllSettled == \A g \in Games : item[g].st \in Final
GamesSettle == <>[]AllSettled

\* The limit and the quota that are kept are those of the account that is signed in.
QuotaIsTheirs == account.of = account.user
==============================================================================
