------------------------------- MODULE Upload -------------------------------
(***************************************************************************)
(* Large uploads (src/webui_transfer.cpp, and their routes in              *)
(* src/webui_ps5.cpp): a session is opened, the page's lanes send its      *)
(* parts, each written into the session's temporary file by the thread of  *)
(* its connection, and a commit renames the file once its parts cover it.  *)
(* A session may be cancelled, or expire, meanwhile.                       *)
(*                                                                         *)
(* An upload stands for its session, its temporary file and its client     *)
(* (webui/app.js, runLarge).  The file descriptors are the process's: a    *)
(* closed one's number is given to the next file opened.                   *)
(***************************************************************************)
EXTENDS Integers, FiniteSets

CONSTANTS
    Uploads, Parts,
    Requests,         \* bound: the requests the server works on at once
    Fds,              \* descriptor numbers
    Target,           \* the name each upload is sent to
    Replace,          \* the uploads that may replace a file of that name
    Limit,            \* Sessions::limit
    Tries,            \* PART_TRIES
    LostConnections,  \* may a connection break, its request still being served
    None

ASSUME UploadAssumption ==
    /\ IsFiniteSet(Uploads) /\ IsFiniteSet(Requests) /\ IsFiniteSet(Parts)
    /\ Fds \subseteq Nat /\ Cardinality(Fds) >= Cardinality(Uploads)
    /\ Replace \subseteq Uploads
    /\ Limit \in Nat /\ Tries \in Nat
    /\ LostConnections \in BOOLEAN
    /\ None \notin Uploads \cup Parts \cup Fds

VARIABLES
    sessions,                       \* Sessions::sessions_
    fd, closing, writers, covered,  \* of each Session
    openFile,                       \* the file each descriptor is open on
    content,                        \* whose bytes each part of a file holds
    temporary,                      \* the temporary files that exist
    folder,                         \* the file at each name
    req,                            \* what each request does next
    client, left, tries             \* the page: its state, parts to send, attempts

server == <<sessions, fd, closing, writers, covered, openFile, content,
            temporary, folder>>
page   == <<client, left, tries>>
vars   == <<server, req, page>>

Names == {Target[u] : u \in Uploads}

Idle == [at |-> "idle", u |-> None, p |-> None, fd |-> None, stale |-> {},
         heard |-> FALSE]
New(at, u, p) == [at |-> at, u |-> u, p |-> p, fd |-> None, stale |-> {},
                  heard |-> TRUE]

PartSteps   == {"part:find", "part:attach", "part:write", "part:finish", "part:free"}
CommitSteps == {"commit:find", "commit:check", "commit:take", "commit:rename",
                "commit:close", "commit:forget"}
Steps == {"idle", "expire", "discard", "open", "cancel"} \cup PartSteps \cup CommitSteps

TypeOK ==
    /\ sessions \in SUBSET Uploads
    /\ fd \in [Uploads -> Fds \cup {None}]
    /\ closing \in [Uploads -> BOOLEAN]
    /\ writers \in [Uploads -> Nat]
    /\ covered \in [Uploads -> SUBSET Parts]
    /\ openFile \in [Fds -> Uploads \cup {None}]
    /\ content \in [Uploads -> [Parts -> Uploads \cup {None}]]
    /\ temporary \in SUBSET Uploads
    /\ folder \in [Names -> Uploads \cup {None}]
    /\ req \in [Requests -> [at : Steps, u : Uploads \cup {None},
                             p : Parts \cup {None}, fd : Fds \cup {None},
                             stale : SUBSET Uploads, heard : BOOLEAN]]
    /\ client \in [Uploads -> {"new", "opening", "sending", "committing",
                               "complete", "failed"}]
    /\ left \in [Uploads -> SUBSET Parts]
    /\ tries \in [Uploads -> [Parts -> 0..Tries]]

Init ==
    /\ sessions = {} /\ temporary = {}
    /\ fd = [u \in Uploads |-> None]
    /\ closing = [u \in Uploads |-> FALSE]
    /\ writers = [u \in Uploads |-> 0]
    /\ covered = [u \in Uploads |-> {}]
    /\ openFile = [n \in Fds |-> None]
    /\ content = [u \in Uploads |-> [p \in Parts |-> None]]
    /\ folder = [n \in Names |-> None]
    /\ req = [r \in Requests |-> Idle]
    /\ client = [u \in Uploads |-> "new"]
    /\ left = [u \in Uploads |-> Parts]
    /\ tries = [u \in Uploads |-> [p \in Parts |-> 0]]

-----------------------------------------------------------------------------
(* What the page makes of an answer, if it still waits for one.            *)

Fails(u)  == client' = [client EXCEPT ![u] = IF @ \in {"complete"} THEN @ ELSE "failed"]

\* A request ends (its lane is free) or goes on to step `at`.
EndsNever(r) == UNCHANGED req           \* mutant: no answer is queued
Ends(r)     == req' = [req EXCEPT ![r] = Idle]
Goes(r, at) == req' = [req EXCEPT ![r].at = at]
Waiting(r)  == req[r].heard /\ client[req[r].u] \notin {"complete", "failed"}

\* The page sends the part again, PART_TRIES times at most; 404 is final.
PartRefused(r, final) ==
    /\ IF Waiting(r) /\ (final \/ tries[req[r].u][req[r].p] >= Tries)
       THEN Fails(req[r].u) ELSE UNCHANGED client
    /\ UNCHANGED <<left, tries>>

Answer(r, state) ==
    /\ client' = IF Waiting(r) THEN [client EXCEPT ![req[r].u] = state] ELSE client
    /\ UNCHANGED <<left, tries>>

-----------------------------------------------------------------------------
(* The page's requests, as lanes are free.                                 *)

SendOpen(r, u) ==
    /\ req[r] = Idle /\ client[u] = "new"
    /\ req' = [req EXCEPT ![r] = New("expire", u, None)]
    /\ client' = [client EXCEPT ![u] = "opening"]
    /\ UNCHANGED <<server, left, tries>>

\* A part is on one lane at a time, unless its connection was lost.
SendPart(r, u, p) ==
    /\ req[r] = Idle /\ client[u] = "sending"
    /\ p \in left[u] /\ tries[u][p] < Tries
    /\ \A q \in Requests : ~(req[q].u = u /\ req[q].p = p /\ req[q].heard)
    /\ req' = [req EXCEPT ![r] = New("part:find", u, p)]
    /\ tries' = [tries EXCEPT ![u][p] = @ + 1]
    /\ UNCHANGED <<server, client, left>>

\* The part that completes the file commits it.  Another client of these
\* routes may commit early, with no part of it on its way.
SendCommit(r, u) ==
    /\ req[r] = Idle /\ client[u] = "sending"
    /\ left[u] = {} \/ \A q \in Requests : req[q].u # u
    /\ req' = [req EXCEPT ![r] = New("commit:find", u, None)]
    /\ client' = [client EXCEPT ![u] = "committing"]
    /\ UNCHANGED <<server, left, tries>>

\* The user cancels: the page stops waiting for what it sent.
Cancel(u) ==
    /\ client[u] \in {"sending", "committing"}
    /\ Fails(u)
    /\ req' = [r \in Requests |-> IF req[r].u = u THEN [req[r] EXCEPT !.heard = FALSE]
                                  ELSE req[r]]
    /\ UNCHANGED <<server, left, tries>>

\* abandon() and cancelTransfer() delete the session, waiting for no answer.
SendDelete(r, u) ==
    /\ req[r] = Idle /\ client[u] = "failed" /\ u \in sessions
    /\ req' = [req EXCEPT ![r] = [New("cancel", u, None) EXCEPT !.heard = FALSE]]
    /\ UNCHANGED <<server, page>>

\* The connection of a request breaks; the page may send its part again.
Lose(r) ==
    /\ LostConnections /\ req[r].heard
    /\ req' = [req EXCEPT ![r].heard = FALSE]
    /\ IF req[r].at \in PartSteps
       THEN PartRefused(r, FALSE)
       ELSE Answer(r, "failed")
    /\ UNCHANGED server

Page == \/ \E r \in Requests, u \in Uploads :
              \/ SendOpen(r, u) \/ SendCommit(r, u) \/ SendDelete(r, u)
              \/ \E p \in Parts : SendPart(r, u, p)
        \/ \E u \in Uploads : Cancel(u)
        \/ \E r \in Requests : Lose(r)

-----------------------------------------------------------------------------
(* POST /api/upload/session                                                *)

\* Sessions::expire(): the sessions nobody writes and nobody touched lately
\* leave the map; each is discarded after it.
Expire(r) ==
    /\ req[r].at = "expire"
    /\ \E idle \in SUBSET {u \in sessions : writers[u] = 0} :
        /\ sessions' = sessions \ idle
        /\ req' = [req EXCEPT ![r].at = "discard", ![r].stale = idle]
    /\ UNCHANGED <<fd, closing, writers, covered, openFile, content, temporary,
                   folder, page>>

CloseUnderWriters(u) == fd[u] # None           \* mutant
CloseNow(u) == writers[u] = 0 /\ fd[u] # None

\* discard(): the last writer closes the file, if there is one.
DiscardOf(u) ==
    /\ closing' = [closing EXCEPT ![u] = TRUE]
    /\ temporary' = temporary \ {u}
    /\ IF CloseNow(u)
       THEN /\ openFile' = [openFile EXCEPT ![fd[u]] = None]
            /\ fd' = [fd EXCEPT ![u] = None]
       ELSE UNCHANGED <<openFile, fd>>

DiscardStale(r) ==
    /\ req[r].at = "discard"
    /\ IF req[r].stale = {}
       THEN Goes(r, "open") /\ UNCHANGED <<closing, temporary, openFile, fd>>
       ELSE \E u \in req[r].stale :
                DiscardOf(u) /\ req' = [req EXCEPT ![r].stale = @ \ {u}]
    /\ UNCHANGED <<sessions, writers, covered, content, folder, page>>

LowestFree == CHOOSE n \in Fds : /\ openFile[n] = None
                                 /\ \A k \in Fds : openFile[k] = None => n <= k

NameFreeAlways(u) == TRUE                      \* mutant
NameFree(u) == folder[Target[u]] = None \/ u \in Replace

\* The name may be taken, the sessions too many, or the storage full.
Open(r) ==
    LET u == req[r].u IN
    /\ req[r].at = "open"
    /\ Ends(r)
    /\ \/ /\ NameFree(u)
          /\ Cardinality(sessions) < Limit
          /\ sessions' = sessions \cup {u}
          /\ temporary' = temporary \cup {u}
          /\ fd' = [fd EXCEPT ![u] = LowestFree]
          /\ openFile' = [openFile EXCEPT ![LowestFree] = u]
          /\ Answer(r, "sending")
       \/ Answer(r, "failed") /\ UNCHANGED <<sessions, temporary, fd, openFile>>
    /\ UNCHANGED <<closing, writers, covered, content, folder>>

-----------------------------------------------------------------------------
(* PUT /api/upload/part                                                    *)

PartFind(r) ==
    /\ req[r].at = "part:find"
    /\ IF req[r].u \in sessions THEN Goes(r, "part:attach") /\ UNCHANGED page
       ELSE Ends(r) /\ PartRefused(r, TRUE)
    /\ UNCHANGED server

\* Under the session's lock.
PartAttach(r) ==
    LET u == req[r].u IN
    /\ req[r].at = "part:attach"
    /\ IF closing[u] \/ fd[u] = None
       THEN Ends(r) /\ PartRefused(r, FALSE) /\ UNCHANGED writers
       ELSE /\ writers' = [writers EXCEPT ![u] = @ + 1]
            /\ req' = [req EXCEPT ![r].at = "part:write", ![r].fd = fd[u]]
            /\ UNCHANGED page
    /\ UNCHANGED <<sessions, fd, closing, covered, openFile, content, temporary, folder>>

\* Writer::write() and flush(): into whatever the descriptor is open on.
PartWrite(r) ==
    LET f == openFile[req[r].fd] IN
    /\ req[r].at = "part:write"
    /\ \/ /\ f # None
          /\ content' = [content EXCEPT ![f][req[r].p] = req[r].u]
          /\ Goes(r, "part:finish") /\ UNCHANGED page
       \/ /\ UNCHANGED content                    \* or the write fails
          /\ PartRefused(r, FALSE)
          /\ req' = [req EXCEPT ![r].at = "part:free", ![r].heard = FALSE]
    /\ UNCHANGED <<sessions, fd, closing, writers, covered, openFile, temporary, folder>>

LeaveUncounted(u) == UNCHANGED <<writers, openFile, fd>>     \* mutant
LeaveTwice(u) == /\ writers' = [writers EXCEPT ![u] = @ - 2] \* mutant
                 /\ UNCHANGED <<openFile, fd>>
LeaveOpen(u) == /\ writers' = [writers EXCEPT ![u] = @ - 1]  \* mutant
                /\ UNCHANGED <<openFile, fd>>

\* A writer leaves, under the session's lock; the last of a closing one closes it.
Leave(u) ==
    /\ writers' = [writers EXCEPT ![u] = @ - 1]
    /\ IF writers[u] = 1 /\ closing[u] /\ fd[u] # None
       THEN /\ openFile' = [openFile EXCEPT ![fd[u]] = None]
            /\ fd' = [fd EXCEPT ![u] = None]
       ELSE UNCHANGED <<openFile, fd>>

PartFinish(r) ==
    LET u == req[r].u IN
    /\ req[r].at = "part:finish"
    /\ covered' = [covered EXCEPT ![u] = @ \cup {req[r].p}]
    /\ Leave(u)
    /\ Ends(r)
    /\ left' = IF Waiting(r) THEN [left EXCEPT ![u] = @ \ {req[r].p}] ELSE left
    /\ UNCHANGED <<sessions, closing, content, temporary, folder, client, tries>>

\* ~Request(), after a refusal was answered or the connection closed.
PartFree(r) ==
    /\ req[r].at = "part:free"
    /\ Leave(req[r].u)
    /\ Ends(r)
    /\ UNCHANGED <<sessions, closing, covered, content, temporary, folder, page>>

-----------------------------------------------------------------------------
(* POST /api/upload/commit                                                 *)

CommitFind(r) ==
    /\ req[r].at = "commit:find"
    /\ IF req[r].u \in sessions THEN Goes(r, "commit:check") /\ UNCHANGED page
       ELSE Ends(r) /\ Answer(r, "failed")
    /\ UNCHANGED server

MayCommitUncovered(u) == writers[u] = 0     \* mutant
MayCommit(u) == writers[u] = 0 /\ covered[u] = Parts

\* Under the session's lock, which is then released.
CommitCheck(r) ==
    /\ req[r].at = "commit:check"
    /\ IF MayCommit(req[r].u) THEN Goes(r, "commit:take") /\ UNCHANGED page
       ELSE Ends(r) /\ Answer(r, "failed")
    /\ UNCHANGED server

CommitTake(r) ==
    LET u == req[r].u IN
    /\ req[r].at = "commit:take"
    /\ sessions' = sessions \ {u}
    /\ IF u \in sessions THEN Goes(r, "commit:rename") /\ UNCHANGED page
       ELSE Ends(r) /\ Answer(r, "failed")
    /\ UNCHANGED <<fd, closing, writers, covered, openFile, content, temporary, folder>>

\* commit(): the check for an existing file and the rename, under commit_lock.
CommitRename(r) ==
    LET u == req[r].u IN
    /\ req[r].at = "commit:rename"
    /\ \/ /\ NameFree(u)
          /\ folder' = [folder EXCEPT ![Target[u]] = u]
          /\ temporary' = temporary \ {u}
       \/ UNCHANGED <<folder, temporary>>        \* it exists, or a call failed
    /\ Goes(r, "commit:close")
    /\ UNCHANGED <<sessions, fd, closing, writers, covered, openFile, content, page>>

CommitClose(r) ==
    /\ req[r].at = "commit:close"
    /\ openFile' = [openFile EXCEPT ![fd[req[r].u]] = None]
    /\ Goes(r, "commit:forget")
    /\ UNCHANGED <<sessions, fd, closing, writers, covered, content, temporary,
                   folder, page>>

OutcomeBlind(u) == "complete"                  \* mutant
Outcome(u) == IF u \in temporary THEN "failed" ELSE "complete"

\* fd = -1; a commit that failed deletes its temporary file.
CommitForget(r) ==
    LET u == req[r].u IN
    /\ req[r].at = "commit:forget"
    /\ fd' = [fd EXCEPT ![u] = None]
    /\ temporary' = temporary \ {u}
    /\ Answer(r, Outcome(u))
    /\ Ends(r)
    /\ UNCHANGED <<sessions, closing, writers, covered, openFile, content, folder>>

-----------------------------------------------------------------------------
\* DELETE /api/upload/session: the session is the caller's, if it took it.
Delete(r) ==
    LET u == req[r].u IN
    /\ req[r].at = "cancel"
    /\ sessions' = sessions \ {u}
    /\ IF u \in sessions THEN DiscardOf(u)
       ELSE UNCHANGED <<closing, temporary, openFile, fd>>
    /\ Ends(r)
    /\ UNCHANGED <<writers, covered, content, folder, page>>

Serve(r) == \/ Expire(r) \/ DiscardStale(r) \/ Open(r)
            \/ PartFind(r) \/ PartAttach(r) \/ PartWrite(r) \/ PartFinish(r) \/ PartFree(r)
            \/ CommitFind(r) \/ CommitCheck(r) \/ CommitTake(r) \/ CommitRename(r)
            \/ CommitClose(r) \/ CommitForget(r) \/ Delete(r)

Next == Page \/ \E r \in Requests : Serve(r)

\* The server's threads run on.
Spec == Init /\ [][Next]_vars /\ \A r \in Requests : WF_vars(Serve(r))

-----------------------------------------------------------------------------
Attached(u) == {r \in Requests : req[r].u = u /\
                                 req[r].at \in {"part:write", "part:finish", "part:free"}}

\* No file ever holds bytes of another upload: a part is written through a
\* descriptor that is still its session's (prepare_part's attach against the
\* closes of discard() and of a commit).
OwnBytes == \A u \in Uploads, p \in Parts : content[u][p] \in {u, None}

\* While a part may write, its descriptor is open on its upload's file.
WriterHasItsFile == \A r \in Requests :
    req[r].at = "part:write" => openFile[req[r].fd] = req[r].u

\* "Every file is renamed into place on the console only once whole."
OnlyWholeFiles == \A u \in Uploads :
    (\E n \in Names : folder[n] = u) => \A p \in Parts : content[u][p] = u

\* Session::writers counts the requests attached, on every path out of one.
WritersCount == \A u \in Uploads : writers[u] = Cardinality(Attached(u))

\* A session that is over leaves neither an open descriptor nor its
\* temporary file, whoever ended it.
NothingLeft == \A u \in Uploads :
    (/\ u \notin sessions
     /\ \A r \in Requests : req[r].u # u /\ u \notin req[r].stale)
        => u \notin temporary /\ \A n \in Fds : openFile[n] # u

\* "two writers of the same name cannot both pass the existence check"
NeverOverwritten == [][\A n \in Names :
    folder[n] # None /\ folder'[n] # folder[n] => folder'[n] \in Replace]_folder

\* A file the page calls complete is there (or was replaced since).
CompleteIsThere == \A u \in Uploads :
    client[u] = "complete" => /\ folder[Target[u]] # None
                              /\ folder[Target[u]] = u \/ folder[Target[u]] \in Replace

\* A session that is over left neither a descriptor nor a temporary file, and
\* a file the page calls complete is there.
SessionsEnd == TypeOK /\ NothingLeft /\ CompleteIsThere

\* "a commit sent the moment this answer arrives must find no writer left":
\* the page commits once every part's answer came, and finds none.
CommitFindsNoWriter == \A r \in Requests :
    req[r].at = "commit:check" /\ Waiting(r) => writers[req[r].u] = 0

\* Every request is answered: none waits for another.
RequestsEnd == \A r \in Requests : req[r].at # "idle" ~> req[r].at = "idle"
=============================================================================
