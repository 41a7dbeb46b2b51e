------------------------------ MODULE GameStore ------------------------------
(***************************************************************************)
(* What the WebUI keeps of one game of its library: the backups that bear   *)
(* its name (copies: an ISO beside a CHD), their playlist entries, its      *)
(* details and the media of one kind (src/src/scraper.cpp, the library's    *)
(* routes of src/src/webui_ps5.cpp).  Requests of the page and a scrape run *)
(* beside each other: each is a record that goes through the steps of its   *)
(* handler.                                                                 *)
(***************************************************************************)
EXTENDS Naturals, FiniteSets

CONSTANTS
    Copies,     \* the backups with this name, each at its own path
    Discs,      \* the files an image at each of these paths names beside it
    Types,      \* the types of file a kind of media takes
    Requests,   \* the requests and scrapes in flight
    Plans,      \* what each of them asks, and the copies there are at the start
    None

GameStoreAssumption ==
    /\ None \notin Requests \cup Types /\ Discs \in [Copies -> SUBSET Copies]
    /\ \A p \in Plans : p.there \subseteq Copies /\ p.listable \in BOOLEAN

VARIABLES
    rom,        \* each copy's backup: none, the one there before, or of a request
    entry,      \* the copies RetroArch's playlists list
    label,      \* the name the playlists show: the file's, or one the user gave
    media,      \* each type's file: none, a source's or the user's
    meta,       \* the game's .meta file
    req,        \* the requests
    listable,   \* the library can list such a file
    mine,       \* the type of the user's media, once its upload is done and marked: until the
                \* user replaces or deletes it, or a scrape does that looked before the mark
    early       \* the scrapes that looked before the mark and have still to store

vars == <<rom, entry, label, media, meta, req, listable, mine, early>>
theirs == <<mine, early>>

NoMeta == [there |-> FALSE, edited |-> FALSE, uploaded |-> FALSE, name |-> "none"]

TypeOK ==
    /\ rom \in [Copies -> Requests \cup {"none", "before"}] /\ entry \subseteq Copies
    /\ label \in {"file", "user"} /\ media \in [Types -> {"none", "source", "user"}]
    /\ meta \in [there : BOOLEAN, edited : BOOLEAN, uploaded : BOOLEAN, name : {"none", "source", "user"}]
    /\ (~meta.there) => meta = NoMeta
    /\ mine \in Types \cup {None} /\ early \subseteq Requests

Init == \E p \in Plans :
    /\ rom = [c \in Copies |-> IF c \in p.there THEN "before" ELSE "none"]
    /\ entry \in {{}, p.there} /\ label = "file" /\ listable = p.listable
    /\ media = [t \in Types |-> "none"] /\ meta = NoMeta
    /\ req = [r \in Requests |-> [ask |-> p.asks[r], pc |-> "start", copy |-> None, files |-> {}]]
    /\ mine = None /\ early = {}

\* The library lists the playlists' entries, and the backups in content no playlist lists.
Listed == entry \cup {c \in Copies : rom[c] # "none" /\ listable}
Stored == {t \in Types : media[t] # "none"}

At(r, op, pc) == req[r].ask.op = op /\ req[r].pc = pc
Goto(r, pc)   == req' = [req EXCEPT ![r].pc = pc]
Copy(r)       == req[r].ask.copy

(*------------------------------- a scrape --------------------------------*)

\* wanted: a kind it lacks, or any but one the user uploaded when replacing.
WantedAnyway(replace) == replace \/ Stored = {}   \* mutant
Wanted(replace) == IF replace THEN ~meta.uploaded ELSE Stored = {}
ScrapeLooks(r) ==
    /\ At(r, "scrape", "start")
    /\ \/ Wanted(req[r].ask.replace) /\ Goto(r, "get")
       \/ ~Wanted(req[r].ask.replace) /\ \E next \in {"save", "over"} : Goto(r, next)   \* libretro saves
    /\ UNCHANGED <<rom, entry, label, media, meta, listable, theirs>>
\* A download is renamed into the library, or there is none (its details are kept), or it fails.
ScrapeStores(r) ==
    /\ At(r, "scrape", "get")
    /\ \/ /\ media' = [media EXCEPT ![req[r].ask.type] = "source"] /\ Goto(r, "save")
          /\ mine' = IF r \in early THEN None ELSE mine
       \/ UNCHANGED <<media, mine>> /\ \E next \in {"save", "over"} : Goto(r, next)
    /\ early' = early \ {r} /\ UNCHANGED <<rom, entry, label, meta, listable>>
\* save_meta: what the user edited stays.  No result of a write of the file is looked at.
KeptNameFresh(replace) == IF replace \/ meta.name = "none" THEN "source" ELSE meta.name   \* mutant
KeptName(replace) ==
    IF ~meta.edited /\ (replace \/ meta.name = "none") THEN "source" ELSE meta.name
SavedFresh(replace) ==   \* mutant: the record is written anew
    [NoMeta EXCEPT !.there = TRUE, !.edited = meta.edited, !.name = KeptName(replace)]
SavedMeta(replace) == [meta EXCEPT !.there = TRUE, !.name = KeptName(replace)]
SaveMeta(r) ==
    /\ At(r, "scrape", "save")
    /\ meta' \in {meta, SavedMeta(req[r].ask.replace)}
    /\ Goto(r, "over") /\ UNCHANGED <<rom, entry, label, media, listable, theirs>>

(*--------------------------- the user's media ----------------------------*)

UploadStarts(r) ==
    /\ At(r, "media", "start")
    /\ Goto(r, IF Listed # {} THEN "body" ELSE "over")
    /\ UNCHANGED <<rom, entry, label, media, meta, listable, theirs>>
UploadCommits(r) ==
    /\ At(r, "media", "body")
    /\ \/ media' = [media EXCEPT ![req[r].ask.type] = "user"] /\ mine' = None /\ Goto(r, "mark")
       \/ UNCHANGED <<media, mine>> /\ Goto(r, "over")
    /\ UNCHANGED <<rom, entry, label, meta, listable, early>>
\* uploaded: it becomes the kind's only file, and the user's. Another upload's mark may have
\* removed it meanwhile, and a scrape replaced it.
Uploaded(r) == LET t == req[r].ask.type IN
    /\ At(r, "media", "mark")
    /\ media' = [u \in Types |-> IF u = t THEN media[u] ELSE "none"]
    /\ \/ /\ meta' = [meta EXCEPT !.there = TRUE, !.uploaded = TRUE]
          /\ mine' = IF media[t] = "user" THEN t ELSE None
          /\ early' = {s \in Requests : At(s, "scrape", "get")}
       \/ meta' = meta /\ mine' = None /\ UNCHANGED early
    /\ Goto(r, "over") /\ UNCHANGED <<rom, entry, label, listable>>

(*------------------------------ the details ------------------------------*)

\* edit_game: the game is looked up, and then its file written, and the playlists' labels.
EditFinds(r) ==
    /\ At(r, "edit", "start")
    /\ IF Listed = {} THEN Goto(r, "over")
       ELSE \E c \in Listed : req' = [req EXCEPT ![r].pc = "write", ![r].copy = c]
    /\ UNCHANGED <<rom, entry, label, media, meta, listable, theirs>>
Edit(r) ==
    /\ At(r, "edit", "write")
    /\ \/ /\ meta' = [meta EXCEPT !.there = TRUE, !.edited = TRUE, !.name = "user"]
          /\ label' \in {label, IF req[r].copy \in entry THEN "user" ELSE label}
       \/ UNCHANGED <<meta, label>>
    /\ Goto(r, "over") /\ UNCHANGED <<rom, entry, media, listable, theirs>>

(*------------------------------- a deletion ------------------------------*)

\* game_files and disc_files: the copy is listed, and its backup there; with it go the files
\* it names.
DeleteStarts(r) ==
    /\ At(r, "delete", "start")
    /\ IF Copy(r) \in Listed /\ rom[Copy(r)] # "none"
       THEN req' = [req EXCEPT ![r].pc = "forget",
                               ![r].files = {Copy(r)} \cup {d \in Discs[Copy(r)] : rom[d] # "none"}]
       ELSE Goto(r, "over")
    /\ UNCHANGED <<rom, entry, label, media, meta, listable, theirs>>
\* forget_game: the playlists forget the copy, and its details and media go unless another
\* copy uses them; or a playlist cannot be written.
Shared(c) == Listed \ {c} # {}
Forget(r) ==
    /\ At(r, "delete", "forget")
    /\ \/ /\ entry' = entry \ {Copy(r)} /\ Goto(r, "unlink")
          /\ IF Shared(Copy(r)) THEN UNCHANGED <<media, meta, mine>>
             ELSE media' = [t \in Types |-> "none"] /\ meta' = NoMeta /\ mine' = None
       \/ entry # {} /\ Goto(r, "over") /\ UNCHANGED <<entry, media, meta, mine>>
    /\ UNCHANGED <<rom, label, listable, early>>
\* Each may fail to go.
DeleteUnlinks(r) ==
    /\ At(r, "delete", "unlink")
    /\ \E gone \in SUBSET req[r].files : rom' = [c \in Copies |-> IF c \in gone THEN "none" ELSE rom[c]]
    /\ Goto(r, "over") /\ UNCHANGED <<entry, label, media, meta, listable, theirs>>

(*------------------------- a backup sent by the page ---------------------*)

\* To replace one: only with the user's consent if there is a file, and looked up again
\* when its bytes are there.
Replaceable(r) == Copy(r) \in Listed /\ rom[Copy(r)] # "none"
ReplaceStarts(r) ==
    /\ At(r, "replace", "start") /\ Goto(r, IF Replaceable(r) THEN "body" ELSE "over")
    /\ UNCHANGED <<rom, entry, label, media, meta, listable, theirs>>
ReplaceChecks(r) ==
    /\ At(r, "replace", "body") /\ Goto(r, IF Replaceable(r) THEN "commit" ELSE "over")
    /\ UNCHANGED <<rom, entry, label, media, meta, listable, theirs>>
ReplaceCommits(r) ==
    /\ At(r, "replace", "commit")
    /\ \E to \in {r, rom[Copy(r)]} : rom' = [rom EXCEPT ![Copy(r)] = to]
    /\ Goto(r, "over") /\ UNCHANGED <<entry, label, media, meta, listable, theirs>>

\* To add one: no game of this name, no file at its place; put there unless a file came
\* meanwhile, and taken back when the library cannot list it.
Addable(c) == Listed = {} /\ rom[c] = "none"
AddStarts(r) ==
    /\ At(r, "add", "start")
    /\ Goto(r, IF Addable(Copy(r)) THEN "body" ELSE "over")
    /\ UNCHANGED <<rom, entry, label, media, meta, listable, theirs>>
MayPutAnyway(c) == TRUE   \* mutant: committed as a replacement
MayPut(c) == rom[c] = "none"
AddCommits(r) ==
    /\ At(r, "add", "body")
    /\ \/ MayPut(Copy(r)) /\ rom' = [rom EXCEPT ![Copy(r)] = r] /\ Goto(r, "list")
       \/ UNCHANGED rom /\ Goto(r, "over")
    /\ UNCHANGED <<entry, label, media, meta, listable, theirs>>
AddLists(r) ==
    /\ At(r, "add", "list")
    /\ rom' = IF Copy(r) \in Listed THEN rom ELSE [rom EXCEPT ![Copy(r)] = "none"]
    /\ Goto(r, "over") /\ UNCHANGED <<entry, label, media, meta, listable, theirs>>

\* RetroArch's scan adds what is there to its playlists.
Scan ==
    /\ entry' = entry \cup {c \in Copies : rom[c] # "none" /\ listable} /\ entry' # entry
    /\ UNCHANGED <<rom, label, media, meta, req, listable, theirs>>

Step(r) ==
    \/ ScrapeLooks(r) \/ ScrapeStores(r) \/ SaveMeta(r)
    \/ UploadStarts(r) \/ UploadCommits(r) \/ Uploaded(r) \/ EditFinds(r) \/ Edit(r)
    \/ DeleteStarts(r) \/ Forget(r) \/ DeleteUnlinks(r)
    \/ ReplaceStarts(r) \/ ReplaceChecks(r) \/ ReplaceCommits(r)
    \/ AddStarts(r) \/ AddCommits(r) \/ AddLists(r)
Next == Scan \/ \E r \in Requests : Step(r)
Spec == Init /\ [][Next]_vars

(*------------------------------ properties -------------------------------*)

\* What the user wrote for a game stays theirs while the game's record is kept: no scrape at
\* the same time, replacing or not, changes the name they gave (save_meta), nor forgets that
\* they uploaded a media.
EditsKept == meta.there /\ meta'.there =>
    /\ meta.edited => meta'.edited /\ meta'.name = meta.name
    /\ meta.uploaded => meta'.uploaded

\* The media the user uploaded is the kind's only file, and marked as theirs, once it was told
\* to be: until they replace it or delete the game, whatever scrapes begin after the mark
\* (wanted, uploaded). One that looked before may still store its own over it.
MediaIsTheirs == mine # None => media[mine] = "user" /\ Stored = {mine} /\ meta.uploaded

\* A backup is replaced or removed only by a request that asked for that, of it or of an
\* image that names it, or by the addition that put it there: two additions of one name never
\* lose either's file.
Asks(r, c) ==
    \/ req[r].ask.op = "replace" /\ Copy(r) = c
    \/ req[r].ask.op = "delete" /\ c \in {Copy(r)} \cup Discs[Copy(r)]
    \/ rom[c] = r
BackupsKept == \A c \in Copies : rom[c] # "none" /\ rom'[c] # rom[c] =>
    \E r \in Requests : req'[r] # req[r] /\ Asks(r, c)

\* "Marks it the user's: no scrape replaces it" (scraper.h): none, however early it looked.
UserKeeps == [][\A t \in Types : media[t] = "user" /\ media'[t] = "source" => ~meta.uploaded]_vars
\* "Once committed, uploaded() makes it the kind's only file" (scraper.h): it is there.
UploadStays == [][\A r \in Requests :
    At(r, "media", "mark") /\ req'[r].pc = "over" => media'[req[r].ask.type] # "none"]_vars
=============================================================================
