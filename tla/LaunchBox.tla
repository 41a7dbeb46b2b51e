------------------------------ MODULE LaunchBox ------------------------------
(***************************************************************************)
(* The LaunchBox database the scraper keeps on the console                  *)
(* (src/src/scraper.cpp): one download a month, cut into an index file per  *)
(* platform, which the workers and the page's searches read into memory     *)
(* once per server.  Everything up to the answer happens under one lock.    *)
(***************************************************************************)
EXTENDS Naturals

CONSTANTS
    Platforms,   \* the platforms the library can have
    Askers,      \* the workers of a job, and the page's searches
    Searches,    \* the page's searches among them
    MaxEdition,  \* bound: the editions LaunchBox publishes
    MaxCrashes,  \* bound: the crashes
    CanFail      \* the opening or the renaming of one file may fail

LaunchBoxAssumption ==
    /\ MaxEdition \in Nat \ {0} /\ MaxCrashes \in Nat /\ CanFail \in BOOLEAN
    /\ Searches \subseteq Askers

VARIABLES
    site,       \* the edition LaunchBox offers
    marker,     \* index.done: absent, less than a month old, older
    zip,        \* the edition in Metadata.zip, 0 when it is not there
    fresh,      \* each platform's .new file
    index,      \* each platform's .index file
    memory,     \* each platform's index in memory
    todo,       \* the .new files still to be renamed
    pc,         \* where each asker is
    at,         \* the platform whose index it holds
    running,    \* the job's state
    crashes

vars == <<site, marker, zip, fresh, index, memory, todo, pc, at, running, crashes>>

\* A file holds a whole edition, part of one, or is not there (0).
Missing == 0
Part    == MaxEdition + 1
Unread  == MaxEdition + 2
Editions == 1 .. MaxEdition

Building == {"download", "open", "read", "rename", "mark"}

TypeOK ==
    /\ site \in Editions /\ marker \in {"none", "fresh", "old"} /\ zip \in 0 .. MaxEdition
    /\ fresh \in [Platforms -> 0 .. Part] /\ index \in [Platforms -> 0 .. Part]
    /\ memory \in [Platforms -> 0 .. Unread] /\ todo \subseteq Platforms
    /\ pc \in [Askers -> Building \cup {"out", "ask", "pause", "told", "match", "images"}]
    /\ at \in [Askers -> Platforms]
    /\ running \in BOOLEAN /\ crashes \in 0 .. MaxCrashes

Init ==
    /\ site = 1 /\ marker = "none" /\ zip = 0 /\ todo = {} /\ running = TRUE /\ crashes = 0
    /\ fresh = [p \in Platforms |-> Missing] /\ index = fresh
    /\ memory = [p \in Platforms |-> Unread] /\ pc = [a \in Askers |-> "out"]
    /\ at = [a \in Askers |-> CHOOSE p \in Platforms : TRUE]

Unlocked == \A a \in Askers : pc[a] \notin Building

Disk == <<site, marker, zip, fresh, index, todo>>

\* A worker takes a game of a running job; the page may search at any time.
Ask(a) ==
    /\ pc[a] = "out" /\ (running \/ a \in Searches) /\ pc' = [pc EXCEPT ![a] = "ask"]
    /\ UNCHANGED <<Disk, memory, at, running, crashes>>

(*------------------------ launchbox_prepare's steps ----------------------*)

\* A download is needed when none was read this month.
Due == marker # "fresh"

\* Under the lock: ready, or the job is no longer running, or this asker builds.
Enter(a) ==
    /\ pc[a] = "ask" /\ Unlocked
    /\ pc' = [pc EXCEPT ![a] = IF ~Due THEN "told"
                              ELSE IF running \/ a \in Searches THEN "download" ELSE "out"]
    /\ UNCHANGED <<Disk, memory, at, running, crashes>>

\* A failure or a cancellation answers false; then, the lock let go, a worker pauses its job.
GiveUp(a) == pc' = [pc EXCEPT ![a] = IF a \in Searches THEN "out" ELSE "pause"]
Pause(a) ==
    /\ pc[a] = "pause" /\ pc' = [pc EXCEPT ![a] = "out"] /\ running' = FALSE
    /\ UNCHANGED <<Disk, memory, at, crashes>>

Download(a) ==
    /\ pc[a] = "download"
    /\ \/ zip' = site /\ pc' = [pc EXCEPT ![a] = "open"]
       \/ GiveUp(a) /\ UNCHANGED zip
    /\ UNCHANGED <<site, marker, fresh, index, todo, memory, at, running, crashes>>

\* A file that cannot be opened is passed over: a .new left by another attempt stays.
Open(a) ==
    /\ pc[a] = "open" /\ pc' = [pc EXCEPT ![a] = "read"]
    /\ \E shut \in SUBSET Platforms :
        /\ shut # {} => CanFail
        /\ fresh' = [p \in Platforms |-> IF p \in shut THEN fresh[p] ELSE Part]
        /\ todo' = Platforms \ shut
    /\ UNCHANGED <<site, marker, zip, index, memory, at, running, crashes>>

WholeOrNot(read) == TRUE \* mutant
Whole(read) == read

\* The zip is read through and removed; a part read is not put in use.
Read(a) ==
    /\ pc[a] = "read" /\ zip' = 0
    /\ \E read \in BOOLEAN :
        /\ fresh' = [p \in Platforms |-> IF read /\ p \in todo THEN zip ELSE fresh[p]]
        /\ IF Whole(read)
           THEN pc' = [pc EXCEPT ![a] = "rename"] /\ todo' = Platforms
           ELSE GiveUp(a) /\ todo' = {}
    /\ UNCHANGED <<site, marker, index, memory, at, running, crashes>>

Rename(a, p) ==
    /\ pc[a] = "rename" /\ p \in todo /\ todo' = todo \ {p}
    /\ \/ fresh[p] # Missing /\ index' = [index EXCEPT ![p] = fresh[p]]
                             /\ fresh' = [fresh EXCEPT ![p] = Missing]
       \/ (CanFail \/ fresh[p] = Missing) /\ UNCHANGED <<index, fresh>>
    /\ UNCHANGED <<site, marker, zip, memory, pc, at, running, crashes>>

RenamedOne == todo # Platforms \* mutant
Renamed == todo = {}

\* write_atomic's result is not looked at.
Mark(a) ==
    /\ pc[a] = "rename" /\ Renamed /\ todo' = {}
    /\ marker' \in {marker, "fresh"} /\ pc' = [pc EXCEPT ![a] = "told"]
    /\ UNCHANGED <<site, zip, fresh, index, memory, at, running, crashes>>

(*--------------------------------- readers -------------------------------*)

\* What launchbox_index keeps of what it found: read once per server.
Remembered(p) == IF memory[p] = Unread THEN index[p] ELSE memory[p]

\* A search of every platform of the system, or a game's index held for its images.
Look(a) ==
    /\ pc[a] = "told" /\ Unlocked
    /\ \E ps \in SUBSET Platforms :
        /\ memory' = [p \in Platforms |-> IF p \in ps THEN Remembered(p) ELSE memory[p]]
        /\ \/ pc' = [pc EXCEPT ![a] = "out"] /\ UNCHANGED at
           \/ \E p \in ps : at' = [at EXCEPT ![a] = p] /\ pc' = [pc EXCEPT ![a] = "match"]
    /\ UNCHANGED <<Disk, running, crashes>>

\* holder->images[id] adds an entry to the map for a game that has none, outside any lock.
Images(a) ==
    /\ pc[a] \in {"match", "images"}
    /\ pc' = [pc EXCEPT ![a] = IF @ = "match" THEN "images" ELSE "out"]
    /\ UNCHANGED <<Disk, memory, at, running, crashes>>

(*------------------------------ the world --------------------------------*)

MonthPasses ==
    /\ marker = "fresh" /\ marker' = "old"
    /\ UNCHANGED <<site, zip, fresh, index, todo, memory, pc, at, running, crashes>>

Published ==
    /\ site < MaxEdition /\ site' = site + 1
    /\ UNCHANGED <<marker, zip, fresh, index, todo, memory, pc, at, running, crashes>>

\* The user stops the job, and resumes it.
CancelOrResume ==
    /\ running' = ~running
    /\ UNCHANGED <<Disk, memory, pc, at, crashes>>

Crash ==
    /\ crashes < MaxCrashes /\ crashes' = crashes + 1
    /\ memory' = [p \in Platforms |-> Unread] /\ todo' = {} /\ pc' = [a \in Askers |-> "out"]
    /\ UNCHANGED <<site, marker, zip, fresh, index, at, running>>

Work(a) ==
    \/ Enter(a) \/ Pause(a) \/ Download(a) \/ Open(a) \/ Read(a) \/ Mark(a) \/ Look(a) \/ Images(a)
    \/ \E p \in Platforms : Rename(a, p)

Next == (\E a \in Askers : Ask(a) \/ Work(a)) \/ MonthPasses \/ Published \/ CancelOrResume \/ Crash

Spec == Init /\ [][Next]_vars

(*------------------------------- properties ------------------------------*)

\* launchbox_prepare writes index.done last: what it vouches for is every platform's file,
\* whole and of one edition, whichever attempts were cut short before.
MarkedIsBuilt == marker = "fresh" =>
    \E e \in Editions : \A p \in Platforms : index[p] = e

\* launchbox_index reads while no file is being replaced: what the server keeps for the rest
\* of its run is a whole edition, never part of one nor a file still to come.
MemoryIsWhole == \A p \in Platforms : memory[p] \in Editions \cup {Unread}

\* scraper.cpp calls it "a platform's index in memory, read once per server": two workers
\* at once never change one.
ReadOnceAlone == \A a, b \in Askers :
    (a # b /\ pc[a] = "images" /\ pc[b] = "images") => at[a] # at[b]
=============================================================================
